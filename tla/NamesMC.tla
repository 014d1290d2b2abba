------------------------------- MODULE NamesMC -------------------------------
(* Instances of FsNames for TLC *)
EXTENDS FsNames

Rel(names) == [abs |-> FALSE, names |-> names]
Abs(names) == [abs |-> TRUE, names |-> names]

NamesPaths == {Rel(<<"b">>), Abs(<<"a">>), Abs(<<"a", "b">>), Rel(<<"..", "b">>)}
NamesDirModes == {"I_DIRECTORY", "LOCKED"}
\* Paths that lead to a disagreement (see README.md)
DotPaths    == {Rel(<<"a">>), Rel(<<"b">>), Rel(<<"a", ".">>)}
LoopPaths   == {Rel(<<"a">>), Rel(<<"b">>), Rel(<<"..", "a">>)}
LockedPaths == {Rel(<<"a">>), Abs(<<"a", "b">>), Rel(<<"b">>)}
DeepPaths   == {Rel(<<"a">>), Abs(<<"a", "b">>), Abs(<<"a", "b", "a">>)}

(* limits.h:54: "# links a file may have" *)
LinksLimited == \A i \in Inodes : Links(f, i) <= LINK_MAX
=============================================================================
