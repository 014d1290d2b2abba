------------------------------ MODULE BlockStore ------------------------------
(***************************************************************************)
(* What the block cache promises (fs/cache.c): programs see their devices  *)
(* as if there were no cache.                                              *)
(***************************************************************************)
CONSTANTS Sectors, Data,
          MayFail       \* the sectors whose transfers may fail

VARIABLES contents,     \* what a program reads in a sector
          stored,       \* what is on the medium
          in_use        \* the sectors that somebody is working on

Init == contents = stored /\ stored \in [Sectors -> Data]

(* Only who works on a sector changes it; an error may undo changes that   *)
(* are not stored yet; and what gets stored is what programs read.         *)
Next ==
  /\ contents' \in [Sectors -> Data]
  /\ \A s \in Sectors :
       /\ stored'[s] \in {stored[s], contents[s]}
       /\ contents'[s] # contents[s] =>
            s \in in_use' \/ (s \in MayFail /\ contents'[s] = stored[s])

Spec == Init /\ [][Next]_<<contents, stored, in_use>>
=============================================================================
