-------------------------------- MODULE Names --------------------------------
(***************************************************************************)
(* Inodes, directories and path names of one file system (fs/inode.c,      *)
(* fs/path.c, and the calls of fs/open.c, fs/link.c and fs/stadir.c that   *)
(* change the tree).  FS serves one call at a time, so each routine is an  *)
(* operator on the record f of its tables and its blocks; what goes wrong  *)
(* goes wrong on the error paths, or over many calls.                      *)
(*                                                                         *)
(* Blocks are as FS sees them, through its cache.  When they reach the     *)
(* disk is left to the cache (module FsCache): in this build (ROBUST is 0, *)
(* config.h:25) inodes and directories are written when their buffers are, *)
(* in any order.                                                           *)
(*                                                                         *)
(* Permissions are left out, except that a directory may be one which its  *)
(* owner may not write.  Mounts, times and the data of files are left out. *)
(***************************************************************************)
EXTENDS Integers, SequencesExt

CONSTANTS Procs,
          Inodes,           \* 1 .. the inodes of the device
          NR_LINKS,         \* nlink_t counts modulo this: 256
          LINK_MAX,         \* 127
          NR_DIR_ENTRIES,   \* entries of a directory block: 64
          Strings           \* the names of files

NIL        == 0
ROOT_INODE == 1
OWN        == {".", ".."}
Dirs       == {"I_DIRECTORY", "LOCKED"}    \* LOCKED: its owner may not write it
Types      == Dirs \cup {"I_REGULAR", "I_NOT_ALLOC"}

ASSUME NamesAssumption ==
  /\ {NR_LINKS, LINK_MAX, NR_DIR_ENTRIES} \subseteq Nat \ {0}
  /\ Inodes \subseteq Nat \ {NIL} /\ ROOT_INODE \in Inodes /\ IsFiniteSet(Inodes)
  /\ Strings \cap (OWN \cup {""}) = {}

(* room: the slots of the inode table that the rest of the system leaves;  *)
(* full: the device has no free zone during this call; got and err: the    *)
(* inode that a routine returns, and err_code; crashed: NIL_INODE was used *)
Inode  == [mode : Types, nlinks : 0 .. NR_LINKS - 1]
Tables ==
  [inode   : [Inodes -> Inode],                    \* in the table
   d_inode : [Inodes -> Inode],                    \* in its block
   i_dirt  : SUBSET Inodes,
   i_count : [Inodes -> Nat],
   s_imap  : SUBSET Inodes,
   entries : [Inodes -> SUBSET ((Strings \cup OWN) \X Inodes)],
   slots   : [Inodes -> Nat],                      \* i_size
   room    : Nat,
   full    : BOOLEAN,
   got     : Inodes \cup {NIL},
   err     : {"OK", "ENOENT", "ENOTDIR", "ENFILE", "ENOSPC", "EEXIST", "EISDIR",
              "EPERM", "EBUSY", "ENOTEMPTY", "EMLINK", "EINVAL", "SAME"},
   crashed : BOOLEAN]

Error(f, e)  == [f EXCEPT !.got = NIL, !.err = e]
Mode(f, i)   == f.inode[i].mode
Links(f, i)  == f.inode[i].nlinks

AddLinks(f, i, n) == [f EXCEPT !.inode[i].nlinks = (@ + n) % NR_LINKS, !.i_dirt = @ \cup {i}]

-----------------------------------------------------------------------------
(* fs/inode.c.  What the table holds of an inode that nobody uses is not   *)
(* looked at: it is kept equal to the copy in its block.                   *)

InTable(f) == {i \in Inodes : f.i_count[i] > 0}

get_inode(f, i) ==
  IF i \notin InTable(f) /\ Cardinality(InTable(f)) = f.room THEN Error(f, "ENFILE")
  ELSE [f EXCEPT !.i_count[i] = @ + 1, !.got = i]

dup_inode(f, i) == [f EXCEPT !.i_count[i] = @ + 1]

(* to write: the inode is copied to its block, which is marked DIRTY *)
rw_inode(f, i) == [f EXCEPT !.d_inode[i] = f.inode[i], !.i_dirt = @ \ {i}]

(* truncate() and free_inode() of an inode that has no links *)
Free(f, i) ==
  IF Links(f, i) # 0 THEN f
  ELSE [f EXCEPT !.s_imap = @ \ {i}, !.i_dirt = @ \cup {i}, !.inode[i].mode = "I_NOT_ALLOC",
                 !.entries[i] = {}, !.slots[i] = 0]

put_inode(f, i) ==
  LET g == [f EXCEPT !.i_count[i] = @ - 1]
      h == Free(g, i)
      w == IF i \in h.i_dirt THEN rw_inode(h, i) ELSE h
  IN  IF i = NIL THEN f
      ELSE IF g.i_count[i] # 0 THEN g
      ELSE [w EXCEPT !.inode[i] = w.d_inode[i]]

(* alloc_bit() finds the first free bit of the map *)
alloc_inode(f, mode) ==
  LET free == Inodes \ f.s_imap
      i    == Min(free)
      g    == get_inode(f, i)
  IN  IF free = {} THEN Error(f, "ENFILE")
      ELSE IF g.got = NIL THEN g
      ELSE [g EXCEPT !.s_imap = @ \cup {i}, !.inode[i] = [mode |-> mode, nlinks |-> 0],
                     !.i_dirt = @ \cup {i}, !.entries[i] = {}, !.slots[i] = 0]

-----------------------------------------------------------------------------
(* fs/path.c.  A path is its components and whether it starts with "/".    *)
(* search_dir() looks for a name, or for any but . and .. if it is empty.  *)

Matches(f, dir, string) ==
  {e \in f.entries[dir] : IF string = "" THEN e[1] \notin OWN ELSE e[1] = string}

(* DELETE; what the caller may not write stays as it is *)
Deletes(f, dir, string) == Mode(f, dir) = "I_DIRECTORY" /\ Matches(f, dir, string) # {}

Delete(f, dir, string) ==
  LET e == CHOOSE e \in Matches(f, dir, string) : TRUE
      g == get_inode(f, e[2])
      h == [g EXCEPT !.entries[dir] = @ \ {e}]
  IN  IF ~ Deletes(f, dir, string) THEN f
      ELSE [put_inode(h, g.got) EXCEPT !.got = f.got, !.err = f.err]

(* ENTER takes a free slot or makes the directory longer *)
Enter(f, dir, string, i) ==
  LET used == Cardinality(f.entries[dir])
      room == used < f.slots[dir] \/ f.slots[dir] % NR_DIR_ENTRIES # 0 \/ ~ f.full
  IN  IF Mode(f, dir) # "I_DIRECTORY" THEN Error(f, "ENOTDIR")
      ELSE IF ~ room THEN Error(f, "ENOSPC")
      ELSE [f EXCEPT !.entries[dir] = @ \cup {<<string, i>>}, !.i_dirt = @ \cup {dir},
                     !.slots[dir] = IF used < @ THEN @ ELSE @ + 1, !.err = "OK"]

advance(f, dir, string) ==
  IF dir = NIL THEN Error(f, f.err)
  ELSE IF string = "" THEN get_inode(f, dir)
  ELSE IF Mode(f, dir) \notin Dirs THEN Error(f, "ENOTDIR")
  ELSE IF Matches(f, dir, string) = {} THEN Error(f, "ENOENT")
  ELSE get_inode(f, (CHOOSE e \in Matches(f, dir, string) : TRUE)[2])

LastName(path) == IF path.names = <<>> THEN "" ELSE Last(path.names)

StepLeaks(g, string) ==                                   \* mutant of Step
  LET a == advance(g, g.got, string)
  IN  IF a.got = NIL THEN a ELSE [put_inode(a, g.got) EXCEPT !.got = a.got]

(* One component further *)
Step(g, string) == LET a == advance(g, g.got, string)
                   IN  [put_inode(a, g.got) EXCEPT !.got = a.got]

(* The directory in which a path ends *)
last_dir(f, workdir, path) ==
  LET start == IF path.abs THEN ROOT_INODE ELSE workdir
  IN  IF Links(f, start) = 0 THEN Error(f, "ENOENT")
      ELSE FoldLeft(Step, [dup_inode(f, start) EXCEPT !.got = start],
                    IF path.names = <<>> THEN <<>> ELSE Front(path.names))

eat_path(f, workdir, path) ==
  LET l == last_dir(f, workdir, path)
      a == advance(l, l.got, LastName(path))
  IN  IF l.got = NIL \/ LastName(path) = "" THEN l
      ELSE [put_inode(a, l.got) EXCEPT !.got = a.got]

-----------------------------------------------------------------------------
(* fs/open.c *)

UndoneKeeps(f, dir, i) == put_inode(put_inode(f, dir), i)  \* mutant of Undone

(* The new inode could not be entered *)
Undone(f, dir, i) == put_inode(AddLinks(put_inode(f, dir), i, -1), i)

(* A new inode is copied to its block before it gets its entry *)
FirstLink(f, i) == rw_inode(AddLinks(f, i, 1), i)

(* The directory is open, the name is new in it, and i is for it *)
Named(f, dir, string, i) ==
  LET e == Enter(FirstLink(f, i), dir, string, i)
  IN  IF e.err = "OK" THEN put_inode(e, dir) ELSE Undone(e, dir, i)

NewIn(l, string, mode) ==
  LET a == advance(l, l.got, string)
      n == alloc_inode(a, mode)
  IN  IF l.got = NIL THEN l
      ELSE IF a.got # NIL THEN [put_inode(a, l.got) EXCEPT !.err = "EEXIST"]
      ELSE IF a.err # "ENOENT" THEN put_inode(a, l.got)
      ELSE IF n.got = NIL THEN put_inode(n, l.got)
      ELSE Named(n, l.got, string, n.got)

new_node(f, workdir, path, mode) == NewIn(last_dir(f, workdir, path), LastName(path), mode)

(* common_open(): a file that exists is opened unless O_EXCL is set, but a *)
(* directory only for reading                                              *)
creat(f, workdir, path, excl) ==
  LET n == new_node(f, workdir, path, "I_REGULAR")
  IN  IF n.err # "EEXIST" THEN n
      ELSE IF excl THEN Error(put_inode(n, n.got), "EEXIST")
      ELSE IF Mode(n, n.got) \in Dirs THEN Error(put_inode(n, n.got), "EISDIR")
      ELSE [n EXCEPT !.err = "OK"]

do_mknod(f, workdir, path) ==
  LET n == new_node(f, workdir, path, "I_REGULAR") IN put_inode(n, n.got)

(* . and .. are entered whatever the mode is going to be *)
Unlocked(f, i)     == [f EXCEPT !.inode[i].mode = "I_DIRECTORY"]
Locked(f, i, mode) == [f EXCEPT !.inode[i].mode = mode]

(* The new directory i gets its two entries, or loses its own *)
OwnEntries(f, i, dir, string) ==
  LET e1 == Enter(Unlocked(f, i), i, ".", i)
      e2 == Enter(e1, i, "..", dir)
  IN  IF e1.err = "OK" /\ e2.err = "OK" THEN AddLinks(AddLinks(e2, i, 1), dir, 1)
      ELSE AddLinks([Delete(e2, dir, string) EXCEPT !.err = "ENOSPC"], i, -1)

MadeIn(l, i, string, mode) ==
  IF l.got = NIL THEN [l EXCEPT !.crashed = TRUE]
  ELSE put_inode(put_inode(Locked(OwnEntries(l, i, l.got, string), i, mode), l.got), i)

do_mkdir(f, workdir, path, mode) ==
  LET n == new_node(f, workdir, path, mode)
  IN  IF n.got = NIL THEN n
      ELSE IF n.err = "EEXIST" THEN put_inode(n, n.got)
      ELSE MadeIn(last_dir(n, workdir, path), n.got, LastName(path), mode)

-----------------------------------------------------------------------------
(* fs/link.c.  A call answers with its own error, in r. *)

Answer(f, r) == [f EXCEPT !.got = NIL, !.err = r]

(* The new entry for the inode i, in the directory that has been found *)
LinkIn(l, i, string) ==
  LET new  == advance(l, l.got, string)
      e    == Enter(new, l.got, string, i)
      done == IF e.err = "OK" THEN AddLinks(e, i, 1) ELSE e
      Put(g) == put_inode(put_inode(g, i), l.got)
  IN  IF l.got = NIL THEN Answer(put_inode(l, i), l.err)
      ELSE IF new.got # NIL THEN Answer(Put(put_inode(new, new.got)), "EEXIST")
      ELSE IF new.err # "ENOENT" THEN Answer(Put(new), new.err)
      ELSE Answer(Put(done), e.err)

do_link(f, workdir, path1, path2) ==
  LET old == eat_path(f, workdir, path1)
      r   == IF Links(old, old.got) = LINK_MAX THEN "EMLINK"
             ELSE IF Mode(old, old.got) \in Dirs THEN "EPERM" ELSE "OK"
  IN  IF old.got = NIL THEN old
      ELSE IF r # "OK" THEN Answer(put_inode(old, old.got), r)
      ELSE LinkIn(last_dir(old, workdir, path2), old.got, LastName(path2))

(* A trailing "/." is cut off, again and again *)
Stripped(path) ==
  LET n == Max({k \in DOMAIN path.names : path.names[k] # "."} \cup {1})
  IN  [path EXCEPT !.names = IF @ = <<>> THEN @ ELSE SubSeq(@, 1, n)]

(* unlink() of a file.  Only the superuser may unlink directories. *)
do_unlink(f, workdir, path0) ==
  LET path == Stripped(path0)
      l == last_dir(f, workdir, path)
      a == advance(l, l.got, LastName(path))
      r == IF Mode(a, a.got) \in Dirs THEN "EPERM"
           ELSE IF Deletes(a, l.got, LastName(path)) THEN "OK" ELSE "EPERM"
      d == AddLinks(Delete(a, l.got, LastName(path)), a.got, -1)
  IN  IF l.got = NIL THEN l
      ELSE IF a.got = NIL THEN put_inode(a, l.got)
      ELSE Answer(put_inode(put_inode(IF r = "OK" THEN d ELSE a, a.got), l.got), r)

(* rmdir(): r, if the directory may not be removed; in_use: the working    *)
(* and root directories                                                    *)
MayRemove(f, path, dir, i, in_use) ==
  CASE Mode(f, i) \notin Dirs            -> "ENOTDIR"
    [] i \in in_use                      -> "EBUSY"
    [] LastName(path) \in OWN \cup {""}  -> "EPERM"
    [] Matches(f, i, "") # {}            -> "ENOTEMPTY"
    [] ~ Deletes(f, dir, LastName(path)) -> "EPERM"
    [] OTHER                             -> "OK"

UncountNot(f, dir, string, i) == Delete(f, dir, string)    \* mutant of Uncount

(* An entry that is deleted no longer counts for the inode i *)
Uncount(f, dir, string, i) ==
  IF Deletes(f, dir, string) THEN AddLinks(Delete(f, dir, string), i, -1) ELSE f

do_rmdir(f, workdir, path0, in_use) ==
  LET path == Stripped(path0)
      l    == last_dir(f, workdir, path)
      dir  == l.got
      a    == advance(l, dir, LastName(path))
      i    == a.got
      r    == MayRemove(a, path, dir, i, in_use)
      d    == Unlocked(Delete(a, dir, LastName(path)), i)
      both == Deletes(d, i, ".") /\ Deletes(d, i, "..")
      done == Locked(Uncount(Uncount(d, i, ".", i), i, "..", dir), i, Mode(a, i))
  IN  IF dir = NIL THEN l
      ELSE IF i = NIL THEN put_inode(a, dir)
      ELSE IF r # "OK" THEN Answer(put_inode(put_inode(a, i), dir), r)
      ELSE IF both THEN Answer(put_inode(put_inode(AddLinks(done, i, -1), i), dir), "OK")
      ELSE Answer(put_inode(put_inode(done, i), dir), "ENOENT")

(* rename(): the last test that fails gives the answer *)
MayRename(f, path1, path2, old_dirp, old_ip, new_dirp, new_ip) ==
  LET odir == Mode(f, old_ip) \in Dirs
      ndir == Mode(f, new_ip) \in Dirs
  IN  CASE new_ip # NIL /\ ndir /\ Matches(f, new_ip, "") # {} -> "ENOTEMPTY"
        [] new_ip # NIL /\ old_ip = new_ip                     -> "SAME"
        [] new_ip # NIL /\ ndir /\ ~ odir                      -> "EISDIR"
        [] new_ip # NIL /\ odir /\ ~ ndir                      -> "ENOTDIR"
        [] \E d \in {old_dirp, new_dirp} : Mode(f, d) # "I_DIRECTORY" -> "EPERM"
        [] path1.abs = path2.abs /\ IsPrefix(path1.names, path2.names) -> "EINVAL"
        [] ~ path1.abs /\ path1.names \in {<<".">>, <<"..">>}   -> "EINVAL"
        [] OTHER                                               -> "OK"

MovedOnly(f, i, from, to) == f                             \* mutant of Moved

(* A directory that moves gets a new parent *)
Moved(f, i, from, to) == Enter(Delete(AddLinks(f, from, -1), i, ".."), i, "..", to)

(* The entry that was there is deleted first, so there is room *)
Replaced(f, dir, string, i) == Enter(Delete(f, dir, string), dir, string, i)

(* Case 1: 'new' does not exist; case 2: it does, and is replaced *)
NewEntry(f, dir, string, i, odir) ==
  LET e == Enter(f, dir, string, i)
  IN  IF e.err = "OK" /\ odir THEN AddLinks(e, dir, 1) ELSE e

Over(f, dir, string, i, new_ip, odir) ==
  AddLinks(Replaced(f, dir, string, i), new_ip, IF odir THEN -2 ELSE -1)

(* The four inodes have been found: the changes that rename() makes *)
Changed(f, name1, name2, old_dirp, old_ip, new_dirp, new_ip) ==
  LET odir == Mode(f, old_ip) \in Dirs
      e == IF new_ip = NIL THEN NewEntry(f, new_dirp, name2, old_ip, odir)
           ELSE Over(f, new_dirp, name2, old_ip, new_ip, odir)
  IN  IF e.err # "OK" THEN e
      ELSE [Delete(IF odir THEN Moved(e, old_ip, old_dirp, new_dirp) ELSE e, old_dirp, name1)
              EXCEPT !.err = "OK"]

Renamed(f, path1, path2, old_dirp, old_ip, new_dirp, new_ip) ==
  LET r == IF NIL \in {old_ip, new_dirp} THEN "ENOENT"
           ELSE MayRename(f, path1, path2, old_dirp, old_ip, new_dirp, new_ip)
      s == IF r # "OK" THEN f
           ELSE Changed(f, LastName(path1), LastName(path2), old_dirp, old_ip, new_dirp, new_ip)
      Put(g, i) == put_inode(g, i)
  IN  Answer(FoldLeft(Put, s, <<old_dirp, old_ip, new_dirp, new_ip>>),
             IF r = "SAME" THEN "OK" ELSE IF r # "OK" THEN r ELSE s.err)

do_rename(f, workdir, path1, path2) ==
  LET ol == last_dir(f, workdir, path1)
      oi == advance(ol, ol.got, LastName(path1))
      nl == last_dir(oi, workdir, path2)
      ni == advance(nl, nl.got, LastName(path2))
  IN  IF ol.got = NIL THEN ol
      ELSE Renamed(ni, path1, path2, ol.got, oi.got, nl.got, ni.got)
=============================================================================
