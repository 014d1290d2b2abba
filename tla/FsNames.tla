------------------------------- MODULE FsNames -------------------------------
(***************************************************************************)
(* Programs that make, name, rename and remove files and directories, use  *)
(* them and walk about, on a device that may be full.                      *)
(***************************************************************************)
EXTENDS Names

CONSTANTS Paths,        \* the paths that programs name
          DirModes,     \* the modes that mkdir() is given
          Rooms,        \* the slots of the inode table that they may find
          Wild          \* mkdir() and rename() are called whatever the paths and the room

VARIABLES f,            \* the tables, and the blocks of the disk
          workdir,      \* fp_workdir of the programs; fp_rootdir is the root
          fd            \* the file that a program has open

vars == <<f, workdir, fd>>

(* mkfs made the root, mounted as its own root: s_imount and s_isup *)
Empty == [mode |-> "I_NOT_ALLOC", nlinks |-> 0]
Root  == [mode |-> "I_DIRECTORY", nlinks |-> 2]
Init ==
  LET disk == [i \in Inodes |-> IF i = ROOT_INODE THEN Root ELSE Empty]
  IN  /\ \E room \in Rooms : f =
             [inode |-> disk, d_inode |-> disk, i_dirt |-> {},
              i_count |-> [i \in Inodes |-> IF i = ROOT_INODE THEN 2 + 2 * Cardinality(Procs) ELSE 0],
              s_imap  |-> {ROOT_INODE},
              entries |-> [i \in Inodes |-> IF i = ROOT_INODE THEN OWN \X {i} ELSE {}],
              slots   |-> [i \in Inodes |-> IF i = ROOT_INODE THEN 2 ELSE 0],
              room |-> room, full |-> FALSE, got |-> NIL, err |-> "OK", crashed |-> FALSE]
      /\ workdir = [p \in Procs |-> ROOT_INODE]
      /\ fd = [p \in Procs |-> NIL]

(* What is left of a call: the tables, and whether it succeeded *)
Settle(g) == f' = [g EXCEPT !.full = FALSE, !.got = NIL, !.err = IF @ = "OK" THEN @ ELSE "ENOENT"]

(* A call of a program that does not open or go anywhere *)
Started(full) == [f EXCEPT !.full = full, !.err = "OK"]
Call(g)       == Settle(g) /\ UNCHANGED <<workdir, fd>>

(* Slots of the inode table that are free *)
Roomy(n)      == Cardinality(InTable(f)) + n <= f.room
LastFew(path) == IF Len(path.names) > 2 THEN 3 ELSE 0

Mkdir == \E p \in Procs, path \in Paths, mode \in DirModes, full \in BOOLEAN :
           /\ ~ f.crashed /\ (Wild \/ Roomy(LastFew(path)))
           /\ Call(do_mkdir(Started(full), workdir[p], path, mode))

Mknod == \E p \in Procs, path \in Paths, full \in BOOLEAN :
           ~ f.crashed /\ Call(do_mknod(Started(full), workdir[p], path))

Link == \E p \in Procs, path1, path2 \in Paths, full \in BOOLEAN :
          ~ f.crashed /\ Call(do_link(Started(full), workdir[p], path1, path2))

Unlink == \E p \in Procs, path \in Paths :
            ~ f.crashed /\ Call(do_unlink(Started(FALSE), workdir[p], path))

Rmdir == \E p \in Procs, path \in Paths :
           /\ ~ f.crashed
           /\ Call(do_rmdir(Started(FALSE), workdir[p], path,
                            {workdir[q] : q \in Procs} \cup {ROOT_INODE}))

(* Where a path leads, if nothing is in the way *)
At(p, path)   == eat_path(Started(FALSE), workdir[p], path).got
DirOf(p, path) == last_dir(Started(FALSE), workdir[p], path).got

(* Every directory above i, and i *)
Above(i) == LET up[k \in 0 .. Cardinality(Inodes)] ==
                  IF k = 0 THEN {i}
                  ELSE {e[2] : e \in UNION {f.entries[j] \cap ({".."} \X Inodes) : j \in up[k - 1]}}
            IN  UNION {up[k] : k \in 0 .. Cardinality(Inodes)}

(* The paths that rename() is given do not end in "." or "..", do not lead *)
(* into the directory that is moved, and that directory may be written     *)
Tame(p, path1, path2) ==
  /\ {LastName(path1), LastName(path2)} \cap (OWN \cup {""}) = {}
  /\ DirOf(p, path2) # NIL => At(p, path1) \notin Above(DirOf(p, path2))
  /\ At(p, path1) # NIL => Mode(f, At(p, path1)) # "LOCKED"
                           \/ DirOf(p, path1) = DirOf(p, path2)

Rename == \E p \in Procs, path1, path2 \in Paths, full \in BOOLEAN :
            /\ ~ f.crashed
            /\ Wild \/ (Roomy(5) /\ Tame(p, path1, path2))
            /\ Call(do_rename(Started(full), workdir[p], path1, path2))

Opened(p, g) == /\ Settle(g)
                /\ fd' = [fd EXCEPT ![p] = IF g.err = "OK" THEN g.got ELSE NIL]
                /\ UNCHANGED workdir

Creat == \E p \in Procs, path \in Paths, full, excl \in BOOLEAN :
           ~ f.crashed /\ fd[p] = NIL /\ Opened(p, creat(Started(full), workdir[p], path, excl))

Open == \E p \in Procs, path \in Paths :
          ~ f.crashed /\ fd[p] = NIL /\ Opened(p, eat_path(Started(FALSE), workdir[p], path))

Close == \E p \in Procs :
           /\ ~ f.crashed /\ fd[p] # NIL
           /\ Settle(put_inode(Started(FALSE), fd[p]))
           /\ fd' = [fd EXCEPT ![p] = NIL]
           /\ UNCHANGED workdir

Chdir == \E p \in Procs, path \in Paths :
           LET g == eat_path(Started(FALSE), workdir[p], path)
               found == g.got # NIL /\ Mode(g, g.got) \in Dirs
           IN  /\ ~ f.crashed
               /\ Settle(IF found THEN put_inode(g, workdir[p])
                         ELSE Answer(put_inode(g, g.got), "ENOTDIR"))
               /\ workdir' = [workdir EXCEPT ![p] = IF found THEN g.got ELSE @]
               /\ UNCHANGED fd

(* sync() copies what was changed to the blocks, before these are flushed *)
Sync == /\ ~ f.crashed
        /\ Call(FoldLeft(rw_inode, Started(FALSE), SetToSeq(f.i_dirt)))

Next == \/ Mkdir \/ Mknod \/ Link \/ Unlink \/ Rmdir \/ Rename
        \/ Creat \/ Open \/ Close \/ Chdir \/ Sync

Spec == Init /\ [][Next]_vars

-----------------------------------------------------------------------------
TypeOK == /\ f \in Tables /\ workdir \in [Procs -> Inodes]
          /\ fd \in [Procs -> Inodes \cup {NIL}]

(* Every use of an inode counts once, and a call keeps none, on whatever   *)
(* path it is left: an inode that is kept fills the table in the end, one  *)
(* that is returned twice is used by two (get_inode, put_inode)            *)
Users(i) == Cardinality({p \in Procs : workdir[p] = i}) + Cardinality({p \in Procs : fd[p] = i})
            + IF i = ROOT_INODE THEN 2 + Cardinality(Procs) ELSE 0
Counts == \A i \in Inodes : f.i_count[i] = Users(i)

(* The link count of an inode is the number of its entries in directories, *)
(* however calls that enter, move and remove names end (new_node, do_link, *)
(* do_unlink, do_rename)                                                   *)
Live == {i \in f.s_imap : Links(f, i) # 0}
Entries(i) == Cardinality({<<d, e>> \in Live \X (Strings \cup OWN) : <<e, i>> \in f.entries[d]})
LinksCounted == \A i \in f.s_imap : Links(f, i) = Entries(i)

(* An inode is allocated exactly while it has links or users *)
Allocated == f.s_imap = {i \in Inodes : Links(f, i) # 0 \/ f.i_count[i] # 0}

(* The directories are a tree: each has an entry in the one that its ".."  *)
(* names, which leads to the root                                          *)
IsTree == \A i \in Live : Mode(f, i) \in Dirs =>
            /\ ROOT_INODE \in Above(i)
            /\ i = ROOT_INODE \/ \E up \in Live : /\ <<"..", up>> \in f.entries[i]
                                                  /\ \E s \in Strings : <<s, i>> \in f.entries[up]

(* No name is twice in a directory *)
NamedOnce == \A d \in Inodes : \A e1, e2 \in f.entries[d] : e1[1] = e2[1] => e1 = e2

(* An inode that is not marked as modified agrees with the copy in its     *)
(* block, in the cache or on the disk                                      *)
CleanIsWritten == \A i \in Inodes \ f.i_dirt : f.inode[i] = f.d_inode[i]

(* Whatever uses an inode is counted, the inode lives as long, and what    *)
(* the table holds of it is not lost (get_inode, put_inode, free_inode)    *)
Referenced == TypeOK /\ Counts /\ Allocated /\ CleanIsWritten

(* Every directory has one place in the tree, and every name one meaning   *)
(* (search_dir, do_mkdir, do_rmdir, do_rename)                             *)
Tree == IsTree /\ NamedOnce

(* A call that fails has changed nothing *)
FailsWhole == [][f'.err # "OK" => /\ f'.entries = f.entries /\ f'.s_imap = f.s_imap
                                  /\ \A i \in Inodes : Links(f', i) = Links(f, i)]_vars

NoCrash == ~ f.crashed
=============================================================================
