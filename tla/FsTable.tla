------------------------------- MODULE FsTable -------------------------------
(***************************************************************************)
(* The file system's tables for processes and open files (fs/fproc.h,      *)
(* fs/file.h, fs/inode.h), and the calls of fs/pipe.c, fs/open.c,          *)
(* fs/misc.c, fs/filedes.c and fs/read.c that suspend and revive processes *)
(* and work on pipes.  Each is an operator from tables to tables, under    *)
(* the name it has in the source.                                          *)
(*                                                                         *)
(* A byte in a pipe is the slot of the process that wrote it, and 0 in a   *)
(* hole.  An in-core inode is that of a pipe, or of the one named pipe.    *)
(***************************************************************************)
EXTENDS Integers, SequencesExt

CONSTANTS NR_PROCS,     \* process slots
          OPEN_MAX,     \* file descriptors of a process
          NR_FILPS,     \* slots of the filp table
          NR_INODES,    \* slots of the inode table
          PIPE_SIZE,    \* bytes in a pipe
          Mixes         \* the mixes of calls that programs make

ASSUME FsAssumption ==
  {NR_PROCS, OPEN_MAX, NR_FILPS, NR_INODES, PIPE_SIZE} \subseteq Nat \ {0}

Procs  == 1 .. NR_PROCS
Fds    == 0 .. OPEN_MAX - 1
Filps  == 1 .. NR_FILPS
Inodes == 1 .. NR_INODES
NIL    == 0
Modes  == {{"R"}, {"W"}, {"R", "W"}}                       \* R_BIT, W_BIT

(* What a suspended process asked for: fp_fd and fp_nbytes.  With pipes,   *)
(* fp_task is XOPEN for open() and creat(), XPIPE for read() and write()   *)
NoCall == [fs_call |-> "none", fd |-> 0, n |-> 0]
Hung   == [fs_call : {"READ", "WRITE", "OPEN", "CREAT"}, fd : Fds, n : Nat]
Waits  == {"OPEN", "CREAT"}                                \* XOPEN

Tables ==
  [at         : [Procs -> {"free", "runs", "waits"}],      \* what the process does
   knows      : [Procs -> SUBSET Fds],      \* descriptors its program was given
   hung       : [Procs -> Hung \cup {NoCall}],             \* fp_suspended, fp_fd ...
   revived    : [Procs -> BOOLEAN],
   fd         : [Procs -> [Fds -> Filps \cup {NIL}]],      \* fp_filp
   filp       : [Filps -> [mode : Modes \cup {{}}, count : Nat, pos : Nat,
                           ino : Inodes \cup {NIL}, nonblock : BOOLEAN]],
   inode      : [Inodes -> [num : {"none", "pipe", "fifo"}, count : Nat,
                            i_pipe : BOOLEAN,
                            data : BoundedSeq(Procs \cup {0}, PIPE_SIZE)]],
   susp_count : Int,
   reviving   : Int]

FreeFilp  == [mode |-> {}, count |-> 0, pos |-> 0, ino |-> NIL, nonblock |-> FALSE]
FreeInode == [num |-> "none", count |-> 0, i_pipe |-> FALSE, data |-> <<>>]

Filp(f, p, d) == f.filp[f.fd[p][d]]
i_size(f, i)  == Len(f.inode[i].data)

-----------------------------------------------------------------------------
(* fs/main.c *)

(* A reply to a process that is dead fails and is ignored.  new: the file  *)
(* descriptors that it tells the program of                                *)
reply(f, p, new) ==
  IF f.at[p] = "free" THEN f
  ELSE [f EXCEPT !.at[p] = "runs", !.knows[p] = @ \cup new]

(* fs/filedes.c *)

FreeFds(f, p) == {d \in Fds : f.fd[p][d] = NIL}
FreeFilps(f)  == {x \in Filps : f.filp[x].count = 0}
get_fd(f, p)  == FreeFds(f, p) # {} /\ FreeFilps(f) # {}

(* p's descriptor d is for filp x, which is filled in *)
ClaimFd(f, p, d, x, mode, i, nonblock) ==
  [f EXCEPT !.fd[p][d] = x,
            !.filp[x] = [mode |-> mode, count |-> 1, pos |-> 0, ino |-> i,
                         nonblock |-> nonblock]]

(* The filps that are open on inode i for reading, or writing *)
Open(f, i, bit)      == {x \in Filps : f.filp[x].ino = i /\ bit \in f.filp[x].mode}
find_filp(f, i, bit) == IF Open(f, i, bit) = {} THEN NIL ELSE Min(Open(f, i, bit))

(* fs/inode.c *)

FreeInodes(f) == {i \in Inodes : f.inode[i].count = 0}

(* A pipe has no links, and a named pipe is truncated when it is one *)
put_inode(f, i) ==
  [f EXCEPT !.inode[i] = IF @.count = 1 THEN FreeInode
                              ELSE [f.inode[i] EXCEPT !.count = @ - 1]]

-----------------------------------------------------------------------------
(* fs/pipe.c *)

suspend(f, p, call) ==
  [f EXCEPT !.at[p] = IF @ = "free" THEN @ ELSE "waits", !.hung[p] = call,
            !.susp_count = @ + 1]

Suspended(f, p) == f.hung[p] # NoCall

(* The processes that hang on inode i in the call fs_call *)
Hanging(f, i, fs_call) ==
  {p \in Procs : /\ f.hung[p].fs_call = fs_call /\ ~ f.revived[p]
                 /\ Filp(f, p, f.hung[p].fd).ino = i}

(* revive() of each process of ps: a reader or writer has to try again,    *)
(* and the reply to an open() is sent                                      *)
revive(f, ps) ==
  LET hung == {p \in ps : Suspended(f, p) /\ ~ f.revived[p]}
      done == {p \in hung : f.hung[p].fs_call \in Waits}
      told == {p \in done : f.at[p] # "free"}
  IN  [f EXCEPT !.revived  = [p \in Procs |-> @[p] \/ p \in hung \ done],
                !.reviving = @ + Cardinality(hung \ done),
                !.hung     = [p \in Procs |-> IF p \in done THEN NoCall ELSE @[p]],
                !.at       = [p \in Procs |-> IF p \in told THEN "runs" ELSE @[p]],
                !.knows    = [p \in Procs |-> @[p] \cup
                                IF p \in told THEN {f.hung[p].fd} ELSE {}]]

releaseFirst(f, i, fs_call, count) ==                      \* mutant of release
  LET first == {p \in Hanging(f, i, fs_call) : \A q \in Hanging(f, i, fs_call) : p <= q}
  IN  [revive(f, first) EXCEPT !.susp_count = @ - Cardinality(first)]

(* At most count of them are released, in the order of the slots; all of   *)
(* them if count is 0 or less                                              *)
release(f, i, fs_call, count) ==
  LET hang  == Hanging(f, i, fs_call)
      first == {p \in hang : count <= 0 \/ Cardinality({q \in hang : q <= p}) <= count}
  IN  [revive(f, first) EXCEPT !.susp_count = @ - Cardinality(first)]

releaseIfCounted(f, i, fs_call) ==
  IF f.susp_count > 0 THEN release(f, i, fs_call, f.susp_count) ELSE f

do_unpauseCounts(f, p) ==                                  \* mutant of do_unpause
  IF f.hung[p].fs_call \in Waits
  THEN reply([f EXCEPT !.hung[p] = NoCall, !.susp_count = @ - 1], p, {}) ELSE f

(* do_unpause(): a signal for p; a reader or writer of a pipe stays *)
do_unpause(f, p) ==
  IF f.hung[p].fs_call \in Waits THEN reply([f EXCEPT !.hung[p] = NoCall], p, {}) ELSE f

(* pipe(): the two descriptors are claimed one after the other, and both   *)
(* are given back if there is no inode                                     *)
do_pipe(f, p) ==
  LET d0 == Min(FreeFds(f, p))
      x0 == Min(FreeFilps(f))
      d1 == Min(FreeFds(f, p) \ {d0})
      x1 == Min(FreeFilps(f) \ {x0})
      i  == Max(FreeInodes(f))
  IN  IF \/ Cardinality(FreeFds(f, p)) < 2 \/ Cardinality(FreeFilps(f)) < 2
         \/ FreeInodes(f) = {}
      THEN f
      ELSE LET g == ClaimFd(ClaimFd(f, p, d0, x0, {"R"}, i, FALSE), p, d1, x1, {"W"}, i, FALSE)
           IN  reply([g EXCEPT !.inode[i] = [num |-> "pipe", count |-> 2, i_pipe |-> TRUE,
                                             data |-> <<>>]], p, {d0, d1})

-----------------------------------------------------------------------------
(* fs/read.c: read_write() and pipe_check(), for read() and for write()    *)

EmptiedFor(f, x, i) ==                                     \* mutant of Emptied
  [f EXCEPT !.inode[i].data = <<>>, !.filp[x].pos = 0]

(* All the data is read: the reader's position is reset, and a writer's *)
Emptied(f, x, i) ==
  LET w == find_filp(f, i, "W")
      g == [f EXCEPT !.inode[i].data = <<>>, !.filp[x].pos = 0]
  IN  IF w = NIL THEN g ELSE [g EXCEPT !.filp[w].pos = 0]

NoDataStuck(f, p, c, i) ==                                 \* mutant of NoData
  IF find_filp(f, i, "W") = NIL THEN reply(f, p, {})
  ELSE releaseIfCounted(suspend(f, p, c), i, "READ")

(* End of file when there is no writer; else p waits, and writers go on *)
NoData(f, p, c, i) ==
  IF find_filp(f, i, "W") = NIL THEN reply(f, p, {})
  ELSE releaseIfCounted(IF Filp(f, p, c.fd).nonblock THEN reply(f, p, {})
                        ELSE suspend(f, p, c), i, "WRITE")

do_read(f, p, c) ==
  LET x    == f.fd[p][c.fd]
      i    == f.filp[x].ino
      pos  == f.filp[x].pos
      pipe == f.inode[i].i_pipe
      got  == Min({c.n, i_size(f, i) - pos})
  IN  IF x = NIL \/ "R" \notin f.filp[x].mode THEN reply(f, p, {})
      ELSE IF pipe /\ pos >= i_size(f, i)
      THEN NoData(f, p, c, i)
      ELSE reply(IF pipe /\ pos + got = i_size(f, i) THEN Emptied(f, x, i)
                 ELSE [f EXCEPT !.filp[x].pos = pos + Max({got, 0})], p, {})

(* n bytes of p in data, from pos on *)
Put(data, pos, n, p) ==
  [k \in 1 .. Max({Len(data), pos + n}) |->
     IF k \in pos + 1 .. pos + n THEN p ELSE IF k <= Len(data) THEN data[k] ELSE 0]

IsFull(pos, n) == pos + n > PIPE_SIZE

do_write(f, p, c) ==
  LET x   == f.fd[p][c.fd]
      i   == f.filp[x].ino
      pos == f.filp[x].pos
      g   == IF pos = 0 THEN release(f, i, "READ", f.susp_count) ELSE f
  IN  IF \/ x = NIL \/ "W" \notin f.filp[x].mode
         \/ c.n > PIPE_SIZE
         \/ find_filp(f, i, "R") = NIL                     \* SIGPIPE and EPIPE
      THEN reply(f, p, {})
      ELSE IF IsFull(pos, c.n)
      THEN IF f.filp[x].nonblock THEN reply(f, p, {}) ELSE suspend(f, p, c)
      ELSE reply([g EXCEPT !.inode[i].data = Put(@, pos, c.n, p), !.filp[x].pos = pos + c.n],
                 p, {})

-----------------------------------------------------------------------------
(* fs/open.c *)

(* open() or creat() of the named pipe: common_open() and pipe_open().     *)
(* Also an open() that is to wait for the other end claims its descriptor  *)
do_open(f, p, c) ==
  LET in   == {i \in Inodes : f.inode[i].num = "fifo"}
      i    == IF in = {} THEN Max(FreeInodes(f)) ELSE Min(in)
      d    == Min(FreeFds(f, p))
      g    == [f EXCEPT !.inode[i].num = "fifo", !.inode[i].count = @ + 1]
      peer == find_filp(f, i, IF "W" \in c.mode THEN "R" ELSE "W")
      h    == IF peer # NIL
              THEN reply(releaseIfCounted(releaseIfCounted(g, i, "OPEN"), i, "CREAT"), p, {d})
              ELSE IF c.nonblock THEN reply(g, p, {d})
              ELSE suspend(g, p, [fs_call |-> c.fs_call, fd |-> d, n |-> 0])
  IN  IF \/ ~ get_fd(f, p) \/ (in = {} /\ FreeInodes(f) = {})
         \/ (peer = NIL /\ c.nonblock /\ "W" \in c.mode)   \* ENXIO
      THEN reply(f, p, {})
      ELSE ClaimFd([h EXCEPT !.inode[i].i_pipe = @ \/ peer # NIL \/ ~ c.nonblock],
                   p, d, Min(FreeFilps(f)), c.mode, i, c.nonblock)

(* do_close() of descriptor d, without the reply: who hangs on the pipe is *)
(* released, then the filp and perhaps its inode are given back            *)
do_close(f, p, d) ==
  LET x == f.fd[p][d]
      i == f.filp[x].ino
      g == IF f.inode[i].i_pipe
           THEN release(f, i, IF "R" \in f.filp[x].mode THEN "WRITE" ELSE "READ", NR_PROCS)
           ELSE f
  IN  IF x = NIL THEN f
      ELSE LET h == IF f.filp[x].count = 1
                    THEN put_inode([g EXCEPT !.filp[x] = FreeFilp], i)
                    ELSE [g EXCEPT !.filp[x].count = @ - 1]
           IN  [h EXCEPT !.fd[p][d] = NIL, !.knows[p] = @ \ {d}]

-----------------------------------------------------------------------------
(* fs/misc.c *)

(* Descriptor d2 stands for the filp of d as well *)
DupTo(f, p, d, d2) ==
  reply([f EXCEPT !.fd[p][d2] = f.fd[p][d], !.filp[f.fd[p][d]].count = @ + 1], p, {d2})

do_dup(f, p, d) ==
  IF f.fd[p][d] = NIL \/ ~ get_fd(f, p) THEN f ELSE DupTo(f, p, d, Min(FreeFds(f, p)))

do_dup2(f, p, d, d2) ==
  IF f.fd[p][d] = NIL \/ d = d2 THEN f ELSE DupTo(do_close(f, p, d2), p, d, d2)

(* fcntl() with F_SETFL *)
do_fcntl(f, p, d, nonblock) ==
  IF f.fd[p][d] = NIL THEN f ELSE [f EXCEPT !.filp[f.fd[p][d]].nonblock = nonblock]

do_forkUncounted(f, p, c) ==                               \* mutant of do_fork
  [f EXCEPT !.at[c] = "runs", !.knows[c] = f.knows[p], !.fd[c] = f.fd[p]]

(* MM made c a copy of p *)
do_fork(f, p, c) ==
  [f EXCEPT !.at[c] = "runs", !.knows[c] = f.knows[p], !.fd[c] = f.fd[p],
            !.filp = [x \in Filps |->
               [f.filp[x] EXCEPT !.count = @ + Cardinality({d \in Fds : f.fd[p][d] = x})]]]

(* MM says that p is dead *)
do_exit(f, p) ==
  LET g == IF ~ Suspended(f, p) THEN f
           ELSE [do_unpause(f, p) EXCEPT !.susp_count = @ - 1, !.hung[p] = NoCall]
      close[d \in 0 .. OPEN_MAX] == IF d = 0 THEN g ELSE do_close(close[d - 1], p, d - 1)
  IN  close[OPEN_MAX]

=============================================================================
