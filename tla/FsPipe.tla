-------------------------------- MODULE FsPipe --------------------------------
(***************************************************************************)
(* The file system's main loop (fs/main.c) at work for programs that open, *)
(* read, write, duplicate and close pipes and one named pipe, and for MM,  *)
(* which tells it of forks, deaths and signals.  FS serves one call at a   *)
(* time; between two calls it first retries the calls of the processes     *)
(* that were revived.                                                      *)
(***************************************************************************)
EXTENDS FsTable

CONSTANTS MaxDrift,     \* bound: how far susp_count may drift from the count
          Slot          \* the inode whose pipe IsStream looks at: any one

ASSUME DriftAssumption == MaxDrift \in Nat
ASSUME SlotAssumption == Slot \in Inodes

(* The calls that the programs of a mix make *)
Mix == [read  : SUBSET [fs_call : {"READ"}, fd : Fds, n : Nat],
        write : SUBSET [fs_call : {"WRITE"}, fd : Fds, n : Nat],
        open  : SUBSET [fs_call : Waits, mode : Modes, nonblock : BOOLEAN],
        pipe  : BOOLEAN, dup : BOOLEAN, setfl : BOOLEAN, procs : SUBSET Procs]

ASSUME MixAssumption == Mixes \subseteq Mix

VARIABLES fs,           \* the tables
          exiting,      \* MM: the process it is about to tell FS the death of
          may           \* the calls that programs make: one of Mixes

vars == <<fs, exiting, may>>

Init ==
  /\ fs = [at         |-> [p \in Procs |-> IF p = 1 THEN "runs" ELSE "free"],
           knows      |-> [p \in Procs |-> {}],
           hung       |-> [p \in Procs |-> NoCall],
           revived    |-> [p \in Procs |-> FALSE],
           fd         |-> [p \in Procs |-> [d \in Fds |-> NIL]],
           filp       |-> [x \in Filps |-> FreeFilp],
           inode      |-> [i \in Inodes |-> FreeInode],
           susp_count |-> 0,
           reviving   |-> 0]
  /\ exiting = NIL
  /\ may \in Mixes

(* FS takes a message only when nobody is to be revived *)
TakesWork == fs.reviving = 0
Runs(p)   == TakesWork /\ fs.at[p] = "runs"

Read(p) ==
  /\ Runs(p)
  /\ \E c \in may.read : c.fd \in fs.knows[p] /\ fs' = do_read(fs, p, c)
  /\ UNCHANGED <<exiting, may>>

Write(p) ==
  /\ Runs(p)
  /\ \E c \in may.write : c.fd \in fs.knows[p] /\ fs' = do_write(fs, p, c)
  /\ UNCHANGED <<exiting, may>>

Pipe(p) == /\ Runs(p) /\ may.pipe
           /\ fs' = do_pipe(fs, p)
           /\ UNCHANGED <<exiting, may>>

OpenFifo(p) == /\ Runs(p)
               /\ \E c \in may.open : fs' = do_open(fs, p, c)
               /\ UNCHANGED <<exiting, may>>

Close(p) == /\ Runs(p)
            /\ \E d \in fs.knows[p] : fs' = do_close(fs, p, d)
            /\ UNCHANGED <<exiting, may>>

Dup(p) ==
  /\ Runs(p) /\ may.dup
  /\ \E d \in fs.knows[p] : \/ fs' = do_dup(fs, p, d)
                            \/ \E d2 \in Fds : fs' = do_dup2(fs, p, d, d2)
  /\ UNCHANGED <<exiting, may>>

SetFlags(p) ==
  /\ Runs(p) /\ may.setfl
  /\ \E d \in fs.knows[p], nonblock \in BOOLEAN : fs' = do_fcntl(fs, p, d, nonblock)
  /\ UNCHANGED <<exiting, may>>

(* get_work(): the first revived process makes its call again *)
Revived ==
  /\ fs.reviving # 0
  /\ LET p == Min({q \in Procs : fs.revived[q]})
         c == fs.hung[p]
         g == [fs EXCEPT !.hung[p] = NoCall, !.revived[p] = FALSE, !.reviving = @ - 1]
     IN  fs' = IF c.fs_call = "READ" THEN do_read(g, p, c) ELSE do_write(g, p, c)
  /\ UNCHANGED <<exiting, may>>

(* MM, fork(): FS makes the child a copy of its parent *)
Fork(p) == /\ Runs(p) /\ exiting = NIL
           /\ \E c \in may.procs : fs.at[c] = "free" /\ fs' = do_fork(fs, p, c)
           /\ UNCHANGED <<exiting, may>>

(* MM, exit() or a deadly signal: first the kernel forgets the process *)
Kill(p) == /\ fs.at[p] # "free" /\ exiting = NIL
           /\ fs' = [fs EXCEPT !.at[p] = "free"]
           /\ exiting' = p
           /\ UNCHANGED may

(* and then FS does *)
Exit == /\ exiting # NIL /\ TakesWork
        /\ fs' = do_exit(fs, exiting)
        /\ exiting' = NIL
        /\ UNCHANGED may

Hangers == {p \in Procs : Suspended(fs, p) /\ ~ fs.revived[p]}

(* MM, a signal that is caught: whatever p waits for in FS is interrupted *)
Unpause(p) == /\ fs.at[p] = "waits" /\ exiting = NIL /\ TakesWork
              /\ fs.susp_count - Cardinality(Hangers) < MaxDrift
              /\ fs' = do_unpause(fs, p)
              /\ UNCHANGED <<exiting, may>>

Next == \/ Revived \/ Exit
        \/ \E p \in Procs : \/ Read(p) \/ Write(p) \/ Pipe(p) \/ OpenFifo(p) \/ Close(p)
                            \/ Dup(p) \/ SetFlags(p) \/ Fork(p) \/ Kill(p) \/ Unpause(p)

(* FS never rests while there is somebody to revive *)
Spec == Init /\ [][Next]_vars /\ WF_vars(Revived)

-----------------------------------------------------------------------------
TypeOK == fs \in Tables /\ exiting \in Procs \cup {NIL} /\ may \in Mixes

(* A count of a filp or an inode is the number of references to it, over   *)
(* every order of open(), pipe(), dup(), fork(), close() and death: one    *)
(* too many leaks a slot, one too few closes a pipe that is in use.        *)
(* A pipe in core is open in some way.                                     *)
Counts ==
  /\ \A x \in Filps : fs.filp[x].count = Cardinality({pd \in Procs \X Fds :
                                                       fs.fd[pd[1]][pd[2]] = x})
  /\ \A i \in Inodes : fs.inode[i].count = Cardinality({x \in Filps : fs.filp[x].ino = i})

(* reviving is the number of processes marked: get_work() panics when it   *)
(* finds none of them                                                      *)
RevivingCounts ==
  /\ fs.reviving = Cardinality({p \in Procs : fs.revived[p]})
  /\ \A p \in Procs : fs.revived[p] => fs.hung[p].fs_call \in {"READ", "WRITE"}

Hangs(i, fs_call) == Hanging(fs, i, fs_call) # {}

(* susp_count is never below the number of processes that hang, so that    *)
(* release() with this count leaves nobody behind (fs/pipe.c:174)          *)
SuspCovers == fs.susp_count >= Cardinality(Hangers)

(* Who hangs on a pipe can still be released: a reader hangs only while    *)
(* the pipe is empty and has a writer, a writer only while it has a        *)
(* reader, and they never wait for each other.  (A writer does hang on an  *)
(* empty pipe until the next read(): see README.)                          *)
NoStandoff ==
  \A i \in Inodes : fs.inode[i].num = "pipe" =>
    /\ Hangs(i, "READ")  => i_size(fs, i) = 0 /\ Open(fs, i, "W") # {}
    /\ Hangs(i, "WRITE") => Open(fs, i, "R") # {}
    /\ ~ (Hangs(i, "READ") /\ Hangs(i, "WRITE"))

(* Nobody waits in open() for one end of the named pipe while the other    *)
(* end is open                                                             *)
OpenWaits ==
  \A p, q \in Procs : \A d \in Fds :
    /\ fs.hung[p].fs_call \in Waits /\ fs.fd[q][d] # NIL
    /\ Filp(fs, q, d).ino = Filp(fs, p, fs.hung[p].fd).ino
    => Filp(fs, q, d).mode \cup Filp(fs, p, fs.hung[p].fd).mode # {"R", "W"}
       \/ {"R", "W"} \in {Filp(fs, q, d).mode, Filp(fs, p, fs.hung[p].fd).mode}

(* Whoever hangs is released in the end by someone who is still there: FS  *)
(* leaves nobody hanging for what has come already (pipe_check, release,   *)
(* pipe_open)                                                              *)
NobodyStranded == NoStandoff /\ OpenWaits

(* open.c:259 (pipe_open): with "at least one reader/writer pair" all      *)
(* processes are revived.  Not so: who opens for reading and writing waits *)
(* for a reader, and leaves a writer that waits for one where it is        *)
PairRevives ==
  \A i \in Inodes : Open(fs, i, "R") # {} /\ Open(fs, i, "W") # {} =>
                       ~ Hangs(i, "OPEN") /\ ~ Hangs(i, "CREAT")

(* FS holds a process's call exactly while its program waits: a reply sent *)
(* twice would reach a program that waits for something else.  A dead      *)
(* process may be held until MM tells FS of its death.                     *)
WaitsForFs ==
  \A p \in Procs : /\ fs.at[p] = "waits" => Suspended(fs, p)
                   /\ Suspended(fs, p) => fs.at[p] = "waits" \/ p = exiting

(* What FS holds of suspended processes, over signals, deaths and retries  *)
(* (suspend, revive, do_unpause, do_exit, get_work)                        *)
Suspension == TypeOK /\ RevivingCounts /\ SuspCovers /\ WaitsForFs

(* The descriptors in FS are those that the program knows of.  Not so: an  *)
(* open() that a signal interrupts keeps its descriptor (see README)       *)
NoLeak ==
  \A p \in Procs : fs.at[p] = "runs" => {d \in Fds : fs.fd[p][d] # NIL} = fs.knows[p]

(* glo.h:11, "number of procs suspended on pipe".  Not so either           *)
SuspCounts == fs.susp_count = Cardinality(Hangers)

(* The calls that are retried do not revive each other for ever: FS goes   *)
(* back to its messages                                                    *)
TakesWorkAgain == ~ TakesWork ~> TakesWork

(* The pipe in Slot, as a reader sees it: is there one, and what is before it *)
Readers(f)  == Open(f, Slot, "R")
Listened(f) == f.inode[Slot].num = "pipe" /\ Readers(f) # {}
Unread(f)   == IF ~ Listened(f) THEN <<>>
               ELSE SubSeq(f.inode[Slot].data, f.filp[Min(Readers(f))].pos + 1, i_size(f, Slot))

Queue == INSTANCE Stream WITH Bytes <- Procs, Capacity <- PIPE_SIZE,
                              q <- Unread(fs), reading <- Listened(fs)

(* What readers and writers do to a pipe is to take bytes from a stream    *)
(* and append whole writes to it: no byte is lost while there is a reader, *)
(* none is read twice or written over, and two writes are never mixed      *)
IsStream == Queue!Spec
=============================================================================
