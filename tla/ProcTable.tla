----------------------------- MODULE ProcTable -----------------------------
(***************************************************************************)
(* The process table of the kernel and the routines that change it, as     *)
(* operators on one record: message passing, the ready queues and the      *)
(* scheduler (kernel/proc.c), kernel signals and the process life cycle    *)
(* (kernel/system.c) and shadowing (kernel/stshadow.c), compiled for       *)
(* CHIP == M68000 and MACHINE == ATARI.                                    *)
(*                                                                         *)
(* A routine of the kernel runs to completion between two points where an  *)
(* interrupt is let in (module Proc has those points), so a routine that   *)
(* calls others is a composition of operators.  An operator that the code  *)
(* gives a result has the result in an operator of its own (SendResult).   *)
(***************************************************************************)
EXTENDS Integers, Sequences, FiniteSets

CONSTANTS Tasks,      \* numbers of the kernel tasks that are present
          NR_PROCS,   \* slots of the process table for servers and users
          Sigs        \* signal numbers that are used

(* Process numbers of include/minix/com.h and include/minix/const.h *)
MM_PROC_NR == 0
FS_PROC_NR == 1
LOW_USER   == 2
HARDWARE   == -1
SYSTASK    == -2
CLOCK      == -3
IDLE       == -8
TTY        == -9
ANY        == NR_PROCS + 100

SIGSTKFLT == 16

ASSUME TasksAssumption ==
  /\ Tasks \subseteq (-9 .. -2) \ {IDLE}
  /\ SYSTASK \in Tasks
ASSUME ProcsAssumption == NR_PROCS \in Nat /\ NR_PROCS > LOW_USER
ASSUME SigsAssumption == Sigs \subseteq 1 .. 16

Servers == {MM_PROC_NR, FS_PROC_NR}
Users   == LOW_USER .. NR_PROCS - 1
Procs   == Tasks \cup {IDLE, HARDWARE} \cup Servers \cup Users
(* Every process that can be in a ready queue or blocked *)
Live    == Tasks \cup Servers \cup Users

TASK_Q   == 0
SERVER_Q == 1
USER_Q   == 2
SHADOW_Q == 3
Queues   == TASK_Q .. SHADOW_Q

(* Bits of p_flags; NO_MAP is never set on the M68000 *)
Flag == {"P_SLOT_FREE", "SENDING", "RECEIVING", "PENDING", "SIG_PENDING",
         "P_STOP"}

(***************************************************************************)
(* A message is its source and its type.  A program that starts a new call *)
(* has no further use for what its buffer held.                            *)
(***************************************************************************)
MTypes  == {"none", "request", "reply", "HARD_INT", "KSIG"}
Message == [m_source : Procs \cup {ANY}, m_type : MTypes]
NoMess  == [m_source |-> ANY, m_type |-> "none"]

Panics == {"none", "no shadow?", "cannot handle physio shadows",
           "only shadow(s)"}

(***************************************************************************)
(* The kernel's state: the fields of proc[] as functions of the process    *)
(* number, the ready queues, proc_ptr (cur), bill_ptr (bill), sig_procs.   *)
(*   - callerq holds the chain that p_callerq and p_sendlink make;         *)
(*   - rdy holds the chains of rdy_head, rdy_tail and p_nextready;         *)
(*   - mess is what p_messbuf points to.  The buffer of SYSTASK is the     *)
(*     global m of system.c, which inform() uses too;                      *)
(*   - img names the memory p_map[D].mem_phys starts at, shadow is the set *)
(*     of processes with p_shadow != 0, physio those with p_physio set;    *)
(*   - panic is the message of the first panic() reached.                  *)
(***************************************************************************)
Kernel == [flags      : [Procs -> SUBSET Flag],
           getfrom    : [Procs -> Procs \cup {ANY}],
           callerq    : [Procs -> Seq(Procs)],
           mess       : [Procs -> Message],
           rdy        : [Queues -> Seq(Procs)],
           cur        : Procs,
           bill       : Procs,
           intBlocked : SUBSET Procs,
           pending    : [Procs -> SUBSET Sigs],
           pendcount  : [Procs -> Nat],
           sigProcs   : Int,
           img        : [Procs -> Users],
           shadow     : SUBSET Procs,
           physio     : SUBSET Procs,
           panic      : Panics]

-----------------------------------------------------------------------------
(* Ready queues and scheduling: kernel/proc.c *)

isuserp(p) == p >= LOW_USER

DequeueHead(q, p) == IF q = <<>> THEN q ELSE Tail(q)      \* mutant of Dequeue

(* q without its first p *)
Dequeue(q, p) ==
  IF \E i \in 1 .. Len(q) : q[i] = p
  THEN LET i == CHOOSE i \in 1 .. Len(q) : q[i] = p
       IN  [j \in 1 .. Len(q) - 1 |-> IF j < i THEN q[j] ELSE q[j + 1]]
  ELSE q

Queue(k, p) ==
  IF p < 0 THEN TASK_Q
  ELSE IF ~isuserp(p) THEN SERVER_Q
  ELSE IF p \in k.shadow THEN SHADOW_Q
  ELSE USER_Q

ready(k, p) == [k EXCEPT !.rdy[Queue(k, p)] = Append(@, p)]

pick_proc(k) ==
  IF k.rdy[TASK_Q] # <<>> THEN [k EXCEPT !.cur = Head(k.rdy[TASK_Q])]
  ELSE IF k.rdy[SERVER_Q] # <<>> THEN [k EXCEPT !.cur = Head(k.rdy[SERVER_Q])]
  ELSE IF k.rdy[USER_Q] # <<>>
       THEN [k EXCEPT !.cur = Head(k.rdy[USER_Q]), !.bill = Head(k.rdy[USER_Q])]
  ELSE [k EXCEPT !.cur = IDLE, !.bill = IDLE]

(* A running process is at the head of its queue; only then is another picked. *)
unready(k, p) ==
  LET q  == k.rdy[Queue(k, p)]
      k1 == [k EXCEPT !.rdy[Queue(k, p)] = Dequeue(@, p)]
  IN  IF q # <<>> /\ Head(q) = p /\ k.cur = p THEN pick_proc(k1) ELSE k1

sched(k) ==
  LET q == k.rdy[USER_Q]
  IN  IF q = <<>> THEN k
      ELSE pick_proc([k EXCEPT !.rdy[USER_Q] = Append(Tail(q), Head(q))])

(* "if (p_flags == 0) unready(rp); p_flags |= F" *)
Block(k, p, F) ==
  LET k1 == IF k.flags[p] = {} THEN unready(k, p) ELSE k
  IN  [k1 EXCEPT !.flags[p] = @ \cup F]

UnblockAlways(k, p, F) ==                                 \* mutant of Unblock
  ready([k EXCEPT !.flags[p] = @ \ F], p)

(* "p_flags &= ~F; if (p_flags == 0) ready(rp)" *)
Unblock(k, p, F) ==
  LET k1 == [k EXCEPT !.flags[p] = @ \ F]
  IN  IF k1.flags[p] = {} THEN ready(k1, p) ELSE k1
-----------------------------------------------------------------------------
(* Messages: kernel/proc.c *)

(* p waits for a message and takes one from src *)
Accepts(k, p, src) ==
  /\ "RECEIVING" \in k.flags[p]
  /\ "SENDING" \notin k.flags[p]
  /\ k.getfrom[p] \in {ANY, src}

InQueue(q, p) == \E i \in 1 .. Len(q) : q[i] = p

(* Where a loop over the process table that looks for S stops first *)
First(S) == {p \in S : \A q \in S : p <= q}

cp_mess(k, src, dst) ==
  [k EXCEPT !.mess[dst] = [m_source |-> src, m_type |-> k.mess[src].m_type]]

SendResult(k, p, dest) ==
  IF isuserp(p) /\ dest \notin Servers THEN "E_BAD_DEST"
  ELSE IF "P_SLOT_FREE" \in k.flags[dest] THEN "E_BAD_DEST"
  ELSE IF "SENDING" \in k.flags[dest] /\ InQueue(k.callerq[p], dest)
       THEN "ELOCKED"
  ELSE "OK"

mini_send(k, p, dest) ==
  IF SendResult(k, p, dest) # "OK" THEN k
  ELSE IF Accepts(k, dest, p)
       THEN Unblock(cp_mess(k, p, dest), dest, {"RECEIVING"})
  ELSE LET k1 == Block(k, p, {"SENDING"})
       IN  [k1 EXCEPT !.callerq[dest] = Append(@, p)]

SigDoneUnchecked(k, p) ==                                 \* mutant of SigDone
  LET k1 == [k EXCEPT !.pendcount[p] = @ - 1]
  IN  IF k1.pendcount[p] = 0 THEN Unblock(k1, p, {"SIG_PENDING"}) ELSE k1

(* MM has finished one signal of p: do_sig() with signal -1, and inform() *)
SigDone(k, p) ==
  IF k.pendcount[p] = 0 THEN k
  ELSE LET k1 == [k EXCEPT !.pendcount[p] = @ - 1]
       IN  IF k1.pendcount[p] = 0 THEN Unblock(k1, p, {"SIG_PENDING"}) ELSE k1

SigPendingProcs(k) == {p \in Servers \cup Users : "PENDING" \in k.flags[p]}

(* The message to MM is built in m, the buffer of SYSTASK. *)
Ksig(k) ==
  [k EXCEPT !.sigProcs = @ - 1,
            !.mess = [p \in Procs |-> IF p \in {SYSTASK, HARDWARE}
                                      THEN [@[p] EXCEPT !.m_type = "KSIG"]
                                      ELSE @[p]]]

Told(k, p) == [k EXCEPT !.pending[p] = {}, !.flags[p] = @ \ {"PENDING"}]

(* Tell MM about the lowest-numbered process that has signals pending.  A   *)
(* process whose only signal is SIGSTKFLT is released at once.              *)
inform(k) ==
  LET F == First(SigPendingProcs(k))
  IN  IF F = {} THEN k
      ELSE LET p  == CHOOSE p \in F : TRUE
               k1 == Told(mini_send(Ksig(k), HARDWARE, MM_PROC_NR), p)
           IN  pick_proc(IF k.pending[p] = {SIGSTKFLT} THEN SigDone(k1, p) ELSE k1)

AwaitOnly(k, p, src) ==                                   \* mutant of Await
  Block([k EXCEPT !.getfrom[p] = src], p, {"RECEIVING"})

(* The end of mini_rec(): block; when MM has just become idle, tell it of   *)
(* the signals that are pending.                                            *)
Await(k, p, src) ==
  LET k1 == Block([k EXCEPT !.getfrom[p] = src], p, {"RECEIVING"})
  IN  IF k1.sigProcs > 0 /\ p = MM_PROC_NR /\ src = ANY THEN inform(k1) ELSE k1

mini_rec(k, p, src) ==
  LET q == k.callerq[p]
      sender == IF src = ANY THEN Head(q) ELSE src
      available == "SENDING" \notin k.flags[p]
  IN  IF available /\ q # <<>> /\ (src = ANY \/ InQueue(q, src))
      THEN LET k1 == cp_mess(k, sender, p)
               k2 == [k1 EXCEPT !.callerq[p] = Dequeue(@, sender)]
           IN  Unblock(k2, sender, {"SENDING"})
      ELSE IF available /\ p \in k.intBlocked /\ src \in {ANY, HARDWARE}
      THEN [k EXCEPT !.intBlocked = @ \ {p},
                     !.mess[p] = [m_source |-> HARDWARE, m_type |-> "HARD_INT"]]
      ELSE Await(k, p, src)

(***************************************************************************)
(* The trap a program makes: it has put m in its buffer.  Only servers and *)
(* tasks may use SEND and RECEIVE alone.                                   *)
(***************************************************************************)
Functions == {"SEND", "RECEIVE", "BOTH"}

sys_call(k, function, src_dest, m) ==
  LET p  == k.cur
      k1 == [k EXCEPT !.mess[p] = m]
      k2 == mini_send(k1, p, src_dest)
  IN  IF function # "BOTH" /\ isuserp(p) THEN k1
      ELSE IF function = "RECEIVE" THEN mini_rec(k1, p, src_dest)
      ELSE IF function = "SEND" \/ SendResult(k1, p, src_dest) # "OK" THEN k2
      ELSE mini_rec(k2, p, src_dest)

interruptLost(k, task) ==                                 \* mutant of interrupt
  IF ~Accepts(k, task, HARDWARE) THEN k
  ELSE [k EXCEPT !.mess[task] = [m_source |-> HARDWARE, m_type |-> "HARD_INT"],
                 !.flags[task] = @ \ {"RECEIVING"},
                 !.rdy[TASK_Q] = Append(@, task)]

(* interrupt() when nothing keeps it from entering the tables *)
interrupt(k, task) ==
  IF ~Accepts(k, task, HARDWARE)
  THEN [k EXCEPT !.intBlocked = @ \cup {task}]
  ELSE [k EXCEPT !.mess[task] = [m_source |-> HARDWARE, m_type |-> "HARD_INT"],
                 !.flags[task] = @ \ {"RECEIVING"},
                 !.intBlocked = @ \ {task},
                 !.rdy[TASK_Q] = Append(@, task)]
-----------------------------------------------------------------------------
(* Kernel signals: kernel/system.c *)

cause_sig(k, p, sig) ==
  LET k1 == [k EXCEPT !.pending[p] = @ \cup {sig}, !.pendcount[p] = @ + 1]
      k2 == Block(k1, p, {"PENDING", "SIG_PENDING"})
      k3 == [k2 EXCEPT !.sigProcs = @ + 1]
  IN  IF sig \in k.pending[p] THEN k
      ELSE IF "PENDING" \in k.flags[p] THEN k1
      ELSE IF /\ "RECEIVING" \in k3.flags[MM_PROC_NR]
              /\ k3.getfrom[MM_PROC_NR] = ANY
           THEN inform(k3)
           ELSE k3

-----------------------------------------------------------------------------
(* Shadowing: kernel/stshadow.c *)

(* The other live users whose memory starts where p's does *)
Family(k, p) ==
  {q \in Users \ {p} : /\ "P_SLOT_FREE" \notin k.flags[q]
                       /\ k.img[q] = k.img[p]}

mkshadowNot(k, p) == k                                    \* mutant of mkshadow
mkshadow(k, p) == [k EXCEPT !.shadow = @ \cup {p}]

(* p gives up its memory: its shadow, or the family's place to a shadow of it *)
rmshadow(k, p) ==
  LET F == First(Family(k, p))
  IN  IF p \in k.shadow THEN [k EXCEPT !.shadow = @ \ {p}]
      ELSE IF F = {} THEN k
      ELSE LET q  == CHOOSE q \in F : TRUE
               k1 == IF k.flags[q] = {} THEN unready(k, q) ELSE k
               k2 == [k1 EXCEPT !.shadow = @ \ {q}]
           IN  IF q \notin k.shadow THEN [k EXCEPT !.panic = "no shadow?"]
               ELSE IF q \in k.physio
               THEN [k EXCEPT !.panic = "cannot handle physio shadows"]
               ELSE IF k.flags[q] = {} THEN ready(k2, q) ELSE k2

(* p and q exchange their images: p is the owner of the place from now on *)
Flipped(k, p, q) ==
  LET k1 == unready(k, p)
      k2 == IF k.flags[q] = {} THEN unready(k1, q) ELSE k1
      k3 == ready([k2 EXCEPT !.shadow = (@ \ {p}) \cup {q}], p)
  IN  IF k.flags[q] = {} THEN ready(k3, q) ELSE k3

mayFlipShadow(k, p, q) == p \notin k.physio               \* mutant of mayFlip
mayFlip(k, p, q) == p \notin k.physio /\ q \notin k.physio

(* Flip shadow p and the owner q of the family's place; flipwait, which     *)
(* only delays this, is left out.                                           *)
unshadow(k, p) ==
  LET F == First({q \in Family(k, p) : q \notin k.shadow})
  IN  IF p \in k.physio THEN k
      ELSE IF F = {} THEN [k EXCEPT !.panic = "only shadow(s)"]
      ELSE LET q == CHOOSE q \in F : TRUE
           IN  IF mayFlip(k, p, q) THEN Flipped(k, p, q) ELSE k
-----------------------------------------------------------------------------
(* Process life cycle: kernel/system.c *)

(* The child c is a copy of the parent u and runs first, in u's place. *)
do_fork(k, u, c) ==
  LET k1 == [k EXCEPT !.flags[c]   = k.flags[u] \ {"PENDING", "SIG_PENDING",
                                                   "P_STOP"},
                      !.getfrom[c] = k.getfrom[u],
                      !.callerq[c] = k.callerq[u],
                      !.mess[c]    = k.mess[u],
                      !.pending[c] = {},
                      !.pendcount[c] = 0,
                      !.img[c]     = k.img[u],
                      !.shadow = IF u \in @ THEN @ \cup {c} ELSE @ \ {c},
                      !.physio = IF u \in @ THEN @ \cup {c} ELSE @ \ {c}]
  IN  mkshadow(k1, u)

do_exec(k, u) == Unblock(k, u, {"RECEIVING"})

(* do_fresh: u leaves its family and gets memory of its own at place i *)
do_fresh(k, u, i) == [rmshadow(k, u) EXCEPT !.img[u] = i]

UnlinkHead(k, c) ==                                       \* mutant of Unlink
  [k EXCEPT !.callerq = [p \in Procs |->
     IF @[p] # <<>> /\ Head(@[p]) = c THEN Tail(@[p]) ELSE @[p]]]

(* Take c, killed while it was sending, out of the caller queues. *)
Unlink(k, c) == [k EXCEPT !.callerq = [p \in Procs |-> Dequeue(@[p], c)]]

FreeKeepCount(k, c) ==                                    \* mutant of Free
  [k EXCEPT !.pending[c] = {}, !.pendcount[c] = 0, !.flags[c] = {"P_SLOT_FREE"}]

Free(k, c) ==
  [k EXCEPT !.sigProcs = IF "PENDING" \in k.flags[c] THEN @ - 1 ELSE @,
            !.pending[c] = {},
            !.pendcount[c] = 0,
            !.flags[c] = {"P_SLOT_FREE"}]

do_xit(k, c) ==
  LET k1 == IF k.flags[c] = {} THEN unready(k, c) ELSE k
      k2 == rmshadow(k1, c)
      k3 == IF "SENDING" \in k2.flags[c] THEN Unlink(k2, c) ELSE k2
  IN  Free(k3, c)

(* do_trace, requests -1 (stop) and 7 or 9 (resume) *)
TraceStop(k, u) == [unready(k, u) EXCEPT !.flags[u] = @ \cup {"P_STOP"}]
TraceResume(k, u) == Unblock(k, u, {"P_STOP"})
=============================================================================
