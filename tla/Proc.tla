-------------------------------- MODULE Proc --------------------------------
(***************************************************************************)
(* The kernel as it runs: one processor, interrupted between any two steps *)
(* of the program that runs.  Programs (users, the servers MM and FS, the  *)
(* kernel tasks) do anything the rules of the system let them do; the      *)
(* kernel must keep its tables right for all of them.                      *)
(*                                                                         *)
(* A trap into the kernel is one step: interrupts are masked until restart *)
(* (stmpx.s).  A task runs with interrupts open, so what it does in the    *)
(* tables is protected by `switching'; an interrupt that comes meanwhile,  *)
(* or while restart flushes earlier ones, is put on the held queue.        *)
(***************************************************************************)
EXTENDS ProcTable

CONSTANTS IrqTasks,     \* tasks that an interrupt handler calls interrupt() for
          Mixes         \* what programs and tasks do: a set of records with
                        \* calls, as <<function, caller, src_dest>>; services,
                        \* see Work below; sigs, the signals that are raised;
                        \* maxPend, a bound on p_pendcount

MayCall == UNION {m.calls : m \in Mixes}

(* Users call the servers and wait for the answer; nobody sends to himself; *)
(* only tasks wait for an interrupt and nothing else.                       *)
ASSUME CallsAssumption ==
  /\ MayCall \subseteq Functions \X Live \X (Procs \cup {ANY})
  /\ \A c \in MayCall : /\ isuserp(c[2]) => c[1] = "BOTH" /\ c[3] \in Servers
                        /\ c[1] # "RECEIVE" => c[3] \in (Tasks \cup Servers) \ {c[2]}
                        /\ c[3] = HARDWARE => c[2] \in Tasks
  /\ IrqTasks \subseteq Tasks

ASSUME BoundAssumption == \A m \in Mixes : m.maxPend \in Nat /\ m.sigs \subseteq Sigs

VARIABLES k,            \* the kernel's tables
          held,         \* tasks on the held queue (held_head .. held_tail)
          switching,    \* nonzero while a task is inside a lock_ routine
          unholding,    \* the task unhold() has taken off the queue, if any
          mix           \* one of Mixes

vars == <<k, held, switching, unholding, mix>>

NIL_PROC == ANY

TypeOK ==
  /\ k \in Kernel
  /\ held \in Seq(Tasks)
  /\ switching \in BOOLEAN
  /\ unholding \in Tasks \cup {NIL_PROC}

(* main() in stmain.c: all tasks, MM, FS and INIT ready, in slot order *)
Boot(tasks) ==
  pick_proc(
    [flags      |-> [p \in Procs |-> IF p > LOW_USER THEN {"P_SLOT_FREE"}
                                     ELSE {}],
     getfrom    |-> [p \in Procs |-> MM_PROC_NR],
     callerq    |-> [p \in Procs |-> <<>>],
     mess       |-> [p \in Procs |-> NoMess],
     rdy        |-> [q \in Queues |->
                       CASE q = TASK_Q   -> tasks
                         [] q = SERVER_Q -> <<MM_PROC_NR, FS_PROC_NR>>
                         [] q = USER_Q   -> <<LOW_USER>>
                         [] q = SHADOW_Q -> <<>>],
     cur        |-> HARDWARE,
     bill       |-> HARDWARE,
     intBlocked |-> {},
     pending    |-> [p \in Procs |-> {}],
     pendcount  |-> [p \in Procs |-> 0],
     sigProcs   |-> 0,
     img        |-> [p \in Procs |-> LOW_USER],
     shadow     |-> {},
     physio     |-> {},
     panic      |-> "none"])

Init ==
  /\ \E tasks \in [1 .. Cardinality(Tasks) -> Tasks] :
       /\ \A i, j \in DOMAIN tasks : i < j => tasks[i] < tasks[j]
       /\ k = Boot(tasks)
  /\ held = <<>>
  /\ switching = FALSE
  /\ unholding = NIL_PROC
  /\ mix \in Mixes
-----------------------------------------------------------------------------
(* Entry to and exit from the kernel: stmpx.s *)

Running == k.panic = "none" /\ unholding = NIL_PROC

(* restart, up to the point where unhold() lets interrupts in *)
restart(k1) ==
  /\ k' = k1
  /\ IF held # <<>> /\ ~switching
     THEN unholding' = Head(held) /\ held' = Tail(held)
     ELSE UNCHANGED <<unholding, held>>

hold(t) ==
  /\ held' = IF InQueue(held, t) THEN held ELSE Append(held, t)
  /\ UNCHANGED <<k, switching, unholding>>

(* A driver, or its watchdog in CLOCK, calls interrupt() for itself. *)
OwnCall(t) == t # CLOCK /\ k.cur \in {CLOCK, t}

(* An interrupt handler calls interrupt(t) while a program runs.  It is held *)
(* if a task is inside a lock_ routine or called itself (k_reenter is -1).   *)
Irq(t) ==
  LET k1 == interrupt(k, t)
      user == k.cur \notin Tasks
  IN  /\ Running
      /\ \/ (switching \/ OwnCall(t)) /\ hold(t)
         \/ /\ ~switching /\ UNCHANGED switching
            /\ IF user /\ k1.rdy[TASK_Q] # <<>>
               THEN restart(pick_proc(k1))
               ELSE k' = k1 /\ UNCHANGED <<held, unholding>>

(* An interrupt while unhold() has them enabled: k_reenter is not 0. *)
IrqNested(t) ==
  /\ k.panic = "none" /\ unholding # NIL_PROC
  /\ hold(t)

(* mutant of unhold: the queue taken from the wrong end *)
unholdNewest ==
  /\ k.panic = "none" /\ unholding # NIL_PROC
  /\ k' = interrupt(k, unholding)
  /\ IF held # <<>>
     THEN unholding' = held[Len(held)] /\ held' = SubSeq(held, 1, Len(held) - 1)
     ELSE unholding' = NIL_PROC /\ UNCHANGED held
  /\ UNCHANGED switching

(* unhold() calls interrupt() and takes the next held task, if any. *)
unhold ==
  /\ k.panic = "none" /\ unholding # NIL_PROC
  /\ k' = interrupt(k, unholding)
  /\ IF held # <<>>
     THEN unholding' = Head(held) /\ held' = Tail(held)
     ELSE unholding' = NIL_PROC /\ UNCHANGED held
  /\ UNCHANGED switching
-----------------------------------------------------------------------------
(* Traps *)

Trap(k1) == Running /\ ~switching /\ restart(k1) /\ UNCHANGED switching

Request == [m_source |-> k.cur, m_type |-> "request"]
Reply   == [m_source |-> k.cur, m_type |-> "reply"]

Call(c) ==
  /\ c \in mix.calls /\ c[2] = k.cur
  /\ Trap(sys_call(k, c[1], c[3], IF c[1] = "RECEIVE" THEN NoMess ELSE Request))

(* A server or a task answers a process that waits for it, or has died. *)
Answer(p) ==
  /\ k.cur \in Tasks \cup Servers
  /\ \/ p \in Users /\ "P_SLOT_FREE" \in k.flags[p]
     \/ p \in Live /\ Accepts(k, p, k.cur) /\ k.getfrom[p] = k.cur
  /\ ~ (k.cur = FS_PROC_NR /\ p \in k.physio)
  /\ Trap(sys_call(k, "SEND", p, Reply))

(* An exception in a user program, or its stack check in restart *)
trap(sig) ==
  /\ sig \in mix.sigs /\ k.cur \in Users /\ k.pendcount[k.cur] < mix.maxPend
  /\ Trap(cause_sig(k, k.cur, sig))
-----------------------------------------------------------------------------
(* What tasks do in the tables *)

(* A task enters a lock_ routine. *)
lock_ ==
  /\ Running /\ k.cur \in Tasks /\ ~switching /\ "lock" \in mix.services
  /\ switching' = TRUE
  /\ UNCHANGED <<k, held, unholding>>

(* Task t changes the tables to k1 and has left its lock_ routine. *)
Work(service, t, k1) ==
  /\ Running /\ k.cur = t /\ service \in mix.services
  /\ k' = k1
  /\ switching' = FALSE
  /\ UNCHANGED <<held, unholding>>

(* A task picks the process to run: itself, as it is still runnable. *)
lock_pick_proc == switching /\ Work("lock", k.cur, pick_proc(k))

(* SYSTASK serves a request: the reply is put in m before it is sent. *)
Serve(service, caller, k1) ==
  /\ k.mess[SYSTASK] = [m_source |-> caller, m_type |-> "request"]
  /\ Work(service, SYSTASK, [k1 EXCEPT !.mess[SYSTASK].m_type = "reply"])

WaitsFor(u, server) == Accepts(k, u, server) /\ k.getfrom[u] = server
Alive(u) == "P_SLOT_FREE" \notin k.flags[u]

(* Images that no live process uses *)
FreeImages == Users \ {k.img[u] : u \in {v \in Users : Alive(v)}}

(* TTY or CLOCK signals a process. *)
CauseSig(t, u, sig) ==
  /\ t # SYSTASK /\ sig \in mix.sigs /\ k.pendcount[u] < mix.maxPend
  /\ Alive(u)
  /\ Work("signal", t, cause_sig(k, u, sig))

do_kill(u, sig) ==
  /\ sig \in mix.sigs /\ Alive(u) /\ k.pendcount[u] < mix.maxPend
  /\ \E s \in Servers : Serve("kill", s, cause_sig(k, u, sig))

(* MM has finished one of the signals it was told of; the process may be    *)
(* gone, killed by that signal.                                             *)
do_sig(u) ==
  /\ k.pendcount[u] > Cardinality(k.pending[u]) \/ ~Alive(u)
  /\ Serve("signal", MM_PROC_NR, SigDone(k, u))

Fork(u, c) ==
  /\ WaitsFor(u, MM_PROC_NR) /\ ~Alive(c)
  /\ Serve("life", MM_PROC_NR, do_fork(k, u, c))

Exec(u) ==
  /\ WaitsFor(u, MM_PROC_NR)
  /\ Serve("exec", MM_PROC_NR, do_exec(k, u))

Fresh(u) ==
  /\ WaitsFor(u, MM_PROC_NR)
  /\ \E i \in FreeImages : Serve("shadow", MM_PROC_NR, do_fresh(k, u, i))

Xit(u) == u # LOW_USER /\ Alive(u) /\ Serve("life", MM_PROC_NR, do_xit(k, u))

Stop(u) ==
  /\ Alive(u) /\ "P_STOP" \notin k.flags[u]
  /\ Serve("trace", MM_PROC_NR, TraceStop(k, u))

Resume(u) ==
  /\ "P_STOP" \in k.flags[u]
  /\ Serve("trace", MM_PROC_NR, TraceResume(k, u))

(* The two jobs CLOCK has in the queues on a tick: do_clocktick() *)
Quantum == Work("sched", CLOCK, sched(k))

Flip ==
  /\ k.rdy[SHADOW_Q] # <<>>
  /\ Work("shadow", CLOCK, unshadow(k, Head(k.rdy[SHADOW_Q])))

(* A driver uses the memory of a process that waits for FS. *)
Physio(t, u) ==
  /\ t \in Tasks \ {SYSTASK, CLOCK} /\ WaitsFor(u, FS_PROC_NR)
  /\ Work("physio", t, [k EXCEPT !.physio = IF u \in @ THEN @ \ {u}
                                            ELSE @ \cup {u}])
-----------------------------------------------------------------------------
Sys ==
  \/ \E c \in MayCall : Call(c)
  \/ \E p \in Live : Answer(p)

Kernel_Work ==
  \/ lock_ \/ lock_pick_proc
  \/ \E u \in Users :
       \/ \E sig \in Sigs : (\E t \in Tasks : CauseSig(t, u, sig)) \/ do_kill(u, sig)
       \/ do_sig(u) \/ Exec(u) \/ Fresh(u) \/ Xit(u) \/ Stop(u) \/ Resume(u)
       \/ \E c \in Users : Fork(u, c)
       \/ \E t \in Tasks : Physio(t, u)
  \/ Quantum
  \/ Flip

Step ==
  \/ Sys
  \/ \E sig \in Sigs : trap(sig)
  \/ Kernel_Work
  \/ \E t \in IrqTasks : Irq(t) \/ IrqNested(t)
  \/ unhold

Next == Step /\ UNCHANGED mix

(***************************************************************************)
(* unhold() goes on, a lock_ routine is left again, and a task gets round  *)
(* to its next call: these routines do not loop, and every task spends its *)
(* life in a loop around receive().                                        *)
(***************************************************************************)
Spec == Init /\ [][Next]_vars /\ WF_vars(unhold /\ UNCHANGED mix)
             /\ WF_vars(Kernel_Work /\ switching /\ UNCHANGED mix)
             /\ SF_vars(Sys /\ k.cur \in Tasks /\ UNCHANGED mix)
-----------------------------------------------------------------------------
(* Properties *)

Runnable(p) == k.flags[p] = {}
NoDuplicates(q) == \A i, j \in 1 .. Len(q) : q[i] = q[j] => i = j

(***************************************************************************)
(* A process is in the ready queue of its class exactly once if p_flags is *)
(* 0, and in no ready queue otherwise: ready() and unready() are called at *)
(* every change of p_flags to and from 0, by whichever routine makes it,   *)
(* and when p_shadow changes the queue of a runnable process.              *)
(***************************************************************************)
ReadyInv ==
  \A q \in Queues :
    /\ NoDuplicates(k.rdy[q])
    /\ \A p \in Procs :
         InQueue(k.rdy[q], p) <=> p \in Live /\ Runnable(p) /\ q = Queue(k, p)

(***************************************************************************)
(* A process is SENDING exactly while it is in one caller queue, once:     *)
(* mini_rec() unlinks the sender it takes, do_xit() a sender that is       *)
(* killed, and do_fork() copies no link.                                   *)
(***************************************************************************)
SenderInv ==
  /\ \A d, e \in Procs : \A i \in 1 .. Len(k.callerq[d]), j \in 1 .. Len(k.callerq[e]) :
       k.callerq[d][i] = k.callerq[e][j] => d = e /\ i = j
  /\ \A p \in Procs :
       "SENDING" \in k.flags[p] <=> \E d \in Procs : InQueue(k.callerq[d], p)

(***************************************************************************)
(* proc_ptr is the idle process or a runnable process at the head of its   *)
(* queue, never a shadow: no routine blocks the running process without    *)
(* picking another.                                                        *)
(***************************************************************************)
CurrentRunnable ==
  k.cur = IDLE \/ /\ k.rdy[Queue(k, k.cur)] # <<>>
                  /\ Head(k.rdy[Queue(k, k.cur)]) = k.cur
                  /\ Queue(k, k.cur) # SHADOW_Q

(***************************************************************************)
(* Two processes never wait for each other to receive: mini_send() refuses *)
(* with ELOCKED.                                                           *)
(***************************************************************************)
NoMutualSend ==
  \A p, d \in Live : ~ (InQueue(k.callerq[d], p) /\ InQueue(k.callerq[p], d))

(***************************************************************************)
(* The books of the kernel's signals: PENDING stands for pending signals,  *)
(* SIG_PENDING for unfinished ones, which include the pending ones, and    *)
(* sig_procs counts the processes with PENDING (kernel/glo.h:22).          *)
(***************************************************************************)
SignalFlags ==
  \A u \in Users :
    /\ "PENDING" \in k.flags[u] <=> k.pending[u] # {}
    /\ "SIG_PENDING" \in k.flags[u] <=> k.pendcount[u] > 0
    /\ k.pendcount[u] >= Cardinality(k.pending[u])

SigProcsCounts ==
  k.sigProcs = Cardinality({p \in Procs : k.pending[p] # {}})

(***************************************************************************)
(* MM never waits for work while a process has signals it was not told of. *)
(***************************************************************************)
NoSignalForgotten ==
  Accepts(k, MM_PROC_NR, HARDWARE) => \A u \in Users : k.pending[u] = {}

(***************************************************************************)
(* The processes of one fork family share a place in memory, and exactly   *)
(* one of them is not a shadow, whoever exits, execs or is flipped.        *)
(***************************************************************************)
OneOwner ==
  k.panic = "none" =>
    \A u \in Users : Alive(u) =>
      Cardinality({v \in Users : /\ Alive(v) /\ k.img[v] = k.img[u]
                                 /\ v \notin k.shadow}) = 1

(***************************************************************************)
(* The tables never get into a state the shadowing code gives up on.  The  *)
(* panic for a shadow that a driver uses is the known limit of rmshadow(). *)
(***************************************************************************)
NoPanic == k.panic \in {"none", "cannot handle physio shadows"}

(***************************************************************************)
(* While a driver uses the memory of a process, the process is not moved   *)
(* between the family's place and a shadow.                                *)
(***************************************************************************)
PhysioFixed ==
  [][\A u \in k.physio \cap k'.physio :
       "P_SLOT_FREE" \notin k'.flags[u] => (u \in k.shadow <=> u \in k'.shadow)]_vars

(***************************************************************************)
(* rmshadow() asserts that the shadow that takes a family's place is not   *)
(* in use by a driver (kernel/stshadow.c:74).                              *)
(***************************************************************************)
NoPhysioShadow == k.panic # "cannot handle physio shadows"

(***************************************************************************)
(* Held interrupts are only outstanding while a task runs: a server, a     *)
(* user or the idle process never goes on before they are flushed.         *)
(***************************************************************************)
HeldFlushed ==
  held # <<>> /\ unholding = NIL_PROC => k.cur \in Tasks

(***************************************************************************)
(* TASK_Q has the highest priority (kernel/proc.c:321): no server or user  *)
(* program runs while a task is runnable.                                  *)
(***************************************************************************)
TasksFirst ==
  unholding = NIL_PROC /\ k.cur \notin Tasks => k.rdy[TASK_Q] = <<>>

(***************************************************************************)
(* A process that waited for one source gets its message from that source. *)
(***************************************************************************)
OnlyWanted ==
  [][\A p \in Live :
       (/\ "RECEIVING" \in k.flags[p]
        /\ {"RECEIVING", "P_SLOT_FREE"} \cap k'.flags[p] = {}
        /\ k'.mess[p] # k.mess[p])
       => k.getfrom[p] \in {ANY, k'.mess[p].m_source}]_vars

(***************************************************************************)
(* The message a process has received stays in its buffer until it makes   *)
(* its next call: only the process itself, or the call that delivers the   *)
(* next message, writes there.                                             *)
(***************************************************************************)
MessageKept ==
  [][\A p \in Live :
       k'.mess[p] # k.mess[p] =>
         p = k.cur \/ "RECEIVING" \in k.flags[p] \/ ~Alive(p)]_vars

(***************************************************************************)
(* A sender is released only when its message is in the buffer of the      *)
(* process it was queued for; a process that exits is the one exception.   *)
(***************************************************************************)
NoMessageLost ==
  [][\A p, d \in Live :
       InQueue(k.callerq[d], p) /\ ~InQueue(k'.callerq[d], p) =>
         \/ k'.mess[d] = [m_source |-> p, m_type |-> k.mess[p].m_type]
         \/ "P_SLOT_FREE" \in k'.flags[p]]_vars

(***************************************************************************)
(* An interrupt that found its task busy is on record until the task has   *)
(* a message from HARDWARE.                                                *)
(***************************************************************************)
InterruptKept ==
  [][\A t \in Tasks :
       \/ t \in k.intBlocked /\ t \notin k'.intBlocked
       \/ unholding = t /\ unholding' # t /\ t \notin k'.intBlocked
       => k'.mess[t] = [m_source |-> HARDWARE, m_type |-> "HARD_INT"]]_vars

(***************************************************************************)
(* Every held interrupt is delivered to its task's slot in the end.        *)
(***************************************************************************)
HeldDelivered ==
  \A t \in IrqTasks : InQueue(held, t) ~> ~InQueue(held, t)

(***************************************************************************)
(* Whoever is ready is queued to run and nobody else, and the process that *)
(* runs is one of them (ready, unready, sched, pick_proc).                 *)
(***************************************************************************)
Scheduled == ReadyInv /\ CurrentRunnable

(***************************************************************************)
(* Whoever is blocked in a send is queued on one receiver, which does not  *)
(* itself wait in his queue (mini_send, mini_rec, do_xit).                 *)
(***************************************************************************)
Queued == SenderInv /\ NoMutualSend

(***************************************************************************)
(* Every message and every interrupt reaches the process it is for, which  *)
(* is waiting for it (mini_send, mini_rec, interrupt).                     *)
(***************************************************************************)
Delivered == OnlyWanted /\ NoMessageLost /\ InterruptKept

(***************************************************************************)
(* The books of the kernel's signals agree (cause_sig, do_sig, inform,     *)
(* do_fork, do_xit).                                                       *)
(***************************************************************************)
SignalsCounted == SignalFlags /\ SigProcsCounts

(***************************************************************************)
(* A family that shares a place in memory has one owner of it, and the     *)
(* search for him never fails (mkshadow, rmshadow, unshadow).              *)
(***************************************************************************)
FamilyPlaced == OneOwner /\ NoPanic

(***************************************************************************)
(* Interrupts that were held are flushed before anything but a task runs,  *)
(* and all of them in the end (interrupt, unhold, restart).                *)
(***************************************************************************)
HeldServed == []HeldFlushed /\ HeldDelivered
=============================================================================
