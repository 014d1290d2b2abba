-------------------------------- MODULE MmProc --------------------------------
(***************************************************************************)
(* The memory manager as it manages processes: it serves one call after    *)
(* the other (mm/main.c), and the signals that the kernel reports while it *)
(* is idle.  A call is one step, but for the loops of check_sig() and      *)
(* do_ksig(): MM waits for SYSTASK and FS in each turn, programs go on and *)
(* the kernel raises signals in between, so each turn is a step.           *)
(***************************************************************************)
EXTENDS MmTable

CONSTANT Mixes      \* the mixes of programs and signals that are possible

(* What the programs of a mix call, the signals that the kernel raises by  *)
(* itself, whether the programs run as the superuser, and a bound on the    *)
(* slots in use.  Signal 1 is left to init, which catches it.              *)
Mix ==
  [calls  : SUBSET AllCalls, raised : SUBSET (Sigs \ {SIGHUP}), super : BOOLEAN,
   procs : Nat]

ASSUME MmProcAssumption == Mixes \subseteq Mix

VARIABLES s,          \* the process table
          mm,         \* what MM is doing
          may         \* one of Mixes

vars == <<s, mm, may>>

(* MM is idle, or in the loop of check_sig(), at a slot, for a program that *)
(* called kill() or for the kernel, whose other signals for a process are  *)
(* still to be done                                                        *)
Idle == [by |-> MM_PROC_NR]
Who  == [super : BOOLEAN, id : Slots \cup {0, -1}, group : Slots \cup {MM_PROC_NR}]
Loop == [by : Slots, who : Who, sig : Sigs, slot : INIT .. NR_PROCS]
        \cup [by : {HARDWARE}, who : Who, sig : Sigs, slot : INIT .. NR_PROCS,
              for : Users, left : SUBSET Sigs]

(* init has made its signal() calls and is about to start the first program *)
Init ==
  /\ s = [flags     |-> [p \in Slots |-> IF p = INIT THEN {"IN_USE"} ELSE {}],
          parent    |-> [p \in Slots |-> MM_PROC_NR],
          group     |-> [p \in Slots |-> MM_PROC_NR],
          sigstatus |-> [p \in Slots |-> 0],
          catch     |-> [p \in Slots |-> IF p = INIT THEN {SIGHUP} ELSE {}],
          ignore    |-> [p \in Slots |-> IF p = INIT THEN Sigs \ {SIGHUP, SIGKILL} ELSE {}],
          in_use    |-> 3,
          at        |-> [p \in Slots |-> IF p = INIT THEN "runs" ELSE "free"],
          call      |-> [p \in Slots |-> NoCall],
          pending   |-> [p \in Slots |-> {}],
          count     |-> [p \in Slots |-> 0],
          alarm     |-> [p \in Slots |-> FALSE],
          stop      |-> [p \in Slots |-> FALSE],
          wrong     |-> {}]
  /\ mm = Idle
  /\ may \in Mixes

-----------------------------------------------------------------------------
(* Programs and the kernel *)

(* The kernel lets p run its program *)
Runs(p) == s.at[p] = "runs" /\ s.count[p] = 0 /\ ~ s.stop[p]

Ask(p) ==
  /\ Runs(p)
  /\ \E c \in IF p = INIT THEN InitCalls ELSE may.calls :
       s' = [s EXCEPT !.at[p] = "calls", !.call[p] = c]
  /\ UNCHANGED <<mm, may>>

(* do_clocktick(): an alarm goes off *)
Alarm(p) ==
  /\ s.alarm[p]
  /\ s' = [cause_sig(s, p, SIGALRM) EXCEPT !.alarm[p] = FALSE]
  /\ UNCHANGED <<mm, may>>

(* A trap, a key or a broken pipe; a stack fault is found when p runs *)
Raise(p) ==
  /\ p # INIT /\ s.at[p] # "free"
  /\ \E sig \in may.raised :
       /\ sig = SIGSTKFLT => Runs(p)
       /\ s' = cause_sig(s, p, sig)
  /\ UNCHANGED <<mm, may>>

-----------------------------------------------------------------------------
(* MM takes a call *)

Serve(p, name) == mm = Idle /\ s.at[p] = "calls" /\ s.call[p][1] = name
Arg(p, i)      == s.call[p][i + 1]
Taken(p)       == [s EXCEPT !.at[p] = "blocked", !.call[p] = NoCall]
Result(t)      == s' = t /\ UNCHANGED <<mm, may>>

FreeSlot == Min({c \in Slots : ~ Has(s, c, "IN_USE")})

(* LAST_FEW slots are kept for the superuser; memory may be short *)
LAST_FEW == 2
do_fork(p) ==
  /\ Serve(p, "do_fork")
  /\ \/ Result(reply(Taken(p), p))                         \* EAGAIN
     \/ /\ s.in_use < may.procs
        /\ s.in_use < IF may.super \/ p = INIT THEN NR_PROCS ELSE NR_PROCS - LAST_FEW
        /\ Result(fork(Taken(p), p, FreeSlot))

do_mm_exit(p) == Serve(p, "do_mm_exit") /\ Result(mm_exit(Taken(p), p))

do_wait(p)    == Serve(p, "do_wait") /\ Result(wait(Taken(p), p))

do_exec(p) ==
  /\ Serve(p, "do_exec")
  /\ \/ Result(reply(Taken(p), p))                         \* it cannot be done
     \/ Result(sys_exec([Taken(p) EXCEPT !.catch[p] = {}], p))

do_pause(p)   == Serve(p, "do_pause") /\ Result(With(Taken(p), p, {"PAUSED"}))

do_alarm(p)   == Serve(p, "do_alarm") /\ Result(reply(set_alarm(Taken(p), p, Arg(p, 1)), p))

do_signal(p)  ==
  Serve(p, "do_signal") /\ Result(reply(signal(Taken(p), p, Arg(p, 1), Arg(p, 2)), p))

do_trace(p) ==
  /\ Serve(p, "do_trace")
  /\ \E room \in BOOLEAN :
       Result(reply(trace(Taken(p), p, Arg(p, 1), Arg(p, 2), Arg(p, 3), room), p))

do_kill(p) ==
  /\ Serve(p, "do_kill")
  /\ s' = Taken(p)
  /\ mm' = [by |-> p, sig |-> Arg(p, 2), slot |-> INIT,
            who |-> [super |-> may.super \/ p = INIT, id |-> Arg(p, 1), group |-> s.group[p]]]
  /\ UNCHANGED may

-----------------------------------------------------------------------------
(* MM is told of the signals of a process *)

(* The signals of the loop of do_ksig(), which ends below the last signal *)
ToDo(sigs) == sigs \ {SIGSTKFLT}

Id(p, sig) == IF sig \in {SIGINT, SIGQUIT} THEN 0
              ELSE IF sig = SIGKILL THEN -1 ELSE p

KernelLoopFirst(p, left) ==                                \* mutant of KernelLoop
  IF left = {} THEN Idle
  ELSE [by |-> HARDWARE, sig |-> Min(left), slot |-> INIT, for |-> p, left |-> {},
        who |-> [super |-> TRUE, id |-> Id(p, Min(left)), group |-> s.group[p]]]

(* The next signal of p, from left *)
KernelLoop(p, left) ==
  IF left = {} THEN Idle
  ELSE LET sig == Min(left)
       IN  [by |-> HARDWARE, sig |-> sig, slot |-> INIT, for |-> p, left |-> left \ {sig},
            who |-> [super |-> TRUE, id |-> Id(p, sig), group |-> s.group[p]]]

(* The kernel counts a stack fault that comes alone as done itself.  MM    *)
(* makes room, or the process gets a SIGSEGV that it cannot catch.         *)
stack_fault(t, p, grows) ==
  LET u == sys_sigDone(t, p)
  IN  IF grows THEN u ELSE sig_proc([u EXCEPT !.catch[p] = {}], p, SIGSEGV, FALSE)

do_ksig(p) ==
  LET sigs == s.pending[p]
      t    == [s EXCEPT !.pending[p] = {}]
  IN  /\ mm = Idle /\ sigs # {}
      /\ IF ~ Live(s, p) THEN s' = t /\ mm' = Idle
         ELSE /\ mm' = KernelLoop(p, ToDo(sigs))
              /\ IF sigs = {SIGSTKFLT} THEN \E grows \in BOOLEAN : s' = stack_fault(t, p, grows)
                 ELSE s' = t
  /\ UNCHANGED may

(* One turn of the loop of check_sig() *)
CheckSig ==
  /\ mm # Idle /\ mm.slot < NR_PROCS
  /\ \E room \in BOOLEAN : s' = check_sig(s, mm.who, mm.sig, mm.slot, room)
  /\ mm' = [mm EXCEPT !.slot = @ + 1]
  /\ UNCHANGED may

(* The end of the loop: kill() replies, do_ksig() goes on *)
Checked ==
  /\ mm # Idle /\ mm.slot = NR_PROCS
  /\ IF mm.by = HARDWARE
     THEN s' = sys_sigDone(s, mm.for) /\ mm' = KernelLoop(mm.for, mm.left)
     ELSE s' = reply(s, mm.by) /\ mm' = Idle
  /\ UNCHANGED may

Call(p) == \/ do_fork(p) \/ do_mm_exit(p) \/ do_wait(p) \/ do_exec(p) \/ do_pause(p)
           \/ do_alarm(p) \/ do_signal(p) \/ do_trace(p) \/ do_kill(p)

Next == \/ \E p \in Slots : Ask(p) \/ Alarm(p) \/ Raise(p) \/ Call(p) \/ do_ksig(p)
        \/ CheckSig \/ Checked

Spec == Init /\ [][Next]_vars

-----------------------------------------------------------------------------
(* Type correctness: the routines keep every field in its range. *)
TypeOK == s \in Table /\ mm \in {Idle} \cup Loop /\ may \in Mixes

(* A program that waits is told: nobody waits while a child of his has     *)
(* exited, or has stopped and that is not reported yet (mm_exit, do_wait,   *)
(* cleanup, stop_proc).  INIT may not be told of stops: a child that it     *)
(* inherits while it waits has stopped before.                              *)
WaitAnswered ==
  \A p \in Slots : Live(s, p) /\ Has(s, p, "WAITING") =>
    \A c \in Children(s, p) : ~ Has(s, c, "HANGING") /\ (Reports(s, c) => p = INIT)

(* MM's WAITING and PAUSED say exactly which processes wait for a reply     *)
(* after their call has been served: no other is left without an answer,    *)
(* and each is in one of the two (do_pause, do_wait, unpause, cleanup).     *)
BlockedKnown ==
  \A p \in Slots : Live(s, p) /\ p # mm.by =>
    /\ s.at[p] = "blocked" <=> s.flags[p] \cap {"WAITING", "PAUSED"} # {}
    /\ ~ {"WAITING", "PAUSED"} \subseteq s.flags[p]

(* MM never sends to a process that does not wait for it, which would hang  *)
(* MM in send() (reply).                                                    *)
NoStrayReply == "stray reply" \notin s.wrong

(* A process exits once: its slot and memory in the kernel are given up     *)
(* once (mm_exit; "don't wake the dead" in check_sig).                      *)
OneExit == "second exit" \notin s.wrong

(* MM and the kernel agree on which processes there are: the kernel has a   *)
(* process exactly for the slots in use that have not exited.               *)
TablesAgree == \A p \in Slots : s.at[p] # "free" <=> Live(s, p)

(* The parent of a process exists: a parent that goes leaves its children   *)
(* to INIT (cleanup); procs_in_use counts the slots in use; and MM and the  *)
(* kernel agree on who lives (mm_exit, do_fork).                            *)
Family ==
  /\ TablesAgree
  /\ \A p \in Users : Has(s, p, "IN_USE") => Has(s, s.parent[p], "IN_USE")
  /\ s.in_use = 2 + Cardinality({p \in Slots : Has(s, p, "IN_USE")})

(* Every signal of the kernel is finished once: a process is inhibited for  *)
(* exactly the signals that MM has not seen or is working on (do_ksig,      *)
(* inform, sys_sig).                                                        *)
SignalsFinished ==
  \A p \in Slots : s.at[p] # "free" =>
    s.count[p] = Cardinality(s.pending[p])
                 + IF mm.by = HARDWARE THEN IF mm.for = p THEN 1 + Cardinality(mm.left)
                                            ELSE 0 ELSE 0

(* A process that MM holds as stopped is stopped (stop_proc, do_trace).     *)
StopAgrees == \A p \in Slots : Live(s, p) => (Has(s, p, "STOPPED") <=> s.stop[p])

(* MM and the kernel agree on who is stopped (stop_proc, do_trace, do_fork, *)
(* mm_exit).                                                                *)
MmAgrees == TypeOK /\ StopAgrees

(* Whoever waits for MM is known to it, and nobody else is answered         *)
(* (reply, unpause, cleanup, do_wait, do_pause).                            *)
WaitersKnown == BlockedKnown /\ NoStrayReply

(* An alarm that will go off will also be delivered: MM has ALARM_ON for    *)
(* every process whose alarm the clock keeps (set_alarm, check_sig).        *)
AlarmKept == \A p \in Slots : s.alarm[p] => Has(s, p, "ALARM_ON")

(* A signal that is caught ends the pause() or wait() of the process        *)
(* (sig_proc, unpause).                                                     *)
Interrupts ==
  [][\A p \in Slots : s'.catch[p] # s.catch[p] /\ Live(s, p) /\ p # mm'.by =>
       s'.at[p] # "blocked"]_vars

(* A new process is neither traced nor stopped (do_fork).                   *)
ChildUntraced ==
  [][\A p \in Slots : ~ Has(s, p, "IN_USE") /\ Has(s', p, "IN_USE") =>
       s'.flags[p] \cap {"TRACED", "STOPPED"} = {}]_vars
=============================================================================
