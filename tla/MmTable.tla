------------------------------- MODULE MmTable -------------------------------
(***************************************************************************)
(* The process table of the memory manager (mm/mproc.h) and the routines   *)
(* of mm/forkexit.c, mm/signal.c and mm/trace.c that work on it, with what *)
(* they ask SYSTASK and CLOCK to do for the process.                       *)
(*                                                                         *)
(* Each routine is an operator from a table to a table, under the name it  *)
(* has in the source.  A table is a record s: the fields of mproc[], by    *)
(* slot, and the kernel's side of the same processes.                      *)
(*                                                                         *)
(* A process id is the slot: a program may name any id, so it makes no     *)
(* difference to MM that a new process in an old slot gets a new one.  A   *)
(* process group is the slot of a member.                                  *)
(***************************************************************************)
EXTENDS Integers, FiniteSetsExt

CONSTANT NR_PROCS     \* slots of the process table

HARDWARE   == -1
MM_PROC_NR == 0
INIT       == 2       \* INIT_PROC_NR
SIGHUP     == 1
SIGINT     == 2
SIGQUIT    == 3
SIGTRAP    == 5
SIGKILL    == 9
SIGSEGV    == 11
SIGALRM    == 14
SIGSTKFLT  == 16

Sigs  == 1 .. 16                \* _NSIG
Slots == INIT .. NR_PROCS - 1   \* MM and FS take no part
Users == Slots \ {INIT}

Flag == {"IN_USE", "WAITING", "HANGING", "PAUSED", "ALARM_ON", "TRACED", "STOPPED"}

(* What a process does, as the kernel and its program see it: its slot is  *)
(* free; it runs, or would but for a signal or a stop, or is in FS; its    *)
(* call is queued on MM; MM has taken its call and it waits for the reply  *)
State == {"free", "runs", "calls", "blocked"}

NoCall    == <<"none">>
InitCalls == {<<"do_fork">>, <<"do_wait">>}      \* what init does in its loop

(* The calls that programs make of MM; signal 1 is left to init *)
AllCalls ==
  {<<"do_fork">>, <<"do_wait">>, <<"do_mm_exit">>, <<"do_exec">>, <<"do_pause">>}
    \cup ({"do_alarm"} \X BOOLEAN)
    \cup ({"do_signal"} \X (Sigs \ {SIGHUP}) \X {"SIG_IGN", "SIG_DFL", "catch"})
    \cup ({"do_kill"} \X (Slots \cup {0, -1}) \X (Sigs \ {SIGHUP}))
    \cup ({"do_trace"} \X {0, 7, 8, 9} \X Slots \X ({0} \cup (Sigs \ {SIGHUP})))

ASSUME SlotsAssumption == NR_PROCS \in Nat /\ NR_PROCS > INIT + 1

(* Disasters: MM sends to a process that does not wait for MM, and is stuck *)
(* in send(); SYSTASK is asked to free a slot, and memory, that is free     *)
Disaster == {"stray reply", "second exit"}

Table ==
  [flags     : [Slots -> SUBSET Flag],
   parent    : [Slots -> Slots \cup {MM_PROC_NR}],
   group     : [Slots -> Slots \cup {MM_PROC_NR}],     \* mp_procgrp
   sigstatus : [Slots -> Sigs \cup {0}],
   catch     : [Slots -> SUBSET Sigs],
   ignore    : [Slots -> SUBSET Sigs],
   in_use    : Nat,                                    \* procs_in_use
   at        : [Slots -> State],
   call      : [Slots -> AllCalls \cup {NoCall}],
   pending   : [Slots -> SUBSET Sigs],                 \* p_pending
   count     : [Slots -> Nat],                         \* p_pendcount
   alarm     : [Slots -> BOOLEAN],                     \* p_alarm is set
   stop      : [Slots -> BOOLEAN],                     \* P_STOP
   wrong     : SUBSET Disaster]

With(s, p, fs)    == [s EXCEPT !.flags[p] = @ \cup fs]
Without(s, p, fs) == [s EXCEPT !.flags[p] = @ \ fs]
Has(s, p, f)      == f \in s.flags[p]

(* In MM's eyes p is a process that has not exited *)
Live(s, p)        == Has(s, p, "IN_USE") /\ ~ Has(s, p, "HANGING")
Children(s, p)    == {c \in Slots : s.parent[c] = p /\ Has(s, c, "IN_USE")}

-----------------------------------------------------------------------------
(* What the kernel does with a process *)

cause_sig(s, p, sig) ==
  IF sig \in s.pending[p] THEN s
  ELSE [s EXCEPT !.pending[p] = @ \cup {sig}, !.count[p] = @ + 1]

(* sys_sig(p, -1): MM has finished one signal *)
sys_sigDone(s, p) == [s EXCEPT !.count[p] = IF @ = 0 THEN 0 ELSE @ - 1]

sys_xit(s, p) ==
  IF s.at[p] = "free" THEN [s EXCEPT !.wrong = @ \cup {"second exit"}]
  ELSE [s EXCEPT !.at[p] = "free", !.call[p] = NoCall, !.pending[p] = {},
                 !.count[p] = 0, !.alarm[p] = FALSE, !.stop[p] = FALSE]

sys_fork(s, p, c) ==
  [s EXCEPT !.at[c] = s.at[p], !.call[c] = NoCall, !.alarm[c] = s.alarm[p],
            !.pending[c] = {}, !.count[c] = 0, !.stop[c] = FALSE]

sys_exec(s, p) ==
  LET t == [s EXCEPT !.at[p] = "runs", !.alarm[p] = FALSE]
  IN  IF Has(s, p, "TRACED") THEN cause_sig(t, p, SIGTRAP) ELSE t

set_alarm(s, p, on) ==
  [(IF on THEN With(s, p, {"ALARM_ON"}) ELSE Without(s, p, {"ALARM_ON"}))
   EXCEPT !.alarm[p] = on]

-----------------------------------------------------------------------------
(* mm/main.c, mm/forkexit.c *)

(* A reply reaches p only if p waits for one *)
reply(s, p) ==
  IF ~ Live(s, p) THEN s
  ELSE IF s.at[p] # "blocked" THEN [s EXCEPT !.wrong = @ \cup {"stray reply"}]
  ELSE [s EXCEPT !.at[p] = "runs"]

ReleaseQuiet(s, p) ==                                      \* mutant of Release
  [Without(reply(s, s.parent[p]), p, {"TRACED", "HANGING", "PAUSED", "IN_USE"})
   EXCEPT !.in_use = @ - 1]

(* cleanup() of p up to the loop over its children *)
Release(s, p) ==
  LET t == reply(s, s.parent[p])
      u == Without(t, t.parent[p], {"WAITING"})
  IN  [Without(u, p, {"TRACED", "HANGING", "PAUSED", "IN_USE"}) EXCEPT !.in_use = @ - 1]

DisinheritNone(s, p) == s                                  \* mutant of Disinherit

Disinherit(s, p) ==
  [s EXCEPT !.parent = [c \in Slots |-> IF @[c] = p THEN INIT ELSE @[c]]]

cleanupOnly(s, p) == Disinherit(Release(s, p), p)          \* mutant of cleanup

(* If INIT waits, the first dead child it inherits is cleaned up as well. *)
(* INIT no longer waits then, so it goes no deeper.                       *)
cleanup(s, p) ==
  LET t    == Release(s, p)
      dead == {c \in Slots : t.parent[c] = p /\ Has(t, c, "HANGING")}
      u    == Disinherit(t, p)
  IN  IF Has(t, INIT, "WAITING") /\ dead # {}
      THEN Disinherit(Release(u, Min(dead)), Min(dead))
      ELSE u

mm_exitForget(s, p) ==                                     \* mutant of mm_exit
  sys_xit(IF Has(s, s.parent[p], "WAITING") THEN cleanup(s, p) ELSE s, p)

mm_exit(s, p) ==
  LET t == IF Has(s, s.parent[p], "WAITING") THEN cleanup(s, p)
           ELSE With(s, p, {"HANGING"})
      u == IF Has(t, p, "ALARM_ON") THEN set_alarm(t, p, FALSE) ELSE t
  IN  sys_xit(u, p)

(* do_wait() takes the first child that has exited or has a stop to report *)
Reports(s, c) == \/ Has(s, c, "HANGING")
                 \/ Has(s, c, "STOPPED") /\ s.sigstatus[c] # 0

wait(s, p) ==
  LET news == {c \in Children(s, p) : Reports(s, c)}
  IN  IF news # {}
      THEN IF Has(s, Min(news), "HANGING") THEN cleanup(s, Min(news))
           ELSE [reply(s, p) EXCEPT !.sigstatus[Min(news)] = 0]
      ELSE IF Children(s, p) # {} THEN With(s, p, {"WAITING"})
      ELSE reply(s, p)                                     \* ECHILD

(* A group whose leader's slot c is used again is called by another member *)
Regrouped(s, c) ==
  LET old == {q \in Slots \ {c} : s.group[q] = c /\ Has(s, q, "IN_USE")}
  IN  [q \in Slots |-> IF q \in old THEN Min(old) ELSE s.group[q]]

(* The child in slot c is a copy of p but for the fields that are set *)
Copy(s, p, c) ==
  [s EXCEPT !.flags[c] = s.flags[p] \ {"TRACED"}, !.parent[c] = p,
            !.group = [Regrouped(s, c) EXCEPT ![c] = IF p = INIT THEN c ELSE Regrouped(s, c)[p]],
            !.sigstatus[c] = 0, !.catch[c] = s.catch[p], !.ignore[c] = s.ignore[p],
            !.in_use = @ + 1]

fork(s, p, c) == reply(reply(sys_fork(Copy(s, p, c), p, c), c), p)

-----------------------------------------------------------------------------
(* mm/trace.c, mm/signal.c *)

stop_proc(s, p, sig) ==
  LET t == [With(s, p, {"STOPPED"}) EXCEPT !.stop[p] = TRUE]
      q == s.parent[p]
  IN  IF s.at[p] = "free" THEN s
      ELSE IF Has(t, q, "WAITING") THEN reply(Without(t, q, {"WAITING"}), q)
      ELSE [t EXCEPT !.sigstatus[p] = sig]

(* room: the stack of p has room for the frame of the handler *)
sig_proc(s, p, sig, room) ==
  LET t == [s EXCEPT !.catch[p] = @ \ {sig}]
  IN  IF ~ Has(s, p, "IN_USE") THEN s
      ELSE IF Has(s, p, "TRACED") /\ sig # SIGKILL THEN stop_proc(s, p, sig)
      ELSE IF sig \in s.catch[p] /\ room THEN t
      ELSE mm_exit([t EXCEPT !.sigstatus[p] = sig], p)

unpauseOne(s, p) ==                                        \* mutant of unpause
  IF Has(s, p, "PAUSED") /\ ~ Has(s, p, "HANGING")
  THEN reply(Without(s, p, {"PAUSED"}), p) ELSE s

unpause(s, p) ==
  IF Has(s, p, "HANGING") THEN s
  ELSE IF Has(s, p, "PAUSED")  THEN reply(Without(s, p, {"PAUSED"}), p)
  ELSE IF Has(s, p, "WAITING") THEN reply(Without(s, p, {"WAITING"}), p)
  ELSE s                                                   \* FS takes a look

(* Who: the sender's group, whether it is the superuser (programs all have *)
(* the same uid, INIT is the superuser's), and the process id it gave      *)
Selected(s, who, sig, p) ==
  IF who.super /\ who.id = -1 THEN p # INIT
  ELSE /\ p = INIT => who.super /\ who.id # -1 /\ sig # SIGKILL
       /\ who.id > 0 => p = who.id
       /\ who.id = 0 => s.group[p] = who.group
       /\ ~ Has(s, p, "HANGING")

(* One turn of the loop of check_sig() *)
check_sig(s, who, sig, p, room) ==
  LET t == Without(s, p, IF sig = SIGALRM THEN {"ALARM_ON"} ELSE {})
  IN  IF \/ ~ Has(s, p, "IN_USE")
         \/ ~ Selected(s, who, sig, p)
         \/ sig = SIGALRM /\ ~ Has(s, p, "ALARM_ON") THEN s
      ELSE IF sig \in s.ignore[p] THEN t
      ELSE unpause(sig_proc(t, p, sig, room), p)

signal(s, p, sig, how) ==
  IF sig = SIGKILL THEN s
  ELSE [s EXCEPT !.ignore[p] = IF how = "SIG_IGN" THEN @ \cup {sig} ELSE @ \ {sig},
                 !.catch[p]  = IF how = "catch"   THEN @ \cup {sig} ELSE @ \ {sig}]

ResumeQuiet(s, c) == Without(s, c, {"STOPPED"})            \* mutant of Resume

Resume(s, c) == [Without(s, c, {"STOPPED"}) EXCEPT !.stop[c] = FALSE]

(* ptrace(): 0 asks to be traced, 7 resumes with signal data, 8 kills and 9 *)
(* steps a stopped process; the other requests change no table              *)
trace(s, p, request, c, data, room) ==
  LET t == IF data = 0 THEN s
           ELSE With(sig_proc(Without(s, c, {"TRACED"}), c, data, room), c, {"TRACED"})
  IN  IF request = 0 THEN With(s, p, {"TRACED"})
      ELSE IF ~ {"IN_USE", "STOPPED"} \subseteq s.flags[c] \/ c = INIT
      THEN s                                               \* ESRCH
      ELSE CASE request = 7 -> Resume(t, c)
             [] request = 8 -> mm_exit(s, c)
             [] request = 9 -> [s EXCEPT !.stop[c] = FALSE]
=============================================================================
