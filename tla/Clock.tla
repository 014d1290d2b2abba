--------------------------------- MODULE Clock ---------------------------------
(***************************************************************************)
(* The clock task and its interrupt handler (kernel/clock.c), with those   *)
(* who change what they look at: MM sets alarms, SYSTASK copies and clears *)
(* them with the process table, and users take turns on the processor,     *)
(* those of a family also on the one place their program can run in        *)
(* (kernel/stshadow.c).  The handler comes between any two statements of   *)
(* the task.                                                               *)
(*                                                                         *)
(* Times are counted from realtime, and stay small: an alarm that is due   *)
(* stands at 0, however long it has been.                                  *)
(***************************************************************************)
EXTENDS Integers, Sequences, FiniteSets, SequencesExt, FiniteSetsExt, Functions

CONSTANTS Users,        \* slots of user processes
          IDLE,         \* the idle task
          SCHED_RATE,   \* ticks per quantum
          FLIPWAIT,     \* rounds of the task between two flips
          Deltas,       \* ticks until an alarm; 0 turns it off
          Sleepers,     \* bound: alarms run only while nobody else lives
          MaxPending,   \* bound: ticks that are told apart while CLOCK rests
          MaxLate       \* ticks from the time CLOCK is ready until it rests

MAX_P_LONG == 1000

ASSUME ClockAssumption ==
  /\ SCHED_RATE \in Nat \ {0} /\ MaxPending \in 1 .. MAX_P_LONG - 1 /\ MaxLate \in Nat
  /\ Deltas \subseteq 0 .. MaxPending /\ FLIPWAIT \in Nat
  /\ Users \subseteq Nat /\ IDLE \notin Users /\ IsFiniteSet(Users)

VARIABLES clk,          \* the task: where it is, and its variables
          pending,      \* pending_ticks
          alarm,        \* p_alarm of the processes that have one
          left,         \* a stopwatch for each alarm, for the properties only
          run,          \* the queues of users, bill_ptr, whom a server works for
          live, waiting \* slots in use; processes that wait for a device

vars == <<clk, pending, alarm, left, run, live, waiting>>

(* run.queue is USER_Q and run.shadow_q SHADOW_Q; run.family are for each  *)
(* user those with the same p_map[D].mem_phys, itself among them; of a     *)
(* family all but the owner of the place are shadows (p_shadow # 0), and   *)
(* run.physio are owners for whom a driver works while they wait           *)

NoCall     == [p |-> IDLE, op |-> "none", delta |-> 0]
HARD_INT   == [NoCall EXCEPT !.op = "HARD_INT"]

Init ==
  /\ clk = [at |-> "recv", mess |-> NoCall, int |-> FALSE, next |-> 0,
            late |-> 0, sched |-> SCHED_RATE, seen |-> 0, prev |-> IDLE]
  /\ pending = 0
  /\ alarm = << >> /\ left = [u \in Users |-> 0]
  /\ \E u \in Users :
       /\ live = {u}
       /\ run = [queue |-> <<u>>, shadow_q |-> <<>>, bill |-> u, srv |-> NoCall,
                 shadow |-> {}, physio |-> {}, family |-> [v \in Users |-> {v}],
                 flipwait |-> 0]
  /\ waiting = {}

-----------------------------------------------------------------------------
(* ready(), for a user *)
Ready(r, u) == IF u \in r.shadow THEN [r EXCEPT !.shadow_q = Append(@, u)]
               ELSE [r EXCEPT !.queue = Append(@, u)]

(* unready(): a process leaves its queue, from wherever it stands *)
Without(q, u) ==
  LET i == CHOOSE i \in DOMAIN q : q[i] = u
  IN  IF u \in Range(q) THEN [j \in 1 .. Len(q) - 1 |-> IF j < i THEN q[j] ELSE q[j + 1]] ELSE q

Unready(r, u) == [r EXCEPT !.queue = Without(@, u), !.shadow_q = Without(@, u)]

(* pick_proc(): with neither a task nor a server to run, the first user *)
Picked(r, at) == [r EXCEPT !.bill = IF at # "recv" \/ r.srv # NoCall THEN @
                                    ELSE IF r.queue = <<>> THEN IDLE ELSE Head(r.queue)]

(* interrupt(CLOCK) *)
interrupt(c) == IF c.at = "recv" THEN [c EXCEPT !.at = "ready", !.mess = HARD_INT]
                ELSE [c EXCEPT !.int = TRUE]

ExpiredOnly(c) == [c EXCEPT !.prev = run.bill]                            \* mutant

Expired(c) == [c EXCEPT !.sched = SCHED_RATE, !.prev = run.bill]

(* The quantum that the handler counts *)
Counted(c) == IF c.sched - 1 = 0 THEN Expired(c) ELSE [c EXCEPT !.sched = @ - 1]

ToDoQuantum ==                                                            \* mutant
  clk.sched = 1 /\ run.bill = clk.prev /\ (run.queue # <<>> \/ run.shadow_q # <<>>)

ToDoQueue == \/ clk.next <= pending + 1                                   \* mutant
             \/ clk.sched = 1 /\ run.bill = clk.prev /\ run.queue # <<>>

ToDo == \/ clk.next <= pending + 1
        \/ /\ clk.sched = 1 /\ run.bill = clk.prev
           /\ run.queue # <<>> \/ run.shadow_q # <<>>

clock_handler ==
  /\ clk.at = "recv" \/ clk.late < MaxLate
  /\ pending' = Min({pending + 1, MaxPending})
  /\ left' = [u \in Users |-> Max({0, left[u] - 1})]
  /\ LET c == IF clk.at = "recv" THEN clk ELSE [clk EXCEPT !.late = @ + 1]
     IN  clk' = IF ToDo THEN interrupt(c) ELSE Counted(c)
  /\ UNCHANGED <<alarm, run, live, waiting>>

-----------------------------------------------------------------------------
(* The task *)

ShiftedLess(a) == [u \in DOMAIN a |-> Max({0, a[u] - Max({0, pending - 1})})]  \* mutant

Shifted(a) == [u \in DOMAIN a |-> Max({0, a[u] - pending})]

Earlier(c) == [c EXCEPT !.next = IF @ = MAX_P_LONG THEN @ ELSE Max({0, @ - pending})]

(* receive() has returned: the ticks seen by the handler are added *)
Transfer ==
  /\ clk.at = "ready"
  /\ clk' = [Earlier(clk) EXCEPT !.at = clk.mess.op]
  /\ alarm' = Shifted(alarm) /\ pending' = 0
  /\ left' = IF clk.mess = HARD_INT THEN left ELSE [left EXCEPT ![clk.mess.p] = clk.mess.delta]
  /\ UNCHANGED <<run, live, waiting>>

(* receive(): a request that is queued comes before an interrupt that was  *)
(* held back.  Without either, the processor is free for others.           *)
Receive(c, r) ==
  CASE r.srv.op = "asks" ->
         /\ clk' = [c EXCEPT !.at = "ready", !.mess = [r.srv EXCEPT !.op = "SET_ALARM"]]
         /\ run' = [r EXCEPT !.srv.op = "told"]
    [] r.srv.op # "asks" /\ c.int ->
         /\ clk' = [c EXCEPT !.at = "ready", !.mess = HARD_INT, !.int = FALSE]
         /\ run' = r
    [] OTHER -> /\ clk' = [c EXCEPT !.at = "recv", !.mess = NoCall, !.late = 0]
                /\ run' = Picked(r, "recv")

Off(a, p) == Restrict(a, DOMAIN a \ {p})
With(a, p, d) == [u \in DOMAIN a \cup {p} |-> IF u = p THEN d ELSE a[u]]

Earliest(a) == Min({MAX_P_LONG} \cup {a[u] : u \in DOMAIN a})

do_setalarm ==
  LET m == clk.mess
  IN  /\ clk.at = "SET_ALARM"
      /\ alarm' = IF m.delta = 0 THEN Off(alarm, m.p) ELSE With(alarm, m.p, m.delta)
      /\ clk' = [clk EXCEPT !.at = "search", !.next = MAX_P_LONG]
      /\ UNCHANGED <<pending, left, run, live, waiting>>

(* ... the next alarm is found, and MM answered *)
NextAlarm ==
  /\ clk.at = "search"
  /\ Receive([clk EXCEPT !.next = Earliest(alarm)], [run EXCEPT !.srv.op = "done", !.srv.delta = 0])
  /\ UNCHANGED <<pending, alarm, left, live, waiting>>

(* do_clocktick(): its first test *)
Ticked ==
  /\ clk.at = "HARD_INT"
  /\ clk' = IF clk.next <= 0 THEN [clk EXCEPT !.at = "alarms", !.next = MAX_P_LONG]
            ELSE [clk EXCEPT !.at = "quantum"]
  /\ UNCHANGED <<pending, alarm, left, run, live, waiting>>

(* ... the alarms that are due: cause_sig() *)
Alarms ==
  LET a == [u \in {v \in DOMAIN alarm : alarm[v] > 0} |-> alarm[u]]
  IN  /\ clk.at = "alarms"
      /\ alarm' = a
      /\ clk' = [clk EXCEPT !.at = "quantum", !.next = Earliest(a)]
      /\ UNCHANGED <<pending, left, run, live, waiting>>

(* ... and the quantum.  No lock: the handler can come between the reading *)
(* of sched_ticks and the writing, and before it is reset.                 *)
Quantum ==
  /\ clk.at = "quantum"
  /\ clk' = [clk EXCEPT !.at = "count", !.seen = clk.sched]
  /\ UNCHANGED <<pending, alarm, left, run, live, waiting>>

Count ==
  LET c == [clk EXCEPT !.sched = clk.seen - 1, !.seen = 0]
  IN  /\ clk.at = "count"
      /\ clk' = [c EXCEPT !.at = IF clk.seen - 1 = 0 THEN "switch" ELSE "flip"]
      /\ UNCHANGED <<pending, alarm, left, run, live, waiting>>

(* lock_sched(): the first user goes to the end of the queue *)
Rotated(q) == IF q = <<>> THEN q ELSE Append(Tail(q), Head(q))

Switch ==
  /\ clk.at = "switch"
  /\ run' = IF run.bill = clk.prev THEN [run EXCEPT !.queue = Rotated(@)] ELSE run
  /\ clk' = [clk EXCEPT !.at = "reset"]
  /\ UNCHANGED <<pending, alarm, left, live, waiting>>

Reset == /\ clk.at = "reset" /\ clk' = [Expired(clk) EXCEPT !.at = "flip"]
         /\ UNCHANGED <<pending, alarm, left, run, live, waiting>>

(* unshadow(): p gets the place of its family, and its owner q p's shadow *)
Owner(r, p) == CHOOSE q \in r.family[p] : q \notin r.shadow

Flipped(r, p, q) ==
  LET s == [r EXCEPT !.flipwait = FLIPWAIT, !.shadow = (@ \ {p}) \cup {q}, !.shadow_q = Tail(@),
                     !.queue = Append(Without(@, q), p)]
  IN  IF q \in Range(r.queue) THEN Ready(s, q) ELSE s

(* ... not while a driver works on q's image: q waits for it, or FS does *)
MayHold(q) == q \in run.physio \/ (run.srv.p = q /\ run.srv.op = "FS")

unshadow ==
  LET p == Head(run.shadow_q)
      q == Owner(run, p)
  IN  \/ run.flipwait # 0 /\ Receive(clk, [run EXCEPT !.flipwait = @ - 1])
      \/ run.flipwait = 0 /\ MayHold(q) /\ Receive(clk, run)
      \/ run.flipwait = 0 /\ q \notin run.physio /\ Receive(clk, Flipped(run, p, q))

Flip == /\ clk.at = "flip"
        /\ IF run.shadow_q = <<>> THEN Receive(clk, run) ELSE unshadow
        /\ UNCHANGED <<pending, alarm, left, live, waiting>>

Task == Transfer \/ do_setalarm \/ NextAlarm \/ Ticked \/ Alarms \/ Quantum \/ Count
        \/ Switch \/ Reset \/ Flip

-----------------------------------------------------------------------------
(* Users call, and MM or FS serves one call at a time while no task runs *)

Serves(r) == /\ run' = Picked(r, clk.at) /\ UNCHANGED <<pending, left>>

Calls(m) ==
  /\ clk.at = "recv" /\ run.srv = NoCall /\ run.queue # <<>> /\ m.p = Head(run.queue)
  /\ Serves([run EXCEPT !.queue = Tail(@), !.srv = m])
  /\ UNCHANGED <<clk, alarm, live, waiting>>

Call(u) ==
  \/ \E op \in {"FS", "life"} : Calls([p |-> u, op |-> op, delta |-> 0])
  \/ live \subseteq Sleepers /\ \E d \in Deltas : Calls([p |-> u, op |-> "alarm", delta |-> d])

(* set_alarm() in MM *)
set_alarm ==
  /\ run.srv.op = "alarm" /\ clk.at = "recv"
  /\ Receive(clk, [run EXCEPT !.srv.op = "asks"])
  /\ UNCHANGED <<pending, alarm, left, live, waiting>>

(* SYSTASK works for MM while CLOCK may be ready.  What a process does to  *)
(* its own alarm, and to that of a child                                   *)
SysTask(op, a, l) == /\ run.srv.op = op /\ clk.at \in {"recv", "ready"}
                     /\ alarm' = a /\ live' = l /\ UNCHANGED <<clk, pending>>

Cleared(u) == Off(alarm, u)

(* rmshadow(): u leaves its family; its place goes to the first of the rest *)
Heir(r, h) == LET s == [r EXCEPT !.shadow = @ \ {h}]
              IN  IF h \in Range(r.shadow_q) THEN Ready(Unready(s, h), h) ELSE s

rmshadow(r, u) ==
  LET others == r.family[u] \ {u}
      s == IF u \in r.shadow THEN [r EXCEPT !.shadow = @ \ {u}]
           ELSE IF others # {} THEN Heir(r, Min(others)) ELSE r
  IN  [s EXCEPT !.family = [v \in Users |-> IF v = u THEN {u} ELSE @[v] \ {u}]]

(* sys_fresh(): exec gives its caller a place of its own *)
Fresh == /\ SysTask("life", alarm, live)
         /\ run' = [rmshadow(run, run.srv.p) EXCEPT !.srv.op = "fresh"]
         /\ UNCHANGED <<left, waiting>>

Exec == /\ SysTask("fresh", Cleared(run.srv.p), live)
        /\ run' = [run EXCEPT !.srv.op = "done"]
        /\ left' = [left EXCEPT ![run.srv.p] = 0]
        /\ UNCHANGED waiting

Copied(a, p, c) == IF p \in DOMAIN a THEN With(a, c, a[p]) ELSE Off(a, c)

(* mkshadow(): the child takes the parent's place, and the parent a shadow *)
mkshadow(r, p, c) ==
  LET f == r.family[p] \cup {c}
  IN  [r EXCEPT !.shadow = IF p \in @ THEN @ \cup {c} ELSE @ \cup {p},
                !.family = [v \in Users |-> IF v \in f THEN f ELSE @[v]],
                !.flipwait = FLIPWAIT]

Fork(c) ==
  /\ c \notin live /\ (c \in Sleepers \/ alarm = << >>)
  /\ SysTask("life", Copied(alarm, run.srv.p, c), live \cup {c})
  /\ run' = [Ready(mkshadow(run, run.srv.p, c), c) EXCEPT !.srv.op = "done"]
  /\ left' = [left EXCEPT ![c] = left[run.srv.p]]
  /\ UNCHANGED waiting

(* sys_xit(), for the caller or for a process that it kills *)
Xit(u) ==
  /\ u \in live
  /\ SysTask("life", Cleared(u), live \ {u})
  /\ run' = Picked([rmshadow(Unready(run, u), u) EXCEPT
                       !.physio = @ \ {u},
                       !.srv = IF u = run.srv.p THEN NoCall ELSE [@ EXCEPT !.op = "done"]],
                   clk.at)
  /\ waiting' = waiting \ {u}
  /\ left' = [left EXCEPT ![u] = 0]

(* A driver may work on p's image meanwhile, which matters for a shared place *)
Working(p) == IF run.family[p] = {p} \/ p \in run.shadow THEN {} ELSE {p}

(* The call is answered, or suspended until a device is ready *)
Answer ==
  /\ run.srv.op \in {"FS", "done"} /\ clk.at = "recv"
  /\ Serves([Ready(run, run.srv.p) EXCEPT !.srv = NoCall])
  /\ UNCHANGED <<clk, alarm, live, waiting>>

Suspend ==
  /\ run.srv.op = "FS" /\ clk.at = "recv"
  /\ \E d \in SUBSET Working(run.srv.p) :
       Serves([run EXCEPT !.srv = NoCall, !.physio = @ \cup d])
  /\ waiting' = waiting \cup {run.srv.p}
  /\ UNCHANGED <<clk, alarm, live>>

Revive(u) ==
  /\ u \in waiting /\ clk.at = "recv" /\ run.srv = NoCall
  /\ Serves([Ready(run, u) EXCEPT !.physio = @ \ {u}])
  /\ waiting' = waiting \ {u}
  /\ UNCHANGED <<clk, alarm, live>>

Servers == set_alarm \/ Fresh \/ Exec \/ Answer \/ Suspend \/ \E u \in Users : Fork(u) \/ Xit(u)

Next == \/ clock_handler \/ Task \/ Servers
        \/ \E u \in Users : Call(u) \/ Revive(u)

(* The clock does not stop, and not all of its ticks fall into the moments *)
(* when CLOCK runs; tasks and servers finish what they do                  *)
Spec == /\ Init /\ [][Next]_vars
        /\ SF_vars(clk.at = "recv" /\ clock_handler) /\ WF_vars(Task) /\ SF_vars(Servers)

-----------------------------------------------------------------------------
At    == {"recv", "ready", "HARD_INT", "SET_ALARM", "search", "alarms", "quantum", "count",
          "switch", "reset", "flip"}
Ops   == {"none", "HARD_INT", "SET_ALARM", "FS", "life", "fresh", "alarm", "asks", "told",
          "done"}
Mess  == [p : Users \cup {IDLE}, op : Ops, delta : Deltas \cup {0}]
Clk   == [at : At, mess : Mess, int : BOOLEAN, next : 0 .. MaxPending \cup {MAX_P_LONG},
          late : 0 .. MaxLate, sched : Int, seen : Int, prev : Users \cup {IDLE}]
Run   == [queue : Seq(Users), shadow_q : Seq(Users), bill : Users \cup {IDLE}, srv : Mess,
          shadow : SUBSET Users, physio : SUBSET Users, family : [Users -> SUBSET Users],
          flipwait : 0 .. FLIPWAIT]
Serving == {run.srv.p} \ {IDLE}

InQueue(u) == u \in Range(run.queue) \cup Range(run.shadow_q)

(* Everyone who lives is ready, waits for a device, or is served: once.    *)
(* Shadows stand in SHADOW_Q, and the others in USER_Q                     *)
OnePlace ==
  /\ IsInjective(run.queue) /\ IsInjective(run.shadow_q)
  /\ live = Range(run.queue) \cup Range(run.shadow_q) \cup waiting \cup Serving
  /\ \A u \in waiting \cup Serving : ~ InQueue(u)
  /\ waiting \cap Serving = {} /\ run.physio \subseteq waiting
  /\ Range(run.shadow_q) \subseteq run.shadow /\ Range(run.queue) \cap run.shadow = {}

(* A family lives, and one of it has the place *)
Families ==
  /\ run.shadow \subseteq live
  /\ \A u \in Users : u \in run.family[u] /\ run.family[u] \subseteq live \cup {u}
  /\ \A u, v \in Users : v \in run.family[u] => run.family[v] = run.family[u]
  /\ \A u \in Users : ~ run.family[u] \subseteq run.shadow
  /\ \A u \in Users \ run.shadow : run.family[u] \ {u} \subseteq run.shadow

TypeOK ==
  /\ clk \in Clk /\ pending \in 0 .. MaxPending
  /\ live \subseteq Users /\ left \in [Users -> 0 .. MaxPending]
  /\ DOMAIN alarm \subseteq live /\ alarm \in [DOMAIN alarm -> 0 .. MaxPending]
  /\ run \in Run
  /\ OnePlace /\ Families

(* next_alarm, the handler's only test, is never later than an alarm: none *)
(* is forgotten, whoever sets, copies or clears alarms                     *)
NextCovers ==
  clk.at \in {"recv", "ready"} => \A u \in DOMAIN alarm : clk.next <= alarm[u]

(* No tick is lost between the handler and the task, and none is counted   *)
(* twice: every alarm is as far away as a stopwatch says                   *)
TimeKept ==
  clk.at # "SET_ALARM" =>
    \A u \in DOMAIN alarm : left[u] = Max({0, alarm[u] - pending})

(* So each alarm goes off when it should (do_setalarm, do_clocktick)       *)
AlarmsKept == TypeOK /\ NextCovers /\ TimeKept

(* Handler and task change sched_ticks without a lock; "the code in        *)
(* do_clocktick() will restore the variables to reasonable values"         *)
(* (clock.c:405)                                                           *)
SchedSane == clk.at \in {"recv", "ready"} => clk.sched \in 1 .. SCHED_RATE

(* An alarm that is due goes off (or is turned off), whatever is running *)
Due(u) == u \in DOMAIN alarm /\ alarm[u] <= pending

AlarmSounds == \A u \in Sleepers : Due(u) ~> ~ Due(u)

(* A flip of the first shadow waits for a driver that works for the owner *)
Held == run.shadow_q # <<>> /\ Owner(run, Head(run.shadow_q)) \in run.physio

(* More compute than there are rounds between two flips *)
Crowded == run.shadow_q # <<>> /\ Len(run.queue) * (MaxLate + 1) > FLIPWAIT + 1

(* Whoever is ready gets the processor while the others only compute, a    *)
(* shadow as well (do_clocktick, unshadow, sched), if no more compute than *)
(* the clock comes round to between two flips                              *)
Turns == \A u \in Users : InQueue(u) ~> run.bill = u \/ run.srv # NoCall \/ Held \/ Crowded

-----------------------------------------------------------------------------
(* Not so (see README): the process that is moved is the one that has run *)
BilledMoved == [][clk.at = "switch" /\ run'.queue # run.queue => Head(run.queue) = run.bill]_vars

(* ... whoever is ready gets the processor, however many compute *)
AllTurns == \A u \in Users : InQueue(u) ~> run.bill = u \/ run.srv # NoCall \/ Held

(* ... whoever is ready runs in the end, if nobody is a shadow *)
AllRun ==
  \A u \in Users : InQueue(u) ~> run.bill = u \/ ~ InQueue(u) \/ run.shadow_q # <<>>

(* ... a shadow gets the place of its family in the end *)
AllFlip == \A u \in Users : u \in Range(run.shadow_q) ~> u \notin Range(run.shadow_q) \/ Held
=============================================================================
