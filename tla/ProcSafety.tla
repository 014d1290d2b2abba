------------------------------ MODULE ProcSafety ------------------------------
(***************************************************************************)
(* The types of module Proc, and its ready queues, caller queues and       *)
(* signal books, are right in every state.                                 *)
(***************************************************************************)
EXTENDS Proc, SequenceTheorems, FiniteSetTheorems, TLAPS

LEMMA Numbers ==
  /\ Tasks \subseteq Procs /\ Servers \subseteq Procs /\ Users \subseteq Procs
  /\ IDLE \in Procs /\ HARDWARE \in Procs /\ SYSTASK \in Procs
  /\ MM_PROC_NR \in Procs /\ FS_PROC_NR \in Procs /\ LOW_USER \in Users
  /\ Live \subseteq Procs /\ Procs \subseteq Int
BY TasksAssumption, ProcsAssumption
   DEF Servers, Users, Procs, Live, IDLE, HARDWARE, SYSTASK,
       MM_PROC_NR, FS_PROC_NR, LOW_USER

-----------------------------------------------------------------------------
(* Queues *)

LEMMA DequeueType ==
  ASSUME NEW S, NEW q \in Seq(S), NEW p PROVE Dequeue(q, p) \in Seq(S)
<1> SUFFICES ASSUME \E i \in 1 .. Len(q) : q[i] = p PROVE Dequeue(q, p) \in Seq(S)
  BY DEF Dequeue
<1> DEFINE i == CHOOSE i \in 1 .. Len(q) : q[i] = p
           r == [j \in 1 .. Len(q) - 1 |-> IF j < i THEN q[j] ELSE q[j + 1]]
<1>1. i \in 1 .. Len(q) /\ Len(q) \in Nat
  OBVIOUS
<1>2. Len(q) - 1 \in Nat
  BY <1>1
<1>3. \A j \in 1 .. Len(q) - 1 : r[j] \in S
  <2> TAKE j \in 1 .. Len(q) - 1
  <2>1. j \in 1 .. Len(q) /\ j + 1 \in 1 .. Len(q)
    BY <1>1
  <2>2. q[j] \in S /\ q[j + 1] \in S
    BY <2>1
  <2> QED BY <2>2
<1>4. r \in [1 .. Len(q) - 1 -> S]
  BY <1>3
<1>5. r \in Seq(S)
  BY <1>2, <1>4, IsASeq
<1> QED BY <1>5 DEF Dequeue

LEMMA QueueType == ASSUME NEW x \in Kernel, NEW p \in Procs
                   PROVE  Queue(x, p) \in Queues
BY DEF Queue, Queues, TASK_Q, SERVER_Q, USER_Q, SHADOW_Q

LEMMA ReadyType == ASSUME NEW x \in Kernel, NEW p \in Procs
                   PROVE  ready(x, p) \in Kernel
<1>1. x.rdy[Queue(x, p)] \in Seq(Procs)
  BY QueueType DEF Kernel
<1>2. Append(x.rdy[Queue(x, p)], p) \in Seq(Procs)
  BY <1>1, AppendProperties
<1> QED BY <1>2, QueueType DEF ready, Kernel

LEMMA PickType == ASSUME NEW x \in Kernel PROVE pick_proc(x) \in Kernel
<1>1. \A q \in Queues : x.rdy[q] \in Seq(Procs)
  BY DEF Kernel
<1>2. \A q \in Queues : x.rdy[q] # <<>> => Head(x.rdy[q]) \in Procs
  BY <1>1, HeadTailProperties
<1>3. TASK_Q \in Queues /\ SERVER_Q \in Queues /\ USER_Q \in Queues
  BY DEF Queues, TASK_Q, SERVER_Q, USER_Q, SHADOW_Q
<1>4. ASSUME NEW c \in Procs PROVE [x EXCEPT !.cur = c] \in Kernel
  BY DEF Kernel
<1>5. ASSUME NEW c \in Procs PROVE [x EXCEPT !.cur = c, !.bill = c] \in Kernel
  BY DEF Kernel
<1> QED BY <1>2, <1>3, <1>4, <1>5, Numbers DEF pick_proc

LEMMA DequeuedType == ASSUME NEW x \in Kernel, NEW p \in Procs
                      PROVE  [x EXCEPT !.rdy[Queue(x, p)] = Dequeue(@, p)] \in Kernel
<1>1. x.rdy[Queue(x, p)] \in Seq(Procs)
  BY QueueType DEF Kernel
<1>2. Dequeue(x.rdy[Queue(x, p)], p) \in Seq(Procs)
  BY <1>1, DequeueType
<1> QED BY <1>2, QueueType DEF Kernel

LEMMA UnreadyType == ASSUME NEW x \in Kernel, NEW p \in Procs
                     PROVE  unready(x, p) \in Kernel
BY DequeuedType, PickType DEF unready

LEMMA SchedType == ASSUME NEW x \in Kernel PROVE sched(x) \in Kernel
<1> DEFINE q == x.rdy[USER_Q]
<1>1. q \in Seq(Procs)
  BY DEF Kernel, Queues, USER_Q, TASK_Q, SHADOW_Q
<1>2. q # <<>> => Head(q) \in Procs /\ Tail(q) \in Seq(Procs)
  BY <1>1, HeadTailProperties
<1>3. q # <<>> => Append(Tail(q), Head(q)) \in Seq(Procs)
  BY <1>2, AppendProperties
<1>4. q # <<>> => [x EXCEPT !.rdy[USER_Q] = Append(Tail(q), Head(q))] \in Kernel
  BY <1>3 DEF Kernel
<1> QED BY <1>4, PickType DEF sched

LEMMA BlockType == ASSUME NEW x \in Kernel, NEW p \in Procs, NEW F \in SUBSET Flag
                   PROVE  Block(x, p, F) \in Kernel
<1>1. ASSUME NEW y \in Kernel PROVE [y EXCEPT !.flags[p] = @ \cup F] \in Kernel
  BY DEF Kernel
<1> QED BY <1>1, UnreadyType DEF Block

LEMMA UnblockType == ASSUME NEW x \in Kernel, NEW p \in Procs, NEW F
                     PROVE  Unblock(x, p, F) \in Kernel
<1>1. [x EXCEPT !.flags[p] = @ \ F] \in Kernel
  BY DEF Kernel
<1> QED BY <1>1, ReadyType DEF Unblock

-----------------------------------------------------------------------------
(* Messages *)

LEMMA CpMessType == ASSUME NEW x \in Kernel, NEW p \in Procs, NEW d \in Procs
                    PROVE  cp_mess(x, p, d) \in Kernel
<1>1. [m_source |-> p, m_type |-> x.mess[p].m_type] \in Message
  BY DEF Kernel, Message
<1> QED BY <1>1 DEF cp_mess, Kernel

LEMMA SendType == ASSUME NEW x \in Kernel, NEW p \in Procs, NEW d \in Procs
                  PROVE  mini_send(x, p, d) \in Kernel
<1>1. Unblock(cp_mess(x, p, d), d, {"RECEIVING"}) \in Kernel
  BY CpMessType, UnblockType
<1>2. Block(x, p, {"SENDING"}) \in Kernel
  BY BlockType DEF Flag
<1>3. ASSUME NEW y \in Kernel PROVE [y EXCEPT !.callerq[d] = Append(@, p)] \in Kernel
  <2>1. Append(y.callerq[d], p) \in Seq(Procs)
    BY AppendProperties DEF Kernel
  <2> QED BY <2>1 DEF Kernel
<1> QED BY <1>1, <1>2, <1>3 DEF mini_send

LEMMA SigDoneType == ASSUME NEW x \in Kernel, NEW p \in Procs
                     PROVE  SigDone(x, p) \in Kernel
<1>1. x.pendcount[p] \in Nat
  BY DEF Kernel
<1>2. x.pendcount[p] # 0 => x.pendcount[p] - 1 \in Nat
  BY <1>1
<1>3. x.pendcount[p] # 0 => [x EXCEPT !.pendcount[p] = @ - 1] \in Kernel
  BY <1>2 DEF Kernel
<1> QED BY <1>3, UnblockType DEF SigDone

LEMMA KsigType == ASSUME NEW x \in Kernel PROVE Ksig(x) \in Kernel
<1>1. \A m \in Message : [m EXCEPT !.m_type = "KSIG"] \in Message
  BY DEF Message, MTypes
<1>2. x.mess \in [Procs -> Message] /\ x.sigProcs - 1 \in Int
  BY DEF Kernel
<1> DEFINE ms == [p \in Procs |-> IF p \in {SYSTASK, HARDWARE}
                                  THEN [x.mess[p] EXCEPT !.m_type = "KSIG"]
                                  ELSE x.mess[p]]
<1>3. ms \in [Procs -> Message]
  BY <1>1, <1>2
<1>4. Ksig(x) = [x EXCEPT !.sigProcs = x.sigProcs - 1, !.mess = ms]
  BY DEF Ksig
<1> HIDE DEF ms
<1> QED BY <1>2, <1>3, <1>4 DEF Kernel

LEMMA FirstIn == ASSUME NEW S, First(S) # {}
                 PROVE  (CHOOSE p \in First(S) : TRUE) \in S
BY DEF First

LEMMA InformType == ASSUME NEW x \in Kernel PROVE inform(x) \in Kernel
<1> DEFINE F == First(SigPendingProcs(x))
           p == CHOOSE p \in F : TRUE
<1>1. CASE F = {}
  BY <1>1 DEF inform
<1>2. CASE F # {}
  <2>1. p \in Procs
    BY <1>2, FirstIn, Numbers DEF SigPendingProcs
  <2>2. mini_send(Ksig(x), HARDWARE, MM_PROC_NR) \in Kernel
    BY KsigType, SendType, Numbers
  <2>3. ASSUME NEW y \in Kernel, NEW r \in Procs
        PROVE  Told(y, r) \in Kernel /\ SigDone(Told(y, r), r) \in Kernel
    <3>1. Told(y, r) \in Kernel
      BY DEF Told, Kernel
    <3> QED BY <3>1, SigDoneType
  <2> QED BY <1>2, <2>1, <2>2, <2>3, PickType DEF inform
<1> QED BY <1>1, <1>2

LEMMA RecType ==
  ASSUME NEW x \in Kernel, NEW p \in Procs, NEW src \in Procs \cup {ANY}
  PROVE  mini_rec(x, p, src) \in Kernel
<1> DEFINE q == x.callerq[p]
           sender == IF src = ANY THEN Head(q) ELSE src
<1>1. Await(x, p, src) \in Kernel
  <2>1. [x EXCEPT !.getfrom[p] = src] \in Kernel
    BY DEF Kernel
  <2> QED BY <2>1, BlockType, InformType DEF Await, Flag
<1>2. ASSUME q # <<>>, src = ANY \/ InQueue(q, src)
      PROVE  LET k1 == cp_mess(x, sender, p)
                 k2 == [k1 EXCEPT !.callerq[p] = Dequeue(@, sender)]
             IN  Unblock(k2, sender, {"SENDING"}) \in Kernel
  <2>1. q \in Seq(Procs)
    BY DEF Kernel
  <2>2. sender \in Procs
    BY <2>1, <1>2, HeadTailProperties DEF InQueue
  <2>3. ASSUME NEW y \in Kernel
        PROVE  [y EXCEPT !.callerq[p] = Dequeue(@, sender)] \in Kernel
    <3>1. y.callerq[p] \in Seq(Procs)
      BY DEF Kernel
    <3>2. Dequeue(y.callerq[p], sender) \in Seq(Procs)
      BY <3>1, DequeueType
    <3> QED BY <3>2 DEF Kernel
  <2> QED BY <2>2, <2>3, CpMessType, UnblockType
<1>3. [x EXCEPT !.intBlocked = @ \ {p},
                !.mess[p] = [m_source |-> HARDWARE, m_type |-> "HARD_INT"]] \in Kernel
  <2>1. [m_source |-> HARDWARE, m_type |-> "HARD_INT"] \in Message
    BY Numbers DEF Message, MTypes
  <2> QED BY <2>1 DEF Kernel
<1> QED BY <1>1, <1>2, <1>3 DEF mini_rec

LEMMA SysCallType ==
  ASSUME NEW x \in Kernel, NEW f \in Functions, NEW d \in Procs \cup {ANY},
         NEW m \in Message, f # "RECEIVE" => d \in Procs
  PROVE  sys_call(x, f, d, m) \in Kernel
<1>1. x.cur \in Procs
  BY DEF Kernel
<1>2. [x EXCEPT !.mess[x.cur] = m] \in Kernel
  BY <1>1 DEF Kernel
<1> QED BY <1>1, <1>2, SendType, RecType DEF sys_call, Functions

LEMMA InterruptType == ASSUME NEW x \in Kernel, NEW t \in Procs
                       PROVE  interrupt(x, t) \in Kernel
<1>1. [m_source |-> HARDWARE, m_type |-> "HARD_INT"] \in Message
  BY Numbers DEF Message, MTypes
<1>2. Append(x.rdy[TASK_Q], t) \in Seq(Procs)
  BY AppendProperties DEF Kernel, Queues, TASK_Q, SHADOW_Q
<1> QED BY <1>1, <1>2 DEF interrupt, Kernel

-----------------------------------------------------------------------------
(* Signals, shadowing, life cycle *)

LEMMA CauseSigType ==
  ASSUME NEW x \in Kernel, NEW p \in Procs, NEW sig \in Sigs
  PROVE  cause_sig(x, p, sig) \in Kernel
<1> DEFINE k1 == [x EXCEPT !.pending[p] = @ \cup {sig}, !.pendcount[p] = @ + 1]
           k2 == Block(k1, p, {"PENDING", "SIG_PENDING"})
           k3 == [k2 EXCEPT !.sigProcs = @ + 1]
<1>1. x.pending[p] \cup {sig} \in SUBSET Sigs /\ x.pendcount[p] + 1 \in Nat
  BY DEF Kernel
<1>2. k1 \in Kernel
  BY <1>1 DEF Kernel
<1>3. k2 \in Kernel
  BY <1>2, BlockType DEF Flag
<1>4. k2.sigProcs + 1 \in Int
  BY <1>3 DEF Kernel
<1>5. k3 \in Kernel
  <2> HIDE DEF k2
  <2> QED BY <1>3, <1>4 DEF Kernel
<1>6. inform(k3) \in Kernel
  BY <1>5, InformType
<1> HIDE DEF k2
<1> QED BY <1>2, <1>5, <1>6 DEF cause_sig, k2

LEMMA FamilyType == ASSUME NEW x \in Kernel, NEW p PROVE Family(x, p) \subseteq Procs
BY Numbers DEF Family

LEMMA ShadowType == ASSUME NEW x \in Kernel, NEW S \in SUBSET Procs
                    PROVE  [x EXCEPT !.shadow = S] \in Kernel
BY DEF Kernel

LEMMA PanicType == ASSUME NEW x \in Kernel, NEW m \in Panics
                   PROVE  [x EXCEPT !.panic = m] \in Kernel
BY DEF Kernel

LEMMA RmshadowType == ASSUME NEW x \in Kernel, NEW p \in Procs
                      PROVE  rmshadow(x, p) \in Kernel
<1> DEFINE F == First(Family(x, p))
           q == CHOOSE q \in F : TRUE
           k1 == IF x.flags[q] = {} THEN unready(x, q) ELSE x
           k2 == [k1 EXCEPT !.shadow = @ \ {q}]
<1>1. [x EXCEPT !.shadow = @ \ {p}] \in Kernel
  BY DEF Kernel
<1>2. F # {} => q \in Procs
  BY FirstIn, FamilyType
<1>3. [x EXCEPT !.panic = "no shadow?"] \in Kernel
  BY PanicType DEF Panics
<1>4. [x EXCEPT !.panic = "cannot handle physio shadows"] \in Kernel
  BY PanicType DEF Panics
<1>5. F # {} => k1 \in Kernel
  BY <1>2, UnreadyType
<1>6. F # {} => k2 \in Kernel
  <2> HIDE DEF k1
  <2> QED BY <1>5 DEF Kernel
<1>7. F # {} => ready(k2, q) \in Kernel
  BY <1>2, <1>6, ReadyType
<1> HIDE DEF k1
<1> QED BY <1>1, <1>3, <1>4, <1>6, <1>7 DEF rmshadow, k1

LEMMA FlippedType == ASSUME NEW x \in Kernel, NEW p \in Procs, NEW q \in Procs
                     PROVE  Flipped(x, p, q) \in Kernel
<1> DEFINE k1 == unready(x, p)
           k2 == IF x.flags[q] = {} THEN unready(k1, q) ELSE k1
           k3 == [k2 EXCEPT !.shadow = (@ \ {p}) \cup {q}]
<1>1. k2 \in Kernel
  BY UnreadyType
<1>2. k3 \in Kernel
  <2> HIDE DEF k2
  <2> QED BY <1>1 DEF Kernel
<1>3. ready(k3, p) \in Kernel /\ ready(ready(k3, p), q) \in Kernel
  BY <1>2, ReadyType
<1> QED BY <1>3 DEF Flipped

LEMMA UnshadowType == ASSUME NEW x \in Kernel, NEW p \in Procs
                      PROVE  unshadow(x, p) \in Kernel
<1> DEFINE F == First({q \in Family(x, p) : q \notin x.shadow})
           q == CHOOSE q \in F : TRUE
<1>1. F # {} => q \in Procs
  BY FirstIn, FamilyType
<1>2. [x EXCEPT !.panic = "only shadow(s)"] \in Kernel
  BY PanicType DEF Panics
<1> QED BY <1>1, <1>2, FlippedType DEF unshadow

LEMMA ForkType == ASSUME NEW x \in Kernel, NEW u \in Procs, NEW c \in Procs
                  PROVE  do_fork(x, u, c) \in Kernel
<1> DEFINE k1 == [x EXCEPT !.flags[c] = x.flags[u] \ {"PENDING", "SIG_PENDING",
                                                      "P_STOP"},
                           !.getfrom[c] = x.getfrom[u],
                           !.callerq[c] = x.callerq[u],
                           !.mess[c]    = x.mess[u],
                           !.pending[c] = {},
                           !.pendcount[c] = 0,
                           !.img[c]     = x.img[u],
                           !.shadow = IF u \in @ THEN @ \cup {c} ELSE @ \ {c},
                           !.physio = IF u \in @ THEN @ \cup {c} ELSE @ \ {c}]
<1> DEFINE s == IF u \in x.shadow THEN x.shadow \cup {c} ELSE x.shadow \ {c}
           y == IF u \in x.physio THEN x.physio \cup {c} ELSE x.physio \ {c}
           a == [x EXCEPT !.flags[c] = x.flags[u] \ {"PENDING", "SIG_PENDING",
                                                     "P_STOP"},
                          !.getfrom[c] = x.getfrom[u],
                          !.callerq[c] = x.callerq[u],
                          !.mess[c]    = x.mess[u]]
           b == [a EXCEPT !.pending[c] = {}, !.pendcount[c] = 0,
                          !.img[c] = x.img[u]]
           d == [b EXCEPT !.shadow = s, !.physio = y]
<1>1. k1 \in Kernel
  <2>1. a \in Kernel
    BY DEF Kernel
  <2>2. b \in Kernel
    <3> HIDE DEF a
    <3> QED BY <2>1 DEF Kernel
  <2>3. d \in Kernel
    <3>1. s \in SUBSET Procs /\ y \in SUBSET Procs
      BY DEF Kernel
    <3> HIDE DEF b, s, y
    <3> QED BY <2>2, <3>1 DEF Kernel
  <2>4. k1 = d
    BY DEF Kernel
  <2> QED BY <2>3, <2>4
<1>2. [k1 EXCEPT !.shadow = @ \cup {u}] \in Kernel
  <2> HIDE DEF k1
  <2> QED BY <1>1 DEF Kernel
<1> QED BY <1>2 DEF do_fork, mkshadow

LEMMA FreshType == ASSUME NEW x \in Kernel, NEW u \in Procs, NEW i \in Users
                   PROVE  do_fresh(x, u, i) \in Kernel
<1>1. ASSUME NEW y \in Kernel PROVE [y EXCEPT !.img[u] = i] \in Kernel
  BY DEF Kernel
<1> QED BY <1>1, RmshadowType DEF do_fresh

LEMMA UnlinkType == ASSUME NEW x \in Kernel, NEW c PROVE Unlink(x, c) \in Kernel
<1> DEFINE f == [p \in Procs |-> Dequeue(x.callerq[p], c)]
<1>1. f \in [Procs -> Seq(Procs)]
  BY DequeueType DEF Kernel
<1>2. Unlink(x, c) = [x EXCEPT !.callerq = f]
  BY DEF Unlink
<1> HIDE DEF f
<1> QED BY <1>1, <1>2 DEF Kernel

LEMMA FreeType == ASSUME NEW x \in Kernel, NEW c \in Procs PROVE Free(x, c) \in Kernel
<1>1. x.sigProcs \in Int /\ x.sigProcs - 1 \in Int
  BY DEF Kernel
<1>2. {"P_SLOT_FREE"} \in SUBSET Flag
  BY DEF Flag
<1> QED BY <1>1, <1>2 DEF Free, Kernel

LEMMA XitType == ASSUME NEW x \in Kernel, NEW c \in Procs PROVE do_xit(x, c) \in Kernel
BY UnreadyType, RmshadowType, UnlinkType, FreeType DEF do_xit

LEMMA StopType == ASSUME NEW x \in Kernel, NEW u \in Procs PROVE TraceStop(x, u) \in Kernel
<1>1. ASSUME NEW y \in Kernel PROVE [y EXCEPT !.flags[u] = @ \cup {"P_STOP"}] \in Kernel
  BY DEF Kernel, Flag
<1> QED BY <1>1, UnreadyType DEF TraceStop

-----------------------------------------------------------------------------
(* Type correctness *)

LEMMA BootType ==
  ASSUME NEW n \in Nat, NEW tasks \in [1 .. n -> Tasks] PROVE Boot(tasks) \in Kernel
<1> DEFINE rdy == [q \in Queues |-> CASE q = TASK_Q   -> tasks
                                      [] q = SERVER_Q -> <<MM_PROC_NR, FS_PROC_NR>>
                                      [] q = USER_Q   -> <<LOW_USER>>
                                      [] q = SHADOW_Q -> <<>>]
           b == [flags      |-> [p \in Procs |-> IF p > LOW_USER THEN {"P_SLOT_FREE"}
                                                 ELSE {}],
                 getfrom    |-> [p \in Procs |-> MM_PROC_NR],
                 callerq    |-> [p \in Procs |-> <<>>],
                 mess       |-> [p \in Procs |-> NoMess],
                 rdy        |-> rdy,
                 cur        |-> HARDWARE,
                 bill       |-> HARDWARE,
                 intBlocked |-> {},
                 pending    |-> [p \in Procs |-> {}],
                 pendcount  |-> [p \in Procs |-> 0],
                 sigProcs   |-> 0,
                 img        |-> [p \in Procs |-> LOW_USER],
                 shadow     |-> {},
                 physio     |-> {},
                 panic      |-> "none"]
<1>1. rdy \in [Queues -> Seq(Procs)]
  <2>1. tasks \in Seq(Procs)
    <3>1. tasks \in [1 .. n -> Procs]
      BY Numbers
    <3> QED BY <3>1, IsASeq
  <2>2. /\ <<MM_PROC_NR, FS_PROC_NR>> \in Seq(Procs)
        /\ <<LOW_USER>> \in Seq(Procs)
        /\ <<>> \in Seq(Procs)
    BY Numbers
  <2>3. Queues = {TASK_Q, SERVER_Q, USER_Q, SHADOW_Q}
    BY DEF Queues, TASK_Q, SERVER_Q, USER_Q, SHADOW_Q
  <2>4. \A q \in Queues : rdy[q] \in Seq(Procs)
    BY <2>1, <2>2, <2>3 DEF TASK_Q, SERVER_Q, USER_Q, SHADOW_Q
  <2> QED BY <2>4
<1>2. NoMess \in Message
  BY DEF NoMess, Message, MTypes
<1>3. "none" \in Panics /\ <<>> \in Seq(Procs) /\ {"P_SLOT_FREE"} \in SUBSET Flag
  BY DEF Panics, Flag
<1>4. b \in Kernel
  <2> HIDE DEF rdy
  <2> QED BY <1>1, <1>2, <1>3, Numbers DEF Kernel
<1>5. Boot(tasks) = pick_proc(b)
  BY DEF Boot
<1> QED BY <1>4, <1>5, PickType

LEMMA InitType == Init => TypeOK
<1> SUFFICES ASSUME Init PROVE TypeOK
  OBVIOUS
<1>1. IsFiniteSet(Tasks)
  <2>1. \A a, b \in Int : IsFiniteSet(a .. b)
    BY FS_Interval
  <2>2. Tasks \subseteq -9 .. -2 /\ -9 \in Int /\ -2 \in Int
    BY TasksAssumption
  <2>3. \A S, T : IsFiniteSet(S) /\ T \subseteq S => IsFiniteSet(T)
    BY FS_Subset
  <2> DEFINE a == -9
             b == -2
  <2>4. IsFiniteSet(a .. b)
    <3>1. a \in Int /\ b \in Int
      OBVIOUS
    <3> HIDE DEF a, b
    <3> QED BY <3>1, <2>1
  <2> QED BY <2>2, <2>3, <2>4
<1>2. Cardinality(Tasks) \in Nat
  BY <1>1, FS_CardinalityType
<1>3. k \in Kernel
  BY <1>2, BootType DEF Init
<1>4. <<>> \in Seq(Tasks)
  OBVIOUS
<1> QED BY <1>3, <1>4 DEF Init, TypeOK

LEMMA RestartType ==
  ASSUME TypeOK, NEW y \in Kernel, restart(y), UNCHANGED switching
  PROVE  TypeOK'
<1>1. held # <<>> => Head(held) \in Tasks /\ Tail(held) \in Seq(Tasks)
  BY HeadTailProperties DEF TypeOK
<1> QED BY <1>1 DEF TypeOK, restart

LEMMA TrapType == ASSUME TypeOK, NEW y \in Kernel, Trap(y) PROVE TypeOK'
BY RestartType DEF Trap

LEMMA HoldType == ASSUME TypeOK, NEW t \in Tasks, hold(t) PROVE TypeOK'
<1>1. Append(held, t) \in Seq(Tasks)
  BY AppendProperties DEF TypeOK
<1> QED BY <1>1 DEF hold, TypeOK

LEMMA WorkType == ASSUME TypeOK, NEW s, NEW t, NEW y \in Kernel, Work(s, t, y)
                  PROVE  TypeOK'
BY DEF Work, TypeOK

LEMMA ServeType == ASSUME TypeOK, NEW s, NEW c, NEW y \in Kernel, Serve(s, c, y)
                   PROVE  TypeOK'
<1>1. [y EXCEPT !.mess[SYSTASK].m_type = "reply"] \in Kernel
  <2>1. \A m \in Message : [m EXCEPT !.m_type = "reply"] \in Message
    BY DEF Message, MTypes
  <2>2. y.mess[SYSTASK] \in Message
    BY Numbers DEF Kernel
  <2> QED BY <2>1, <2>2 DEF Kernel
<1> QED BY <1>1, WorkType DEF Serve

LEMMA SysType == ASSUME TypeOK, Sys PROVE TypeOK'
<1>1. k \in Kernel /\ k.cur \in Procs
  BY DEF TypeOK, Kernel
<1>2. NoMess \in Message /\ Request \in Message /\ Reply \in Message
  BY <1>1 DEF NoMess, Request, Reply, Message, MTypes
<1>3. ASSUME NEW c \in MayCall, Call(c) PROVE TypeOK'
  <2>1. /\ c[1] \in Functions
        /\ c[3] \in Procs \cup {ANY}
        /\ c[1] # "RECEIVE" => c[3] \in Procs
    BY CallsAssumption, Numbers
  <2>2. sys_call(k, c[1], c[3], IF c[1] = "RECEIVE" THEN NoMess ELSE Request) \in Kernel
    BY <1>1, <1>2, <2>1, SysCallType
  <2> QED BY <1>3, <2>2, TrapType DEF Call
<1>4. ASSUME NEW p \in Live, Answer(p) PROVE TypeOK'
  <2>1. sys_call(k, "SEND", p, Reply) \in Kernel
    BY <1>1, <1>2, Numbers, SysCallType DEF Functions
  <2> QED BY <1>4, <2>1, TrapType DEF Answer
<1> QED BY <1>3, <1>4 DEF Sys

LEMMA IrqType == ASSUME TypeOK, NEW t \in Tasks, Irq(t) PROVE TypeOK'
<1> DEFINE k1 == interrupt(k, t)
<1>1. k1 \in Kernel /\ pick_proc(k1) \in Kernel
  BY InterruptType, PickType, Numbers DEF TypeOK
<1>2. ASSUME k' = k1, UNCHANGED <<switching, held, unholding>> PROVE TypeOK'
  BY <1>1, <1>2 DEF TypeOK
<1> QED BY <1>1, <1>2, HoldType, RestartType DEF Irq

LEMMA UnholdType == ASSUME TypeOK, unhold PROVE TypeOK'
<1>1. interrupt(k, unholding) \in Kernel
  BY InterruptType, Numbers DEF unhold, TypeOK
<1>2. held # <<>> => Head(held) \in Tasks /\ Tail(held) \in Seq(Tasks)
  BY HeadTailProperties DEF TypeOK
<1> QED BY <1>1, <1>2 DEF unhold, TypeOK

LEMMA KernelWorkType == ASSUME TypeOK, Kernel_Work PROVE TypeOK'
<1> USE DEF TypeOK
<1>1. k \in Kernel /\ Users \subseteq Procs
  BY Numbers
<1>2. CASE lock_
  BY <1>2 DEF lock_
<1>3. CASE lock_pick_proc
  BY <1>3, <1>1, PickType, WorkType DEF lock_pick_proc
<1>4. ASSUME NEW u \in Users, NEW sig \in Sigs,
             (\E t \in Tasks : CauseSig(t, u, sig)) \/ do_kill(u, sig)
      PROVE  TypeOK'
  BY <1>4, <1>1, CauseSigType, WorkType, ServeType DEF CauseSig, do_kill
<1>5. ASSUME NEW u \in Users, do_sig(u) PROVE TypeOK'
  BY <1>5, <1>1, SigDoneType, ServeType DEF do_sig
<1>6. ASSUME NEW u \in Users, Exec(u) PROVE TypeOK'
  BY <1>6, <1>1, UnblockType, ServeType DEF Exec, do_exec
<1>7. ASSUME NEW u \in Users, Fresh(u) PROVE TypeOK'
  BY <1>7, <1>1, FreshType, ServeType DEF Fresh, FreeImages
<1>8. ASSUME NEW u \in Users, Xit(u) PROVE TypeOK'
  BY <1>8, <1>1, XitType, ServeType DEF Xit
<1>9. ASSUME NEW u \in Users, Stop(u) \/ Resume(u) PROVE TypeOK'
  BY <1>9, <1>1, StopType, UnblockType, ServeType DEF Stop, Resume, TraceResume
<1>10. ASSUME NEW u \in Users, NEW c \in Users, Fork(u, c) PROVE TypeOK'
  BY <1>10, <1>1, ForkType, ServeType DEF Fork
<1>11. ASSUME NEW u \in Users, NEW t \in Tasks, Physio(t, u) PROVE TypeOK'
  <2>1. [k EXCEPT !.physio = IF u \in @ THEN @ \ {u} ELSE @ \cup {u}] \in Kernel
    BY <1>1 DEF Kernel
  <2> QED BY <1>11, <2>1, WorkType DEF Physio
<1>12. CASE Quantum
  BY <1>12, <1>1, SchedType, WorkType DEF Quantum
<1>13. CASE Flip
  <2>1. k.rdy[SHADOW_Q] \in Seq(Procs)
    BY DEF Kernel, Queues, TASK_Q, SHADOW_Q
  <2>2. Head(k.rdy[SHADOW_Q]) \in Procs
    BY <1>13, <2>1, HeadTailProperties DEF Flip
  <2> QED BY <1>13, <1>1, <2>2, UnshadowType, WorkType DEF Flip
<1> HIDE DEF TypeOK
<1> QED BY <1>2, <1>3, <1>4, <1>5, <1>6, <1>7, <1>8, <1>9, <1>10, <1>11, <1>12,
           <1>13 DEF Kernel_Work

(***************************************************************************)
(* The kernel never leaves its types: no queue ever holds anything but     *)
(* processes and no count of unfinished signals wraps below zero (the      *)
(* check in do_sig(), kernel/system.c:454), whatever programs and          *)
(* interrupts do.                                                          *)
(***************************************************************************)
THEOREM TypeCorrect == Spec => []TypeOK
<1>1. Init => TypeOK
  BY InitType
<1>2. TypeOK /\ [Next]_vars => TypeOK'
  <2> SUFFICES ASSUME TypeOK, [Next]_vars PROVE TypeOK'
    OBVIOUS
  <2>1. CASE Sys
    BY <2>1, SysType
  <2>2. ASSUME NEW sig \in Sigs, trap(sig) PROVE TypeOK'
    <3>1. k \in Kernel /\ k.cur \in Procs
      BY DEF TypeOK, Kernel
    <3> QED BY <2>2, <3>1, CauseSigType, TrapType DEF trap
  <2>3. CASE Kernel_Work
    BY <2>3, KernelWorkType
  <2>4. ASSUME NEW t \in IrqTasks, Irq(t) \/ IrqNested(t) PROVE TypeOK'
    BY <2>4, CallsAssumption, IrqType, HoldType DEF IrqNested
  <2>5. CASE unhold
    BY <2>5, UnholdType
  <2>6. CASE UNCHANGED vars
    BY <2>6 DEF vars, TypeOK
  <2> QED BY <2>1, <2>2, <2>3, <2>4, <2>5, <2>6 DEF Next, Step
<1> QED BY <1>1, <1>2, PTL DEF Spec

-----------------------------------------------------------------------------
(* The inductive invariant of the queues and books is Kept(k), for a       *)
(* record of kernel tables in general: a lemma per routine of the kernel   *)
(* says that the routine takes tables for which Kept holds to such tables. *)

-----------------------------------------------------------------------------
(* Queues: who is in one *)

LEMMA AppendKeeps ==
  ASSUME NEW q \in Seq(Procs), NEW p \in Procs
  PROVE  /\ \A r : InQueue(Append(q, p), r) <=> InQueue(q, r) \/ r = p
         /\ NoDuplicates(q) /\ ~InQueue(q, p) => NoDuplicates(Append(q, p))
         /\ Append(q, p) # <<>>
         /\ q # <<>> => Head(Append(q, p)) = Head(q)
<1> DEFINE a == Append(q, p)
<1>1. /\ a \in Seq(Procs) /\ Len(a) = Len(q) + 1 /\ Len(q) \in Nat
      /\ \A i \in 1 .. Len(q) : a[i] = q[i]
      /\ a[Len(q) + 1] = p
  BY AppendProperties, LenProperties
<1>2. \A i \in 1 .. Len(a) : i \in 1 .. Len(q) \/ i = Len(q) + 1
  BY <1>1
<1>3. Len(q) + 1 \in 1 .. Len(a) /\ 1 .. Len(q) \subseteq 1 .. Len(a)
  BY <1>1
<1>4. ASSUME NEW r PROVE InQueue(a, r) <=> InQueue(q, r) \/ r = p
  BY <1>1, <1>2, <1>3 DEF InQueue
<1>5. ASSUME NoDuplicates(q), ~InQueue(q, p) PROVE NoDuplicates(a)
  BY <1>1, <1>2, <1>5 DEF InQueue, NoDuplicates
<1>6. a # <<>>
  BY <1>1, EmptySeq
<1>7. ASSUME q # <<>> PROVE Head(a) = Head(q)
  <2>1. 1 \in 1 .. Len(q)
    BY <1>1, <1>7, EmptySeq
  <2> QED BY <1>1, <1>6, <2>1
<1> HIDE DEF a
<1> QED BY <1>4, <1>5, <1>6, <1>7 DEF a

LEMMA HeadIn ==
  ASSUME NEW q \in Seq(Procs), q # <<>>
  PROVE  Head(q) = q[1] /\ 1 \in 1 .. Len(q) /\ InQueue(q, Head(q)) /\ Head(q) \in Procs
<1>1. Len(q) \in Nat /\ Len(q) # 0 /\ Head(q) = q[1] /\ Head(q) \in Procs
  BY LenProperties, EmptySeq, HeadTailProperties
<1> QED BY <1>1 DEF InQueue

LEMMA InQueueType ==
  ASSUME NEW q \in Seq(Procs), NEW p, InQueue(q, p) PROVE p \in Procs /\ q # <<>>
<1>1. PICK i \in 1 .. Len(q) : q[i] = p
  BY DEF InQueue
<1>2. p \in Procs
  BY <1>1, ElementOfSeq
<1>3. q # <<>>
  BY <1>1
<1> QED BY <1>2, <1>3

LEMMA EmptyQueue == \A p : ~InQueue(<<>>, p)
BY DEF InQueue

LEMMA DequeueAbsent ==
  ASSUME NEW q, NEW p, ~InQueue(q, p) PROVE Dequeue(q, p) = q
BY DEF Dequeue, InQueue

LEMMA DequeueKeeps ==
  ASSUME NEW q \in Seq(Procs), NoDuplicates(q), NEW p
  PROVE  /\ NoDuplicates(Dequeue(q, p))
         /\ \A r : InQueue(Dequeue(q, p), r) <=> InQueue(q, r) /\ r # p
         /\ q # <<>> /\ Head(q) # p =>
              Dequeue(q, p) # <<>> /\ Head(Dequeue(q, p)) = Head(q)
<1> DEFINE Keeps(d) ==
             /\ NoDuplicates(d)
             /\ \A r : InQueue(d, r) <=> InQueue(q, r) /\ r # p
             /\ q # <<>> /\ Head(q) # p => d # <<>> /\ Head(d) = Head(q)
<1> SUFFICES Keeps(Dequeue(q, p))
  OBVIOUS
<1>1. CASE ~InQueue(q, p)
  <2>1. Dequeue(q, p) = q
    BY <1>1, DequeueAbsent
  <2>2. \A r : InQueue(q, r) => r # p
    BY <1>1
  <2> QED BY <2>1, <2>2
<1>2. CASE InQueue(q, p)
  <2> DEFINE i == CHOOSE i \in 1 .. Len(q) : q[i] = p
             d == [j \in 1 .. Len(q) - 1 |-> IF j < i THEN q[j] ELSE q[j + 1]]
             at(j) == IF j < i THEN j ELSE j + 1
  <2>1. i \in 1 .. Len(q) /\ q[i] = p /\ Len(q) \in Nat
    BY <1>2 DEF InQueue
  <2>2. Dequeue(q, p) = d
    BY <1>2 DEF Dequeue, InQueue
  <2> HIDE DEF i
  <2>3. Len(d) = Len(q) - 1
    BY <2>1
  <2>4. \A j \in 1 .. Len(d) : at(j) \in 1 .. Len(q) /\ at(j) # i /\ d[j] = q[at(j)]
    BY <2>1, <2>3
  <2>5. \A j \in 1 .. Len(q) : j # i => \E m \in 1 .. Len(d) : at(m) = j
    <3> SUFFICES ASSUME NEW j \in 1 .. Len(q), j # i PROVE \E m \in 1 .. Len(d) : at(m) = j
      OBVIOUS
    <3>1. CASE j < i
      <4>1. j \in 1 .. Len(d) /\ at(j) = j
        BY <2>1, <2>3, <3>1
      <4> QED BY <4>1
    <3>2. CASE j > i
      <4>1. j - 1 \in 1 .. Len(d) /\ at(j - 1) = j
        BY <2>1, <2>3, <3>2
      <4> QED BY <4>1
    <3> QED BY <2>1, <3>1, <3>2
  <2>6. \A m, n \in 1 .. Len(d) : at(m) = at(n) => m = n
    BY <2>1, <2>3
  <2> HIDE DEF d, at
  <2>7. NoDuplicates(d)
    <3> SUFFICES ASSUME NEW m \in 1 .. Len(d), NEW n \in 1 .. Len(d), d[m] = d[n]
                 PROVE  m = n
      BY DEF NoDuplicates
    <3>1. at(m) = at(n)
      BY <2>4 DEF NoDuplicates
    <3> QED BY <2>6, <3>1
  <2>8. ASSUME NEW r PROVE InQueue(d, r) <=> InQueue(q, r) /\ r # p
    <3>1. ASSUME NEW m \in 1 .. Len(d), d[m] = r PROVE InQueue(q, r) /\ r # p
      BY <2>1, <2>4, <3>1 DEF InQueue, NoDuplicates
    <3>2. ASSUME NEW j \in 1 .. Len(q), q[j] = r, r # p PROVE InQueue(d, r)
      <4>1. PICK m \in 1 .. Len(d) : at(m) = j
        BY <2>1, <2>5, <3>2
      <4> QED BY <2>4, <3>2, <4>1 DEF InQueue
    <3> QED BY <3>1, <3>2 DEF InQueue
  <2>9. ASSUME q # <<>>, Head(q) # p PROVE d # <<>> /\ Head(d) = Head(q)
    <3>1. Head(q) = q[1] /\ 1 \in 1 .. Len(q)
      BY <2>9, HeadIn
    <3>2. 1 # i
      BY <2>1, <2>9, <3>1
    <3>3. 1 \in 1 .. Len(d) /\ at(1) = 1
      BY <2>1, <2>3, <3>2 DEF at
    <3>4. d[1] = q[1]
      BY <2>4, <3>3
    <3>5. d \in Seq(Procs)
      BY <2>2, DequeueType
    <3>6. d # <<>>
      BY <3>3, EmptySeq
    <3> QED BY <3>1, <3>4, <3>5, <3>6, HeadIn
  <2> QED BY <2>2, <2>7, <2>8, <2>9
<1> QED BY <1>1, <1>2

LEMMA RotateKeeps ==
  ASSUME NEW q \in Seq(Procs), q # <<>>, NoDuplicates(q)
  PROVE  /\ Append(Tail(q), Head(q)) \in Seq(Procs)
         /\ NoDuplicates(Append(Tail(q), Head(q)))
         /\ \A r : InQueue(Append(Tail(q), Head(q)), r) <=> InQueue(q, r)
<1> DEFINE t == Tail(q)
<1>1. /\ Len(q) \in Nat \ {0} /\ Head(q) = q[1] /\ Head(q) \in Procs
      /\ t \in Seq(Procs) /\ Len(t) = Len(q) - 1
      /\ \A i \in 1 .. Len(t) : t[i] = q[i + 1]
  BY HeadTailProperties, LenProperties, EmptySeq
<1> HIDE DEF t
<1>2. \A i \in 1 .. Len(t) : i + 1 \in 1 .. Len(q) /\ i + 1 # 1
  BY <1>1
<1>3. NoDuplicates(t)
  <2> SUFFICES ASSUME NEW i \in 1 .. Len(t), NEW j \in 1 .. Len(t), t[i] = t[j]
               PROVE  i = j
    BY DEF NoDuplicates
  <2>1. i + 1 = j + 1
    BY <1>1, <1>2 DEF NoDuplicates
  <2> QED BY <1>1, <2>1
<1>4. ~InQueue(t, Head(q))
  <2> SUFFICES ASSUME NEW i \in 1 .. Len(t), t[i] = q[1] PROVE FALSE
    BY <1>1 DEF InQueue
  <2>1. 1 \in 1 .. Len(q)
    BY <1>1
  <2>2. i + 1 = 1
    BY <1>1, <1>2, <2>1 DEF NoDuplicates
  <2> QED BY <1>2, <2>2
<1>5. ASSUME NEW r PROVE InQueue(t, r) \/ r = Head(q) <=> InQueue(q, r)
  <2>1. ASSUME NEW j \in 1 .. Len(q), q[j] = r, j # 1 PROVE InQueue(t, r)
    <3>1. j - 1 \in 1 .. Len(t) /\ (j - 1) + 1 = j
      BY <1>1, <2>1
    <3>2. t[j - 1] = r
      BY <1>1, <2>1, <3>1
    <3> QED BY <3>1, <3>2 DEF InQueue
  <2>2. InQueue(q, r) => InQueue(t, r) \/ r = Head(q)
    BY <1>1, <2>1 DEF InQueue
  <2>3. InQueue(t, r) => InQueue(q, r)
    BY <1>1, <1>2 DEF InQueue
  <2> QED BY <2>2, <2>3, HeadIn
<1>6. /\ Append(t, Head(q)) \in Seq(Procs)
      /\ NoDuplicates(Append(t, Head(q)))
      /\ \A r : InQueue(Append(t, Head(q)), r) <=> InQueue(t, r) \/ r = Head(q)
  BY <1>1, <1>3, <1>4, AppendKeeps, AppendProperties
<1> QED BY <1>5, <1>6 DEF t

-----------------------------------------------------------------------------
(* Ready queues: L are the processes that count as runnable *)

Placed(x, L) ==
  \A q \in Queues :
    /\ NoDuplicates(x.rdy[q])
    /\ \A p \in Procs : InQueue(x.rdy[q], p) <=> p \in L /\ q = Queue(x, p)

CurHead(x) ==
  x.cur = IDLE \/ /\ x.rdy[Queue(x, x.cur)] # <<>>
                  /\ Head(x.rdy[Queue(x, x.cur)]) = x.cur
                  /\ Queue(x, x.cur) # SHADOW_Q

Runs(x, L) == Placed(x, L) /\ CurHead(x)

RunSet(x) == {p \in Live : x.flags[p] = {}}

(* y differs from x in who is ready and who runs, at most *)
SameTable(x, y) ==
  /\ y.flags = x.flags /\ y.getfrom = x.getfrom /\ y.callerq = x.callerq
  /\ y.mess = x.mess /\ y.intBlocked = x.intBlocked
  /\ y.pending = x.pending /\ y.pendcount = x.pendcount /\ y.sigProcs = x.sigProcs
  /\ y.img = x.img /\ y.shadow = x.shadow /\ y.physio = x.physio
  /\ y.panic = x.panic

LEMMA QueueOf ==
  ASSUME NEW x, NEW y, NEW p, p \in y.shadow <=> p \in x.shadow
  PROVE  Queue(y, p) = Queue(x, p)
BY DEF Queue

LEMMA QueueSeq ==
  ASSUME NEW x \in Kernel
  PROVE  /\ \A q \in Queues : x.rdy[q] \in Seq(Procs)
         /\ \A p \in Procs : Queue(x, p) \in Queues /\ x.rdy[Queue(x, p)] \in Seq(Procs)
         /\ x.cur \in Procs
BY QueueType DEF Kernel

LEMMA QueueChange ==
  ASSUME NEW x \in Kernel, NEW q \in Queues, NEW s \in Seq(Procs),
         NEW y, y = [x EXCEPT !.rdy[q] = s]
  PROVE  /\ y \in Kernel /\ SameTable(x, y) /\ y.cur = x.cur
         /\ \A r \in Queues : y.rdy[r] = IF r = q THEN s ELSE x.rdy[r]
<1>1. y \in Kernel
  BY DEF Kernel
<1>2. SameTable(x, y) /\ y.cur = x.cur
  BY DEF Kernel, SameTable
<1>3. \A r \in Queues : y.rdy[r] = IF r = q THEN s ELSE x.rdy[r]
  BY DEF Kernel
<1> QED BY <1>1, <1>2, <1>3

LEMMA CurRuns ==
  ASSUME NEW x \in Kernel, NEW L, Runs(x, L), x.cur # IDLE
  PROVE  x.cur \in L /\ InQueue(x.rdy[Queue(x, x.cur)], x.cur)
<1>1. InQueue(x.rdy[Queue(x, x.cur)], x.cur)
  BY QueueSeq, HeadIn DEF Runs, CurHead
<1> QED BY <1>1, QueueSeq DEF Runs, Placed

LEMMA PickSame == ASSUME NEW x \in Kernel PROVE SameTable(x, pick_proc(x))
BY DEF pick_proc, SameTable, Kernel

LEMMA PickKeeps ==
  ASSUME NEW x \in Kernel, NEW L, Placed(x, L)
  PROVE  Runs(pick_proc(x), L)
<1> DEFINE y == pick_proc(x)
<1>1. y.rdy = x.rdy /\ y.shadow = x.shadow /\ y \in Kernel
  BY PickType DEF pick_proc, Kernel
<1>2. Placed(y, L)
  BY <1>1, QueueOf DEF Placed
<1>3. ASSUME NEW q \in {TASK_Q, SERVER_Q, USER_Q}, x.rdy[q] # <<>>, y.cur = Head(x.rdy[q])
      PROVE  CurHead(y)
  <2>1. q \in Queues /\ q # SHADOW_Q
    BY DEF Queues, TASK_Q, SERVER_Q, USER_Q, SHADOW_Q
  <2>2. InQueue(x.rdy[q], y.cur) /\ y.cur \in Procs
    BY <1>3, <2>1, QueueSeq, HeadIn
  <2>3. q = Queue(y, y.cur)
    BY <1>1, <1>2, <2>1, <2>2 DEF Placed
  <2> QED BY <1>1, <1>3, <2>1, <2>3 DEF CurHead
<1>4. \/ y.cur = IDLE
      \/ \E q \in {TASK_Q, SERVER_Q, USER_Q} : x.rdy[q] # <<>> /\ y.cur = Head(x.rdy[q])
  BY DEF pick_proc, Kernel
<1>5. CurHead(y)
  BY <1>3, <1>4 DEF CurHead
<1> QED BY <1>2, <1>5 DEF Runs

LEMMA FrameKeeps ==
  ASSUME NEW x \in Kernel, NEW y \in Kernel, NEW L, Runs(x, L),
         y.rdy = x.rdy, y.cur = x.cur,
         \A p \in L : p \in y.shadow <=> p \in x.shadow
  PROVE  Runs(y, L)
<1>1. \A p \in L : Queue(y, p) = Queue(x, p)
  BY QueueOf
<1>2. Placed(y, L)
  BY <1>1 DEF Runs, Placed
<1>3. CurHead(y)
  <2>1. x.cur = IDLE \/ x.cur \in L
    BY CurRuns
  <2> QED BY <1>1, <2>1 DEF Runs, CurHead
<1> QED BY <1>2, <1>3 DEF Runs

LEMMA ReadySame == ASSUME NEW x \in Kernel, NEW p PROVE SameTable(x, ready(x, p))
BY DEF ready, SameTable, Kernel

LEMMA ReadyKeeps ==
  ASSUME NEW x \in Kernel, NEW L, Runs(x, L), NEW p \in Procs, p \notin L
  PROVE  Runs(ready(x, p), L \cup {p})
<1> DEFINE y  == ready(x, p)
           qp == Queue(x, p)
<1>1. /\ y.shadow = x.shadow /\ y.cur = x.cur /\ y \in Kernel
      /\ qp \in Queues /\ x.rdy[qp] \in Seq(Procs)
      /\ \A q \in Queues : y.rdy[q] = IF q = qp THEN Append(x.rdy[q], p) ELSE x.rdy[q]
  <2> DEFINE s == Append(x.rdy[qp], p)
  <2>1. qp \in Queues /\ x.rdy[qp] \in Seq(Procs) /\ s \in Seq(Procs)
    BY QueueSeq, AppendProperties
  <2>2. y = [x EXCEPT !.rdy[qp] = s]
    BY DEF ready
  <2> HIDE DEF y, qp, s
  <2>3. /\ y \in Kernel /\ SameTable(x, y) /\ y.cur = x.cur
        /\ \A r \in Queues : y.rdy[r] = IF r = qp THEN s ELSE x.rdy[r]
    BY <2>1, <2>2, QueueChange
  <2> QED BY <2>1, <2>3 DEF SameTable, s
<1>2. \A r : Queue(y, r) = Queue(x, r)
  BY <1>1, QueueOf
<1>3. ~InQueue(x.rdy[qp], p)
  BY <1>1 DEF Runs, Placed
<1> HIDE DEF y
<1>4. ASSUME NEW q \in Queues
      PROVE  /\ NoDuplicates(y.rdy[q])
             /\ \A r \in Procs : InQueue(y.rdy[q], r) <=> r \in L \cup {p} /\ q = Queue(y, r)
  <2>1. CASE q = qp
    <3>1. NoDuplicates(y.rdy[q]) /\ \A r : InQueue(y.rdy[q], r) <=> InQueue(x.rdy[q], r) \/ r = p
      BY <1>1, <1>3, <2>1, AppendKeeps DEF Runs, Placed
    <3> QED BY <1>2, <2>1, <3>1 DEF Runs, Placed
  <2>2. CASE q # qp
    BY <1>1, <1>2, <2>2 DEF Runs, Placed
  <2> QED BY <2>1, <2>2
<1>5. CurHead(y)
  <2> SUFFICES ASSUME x.cur # IDLE PROVE CurHead(y)
    BY <1>1 DEF CurHead
  <2> DEFINE q == Queue(x, x.cur)
  <2>1. q \in Queues /\ x.rdy[q] \in Seq(Procs) /\ x.rdy[q] # <<>> /\ Head(x.rdy[q]) = x.cur
    BY QueueSeq DEF Runs, CurHead
  <2>2. Append(x.rdy[q], p) # <<>> /\ Head(Append(x.rdy[q], p)) = x.cur
    BY <2>1, AppendKeeps
  <2>3. y.rdy[q] # <<>> /\ Head(y.rdy[q]) = x.cur
    BY <1>1, <2>1, <2>2
  <2> QED BY <1>1, <1>2, <2>3 DEF Runs, CurHead
<1> QED BY <1>4, <1>5 DEF Runs, Placed, y

LEMMA UnreadySame == ASSUME NEW x \in Kernel, NEW p \in Procs PROVE SameTable(x, unready(x, p))
<1> DEFINE y == [x EXCEPT !.rdy[Queue(x, p)] = Dequeue(@, p)]
<1>1. y \in Kernel /\ SameTable(x, y)
  BY DequeuedType DEF SameTable, Kernel
<1>2. SameTable(x, pick_proc(y))
  <2>1. SameTable(y, pick_proc(y))
    BY <1>1, PickSame
  <2> QED BY <1>1, <2>1 DEF SameTable
<1> QED BY <1>1, <1>2 DEF unready

LEMMA UnreadyKeeps ==
  ASSUME NEW x \in Kernel, NEW L, Runs(x, L), NEW p \in Procs
  PROVE  Runs(unready(x, p), L \ {p})
<1> DEFINE qp == Queue(x, p)
           y  == [x EXCEPT !.rdy[qp] = Dequeue(@, p)]
<1>1. /\ y.shadow = x.shadow /\ y.cur = x.cur /\ y \in Kernel
      /\ qp \in Queues /\ x.rdy[qp] \in Seq(Procs)
      /\ \A q \in Queues : y.rdy[q] = IF q = qp THEN Dequeue(x.rdy[q], p) ELSE x.rdy[q]
  <2>1. qp \in Queues /\ x.rdy[qp] \in Seq(Procs) /\ Dequeue(x.rdy[qp], p) \in Seq(Procs)
    BY QueueSeq, DequeueType
  <2>2. y = [x EXCEPT !.rdy[qp] = Dequeue(x.rdy[qp], p)]
    OBVIOUS
  <2> HIDE DEF y, qp
  <2>3. /\ y \in Kernel /\ SameTable(x, y) /\ y.cur = x.cur
        /\ \A r \in Queues : y.rdy[r] = IF r = qp THEN Dequeue(x.rdy[qp], p) ELSE x.rdy[r]
    BY <2>1, <2>2, QueueChange
  <2> QED BY <2>1, <2>3 DEF SameTable
<1>2. \A r : Queue(y, r) = Queue(x, r)
  BY <1>1, QueueOf
<1>3. unready(x, p) = IF x.rdy[qp] # <<>> /\ Head(x.rdy[qp]) = p /\ x.cur = p
                      THEN pick_proc(y) ELSE y
  BY DEF unready
<1> HIDE DEF y
<1>4. ASSUME NEW q \in Queues
      PROVE  /\ NoDuplicates(y.rdy[q])
             /\ \A r \in Procs : InQueue(y.rdy[q], r) <=> r \in L \ {p} /\ q = Queue(y, r)
  <2>1. CASE q = qp
    <3>1. NoDuplicates(y.rdy[q]) /\ \A r : InQueue(y.rdy[q], r) <=> InQueue(x.rdy[q], r) /\ r # p
      BY <1>1, <2>1, DequeueKeeps DEF Runs, Placed
    <3> QED BY <1>2, <2>1, <3>1 DEF Runs, Placed
  <2>2. CASE q # qp
    BY <1>1, <1>2, <2>2 DEF Runs, Placed
  <2> QED BY <2>1, <2>2
<1>5. Placed(y, L \ {p})
  BY <1>4 DEF Placed
<1>6. CASE x.rdy[qp] # <<>> /\ Head(x.rdy[qp]) = p /\ x.cur = p
  BY <1>1, <1>3, <1>5, <1>6, PickKeeps
<1>7. CASE ~(x.rdy[qp] # <<>> /\ Head(x.rdy[qp]) = p /\ x.cur = p)
  <2>1. CASE x.cur = IDLE
    BY <1>1, <1>3, <1>5, <1>7, <2>1 DEF Runs, CurHead
  <2>2. CASE x.cur # IDLE
    <3> DEFINE q == Queue(x, x.cur)
    <3>1. q \in Queues /\ x.rdy[q] \in Seq(Procs) /\ x.rdy[q] # <<>> /\ Head(x.rdy[q]) = x.cur
      BY <2>2, QueueSeq DEF Runs, CurHead
    <3>2. x.cur # p
      BY <1>7, <3>1
    <3>3. NoDuplicates(x.rdy[q])
      BY <3>1 DEF Runs, Placed
    <3>4. Dequeue(x.rdy[q], p) # <<>> /\ Head(Dequeue(x.rdy[q], p)) = x.cur
      BY <3>1, <3>2, <3>3, DequeueKeeps
    <3>5. y.rdy[q] # <<>> /\ Head(y.rdy[q]) = x.cur
      BY <1>1, <3>1, <3>4
    <3>6. CurHead(y)
      BY <1>1, <1>2, <2>2, <3>5 DEF Runs, CurHead
    <3> QED BY <1>3, <1>5, <1>7, <3>6 DEF Runs
  <2> QED BY <2>1, <2>2
<1> QED BY <1>6, <1>7

LEMMA SchedKeeps ==
  ASSUME NEW x \in Kernel, NEW L, Runs(x, L)
  PROVE  Runs(sched(x), L) /\ SameTable(x, sched(x))
<1> DEFINE q == x.rdy[USER_Q]
           y == [x EXCEPT !.rdy[USER_Q] = Append(Tail(q), Head(q))]
<1>1. CASE q = <<>>
  BY <1>1 DEF sched, SameTable
<1>2. CASE q # <<>>
  <2>1. USER_Q \in Queues /\ q \in Seq(Procs) /\ NoDuplicates(q)
    BY QueueSeq DEF Runs, Placed, Queues, TASK_Q, USER_Q, SHADOW_Q
  <2> DEFINE s == Append(Tail(q), Head(q))
  <2>2. s \in Seq(Procs) /\ NoDuplicates(s) /\ \A r : InQueue(s, r) <=> InQueue(q, r)
    BY <1>2, <2>1, RotateKeeps
  <2> HIDE DEF s
  <2>3. y = [x EXCEPT !.rdy[USER_Q] = s]
    BY DEF s
  <2> HIDE DEF y
  <2>4. /\ y \in Kernel /\ SameTable(x, y)
        /\ \A r \in Queues : y.rdy[r] = IF r = USER_Q THEN s ELSE x.rdy[r]
    BY <2>1, <2>2, <2>3, QueueChange
  <2>5. \A r : Queue(y, r) = Queue(x, r)
    BY <2>4, QueueOf DEF SameTable
  <2>6. sched(x) = pick_proc(y)
    BY <1>2 DEF sched, y
  <2>7. Placed(y, L)
    BY <2>2, <2>4, <2>5 DEF Runs, Placed
  <2>8. SameTable(y, pick_proc(y))
    BY <2>4, PickSame
  <2> QED BY <2>4, <2>6, <2>7, <2>8, PickKeeps DEF SameTable
<1> QED BY <1>1, <1>2

-----------------------------------------------------------------------------
(* Flags: blocking and unblocking *)

With(x, f) == {p \in Procs : f \in x.flags[p]}

(* What p_flags can hold, as one set that a proof leaves unexpanded *)
FlagSets == SUBSET Flag

LEMMA LiveProcs == \A p \in Live : p \in Procs
BY Numbers

LEMMA BlockKeeps ==
  ASSUME NEW x \in Kernel, Runs(x, RunSet(x)), NEW p \in Procs,
         NEW F \in SUBSET Flag, F # {}
  PROVE  LET y == Block(x, p, F)
         IN  /\ y \in Kernel /\ Runs(y, RunSet(y))
             /\ SameTable([x EXCEPT !.flags[p] = @ \cup F], y)
<1> DEFINE a == IF x.flags[p] = {} THEN unready(x, p) ELSE x
           y == [a EXCEPT !.flags[p] = a.flags[p] \cup F]
           z == [x EXCEPT !.flags[p] = x.flags[p] \cup F]
<1>1. a \in Kernel /\ SameTable(x, a) /\ Runs(a, RunSet(x) \ {p})
  <2>1. CASE x.flags[p] = {}
    BY <2>1, UnreadyType, UnreadySame, UnreadyKeeps
  <2>2. CASE x.flags[p] # {}
    <3>1. RunSet(x) \ {p} = RunSet(x)
      BY <2>2 DEF RunSet
    <3> QED BY <2>2, <3>1 DEF SameTable
  <2> QED BY <2>1, <2>2
<1>2. Block(x, p, F) = y
  BY DEF Block
<1> HIDE DEF a
<1>3. /\ y \in Kernel /\ y.rdy = a.rdy /\ y.cur = a.cur /\ y.shadow = a.shadow
      /\ \A r \in Procs : y.flags[r] = IF r = p THEN a.flags[p] \cup F ELSE a.flags[r]
  <2> DEFINE G == a.flags[p] \cup F
  <2>1. G \in FlagSets /\ y = [a EXCEPT !.flags[p] = G]
    BY <1>1 DEF Kernel, FlagSets
  <2> HIDE DEF y, G
  <2>2. /\ y \in Kernel /\ y.rdy = a.rdy /\ y.cur = a.cur /\ y.shadow = a.shadow
        /\ \A r \in Procs : y.flags[r] = IF r = p THEN G ELSE a.flags[r]
    BY <1>1, <2>1 DEF Kernel, FlagSets
  <2> QED BY <2>2 DEF G
<1>4. SameTable(z, y)
  BY <1>1 DEF Kernel, SameTable
<1>5. RunSet(y) = RunSet(x) \ {p}
  BY <1>1, <1>3, LiveProcs DEF RunSet, SameTable
<1> HIDE DEF y
<1>6. Runs(y, RunSet(x) \ {p})
  BY <1>1, <1>3, FrameKeeps
<1> QED BY <1>2, <1>3, <1>4, <1>5, <1>6

LEMMA UnblockKeeps ==
  ASSUME NEW x \in Kernel, Runs(x, RunSet(x)), NEW p \in Live,
         NEW F, x.flags[p] \cap F # {}
  PROVE  LET y == Unblock(x, p, F)
         IN  /\ y \in Kernel /\ Runs(y, RunSet(y))
             /\ SameTable([x EXCEPT !.flags[p] = @ \ F], y)
<1> DEFINE z == [x EXCEPT !.flags[p] = x.flags[p] \ F]
<1>1. p \in Procs /\ x.flags[p] \ F \in SUBSET Flag
  BY LiveProcs DEF Kernel
<1>2. /\ z \in Kernel /\ z.rdy = x.rdy /\ z.cur = x.cur /\ z.shadow = x.shadow
      /\ \A r \in Procs : z.flags[r] = IF r = p THEN x.flags[p] \ F ELSE x.flags[r]
  <2> DEFINE G == x.flags[p] \ F
  <2>1. G \in FlagSets /\ z = [x EXCEPT !.flags[p] = G]
    BY <1>1 DEF FlagSets
  <2> HIDE DEF z, G
  <2>2. /\ z \in Kernel /\ z.rdy = x.rdy /\ z.cur = x.cur /\ z.shadow = x.shadow
        /\ \A r \in Procs : z.flags[r] = IF r = p THEN G ELSE x.flags[r]
    BY <1>1, <2>1 DEF Kernel, FlagSets
  <2> QED BY <2>2 DEF G
<1>3. p \notin RunSet(x) /\ \A r \in Live : r # p => (r \in RunSet(z) <=> r \in RunSet(x))
  BY <1>2, LiveProcs DEF RunSet
<1>4. Unblock(x, p, F) = IF z.flags[p] = {} THEN ready(z, p) ELSE z
  BY DEF Unblock
<1> HIDE DEF z
<1>5. Runs(z, RunSet(x))
  BY <1>2, FrameKeeps
<1>6. SameTable(z, z)
  BY DEF SameTable
<1>7. CASE z.flags[p] = {}
  <2>1. Runs(ready(z, p), RunSet(x) \cup {p}) /\ SameTable(z, ready(z, p)) /\ ready(z, p) \in Kernel
    BY <1>1, <1>2, <1>3, <1>5, ReadyKeeps, ReadySame, ReadyType
  <2>2. RunSet(ready(z, p)) = RunSet(x) \cup {p}
    BY <1>2, <1>3, <1>7, <2>1 DEF RunSet, SameTable
  <2> QED BY <1>4, <1>7, <2>1, <2>2 DEF z
<1>8. CASE z.flags[p] # {}
  <2>1. RunSet(z) = RunSet(x)
    BY <1>3, <1>8 DEF RunSet
  <2> QED BY <1>2, <1>4, <1>5, <1>6, <1>8, <2>1 DEF z
<1> QED BY <1>7, <1>8

-----------------------------------------------------------------------------
(* Who is queued on whom *)

(* cq are the caller queues, S the senders. *)
Sends(cq, S) ==
  /\ \A d \in Procs : NoDuplicates(cq[d])
  /\ \A d, e, p \in Procs : InQueue(cq[d], p) /\ InQueue(cq[e], p) => d = e
  /\ \A p \in Procs : p \in S <=> \E d \in Procs : InQueue(cq[d], p)
  /\ \A p, d \in Procs : ~(InQueue(cq[d], p) /\ InQueue(cq[p], d))
  /\ \A u \in Users : cq[u] = <<>>

Callerq == [Procs -> Seq(Procs)]

LEMMA SendsAppend ==
  ASSUME NEW cq \in Callerq, NEW S, Sends(cq, S), NEW p \in Procs, NEW d \in Procs \ Users,
         p \notin S, p # d, ~InQueue(cq[p], d)
  PROVE  Sends([cq EXCEPT ![d] = Append(@, p)], S \cup {p})
<1> DEFINE n == [cq EXCEPT ![d] = Append(cq[d], p)]
<1>1. cq[d] \in Seq(Procs) /\ ~InQueue(cq[d], p)
  BY DEF Callerq, Sends
<1>2. /\ \A r : InQueue(Append(cq[d], p), r) <=> InQueue(cq[d], r) \/ r = p
      /\ NoDuplicates(Append(cq[d], p))
  BY <1>1, AppendKeeps DEF Sends
<1>3. \A e \in Procs : n[e] = IF e = d THEN Append(cq[d], p) ELSE cq[e]
  BY DEF Callerq
<1> HIDE DEF n
<1>4. \A e, r \in Procs : InQueue(n[e], r) <=> InQueue(cq[e], r) \/ (e = d /\ r = p)
  <2> TAKE e, r \in Procs
  <2>1. CASE e = d
    <3>1. n[e] = Append(cq[d], p)
      BY <1>3, <2>1
    <3>2. InQueue(n[e], r) <=> InQueue(cq[d], r) \/ r = p
      BY <1>2, <3>1
    <3> QED BY <2>1, <3>2
  <2>2. CASE e # d
    <3>1. n[e] = cq[e]
      BY <1>3, <2>2
    <3> QED BY <2>2, <3>1
  <2> QED BY <2>1, <2>2
<1>5. \A e \in Procs : ~InQueue(cq[e], p)
  BY DEF Sends
<1>6. \A e \in Procs : NoDuplicates(n[e])
  BY <1>2, <1>3 DEF Sends
<1>7. \A u \in Users : n[u] = <<>>
  BY <1>3, Numbers DEF Sends
<1>8. \A e, f, r \in Procs : InQueue(n[e], r) /\ InQueue(n[f], r) => e = f
  BY <1>4, <1>5 DEF Sends
<1>9. \A r \in Procs : r \in S \cup {p} <=> \E e \in Procs : InQueue(n[e], r)
  BY <1>4 DEF Sends
<1>10. \A r, e \in Procs : ~(InQueue(n[e], r) /\ InQueue(n[r], e))
  <2> TAKE r, e \in Procs
  <2>1. ~(InQueue(cq[e], r) /\ InQueue(cq[r], e))
    BY DEF Sends
  <2>2. /\ InQueue(n[e], r) <=> InQueue(cq[e], r) \/ (e = d /\ r = p)
        /\ InQueue(n[r], e) <=> InQueue(cq[r], e) \/ (r = d /\ e = p)
    BY <1>4
  <2> QED BY <2>1, <2>2
<1> QED BY <1>6, <1>7, <1>8, <1>9, <1>10 DEF Sends, n

LEMMA SendsLess ==
  ASSUME NEW cq \in Callerq, NEW n \in Callerq, NEW S, Sends(cq, S), NEW p \in Procs,
         \A d \in Procs : NoDuplicates(n[d]),
         \A d, r \in Procs : InQueue(n[d], r) <=> InQueue(cq[d], r) /\ r # p
  PROVE  Sends(n, S \ {p})
<1>1. \A u \in Users : n[u] = <<>>
  <2> TAKE u \in Users
  <2>1. u \in Procs /\ cq[u] = <<>> /\ n[u] \in Seq(Procs)
    BY Numbers DEF Sends, Callerq
  <2> SUFFICES ASSUME n[u] # <<>> PROVE FALSE
    OBVIOUS
  <2>2. InQueue(n[u], Head(n[u])) /\ Head(n[u]) \in Procs
    BY <2>1, HeadIn
  <2> QED BY <2>1, <2>2, EmptyQueue
<1>2. \A r \in Procs : r \in S \ {p} <=> \E e \in Procs : InQueue(n[e], r)
  BY DEF Sends
<1>3. \A e, f, r \in Procs : InQueue(n[e], r) /\ InQueue(n[f], r) => e = f
  BY DEF Sends
<1>4. \A r, e \in Procs : ~(InQueue(n[e], r) /\ InQueue(n[r], e))
  BY DEF Sends
<1> QED BY <1>1, <1>2, <1>3, <1>4 DEF Sends

LEMMA SendsDequeue ==
  ASSUME NEW cq \in Callerq, NEW S, Sends(cq, S), NEW d \in Procs, NEW p \in Procs,
         InQueue(cq[d], p)
  PROVE  Sends([cq EXCEPT ![d] = Dequeue(@, p)], S \ {p})
<1> DEFINE n == [cq EXCEPT ![d] = Dequeue(cq[d], p)]
<1>1. cq[d] \in Seq(Procs) /\ Dequeue(cq[d], p) \in Seq(Procs)
  BY DequeueType DEF Callerq
<1>2. /\ n \in Callerq
      /\ \A e \in Procs : n[e] = IF e = d THEN Dequeue(cq[d], p) ELSE cq[e]
  BY <1>1 DEF Callerq
<1>3. /\ NoDuplicates(Dequeue(cq[d], p))
      /\ \A r : InQueue(Dequeue(cq[d], p), r) <=> InQueue(cq[d], r) /\ r # p
  BY <1>1, DequeueKeeps DEF Sends
<1> HIDE DEF n
<1>4. \A e \in Procs : NoDuplicates(n[e])
  BY <1>2, <1>3 DEF Sends
<1>5. \A e, r \in Procs : InQueue(n[e], r) <=> InQueue(cq[e], r) /\ r # p
  BY <1>2, <1>3 DEF Sends
<1>6. Sends(n, S \ {p})
  BY <1>2, <1>4, <1>5, SendsLess
<1> QED BY <1>6 DEF n

LEMMA SendsUnlink ==
  ASSUME NEW cq \in Callerq, NEW S, Sends(cq, S), NEW p \in Procs
  PROVE  Sends([d \in Procs |-> Dequeue(cq[d], p)], S \ {p})
<1> DEFINE n == [d \in Procs |-> Dequeue(cq[d], p)]
<1>1. \A d \in Procs : /\ cq[d] \in Seq(Procs) /\ n[d] \in Seq(Procs)
                       /\ NoDuplicates(n[d])
                       /\ \A r : InQueue(n[d], r) <=> InQueue(cq[d], r) /\ r # p
  BY DequeueType, DequeueKeeps DEF Callerq, Sends
<1>2. n \in Callerq
  BY <1>1 DEF Callerq
<1> HIDE DEF n
<1>3. Sends(n, S \ {p})
  BY <1>1, <1>2, SendsLess
<1> QED BY <1>3 DEF n

-----------------------------------------------------------------------------
(* What is kept *)

FlagsKept(x) ==
  /\ \A p \in Tasks \cup Servers : x.flags[p] \subseteq {"SENDING", "RECEIVING"}
  /\ \A p \in Procs \ Live : x.flags[p] = {}
  /\ \A u \in Users : "P_SLOT_FREE" \in x.flags[u] => x.flags[u] = {"P_SLOT_FREE"}
  /\ \A p \in Procs : {"SENDING", "RECEIVING"} \subseteq x.flags[p] => x.getfrom[p] # ANY

(* P and G are the processes with PENDING and with SIG_PENDING. *)
Books(pending, pendcount, sigProcs, P, G) ==
  /\ \A u \in Users : /\ u \in P <=> pending[u] # {}
                      /\ u \in G <=> pendcount[u] > 0
                      /\ pendcount[u] >= Cardinality(pending[u])
  /\ \A p \in Procs \ Users : pending[p] = {}
  /\ sigProcs = Cardinality({p \in Procs : pending[p] # {}})

TableKept(x) ==
  /\ Sends(x.callerq, With(x, "SENDING"))
  /\ FlagsKept(x)
  /\ Books(x.pending, x.pendcount, x.sigProcs, With(x, "PENDING"), With(x, "SIG_PENDING"))

Kept(x) == x \in Kernel /\ Runs(x, RunSet(x)) /\ TableKept(x)

(* The fields that Kept is about, next to the queues *)
SameFields(x, y) ==
  /\ y.flags = x.flags /\ y.getfrom = x.getfrom /\ y.callerq = x.callerq
  /\ y.pending = x.pending /\ y.pendcount = x.pendcount /\ y.sigProcs = x.sigProcs

LEMMA SameKept ==
  ASSUME NEW x, NEW y, SameFields(x, y)
  PROVE  (TableKept(x) => TableKept(y)) /\ RunSet(y) = RunSet(x)
BY DEF SameFields, TableKept, FlagsKept, With, RunSet

LEMMA TableFields ==
  ASSUME NEW x, NEW y, SameTable(x, y)
  PROVE  SameFields(x, y) /\ y.shadow = x.shadow
BY DEF SameTable, SameFields

(* Changes outside those fields, the queues and p_shadow *)
LEMMA OtherKept ==
  ASSUME NEW x, NEW y \in Kernel, Kept(x), SameFields(x, y),
         y.rdy = x.rdy, y.cur = x.cur, y.shadow = x.shadow
  PROVE  Kept(y)
BY FrameKeeps, SameKept DEF Kept

LEMMA PickKept == ASSUME NEW x, Kept(x) PROVE Kept(pick_proc(x))
<1>1. SameFields(x, pick_proc(x))
  BY PickSame, TableFields DEF Kept
<1> QED BY <1>1, SameKept, PickType, PickKeeps DEF Kept, Runs

LEMMA SchedKept == ASSUME NEW x, Kept(x) PROVE Kept(sched(x))
<1>1. SameFields(x, sched(x))
  BY SchedKeeps, TableFields DEF Kept
<1> QED BY <1>1, SameKept, SchedType, SchedKeeps DEF Kept

-----------------------------------------------------------------------------
(* Changes of one process's flags *)

SameButFlags(x, z) ==
  /\ z.getfrom = x.getfrom /\ z.callerq = x.callerq
  /\ z.pending = x.pending /\ z.pendcount = x.pendcount /\ z.sigProcs = x.sigProcs

LEMMA SendingIsLive ==
  ASSUME NEW x, FlagsKept(x), NEW p \in Procs, x.flags[p] # {} PROVE p \in Live
BY DEF FlagsKept

LEMMA WokenTable ==
  ASSUME NEW x, NEW z, TableKept(x), NEW p \in Procs, SameButFlags(x, z),
         \A r \in Procs : z.flags[r] = IF r = p THEN x.flags[p] \ {"RECEIVING"} ELSE x.flags[r]
  PROVE  TableKept(z)
<1>1. \A f \in {"SENDING", "PENDING", "SIG_PENDING"} : With(z, f) = With(x, f)
  BY DEF With
<1>2. FlagsKept(z)
  <2>1. \A r \in Procs : z.flags[r] \subseteq x.flags[r]
    OBVIOUS
  <2>2. \A u \in Users : "P_SLOT_FREE" \in z.flags[u] => z.flags[u] = {"P_SLOT_FREE"}
    BY Numbers DEF TableKept, FlagsKept
  <2> QED BY <2>1, <2>2, Numbers DEF TableKept, FlagsKept, SameButFlags, Live
<1> QED BY <1>1, <1>2 DEF TableKept, SameButFlags

LEMMA WakeKept ==
  ASSUME NEW x, Kept(x), NEW p \in Live, "RECEIVING" \in x.flags[p]
  PROVE  Kept(Unblock(x, p, {"RECEIVING"}))
<1> DEFINE y == Unblock(x, p, {"RECEIVING"})
           z == [x EXCEPT !.flags[p] = x.flags[p] \ {"RECEIVING"}]
<1>1. x \in Kernel /\ p \in Procs
  BY LiveProcs DEF Kept
<1>2. y \in Kernel /\ Runs(y, RunSet(y)) /\ SameTable(z, y)
  BY <1>1, UnblockKeeps DEF Kept
<1>3. /\ SameButFlags(x, z)
      /\ \A r \in Procs : z.flags[r] = IF r = p THEN x.flags[p] \ {"RECEIVING"} ELSE x.flags[r]
  BY <1>1 DEF Kernel, SameButFlags
<1> HIDE DEF y, z
<1>4. TableKept(z)
  BY <1>1, <1>3, WokenTable DEF Kept
<1>5. TableKept(y)
  BY <1>2, <1>4, SameKept, TableFields
<1> QED BY <1>2, <1>5 DEF Kept, y

-----------------------------------------------------------------------------
(* Messages: who waits for whom *)

LEMMA Hardware == HARDWARE \in Procs /\ HARDWARE \notin Live /\ IDLE \notin Live
                  /\ HARDWARE # ANY /\ ANY \notin Procs /\ MM_PROC_NR \in Live
BY TasksAssumption, ProcsAssumption
   DEF Procs, Live, Servers, Users, HARDWARE, IDLE, ANY, MM_PROC_NR, FS_PROC_NR, LOW_USER

LEMMA CpMessSame ==
  ASSUME NEW x \in Kernel, NEW p \in Procs, NEW d \in Procs
  PROVE  LET y == cp_mess(x, p, d)
         IN  /\ y \in Kernel /\ SameFields(x, y)
             /\ y.rdy = x.rdy /\ y.cur = x.cur /\ y.shadow = x.shadow
<1>1. cp_mess(x, p, d) \in Kernel
  BY CpMessType
<1> QED BY <1>1 DEF cp_mess, SameFields, Kernel

(* A message for a process that waits for it *)
LEMMA HandKept ==
  ASSUME NEW x, Kept(x), NEW p \in Procs, NEW d \in Live, "RECEIVING" \in x.flags[d]
  PROVE  Kept(Unblock(cp_mess(x, p, d), d, {"RECEIVING"}))
<1> DEFINE y == cp_mess(x, p, d)
<1>1. x \in Kernel /\ d \in Procs
  BY LiveProcs DEF Kept
<1>2. /\ y \in Kernel /\ SameFields(x, y)
      /\ y.rdy = x.rdy /\ y.cur = x.cur /\ y.shadow = x.shadow
  BY <1>1, CpMessSame
<1> HIDE DEF y
<1>3. Kept(y) /\ "RECEIVING" \in y.flags[d]
  BY <1>2, OtherKept DEF SameFields
<1> QED BY <1>3, WakeKept DEF y

(* A sender that has to wait *)
LEMMA WaitKept ==
  ASSUME NEW x, Kept(x), NEW p \in Live, NEW d \in Live \ Users,
         x.flags[p] = {}, p # d, ~InQueue(x.callerq[p], d)
  PROVE  LET k1 == Block(x, p, {"SENDING"})
             y  == [k1 EXCEPT !.callerq[d] = Append(@, p)]
         IN  Kept(y) /\ y.flags[p] = {"SENDING"}
<1> DEFINE k1 == Block(x, p, {"SENDING"})
           y  == [k1 EXCEPT !.callerq[d] = Append(k1.callerq[d], p)]
<1>1. x \in Kernel /\ p \in Procs /\ d \in Procs \ Users
  BY LiveProcs DEF Kept
<1>2. /\ k1 \in Kernel /\ Runs(k1, RunSet(k1))
      /\ SameTable([x EXCEPT !.flags[p] = x.flags[p] \cup {"SENDING"}], k1)
  BY <1>1, BlockKeeps DEF Kept, Flag
<1> HIDE DEF k1
<1>3. /\ SameButFlags(x, k1)
      /\ \A r \in Procs : k1.flags[r] = IF r = p THEN {"SENDING"} ELSE x.flags[r]
  BY <1>1, <1>2 DEF Kernel, SameTable, SameButFlags
<1>4. y \in Kernel
  <2>1. Append(k1.callerq[d], p) \in Seq(Procs)
    BY <1>1, <1>2, AppendProperties DEF Kernel
  <2> QED BY <1>1, <1>2, <2>1 DEF Kernel
<1>5. /\ y.rdy = k1.rdy /\ y.cur = k1.cur /\ y.shadow = k1.shadow /\ y.flags = k1.flags
      /\ y.getfrom = x.getfrom /\ y.pending = x.pending /\ y.pendcount = x.pendcount
      /\ y.sigProcs = x.sigProcs
      /\ y.callerq = [x.callerq EXCEPT ![d] = Append(@, p)]
  BY <1>2, <1>3 DEF Kernel, SameButFlags
<1> HIDE DEF y
<1>6. Runs(y, RunSet(y))
  <2>1. RunSet(y) = RunSet(k1)
    BY <1>5 DEF RunSet
  <2> QED BY <1>2, <1>4, <1>5, <2>1, FrameKeeps
<1>7. Sends(y.callerq, With(y, "SENDING"))
  <2>1. With(y, "SENDING") = With(x, "SENDING") \cup {p} /\ p \notin With(x, "SENDING")
    BY <1>1, <1>3, <1>5 DEF With
  <2>2. x.callerq \in Callerq
    BY <1>1 DEF Kernel, Callerq
  <2>3. Sends(x.callerq, With(x, "SENDING"))
    BY DEF Kept, TableKept
  <2>4. Sends([x.callerq EXCEPT ![d] = Append(@, p)], With(x, "SENDING") \cup {p})
    BY <1>1, <2>1, <2>2, <2>3, SendsAppend
  <2> QED BY <1>5, <2>1, <2>4
<1>8. With(y, "PENDING") = With(x, "PENDING") /\ With(y, "SIG_PENDING") = With(x, "SIG_PENDING")
  BY <1>3, <1>5 DEF With
<1>9. FlagsKept(y)
  BY <1>1, <1>3, <1>5, Numbers DEF Kept, TableKept, FlagsKept
<1> QED BY <1>1, <1>3, <1>4, <1>5, <1>6, <1>7, <1>8, <1>9 DEF Kept, TableKept, y, k1

(***************************************************************************)
(* mini_send(): the caller is runnable, or the destination takes the       *)
(* message or is no process any more.                                      *)
(***************************************************************************)
LEMMA SendKept ==
  ASSUME NEW x, Kept(x), NEW p \in Procs, NEW d \in Live,
         \/ p \in Live /\ x.flags[p] = {} /\ p # d /\ d \notin Users
         \/ Accepts(x, d, p)
         \/ "P_SLOT_FREE" \in x.flags[d]
  PROVE  Kept(mini_send(x, p, d))
<1>1. CASE SendResult(x, p, d) # "OK"
  BY <1>1 DEF mini_send
<1>2. CASE SendResult(x, p, d) = "OK" /\ Accepts(x, d, p)
  BY <1>2, HandKept DEF mini_send, Accepts
<1>3. CASE SendResult(x, p, d) = "OK" /\ ~Accepts(x, d, p)
  <2>1. "P_SLOT_FREE" \notin x.flags[d] /\ ~("SENDING" \in x.flags[d] /\ InQueue(x.callerq[p], d))
    BY <1>3 DEF SendResult
  <2>2. p \in Live /\ x.flags[p] = {} /\ p # d /\ d \notin Users
    BY <1>3, <2>1
  <2>3. InQueue(x.callerq[p], d) => "SENDING" \in x.flags[d]
    BY LiveProcs DEF Kept, TableKept, Sends, With
  <2> QED BY <1>3, <2>1, <2>2, <2>3, WaitKept DEF mini_send
<1> QED BY <1>1, <1>2, <1>3

(* What the caller's flags are after a mini_send() of its own *)
LEMMA SenderFlags ==
  ASSUME NEW x, Kept(x), NEW p \in Live, NEW d \in Live, x.flags[p] = {}, p # d, d \notin Users
  PROVE  mini_send(x, p, d).flags[p] \subseteq {"SENDING"}
<1>1. x \in Kernel /\ p \in Procs /\ d \in Procs
  BY LiveProcs DEF Kept
<1>2. CASE SendResult(x, p, d) # "OK"
  BY <1>2 DEF mini_send
<1>3. CASE SendResult(x, p, d) = "OK" /\ Accepts(x, d, p)
  <2> DEFINE y == cp_mess(x, p, d)
             z == Unblock(y, d, {"RECEIVING"})
  <2>1. /\ y \in Kernel /\ SameFields(x, y)
        /\ y.rdy = x.rdy /\ y.cur = x.cur /\ y.shadow = x.shadow
    BY <1>1, CpMessSame
  <2> HIDE DEF y
  <2>2. Kept(y) /\ y.flags = x.flags
    BY <2>1, OtherKept DEF SameFields
  <2>3. y.flags[d] \cap {"RECEIVING"} # {}
    BY <1>3, <2>2 DEF Accepts
  <2>4. SameTable([y EXCEPT !.flags[d] = @ \ {"RECEIVING"}], z)
    BY <2>2, <2>3, UnblockKeeps DEF Kept
  <2> HIDE DEF z
  <2>5. z.flags[p] = x.flags[p]
    BY <1>1, <2>1, <2>2, <2>4 DEF SameTable, Kernel
  <2> QED BY <1>3, <2>5 DEF mini_send, y, z
<1>4. CASE SendResult(x, p, d) = "OK" /\ ~Accepts(x, d, p)
  <2>1. ~("SENDING" \in x.flags[d] /\ InQueue(x.callerq[p], d))
    BY <1>4 DEF SendResult
  <2>2. InQueue(x.callerq[p], d) => "SENDING" \in x.flags[d]
    BY <1>1 DEF Kept, TableKept, Sends, With
  <2> QED BY <1>4, <2>1, <2>2, WaitKept DEF mini_send
<1> QED BY <1>2, <1>3, <1>4

LEMMA InterruptedKept ==
  ASSUME NEW x, Kept(x), NEW t \in Tasks PROVE Kept(interrupt(x, t))
<1>1. x \in Kernel /\ t \in Procs /\ t \in Live
  BY Numbers DEF Kept, Live
<1>2. CASE ~Accepts(x, t, HARDWARE)
  <2> DEFINE y == [x EXCEPT !.intBlocked = x.intBlocked \cup {t}]
  <2>1. /\ y \in Kernel /\ SameFields(x, y)
        /\ y.rdy = x.rdy /\ y.cur = x.cur /\ y.shadow = x.shadow
    BY <1>1 DEF Kernel, SameFields
  <2>2. interrupt(x, t) = y
    BY <1>2 DEF interrupt
  <2> HIDE DEF y
  <2> QED BY <2>1, <2>2, OtherKept
<1>3. CASE Accepts(x, t, HARDWARE)
  <2> DEFINE m == [m_source |-> HARDWARE, m_type |-> "HARD_INT"]
             y == [x EXCEPT !.mess[t] = m, !.intBlocked = x.intBlocked \ {t}]
             z == [y EXCEPT !.flags[t] = y.flags[t] \ {"RECEIVING"}]
  <2>1. m \in Message
    BY Numbers DEF Message, MTypes
  <2>2. /\ y \in Kernel /\ SameFields(x, y)
        /\ y.rdy = x.rdy /\ y.cur = x.cur /\ y.shadow = x.shadow
    <3> HIDE DEF m
    <3> QED BY <1>1, <2>1 DEF Kernel, SameFields
  <2>3. interrupt(x, t) = [z EXCEPT !.rdy[TASK_Q] = Append(@, t)]
    BY <1>1, <1>3 DEF interrupt, Kernel
  <2> HIDE DEF y
  <2>4. Kept(y) /\ "RECEIVING" \in y.flags[t]
    BY <1>3, <2>2, OtherKept DEF Accepts, SameFields
  <2>5. Kept(Unblock(y, t, {"RECEIVING"}))
    BY <1>1, <2>4, WakeKept
  <2>6. y.flags[t] \ {"RECEIVING"} = {}
    <3>1. "SENDING" \notin y.flags[t]
      BY <1>3, <2>2 DEF Accepts, SameFields
    <3> QED BY <2>4, <3>1 DEF Kept, TableKept, FlagsKept
  <2>7. z.flags[t] = {} /\ z.rdy = y.rdy
    BY <1>1, <2>2, <2>6 DEF Kernel
  <2>8. Queue(z, t) = TASK_Q
    BY TasksAssumption DEF Queue
  <2> HIDE DEF z
  <2>9. Unblock(y, t, {"RECEIVING"}) = ready(z, t)
    BY <2>7 DEF Unblock, z
  <2>10. ready(z, t) = [z EXCEPT !.rdy[TASK_Q] = Append(@, t)]
    BY <2>8 DEF ready
  <2> QED BY <2>3, <2>5, <2>9, <2>10
<1> QED BY <1>2, <1>3

-----------------------------------------------------------------------------
(* The books of the signals *)

Pending   == [Procs -> SUBSET Sigs]
Pendcount == [Procs -> Nat]
Signalled(pending) == {p \in Procs : pending[p] # {}}

LEMMA FiniteSets ==
  /\ IsFiniteSet(Procs)
  /\ \A S : S \subseteq Procs => IsFiniteSet(S) /\ Cardinality(S) \in Nat
  /\ \A S : S \subseteq Sigs => /\ IsFiniteSet(S) /\ Cardinality(S) \in Nat
                                /\ Cardinality(S) = 0 <=> S = {}
<1>1. \A a, b \in Int : IsFiniteSet(a .. b)
  BY FS_Interval
<1>2. \A S, T : IsFiniteSet(S) /\ T \subseteq S => IsFiniteSet(T)
  BY FS_Subset
<1>3. Procs \subseteq (-9 .. (NR_PROCS + 2))
  BY TasksAssumption, ProcsAssumption
     DEF Procs, Servers, Users, HARDWARE, IDLE, MM_PROC_NR, FS_PROC_NR, LOW_USER
<1>4. IsFiniteSet(Procs)
  <2> DEFINE a == -9
             b == NR_PROCS + 2
  <2>1. a \in Int /\ b \in Int /\ Procs \subseteq a .. b
    BY <1>3, ProcsAssumption
  <2> HIDE DEF a, b
  <2> QED BY <1>1, <1>2, <2>1
<1>5. IsFiniteSet(Sigs)
  <2> DEFINE a == 1
             b == 16
  <2>1. a \in Int /\ b \in Int /\ Sigs \subseteq a .. b
    BY SigsAssumption
  <2> HIDE DEF a, b
  <2> QED BY <1>1, <1>2, <2>1
<1> QED BY <1>2, <1>4, <1>5, FS_CardinalityType, FS_EmptySet

(* A signal of u is done. *)
LEMMA BooksDone ==
  ASSUME NEW pd \in Pending, NEW ct \in Pendcount, NEW n, NEW P, NEW G,
         Books(pd, ct, n, P, G), NEW u \in Users, ct[u] > Cardinality(pd[u])
  PROVE  Books(pd, [ct EXCEPT ![u] = @ - 1], n, P, IF ct[u] = 1 THEN G \ {u} ELSE G)
<1> DEFINE c == [ct EXCEPT ![u] = ct[u] - 1]
           H == IF ct[u] = 1 THEN G \ {u} ELSE G
<1>1. u \in Procs /\ ct[u] \in Nat /\ Cardinality(pd[u]) \in Nat
  BY Numbers, FiniteSets DEF Pending, Pendcount
<1>2. \A v \in Users : c[v] = IF v = u THEN ct[u] - 1 ELSE ct[v]
  BY <1>1, Numbers DEF Pendcount
<1> HIDE DEF c
<1>3. ASSUME NEW v \in Users
      PROVE  (v \in H <=> c[v] > 0) /\ c[v] >= Cardinality(pd[v])
  <2>1. CASE v = u
    BY <1>1, <1>2, <2>1 DEF Books
  <2>2. CASE v # u
    BY <1>2, <2>2 DEF Books
  <2> QED BY <2>1, <2>2
<1> QED BY <1>3 DEF Books, c

(* MM has been told of u's signals. *)
LEMMA BooksTold ==
  ASSUME NEW pd \in Pending, NEW ct \in Pendcount, NEW n, NEW P, NEW G,
         Books(pd, ct, n, P, G), NEW u \in Users, u \in P
  PROVE  /\ Books([pd EXCEPT ![u] = {}], ct, n - 1, P \ {u}, G)
         /\ ct[u] >= Cardinality(pd[u]) /\ ct[u] > 0 /\ u \in G /\ n > 0
<1> DEFINE d == [pd EXCEPT ![u] = {}]
<1>1. u \in Procs /\ ct[u] \in Nat /\ Cardinality(pd[u]) \in Nat /\ pd[u] # {} /\ pd[u] \subseteq Sigs
  BY Numbers, FiniteSets DEF Pending, Pendcount, Books
<1>2. ct[u] >= Cardinality(pd[u]) /\ ct[u] > 0 /\ u \in G
  BY <1>1, FiniteSets DEF Books
<1>3. \A v \in Procs : d[v] = IF v = u THEN {} ELSE pd[v]
  BY <1>1 DEF Pending
<1>4. Cardinality({}) = 0
  BY FS_EmptySet
<1> HIDE DEF d
<1>5. Signalled(d) = Signalled(pd) \ {u} /\ u \in Signalled(pd)
  BY <1>1, <1>3 DEF Signalled
<1>6. IsFiniteSet(Signalled(pd)) /\ Cardinality(Signalled(pd)) \in Nat
  BY FiniteSets DEF Signalled
<1>7. Cardinality(Signalled(d)) = Cardinality(Signalled(pd)) - 1 /\ Cardinality(Signalled(d)) \in Nat
  <2>1. Cardinality(Signalled(d)) \in Nat
    BY FiniteSets DEF Signalled
  <2> QED BY <1>5, <1>6, <2>1, FS_RemoveElement
<1>8. n = Cardinality(Signalled(pd)) /\ n - 1 = Cardinality(Signalled(d)) /\ n > 0
  BY <1>6, <1>7 DEF Books, Signalled
<1>9. ASSUME NEW v \in Users
      PROVE  (v \in P \ {u} <=> d[v] # {}) /\ ct[v] >= Cardinality(d[v])
  <2>1. v \in Procs
    BY Numbers
  <2>2. CASE v = u
    BY <1>1, <1>3, <1>4, <2>1, <2>2
  <2>3. CASE v # u
    BY <1>3, <2>1, <2>3 DEF Books
  <2> QED BY <2>2, <2>3
<1>10. \A p \in Procs \ Users : d[p] = {}
  BY <1>3 DEF Books
<1>11. Books(d, ct, n - 1, P \ {u}, G)
  BY <1>8, <1>9, <1>10 DEF Books, Signalled
<1> QED BY <1>2, <1>8, <1>11 DEF d

(* u is signalled. *)
LEMMA BooksRaise ==
  ASSUME NEW pd \in Pending, NEW ct \in Pendcount, NEW n, NEW P, NEW G,
         Books(pd, ct, n, P, G), NEW u \in Users, NEW sig \in Sigs, sig \notin pd[u]
  PROVE  Books([pd EXCEPT ![u] = @ \cup {sig}], [ct EXCEPT ![u] = @ + 1],
               IF u \in P THEN n ELSE n + 1, P \cup {u}, G \cup {u})
<1> DEFINE d == [pd EXCEPT ![u] = pd[u] \cup {sig}]
           c == [ct EXCEPT ![u] = ct[u] + 1]
           m == IF u \in P THEN n ELSE n + 1
<1>1. u \in Procs /\ ct[u] \in Nat /\ Cardinality(pd[u]) \in Nat /\ IsFiniteSet(pd[u])
  BY Numbers, FiniteSets DEF Pending, Pendcount
<1>2. /\ \A v \in Procs : d[v] = IF v = u THEN pd[u] \cup {sig} ELSE pd[v]
      /\ \A v \in Procs : c[v] = IF v = u THEN ct[u] + 1 ELSE ct[v]
  BY <1>1 DEF Pending, Pendcount
<1> HIDE DEF d, c
<1>3. Cardinality(pd[u] \cup {sig}) = Cardinality(pd[u]) + 1
  BY <1>1, FS_AddElement
<1>4. ASSUME NEW v \in Users
      PROVE  /\ v \in P \cup {u} <=> d[v] # {}
             /\ v \in G \cup {u} <=> c[v] > 0
             /\ c[v] >= Cardinality(d[v])
  <2>1. v \in Procs
    BY Numbers
  <2>2. CASE v = u
    BY <1>1, <1>2, <1>3, <2>1, <2>2 DEF Books
  <2>3. CASE v # u
    BY <1>2, <2>1, <2>3 DEF Books
  <2> QED BY <2>2, <2>3
<1>5. Signalled(d) = Signalled(pd) \cup {u} /\ (u \in Signalled(pd) <=> u \in P)
  BY <1>1, <1>2 DEF Signalled, Books
<1>6. IsFiniteSet(Signalled(pd)) /\ n = Cardinality(Signalled(pd))
  BY FiniteSets DEF Signalled, Books
<1>7. m = Cardinality(Signalled(d))
  BY <1>5, <1>6, FS_AddElement
<1>8. \A p \in Procs \ Users : d[p] = {}
  BY <1>2 DEF Books
<1>9. Books(d, c, m, P \cup {u}, G \cup {u})
  BY <1>4, <1>7, <1>8 DEF Books, Signalled
<1> QED BY <1>9 DEF d, c

(* u is gone. *)
LEMMA BooksFree ==
  ASSUME NEW pd \in Pending, NEW ct \in Pendcount, NEW n, NEW P, NEW G,
         Books(pd, ct, n, P, G), NEW u \in Users
  PROVE  Books([pd EXCEPT ![u] = {}], [ct EXCEPT ![u] = 0],
               IF u \in P THEN n - 1 ELSE n, P \ {u}, G \ {u})
<1> DEFINE d == [pd EXCEPT ![u] = {}]
           c == [ct EXCEPT ![u] = 0]
           m == IF u \in P THEN n - 1 ELSE n
<1>1. u \in Procs
  BY Numbers
<1>2. /\ \A v \in Procs : d[v] = IF v = u THEN {} ELSE pd[v]
      /\ \A v \in Procs : c[v] = IF v = u THEN 0 ELSE ct[v]
  BY <1>1 DEF Pending, Pendcount
<1> HIDE DEF d, c
<1>3. Cardinality({}) = 0
  BY FS_EmptySet
<1>4. ASSUME NEW v \in Users
      PROVE  /\ v \in P \ {u} <=> d[v] # {}
             /\ v \in G \ {u} <=> c[v] > 0
             /\ c[v] >= Cardinality(d[v])
  <2>1. v \in Procs
    BY Numbers
  <2>2. CASE v = u
    BY <1>2, <1>3, <2>1, <2>2
  <2>3. CASE v # u
    BY <1>2, <2>1, <2>3 DEF Books
  <2> QED BY <2>2, <2>3
<1>5. Signalled(d) = Signalled(pd) \ {u} /\ (u \in Signalled(pd) <=> u \in P)
  BY <1>1, <1>2 DEF Signalled, Books
<1>6. IsFiniteSet(Signalled(pd)) /\ n = Cardinality(Signalled(pd))
  BY FiniteSets DEF Signalled, Books
<1>7. m = Cardinality(Signalled(d))
  BY <1>5, <1>6, FS_RemoveElement
<1>8. \A p \in Procs \ Users : d[p] = {}
  BY <1>2 DEF Books
<1>9. Books(d, c, m, P \ {u}, G \ {u})
  BY <1>4, <1>7, <1>8 DEF Books, Signalled
<1> QED BY <1>9 DEF d, c

-----------------------------------------------------------------------------
(* Telling MM of signals *)

LEMMA BookTypes ==
  ASSUME NEW x \in Kernel
  PROVE  x.pending \in Pending /\ x.pendcount \in Pendcount /\ x.callerq \in Callerq
BY DEF Kernel, Pending, Pendcount, Callerq

LEMMA FewerFlags ==
  ASSUME NEW x, NEW z, FlagsKept(x), z.getfrom = x.getfrom,
         \A r \in Procs : z.flags[r] \subseteq x.flags[r]
  PROVE  FlagsKept(z)
<1>1. ASSUME NEW u \in Users, "P_SLOT_FREE" \in z.flags[u]
      PROVE  z.flags[u] = {"P_SLOT_FREE"}
  <2>1. z.flags[u] \subseteq x.flags[u]
    BY Numbers
  <2>2. x.flags[u] = {"P_SLOT_FREE"}
    BY <1>1, <2>1 DEF FlagsKept
  <2> QED BY <1>1, <2>1, <2>2
<1>2. \A r \in Procs : x.flags[r] = {} => z.flags[r] = {}
  OBVIOUS
<1> QED BY <1>1, <1>2, Numbers DEF FlagsKept

LEMMA SigDoneKept ==
  ASSUME NEW x, Kept(x), NEW p \in Users,
         x.pendcount[p] = 0 \/ x.pendcount[p] > Cardinality(x.pending[p])
  PROVE  Kept(SigDone(x, p))
<1> DEFINE y == [x EXCEPT !.pendcount[p] = @ - 1]
<1>1. x \in Kernel /\ p \in Procs /\ p \in Live /\ x.pendcount[p] \in Nat
  BY Numbers DEF Kept, Live, Kernel
<1> SUFFICES ASSUME x.pendcount[p] # 0, x.pendcount[p] > Cardinality(x.pending[p])
             PROVE  Kept(SigDone(x, p))
  BY DEF SigDone
<1>2. /\ y \in Kernel /\ y.rdy = x.rdy /\ y.cur = x.cur /\ y.shadow = x.shadow
      /\ y.flags = x.flags /\ y.getfrom = x.getfrom /\ y.callerq = x.callerq
      /\ y.pending = x.pending /\ y.sigProcs = x.sigProcs
      /\ y.pendcount = [x.pendcount EXCEPT ![p] = @ - 1]
      /\ y.pendcount[p] = x.pendcount[p] - 1
  <2> DEFINE n == x.pendcount[p] - 1
  <2>1. n \in Nat /\ y = [x EXCEPT !.pendcount[p] = n]
    BY <1>1
  <2> HIDE DEF n, y
  <2>2. /\ y \in Kernel /\ y.rdy = x.rdy /\ y.cur = x.cur /\ y.shadow = x.shadow
        /\ y.flags = x.flags /\ y.getfrom = x.getfrom /\ y.callerq = x.callerq
        /\ y.pending = x.pending /\ y.sigProcs = x.sigProcs
        /\ y.pendcount = [x.pendcount EXCEPT ![p] = n]
        /\ y.pendcount[p] = n
    BY <1>1, <2>1 DEF Kernel
  <2> QED BY <2>2 DEF n
<1>3. SigDone(x, p) = IF y.pendcount[p] = 0 THEN Unblock(y, p, {"SIG_PENDING"}) ELSE y
  BY DEF SigDone
<1> HIDE DEF y
<1>4. Books(y.pending, y.pendcount, y.sigProcs, With(x, "PENDING"),
            IF x.pendcount[p] = 1 THEN With(x, "SIG_PENDING") \ {p} ELSE With(x, "SIG_PENDING"))
  <2>1. Books(x.pending, x.pendcount, x.sigProcs, With(x, "PENDING"), With(x, "SIG_PENDING"))
    BY DEF Kept, TableKept
  <2>2. x.pending \in Pending /\ x.pendcount \in Pendcount
    BY <1>1, BookTypes
  <2>3. Books(x.pending, [x.pendcount EXCEPT ![p] = @ - 1], x.sigProcs, With(x, "PENDING"),
              IF x.pendcount[p] = 1 THEN With(x, "SIG_PENDING") \ {p} ELSE With(x, "SIG_PENDING"))
    BY <2>1, <2>2, BooksDone
  <2> QED BY <1>2, <2>3
<1>5. RunSet(y) = RunSet(x) /\ Runs(y, RunSet(y))
  <2>1. RunSet(y) = RunSet(x)
    BY <1>2 DEF RunSet
  <2> QED BY <1>1, <1>2, <2>1, FrameKeeps DEF Kept
<1>6. CASE x.pendcount[p] # 1
  <2>1. y.pendcount[p] # 0
    BY <1>1, <1>2, <1>6
  <2>2. \A f \in {"SENDING", "PENDING", "SIG_PENDING"} : With(y, f) = With(x, f)
    BY <1>2 DEF With
  <2>3. TableKept(y)
    BY <1>2, <1>4, <1>6, <2>2 DEF Kept, TableKept, FlagsKept
  <2> QED BY <1>2, <1>3, <1>5, <2>1, <2>3 DEF Kept
<1>7. CASE x.pendcount[p] = 1
  <2> DEFINE z == [y EXCEPT !.flags[p] = y.flags[p] \ {"SIG_PENDING"}]
             w == Unblock(y, p, {"SIG_PENDING"})
  <2>1. y.pendcount[p] = 0
    BY <1>2, <1>7
  <2>2. "SIG_PENDING" \in x.flags[p]
    BY <1>1, <1>7 DEF Kept, TableKept, Books, With
  <2>3. w \in Kernel /\ Runs(w, RunSet(w)) /\ SameTable(z, w)
    BY <1>1, <1>2, <1>5, <2>2, UnblockKeeps
  <2> HIDE DEF w
  <2>4. /\ SameButFlags(y, w)
        /\ \A r \in Procs : w.flags[r] = IF r = p THEN x.flags[p] \ {"SIG_PENDING"} ELSE x.flags[r]
    <3> DEFINE to == y.flags[p] \ {"SIG_PENDING"}
    <3>1. y.flags \in [Procs -> SUBSET Flag] /\ y \in Kernel
      BY <1>1, <1>2 DEF Kernel
    <3>2. z.flags = [y.flags EXCEPT ![p] = to] /\ SameButFlags(y, z)
      BY <3>1 DEF Kernel, SameButFlags
    <3>3. w.flags = [y.flags EXCEPT ![p] = to] /\ SameButFlags(y, w)
      BY <3>2, <2>3 DEF SameButFlags, SameTable
    <3> QED BY <1>2, <3>1, <3>3
  <2>5. /\ With(w, "SENDING") = With(x, "SENDING") /\ With(w, "PENDING") = With(x, "PENDING")
        /\ With(w, "SIG_PENDING") = With(x, "SIG_PENDING") \ {p}
    BY <2>4 DEF With
  <2>6. FlagsKept(w)
    <3>1. \A r \in Procs : w.flags[r] \subseteq x.flags[r]
      BY <2>4
    <3> QED BY <1>2, <2>4, <3>1, FewerFlags DEF Kept, TableKept, SameButFlags
  <2>7. TableKept(w)
    BY <1>2, <1>4, <1>7, <2>4, <2>5, <2>6 DEF Kept, TableKept, SameButFlags
  <2> QED BY <1>3, <2>1, <2>3, <2>7 DEF Kept, w
<1> QED BY <1>6, <1>7

LEMMA KsigSame ==
  ASSUME NEW x \in Kernel
  PROVE  LET y == Ksig(x)
         IN  /\ y.flags = x.flags /\ y.getfrom = x.getfrom /\ y.callerq = x.callerq
             /\ y.pending = x.pending /\ y.pendcount = x.pendcount
             /\ y.sigProcs = x.sigProcs - 1
             /\ y.rdy = x.rdy /\ y.cur = x.cur /\ y.shadow = x.shadow
<1> DEFINE ms == [p \in Procs |-> IF p \in {SYSTASK, HARDWARE}
                                  THEN [x.mess[p] EXCEPT !.m_type = "KSIG"]
                                  ELSE x.mess[p]]
<1>1. Ksig(x) = [x EXCEPT !.sigProcs = x.sigProcs - 1, !.mess = ms]
  BY DEF Ksig
<1> HIDE DEF ms
<1> QED BY <1>1 DEF Kernel

(***************************************************************************)
(* inform(): MM waits, so the send succeeds; who is told of still has      *)
(* SIG_PENDING, so nobody becomes runnable unseen.                         *)
(***************************************************************************)
LEMMA InformKept ==
  ASSUME NEW x, Kept(x), Accepts(x, MM_PROC_NR, HARDWARE)
  PROVE  Kept(inform(x))
<1> DEFINE F == First(SigPendingProcs(x))
           p == CHOOSE p \in F : TRUE
<1> SUFFICES ASSUME F # {} PROVE Kept(inform(x))
  BY DEF inform
<1>1. /\ x \in Kernel /\ MM_PROC_NR \in Live /\ MM_PROC_NR \in Procs /\ HARDWARE \in Procs
      /\ MM_PROC_NR \in Servers /\ MM_PROC_NR \notin Users
  BY Hardware, Numbers DEF Kept, Servers, Users, MM_PROC_NR, LOW_USER
<1>2. p \in Users /\ "PENDING" \in x.flags[p]
  <2>1. p \in SigPendingProcs(x)
    BY FirstIn
  <2> QED BY <2>1 DEF SigPendingProcs, Kept, TableKept, FlagsKept
<1> HIDE DEF F, p
<1> DEFINE a == Ksig(x)
           b == cp_mess(a, HARDWARE, MM_PROC_NR)
           c == Unblock(b, MM_PROC_NR, {"RECEIVING"})
           d == Told(c, p)
<1>3. a \in Kernel /\ Accepts(a, MM_PROC_NR, HARDWARE) /\ SendResult(a, HARDWARE, MM_PROC_NR) = "OK"
  <2>1. a \in Kernel /\ a.flags = x.flags /\ a.getfrom = x.getfrom
    BY <1>1, KsigType, KsigSame
  <2> HIDE DEF a
  <2>2. Accepts(a, MM_PROC_NR, HARDWARE)
    BY <2>1 DEF Accepts
  <2>3. "P_SLOT_FREE" \notin a.flags[MM_PROC_NR] /\ "SENDING" \notin a.flags[MM_PROC_NR]
    BY <1>1, <2>1, <2>2 DEF Kept, TableKept, FlagsKept, Accepts
  <2>4. ~isuserp(HARDWARE)
    BY DEF isuserp, HARDWARE, LOW_USER
  <2> QED BY <2>1, <2>2, <2>3, <2>4 DEF SendResult
<1>4. mini_send(a, HARDWARE, MM_PROC_NR) = c
  BY <1>3 DEF mini_send
<1>5. /\ b \in Kernel
      /\ b.flags = x.flags /\ b.getfrom = x.getfrom /\ b.callerq = x.callerq
      /\ b.pending = x.pending /\ b.pendcount = x.pendcount
      /\ b.sigProcs = x.sigProcs - 1
      /\ b.rdy = x.rdy /\ b.cur = x.cur /\ b.shadow = x.shadow
  BY <1>1, <1>3, KsigSame, CpMessSame DEF SameFields
<1> HIDE DEF b
<1>6. Runs(b, RunSet(b))
  <2>1. RunSet(b) = RunSet(x)
    BY <1>5 DEF RunSet
  <2> QED BY <1>1, <1>5, <2>1, FrameKeeps DEF Kept
<1>7. c \in Kernel /\ Runs(c, RunSet(c)) /\ SameTable([b EXCEPT !.flags[MM_PROC_NR] = @ \ {"RECEIVING"}], c)
  <2>1. b.flags[MM_PROC_NR] \cap {"RECEIVING"} # {}
    BY <1>5 DEF Accepts
  <2> QED BY <1>1, <1>5, <1>6, <2>1, UnblockKeeps
<1> HIDE DEF c
<1>8. /\ SameButFlags(b, c)
      /\ \A r \in Procs : c.flags[r] = IF r = MM_PROC_NR THEN x.flags[r] \ {"RECEIVING"} ELSE x.flags[r]
  <2> DEFINE w == [b EXCEPT !.flags[MM_PROC_NR] = b.flags[MM_PROC_NR] \ {"RECEIVING"}]
  <2>1. /\ SameButFlags(b, w)
        /\ \A r \in Procs : w.flags[r] = IF r = MM_PROC_NR THEN b.flags[r] \ {"RECEIVING"}
                                                          ELSE b.flags[r]
    BY <1>1, <1>5 DEF Kernel, SameButFlags
  <2>2. SameTable(w, c)
    BY <1>7
  <2> HIDE DEF w
  <2> QED BY <1>5, <2>1, <2>2 DEF SameTable, SameButFlags
<1>9. /\ d \in Kernel /\ d.rdy = c.rdy /\ d.cur = c.cur /\ d.shadow = c.shadow
      /\ d.getfrom = x.getfrom /\ d.callerq = x.callerq
      /\ d.pending = [x.pending EXCEPT ![p] = {}] /\ d.pendcount = x.pendcount
      /\ d.sigProcs = x.sigProcs - 1
      /\ \A r \in Procs : d.flags[r] = IF r = p THEN c.flags[p] \ {"PENDING"} ELSE c.flags[r]
  <2>1. p \in Procs
    BY <1>2, Numbers
  <2> QED BY <1>5, <1>7, <1>8, <2>1 DEF Told, Kernel, SameButFlags
<1> HIDE DEF d
<1>10. /\ With(d, "SENDING") = With(x, "SENDING") /\ With(d, "SIG_PENDING") = With(x, "SIG_PENDING")
       /\ With(d, "PENDING") = With(x, "PENDING") \ {p}
  <2>1. ASSUME NEW r \in Procs
        PROVE  /\ \A f \in {"SENDING", "SIG_PENDING"} : f \in d.flags[r] <=> f \in x.flags[r]
               /\ "PENDING" \in d.flags[r] <=> "PENDING" \in x.flags[r] /\ r # p
    BY <1>8, <1>9
  <2> QED BY <2>1 DEF With
<1>11. /\ Books(d.pending, d.pendcount, d.sigProcs, With(d, "PENDING"), With(d, "SIG_PENDING"))
       /\ x.pendcount[p] > 0 /\ p \in With(x, "SIG_PENDING")
  <2>1. p \in With(x, "PENDING")
    BY <1>2, Numbers DEF With
  <2>2. Books(x.pending, x.pendcount, x.sigProcs, With(x, "PENDING"), With(x, "SIG_PENDING"))
    BY DEF Kept, TableKept
  <2>3. x.pending \in Pending /\ x.pendcount \in Pendcount
    BY <1>1, BookTypes
  <2>4. /\ Books([x.pending EXCEPT ![p] = {}], x.pendcount, x.sigProcs - 1,
                 With(x, "PENDING") \ {p}, With(x, "SIG_PENDING"))
        /\ x.pendcount[p] > 0 /\ p \in With(x, "SIG_PENDING")
    BY <1>2, <2>1, <2>2, <2>3, BooksTold
  <2> QED BY <1>9, <1>10, <2>4
<1>12. FlagsKept(d)
  <2>1. \A r \in Procs : d.flags[r] \subseteq x.flags[r]
    BY <1>8, <1>9
  <2> QED BY <1>9, <2>1, FewerFlags DEF Kept, TableKept
<1>13. Kept(d)
  <2>1. RunSet(d) = RunSet(c)
    <3>1. "SIG_PENDING" \in c.flags[p] /\ "SIG_PENDING" \in d.flags[p]
      BY <1>1, <1>2, <1>8, <1>9, <1>11 DEF With
    <3> QED BY <1>9, <3>1, LiveProcs DEF RunSet
  <2>2. Runs(d, RunSet(d))
    BY <1>7, <1>9, <2>1, FrameKeeps
  <2> QED BY <1>9, <1>10, <1>11, <1>12, <2>2 DEF Kept, TableKept
<1>14. Kept(SigDone(d, p))
  <2>1. d.pending[p] = {} /\ p \in Procs
    BY <1>1, <1>2, <1>9, Numbers DEF Kernel
  <2>2. d.pendcount[p] > Cardinality(d.pending[p])
    BY <1>9, <1>11, <2>1, FS_EmptySet
  <2> QED BY <1>2, <1>13, <2>2, SigDoneKept
<1>15. inform(x) = pick_proc(IF x.pending[p] = {SIGSTKFLT} THEN SigDone(d, p) ELSE d)
  BY <1>4 DEF inform, F, p, d
<1> QED BY <1>13, <1>14, <1>15, PickKept

-----------------------------------------------------------------------------
(* Receiving, and the traps of programs *)

(* p may be blocked in the send of a sendrec(), which names a process. *)
MayReceive(x, p, src) ==
  x.flags[p] \subseteq {"SENDING"} /\ ("SENDING" \in x.flags[p] => src # ANY)

LEMMA AwaitKept ==
  ASSUME NEW x, Kept(x), NEW p \in Live, NEW src \in Procs \cup {ANY}, MayReceive(x, p, src)
  PROVE  Kept(Await(x, p, src))
<1> DEFINE a == [x EXCEPT !.getfrom[p] = src]
           b == Block(a, p, {"RECEIVING"})
<1>1. x \in Kernel /\ p \in Procs
  BY LiveProcs DEF Kept
<1>2. /\ a \in Kernel /\ a.rdy = x.rdy /\ a.cur = x.cur /\ a.shadow = x.shadow
      /\ a.flags = x.flags /\ a.callerq = x.callerq /\ a.pending = x.pending
      /\ a.pendcount = x.pendcount /\ a.sigProcs = x.sigProcs
      /\ a.getfrom = [x.getfrom EXCEPT ![p] = src]
  BY <1>1 DEF Kernel
<1> HIDE DEF a
<1>3. Runs(a, RunSet(a))
  <2>1. RunSet(a) = RunSet(x)
    BY <1>2 DEF RunSet
  <2> QED BY <1>1, <1>2, <2>1, FrameKeeps DEF Kept
<1>4. b \in Kernel /\ Runs(b, RunSet(b)) /\ SameTable([a EXCEPT !.flags[p] = @ \cup {"RECEIVING"}], b)
  BY <1>1, <1>2, <1>3, BlockKeeps DEF Flag
<1> HIDE DEF b
<1>5. /\ SameButFlags(a, b)
      /\ \A r \in Procs : b.flags[r] = IF r = p THEN x.flags[p] \cup {"RECEIVING"} ELSE x.flags[r]
  <2> DEFINE w == [a EXCEPT !.flags[p] = a.flags[p] \cup {"RECEIVING"}]
  <2>1. /\ SameButFlags(a, w)
        /\ \A r \in Procs : w.flags[r] = IF r = p THEN x.flags[p] \cup {"RECEIVING"}
                                                  ELSE x.flags[r]
    BY <1>1, <1>2 DEF Kernel, SameButFlags
  <2>2. SameTable(w, b)
    BY <1>4
  <2> HIDE DEF w
  <2> QED BY <2>1, <2>2 DEF SameTable, SameButFlags
<1>6. \A f \in {"SENDING", "PENDING", "SIG_PENDING"} : With(b, f) = With(x, f)
  BY <1>5 DEF With
<1>7. /\ b.callerq = x.callerq /\ b.pending = x.pending /\ b.pendcount = x.pendcount
      /\ b.sigProcs = x.sigProcs
      /\ \A r \in Procs : b.getfrom[r] = IF r = p THEN src ELSE x.getfrom[r]
  BY <1>1, <1>2, <1>5 DEF SameButFlags, Kernel
<1>8. FlagsKept(b)
  <2>1. \A r \in Tasks \cup Servers : b.flags[r] \subseteq {"SENDING", "RECEIVING"}
    BY <1>5, Numbers DEF Kept, TableKept, FlagsKept
  <2>2. \A r \in Procs \ Live : b.flags[r] = {}
    BY <1>5 DEF Kept, TableKept, FlagsKept
  <2>3. \A u \in Users : "P_SLOT_FREE" \in b.flags[u] => b.flags[u] = {"P_SLOT_FREE"}
    BY <1>5, Numbers DEF Kept, TableKept, FlagsKept, MayReceive
  <2>4. \A r \in Procs : {"SENDING", "RECEIVING"} \subseteq b.flags[r] => b.getfrom[r] # ANY
    BY <1>5, <1>7 DEF Kept, TableKept, FlagsKept, MayReceive
  <2> QED BY <2>1, <2>2, <2>3, <2>4 DEF FlagsKept
<1>9. Kept(b)
  BY <1>4, <1>6, <1>7, <1>8 DEF Kept, TableKept
<1>10. Await(x, p, src) = IF b.sigProcs > 0 /\ p = MM_PROC_NR /\ src = ANY THEN inform(b) ELSE b
  BY DEF Await, a, b
<1>11. ASSUME p = MM_PROC_NR, src = ANY PROVE Accepts(b, MM_PROC_NR, HARDWARE)
  BY <1>1, <1>5, <1>7, <1>11 DEF Accepts, MayReceive
<1> QED BY <1>9, <1>10, <1>11, InformKept

LEMMA TakeKept ==
  ASSUME NEW x, Kept(x), NEW p \in Live, NEW s, InQueue(x.callerq[p], s)
  PROVE  LET k1 == cp_mess(x, s, p)
             k2 == [k1 EXCEPT !.callerq[p] = Dequeue(@, s)]
         IN  Kept(Unblock(k2, s, {"SENDING"}))
<1> DEFINE a == cp_mess(x, s, p)
           b == [a EXCEPT !.callerq[p] = Dequeue(a.callerq[p], s)]
           c == Unblock(b, s, {"SENDING"})
<1>1. x \in Kernel /\ p \in Procs /\ x.callerq[p] \in Seq(Procs) /\ s \in Procs
  BY LiveProcs, InQueueType DEF Kept, Kernel
<1>2. "SENDING" \in x.flags[s] /\ s \in Live
  <2>1. "SENDING" \in x.flags[s]
    BY <1>1 DEF Kept, TableKept, Sends, With
  <2> QED BY <1>1, <2>1, SendingIsLive DEF Kept, TableKept
<1>3. /\ a \in Kernel /\ SameFields(x, a)
      /\ a.rdy = x.rdy /\ a.cur = x.cur /\ a.shadow = x.shadow
  BY <1>1, CpMessSame
<1> HIDE DEF a
<1>4. /\ b \in Kernel /\ b.rdy = x.rdy /\ b.cur = x.cur /\ b.shadow = x.shadow
      /\ b.flags = x.flags /\ b.getfrom = x.getfrom
      /\ b.pending = x.pending /\ b.pendcount = x.pendcount /\ b.sigProcs = x.sigProcs
      /\ b.callerq = [x.callerq EXCEPT ![p] = Dequeue(@, s)]
  <2> DEFINE q == Dequeue(a.callerq[p], s)
  <2>1. q \in Seq(Procs)
    BY <1>1, <1>3, DequeueType DEF Kernel
  <2>2. q = Dequeue(x.callerq[p], s) /\ b = [a EXCEPT !.callerq[p] = q]
    BY <1>3 DEF SameFields
  <2> HIDE DEF q, b
  <2>3. /\ b \in Kernel /\ b.rdy = a.rdy /\ b.cur = a.cur /\ b.shadow = a.shadow
        /\ b.flags = a.flags /\ b.getfrom = a.getfrom
        /\ b.pending = a.pending /\ b.pendcount = a.pendcount /\ b.sigProcs = a.sigProcs
        /\ b.callerq = [a.callerq EXCEPT ![p] = q]
    BY <1>1, <1>3, <2>1, <2>2 DEF Kernel
  <2> QED BY <1>3, <2>2, <2>3 DEF SameFields
<1> HIDE DEF b
<1>5. Runs(b, RunSet(b))
  <2>1. RunSet(b) = RunSet(x)
    BY <1>4 DEF RunSet
  <2> QED BY <1>1, <1>4, <2>1, FrameKeeps DEF Kept
<1>6. c \in Kernel /\ Runs(c, RunSet(c)) /\ SameTable([b EXCEPT !.flags[s] = @ \ {"SENDING"}], c)
  <2>1. b.flags[s] \cap {"SENDING"} # {}
    BY <1>2, <1>4
  <2> QED BY <1>2, <1>4, <1>5, <2>1, UnblockKeeps
<1> HIDE DEF c
<1>7. /\ SameButFlags(b, c)
      /\ \A r \in Procs : c.flags[r] = IF r = s THEN x.flags[s] \ {"SENDING"} ELSE x.flags[r]
  <2> DEFINE w == [b EXCEPT !.flags[s] = b.flags[s] \ {"SENDING"}]
  <2>1. /\ SameButFlags(b, w)
        /\ \A r \in Procs : w.flags[r] = IF r = s THEN x.flags[s] \ {"SENDING"} ELSE x.flags[r]
    BY <1>1, <1>4 DEF Kernel, SameButFlags
  <2>2. SameTable(w, c)
    BY <1>6
  <2> HIDE DEF w
  <2> QED BY <2>1, <2>2 DEF SameTable, SameButFlags
<1>8. /\ With(c, "PENDING") = With(x, "PENDING") /\ With(c, "SIG_PENDING") = With(x, "SIG_PENDING")
      /\ With(c, "SENDING") = With(x, "SENDING") \ {s}
  BY <1>7 DEF With
<1>9. Sends(c.callerq, With(c, "SENDING"))
  <2>1. x.callerq \in Callerq /\ Sends(x.callerq, With(x, "SENDING"))
    BY <1>1, BookTypes DEF Kept, TableKept
  <2>2. Sends([x.callerq EXCEPT ![p] = Dequeue(@, s)], With(x, "SENDING") \ {s})
    BY <1>1, <2>1, SendsDequeue
  <2> QED BY <1>4, <1>7, <1>8, <2>2 DEF SameButFlags
<1>10. FlagsKept(c)
  <2>1. c.getfrom = x.getfrom /\ \A r \in Procs : c.flags[r] \subseteq x.flags[r]
    BY <1>4, <1>7 DEF SameButFlags
  <2> QED BY <2>1, FewerFlags DEF Kept, TableKept
<1>11. Kept(c)
  BY <1>4, <1>6, <1>7, <1>8, <1>9, <1>10 DEF Kept, TableKept, SameButFlags
<1> QED BY <1>11 DEF a, b, c

LEMMA RecKept ==
  ASSUME NEW x, Kept(x), NEW p \in Live, NEW src \in Procs \cup {ANY}, MayReceive(x, p, src)
  PROVE  Kept(mini_rec(x, p, src))
<1> DEFINE q == x.callerq[p]
           sender == IF src = ANY THEN Head(q) ELSE src
           available == "SENDING" \notin x.flags[p]
<1>1. x \in Kernel /\ p \in Procs /\ q \in Seq(Procs)
  BY LiveProcs DEF Kept, Kernel
<1>2. CASE available /\ q # <<>> /\ (src = ANY \/ InQueue(q, src))
  <2>1. InQueue(q, sender)
    BY <1>1, <1>2, HeadIn
  <2> QED BY <1>2, <2>1, TakeKept DEF mini_rec
<1>3. CASE /\ ~(available /\ q # <<>> /\ (src = ANY \/ InQueue(q, src)))
           /\ available /\ p \in x.intBlocked /\ src \in {ANY, HARDWARE}
  <2> DEFINE m == [m_source |-> HARDWARE, m_type |-> "HARD_INT"]
             y == [x EXCEPT !.intBlocked = @ \ {p}, !.mess[p] = m]
  <2>1. m \in Message
    BY Numbers DEF Message, MTypes
  <2>2. /\ y \in Kernel /\ SameFields(x, y)
        /\ y.rdy = x.rdy /\ y.cur = x.cur /\ y.shadow = x.shadow
    <3> HIDE DEF m
    <3> QED BY <1>1, <2>1 DEF Kernel, SameFields
  <2>3. mini_rec(x, p, src) = y
    BY <1>3 DEF mini_rec
  <2> HIDE DEF y
  <2> QED BY <2>2, <2>3, OtherKept
<1>4. CASE /\ ~(available /\ q # <<>> /\ (src = ANY \/ InQueue(q, src)))
           /\ ~(available /\ p \in x.intBlocked /\ src \in {ANY, HARDWARE})
  <2>1. mini_rec(x, p, src) = Await(x, p, src)
    BY <1>4 DEF mini_rec
  <2> QED BY <2>1, AwaitKept
<1> QED BY <1>2, <1>3, <1>4

(***************************************************************************)
(* A trap: what programs do is in CallsAssumption, a reply goes to a       *)
(* process that waits for it or is gone.                                   *)
(***************************************************************************)
LEMMA SysCallKept ==
  ASSUME NEW x, Kept(x), x.cur \in Live, NEW f \in Functions, NEW d \in Procs \cup {ANY},
         NEW m \in Message,
         \/ f = "RECEIVE"
         \/ d \in Tasks \cup Servers /\ d # x.cur
         \/ f = "SEND" /\ d \in Live /\ (Accepts(x, d, x.cur) \/ "P_SLOT_FREE" \in x.flags[d])
  PROVE  Kept(sys_call(x, f, d, m))
<1> DEFINE p == x.cur
           a == [x EXCEPT !.mess[p] = m]
           b == mini_send(a, p, d)
<1>1. x \in Kernel /\ p \in Procs /\ x.flags[p] = {}
  <2>1. p # IDLE
    BY Hardware
  <2> QED BY <2>1, CurRuns, LiveProcs DEF Kept, RunSet
<1>2. /\ a \in Kernel /\ SameFields(x, a)
      /\ a.rdy = x.rdy /\ a.cur = x.cur /\ a.shadow = x.shadow
  BY <1>1 DEF Kernel, SameFields
<1> HIDE DEF a
<1>3. Kept(a) /\ a.flags = x.flags /\ a.getfrom = x.getfrom
  BY <1>2, OtherKept DEF SameFields
<1>4. ASSUME f = "RECEIVE" PROVE Kept(mini_rec(a, p, d))
  <2>1. MayReceive(a, p, d)
    BY <1>1, <1>3 DEF MayReceive
  <2> QED BY <1>3, <2>1, RecKept
<1>5. ASSUME f # "RECEIVE" PROVE Kept(b)
  <2>1. d \in Live
    BY <1>5 DEF Live
  <2>2. \/ d \notin Users /\ d # p
        \/ Accepts(a, d, p)
        \/ "P_SLOT_FREE" \in a.flags[d]
    <3>1. \A r \in Tasks \cup Servers : r \notin Users
      BY TasksAssumption DEF Servers, Users, MM_PROC_NR, FS_PROC_NR, LOW_USER
    <3> QED BY <1>3, <1>5, <3>1 DEF Accepts
  <2> QED BY <1>1, <1>3, <2>1, <2>2, SendKept
<1>6. ASSUME f = "BOTH" PROVE Kept(mini_rec(b, p, d))
  <2>1. d \in Live /\ d # p /\ d \notin Users /\ d # ANY
    <3>1. \A r \in Tasks \cup Servers : r \notin Users /\ r # ANY /\ r \in Live
      BY TasksAssumption, Hardware, Numbers
         DEF Servers, Users, Live, MM_PROC_NR, FS_PROC_NR, LOW_USER
    <3> QED BY <1>6, <3>1
  <2>2. b.flags[p] \subseteq {"SENDING"}
    BY <1>1, <1>3, <2>1, SenderFlags
  <2>3. Kept(b)
    BY <1>5, <1>6
  <2> HIDE DEF b
  <2> QED BY <2>1, <2>2, <2>3, RecKept DEF MayReceive
<1>7. \/ sys_call(x, f, d, m) = a
      \/ f = "RECEIVE" /\ sys_call(x, f, d, m) = mini_rec(a, p, d)
      \/ f # "RECEIVE" /\ sys_call(x, f, d, m) = b
      \/ f = "BOTH" /\ sys_call(x, f, d, m) = mini_rec(b, p, d)
  BY DEF sys_call, Functions, a
<1> QED BY <1>3, <1>4, <1>5, <1>6, <1>7

-----------------------------------------------------------------------------
(* Raising signals *)

LEMMA CauseSigKept ==
  ASSUME NEW x, Kept(x), NEW p \in Users, NEW sig \in Sigs, "P_SLOT_FREE" \notin x.flags[p]
  PROVE  Kept(cause_sig(x, p, sig))
<1> DEFINE P == With(x, "PENDING")
           G == With(x, "SIG_PENDING")
           a == [x EXCEPT !.pending[p] = @ \cup {sig}, !.pendcount[p] = @ + 1]
           b == Block(a, p, {"PENDING", "SIG_PENDING"})
           c == [b EXCEPT !.sigProcs = @ + 1]
<1> SUFFICES ASSUME sig \notin x.pending[p] PROVE Kept(cause_sig(x, p, sig))
  BY DEF cause_sig
<1>1. x \in Kernel /\ p \in Procs /\ p \in Live /\ p # MM_PROC_NR
  BY Numbers DEF Kept, Live, Users, MM_PROC_NR, LOW_USER
<1>2. /\ a \in Kernel /\ a.rdy = x.rdy /\ a.cur = x.cur /\ a.shadow = x.shadow
      /\ a.flags = x.flags /\ a.getfrom = x.getfrom /\ a.callerq = x.callerq
      /\ a.sigProcs = x.sigProcs
      /\ a.pending = [x.pending EXCEPT ![p] = @ \cup {sig}]
      /\ a.pendcount = [x.pendcount EXCEPT ![p] = @ + 1]
  <2> DEFINE s == x.pending[p] \cup {sig}
             n == x.pendcount[p] + 1
  <2>1. s \in SUBSET Sigs /\ n \in Nat /\ a = [x EXCEPT !.pending[p] = s, !.pendcount[p] = n]
    BY <1>1 DEF Kernel
  <2> HIDE DEF s, n, a
  <2>2. /\ a \in Kernel /\ a.rdy = x.rdy /\ a.cur = x.cur /\ a.shadow = x.shadow
        /\ a.flags = x.flags /\ a.getfrom = x.getfrom /\ a.callerq = x.callerq
        /\ a.sigProcs = x.sigProcs
        /\ a.pending = [x.pending EXCEPT ![p] = s]
        /\ a.pendcount = [x.pendcount EXCEPT ![p] = n]
    BY <1>1, <2>1 DEF Kernel
  <2> QED BY <2>2 DEF s, n
<1> HIDE DEF a
<1>3. Books(a.pending, a.pendcount, IF p \in P THEN x.sigProcs ELSE x.sigProcs + 1,
            P \cup {p}, G \cup {p})
  <2>1. Books(x.pending, x.pendcount, x.sigProcs, P, G)
    BY DEF Kept, TableKept
  <2>2. x.pending \in Pending /\ x.pendcount \in Pendcount
    BY <1>1, BookTypes
  <2> HIDE DEF P, G
  <2>3. Books([x.pending EXCEPT ![p] = @ \cup {sig}], [x.pendcount EXCEPT ![p] = @ + 1],
              IF p \in P THEN x.sigProcs ELSE x.sigProcs + 1, P \cup {p}, G \cup {p})
    BY <2>1, <2>2, BooksRaise
  <2> QED BY <1>2, <2>3
<1>4. Runs(a, RunSet(a))
  <2>1. RunSet(a) = RunSet(x)
    BY <1>2 DEF RunSet
  <2> QED BY <1>1, <1>2, <2>1, FrameKeeps DEF Kept
<1>5. CASE "PENDING" \in x.flags[p]
  <2>1. p \in P /\ p \in G
    <3>1. p \in P
      BY <1>1, <1>5 DEF With
    <3> QED BY <1>1, <3>1, BookTypes, BooksTold DEF Kept, TableKept
  <2>2. P \cup {p} = P /\ G \cup {p} = G
    BY <2>1
  <2>3. \A f \in {"SENDING", "PENDING", "SIG_PENDING"} : With(a, f) = With(x, f)
    BY <1>2 DEF With
  <2>4. FlagsKept(a)
    BY <1>2 DEF Kept, TableKept, FlagsKept
  <2>5. Kept(a)
    BY <1>2, <1>3, <1>4, <2>1, <2>2, <2>3, <2>4 DEF Kept, TableKept
  <2>6. cause_sig(x, p, sig) = a
    BY <1>5 DEF cause_sig, a
  <2> QED BY <2>5, <2>6
<1>6. CASE "PENDING" \notin x.flags[p]
  <2>1. b \in Kernel /\ Runs(b, RunSet(b))
        /\ SameTable([a EXCEPT !.flags[p] = @ \cup {"PENDING", "SIG_PENDING"}], b)
    <3>1. {"PENDING", "SIG_PENDING"} \in SUBSET Flag
      BY DEF Flag
    <3> QED BY <1>1, <1>2, <1>4, <3>1, BlockKeeps
  <2> HIDE DEF b
  <2>2. /\ SameButFlags(a, b)
        /\ \A r \in Procs : b.flags[r] = IF r = p THEN x.flags[p] \cup {"PENDING", "SIG_PENDING"}
                                                  ELSE x.flags[r]
    <3> DEFINE w == [a EXCEPT !.flags[p] = a.flags[p] \cup {"PENDING", "SIG_PENDING"}]
    <3>1. /\ SameButFlags(a, w)
          /\ \A r \in Procs : w.flags[r] = IF r = p THEN x.flags[p] \cup {"PENDING", "SIG_PENDING"}
                                                    ELSE x.flags[r]
      BY <1>1, <1>2 DEF Kernel, SameButFlags
    <3>2. SameTable(w, b)
      BY <2>1
    <3> HIDE DEF w
    <3> QED BY <3>1, <3>2 DEF SameTable, SameButFlags
  <2>3. /\ c \in Kernel /\ c.rdy = b.rdy /\ c.cur = b.cur /\ c.shadow = b.shadow
        /\ c.flags = b.flags /\ c.getfrom = x.getfrom /\ c.callerq = x.callerq
        /\ c.pending = a.pending /\ c.pendcount = a.pendcount /\ c.sigProcs = x.sigProcs + 1
    <3> DEFINE n == b.sigProcs + 1
    <3>1. n \in Int /\ n = x.sigProcs + 1 /\ c = [b EXCEPT !.sigProcs = n]
      BY SMTT(30), <1>2, <2>1, <2>2 DEF Kernel, SameButFlags
    <3> HIDE DEF n, c
    <3>2. /\ c \in Kernel /\ c.rdy = b.rdy /\ c.cur = b.cur /\ c.shadow = b.shadow
          /\ c.flags = b.flags /\ c.getfrom = b.getfrom /\ c.callerq = b.callerq
          /\ c.pending = b.pending /\ c.pendcount = b.pendcount /\ c.sigProcs = n
      BY <2>1, <3>1 DEF Kernel
    <3> QED BY <1>2, <2>2, <3>1, <3>2 DEF SameButFlags
  <2> HIDE DEF c
  <2>4. /\ With(c, "SENDING") = With(x, "SENDING")
        /\ With(c, "PENDING") = P \cup {p} /\ With(c, "SIG_PENDING") = G \cup {p}
    BY <1>1, <2>2, <2>3 DEF With
  <2>5. p \notin P
    BY <1>6 DEF With
  <2>6. Books(c.pending, c.pendcount, c.sigProcs, With(c, "PENDING"), With(c, "SIG_PENDING"))
    BY <1>3, <2>3, <2>4, <2>5
  <2>7. FlagsKept(c)
    <3>1. p \notin Tasks \cup Servers
      BY TasksAssumption DEF Users, Servers, MM_PROC_NR, FS_PROC_NR, LOW_USER
    <3>2. \A r \in Tasks \cup Servers : c.flags[r] \subseteq {"SENDING", "RECEIVING"}
      BY <2>2, <2>3, <3>1, Numbers DEF Kept, TableKept, FlagsKept
    <3>3. \A r \in Procs \ Live : c.flags[r] = {}
      BY <1>1, <2>2, <2>3 DEF Kept, TableKept, FlagsKept
    <3>4. \A u \in Users : "P_SLOT_FREE" \in c.flags[u] => c.flags[u] = {"P_SLOT_FREE"}
      BY <2>2, <2>3, Numbers DEF Kept, TableKept, FlagsKept
    <3>5. \A r \in Procs : {"SENDING", "RECEIVING"} \subseteq c.flags[r] => c.getfrom[r] # ANY
      <4>1. \A r \in Procs : {"SENDING", "RECEIVING"} \subseteq c.flags[r] =>
                             {"SENDING", "RECEIVING"} \subseteq x.flags[r]
        BY <2>2, <2>3
      <4> QED BY <2>3, <4>1 DEF Kept, TableKept, FlagsKept
    <3> QED BY <3>2, <3>3, <3>4, <3>5 DEF FlagsKept
  <2>8. Kept(c)
    <3>1. RunSet(c) = RunSet(b)
      BY <2>3 DEF RunSet
    <3>2. Runs(c, RunSet(c))
      BY <2>1, <2>3, <3>1, FrameKeeps
    <3> QED BY <2>3, <2>4, <2>6, <2>7, <3>2 DEF Kept, TableKept
  <2>9. ASSUME "RECEIVING" \in c.flags[MM_PROC_NR], c.getfrom[MM_PROC_NR] = ANY
        PROVE  Kept(inform(c))
    <3>1. "SENDING" \notin c.flags[MM_PROC_NR]
      BY <2>7, <2>9, Numbers DEF FlagsKept
    <3> QED BY <2>8, <2>9, <3>1, InformKept DEF Accepts
  <2>10. cause_sig(x, p, sig) =
           IF "RECEIVING" \in c.flags[MM_PROC_NR] /\ c.getfrom[MM_PROC_NR] = ANY
           THEN inform(c) ELSE c
    BY <1>6 DEF cause_sig, a, b, c
  <2> QED BY <2>8, <2>9, <2>10
<1> QED BY <1>5, <1>6

-----------------------------------------------------------------------------
(* Shadowing *)

(* p is not counted as runnable: it waits, or leaves. *)
LEMMA RmshadowKeeps ==
  ASSUME NEW x \in Kernel, NEW p \in Users, Runs(x, RunSet(x) \ {p})
  PROVE  LET y == rmshadow(x, p)
         IN  y \in Kernel /\ SameFields(x, y) /\ Runs(y, RunSet(x) \ {p})
<1> DEFINE L == RunSet(x) \ {p}
           F == First(Family(x, p))
           q == CHOOSE q \in F : TRUE
           y == rmshadow(x, p)
<1>1. p \in Procs /\ y \in Kernel
  BY Numbers, RmshadowType
<1>2. F # {} => q \in Users /\ q # p
  BY FirstIn DEF Family
<1> HIDE DEF F, q
<1> DEFINE a == IF x.flags[q] = {} THEN unready(x, q) ELSE x
           b == [a EXCEPT !.shadow = a.shadow \ {q}]
           c == IF x.flags[q] = {} THEN ready(b, q) ELSE b
<1>3. \/ p \in x.shadow /\ y = [x EXCEPT !.shadow = @ \ {p}]
      \/ y = x
      \/ F # {} /\ (y = [x EXCEPT !.panic = "no shadow?"] \/ y = [x EXCEPT !.panic = "cannot handle physio shadows"])
      \/ F # {} /\ y = c
  BY DEF rmshadow, F, q
<1>4. CASE y = [x EXCEPT !.shadow = @ \ {p}]
  <2>1. /\ SameFields(x, y) /\ y.rdy = x.rdy /\ y.cur = x.cur
        /\ \A r \in L : r \in y.shadow <=> r \in x.shadow
    <3> HIDE DEF y
    <3> QED BY <1>4 DEF Kernel, SameFields
  <2> QED BY <1>1, <2>1, FrameKeeps
<1>5. CASE y = x
  BY <1>1, <1>5 DEF SameFields
<1>6. CASE \/ y = [x EXCEPT !.panic = "no shadow?"]
           \/ y = [x EXCEPT !.panic = "cannot handle physio shadows"]
  <2>1. SameFields(x, y) /\ y.rdy = x.rdy /\ y.cur = x.cur /\ y.shadow = x.shadow
    <3> HIDE DEF y
    <3> QED BY <1>6 DEF Kernel, SameFields
  <2> QED BY <1>1, <2>1, FrameKeeps
<1>7. CASE F # {} /\ y = c
  <2>1. q \in Users /\ q # p /\ q \in Procs /\ q \in Live
    BY <1>2, <1>7, Numbers DEF Live
  <2>2. (x.flags[q] = {} => q \in L) /\ (x.flags[q] # {} => q \notin L)
    BY <2>1 DEF RunSet
  <2>3. a \in Kernel /\ SameTable(x, a) /\ Runs(a, L \ {q})
    <3>1. CASE x.flags[q] = {}
      BY <2>1, <3>1, UnreadyType, UnreadySame, UnreadyKeeps
    <3>2. CASE x.flags[q] # {}
      <4>1. L \ {q} = L
        BY <2>2, <3>2
      <4> QED BY <3>2, <4>1 DEF SameTable
    <3> QED BY <3>1, <3>2
  <2> HIDE DEF a
  <2>4. /\ b \in Kernel /\ SameFields(a, b) /\ b.rdy = a.rdy /\ b.cur = a.cur
        /\ \A r \in L \ {q} : r \in b.shadow <=> r \in a.shadow
    BY <2>3 DEF Kernel, SameFields
  <2> HIDE DEF b
  <2>5. Runs(b, L \ {q})
    BY <2>3, <2>4, FrameKeeps
  <2>6. SameFields(x, b)
    BY <2>3, <2>4, TableFields DEF SameFields
  <2>7. CASE x.flags[q] = {}
    <3>1. Runs(ready(b, q), (L \ {q}) \cup {q}) /\ SameTable(b, ready(b, q))
      BY <2>1, <2>4, <2>5, ReadyKeeps, ReadySame
    <3>2. (L \ {q}) \cup {q} = L
      BY <2>2, <2>7
    <3>3. SameFields(x, ready(b, q))
      BY <2>6, <3>1, TableFields DEF SameFields
    <3> QED BY <1>1, <1>7, <2>7, <3>1, <3>2, <3>3
  <2>8. CASE x.flags[q] # {}
    <3>1. L \ {q} = L
      BY <2>2, <2>8
    <3> QED BY <1>7, <2>4, <2>5, <2>6, <2>8, <3>1
  <2> QED BY <2>7, <2>8
<1> QED BY <1>3, <1>4, <1>5, <1>6, <1>7

LEMMA FlippedKept ==
  ASSUME NEW x, Kept(x), NEW p \in Users, NEW q \in Users, p # q, p \in RunSet(x)
  PROVE  Kept(Flipped(x, p, q))
<1> DEFINE L == RunSet(x)
           a == unready(x, p)
           b == IF x.flags[q] = {} THEN unready(a, q) ELSE a
           c == [b EXCEPT !.shadow = (b.shadow \ {p}) \cup {q}]
           d == ready(c, p)
           e == IF x.flags[q] = {} THEN ready(d, q) ELSE d
           M == (L \ {p}) \ {q}
<1>1. /\ x \in Kernel /\ Runs(x, L) /\ p \in Procs /\ q \in Procs
      /\ (x.flags[q] = {} <=> q \in L)
  BY Numbers DEF Kept, RunSet, Live
<1>2. Flipped(x, p, q) = e
  BY DEF Flipped
<1>3. a \in Kernel /\ Runs(a, L \ {p}) /\ SameTable(x, a)
  BY <1>1, UnreadyType, UnreadyKeeps, UnreadySame
<1> HIDE DEF a
<1>4. b \in Kernel /\ Runs(b, M) /\ SameFields(x, b)
  <2>1. CASE x.flags[q] = {}
    <3>1. b \in Kernel /\ Runs(b, M) /\ SameTable(a, b)
      BY <1>1, <1>3, <2>1, UnreadyType, UnreadyKeeps, UnreadySame
    <3> QED BY <1>3, <3>1 DEF SameTable, SameFields
  <2>2. CASE x.flags[q] # {}
    <3>1. M = L \ {p}
      BY <1>1, <2>2
    <3> QED BY <1>3, <2>2, <3>1, TableFields
  <2> QED BY <2>1, <2>2
<1> HIDE DEF b
<1>5. /\ c \in Kernel /\ SameFields(b, c) /\ c.rdy = b.rdy /\ c.cur = b.cur
      /\ \A r \in M : r \in c.shadow <=> r \in b.shadow
  BY <1>1, <1>4 DEF Kernel, SameFields
<1> HIDE DEF c
<1>6. Runs(c, M)
  BY <1>4, <1>5, FrameKeeps
<1>7. d \in Kernel /\ Runs(d, M \cup {p}) /\ SameTable(c, d)
  BY <1>1, <1>5, <1>6, ReadyType, ReadyKeeps, ReadySame
<1> HIDE DEF d
<1>8. SameFields(x, d)
  BY <1>4, <1>5, <1>7, TableFields DEF SameFields
<1>9. e \in Kernel /\ Runs(e, L) /\ SameFields(x, e)
  <2>1. CASE x.flags[q] = {}
    <3>1. e \in Kernel /\ Runs(e, (M \cup {p}) \cup {q}) /\ SameTable(d, e)
      BY <1>1, <1>7, <2>1, ReadyType, ReadyKeeps, ReadySame
    <3>2. (M \cup {p}) \cup {q} = L
      BY <1>1, <2>1
    <3> QED BY <1>8, <3>1, <3>2 DEF SameTable, SameFields
  <2>2. CASE x.flags[q] # {}
    <3>1. M \cup {p} = L
      BY <1>1, <2>2
    <3> QED BY <1>7, <1>8, <2>2, <3>1
  <2> QED BY <2>1, <2>2
<1> HIDE DEF e
<1>10. Kept(e)
  BY <1>9, SameKept DEF Kept
<1> QED BY <1>2, <1>10

LEMMA UnshadowKept ==
  ASSUME NEW x, Kept(x), NEW p \in Users, p \in RunSet(x)
  PROVE  Kept(unshadow(x, p))
<1> DEFINE S == {q \in Family(x, p) : q \notin x.shadow}
           F == First(S)
           q == CHOOSE q \in F : TRUE
<1>1. F # {} => q \in Users /\ q # p
  <2>1. F # {} => q \in S
    BY FirstIn
  <2> QED BY <2>1 DEF Family
<1> HIDE DEF F, q
<1>2. Kept([x EXCEPT !.panic = "only shadow(s)"])
  <2> DEFINE y == [x EXCEPT !.panic = "only shadow(s)"]
  <2>1. y \in Kernel /\ SameFields(x, y) /\ y.rdy = x.rdy /\ y.cur = x.cur /\ y.shadow = x.shadow
    BY DEF Kept, Kernel, SameFields, Panics
  <2> QED BY <2>1, OtherKept
<1>3. \/ unshadow(x, p) = x
      \/ unshadow(x, p) = [x EXCEPT !.panic = "only shadow(s)"]
      \/ F # {} /\ unshadow(x, p) = Flipped(x, p, q)
  BY DEF unshadow, F, q
<1> QED BY <1>1, <1>2, <1>3, FlippedKept

-----------------------------------------------------------------------------
(* Process life cycle *)

LEMMA Idle ==
  ASSUME NEW x, Kept(x), NEW u \in Users, "P_SLOT_FREE" \in x.flags[u]
  PROVE  x.flags[u] = {"P_SLOT_FREE"} /\ x.pending[u] = {} /\ x.pendcount[u] = 0
<1>1. x.flags[u] = {"P_SLOT_FREE"}
  BY DEF Kept, TableKept, FlagsKept
<1>2. u \notin With(x, "PENDING") /\ u \notin With(x, "SIG_PENDING")
  BY <1>1 DEF With
<1>3. x.pendcount[u] \in Nat
  BY Numbers DEF Kept, Kernel
<1> QED BY <1>1, <1>2, <1>3 DEF Kept, TableKept, Books

LEMMA ForkKept ==
  ASSUME NEW x, Kept(x), NEW u \in Users, NEW c \in Users,
         "RECEIVING" \in x.flags[u], "SENDING" \notin x.flags[u], "P_SLOT_FREE" \in x.flags[c]
  PROVE  Kept(do_fork(x, u, c))
<1> DEFINE y  == do_fork(x, u, c)
           fl == x.flags[u] \ {"PENDING", "SIG_PENDING", "P_STOP"}
<1>1. x \in Kernel /\ u \in Procs /\ c \in Procs /\ u \in Live /\ c \in Live /\ y \in Kernel
  BY Numbers, ForkType DEF Kept, Live
<1>2. /\ x.flags[c] = {"P_SLOT_FREE"} /\ x.pending[c] = {} /\ x.pendcount[c] = 0
      /\ "P_SLOT_FREE" \notin x.flags[u] /\ u # c
  BY Idle DEF Kept, TableKept, FlagsKept
<1>3. x.callerq[u] = <<>> /\ x.callerq[c] = <<>>
  BY DEF Kept, TableKept, Sends
<1>4. /\ y.flags = [x.flags EXCEPT ![c] = fl]
      /\ y.getfrom = [x.getfrom EXCEPT ![c] = x.getfrom[u]]
      /\ y.callerq = [x.callerq EXCEPT ![c] = x.callerq[u]]
      /\ y.pending = [x.pending EXCEPT ![c] = {}]
      /\ y.pendcount = [x.pendcount EXCEPT ![c] = 0]
      /\ y.sigProcs = x.sigProcs
      /\ y.rdy = x.rdy /\ y.cur = x.cur
      /\ y.shadow = (IF u \in x.shadow THEN x.shadow \cup {c} ELSE x.shadow \ {c}) \cup {u}
  <2> HIDE DEF fl
  <2> QED BY ZenonT(40), <1>1 DEF do_fork, mkshadow, Kernel, fl
<1> HIDE DEF y
<1>5. y.callerq = x.callerq /\ y.pending = x.pending /\ y.pendcount = x.pendcount
  BY <1>1, <1>2, <1>3, <1>4 DEF Kernel
<1>6. /\ \A r \in Procs : y.flags[r] = IF r = c THEN fl ELSE x.flags[r]
      /\ \A r \in Procs : y.getfrom[r] = IF r = c THEN x.getfrom[u] ELSE x.getfrom[r]
  BY SMTT(30), <1>1, <1>4 DEF Kernel
<1>7. \A f \in {"SENDING", "PENDING", "SIG_PENDING"} : With(y, f) = With(x, f)
  BY <1>1, <1>2, <1>6 DEF With
<1>8. FlagsKept(y)
  <2>1. c \notin Tasks \cup Servers
    BY TasksAssumption DEF Users, Servers, MM_PROC_NR, FS_PROC_NR, LOW_USER
  <2>2. \A r \in Tasks \cup Servers : y.flags[r] \subseteq {"SENDING", "RECEIVING"}
    BY <1>6, <2>1, Numbers DEF Kept, TableKept, FlagsKept
  <2>3. \A r \in Procs \ Live : y.flags[r] = {}
    BY <1>1, <1>6 DEF Kept, TableKept, FlagsKept
  <2>4. \A v \in Users : "P_SLOT_FREE" \in y.flags[v] => y.flags[v] = {"P_SLOT_FREE"}
    BY <1>2, <1>6, Numbers DEF Kept, TableKept, FlagsKept
  <2>5. \A r \in Procs : {"SENDING", "RECEIVING"} \subseteq y.flags[r] => y.getfrom[r] # ANY
    BY <1>6 DEF Kept, TableKept, FlagsKept
  <2> QED BY <2>2, <2>3, <2>4, <2>5 DEF FlagsKept
<1>9. Runs(y, RunSet(y))
  <2>1. fl # {} /\ x.flags[u] # {} /\ x.flags[c] # {}
    BY <1>2
  <2>2. RunSet(y) = RunSet(x) /\ u \notin RunSet(x) /\ c \notin RunSet(x)
    BY <1>6, <2>1, LiveProcs DEF RunSet
  <2>3. \A r \in RunSet(x) : r \in y.shadow <=> r \in x.shadow
    BY <1>4, <2>2
  <2> QED BY <1>1, <1>4, <2>2, <2>3, FrameKeeps DEF Kept
<1> QED BY <1>1, <1>4, <1>5, <1>7, <1>8, <1>9 DEF Kept, TableKept, y

LEMMA FreshKept ==
  ASSUME NEW x, Kept(x), NEW u \in Users, NEW i \in Users, x.flags[u] # {}
  PROVE  Kept(do_fresh(x, u, i))
<1> DEFINE a == rmshadow(x, u)
           y == [a EXCEPT !.img[u] = i]
<1>1. RunSet(x) \ {u} = RunSet(x)
  BY DEF RunSet
<1>2. a \in Kernel /\ SameFields(x, a) /\ Runs(a, RunSet(x))
  BY <1>1, RmshadowKeeps DEF Kept
<1> HIDE DEF a
<1>3. Kept(a)
  BY <1>2, SameKept DEF Kept
<1>4. y \in Kernel /\ SameFields(a, y) /\ y.rdy = a.rdy /\ y.cur = a.cur /\ y.shadow = a.shadow
  BY <1>2, Numbers DEF Kernel, SameFields
<1> HIDE DEF y
<1>5. Kept(y)
  BY <1>3, <1>4, OtherKept
<1> QED BY <1>5 DEF do_fresh, a, y

LEMMA XitKept ==
  ASSUME NEW x, Kept(x), NEW c \in Users PROVE Kept(do_xit(x, c))
<1> DEFINE L == RunSet(x) \ {c}
           a == IF x.flags[c] = {} THEN unready(x, c) ELSE x
           b == rmshadow(a, c)
           d == IF "SENDING" \in b.flags[c] THEN Unlink(b, c) ELSE b
           y == Free(d, c)
<1>1. x \in Kernel /\ c \in Procs /\ c \in Live
  BY Numbers DEF Kept, Live
<1>2. a \in Kernel /\ SameFields(x, a) /\ Runs(a, L) /\ RunSet(a) = RunSet(x)
  <2>1. CASE x.flags[c] = {}
    BY <1>1, <2>1, UnreadyType, UnreadyKeeps, UnreadySame, TableFields, SameKept DEF Kept
  <2>2. CASE x.flags[c] # {}
    <3>1. L = RunSet(x)
      BY <2>2 DEF RunSet
    <3> QED BY <1>1, <2>2, <3>1 DEF Kept, SameFields
  <2> QED BY <2>1, <2>2
<1> HIDE DEF a
<1>3. b \in Kernel /\ SameFields(x, b) /\ Runs(b, L)
  <2>1. b \in Kernel /\ SameFields(a, b) /\ Runs(b, RunSet(a) \ {c})
    BY <1>2, RmshadowKeeps
  <2> QED BY <1>2, <2>1 DEF SameFields
<1> HIDE DEF b
<1>4. /\ d \in Kernel /\ d.rdy = b.rdy /\ d.cur = b.cur /\ d.shadow = b.shadow
      /\ d.flags = x.flags /\ d.getfrom = x.getfrom /\ d.pending = x.pending
      /\ d.pendcount = x.pendcount /\ d.sigProcs = x.sigProcs
  <2>1. CASE "SENDING" \in b.flags[c]
    <3> DEFINE cq == [p \in Procs |-> Dequeue(b.callerq[p], c)]
    <3>1. d \in Kernel /\ d = [b EXCEPT !.callerq = cq]
      BY <1>3, <2>1, UnlinkType DEF Unlink
    <3> HIDE DEF d, cq
    <3> QED BY <1>3, <3>1 DEF Kernel, SameFields
  <2>2. CASE "SENDING" \notin b.flags[c]
    BY <1>3, <2>2 DEF SameFields
  <2> QED BY <2>1, <2>2
<1>5. Sends(d.callerq, With(x, "SENDING") \ {c})
  <2>1. x.callerq \in Callerq /\ Sends(x.callerq, With(x, "SENDING"))
    BY <1>1, BookTypes DEF Kept, TableKept
  <2>2. CASE "SENDING" \in x.flags[c]
    <3>1. d.callerq = [p \in Procs |-> Dequeue(x.callerq[p], c)]
      BY <1>3, <2>2 DEF Unlink, Kernel, SameFields
    <3> QED BY <1>1, <2>1, <3>1, SendsUnlink
  <2>3. CASE "SENDING" \notin x.flags[c]
    <3>1. d.callerq = x.callerq /\ With(x, "SENDING") \ {c} = With(x, "SENDING")
      BY <1>3, <2>3 DEF SameFields, With
    <3> QED BY <2>1, <3>1
  <2> QED BY <2>2, <2>3
<1> HIDE DEF d
<1>6. /\ y \in Kernel /\ y.rdy = b.rdy /\ y.cur = b.cur /\ y.shadow = b.shadow
      /\ y.getfrom = x.getfrom /\ y.callerq = d.callerq
      /\ y.pending = [x.pending EXCEPT ![c] = {}]
      /\ y.pendcount = [x.pendcount EXCEPT ![c] = 0]
      /\ y.sigProcs = IF "PENDING" \in x.flags[c] THEN x.sigProcs - 1 ELSE x.sigProcs
      /\ \A r \in Procs : y.flags[r] = IF r = c THEN {"P_SLOT_FREE"} ELSE x.flags[r]
  <2>1. y \in Kernel
    BY <1>1, <1>4, FreeType
  <2>2. /\ y.rdy = d.rdy /\ y.cur = d.cur /\ y.shadow = d.shadow
        /\ y.getfrom = d.getfrom /\ y.callerq = d.callerq
        /\ y.pending = [d.pending EXCEPT ![c] = {}]
        /\ y.pendcount = [d.pendcount EXCEPT ![c] = 0]
        /\ y.sigProcs = IF "PENDING" \in d.flags[c] THEN d.sigProcs - 1 ELSE d.sigProcs
        /\ y.flags = [d.flags EXCEPT ![c] = {"P_SLOT_FREE"}]
    BY <1>4 DEF Free, Kernel
  <2> HIDE DEF y
  <2>3. \A r \in Procs : y.flags[r] = IF r = c THEN {"P_SLOT_FREE"} ELSE x.flags[r]
    BY SMTT(30), <1>1, <1>4, <2>2 DEF Kernel
  <2> QED BY <1>4, <2>1, <2>2, <2>3
<1> HIDE DEF y
<1>7. \A f \in {"SENDING", "PENDING", "SIG_PENDING"} : With(y, f) = With(x, f) \ {c}
  BY <1>6 DEF With
<1>8. Books(y.pending, y.pendcount, y.sigProcs, With(y, "PENDING"), With(y, "SIG_PENDING"))
  <2> DEFINE P == With(x, "PENDING")
             G == With(x, "SIG_PENDING")
  <2>1. x.pending \in Pending /\ x.pendcount \in Pendcount /\ Books(x.pending, x.pendcount, x.sigProcs, P, G)
    BY <1>1, BookTypes DEF Kept, TableKept
  <2>2. c \in P <=> "PENDING" \in x.flags[c]
    BY <1>1 DEF With
  <2>3. With(y, "PENDING") = P \ {c} /\ With(y, "SIG_PENDING") = G \ {c}
    BY <1>7
  <2> HIDE DEF P, G
  <2>4. Books([x.pending EXCEPT ![c] = {}], [x.pendcount EXCEPT ![c] = 0],
              IF c \in P THEN x.sigProcs - 1 ELSE x.sigProcs, P \ {c}, G \ {c})
    BY <2>1, BooksFree
  <2> QED BY <1>6, <2>2, <2>3, <2>4
<1>9. FlagsKept(y)
  <2>1. c \notin Tasks \cup Servers
    BY TasksAssumption DEF Users, Servers, MM_PROC_NR, FS_PROC_NR, LOW_USER
  <2>2. \A r \in Tasks \cup Servers : y.flags[r] \subseteq {"SENDING", "RECEIVING"}
    BY <1>6, <2>1, Numbers DEF Kept, TableKept, FlagsKept
  <2> QED BY <1>1, <1>6, <2>2, Numbers DEF Kept, TableKept, FlagsKept
<1>10. Runs(y, RunSet(y))
  <2>1. RunSet(y) = L
    BY <1>1, <1>6, LiveProcs DEF RunSet
  <2> QED BY <1>3, <1>6, <2>1, FrameKeeps
<1>11. Kept(y)
  BY <1>5, <1>6, <1>7, <1>8, <1>9, <1>10 DEF Kept, TableKept
<1> QED BY <1>11 DEF do_xit, a, b, d, y

(* Stopping and resuming only changes P_STOP. *)
LEMMA StopTable ==
  ASSUME NEW x, NEW z, TableKept(x), NEW u \in Users, SameButFlags(x, z), x.flags[u] # {"P_SLOT_FREE"},
         \A r \in Procs \ {u} : z.flags[r] = x.flags[r],
         z.flags[u] \subseteq x.flags[u] \cup {"P_STOP"}, x.flags[u] \subseteq z.flags[u] \cup {"P_STOP"}
  PROVE  TableKept(z)
<1>1. \A f \in {"SENDING", "PENDING", "SIG_PENDING"} : With(z, f) = With(x, f)
  BY DEF With
<1>2. FlagsKept(z)
  <2>1. u \notin Tasks \cup Servers /\ u \in Live
    BY TasksAssumption DEF Users, Live, Servers, MM_PROC_NR, FS_PROC_NR, LOW_USER
  <2>2. \A r \in Tasks \cup Servers : z.flags[r] \subseteq {"SENDING", "RECEIVING"}
    BY <2>1, Numbers DEF TableKept, FlagsKept
  <2>3. \A r \in Procs \ Live : z.flags[r] = {}
    BY <2>1 DEF TableKept, FlagsKept
  <2>4. "P_SLOT_FREE" \notin z.flags[u]
    BY DEF TableKept, FlagsKept
  <2>5. \A v \in Users : "P_SLOT_FREE" \in z.flags[v] => z.flags[v] = {"P_SLOT_FREE"}
    BY <2>4, Numbers DEF TableKept, FlagsKept
  <2>6. \A r \in Procs : {"SENDING", "RECEIVING"} \subseteq z.flags[r] => z.getfrom[r] # ANY
    <3>1. \A r \in Procs : {"SENDING", "RECEIVING"} \subseteq z.flags[r] =>
                           {"SENDING", "RECEIVING"} \subseteq x.flags[r]
      OBVIOUS
    <3> QED BY <3>1 DEF TableKept, FlagsKept, SameButFlags
  <2> QED BY <2>2, <2>3, <2>5, <2>6 DEF FlagsKept
<1> QED BY <1>1, <1>2 DEF TableKept, SameButFlags

LEMMA StopKept ==
  ASSUME NEW x, Kept(x), NEW u \in Users, "P_SLOT_FREE" \notin x.flags[u]
  PROVE  Kept(TraceStop(x, u))
<1> DEFINE a == unready(x, u)
           y == [a EXCEPT !.flags[u] = a.flags[u] \cup {"P_STOP"}]
<1>1. x \in Kernel /\ u \in Procs /\ Runs(x, RunSet(x))
  BY Numbers DEF Kept
<1>2. a \in Kernel /\ Runs(a, RunSet(x) \ {u}) /\ SameFields(x, a)
  BY <1>1, UnreadyType, UnreadyKeeps, UnreadySame, TableFields
<1> HIDE DEF a
<1>3. /\ y \in Kernel /\ y.rdy = a.rdy /\ y.cur = a.cur /\ y.shadow = a.shadow
      /\ SameButFlags(x, y)
      /\ \A r \in Procs : y.flags[r] = IF r = u THEN x.flags[u] \cup {"P_STOP"} ELSE x.flags[r]
  BY <1>1, <1>2 DEF Kernel, Flag, SameFields, SameButFlags
<1> HIDE DEF y
<1>4. RunSet(y) = RunSet(x) \ {u}
  BY <1>1, <1>3, LiveProcs DEF RunSet
<1>5. Runs(y, RunSet(y))
  BY <1>2, <1>3, <1>4, FrameKeeps
<1>6. TableKept(y)
  BY <1>1, <1>3, StopTable DEF Kept
<1> QED BY <1>3, <1>5, <1>6 DEF Kept, TraceStop, y, a

LEMMA ResumeKept ==
  ASSUME NEW x, Kept(x), NEW u \in Users, "P_STOP" \in x.flags[u]
  PROVE  Kept(TraceResume(x, u))
<1> DEFINE y == Unblock(x, u, {"P_STOP"})
           w == [x EXCEPT !.flags[u] = x.flags[u] \ {"P_STOP"}]
<1>1. x \in Kernel /\ u \in Procs /\ u \in Live /\ Runs(x, RunSet(x))
  BY Numbers DEF Kept, Live
<1>2. y \in Kernel /\ Runs(y, RunSet(y)) /\ SameTable(w, y)
  BY <1>1, UnblockKeeps
<1> HIDE DEF y
<1>3. /\ SameButFlags(x, w)
      /\ \A r \in Procs : w.flags[r] = IF r = u THEN x.flags[u] \ {"P_STOP"} ELSE x.flags[r]
  BY <1>1 DEF Kernel, SameButFlags
<1> HIDE DEF w
<1>4. TableKept(w)
  BY <1>1, <1>3, StopTable DEF Kept
<1>5. TableKept(y)
  BY <1>2, <1>4, SameKept, TableFields
<1> QED BY <1>2, <1>5 DEF Kept, TraceResume, y

-----------------------------------------------------------------------------
(* The invariant *)

LEMMA BootKept ==
  ASSUME NEW tasks \in [1 .. Cardinality(Tasks) -> Tasks],
         \A i, j \in DOMAIN tasks : i < j => tasks[i] < tasks[j]
  PROVE  Kept(Boot(tasks))
<1> DEFINE n   == Cardinality(Tasks)
           rdy == [q \in Queues |-> CASE q = TASK_Q   -> tasks
                                      [] q = SERVER_Q -> <<MM_PROC_NR, FS_PROC_NR>>
                                      [] q = USER_Q   -> <<LOW_USER>>
                                      [] q = SHADOW_Q -> <<>>]
           b == [flags      |-> [p \in Procs |-> IF p > LOW_USER THEN {"P_SLOT_FREE"}
                                                 ELSE {}],
                 getfrom    |-> [p \in Procs |-> MM_PROC_NR],
                 callerq    |-> [p \in Procs |-> <<>>],
                 mess       |-> [p \in Procs |-> NoMess],
                 rdy        |-> rdy,
                 cur        |-> HARDWARE,
                 bill       |-> HARDWARE,
                 intBlocked |-> {},
                 pending    |-> [p \in Procs |-> {}],
                 pendcount  |-> [p \in Procs |-> 0],
                 sigProcs   |-> 0,
                 img        |-> [p \in Procs |-> LOW_USER],
                 shadow     |-> {},
                 physio     |-> {},
                 panic      |-> "none"]
<1>1. IsFiniteSet(Tasks) /\ n \in Nat
  <2>1. \A S : S \subseteq Procs => IsFiniteSet(S) /\ Cardinality(S) \in Nat
    BY FiniteSets
  <2>2. Tasks \subseteq Procs
    BY Numbers
  <2> QED BY <2>1, <2>2
<1>2. /\ \A i \in 1 .. Len(tasks) : tasks[i] \in Tasks
      /\ \A i, j \in 1 .. Len(tasks) : i # j => tasks[i] # tasks[j]
      /\ Len(tasks) = n /\ tasks \in Seq(Procs)
  <2>1. Len(tasks) = n /\ DOMAIN tasks = 1 .. n /\ tasks \in Seq(Procs)
    <3>1. tasks \in [1 .. n -> Procs]
      BY Numbers
    <3> QED BY <1>1, <3>1, IsASeq
  <2>2. \A i \in 1 .. n : tasks[i] \in Int
    <3>1. \A t \in Tasks : t \in Int
      BY Numbers
    <3> QED BY <3>1
  <2>3. \A i, j \in 1 .. n : i # j => i < j \/ j < i
    BY <1>1
  <2>4. \A i, j \in 1 .. n : i # j => tasks[i] # tasks[j]
    BY <2>1, <2>2, <2>3
  <2> QED BY <2>1, <2>4
<1>3. \A t \in Tasks : InQueue(tasks, t)
  <2>1. tasks \in Injection(1 .. n, Tasks)
    BY <1>2 DEF Injection, IsInjective
  <2>2. Cardinality(1 .. n) = n
    <3>1. 1 \in Int /\ n \in Int
      BY <1>1
    <3>2. Cardinality(1 .. n) = IF 1 > n THEN 0 ELSE n - 1 + 1
      BY <3>1, FS_Interval
    <3> QED BY <1>1, <3>2
  <2>3. tasks \in Surjection(1 .. n, Tasks)
    BY <1>1, <2>1, <2>2, FS_Injection
  <2> QED BY <1>2, <2>3 DEF Surjection, InQueue
<1>4. /\ TASK_Q \in Queues /\ SERVER_Q \in Queues /\ USER_Q \in Queues /\ SHADOW_Q \in Queues
      /\ \A q \in Queues : q \in {TASK_Q, SERVER_Q, USER_Q, SHADOW_Q}
  BY DEF Queues, TASK_Q, SERVER_Q, USER_Q, SHADOW_Q
<1>5. /\ rdy[TASK_Q] = tasks /\ rdy[SERVER_Q] = <<MM_PROC_NR, FS_PROC_NR>>
      /\ rdy[USER_Q] = <<LOW_USER>> /\ rdy[SHADOW_Q] = <<>>
  BY <1>4 DEF TASK_Q, SERVER_Q, USER_Q, SHADOW_Q
<1>6. b \in Kernel
  <2>1. /\ <<MM_PROC_NR, FS_PROC_NR>> \in Seq(Procs)
        /\ <<LOW_USER>> \in Seq(Procs) /\ <<>> \in Seq(Procs)
    BY Numbers
  <2>2. rdy \in [Queues -> Seq(Procs)]
    <3>1. \A q \in Queues : rdy[q] \in Seq(Procs)
      BY <1>2, <1>4, <1>5, <2>1
    <3> QED BY <3>1
  <2>3. NoMess \in Message /\ "none" \in Panics /\ {"P_SLOT_FREE"} \in SUBSET Flag
    BY DEF NoMess, Message, MTypes, Panics, Flag
  <2> HIDE DEF rdy
  <2> QED BY <2>1, <2>2, <2>3, Numbers DEF Kernel
<1>7. RunSet(b) = Tasks \cup Servers \cup {LOW_USER}
  <2>1. \A p \in Live : p > LOW_USER <=> p \in Users /\ p # LOW_USER
    BY TasksAssumption DEF Live, Servers, Users, MM_PROC_NR, FS_PROC_NR, LOW_USER
  <2>2. \A p \in Live : b.flags[p] = IF p > LOW_USER THEN {"P_SLOT_FREE"} ELSE {}
    BY LiveProcs
  <2>3. Tasks \subseteq Live /\ Servers \subseteq Live /\ LOW_USER \in Live
    BY Numbers DEF Live
  <2>4. \A p \in Tasks \cup Servers : p \notin Users
    BY TasksAssumption DEF Servers, Users, MM_PROC_NR, FS_PROC_NR, LOW_USER
  <2> HIDE DEF b
  <2> QED BY <2>1, <2>2, <2>3, <2>4 DEF RunSet, Live
<1>8. Placed(b, RunSet(b))
  <2>1. \A q \in Queues : b.rdy[q] = rdy[q]
    OBVIOUS
  <2>2. /\ \A p \in Tasks : Queue(b, p) = TASK_Q
        /\ \A p \in Servers : Queue(b, p) = SERVER_Q
        /\ Queue(b, LOW_USER) = USER_Q
    BY TasksAssumption DEF Queue, Servers, MM_PROC_NR, FS_PROC_NR, LOW_USER, isuserp
  <2>3. /\ NoDuplicates(rdy[TASK_Q]) /\ NoDuplicates(rdy[SERVER_Q])
        /\ NoDuplicates(rdy[USER_Q]) /\ NoDuplicates(rdy[SHADOW_Q])
    <3>1. NoDuplicates(tasks)
      BY <1>2 DEF NoDuplicates
    <3>2. NoDuplicates(<<MM_PROC_NR, FS_PROC_NR>>)
      BY DEF NoDuplicates, MM_PROC_NR, FS_PROC_NR
    <3>3. NoDuplicates(<<LOW_USER>>) /\ NoDuplicates(<<>>)
      BY DEF NoDuplicates
    <3> QED BY <1>5, <3>1, <3>2, <3>3
  <2>4. /\ \A p : InQueue(rdy[TASK_Q], p) <=> p \in Tasks
        /\ \A p : InQueue(rdy[SERVER_Q], p) <=> p \in Servers
        /\ \A p : InQueue(rdy[USER_Q], p) <=> p = LOW_USER
        /\ \A p : ~InQueue(rdy[SHADOW_Q], p)
    <3>1. \A p : InQueue(tasks, p) <=> p \in Tasks
      BY <1>2, <1>3 DEF InQueue
    <3>2. \A p : InQueue(<<MM_PROC_NR, FS_PROC_NR>>, p) <=> p \in Servers
      <4> DEFINE s == <<MM_PROC_NR, FS_PROC_NR>>
      <4>1. Len(s) = 2 /\ s[1] = MM_PROC_NR /\ s[2] = FS_PROC_NR
        OBVIOUS
      <4>2. \A i : i \in 1 .. 2 <=> i = 1 \/ i = 2
        OBVIOUS
      <4> HIDE DEF s
      <4>3. \A p : InQueue(s, p) <=> p \in Servers
        BY <4>1, <4>2 DEF InQueue, Servers
      <4> QED BY <4>3 DEF s
    <3>3. \A p : InQueue(<<LOW_USER>>, p) <=> p = LOW_USER
      BY DEF InQueue
    <3>4. rdy[TASK_Q] = tasks /\ rdy[SERVER_Q] = <<MM_PROC_NR, FS_PROC_NR>>
          /\ rdy[USER_Q] = <<LOW_USER>> /\ rdy[SHADOW_Q] = <<>>
      BY <1>5
    <3> HIDE DEF rdy
    <3>5. \A p : InQueue(rdy[TASK_Q], p) <=> p \in Tasks
      BY <3>1, <3>4
    <3>6. \A p : InQueue(rdy[SERVER_Q], p) <=> p \in Servers
      BY <3>2, <3>4
    <3>7. \A p : InQueue(rdy[USER_Q], p) <=> p = LOW_USER
      BY <3>3, <3>4
    <3>8. \A p : ~InQueue(rdy[SHADOW_Q], p)
      BY <3>4, EmptyQueue
    <3> QED BY <3>5, <3>6, <3>7, <3>8
  <2>5. TASK_Q # SERVER_Q /\ TASK_Q # USER_Q /\ SERVER_Q # USER_Q
        /\ SHADOW_Q \notin {TASK_Q, SERVER_Q, USER_Q}
    BY DEF TASK_Q, SERVER_Q, USER_Q, SHADOW_Q
  <2> HIDE DEF b, rdy
  <2>6. ASSUME NEW q \in Queues, NEW p \in Procs
        PROVE  InQueue(b.rdy[q], p) <=> p \in RunSet(b) /\ q = Queue(b, p)
    <3>1. CASE q = TASK_Q
      BY <1>7, <2>1, <2>2, <2>4, <2>5, <3>1
    <3>2. CASE q = SERVER_Q
      BY <1>7, <2>1, <2>2, <2>4, <2>5, <3>2
    <3>3. CASE q = USER_Q
      BY <1>7, <2>1, <2>2, <2>4, <2>5, <3>3
    <3>4. CASE q = SHADOW_Q
      BY <1>7, <2>1, <2>2, <2>4, <2>5, <3>4
    <3> QED BY <1>4, <3>1, <3>2, <3>3, <3>4
  <2>7. \A q \in Queues : NoDuplicates(b.rdy[q])
    BY <1>4, <2>1, <2>3
  <2> QED BY <2>6, <2>7 DEF Placed
<1>9. TableKept(b)
  <2>1. \A p \in Procs : b.callerq[p] = <<>> /\ b.pending[p] = {} /\ b.pendcount[p] = 0
                         /\ b.flags[p] \in {{}, {"P_SLOT_FREE"}}
                         /\ (b.flags[p] # {} => p > LOW_USER)
    OBVIOUS
  <2>2. b.sigProcs = 0
    OBVIOUS
  <2> HIDE DEF b
  <2>3. With(b, "SENDING") = {} /\ With(b, "PENDING") = {} /\ With(b, "SIG_PENDING") = {}
    BY <2>1 DEF With
  <2>4. Sends(b.callerq, {})
    BY SMTT(30), <2>1, EmptyQueue, Numbers DEF Sends, NoDuplicates
  <2>5. FlagsKept(b)
    <3>1. \A p \in Tasks \cup Servers : ~(p > LOW_USER)
      BY TasksAssumption DEF Servers, MM_PROC_NR, FS_PROC_NR, LOW_USER
    <3>2. \A p \in Procs \ Live : ~(p > LOW_USER)
      BY DEF Procs, Live, IDLE, HARDWARE, LOW_USER
    <3> QED BY <2>1, <3>1, <3>2, Numbers DEF FlagsKept
  <2>6. Books(b.pending, b.pendcount, b.sigProcs, {}, {})
    <3>1. {p \in Procs : b.pending[p] # {}} = {}
      BY <2>1
    <3>2. Cardinality({}) = 0
      BY FS_EmptySet
    <3>3. \A u \in Users : b.pending[u] = {} /\ b.pendcount[u] = 0 /\ Cardinality(b.pending[u]) = 0
      BY <2>1, <3>2, Numbers
    <3>4. b.sigProcs = Cardinality({p \in Procs : b.pending[p] # {}})
      BY <2>2, <3>1, <3>2
    <3>5. \A p \in Procs \ Users : b.pending[p] = {}
      BY <2>1
    <3>6. \A u \in Users : /\ u \in {} <=> b.pending[u] # {}
                           /\ u \in {} <=> b.pendcount[u] > 0
                           /\ b.pendcount[u] >= Cardinality(b.pending[u])
      BY <3>3
    <3> QED BY <3>4, <3>5, <3>6 DEF Books
  <2> QED BY <2>3, <2>4, <2>5, <2>6 DEF TableKept
<1>10. Boot(tasks) = pick_proc(b)
  BY DEF Boot
<1> HIDE DEF b
<1>11. Runs(pick_proc(b), RunSet(b)) /\ pick_proc(b) \in Kernel /\ SameFields(b, pick_proc(b))
  BY <1>6, <1>8, PickKeeps, PickType, PickSame, TableFields
<1> QED BY <1>9, <1>10, <1>11, SameKept DEF Kept
-----------------------------------------------------------------------------
(* Every step keeps the tables right. *)

LEMMA InitKept == Init => Kept(k)
BY BootKept DEF Init

LEMMA ServeKept ==
  ASSUME NEW s, NEW c, NEW y, Kept(y), Serve(s, c, y)
  PROVE  Kept(k')
<1> DEFINE z == [y EXCEPT !.mess[SYSTASK].m_type = "reply"]
<1>1. y \in Kernel
  BY DEF Kept
<1>2. z \in Kernel
  <2>1. \A m \in Message : [m EXCEPT !.m_type = "reply"] \in Message
    BY DEF Message, MTypes
  <2>2. y.mess[SYSTASK] \in Message
    BY <1>1, Numbers DEF Kernel
  <2> QED BY <1>1, <2>1, <2>2 DEF Kernel
<1>3. SameFields(y, z) /\ z.rdy = y.rdy /\ z.cur = y.cur /\ z.shadow = y.shadow
  BY <1>1 DEF Kernel, SameFields
<1>4. k' = z
  BY DEF Serve, Work
<1> HIDE DEF z
<1>5. Kept(z)
  BY <1>2, <1>3, OtherKept
<1> QED BY <1>4, <1>5

LEMMA SysKept == ASSUME TypeOK, Kept(k), Sys PROVE Kept(k')
<1>1. k \in Kernel /\ k.cur \in Procs
  BY DEF TypeOK, Kernel
<1>2. NoMess \in Message /\ Request \in Message /\ Reply \in Message
  BY <1>1 DEF NoMess, Request, Reply, Message, MTypes
<1>3. ASSUME NEW c \in MayCall, Call(c) PROVE Kept(k')
  <2> DEFINE m == IF c[1] = "RECEIVE" THEN NoMess ELSE Request
  <2>1. /\ c[1] \in Functions /\ k.cur \in Live
        /\ c[3] \in Procs \cup {ANY}
    BY <1>3, CallsAssumption DEF Call
  <2>2. c[1] = "RECEIVE" \/ (c[3] \in Tasks \cup Servers /\ c[3] # k.cur)
    BY <1>3, CallsAssumption DEF Call
  <2>3. m \in Message
    BY <1>2
  <2>4. k' = sys_call(k, c[1], c[3], m)
    BY <1>3 DEF Call, Trap, restart
  <2> HIDE DEF m
  <2>5. Kept(sys_call(k, c[1], c[3], m))
    BY <2>1, <2>2, <2>3, SysCallKept
  <2> QED BY <2>4, <2>5
<1>4. ASSUME NEW p \in Live, Answer(p) PROVE Kept(k')
  <2>1. k.cur \in Live /\ p \in Procs \cup {ANY} /\ "SEND" \in Functions
    BY <1>4, LiveProcs DEF Answer, Live, Functions
  <2>2. Accepts(k, p, k.cur) \/ "P_SLOT_FREE" \in k.flags[p]
    BY <1>4 DEF Answer
  <2>3. k' = sys_call(k, "SEND", p, Reply)
    BY <1>4 DEF Answer, Trap, restart
  <2>4. Kept(sys_call(k, "SEND", p, Reply))
    BY <1>2, <2>1, <2>2, SysCallKept
  <2> QED BY <2>3, <2>4
<1> QED BY <1>3, <1>4 DEF Sys

LEMMA TrapKept ==
  ASSUME TypeOK, Kept(k), NEW sig \in Sigs, trap(sig) PROVE Kept(k')
<1>1. k.cur \in Users /\ k' = cause_sig(k, k.cur, sig)
  BY DEF trap, Trap, restart
<1>2. k.cur # IDLE
  BY <1>1, Hardware DEF Live
<1>3. k.flags[k.cur] = {}
  BY <1>2, CurRuns DEF Kept, RunSet
<1>4. Kept(cause_sig(k, k.cur, sig))
  BY <1>1, <1>3, CauseSigKept
<1> QED BY <1>1, <1>4

LEMMA IrqKept ==
  ASSUME TypeOK, Kept(k), NEW t \in Tasks, Irq(t) \/ IrqNested(t) PROVE Kept(k')
<1>1. Kept(interrupt(k, t))
  BY InterruptedKept
<1>2. Kept(pick_proc(interrupt(k, t)))
  BY <1>1, PickKept
<1>3. k' = k \/ k' = interrupt(k, t) \/ k' = pick_proc(interrupt(k, t))
  BY DEF Irq, IrqNested, hold, restart
<1> QED BY <1>1, <1>2, <1>3

LEMMA UnholdKept == ASSUME TypeOK, Kept(k), unhold PROVE Kept(k')
<1>1. unholding \in Tasks /\ k' = interrupt(k, unholding)
  BY DEF TypeOK, unhold
<1> QED BY <1>1, InterruptedKept

LEMMA SignalKept ==
  ASSUME TypeOK, Kept(k), NEW u \in Users, NEW sig \in Sigs,
         (\E t \in Tasks : CauseSig(t, u, sig)) \/ do_kill(u, sig)
  PROVE  Kept(k')
<1>1. "P_SLOT_FREE" \notin k.flags[u]
  BY DEF CauseSig, do_kill, Alive
<1>2. Kept(cause_sig(k, u, sig))
  BY <1>1, CauseSigKept
<1>3. CASE \E t \in Tasks : CauseSig(t, u, sig)
  BY <1>2, <1>3 DEF CauseSig, Work
<1>4. CASE do_kill(u, sig)
  BY <1>2, <1>4, ServeKept DEF do_kill
<1> QED BY <1>3, <1>4

LEMMA SignalledKept ==
  ASSUME TypeOK, Kept(k), NEW u \in Users, do_sig(u) PROVE Kept(k')
<1>1. k.pendcount[u] = 0 \/ k.pendcount[u] > Cardinality(k.pending[u])
  BY Idle DEF do_sig, Alive
<1>2. Kept(SigDone(k, u))
  BY <1>1, SigDoneKept
<1> QED BY <1>2, ServeKept DEF do_sig

LEMMA LifeKept ==
  ASSUME TypeOK, Kept(k), NEW u \in Users,
         Exec(u) \/ Fresh(u) \/ Xit(u) \/ (\E c \in Users : Fork(u, c))
  PROVE  Kept(k')
<1>1. CASE Exec(u)
  <2>1. "RECEIVING" \in k.flags[u] /\ u \in Live
    BY <1>1 DEF Exec, WaitsFor, Accepts, Live
  <2>2. Kept(do_exec(k, u))
    BY <2>1, WakeKept DEF do_exec
  <2> QED BY <1>1, <2>2, ServeKept DEF Exec
<1>2. CASE Fresh(u)
  <2>1. k.flags[u] # {}
    BY <1>2 DEF Fresh, WaitsFor, Accepts
  <2>2. PICK i \in FreeImages : Serve("shadow", MM_PROC_NR, do_fresh(k, u, i))
    BY <1>2 DEF Fresh
  <2>3. i \in Users
    BY DEF FreeImages
  <2>4. Kept(do_fresh(k, u, i))
    BY <2>1, <2>3, FreshKept
  <2> QED BY <2>2, <2>4, ServeKept
<1>3. CASE Xit(u)
  <2>1. Kept(do_xit(k, u))
    BY XitKept
  <2> QED BY <1>3, <2>1, ServeKept DEF Xit
<1>4. ASSUME NEW c \in Users, Fork(u, c) PROVE Kept(k')
  <2>1. /\ "RECEIVING" \in k.flags[u] /\ "SENDING" \notin k.flags[u]
        /\ "P_SLOT_FREE" \in k.flags[c]
    BY <1>4 DEF Fork, WaitsFor, Accepts, Alive
  <2>2. Kept(do_fork(k, u, c))
    BY <2>1, ForkKept
  <2> QED BY <1>4, <2>2, ServeKept DEF Fork
<1> QED BY <1>1, <1>2, <1>3, <1>4

LEMMA TraceKept ==
  ASSUME TypeOK, Kept(k), NEW u \in Users, Stop(u) \/ Resume(u) PROVE Kept(k')
<1>1. CASE Stop(u)
  <2>1. Kept(TraceStop(k, u))
    BY <1>1, StopKept DEF Stop, Alive
  <2> QED BY <1>1, <2>1, ServeKept DEF Stop
<1>2. CASE Resume(u)
  <2>1. Kept(TraceResume(k, u))
    BY <1>2, ResumeKept DEF Resume
  <2> QED BY <1>2, <2>1, ServeKept DEF Resume
<1> QED BY <1>1, <1>2

LEMMA TickKept == ASSUME TypeOK, Kept(k), Quantum \/ Flip PROVE Kept(k')
<1>1. CASE Quantum
  BY <1>1, SchedKept DEF Quantum, Work
<1>2. CASE Flip
  <2> DEFINE p == Head(k.rdy[SHADOW_Q])
  <2>1. SHADOW_Q \in Queues /\ k.rdy[SHADOW_Q] \in Seq(Procs) /\ k.rdy[SHADOW_Q] # <<>>
    BY <1>2 DEF Flip, Queues, TASK_Q, SHADOW_Q, TypeOK, Kernel
  <2>2. InQueue(k.rdy[SHADOW_Q], p) /\ p \in Procs
    BY <2>1, HeadIn, HeadTailProperties
  <2>3. k' = unshadow(k, p)
    BY <1>2 DEF Flip, Work
  <2> HIDE DEF p
  <2>4. p \in RunSet(k) /\ Queue(k, p) = SHADOW_Q
    BY <2>1, <2>2 DEF Kept, Runs, Placed
  <2>5. p \in Users
    <3>1. ~(p < 0) /\ isuserp(p)
      BY <2>4 DEF Queue, TASK_Q, SERVER_Q, USER_Q, SHADOW_Q
    <3>2. p \in Live
      BY <2>4 DEF RunSet
    <3> QED BY <3>1, <3>2, TasksAssumption
            DEF Live, Servers, isuserp, LOW_USER, MM_PROC_NR, FS_PROC_NR
  <2>6. Kept(unshadow(k, p))
    BY <2>4, <2>5, UnshadowKept
  <2> QED BY <2>3, <2>6
<1> QED BY <1>1, <1>2

LEMMA PhysioKept ==
  ASSUME TypeOK, Kept(k), NEW u \in Users, NEW t \in Tasks, Physio(t, u)
  PROVE  Kept(k')
<1> DEFINE z == [k EXCEPT !.physio = IF u \in @ THEN @ \ {u} ELSE @ \cup {u}]
<1>1. k \in Kernel /\ u \in Procs
  BY Numbers DEF TypeOK
<1>2. z \in Kernel
  BY <1>1 DEF Kernel
<1>3. SameFields(k, z) /\ z.rdy = k.rdy /\ z.cur = k.cur /\ z.shadow = k.shadow
  BY <1>1 DEF Kernel, SameFields
<1>4. k' = z
  BY DEF Physio, Work
<1> HIDE DEF z
<1> QED BY <1>2, <1>3, <1>4, OtherKept

LEMMA StepKept == TypeOK /\ Kept(k) /\ [Next]_vars => Kept(k')
<1> SUFFICES ASSUME TypeOK, Kept(k), [Next]_vars PROVE Kept(k')
  OBVIOUS
<1>1. CASE Sys
  BY <1>1, SysKept
<1>2. ASSUME NEW sig \in Sigs, trap(sig) PROVE Kept(k')
  BY <1>2, TrapKept
<1>3. CASE Kernel_Work
  <2>1. CASE lock_
    BY <2>1 DEF lock_
  <2>2. CASE lock_pick_proc
    BY <2>2, PickKept DEF lock_pick_proc, Work
  <2>3. CASE Quantum \/ Flip
    BY <2>3, TickKept
  <2>4. ASSUME NEW u \in Users, NEW sig \in Sigs,
               (\E t \in Tasks : CauseSig(t, u, sig)) \/ do_kill(u, sig)
        PROVE  Kept(k')
    BY <2>4, SignalKept
  <2>5. ASSUME NEW u \in Users, do_sig(u) PROVE Kept(k')
    BY <2>5, SignalledKept
  <2>6. ASSUME NEW u \in Users,
               Exec(u) \/ Fresh(u) \/ Xit(u) \/ (\E c \in Users : Fork(u, c))
        PROVE  Kept(k')
    BY <2>6, LifeKept
  <2>7. ASSUME NEW u \in Users, Stop(u) \/ Resume(u) PROVE Kept(k')
    BY <2>7, TraceKept
  <2>8. ASSUME NEW u \in Users, NEW t \in Tasks, Physio(t, u) PROVE Kept(k')
    BY <2>8, PhysioKept
  <2> QED BY <1>3, <2>1, <2>2, <2>3, <2>4, <2>5, <2>6, <2>7, <2>8 DEF Kernel_Work
<1>4. ASSUME NEW t \in IrqTasks, Irq(t) \/ IrqNested(t) PROVE Kept(k')
  <2>1. t \in Tasks
    BY CallsAssumption
  <2> QED BY <1>4, <2>1, IrqKept
<1>5. CASE unhold
  BY <1>5, UnholdKept
<1>6. CASE UNCHANGED vars
  BY <1>6 DEF vars
<1> QED BY <1>1, <1>2, <1>3, <1>4, <1>5, <1>6 DEF Next, Step

LEMMA AlwaysKept == Spec => []Kept(k)
<1>1. Init => Kept(k)
  BY InitKept
<1>2. TypeOK /\ TypeOK' /\ Kept(k) /\ [Next]_vars => Kept(k)'
  BY StepKept
<1> QED BY <1>1, <1>2, TypeCorrect, PTL DEF Spec
-----------------------------------------------------------------------------
(* What the invariant says of the ready queues, the senders and the signals *)

LEMMA KeptScheduled == ASSUME Kept(k) PROVE Scheduled
<1>1. ReadyInv
  BY DEF Kept, Runs, Placed, RunSet, ReadyInv, Runnable
<1>2. CurrentRunnable
  BY DEF Kept, Runs, CurHead, CurrentRunnable
<1> QED BY <1>1, <1>2 DEF Scheduled

LEMMA KeptQueued == ASSUME Kept(k) PROVE Queued
<1>1. /\ \A d \in Procs : NoDuplicates(k.callerq[d]) /\ k.callerq[d] \in Seq(Procs)
      /\ \A d, e, p \in Procs : InQueue(k.callerq[d], p) /\ InQueue(k.callerq[e], p) => d = e
      /\ \A p \in Procs : "SENDING" \in k.flags[p] <=> \E d \in Procs : InQueue(k.callerq[d], p)
      /\ \A p, d \in Procs : ~(InQueue(k.callerq[d], p) /\ InQueue(k.callerq[p], d))
  BY DEF Kept, TableKept, Sends, With, Kernel
<1>2. ASSUME NEW d \in Procs, NEW e \in Procs, NEW i \in 1 .. Len(k.callerq[d]),
             NEW j \in 1 .. Len(k.callerq[e]), k.callerq[d][i] = k.callerq[e][j]
      PROVE  d = e /\ i = j
  <2> DEFINE p == k.callerq[d][i]
  <2>1. p \in Procs /\ InQueue(k.callerq[d], p) /\ InQueue(k.callerq[e], p)
    BY <1>1, <1>2, ElementOfSeq DEF InQueue
  <2>2. d = e
    BY <1>1, <2>1
  <2> QED BY <1>1, <1>2, <2>2 DEF NoDuplicates
<1>3. SenderInv
  BY <1>1, <1>2 DEF SenderInv
<1>4. NoMutualSend
  BY <1>1, LiveProcs DEF NoMutualSend
<1> QED BY <1>3, <1>4 DEF Queued

LEMMA KeptCounted == ASSUME Kept(k) PROVE SignalsCounted
<1>1. Users \subseteq Procs
  BY Numbers
<1>2. Books(k.pending, k.pendcount, k.sigProcs, With(k, "PENDING"), With(k, "SIG_PENDING"))
  BY DEF Kept, TableKept
<1>3. SignalFlags
  BY <1>1, <1>2 DEF Books, With, SignalFlags
<1>4. SigProcsCounts
  BY <1>2 DEF Books, SigProcsCounts
<1> QED BY <1>3, <1>4 DEF SignalsCounted

(***************************************************************************)
(* The ready queues always hold exactly the runnable processes, each once  *)
(* and in the queue of its class, and proc_ptr is a head of them that is   *)
(* no shadow: ready(), unready(), sched() and pick_proc() (kernel/proc.c)  *)
(* are called at every change of p_flags and of p_shadow that asks for it, *)
(* for any number of slots, any set of tasks and any programs.             *)
(***************************************************************************)
THEOREM QueuesRight == Spec => []Scheduled
<1>1. Kept(k) => Scheduled
  BY KeptScheduled
<1> QED BY <1>1, AlwaysKept, PTL

(***************************************************************************)
(* A process has SENDING exactly while it is in one caller queue, once,    *)
(* and no two processes wait in each other's: mini_send() and mini_rec()   *)
(* (kernel/proc.c), and do_fork() and do_xit() (kernel/system.c), which    *)
(* copy and free slots, keep the links and the flags together.             *)
(***************************************************************************)
THEOREM SendersRight == Spec => []Queued
<1>1. Kept(k) => Queued
  BY KeptQueued
<1> QED BY <1>1, AlwaysKept, PTL

(***************************************************************************)
(* PENDING, SIG_PENDING, p_pending, p_pendcount and sig_procs always agree *)
(* (cause_sig(), inform(), do_sig(), do_fork() and do_xit(), all in        *)
(* kernel/system.c), however signals, forks and exits follow each other.   *)
(***************************************************************************)
THEOREM SignalBooks == Spec => []SignalsCounted
<1>1. Kept(k) => SignalsCounted
  BY KeptCounted
<1> QED BY <1>1, AlwaysKept, PTL
=============================================================================
