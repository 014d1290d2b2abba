------------------------------- MODULE MmProofs -------------------------------
(* Theorems about the processes of MM, module MmProc *)
EXTENDS MmProc, FiniteSetTheorems, WellFoundedInduction, TLAPS

-----------------------------------------------------------------------------
(* The inductive invariant, of a table t.  w is the process that MM works  *)
(* for, x one that is dying: they are excepted while MM does so.           *)

InUse(t) == {p \in Slots : Has(t, p, "IN_USE")}

(* INIT lives for ever: it ignores or catches what it may be sent *)
InitKept(t) ==
  /\ Live(t, INIT)
  /\ Sigs \ {SIGHUP, SIGKILL} \subseteq t.ignore[INIT]
  /\ t.pending[INIT] = {} /\ ~ t.alarm[INIT]
  /\ t.call[INIT] \in InitCalls \cup {NoCall}

NoHangup(t) == \A p \in Slots : SIGHUP \notin t.pending[p]

Parented(t) ==
  \A p \in Users : Has(t, p, "IN_USE") =>
    t.parent[p] \in Slots \ {p} /\ Has(t, t.parent[p], "IN_USE")

Counted(t) ==
  /\ \A p \in Slots : Has(t, p, "HANGING") => Has(t, p, "IN_USE")
  /\ t.in_use = 2 + Cardinality(InUse(t))

Agree(t, x) == \A p \in Slots \ {x} : t.at[p] # "free" <=> Live(t, p)

(* Who waits for MM is in wait() or pause(), or it is w, whose call MM serves *)
Waits(t, p) == t.flags[p] \cap {"WAITING", "PAUSED"} # {}
Waiters(t, w) ==
  \A p \in Slots : Live(t, p) =>
    IF p = w THEN t.at[p] = "blocked" /\ ~ Waits(t, p)
    ELSE /\ t.at[p] = "blocked" <=> Waits(t, p)
         /\ ~ {"WAITING", "PAUSED"} \subseteq t.flags[p]

(* p is told of its children *)
IsTold(t, p) ==
  Live(t, p) /\ Has(t, p, "WAITING") =>
    \A c \in Children(t, p) : ~ Has(t, c, "HANGING") /\ (Reports(t, c) => p = INIT)
Told(t) == \A p \in Slots : IsTold(t, p)

(* All but the parent of p are told *)
ToldBut(t, p) == \A r \in Slots \ {t.parent[p]} : IsTold(t, r)

Good(t, w, x) ==
  /\ t \in Table /\ InitKept(t) /\ NoHangup(t) /\ Parented(t) /\ Counted(t)
  /\ Agree(t, x) /\ Waiters(t, w) /\ "stray reply" \notin t.wrong

(* INIT is not sent SIGHUP, and sends no signals *)
Doing == mm = Idle \/ (mm \in Loop /\ mm.by # INIT /\ mm.sig # SIGHUP
                       /\ (mm.by = HARDWARE => SIGHUP \notin mm.left))

IInv == Good(s, mm.by, MM_PROC_NR) /\ Told(s) /\ Doing /\ may \in Mixes

-----------------------------------------------------------------------------
(* Fields of tables *)

LEMMA Numbers ==
  /\ NR_PROCS \in Nat /\ NR_PROCS > 3 /\ INIT = 2 /\ MM_PROC_NR = 0 /\ HARDWARE = -1
  /\ INIT \in Slots /\ Slots \subseteq Nat /\ Users \subseteq Slots
  /\ MM_PROC_NR \notin Slots /\ HARDWARE \notin Slots
  /\ \A p \in Slots : p # INIT => p \in Users
BY SlotsAssumption DEF Slots, Users, INIT, MM_PROC_NR, HARDWARE

LEMMA Fields ==
  ASSUME NEW t \in Table
  PROVE  /\ t.flags \in [Slots -> SUBSET Flag]
         /\ t.parent \in [Slots -> Slots \cup {MM_PROC_NR}]
         /\ t.group \in [Slots -> Slots \cup {MM_PROC_NR}]
         /\ t.sigstatus \in [Slots -> Sigs \cup {0}]
         /\ t.catch \in [Slots -> SUBSET Sigs] /\ t.ignore \in [Slots -> SUBSET Sigs]
         /\ t.in_use \in Nat /\ t.at \in [Slots -> State]
         /\ t.call \in [Slots -> AllCalls \cup {NoCall}]
         /\ t.pending \in [Slots -> SUBSET Sigs] /\ t.count \in [Slots -> Nat]
         /\ t.alarm \in [Slots -> BOOLEAN] /\ t.stop \in [Slots -> BOOLEAN]
         /\ t.wrong \in SUBSET Disaster
BY DEF Table

LEMMA SlotsFinite == IsFiniteSet(Slots)
<1>1. INIT \in Int /\ NR_PROCS - 1 \in Int
  BY Numbers
<1> QED BY <1>1, FS_Interval DEF Slots

LEMMA Bottom ==
  ASSUME NEW S \in SUBSET Int, S # {}, IsFiniteSet(S)
  PROVE  \E m \in S : \A n \in S : m <= n
<1> DEFINE Below(n) == {k \in S : k < n}
           T == {Below(n) : n \in S}
<1>1. T # {} /\ T \subseteq FiniteSubsetsOf(S)
  <2>1. ASSUME NEW n \in S PROVE Below(n) \in FiniteSubsetsOf(S)
    <3>1. Below(n) \in SUBSET S
      OBVIOUS
    <3>2. IsFiniteSet(Below(n))
      BY <3>1, FS_Subset
    <3> QED BY <3>1, <3>2 DEF FiniteSubsetsOf
  <2> QED BY <2>1
<1>2. PICK x \in T : \A y \in T : <<y, x>> \notin StrictSubsetOrdering(S)
  <2>1. IsWellFoundedOn(StrictSubsetOrdering(S), FiniteSubsetsOf(S))
    BY FS_StrictSubsetOrderingWellFounded
  <2> QED BY <1>1, <2>1, WFMin
<1>3. PICK m \in S : x = Below(m)
  OBVIOUS
<1>4. ASSUME NEW n \in S, n < m PROVE FALSE
  <2>1. Below(n) \in T /\ Below(n) \subseteq Below(m)
    <3>1. \A k \in S : k < n => k < m
      BY <1>4
    <3> QED BY <3>1
  <2>2. n \in Below(m) /\ n \notin Below(n)
    BY <1>4
  <2>3. <<Below(n), Below(m)>> \in StrictSubsetOrdering(S)
    BY <2>1, <2>2 DEF StrictSubsetOrdering
  <2> QED BY <1>2, <1>3, <2>1, <2>3
<1> QED BY <1>4

LEMMA MinIn == ASSUME NEW S \in SUBSET Int, S # {}, IsFiniteSet(S)
               PROVE  Min(S) \in S /\ \A n \in S : Min(S) <= n
<1>1. PICK m \in S : \A n \in S : m <= n
  BY Bottom
<1> QED BY <1>1 DEF Min

LEMMA MinSlot ==
  ASSUME NEW S \in SUBSET Slots, S # {}
  PROVE  Min(S) \in S
<1>1. IsFiniteSet(S)
  BY SlotsFinite, FS_Subset
<1>2. S \subseteq Int
  BY Numbers
<1> QED BY <1>1, <1>2, MinIn

LEMMA MinSig ==
  ASSUME NEW S \in SUBSET Sigs, S # {}
  PROVE  Min(S) \in S
<1>1. IsFiniteSet(Sigs)
  <2>1. 1 \in Int /\ 16 \in Int
    OBVIOUS
  <2> QED BY <2>1, FS_Interval DEF Sigs
<1>2. IsFiniteSet(S)
  BY <1>1, FS_Subset
<1>3. S \subseteq Int
  BY DEF Sigs
<1> QED BY <1>2, <1>3, MinIn

-----------------------------------------------------------------------------
(* Steps that change one field *)

(* Fields that the invariant does not look at may differ *)
Rest(t, u) ==
  /\ u.ignore[INIT] = t.ignore[INIT] /\ u.pending = t.pending /\ u.alarm = t.alarm
  /\ u.call = t.call /\ u.wrong = t.wrong

LEMMA SetFlags ==
  ASSUME NEW t \in Table, NEW p \in Slots, NEW F \in SUBSET Flag
  PROVE  LET u == [t EXCEPT !.flags[p] = F]
         IN  /\ u \in Table /\ Rest(t, u) /\ u.flags = [t.flags EXCEPT ![p] = F]
             /\ u.at = t.at /\ u.parent = t.parent /\ u.in_use = t.in_use
             /\ u.sigstatus = t.sigstatus /\ u.group = t.group /\ u.count = t.count
             /\ u.stop = t.stop
<1> DEFINE flags == [t.flags EXCEPT ![p] = F]
           u == [t EXCEPT !.flags = flags]
<1>1. flags \in [Slots -> SUBSET Flag]
  BY Fields
<1> HIDE DEF flags
<1>2. u \in Table
  BY <1>1 DEF Table
<1>3. /\ u.flags = flags /\ u.at = t.at /\ u.parent = t.parent /\ u.in_use = t.in_use
      /\ u.sigstatus = t.sigstatus /\ u.group = t.group /\ u.count = t.count /\ u.stop = t.stop
      /\ u.ignore = t.ignore /\ u.pending = t.pending /\ u.alarm = t.alarm
      /\ u.call = t.call /\ u.wrong = t.wrong
  BY DEF Table
<1>4. Rest(t, u)
  BY <1>3 DEF Rest
<1> HIDE DEF u
<1>5. [t EXCEPT !.flags[p] = F] = u
  BY DEF u, flags
<1> QED BY <1>2, <1>3, <1>4, <1>5 DEF flags

LEMMA SetAt ==
  ASSUME NEW t \in Table, NEW p \in Slots, NEW a \in State
  PROVE  LET u == [t EXCEPT !.at[p] = a]
         IN  /\ u \in Table /\ Rest(t, u) /\ u.at = [t.at EXCEPT ![p] = a]
             /\ u.flags = t.flags /\ u.parent = t.parent /\ u.in_use = t.in_use
             /\ u.sigstatus = t.sigstatus /\ u.group = t.group /\ u.count = t.count
             /\ u.stop = t.stop
<1> DEFINE at == [t.at EXCEPT ![p] = a]
           u == [t EXCEPT !.at = at]
<1>1. at \in [Slots -> State]
  BY Fields
<1> HIDE DEF at
<1>2. u \in Table
  BY <1>1 DEF Table
<1>3. /\ u.at = at /\ u.flags = t.flags /\ u.parent = t.parent /\ u.in_use = t.in_use
      /\ u.sigstatus = t.sigstatus /\ u.group = t.group /\ u.count = t.count /\ u.stop = t.stop
      /\ u.ignore = t.ignore /\ u.pending = t.pending /\ u.alarm = t.alarm
      /\ u.call = t.call /\ u.wrong = t.wrong
  BY DEF Table
<1>4. Rest(t, u)
  BY <1>3 DEF Rest
<1> HIDE DEF u
<1>5. [t EXCEPT !.at[p] = a] = u
  BY DEF u, at
<1> QED BY <1>2, <1>3, <1>4, <1>5 DEF at

(* MM wakes q, that is in wait() or pause() *)
Wake(t, q, f) == reply(Without(t, q, {f}), q)

Others(t, u) ==
  /\ u.parent = t.parent /\ u.in_use = t.in_use /\ u.sigstatus = t.sigstatus
  /\ u.group = t.group /\ u.count = t.count /\ u.stop = t.stop

Woke(t, u, q, f) ==
  /\ u \in Table /\ Rest(t, u) /\ Others(t, u)
  /\ u.flags = [t.flags EXCEPT ![q] = t.flags[q] \ {f}]
  /\ u.at = IF Live(t, q) THEN [t.at EXCEPT ![q] = "runs"] ELSE t.at

LEMMA WakeIs ==
  ASSUME NEW t \in Table, NEW q \in Slots, NEW f \in {"WAITING", "PAUSED"},
         Live(t, q) => t.at[q] = "blocked"
  PROVE  Woke(t, Wake(t, q, f), q, f)
<1> DEFINE F == t.flags[q] \ {f}
           v == [t EXCEPT !.flags[q] = F]
<1>1. F \in SUBSET Flag
  BY Fields
<1>2. Without(t, q, {f}) = v
  BY DEF Without
<1> HIDE DEF F
<1>3. /\ v \in Table /\ Rest(t, v) /\ v.flags = [t.flags EXCEPT ![q] = F]
      /\ v.at = t.at /\ v.parent = t.parent /\ v.in_use = t.in_use
      /\ v.sigstatus = t.sigstatus /\ v.group = t.group /\ v.count = t.count
      /\ v.stop = t.stop
  BY <1>1, SetFlags
<1> HIDE DEF v
<1>4. Live(v, q) <=> Live(t, q)
  BY <1>3, Fields DEF Live, Has, F
<1>5. CASE ~ Live(t, q)
  <2>1. Wake(t, q, f) = v
    BY <1>2, <1>4, <1>5 DEF Wake, reply
  <2> QED BY <1>3, <1>5, <2>1 DEF Woke, Others, F
<1>6. CASE Live(t, q)
  <2> DEFINE u == [v EXCEPT !.at[q] = "runs"]
  <2>1. Wake(t, q, f) = u
    BY <1>2, <1>3, <1>4, <1>6 DEF Wake, reply
  <2>2. /\ u \in Table /\ Rest(v, u) /\ u.at = [v.at EXCEPT ![q] = "runs"]
        /\ u.flags = v.flags /\ u.parent = v.parent /\ u.in_use = v.in_use
        /\ u.sigstatus = v.sigstatus /\ u.group = v.group /\ u.count = v.count
        /\ u.stop = v.stop
    BY <1>3, SetAt DEF State
  <2> HIDE DEF u
  <2>3. Rest(t, u) /\ Others(t, u)
    BY <1>3, <2>2 DEF Rest, Others
  <2>4. u.flags = [t.flags EXCEPT ![q] = F] /\ u.at = [t.at EXCEPT ![q] = "runs"] /\ u \in Table
    BY <1>3, <2>2
  <2> QED BY <1>6, <2>1, <2>3, <2>4 DEF Woke, F
<1> QED BY <1>5, <1>6

LEMMA WakeGood ==
  ASSUME NEW t, NEW w, NEW x, Good(t, w, x), NEW q \in Slots, NEW f \in {"WAITING", "PAUSED"},
         Has(t, q, f), q # w \/ ~ Live(t, q),
         NEW u, Woke(t, u, q, f)
  PROVE  Good(u, w, x)
<1>1. /\ t \in Table /\ InitKept(t) /\ NoHangup(t) /\ Parented(t) /\ Counted(t)
      /\ Agree(t, x) /\ Waiters(t, w) /\ "stray reply" \notin t.wrong
  BY DEF Good
<1>2. /\ u \in Table /\ Rest(t, u) /\ Others(t, u)
      /\ u.flags = [t.flags EXCEPT ![q] = t.flags[q] \ {f}]
      /\ u.at = IF Live(t, q) THEN [t.at EXCEPT ![q] = "runs"] ELSE t.at
  BY DEF Woke
<1>3. /\ t.flags \in [Slots -> SUBSET Flag] /\ t.at \in [Slots -> State]
  BY <1>1, Fields
<1>4. \A p \in Slots : /\ Has(u, p, "IN_USE") <=> Has(t, p, "IN_USE")
                       /\ Has(u, p, "HANGING") <=> Has(t, p, "HANGING")
                       /\ Live(u, p) <=> Live(t, p)
  BY <1>2, <1>3 DEF Has, Live
<1>5. InitKept(u) /\ NoHangup(u)
  BY <1>1, <1>2, <1>4, Numbers DEF InitKept, NoHangup, Rest
<1>6. Parented(u)
  BY <1>1, <1>2, <1>4, Numbers DEF Parented, Others
<1>7. Counted(u)
  <2>1. InUse(u) = InUse(t)
    BY <1>4 DEF InUse
  <2> QED BY <1>1, <1>2, <1>4, <2>1 DEF Counted, Others
<1>8. Agree(u, x)
  BY <1>1, <1>2, <1>3, <1>4 DEF Agree
<1>9. Waiters(u, w)
  <2> SUFFICES ASSUME NEW p \in Slots, Live(u, p)
               PROVE  IF p = w THEN u.at[p] = "blocked" /\ ~ Waits(u, p)
                      ELSE /\ u.at[p] = "blocked" <=> Waits(u, p)
                           /\ ~ {"WAITING", "PAUSED"} \subseteq u.flags[p]
    BY DEF Waiters
  <2>1. CASE p # q
    BY <1>1, <1>2, <1>3, <1>4, <2>1 DEF Waiters, Waits
  <2>2. CASE p = q
    <3>1. p # w /\ Live(t, p)
      BY <1>4, <2>2
    <3>2. ~ {"WAITING", "PAUSED"} \subseteq t.flags[p]
      BY <1>1, <3>1 DEF Waiters
    <3>3. u.flags[p] = t.flags[p] \ {f} /\ u.at[p] = "runs"
      BY <1>2, <1>3, <2>2, <3>1
    <3>4. ~ Waits(u, p)
      BY <2>2, <3>2, <3>3 DEF Waits, Has
    <3> QED BY <3>1, <3>3, <3>4 DEF Waits
  <2> QED BY <2>1, <2>2
<1>10. "stray reply" \notin u.wrong
  BY <1>1, <1>2 DEF Rest
<1> QED BY <1>2, <1>5, <1>6, <1>7, <1>8, <1>9, <1>10 DEF Good

(* MM replies to w, whose call it serves, and has done with it *)
LEMMA AnswerGood ==
  ASSUME NEW t, NEW w \in Slots, NEW x, Good(t, w, x), NEW f \in {"WAITING", "PAUSED"},
         NEW u, Woke(t, u, w, f)
  PROVE  Good(u, MM_PROC_NR, x)
<1>1. /\ t \in Table /\ InitKept(t) /\ NoHangup(t) /\ Parented(t) /\ Counted(t)
      /\ Agree(t, x) /\ Waiters(t, w) /\ "stray reply" \notin t.wrong
  BY DEF Good
<1>2. /\ u \in Table /\ Rest(t, u) /\ Others(t, u)
      /\ u.flags = [t.flags EXCEPT ![w] = t.flags[w] \ {f}]
      /\ u.at = IF Live(t, w) THEN [t.at EXCEPT ![w] = "runs"] ELSE t.at
  BY DEF Woke
<1>3. /\ t.flags \in [Slots -> SUBSET Flag] /\ t.at \in [Slots -> State]
  BY <1>1, Fields
<1>4. \A p \in Slots : /\ Has(u, p, "IN_USE") <=> Has(t, p, "IN_USE")
                       /\ Has(u, p, "HANGING") <=> Has(t, p, "HANGING")
                       /\ Live(u, p) <=> Live(t, p)
  BY <1>2, <1>3 DEF Has, Live
<1>5. InitKept(u) /\ NoHangup(u)
  BY <1>1, <1>2, <1>4, Numbers DEF InitKept, NoHangup, Rest
<1>6. Parented(u)
  BY <1>1, <1>2, <1>4, Numbers DEF Parented, Others
<1>7. Counted(u)
  <2>1. InUse(u) = InUse(t)
    BY <1>4 DEF InUse
  <2> QED BY <1>1, <1>2, <1>4, <2>1 DEF Counted, Others
<1>8. Agree(u, x)
  BY <1>1, <1>2, <1>3, <1>4 DEF Agree
<1>9. Waiters(u, MM_PROC_NR)
  <2> SUFFICES ASSUME NEW p \in Slots, Live(u, p)
               PROVE  /\ u.at[p] = "blocked" <=> Waits(u, p)
                      /\ ~ {"WAITING", "PAUSED"} \subseteq u.flags[p]
    BY Numbers DEF Waiters
  <2>1. CASE p # w
    BY <1>1, <1>2, <1>3, <1>4, <2>1 DEF Waiters, Waits
  <2>2. CASE p = w
    BY <1>1, <1>2, <1>3, <1>4, <2>2 DEF Waiters, Waits
  <2> QED BY <2>1, <2>2
<1>10. "stray reply" \notin u.wrong
  BY <1>1, <1>2 DEF Rest
<1> QED BY <1>2, <1>5, <1>6, <1>7, <1>8, <1>9, <1>10 DEF Good

LEMMA WaiterBlocked ==
  ASSUME NEW t, NEW w, NEW x, Good(t, w, x), NEW q \in Slots, NEW f \in {"WAITING", "PAUSED"},
         Has(t, q, f) \/ q = w
  PROVE  /\ Live(t, q) => t.at[q] = "blocked"
         /\ Has(t, q, f) => q # w \/ ~ Live(t, q)
BY DEF Good, Waiters, Waits, Has

(* What a process is told is not changed by less to be told *)
Quieter(t, u) ==
  /\ \A p \in Slots : /\ Live(u, p) => Live(t, p)
                      /\ Live(u, p) /\ Has(u, p, "WAITING") => Has(t, p, "WAITING")
  /\ \A c \in Slots : Has(u, c, "IN_USE") =>
       /\ Has(t, c, "IN_USE") /\ u.parent[c] = t.parent[c]
       /\ Has(u, c, "HANGING") => Has(t, c, "HANGING")
       /\ Reports(u, c) => Reports(t, c)

LEMMA QuieterTold ==
  ASSUME NEW t, NEW u, Quieter(t, u), Told(t)
  PROVE  Told(u)
BY DEF Quieter, Told, IsTold, Children

LEMMA WakeTold ==
  ASSUME NEW t \in Table, NEW q \in Slots, NEW f \in {"WAITING", "PAUSED"},
         NEW u, Woke(t, u, q, f), Told(t)
  PROVE  Told(u)
<1>1. t.flags \in [Slots -> SUBSET Flag]
  BY Fields
<1>2. Quieter(t, u)
  BY <1>1 DEF Quieter, Woke, Others, Live, Has, Reports
<1> QED BY <1>2, QuieterTold

-----------------------------------------------------------------------------
(* A slot is given back *)

Freeing == {"TRACED", "HANGING", "PAUSED", "IN_USE"}

Reap(t, p) == Disinherit(Release(t, p), p)

Freed(t, u, p) ==
  /\ u \in Table /\ Rest(t, u) /\ u.at = t.at
  /\ u.flags = [t.flags EXCEPT ![p] = t.flags[p] \ Freeing]
  /\ u.parent = [c \in Slots |-> IF t.parent[c] = p THEN INIT ELSE t.parent[c]]
  /\ u.in_use = t.in_use - 1
  /\ u.sigstatus = t.sigstatus /\ u.group = t.group /\ u.count = t.count /\ u.stop = t.stop

LEMMA FreeIs ==
  ASSUME NEW t \in Table, NEW p \in Slots, t.in_use # 0
  PROVE  Freed(t, Disinherit([Without(t, p, Freeing) EXCEPT !.in_use = @ - 1], p), p)
<1> DEFINE F == t.flags[p] \ Freeing
           P == [c \in Slots |-> IF t.parent[c] = p THEN INIT ELSE t.parent[c]]
           n == t.in_use - 1
           v == [t EXCEPT !.flags[p] = F]
           u == [v EXCEPT !.in_use = n, !.parent = P]
<1>1. F \in SUBSET Flag /\ n \in Nat /\ P \in [Slots -> Slots \cup {MM_PROC_NR}]
  BY Fields, Numbers
<1>2. Without(t, p, Freeing) = v
  BY DEF Without
<1> HIDE DEF F
<1>3. /\ v \in Table /\ Rest(t, v) /\ v.flags = [t.flags EXCEPT ![p] = F]
      /\ v.at = t.at /\ v.parent = t.parent /\ v.in_use = t.in_use
      /\ v.sigstatus = t.sigstatus /\ v.group = t.group /\ v.count = t.count
      /\ v.stop = t.stop
  BY <1>1, SetFlags
<1> HIDE DEF v
<1>4. Disinherit([v EXCEPT !.in_use = @ - 1], p) = u
  <2> DEFINE y == [v EXCEPT !.in_use = @ - 1]
  <2>1. y = [v EXCEPT !.in_use = n] /\ y.parent = t.parent
    BY <1>3 DEF Table
  <2>2. [c \in Slots |-> IF y.parent[c] = p THEN INIT ELSE y.parent[c]] = P
    BY <2>1
  <2> HIDE DEF y, P
  <2>3. Disinherit(y, p) = [y EXCEPT !.parent = P]
    BY <2>2 DEF Disinherit
  <2> QED BY <2>1, <2>3 DEF y
<1> HIDE DEF P, n
<1>5. u \in Table
  BY <1>1, <1>3 DEF Table
<1>6. /\ u.flags = v.flags /\ u.at = v.at /\ u.parent = P /\ u.in_use = n
      /\ u.sigstatus = v.sigstatus /\ u.group = v.group /\ u.count = v.count /\ u.stop = v.stop
      /\ u.ignore = v.ignore /\ u.pending = v.pending /\ u.alarm = v.alarm
      /\ u.call = v.call /\ u.wrong = v.wrong
  BY <1>3 DEF Table
<1> HIDE DEF u
<1>7. Rest(t, u)
  BY <1>3, <1>6 DEF Rest
<1>8. Freed(t, u, p)
  BY <1>3, <1>5, <1>6, <1>7 DEF Freed, F, P, n
<1> QED BY <1>2, <1>4, <1>8

LEMMA ReapIs ==
  ASSUME NEW t \in Table, NEW p \in Slots, t.parent[p] \in Slots \ {p}, t.in_use # 0,
         Live(t, t.parent[p]) => t.at[t.parent[p]] = "blocked"
  PROVE  LET v == Wake(t, t.parent[p], "WAITING")
         IN  Woke(t, v, t.parent[p], "WAITING") /\ Freed(v, Reap(t, p), p)
<1> DEFINE q == t.parent[p]
           v == Wake(t, q, "WAITING")
<1>1. Woke(t, v, q, "WAITING")
  BY WakeIs
<1>2. Without(reply(t, q), q, {"WAITING"}) = v /\ reply(t, q).parent = t.parent
  <2>1. CASE ~ Live(t, q)
    <3>1. ~ Live(Without(t, q, {"WAITING"}), q)
      BY <2>1, Fields DEF Live, Has, Without, Table
    <3> QED BY <2>1, <3>1 DEF Wake, reply
  <2>2. CASE Live(t, q)
    <3>1. Live(Without(t, q, {"WAITING"}), q) /\ Without(t, q, {"WAITING"}).at = t.at
      BY <2>2, Fields DEF Live, Has, Without, Table
    <3>2. reply(t, q) = [t EXCEPT !.at[q] = "runs"]
      BY <2>2 DEF reply
    <3>3. Wake(t, q, "WAITING") = [Without(t, q, {"WAITING"}) EXCEPT !.at[q] = "runs"]
      BY <2>2, <3>1 DEF Wake, reply
    <3> QED BY <3>2, <3>3 DEF Without, Table
  <2> QED BY <2>1, <2>2
<1>3. Reap(t, p) = Disinherit([Without(v, p, Freeing) EXCEPT !.in_use = @ - 1], p)
  BY <1>2 DEF Reap, Release, Freeing
<1>4. v \in Table /\ v.in_use # 0
  BY <1>1 DEF Woke, Others
<1> HIDE DEF v
<1>5. Freed(v, Reap(t, p), p)
  BY <1>3, <1>4, FreeIs
<1> QED BY <1>1, <1>5 DEF v

LEMMA UsersCounted ==
  ASSUME NEW t, NEW p \in Slots, Has(t, p, "IN_USE"), Counted(t)
  PROVE  t.in_use \in Nat /\ t.in_use >= 3 /\ Cardinality(InUse(t) \ {p}) = t.in_use - 3
<1>1. IsFiniteSet(InUse(t)) /\ p \in InUse(t)
  BY SlotsFinite, FS_Subset DEF InUse
<1>2. Cardinality(InUse(t) \ {p}) = Cardinality(InUse(t)) - 1
  BY <1>1, FS_RemoveElement
<1>3. Cardinality(InUse(t)) \in Nat /\ Cardinality(InUse(t) \ {p}) \in Nat
  BY <1>1, FS_CardinalityType, FS_RemoveElement
<1> QED BY <1>2, <1>3 DEF Counted

LEMMA FreedFlags ==
  ASSUME NEW t \in Table, NEW p \in Slots, NEW u, Freed(t, u, p)
  PROVE  /\ \A r \in Slots \ {p} : u.flags[r] = t.flags[r] /\ (Live(u, r) <=> Live(t, r))
         /\ ~ Has(u, p, "IN_USE") /\ ~ Has(u, p, "HANGING") /\ ~ Live(u, p)
BY Fields DEF Freed, Has, Live, Freeing

LEMMA FreedGood ==
  ASSUME NEW t, NEW w, NEW x, Good(t, w, x), NEW p \in Users, Has(t, p, "IN_USE"),
         p = x \/ Has(t, p, "HANGING"),
         NEW u, Freed(t, u, p)
  PROVE  Good(u, w, x)
<1>1. /\ t \in Table /\ InitKept(t) /\ NoHangup(t) /\ Parented(t) /\ Counted(t)
      /\ Agree(t, x) /\ Waiters(t, w) /\ "stray reply" \notin t.wrong
  BY DEF Good
<1>2. /\ u \in Table /\ Rest(t, u) /\ u.at = t.at /\ u.in_use = t.in_use - 1
      /\ u.parent = [c \in Slots |-> IF t.parent[c] = p THEN INIT ELSE t.parent[c]]
  BY DEF Freed
<1>3. p \in Slots /\ p # INIT /\ INIT \in Slots
  BY Numbers DEF Users
<1>4. /\ \A r \in Slots \ {p} : u.flags[r] = t.flags[r] /\ (Live(u, r) <=> Live(t, r))
      /\ ~ Has(u, p, "IN_USE") /\ ~ Has(u, p, "HANGING") /\ ~ Live(u, p)
  BY <1>1, <1>3, FreedFlags
<1>5. InitKept(u) /\ NoHangup(u)
  BY <1>1, <1>2, <1>3, <1>4 DEF InitKept, NoHangup, Rest
<1>6. Parented(u)
  <2> SUFFICES ASSUME NEW r \in Users, Has(u, r, "IN_USE")
               PROVE  u.parent[r] \in Slots \ {r} /\ Has(u, u.parent[r], "IN_USE")
    BY DEF Parented
  <2>1. r # p /\ Has(t, r, "IN_USE") /\ r \in Slots /\ r # INIT
    BY <1>4, Numbers DEF Has, Users
  <2>2. t.parent[r] \in Slots \ {r} /\ Has(t, t.parent[r], "IN_USE")
    BY <1>1, <2>1 DEF Parented
  <2>3. Has(u, INIT, "IN_USE")
    BY <1>5 DEF InitKept, Live
  <2>4. CASE t.parent[r] = p
    BY <1>2, <1>3, <2>1, <2>3, <2>4
  <2>5. CASE t.parent[r] # p
    BY <1>2, <1>4, <2>1, <2>2, <2>5 DEF Has
  <2> QED BY <2>4, <2>5
<1>7. Counted(u)
  <2>1. InUse(u) = InUse(t) \ {p}
    BY <1>3, <1>4 DEF InUse, Has
  <2>2. t.in_use \in Nat /\ Cardinality(InUse(t) \ {p}) = t.in_use - 3
    BY <1>1, <1>3, UsersCounted
  <2>3. \A r \in Slots : Has(u, r, "HANGING") => Has(u, r, "IN_USE")
    BY <1>1, <1>4 DEF Counted, Has
  <2> QED BY <1>2, <2>1, <2>2, <2>3 DEF Counted
<1>8. Agree(u, x)
  BY <1>1, <1>2, <1>4 DEF Agree, Live
<1>9. Waiters(u, w)
  BY <1>1, <1>2, <1>4 DEF Waiters, Waits
<1>10. "stray reply" \notin u.wrong
  BY <1>1, <1>2 DEF Rest
<1> QED BY <1>2, <1>5, <1>6, <1>7, <1>8, <1>9, <1>10 DEF Good

(* All but INIT are told as before; so is INIT if it inherits none that is *)
(* dead, or does not wait                                                  *)
LEMMA FreedTold ==
  ASSUME NEW t, NEW w, NEW x, Good(t, w, x), NEW p \in Users, NEW u, Freed(t, u, p), Told(t)
  PROVE  /\ \A r \in Slots \ {INIT} : IsTold(u, r)
         /\ Has(u, INIT, "WAITING") =>
              \/ \E c \in Slots : t.parent[c] = p /\ Has(t, c, "HANGING") /\ c # p
              \/ Told(u)
<1>1. t \in Table
  BY DEF Good
<1>2. p \in Slots /\ p # INIT /\ INIT \in Slots
  BY Numbers DEF Users
<1>3. /\ u.sigstatus = t.sigstatus
      /\ u.parent = [c \in Slots |-> IF t.parent[c] = p THEN INIT ELSE t.parent[c]]
  BY DEF Freed
<1>4. /\ \A r \in Slots \ {p} : u.flags[r] = t.flags[r] /\ (Live(u, r) <=> Live(t, r))
      /\ ~ Has(u, p, "IN_USE") /\ ~ Has(u, p, "HANGING") /\ ~ Live(u, p)
  BY <1>1, <1>2, FreedFlags
<1>5. ASSUME NEW r \in Slots \ {INIT} PROVE IsTold(u, r)
  <2> SUFFICES ASSUME Live(u, r), Has(u, r, "WAITING"), NEW c \in Children(u, r)
               PROVE  ~ Has(u, c, "HANGING") /\ (Reports(u, c) => r = INIT)
    BY DEF IsTold
  <2>1. c \in Slots /\ c # p /\ r # p /\ u.parent[c] = r /\ Has(u, c, "IN_USE")
    BY <1>4 DEF Children
  <2>2. t.parent[c] = r /\ Has(t, c, "IN_USE") /\ Live(t, r) /\ Has(t, r, "WAITING")
    BY <1>3, <1>4, <2>1 DEF Has
  <2>3. ~ Has(t, c, "HANGING") /\ (Reports(t, c) => r = INIT)
    BY <2>1, <2>2 DEF Told, IsTold, Children
  <2> QED BY <1>3, <1>4, <2>1, <2>3 DEF Has, Reports
<1>6. ASSUME Has(u, INIT, "WAITING"),
             \A c \in Slots : t.parent[c] = p /\ Has(t, c, "HANGING") => c = p
      PROVE  IsTold(u, INIT)
  <2> SUFFICES ASSUME Live(u, INIT), NEW c \in Children(u, INIT)
               PROVE  ~ Has(u, c, "HANGING")
    BY DEF IsTold
  <2>1. c \in Slots /\ c # p /\ u.parent[c] = INIT /\ Has(u, c, "IN_USE")
    BY <1>4 DEF Children
  <2>2. Has(t, c, "IN_USE") /\ (Has(u, c, "HANGING") <=> Has(t, c, "HANGING"))
        /\ Live(t, INIT) /\ Has(t, INIT, "WAITING")
    BY <1>2, <1>4, <1>6, <2>1 DEF Has
  <2>3. t.parent[c] = p \/ t.parent[c] = INIT
    BY <1>3, <2>1
  <2>4. t.parent[c] = INIT => ~ Has(t, c, "HANGING")
    BY <1>2, <2>1, <2>2 DEF Told, IsTold, Children
  <2> QED BY <1>6, <2>1, <2>2, <2>3, <2>4
<1>7. \A r \in Slots : r = INIT \/ r \in Slots \ {INIT}
  OBVIOUS
<1> QED BY <1>5, <1>6, <1>7 DEF Told

-----------------------------------------------------------------------------
(* cleanup() *)

DeadChildren(t, p) == {c \in Slots \ {p} : t.parent[c] = p /\ Has(t, c, "HANGING")}

LEMMA CleanupIs ==
  ASSUME NEW t \in Table, NEW p \in Users, t.parent[p] \in Slots \ {p}, t.in_use # 0,
         Live(t, t.parent[p]) => t.at[t.parent[p]] = "blocked"
  PROVE  LET a == Reap(t, p)
             D == DeadChildren(t, p)
         IN  cleanup(t, p) = IF Has(a, INIT, "WAITING") /\ D # {} THEN Reap(a, Min(D)) ELSE a
<1> DEFINE q == t.parent[p]
           v == Wake(t, q, "WAITING")
           R == Release(t, p)
           a == Reap(t, p)
           D == DeadChildren(t, p)
<1>0. p \in Slots
  BY Numbers
<1>1. Woke(t, v, q, "WAITING") /\ Freed(v, a, p)
  BY <1>0, ReapIs
<1> HIDE DEF v
<1>2. R.flags = a.flags /\ R.parent = t.parent
  <2>1. a = Disinherit(R, p)
    BY DEF Reap
  <2>2. reply(t, q).parent = t.parent
    BY DEF reply, Table
  <2>3. R.parent = t.parent
    BY <2>2 DEF Release, Without
  <2>4. Disinherit(R, p).flags = R.flags
    BY DEF Disinherit
  <2> QED BY <2>1, <2>3, <2>4
<1>3. D = {c \in Slots : R.parent[c] = p /\ Has(R, c, "HANGING")}
  <2>1. v \in Table /\ v.flags = [t.flags EXCEPT ![q] = t.flags[q] \ {"WAITING"}]
    BY <1>1 DEF Woke
  <2>2. \A c \in Slots : Has(v, c, "HANGING") <=> Has(t, c, "HANGING")
    BY <2>1, Fields DEF Has
  <2>3. /\ \A c \in Slots \ {p} : Has(a, c, "HANGING") <=> Has(t, c, "HANGING")
        /\ ~ Has(a, p, "HANGING")
    <3> HIDE DEF a
    <3>1. (\A c \in Slots \ {p} : a.flags[c] = v.flags[c]) /\ ~ Has(a, p, "HANGING")
      BY <1>0, <1>1, <2>1, FreedFlags
    <3> QED BY <2>2, <3>1 DEF Has
  <2>4. \A c \in Slots : Has(R, c, "HANGING") <=> Has(a, c, "HANGING")
    BY <1>2 DEF Has
  <2> HIDE DEF R, a
  <2> QED BY <1>2, <2>3, <2>4 DEF DeadChildren
<1>4. Has(R, INIT, "WAITING") <=> Has(a, INIT, "WAITING")
  BY <1>2 DEF Has
<1>5. a = Disinherit(R, p)
  BY DEF Reap
<1>6. cleanup(t, p) = IF Has(R, INIT, "WAITING") /\ D # {}
                      THEN Disinherit(Release(a, Min(D)), Min(D)) ELSE a
  <2> HIDE DEF D
  <2> QED BY <1>3, <1>5 DEF cleanup
<1> HIDE DEF R, a, D
<1>7. cleanup(t, p) = IF Has(a, INIT, "WAITING") /\ D # {} THEN Reap(a, Min(D)) ELSE a
  BY <1>4, <1>6 DEF Reap
<1> QED BY <1>7 DEF a, D

(* The process that MM works for after its reply to q *)
After(w, q) == IF q = w THEN MM_PROC_NR ELSE w

LEMMA WokenTold ==
  ASSUME NEW t \in Table, NEW q \in Slots, \A r \in Slots \ {q} : IsTold(t, r),
         NEW u, Woke(t, u, q, "WAITING")
  PROVE  Told(u)
<1>1. t.flags \in [Slots -> SUBSET Flag]
  BY Fields
<1>2. /\ u.flags = [t.flags EXCEPT ![q] = t.flags[q] \ {"WAITING"}]
      /\ u.parent = t.parent /\ u.sigstatus = t.sigstatus
  BY DEF Woke, Others
<1>3. \A p \in Slots : /\ Live(u, p) <=> Live(t, p)
                       /\ Has(u, p, "WAITING") => Has(t, p, "WAITING") /\ p # q
                       /\ Has(u, p, "IN_USE") <=> Has(t, p, "IN_USE")
                       /\ Has(u, p, "HANGING") <=> Has(t, p, "HANGING")
                       /\ Reports(u, p) <=> Reports(t, p)
  BY <1>1, <1>2 DEF Live, Has, Reports
<1>4. \A p \in Slots : Children(u, p) = Children(t, p)
  BY <1>2, <1>3 DEF Children
<1> QED BY <1>3, <1>4 DEF Told, IsTold, Children

(* p, that has exited, is taken notice of by its parent *)
LEMMA ReapGood ==
  ASSUME NEW t, NEW w, NEW x, Good(t, w, x), NEW p \in Users, Has(t, p, "IN_USE"),
         ToldBut(t, p),
         p = x \/ Has(t, p, "HANGING"),
         Has(t, t.parent[p], "WAITING") \/ t.parent[p] = w
  PROVE  /\ t \in Table /\ t.parent[p] \in Slots \ {p} /\ t.in_use # 0
         /\ Live(t, t.parent[p]) => t.at[t.parent[p]] = "blocked"
         /\ Good(Reap(t, p), After(w, t.parent[p]), x)
         /\ \A r \in Slots \ {INIT} : IsTold(Reap(t, p), r)
         /\ Has(Reap(t, p), INIT, "WAITING") => DeadChildren(t, p) # {} \/ Told(Reap(t, p))
         /\ \A c \in Slots \ {p} : /\ Has(Reap(t, p), c, "IN_USE") <=> Has(t, c, "IN_USE")
                                   /\ Has(Reap(t, p), c, "HANGING") <=> Has(t, c, "HANGING")
         /\ \A c \in Slots : t.parent[c] = p => Reap(t, p).parent[c] = INIT
         /\ ~ Has(Reap(t, p), p, "IN_USE")
         /\ t.parent[p] = INIT => ~ Has(Reap(t, p), INIT, "WAITING")
<1> DEFINE q == t.parent[p]
           v == Wake(t, q, "WAITING")
           a == Reap(t, p)
<1>1. t \in Table /\ Parented(t) /\ Counted(t) /\ p \in Slots /\ p # INIT /\ INIT \in Slots
  BY Numbers DEF Good, Users
<1>2. q \in Slots \ {p} /\ t.in_use # 0
  <2>1. q \in Slots \ {p}
    BY <1>1 DEF Parented
  <2>2. t.in_use >= 3
    BY <1>1, UsersCounted
  <2> QED BY <2>1, <2>2
<1>3. Live(t, q) => t.at[q] = "blocked"
  BY <1>2, WaiterBlocked
<1>4. Woke(t, v, q, "WAITING") /\ Freed(v, a, p)
  BY <1>1, <1>2, <1>3, ReapIs
<1> HIDE DEF v, a
<1>5. /\ v \in Table /\ v.parent = t.parent
      /\ v.flags = [t.flags EXCEPT ![q] = t.flags[q] \ {"WAITING"}]
  BY <1>4 DEF Woke, Others
<1>6. \A c \in Slots : /\ Has(v, c, "IN_USE") <=> Has(t, c, "IN_USE")
                       /\ Has(v, c, "HANGING") <=> Has(t, c, "HANGING")
  BY <1>1, <1>5, Fields DEF Has
<1>7. Good(v, After(w, q), x)
  <2>1. CASE q = w
    <3>1. Good(v, MM_PROC_NR, x)
      BY <1>2, <1>4, <2>1, AnswerGood
    <3> QED BY <2>1, <3>1 DEF After
  <2>2. CASE q # w
    <3>1. Good(v, w, x)
      BY <1>2, <1>4, <2>2, WakeGood
    <3> QED BY <2>2, <3>1 DEF After
  <2> QED BY <2>1, <2>2
<1>8. Good(a, After(w, q), x)
  BY <1>1, <1>4, <1>6, <1>7, FreedGood
<1>9. Told(v)
  BY <1>1, <1>2, <1>4, WokenTold DEF ToldBut
<1>10. /\ \A r \in Slots \ {INIT} : IsTold(a, r)
       /\ Has(a, INIT, "WAITING") =>
            \/ \E c \in Slots : v.parent[c] = p /\ Has(v, c, "HANGING") /\ c # p
            \/ Told(a)
  BY <1>4, <1>7, <1>9, FreedTold
<1>11. (\E c \in Slots : v.parent[c] = p /\ Has(v, c, "HANGING") /\ c # p) => DeadChildren(t, p) # {}
  BY <1>5, <1>6 DEF DeadChildren
<1>12. /\ \A r \in Slots \ {p} : a.flags[r] = v.flags[r]
       /\ ~ Has(a, p, "IN_USE")
  BY <1>1, <1>4, <1>5, FreedFlags
<1>13. \A c \in Slots \ {p} : /\ Has(a, c, "IN_USE") <=> Has(t, c, "IN_USE")
                              /\ Has(a, c, "HANGING") <=> Has(t, c, "HANGING")
  BY <1>6, <1>12 DEF Has
<1>14. \A c \in Slots : t.parent[c] = p => a.parent[c] = INIT
  BY <1>4, <1>5 DEF Freed
<1>15. q = INIT => ~ Has(a, INIT, "WAITING")
  BY <1>1, <1>2, <1>5, <1>12, Fields DEF Has
<1> QED BY <1>1, <1>2, <1>3, <1>8, <1>10, <1>11, <1>12, <1>13, <1>14, <1>15 DEF a

LEMMA CleanupGood ==
  ASSUME NEW t, NEW w, NEW x, Good(t, w, x), NEW p \in Users, Has(t, p, "IN_USE"),
         ToldBut(t, p),
         p = x \/ Has(t, p, "HANGING"),
         Has(t, t.parent[p], "WAITING") \/ t.parent[p] = w
  PROVE  /\ Good(cleanup(t, p), After(w, t.parent[p]), x)
         /\ Told(cleanup(t, p)) /\ ~ Has(cleanup(t, p), p, "IN_USE")
         /\ \A c \in Slots : Live(cleanup(t, p), c) => Live(t, c)
<1> DEFINE q == t.parent[p]
           z == After(w, q)
           a == Reap(t, p)
           D == DeadChildren(t, p)
<1>1. /\ t \in Table /\ q \in Slots \ {p} /\ t.in_use # 0
      /\ Live(t, q) => t.at[q] = "blocked"
      /\ Good(a, z, x)
      /\ \A r \in Slots \ {INIT} : IsTold(a, r)
      /\ Has(a, INIT, "WAITING") => D # {} \/ Told(a)
      /\ \A c \in Slots \ {p} : /\ Has(a, c, "IN_USE") <=> Has(t, c, "IN_USE")
                                /\ Has(a, c, "HANGING") <=> Has(t, c, "HANGING")
      /\ \A c \in Slots : t.parent[c] = p => a.parent[c] = INIT
      /\ ~ Has(a, p, "IN_USE")
  BY ReapGood
<1>2. cleanup(t, p) = IF Has(a, INIT, "WAITING") /\ D # {} THEN Reap(a, Min(D)) ELSE a
  BY <1>1, CleanupIs
<1> HIDE DEF a, D, z
<1>l. \A c \in Slots : Live(a, c) => Live(t, c)
  BY <1>1 DEF Live
<1>3. CASE ~ Has(a, INIT, "WAITING")
  <2>1. Told(a)
    BY <1>1, <1>3 DEF Told, IsTold
  <2> QED BY <1>1, <1>2, <1>3, <1>l, <2>1 DEF z
<1>4. CASE Has(a, INIT, "WAITING") /\ D = {}
  BY <1>1, <1>2, <1>4, <1>l DEF z
<1>5. CASE Has(a, INIT, "WAITING") /\ D # {}
  <2> DEFINE m == Min(D)
             b == Reap(a, m)
  <2>1. m \in D
    <3>1. D \in SUBSET Slots
      BY DEF D, DeadChildren
    <3> QED BY <1>5, <3>1, MinSlot
  <2>2. cleanup(t, p) = b
    BY <1>2, <1>5
  <2> HIDE DEF m, b
  <2>3. m \in Slots \ {p} /\ t.parent[m] = p /\ Has(t, m, "HANGING")
    BY <2>1 DEF D, DeadChildren
  <2>4. Has(a, m, "HANGING") /\ a.parent[m] = INIT /\ Has(a, m, "IN_USE")
    <3>1. Counted(a)
      BY <1>1 DEF Good
    <3> QED BY <1>1, <2>3, <3>1 DEF Counted
  <2>5. m \in Users
    <3>1. Live(a, INIT)
      BY <1>1 DEF Good, InitKept
    <3> QED BY <2>3, <2>4, <3>1, Numbers DEF Live, Users
  <2>6. INIT # z /\ After(z, INIT) = z
    <3>1. INIT \in Slots /\ Live(a, INIT)
      BY <1>1, Numbers DEF Good, InitKept
    <3> QED BY <1>1, <1>5, <3>1, WaiterBlocked DEF After
  <2>7. /\ Good(b, After(z, a.parent[m]), x)
        /\ \A r \in Slots \ {INIT} : IsTold(b, r)
        /\ \A c \in Slots \ {m} : /\ Has(b, c, "IN_USE") <=> Has(a, c, "IN_USE")
                                  /\ Has(b, c, "HANGING") <=> Has(a, c, "HANGING")
        /\ ~ Has(b, m, "IN_USE")
        /\ a.parent[m] = INIT => ~ Has(b, INIT, "WAITING")
    <3>1. ToldBut(a, m)
      BY <1>1, <2>4 DEF ToldBut
    <3> QED BY <1>1, <1>5, <2>4, <2>5, <3>1, ReapGood DEF b
  <2>8. Told(b)
    BY <2>4, <2>7 DEF Told, IsTold
  <2>9. ~ Has(b, p, "IN_USE")
    BY <1>1, <2>3, <2>7, Numbers
  <2>10. \A c \in Slots : Live(b, c) => Live(t, c)
    BY <1>l, <2>7 DEF Live
  <2> QED BY <2>2, <2>4, <2>6, <2>7, <2>8, <2>9, <2>10 DEF z
<1> QED BY <1>3, <1>4, <1>5

-----------------------------------------------------------------------------
(* mm_exit() *)

(* p is gone in the kernel *)
Gone(t, g, p) ==
  /\ g \in Table /\ g.parent = t.parent /\ g.in_use = t.in_use /\ g.sigstatus = t.sigstatus
  /\ g.group = t.group
  /\ \A r \in Slots \ {p} : /\ g.flags[r] = t.flags[r] /\ g.at[r] = t.at[r]
                            /\ g.pending[r] = t.pending[r] /\ g.alarm[r] = t.alarm[r]
                            /\ g.call[r] = t.call[r] /\ g.ignore[r] = t.ignore[r]
                            /\ g.count[r] = t.count[r] /\ g.stop[r] = t.stop[r]
  /\ \A f \in Flag \ {"ALARM_ON"} : Has(g, p, f) <=> Has(t, p, f)
  /\ g.at[p] = "free" /\ (g.pending[p] = {} \/ g.pending[p] = t.pending[p])
  /\ g.wrong \subseteq t.wrong \cup {"second exit"}

LEMMA AlarmOff ==
  ASSUME NEW t \in Table, NEW p \in Slots
  PROVE  LET u == set_alarm(t, p, FALSE)
         IN  /\ u \in Table /\ u.parent = t.parent /\ u.in_use = t.in_use
             /\ u.sigstatus = t.sigstatus /\ u.group = t.group /\ u.at = t.at
             /\ u.pending = t.pending /\ u.call = t.call /\ u.ignore = t.ignore
             /\ u.count = t.count /\ u.stop = t.stop /\ u.wrong = t.wrong
             /\ u.flags = [t.flags EXCEPT ![p] = t.flags[p] \ {"ALARM_ON"}]
             /\ u.alarm = [t.alarm EXCEPT ![p] = FALSE]
<1> DEFINE F == t.flags[p] \ {"ALARM_ON"}
           A == [t.alarm EXCEPT ![p] = FALSE]
           v == [t EXCEPT !.flags[p] = F]
           u == [v EXCEPT !.alarm = A]
<1>1. F \in SUBSET Flag /\ A \in [Slots -> BOOLEAN]
  BY Fields
<1> HIDE DEF F
<1>2. v \in Table /\ v.alarm = t.alarm
  <2>1. v \in Table
    BY <1>1, SetFlags
  <2> QED BY <2>1 DEF Table
<1>3. set_alarm(t, p, FALSE) = u
  BY <1>2 DEF set_alarm, Without, F
<1> HIDE DEF A
<1>4. u \in Table
  BY <1>1, <1>2 DEF Table
<1>5. /\ u.parent = t.parent /\ u.in_use = t.in_use
      /\ u.sigstatus = t.sigstatus /\ u.group = t.group /\ u.at = t.at
      /\ u.pending = t.pending /\ u.call = t.call /\ u.ignore = t.ignore
      /\ u.count = t.count /\ u.stop = t.stop /\ u.wrong = t.wrong
      /\ u.flags = [t.flags EXCEPT ![p] = F] /\ u.alarm = A
  BY DEF Table
<1> HIDE DEF u
<1> QED BY <1>3, <1>4, <1>5 DEF F, A

LEMMA XitIs ==
  ASSUME NEW t \in Table, NEW p \in Slots
  PROVE  Gone(t, sys_xit(t, p), p)
<1> DEFINE g == sys_xit(t, p)
<1>1. CASE t.at[p] = "free"
  <2>1. g = [t EXCEPT !.wrong = t.wrong \cup {"second exit"}]
    BY <1>1 DEF sys_xit
  <2> HIDE DEF g
  <2>2. g \in Table
    BY <2>1 DEF Table, Disaster
  <2>3. /\ g.parent = t.parent /\ g.in_use = t.in_use /\ g.sigstatus = t.sigstatus
        /\ g.group = t.group /\ g.flags = t.flags /\ g.at = t.at /\ g.pending = t.pending
        /\ g.alarm = t.alarm /\ g.call = t.call /\ g.ignore = t.ignore /\ g.count = t.count
        /\ g.stop = t.stop /\ g.wrong = t.wrong \cup {"second exit"}
    BY <2>1 DEF Table
  <2> QED BY <1>1, <2>2, <2>3 DEF Gone, Has, g
<1>2. CASE t.at[p] # "free"
  <2> DEFINE at == [t.at EXCEPT ![p] = "free"]
             call == [t.call EXCEPT ![p] = NoCall]
             pending == [t.pending EXCEPT ![p] = {}]
             count == [t.count EXCEPT ![p] = 0]
             alarm == [t.alarm EXCEPT ![p] = FALSE]
             stop == [t.stop EXCEPT ![p] = FALSE]
             h == [t EXCEPT !.at = at, !.call = call, !.pending = pending, !.count = count,
                            !.alarm = alarm, !.stop = stop]
  <2>1. g = h
    BY <1>2 DEF sys_xit
  <2>2. /\ at \in [Slots -> State] /\ call \in [Slots -> AllCalls \cup {NoCall}]
        /\ pending \in [Slots -> SUBSET Sigs] /\ count \in [Slots -> Nat]
        /\ alarm \in [Slots -> BOOLEAN] /\ stop \in [Slots -> BOOLEAN]
    BY Fields DEF State
  <2>k. /\ \A r \in Slots \ {p} : /\ at[r] = t.at[r] /\ call[r] = t.call[r]
                                  /\ pending[r] = t.pending[r] /\ count[r] = t.count[r]
                                  /\ alarm[r] = t.alarm[r] /\ stop[r] = t.stop[r]
        /\ at[p] = "free" /\ pending[p] = {}
    BY Fields
  <2> HIDE DEF at, call, pending, count, alarm, stop, g
  <2>3. h \in Table
    BY <2>2 DEF Table
  <2>4. /\ h.parent = t.parent /\ h.in_use = t.in_use /\ h.sigstatus = t.sigstatus
        /\ h.group = t.group /\ h.flags = t.flags /\ h.ignore = t.ignore /\ h.wrong = t.wrong
        /\ h.at = at /\ h.call = call /\ h.pending = pending /\ h.count = count
        /\ h.alarm = alarm /\ h.stop = stop
    BY DEF Table
  <2> HIDE DEF h
  <2>5. Gone(t, h, p)
    BY <2>3, <2>4, <2>k DEF Gone, Has
  <2> QED BY <2>1, <2>5 DEF g
<1> QED BY <1>1, <1>2

Silenced(t, p) == IF Has(t, p, "ALARM_ON") THEN set_alarm(t, p, FALSE) ELSE t

LEMMA GoneIs ==
  ASSUME NEW t \in Table, NEW p \in Slots
  PROVE  Gone(t, sys_xit(Silenced(t, p), p), p)
<1>1. CASE ~ Has(t, p, "ALARM_ON")
  BY <1>1, XitIs DEF Silenced
<1>2. CASE Has(t, p, "ALARM_ON")
  <2> DEFINE u == set_alarm(t, p, FALSE)
             g == sys_xit(u, p)
  <2>1. /\ u \in Table /\ u.parent = t.parent /\ u.in_use = t.in_use
        /\ u.sigstatus = t.sigstatus /\ u.group = t.group /\ u.at = t.at
        /\ u.pending = t.pending /\ u.call = t.call /\ u.ignore = t.ignore
        /\ u.count = t.count /\ u.stop = t.stop /\ u.wrong = t.wrong
        /\ u.flags = [t.flags EXCEPT ![p] = t.flags[p] \ {"ALARM_ON"}]
        /\ u.alarm = [t.alarm EXCEPT ![p] = FALSE]
    BY AlarmOff
  <2> HIDE DEF u
  <2>2. Gone(u, g, p)
    BY <2>1, XitIs
  <2> HIDE DEF g
  <2>3. t.flags \in [Slots -> SUBSET Flag] /\ t.alarm \in [Slots -> BOOLEAN]
    BY Fields
  <2>4. /\ \A r \in Slots \ {p} : u.flags[r] = t.flags[r] /\ u.alarm[r] = t.alarm[r]
        /\ \A f \in Flag \ {"ALARM_ON"} : Has(u, p, f) <=> Has(t, p, f)
    BY <2>1, <2>3 DEF Has
  <2>5. /\ g \in Table /\ g.parent = t.parent /\ g.in_use = t.in_use
        /\ g.sigstatus = t.sigstatus /\ g.group = t.group
        /\ g.at[p] = "free" /\ (g.pending[p] = {} \/ g.pending[p] = t.pending[p])
        /\ g.wrong \subseteq t.wrong \cup {"second exit"}
    BY <2>1, <2>2 DEF Gone
  <2>6. \A r \in Slots \ {p} : /\ g.flags[r] = t.flags[r] /\ g.at[r] = t.at[r]
                               /\ g.pending[r] = t.pending[r] /\ g.alarm[r] = t.alarm[r]
                               /\ g.call[r] = t.call[r] /\ g.ignore[r] = t.ignore[r]
                               /\ g.count[r] = t.count[r] /\ g.stop[r] = t.stop[r]
    <3>1. /\ u.at = t.at /\ u.pending = t.pending /\ u.call = t.call /\ u.ignore = t.ignore
          /\ u.count = t.count /\ u.stop = t.stop
      BY <2>1
    <3>2. \A r \in Slots \ {p} : /\ g.flags[r] = u.flags[r] /\ g.at[r] = u.at[r]
                                 /\ g.pending[r] = u.pending[r] /\ g.alarm[r] = u.alarm[r]
                                 /\ g.call[r] = u.call[r] /\ g.ignore[r] = u.ignore[r]
                                 /\ g.count[r] = u.count[r] /\ g.stop[r] = u.stop[r]
      BY <2>2 DEF Gone
    <3> QED BY <2>4, <3>1, <3>2
  <2>7. \A f \in Flag \ {"ALARM_ON"} : Has(g, p, f) <=> Has(t, p, f)
    BY <2>2, <2>4 DEF Gone
  <2>8. Gone(t, g, p)
    BY <2>5, <2>6, <2>7 DEF Gone
  <2> QED BY <1>2, <2>8 DEF g, u, Silenced
<1> QED BY <1>1, <1>2

LEMMA GoneGood ==
  ASSUME NEW t, NEW w, NEW p \in Users, Good(t, w, p), ~ Live(t, p), Told(t),
         NEW g, Gone(t, g, p)
  PROVE  Good(g, w, MM_PROC_NR) /\ Told(g) /\ \A c \in Slots : Live(g, c) <=> Live(t, c)
<1>1. /\ t \in Table /\ InitKept(t) /\ NoHangup(t) /\ Parented(t) /\ Counted(t)
      /\ Agree(t, p) /\ Waiters(t, w) /\ "stray reply" \notin t.wrong
  BY DEF Good
<1>2. p \in Slots /\ p # INIT /\ INIT \in Slots
  BY Numbers DEF Users
<1>3. \A r \in Slots : \A f \in {"IN_USE", "HANGING", "WAITING", "PAUSED", "STOPPED"} :
        Has(g, r, f) <=> Has(t, r, f)
  BY <1>2 DEF Gone, Has, Flag
<1>4. \A c \in Slots : Live(g, c) <=> Live(t, c)
  BY <1>3 DEF Live
<1>5. InitKept(g)
  BY <1>1, <1>2, <1>4 DEF InitKept, Gone
<1>6. NoHangup(g)
  BY <1>1, <1>2 DEF NoHangup, Gone
<1>7. Parented(g)
  <2> SUFFICES ASSUME NEW r \in Users, Has(g, r, "IN_USE")
               PROVE  g.parent[r] \in Slots \ {r} /\ Has(g, g.parent[r], "IN_USE")
    BY DEF Parented
  <2>1. t.parent[r] \in Slots \ {r} /\ Has(t, t.parent[r], "IN_USE")
    BY <1>1, <1>3, Numbers DEF Parented
  <2> QED BY <1>3, <2>1 DEF Gone
<1>8. Counted(g)
  <2>1. InUse(g) = InUse(t)
    BY <1>3 DEF InUse
  <2> QED BY <1>1, <1>3, <2>1 DEF Counted, Gone
<1>9. Agree(g, MM_PROC_NR)
  BY <1>1, <1>4 DEF Agree, Gone
<1>10. Waiters(g, w)
  <2> SUFFICES ASSUME NEW r \in Slots, Live(g, r)
               PROVE  IF r = w THEN g.at[r] = "blocked" /\ ~ Waits(g, r)
                      ELSE /\ g.at[r] = "blocked" <=> Waits(g, r)
                           /\ ~ {"WAITING", "PAUSED"} \subseteq g.flags[r]
    BY DEF Waiters
  <2>1. Live(t, r) /\ r # p
    BY <1>4
  <2>2. g.flags[r] = t.flags[r] /\ g.at[r] = t.at[r]
    BY <2>1 DEF Gone
  <2> QED BY <1>1, <2>1, <2>2 DEF Waiters, Waits
<1>11. "stray reply" \notin g.wrong
  BY <1>1 DEF Gone
<1>12. Told(g)
  <2>1. Quieter(t, g)
    BY <1>3, <1>4 DEF Quieter, Gone, Reports
  <2> QED BY <2>1, QuieterTold
<1>13. g \in Table
  BY DEF Gone
<1> QED BY <1>4, <1>5, <1>6, <1>7, <1>8, <1>9, <1>10, <1>11, <1>12, <1>13 DEF Good

(* Which process MM works for matters only if that lives *)
LEMMA WorksFor ==
  ASSUME NEW t, NEW w, NEW x, NEW z, Good(t, z, x), w \in Slots => ~ Live(t, w) \/ w = z,
         z \in Slots => ~ Live(t, z) \/ w = z
  PROVE  Good(t, w, x)
BY DEF Good, Waiters

LEMMA Dying ==
  ASSUME NEW t, NEW w, NEW p \in Slots, Good(t, w, MM_PROC_NR)
  PROVE  Good(t, w, p)
BY Numbers DEF Good, Agree

LEMMA HangGood ==
  ASSUME NEW t, NEW w, NEW p \in Users, Good(t, w, p), ToldBut(t, p), Has(t, p, "IN_USE"),
         ~ Has(t, t.parent[p], "WAITING")
  PROVE  LET u == With(t, p, {"HANGING"})
         IN  /\ Good(u, w, p) /\ Told(u) /\ ~ Live(u, p)
             /\ \A c \in Slots : Live(u, c) => Live(t, c)
<1> DEFINE F == t.flags[p] \cup {"HANGING"}
           u == [t EXCEPT !.flags[p] = F]
<1>1. /\ t \in Table /\ InitKept(t) /\ NoHangup(t) /\ Parented(t) /\ Counted(t)
      /\ Agree(t, p) /\ Waiters(t, w) /\ "stray reply" \notin t.wrong
      /\ p \in Slots /\ p # INIT /\ INIT \in Slots
  BY Numbers DEF Good, Users
<1>2. F \in SUBSET Flag /\ t.flags \in [Slots -> SUBSET Flag]
  BY <1>1, Fields DEF Flag
<1>3. With(t, p, {"HANGING"}) = u
  BY DEF With
<1>4. "HANGING" \in F /\ \A f \in Flag \ {"HANGING"} : f \in F <=> Has(t, p, f)
  BY DEF Has
<1> HIDE DEF F
<1>5. /\ u \in Table /\ Rest(t, u) /\ u.flags = [t.flags EXCEPT ![p] = F]
      /\ u.at = t.at /\ u.parent = t.parent /\ u.in_use = t.in_use
      /\ u.sigstatus = t.sigstatus /\ u.group = t.group /\ u.count = t.count
      /\ u.stop = t.stop
  BY <1>1, <1>2, SetFlags
<1> HIDE DEF u
<1>6. /\ u.flags[p] = F
      /\ \A r \in Slots \ {p} : u.flags[r] = t.flags[r] /\ (Live(u, r) <=> Live(t, r))
  BY <1>1, <1>2, <1>5 DEF Live, Has
<1>7. ~ Live(u, p) /\ Has(u, p, "IN_USE")
  BY <1>1, <1>4, <1>6 DEF Live, Has, Flag
<1>8. \A r \in Slots : /\ Has(u, r, "IN_USE") <=> Has(t, r, "IN_USE")
                       /\ Live(u, r) => Live(t, r)
  BY <1>6, <1>7 DEF Has
<1>9. InitKept(u) /\ NoHangup(u)
  BY <1>1, <1>5, <1>6 DEF InitKept, NoHangup, Rest
<1>10. Parented(u)
  BY <1>1, <1>5, <1>8, Numbers DEF Parented
<1>11. Counted(u)
  <2>1. InUse(u) = InUse(t)
    BY <1>8 DEF InUse
  <2>2. \A r \in Slots : Has(u, r, "HANGING") => Has(u, r, "IN_USE")
    BY <1>1, <1>6, <1>7 DEF Counted, Has
  <2> QED BY <1>1, <1>5, <2>1, <2>2 DEF Counted
<1>12. Agree(u, p)
  BY <1>1, <1>5, <1>6 DEF Agree
<1>13. Waiters(u, w)
  <2> SUFFICES ASSUME NEW r \in Slots, Live(u, r)
               PROVE  IF r = w THEN u.at[r] = "blocked" /\ ~ Waits(u, r)
                      ELSE /\ u.at[r] = "blocked" <=> Waits(u, r)
                           /\ ~ {"WAITING", "PAUSED"} \subseteq u.flags[r]
    BY DEF Waiters
  <2>1. r # p /\ Live(t, r) /\ u.flags[r] = t.flags[r] /\ u.at[r] = t.at[r]
    BY <1>5, <1>6, <1>7
  <2> QED BY <1>1, <2>1 DEF Waiters, Waits
<1>14. "stray reply" \notin u.wrong
  BY <1>1, <1>5 DEF Rest
<1>15. Told(u)
  <2> SUFFICES ASSUME NEW r \in Slots, Live(u, r), Has(u, r, "WAITING"), NEW c \in Children(u, r)
               PROVE  ~ Has(u, c, "HANGING") /\ (Reports(u, c) => r = INIT)
    BY DEF Told, IsTold
  <2>1. r # p /\ Live(t, r) /\ Has(t, r, "WAITING")
    BY <1>6, <1>7, <1>8 DEF Has
  <2>2. c \in Slots /\ t.parent[c] = r /\ Has(t, c, "IN_USE")
    BY <1>5, <1>8 DEF Children
  <2>3. c # p
    BY <2>1, <2>2
  <2>4. u.flags[c] = t.flags[c] /\ ~ Has(t, c, "HANGING") /\ (Reports(t, c) => r = INIT)
    <3>1. IsTold(t, r)
      BY <2>1 DEF ToldBut, IsTold
    <3> QED BY <1>6, <2>1, <2>2, <2>3, <3>1 DEF IsTold, Children
  <2> QED BY <1>5, <2>4 DEF Has, Reports
<1>16. Good(u, w, p)
  BY <1>5, <1>9, <1>10, <1>11, <1>12, <1>13, <1>14 DEF Good
<1> QED BY <1>3, <1>7, <1>8, <1>15, <1>16

LEMMA ExitGood ==
  ASSUME NEW t, NEW w, NEW p \in Users, Good(t, w, MM_PROC_NR), ToldBut(t, p), Has(t, p, "IN_USE")
  PROVE  /\ Good(mm_exit(t, p), w, MM_PROC_NR) /\ Told(mm_exit(t, p)) /\ ~ Live(mm_exit(t, p), p)
         /\ \A c \in Slots : Live(mm_exit(t, p), c) => Live(t, c)
<1> DEFINE q == t.parent[p]
           v == IF Has(t, q, "WAITING") THEN cleanup(t, p) ELSE With(t, p, {"HANGING"})
           g == sys_xit(Silenced(v, p), p)
<1>1. p \in Slots /\ q \in Slots \ {p} /\ Good(t, w, p)
  BY Dying, Numbers DEF Users, Good, Parented
<1>2. Good(v, w, p) /\ Told(v) /\ ~ Live(v, p) /\ \A c \in Slots : Live(v, c) => Live(t, c)
  <2>1. CASE ~ Has(t, q, "WAITING")
    BY <1>1, <2>1, HangGood
  <2>2. CASE Has(t, q, "WAITING")
    <3>1. /\ Good(cleanup(t, p), After(w, q), p)
          /\ Told(cleanup(t, p)) /\ ~ Has(cleanup(t, p), p, "IN_USE")
          /\ \A c \in Slots : Live(cleanup(t, p), c) => Live(t, c)
      BY <1>1, <2>2, CleanupGood
    <3> DEFINE a == cleanup(t, p)
    <3>2. v = a
      BY <2>2
    <3> HIDE DEF a, v
    <3>3. q = w => ~ Live(t, w)
      BY <1>1, <2>2, WaiterBlocked
    <3>4. Good(a, w, p)
      <4>1. CASE q = w
        <5>1. Good(a, MM_PROC_NR, p) /\ ~ Live(a, w)
          BY <1>1, <3>1, <3>3, <4>1 DEF After, a
        <5> QED BY <5>1, WorksFor, Numbers
      <4>2. CASE q # w
        BY <3>1, <4>2 DEF After, a
      <4> QED BY <4>1, <4>2
    <3> QED BY <3>1, <3>2, <3>4 DEF a, Live
  <2> QED BY <2>1, <2>2
<1>3. mm_exit(t, p) = g
  BY DEF mm_exit, Silenced
<1> HIDE DEF v
<1>4. Gone(v, g, p)
  BY <1>1, <1>2, GoneIs DEF Good
<1> HIDE DEF g
<1>5. Good(g, w, MM_PROC_NR) /\ Told(g) /\ \A c \in Slots : Live(g, c) <=> Live(v, c)
  BY <1>2, <1>4, GoneGood
<1> QED BY <1>1, <1>2, <1>3, <1>5

-----------------------------------------------------------------------------
(* Steps that leave the family as it is *)

Alike(t, u) ==
  /\ u \in Table /\ u.parent = t.parent /\ u.in_use = t.in_use /\ u.wrong = t.wrong
  /\ \A r \in Slots : /\ u.at[r] = "free" <=> t.at[r] = "free"
                      /\ u.at[r] = "blocked" <=> t.at[r] = "blocked"
                      /\ SIGHUP \in u.pending[r] => SIGHUP \in t.pending[r]
                      /\ \A f \in {"IN_USE", "HANGING", "WAITING", "PAUSED"} :
                           Has(u, r, f) <=> Has(t, r, f)
  /\ u.pending[INIT] \subseteq t.pending[INIT] /\ (u.alarm[INIT] => t.alarm[INIT])
  /\ t.ignore[INIT] \subseteq u.ignore[INIT]
  /\ u.call[INIT] \in InitCalls \cup {NoCall, t.call[INIT]}

LEMMA AlikeGood ==
  ASSUME NEW t, NEW u, NEW w, NEW x, Good(t, w, x), Alike(t, u)
  PROVE  Good(u, w, x) /\ \A r \in Slots : Live(u, r) <=> Live(t, r)
<1>1. /\ t \in Table /\ InitKept(t) /\ NoHangup(t) /\ Parented(t) /\ Counted(t)
      /\ Agree(t, x) /\ Waiters(t, w) /\ "stray reply" \notin t.wrong
  BY DEF Good
<1>2. \A r \in Slots : /\ Has(u, r, "IN_USE") <=> Has(t, r, "IN_USE")
                       /\ Has(u, r, "HANGING") <=> Has(t, r, "HANGING")
                       /\ Live(u, r) <=> Live(t, r)
                       /\ Waits(u, r) <=> Waits(t, r)
                       /\ {"WAITING", "PAUSED"} \subseteq u.flags[r] <=>
                            {"WAITING", "PAUSED"} \subseteq t.flags[r]
  BY DEF Alike, Has, Live, Waits
<1>3. InitKept(u)
  <2>1. Live(u, INIT)
    BY <1>1, <1>2, Numbers DEF InitKept
  <2> QED BY <1>1, <2>1 DEF InitKept, Alike
<1>4. NoHangup(u)
  BY <1>1 DEF NoHangup, Alike
<1>5. Parented(u)
  BY <1>1, <1>2, Numbers DEF Parented, Alike
<1>6. Counted(u)
  <2>1. InUse(u) = InUse(t)
    BY <1>2 DEF InUse
  <2> QED BY <1>1, <1>2, <2>1 DEF Counted, Alike
<1>7. Agree(u, x)
  BY <1>1, <1>2 DEF Agree, Alike
<1>8. Waiters(u, w)
  <2>1. \A r \in Slots : u.at[r] = "blocked" <=> t.at[r] = "blocked"
    BY DEF Alike
  <2> QED BY <1>1, <1>2, <2>1 DEF Waiters
<1> QED BY <1>1, <1>2, <1>3, <1>4, <1>5, <1>6, <1>7, <1>8 DEF Good, Alike

LEMMA AlikeIsTold ==
  ASSUME NEW t, NEW u, Alike(t, u), NEW r \in Slots, IsTold(t, r),
         \A c \in Children(t, r) : Reports(u, c) => Reports(t, c)
  PROVE  IsTold(u, r)
<1>1. u.parent = t.parent
  BY DEF Alike
<1>2. \A c \in Slots : /\ Has(u, c, "IN_USE") <=> Has(t, c, "IN_USE")
                       /\ Has(u, c, "HANGING") <=> Has(t, c, "HANGING")
                       /\ Has(u, c, "WAITING") <=> Has(t, c, "WAITING")
                       /\ Live(u, c) <=> Live(t, c)
  BY DEF Alike, Live
<1>3. Children(u, r) = Children(t, r)
  BY <1>1, <1>2 DEF Children
<1> QED BY <1>2, <1>3 DEF IsTold, Children

LEMMA AlikeTold ==
  ASSUME NEW t, NEW u, Alike(t, u), Told(t), \A c \in Slots : Reports(u, c) => Reports(t, c)
  PROVE  Told(u)
BY AlikeIsTold DEF Told, Children

(* p may have news for its parent *)
LEMMA AlikeToldBut ==
  ASSUME NEW t, NEW u, Alike(t, u), NEW p \in Slots, ToldBut(t, p),
         \A c \in Slots \ {p} : Reports(u, c) => Reports(t, c)
  PROVE  ToldBut(u, p)
<1> SUFFICES ASSUME NEW r \in Slots \ {u.parent[p]} PROVE IsTold(u, r)
  BY DEF ToldBut
<1>1. IsTold(t, r)
  BY DEF ToldBut, Alike
<1>2. \A c \in Children(t, r) : c \in Slots \ {p}
  BY DEF Children, Alike
<1> QED BY <1>1, <1>2, AlikeIsTold

LEMMA AlikeTrans ==
  ASSUME NEW t, NEW u, NEW v, Alike(t, u), Alike(u, v)
  PROVE  Alike(t, v)
BY DEF Alike

LEMMA SetCatch ==
  ASSUME NEW t \in Table, NEW p \in Slots, NEW X \in SUBSET Sigs
  PROVE  LET u == [t EXCEPT !.catch[p] = X]
         IN  /\ Alike(t, u) /\ u.catch = [t.catch EXCEPT ![p] = X]
             /\ u.flags = t.flags /\ u.parent = t.parent /\ u.sigstatus = t.sigstatus /\ u.stop = t.stop
<1> DEFINE Y == [t.catch EXCEPT ![p] = X]
           u == [t EXCEPT !.catch = Y]
<1>1. Y \in [Slots -> SUBSET Sigs]
  BY Fields
<1>2. (\A r \in Slots \ {p} : Y[r] = t.catch[r]) /\ Y[p] = X /\ INIT \in Slots
  BY Fields, Numbers
<1> HIDE DEF Y
<1>3. u \in Table
  BY <1>1 DEF Table
<1>4. /\ u.flags = t.flags /\ u.parent = t.parent /\ u.group = t.group /\ u.sigstatus = t.sigstatus /\ u.ignore = t.ignore
      /\ u.in_use = t.in_use /\ u.at = t.at /\ u.call = t.call /\ u.pending = t.pending /\ u.count = t.count
      /\ u.alarm = t.alarm /\ u.stop = t.stop /\ u.wrong = t.wrong
      /\ u.catch = Y
  BY DEF Table
<1> HIDE DEF u
<1>5. Alike(t, u)
  BY <1>2, <1>3, <1>4 DEF Alike, Has
<1>6. [t EXCEPT !.catch[p] = X] = u
  BY DEF u, Y
<1> QED BY <1>4, <1>5, <1>6 DEF Y

LEMMA SetIgnore ==
  ASSUME NEW t \in Table, NEW p \in Slots, NEW X \in SUBSET Sigs, p # INIT
  PROVE  LET u == [t EXCEPT !.ignore[p] = X]
         IN  /\ Alike(t, u) /\ u.ignore = [t.ignore EXCEPT ![p] = X]
             /\ u.flags = t.flags /\ u.parent = t.parent /\ u.sigstatus = t.sigstatus /\ u.stop = t.stop /\ u.catch = t.catch
<1> DEFINE Y == [t.ignore EXCEPT ![p] = X]
           u == [t EXCEPT !.ignore = Y]
<1>1. Y \in [Slots -> SUBSET Sigs]
  BY Fields
<1>2. (\A r \in Slots \ {p} : Y[r] = t.ignore[r]) /\ Y[p] = X /\ INIT \in Slots
  BY Fields, Numbers
<1> HIDE DEF Y
<1>3. u \in Table
  BY <1>1 DEF Table
<1>4. /\ u.flags = t.flags /\ u.parent = t.parent /\ u.group = t.group /\ u.sigstatus = t.sigstatus /\ u.catch = t.catch
      /\ u.in_use = t.in_use /\ u.at = t.at /\ u.call = t.call /\ u.pending = t.pending /\ u.count = t.count
      /\ u.alarm = t.alarm /\ u.stop = t.stop /\ u.wrong = t.wrong
      /\ u.ignore = Y
  BY DEF Table
<1> HIDE DEF u
<1>5. Alike(t, u)
  BY <1>2, <1>3, <1>4 DEF Alike, Has
<1>6. [t EXCEPT !.ignore[p] = X] = u
  BY DEF u, Y
<1> QED BY <1>4, <1>5, <1>6 DEF Y

LEMMA SetStatus ==
  ASSUME NEW t \in Table, NEW p \in Slots, NEW X \in Sigs \cup {0}
  PROVE  LET u == [t EXCEPT !.sigstatus[p] = X]
         IN  /\ Alike(t, u) /\ u.sigstatus = [t.sigstatus EXCEPT ![p] = X]
             /\ u.flags = t.flags /\ u.parent = t.parent /\ u.stop = t.stop /\ u.catch = t.catch
<1> DEFINE Y == [t.sigstatus EXCEPT ![p] = X]
           u == [t EXCEPT !.sigstatus = Y]
<1>1. Y \in [Slots -> Sigs \cup {0}]
  BY Fields
<1>2. (\A r \in Slots \ {p} : Y[r] = t.sigstatus[r]) /\ Y[p] = X /\ INIT \in Slots
  BY Fields, Numbers
<1> HIDE DEF Y
<1>3. u \in Table
  BY <1>1 DEF Table
<1>4. /\ u.flags = t.flags /\ u.parent = t.parent /\ u.group = t.group /\ u.catch = t.catch /\ u.ignore = t.ignore
      /\ u.in_use = t.in_use /\ u.at = t.at /\ u.call = t.call /\ u.pending = t.pending /\ u.count = t.count
      /\ u.alarm = t.alarm /\ u.stop = t.stop /\ u.wrong = t.wrong
      /\ u.sigstatus = Y
  BY DEF Table
<1> HIDE DEF u
<1>5. Alike(t, u)
  BY <1>2, <1>3, <1>4 DEF Alike, Has
<1>6. [t EXCEPT !.sigstatus[p] = X] = u
  BY DEF u, Y
<1> QED BY <1>4, <1>5, <1>6 DEF Y

LEMMA SetPending ==
  ASSUME NEW t \in Table, NEW p \in Slots, NEW X \in SUBSET Sigs, (p = INIT => X = {}), SIGHUP \notin X
  PROVE  LET u == [t EXCEPT !.pending[p] = X]
         IN  /\ Alike(t, u) /\ u.pending = [t.pending EXCEPT ![p] = X]
             /\ u.flags = t.flags /\ u.parent = t.parent /\ u.sigstatus = t.sigstatus /\ u.stop = t.stop /\ u.catch = t.catch
<1> DEFINE Y == [t.pending EXCEPT ![p] = X]
           u == [t EXCEPT !.pending = Y]
<1>1. Y \in [Slots -> SUBSET Sigs]
  BY Fields
<1>2. (\A r \in Slots \ {p} : Y[r] = t.pending[r]) /\ Y[p] = X /\ INIT \in Slots
  BY Fields, Numbers
<1> HIDE DEF Y
<1>3. u \in Table
  BY <1>1 DEF Table
<1>4. /\ u.flags = t.flags /\ u.parent = t.parent /\ u.group = t.group /\ u.sigstatus = t.sigstatus /\ u.catch = t.catch
      /\ u.ignore = t.ignore /\ u.in_use = t.in_use /\ u.at = t.at /\ u.call = t.call /\ u.count = t.count
      /\ u.alarm = t.alarm /\ u.stop = t.stop /\ u.wrong = t.wrong
      /\ u.pending = Y
  BY DEF Table
<1> HIDE DEF u
<1>5. Alike(t, u)
  BY <1>2, <1>3, <1>4 DEF Alike, Has
<1>6. [t EXCEPT !.pending[p] = X] = u
  BY DEF u, Y
<1> QED BY <1>4, <1>5, <1>6 DEF Y

LEMMA SetCount ==
  ASSUME NEW t \in Table, NEW p \in Slots, NEW X \in Nat
  PROVE  LET u == [t EXCEPT !.count[p] = X]
         IN  /\ Alike(t, u) /\ u.count = [t.count EXCEPT ![p] = X]
             /\ u.flags = t.flags /\ u.parent = t.parent /\ u.sigstatus = t.sigstatus /\ u.stop = t.stop /\ u.catch = t.catch
<1> DEFINE Y == [t.count EXCEPT ![p] = X]
           u == [t EXCEPT !.count = Y]
<1>1. Y \in [Slots -> Nat]
  BY Fields
<1>2. (\A r \in Slots \ {p} : Y[r] = t.count[r]) /\ Y[p] = X /\ INIT \in Slots
  BY Fields, Numbers
<1> HIDE DEF Y
<1>3. u \in Table
  BY <1>1 DEF Table
<1>4. /\ u.flags = t.flags /\ u.parent = t.parent /\ u.group = t.group /\ u.sigstatus = t.sigstatus /\ u.catch = t.catch
      /\ u.ignore = t.ignore /\ u.in_use = t.in_use /\ u.at = t.at /\ u.call = t.call /\ u.pending = t.pending
      /\ u.alarm = t.alarm /\ u.stop = t.stop /\ u.wrong = t.wrong
      /\ u.count = Y
  BY DEF Table
<1> HIDE DEF u
<1>5. Alike(t, u)
  BY <1>2, <1>3, <1>4 DEF Alike, Has
<1>6. [t EXCEPT !.count[p] = X] = u
  BY DEF u, Y
<1> QED BY <1>4, <1>5, <1>6 DEF Y

LEMMA SetClock ==
  ASSUME NEW t \in Table, NEW p \in Slots, NEW X \in BOOLEAN, (p = INIT => ~ X)
  PROVE  LET u == [t EXCEPT !.alarm[p] = X]
         IN  /\ Alike(t, u) /\ u.alarm = [t.alarm EXCEPT ![p] = X]
             /\ u.flags = t.flags /\ u.parent = t.parent /\ u.sigstatus = t.sigstatus /\ u.stop = t.stop /\ u.catch = t.catch
<1> DEFINE Y == [t.alarm EXCEPT ![p] = X]
           u == [t EXCEPT !.alarm = Y]
<1>1. Y \in [Slots -> BOOLEAN]
  BY Fields
<1>2. (\A r \in Slots \ {p} : Y[r] = t.alarm[r]) /\ Y[p] = X /\ INIT \in Slots
  BY Fields, Numbers
<1> HIDE DEF Y
<1>3. u \in Table
  BY <1>1 DEF Table
<1>4. /\ u.flags = t.flags /\ u.parent = t.parent /\ u.group = t.group /\ u.sigstatus = t.sigstatus /\ u.catch = t.catch
      /\ u.ignore = t.ignore /\ u.in_use = t.in_use /\ u.at = t.at /\ u.call = t.call /\ u.pending = t.pending
      /\ u.count = t.count /\ u.stop = t.stop /\ u.wrong = t.wrong
      /\ u.alarm = Y
  BY DEF Table
<1> HIDE DEF u
<1>5. Alike(t, u)
  BY <1>2, <1>3, <1>4 DEF Alike, Has
<1>6. [t EXCEPT !.alarm[p] = X] = u
  BY DEF u, Y
<1> QED BY <1>4, <1>5, <1>6 DEF Y

LEMMA SetStop ==
  ASSUME NEW t \in Table, NEW p \in Slots, NEW X \in BOOLEAN
  PROVE  LET u == [t EXCEPT !.stop[p] = X]
         IN  /\ Alike(t, u) /\ u.stop = [t.stop EXCEPT ![p] = X]
             /\ u.flags = t.flags /\ u.parent = t.parent /\ u.sigstatus = t.sigstatus /\ u.catch = t.catch
<1> DEFINE Y == [t.stop EXCEPT ![p] = X]
           u == [t EXCEPT !.stop = Y]
<1>1. Y \in [Slots -> BOOLEAN]
  BY Fields
<1>2. (\A r \in Slots \ {p} : Y[r] = t.stop[r]) /\ Y[p] = X /\ INIT \in Slots
  BY Fields, Numbers
<1> HIDE DEF Y
<1>3. u \in Table
  BY <1>1 DEF Table
<1>4. /\ u.flags = t.flags /\ u.parent = t.parent /\ u.group = t.group /\ u.sigstatus = t.sigstatus /\ u.catch = t.catch
      /\ u.ignore = t.ignore /\ u.in_use = t.in_use /\ u.at = t.at /\ u.call = t.call /\ u.pending = t.pending
      /\ u.count = t.count /\ u.alarm = t.alarm /\ u.wrong = t.wrong
      /\ u.stop = Y
  BY DEF Table
<1> HIDE DEF u
<1>5. Alike(t, u)
  BY <1>2, <1>3, <1>4 DEF Alike, Has
<1>6. [t EXCEPT !.stop[p] = X] = u
  BY DEF u, Y
<1> QED BY <1>4, <1>5, <1>6 DEF Y

LEMMA SetMarks ==
  ASSUME NEW t \in Table, NEW p \in Slots, NEW F \in SUBSET Flag,
         \A f \in {"IN_USE", "HANGING", "WAITING", "PAUSED"} : f \in F <=> Has(t, p, f)
  PROVE  LET u == [t EXCEPT !.flags[p] = F]
         IN  /\ Alike(t, u) /\ u.flags = [t.flags EXCEPT ![p] = F]
             /\ u.parent = t.parent /\ u.sigstatus = t.sigstatus
<1> DEFINE u == [t EXCEPT !.flags[p] = F]
<1>1. /\ u \in Table /\ Rest(t, u) /\ u.flags = [t.flags EXCEPT ![p] = F]
      /\ u.at = t.at /\ u.parent = t.parent /\ u.in_use = t.in_use
      /\ u.sigstatus = t.sigstatus /\ u.group = t.group /\ u.count = t.count
      /\ u.stop = t.stop
  BY SetFlags
<1> HIDE DEF u
<1>2. \A r \in Slots : \A f \in {"IN_USE", "HANGING", "WAITING", "PAUSED"} :
        Has(u, r, f) <=> Has(t, r, f)
  BY <1>1, Fields DEF Has
<1>3. Alike(t, u)
  BY <1>1, <1>2 DEF Alike, Rest
<1> QED BY <1>1, <1>3 DEF u

-----------------------------------------------------------------------------
(* Signals *)

(* u follows t: nobody comes to life *)
Keeps(t, u, w) ==
  /\ Good(u, w, MM_PROC_NR) /\ Told(u)
  /\ \A c \in Slots : Live(u, c) => Live(t, c)

LEMMA WokeLive ==
  ASSUME NEW t \in Table, NEW q \in Slots, NEW f \in {"WAITING", "PAUSED"},
         NEW u, Woke(t, u, q, f)
  PROVE  \A c \in Slots : Live(u, c) <=> Live(t, c)
BY Fields DEF Woke, Live, Has

LEMMA ToldAll ==
  ASSUME NEW t, NEW p, ToldBut(t, p), ~ Has(t, t.parent[p], "WAITING")
  PROVE  Told(t)
BY DEF Told, ToldBut, IsTold

LEMMA StopGood ==
  ASSUME NEW t, NEW w, NEW p \in Users, NEW sig \in Sigs, Good(t, w, MM_PROC_NR), Told(t),
         Has(t, p, "IN_USE")
  PROVE  Keeps(t, stop_proc(t, p, sig), w)
<1> DEFINE F == t.flags[p] \cup {"STOPPED"}
           q == t.parent[p]
           v == [t EXCEPT !.flags[p] = F]
           y == [v EXCEPT !.stop[p] = TRUE]
           z == [y EXCEPT !.sigstatus[p] = sig]
           n == Wake(y, q, "WAITING")
<1>1. t \in Table /\ p \in Slots /\ q \in Slots \ {p}
  BY Numbers DEF Users, Good, Parented
<1>2. F \in SUBSET Flag
  BY <1>1, Fields DEF Flag
<1>3. \A f \in {"IN_USE", "HANGING", "WAITING", "PAUSED"} : f \in F <=> Has(t, p, f)
  BY DEF Has
<1>4. stop_proc(t, p, sig) = IF t.at[p] = "free" THEN t
                             ELSE IF Has(y, q, "WAITING") THEN n ELSE z
  BY DEF stop_proc, With, Wake
<1> HIDE DEF F
<1>5. /\ Alike(t, v) /\ v.flags = [t.flags EXCEPT ![p] = F]
      /\ v.parent = t.parent /\ v.sigstatus = t.sigstatus
  BY <1>1, <1>2, <1>3, SetMarks
<1> HIDE DEF v
<1>6. v \in Table
  BY <1>5 DEF Alike
<1>7. Alike(v, y) /\ y.flags = v.flags /\ y.parent = v.parent /\ y.sigstatus = v.sigstatus
  BY <1>1, <1>6, SetStop
<1> HIDE DEF y
<1>8. Alike(t, y) /\ y \in Table
  <2>1. Alike(t, y)
    BY <1>5, <1>7, AlikeTrans
  <2> QED BY <2>1 DEF Alike
<1>9. Good(y, w, MM_PROC_NR) /\ \A c \in Slots : Live(y, c) <=> Live(t, c)
  BY <1>8, AlikeGood
<1>10. ToldBut(y, p)
  <2>1. \A c \in Slots \ {p} : Reports(y, c) => Reports(t, c)
    BY <1>1, <1>5, <1>7, Fields DEF Reports, Has
  <2>2. ToldBut(t, p)
    BY DEF Told, ToldBut
  <2> QED BY <1>1, <1>8, <2>1, <2>2, AlikeToldBut
<1>11. CASE t.at[p] = "free"
  BY <1>4, <1>11 DEF Keeps
<1>12. CASE t.at[p] # "free" /\ Has(y, q, "WAITING")
  <2>1. /\ Live(y, q) => y.at[q] = "blocked"
        /\ q # w \/ ~ Live(y, q)
    BY <1>1, <1>9, <1>12, WaiterBlocked
  <2>2. Woke(y, n, q, "WAITING")
    BY <1>1, <1>8, <2>1, WakeIs
  <2>3. Good(n, w, MM_PROC_NR)
    BY <1>1, <1>9, <1>12, <2>1, <2>2, WakeGood
  <2>4. Told(n)
    <3>1. \A r \in Slots \ {q} : IsTold(y, r)
      BY <1>5, <1>7, <1>10 DEF ToldBut
    <3> QED BY <1>1, <1>8, <2>2, <3>1, WokenTold
  <2>5. \A c \in Slots : Live(n, c) <=> Live(y, c)
    BY <1>1, <1>8, <2>2, WokeLive
  <2> QED BY <1>4, <1>9, <1>12, <2>3, <2>4, <2>5 DEF Keeps
<1>13. CASE t.at[p] # "free" /\ ~ Has(y, q, "WAITING")
  <2>1. sig \in Sigs \cup {0}
    OBVIOUS
  <2>2. /\ Alike(y, z) /\ z.sigstatus = [y.sigstatus EXCEPT ![p] = sig]
        /\ z.flags = y.flags /\ z.parent = y.parent
    BY <1>1, <1>8, <2>1, SetStatus
  <2>3. stop_proc(t, p, sig) = z
    BY <1>4, <1>13
  <2> HIDE DEF z
  <2>4. Good(z, w, MM_PROC_NR) /\ \A c \in Slots : Live(z, c) <=> Live(y, c)
    BY <1>9, <2>2, AlikeGood
  <2>5. ToldBut(z, p)
    <3>1. \A c \in Slots \ {p} : Reports(z, c) => Reports(y, c)
      BY <1>1, <1>8, <2>2, Fields DEF Reports, Has
    <3> QED BY <1>1, <1>10, <2>2, <3>1, AlikeToldBut
  <2>6. Told(z)
    <3>1. z.parent[p] = q /\ ~ Has(z, q, "WAITING")
      BY <1>5, <1>7, <1>13, <2>2 DEF Has
    <3> QED BY <2>5, <3>1, ToldAll
  <2> QED BY <1>9, <2>3, <2>4, <2>6 DEF Keeps
<1> QED BY <1>11, <1>12, <1>13

LEMMA SigGood ==
  ASSUME NEW t, NEW w, NEW p \in Users, NEW sig \in Sigs, NEW room,
         Good(t, w, MM_PROC_NR), Told(t)
  PROVE  Keeps(t, sig_proc(t, p, sig, room), w)
<1> DEFINE X == t.catch[p] \ {sig}
           v == [t EXCEPT !.catch[p] = X]
           z == [v EXCEPT !.sigstatus[p] = sig]
           g == mm_exit(z, p)
<1>1. t \in Table /\ p \in Slots
  BY Numbers DEF Good
<1>2. X \in SUBSET Sigs
  BY <1>1, Fields
<1>3. sig_proc(t, p, sig, room) =
        IF ~ Has(t, p, "IN_USE") THEN t
        ELSE IF Has(t, p, "TRACED") /\ sig # SIGKILL THEN stop_proc(t, p, sig)
        ELSE IF sig \in t.catch[p] /\ room THEN v ELSE g
  BY DEF sig_proc
<1> HIDE DEF X
<1>4. Alike(t, v) /\ v.flags = t.flags /\ v.parent = t.parent /\ v.sigstatus = t.sigstatus
  BY <1>1, <1>2, SetCatch
<1>5. v \in Table
  BY <1>4 DEF Alike
<1> HIDE DEF v
<1>6. Good(v, w, MM_PROC_NR) /\ \A c \in Slots : Live(v, c) <=> Live(t, c)
  BY <1>4, AlikeGood
<1>7. Told(v)
  BY <1>4, AlikeTold DEF Reports, Has
<1>8. CASE ~ Has(t, p, "IN_USE")
  BY <1>3, <1>8 DEF Keeps
<1>9. CASE Has(t, p, "IN_USE") /\ Has(t, p, "TRACED") /\ sig # SIGKILL
  BY <1>3, <1>9, StopGood
<1>10. CASE sig_proc(t, p, sig, room) = v
  BY <1>6, <1>7, <1>10 DEF Keeps
<1>11. CASE Has(t, p, "IN_USE") /\ sig_proc(t, p, sig, room) = g
  <2>1. sig \in Sigs \cup {0}
    OBVIOUS
  <2>2. /\ Alike(v, z) /\ z.sigstatus = [v.sigstatus EXCEPT ![p] = sig]
        /\ z.flags = v.flags /\ z.parent = v.parent
    BY <1>1, <1>5, <2>1, SetStatus
  <2> HIDE DEF z
  <2>3. Good(z, w, MM_PROC_NR) /\ \A c \in Slots : Live(z, c) <=> Live(v, c)
    BY <1>6, <2>2, AlikeGood
  <2>4. ToldBut(z, p)
    <3>1. \A c \in Slots \ {p} : Reports(z, c) => Reports(v, c)
      BY <1>1, <1>5, <2>2, Fields DEF Reports, Has
    <3>2. ToldBut(v, p)
      BY <1>7 DEF Told, ToldBut
    <3> QED BY <1>1, <2>2, <3>1, <3>2, AlikeToldBut
  <2>5. Has(z, p, "IN_USE")
    BY <1>4, <1>11, <2>2 DEF Has
  <2>6. Good(g, w, MM_PROC_NR) /\ Told(g) /\ ~ Live(g, p) /\ \A c \in Slots : Live(g, c) => Live(z, c)
    BY <2>3, <2>4, <2>5, ExitGood
  <2> QED BY <1>6, <1>11, <2>3, <2>6 DEF Keeps
<1> QED BY <1>3, <1>8, <1>9, <1>10, <1>11

LEMMA UnpauseGood ==
  ASSUME NEW t, NEW w, NEW p \in Slots, Good(t, w, MM_PROC_NR), Told(t)
  PROVE  Keeps(t, unpause(t, p), w)
<1>1. t \in Table
  BY DEF Good
<1>2. Keeps(t, t, w)
  BY DEF Keeps
<1>3. ASSUME NEW f \in {"WAITING", "PAUSED"}, Has(t, p, f)
      PROVE  Keeps(t, Wake(t, p, f), w)
  <2> DEFINE n == Wake(t, p, f)
  <2>1. /\ Live(t, p) => t.at[p] = "blocked"
        /\ p # w \/ ~ Live(t, p)
    BY <1>3, WaiterBlocked
  <2>2. Woke(t, n, p, f)
    BY <1>1, <2>1, WakeIs
  <2> HIDE DEF n
  <2>3. Good(n, w, MM_PROC_NR)
    BY <1>3, <2>1, <2>2, WakeGood
  <2>4. Told(n)
    BY <1>1, <2>2, WakeTold
  <2>5. \A c \in Slots : Live(n, c) <=> Live(t, c)
    BY <1>1, <2>2, WokeLive
  <2> QED BY <2>3, <2>4, <2>5 DEF Keeps, n
<1> QED BY <1>2, <1>3 DEF unpause, Wake

LEMMA KeepsTrans ==
  ASSUME NEW t, NEW u, NEW v, NEW w, NEW z, Keeps(t, u, w), Keeps(u, v, z)
  PROVE  Keeps(t, v, z)
BY DEF Keeps

LEMMA KeepsGood ==
  ASSUME NEW t, NEW u, NEW w, Keeps(t, u, w)
  PROVE  Good(u, w, MM_PROC_NR) /\ Told(u)
BY DEF Keeps

LEMMA KeepsAlike ==
  ASSUME NEW t, NEW u, NEW w, Good(t, w, MM_PROC_NR), Told(t), Alike(t, u),
         \A c \in Slots : Reports(u, c) => Reports(t, c)
  PROVE  Keeps(t, u, w)
<1>1. Good(u, w, MM_PROC_NR) /\ \A c \in Slots : Live(u, c) <=> Live(t, c)
  BY AlikeGood
<1>2. Told(u)
  BY AlikeTold
<1> QED BY <1>1, <1>2 DEF Keeps

LEMMA MarkGood ==
  ASSUME NEW t, NEW w, NEW p \in Slots, NEW F \in SUBSET Flag,
         Good(t, w, MM_PROC_NR), Told(t),
         \A f \in {"IN_USE", "HANGING", "WAITING", "PAUSED"} : f \in F <=> Has(t, p, f),
         "STOPPED" \in F => Has(t, p, "STOPPED")
  PROVE  Keeps(t, [t EXCEPT !.flags[p] = F], w)
<1> DEFINE u == [t EXCEPT !.flags[p] = F]
<1>1. t \in Table
  BY DEF Good
<1>2. /\ Alike(t, u) /\ u.flags = [t.flags EXCEPT ![p] = F]
      /\ u.parent = t.parent /\ u.sigstatus = t.sigstatus
  BY <1>1, SetMarks
<1> HIDE DEF u
<1>3. \A c \in Slots : Reports(u, c) => Reports(t, c)
  BY <1>1, <1>2, Fields DEF Reports, Has
<1>4. Keeps(t, u, w)
  BY <1>2, <1>3, KeepsAlike
<1> QED BY <1>4 DEF u

LEMMA CheckGood ==
  ASSUME NEW t, NEW w, NEW p \in Slots, NEW who, NEW sig \in Sigs \ {SIGHUP}, NEW room,
         Good(t, w, MM_PROC_NR), Told(t)
  PROVE  Keeps(t, check_sig(t, who, sig, p, room), w)
<1> DEFINE F == t.flags[p] \ (IF sig = SIGALRM THEN {"ALARM_ON"} ELSE {})
           v == [t EXCEPT !.flags[p] = F]
           y == sig_proc(v, p, sig, room)
           r == check_sig(t, who, sig, p, room)
<1>1. t \in Table
  BY DEF Good
<1>2. F \in SUBSET Flag
  BY <1>1, Fields
<1>3. \A f \in {"IN_USE", "HANGING", "WAITING", "PAUSED"} : f \in F <=> Has(t, p, f)
  BY DEF Has
<1>4. r \in {t, v} \/ (Selected(t, who, sig, p) /\ sig \notin t.ignore[p] /\ r = unpause(y, p))
  BY DEF check_sig, Without
<1> HIDE DEF F, r
<1>5. Keeps(t, v, w)
  BY <1>2, <1>3, MarkGood DEF F, Has
<1> HIDE DEF v
<1>6. Keeps(t, v, w)
  BY <1>5
<1>7. CASE r = t
  BY <1>7 DEF Keeps, r
<1>8. CASE r = v
  BY <1>6, <1>8 DEF r
<1>9. CASE Selected(t, who, sig, p) /\ sig \notin t.ignore[p] /\ r = unpause(y, p)
  <2>1. p # INIT
    <3>1. Sigs \ {SIGHUP, SIGKILL} \subseteq t.ignore[INIT]
      BY DEF Good, InitKept
    <3> QED BY <1>9, <3>1 DEF Selected
  <2>2. p \in Users
    BY <2>1, Numbers
  <2>3. Good(v, w, MM_PROC_NR) /\ Told(v)
    BY <1>6, KeepsGood
  <2>4. Keeps(v, y, w)
    BY <2>2, <2>3, SigGood
  <2> HIDE DEF y
  <2>5. Good(y, w, MM_PROC_NR) /\ Told(y)
    BY <2>4, KeepsGood
  <2>6. Keeps(y, unpause(y, p), w)
    BY <2>5, UnpauseGood
  <2>7. Keeps(t, unpause(y, p), w)
    BY <1>6, <2>4, <2>6, KeepsTrans
  <2> QED BY <1>9, <2>7 DEF r
<1> QED BY <1>4, <1>7, <1>8, <1>9

-----------------------------------------------------------------------------
(* Calls *)

LEMMA ReplyGood ==
  ASSUME NEW t, NEW w \in Slots, Good(t, w, MM_PROC_NR), Told(t)
  PROVE  /\ Keeps(t, reply(t, w), MM_PROC_NR)
         /\ Live(t, w) => reply(t, w) = [t EXCEPT !.at[w] = "runs"]
<1> DEFINE u == [t EXCEPT !.at[w] = "runs"]
<1>1. t \in Table
  BY DEF Good
<1>2. CASE ~ Live(t, w)
  <2>1. reply(t, w) = t
    BY <1>2 DEF reply
  <2>2. Good(t, MM_PROC_NR, MM_PROC_NR)
    BY <1>2, WorksFor, Numbers
  <2> QED BY <1>2, <2>1, <2>2 DEF Keeps
<1>3. CASE Live(t, w)
  <2>1. t.at[w] = "blocked" /\ ~ Waits(t, w)
    BY <1>3 DEF Good, Waiters
  <2>2. reply(t, w) = u
    BY <1>3, <2>1 DEF reply
  <2>3. /\ u \in Table /\ Rest(t, u) /\ u.at = [t.at EXCEPT ![w] = "runs"]
        /\ u.flags = t.flags /\ u.parent = t.parent /\ u.in_use = t.in_use
        /\ u.sigstatus = t.sigstatus /\ u.group = t.group /\ u.count = t.count
        /\ u.stop = t.stop
    BY <1>1, SetAt DEF State
  <2> HIDE DEF u
  <2>4. t.flags = [t.flags EXCEPT ![w] = t.flags[w] \ {"WAITING"}]
    <3>1. t.flags[w] \ {"WAITING"} = t.flags[w]
      BY <2>1 DEF Waits
    <3> QED BY <1>1, <3>1, Fields
  <2>5. Woke(t, u, w, "WAITING")
    BY <1>3, <2>3, <2>4 DEF Woke, Others
  <2>6. Good(u, MM_PROC_NR, MM_PROC_NR)
    BY <2>5, AnswerGood
  <2>7. Told(u)
    BY <1>1, <2>5, WakeTold
  <2>8. \A c \in Slots : Live(u, c) <=> Live(t, c)
    BY <1>1, <2>5, WokeLive
  <2>9. Keeps(t, u, MM_PROC_NR)
    BY <2>6, <2>7, <2>8 DEF Keeps
  <2> QED BY <2>2, <2>9 DEF u
<1> QED BY <1>2, <1>3

(* MM takes the call of p *)
LEMMA BlockGood ==
  ASSUME NEW t, NEW p \in Slots, Good(t, MM_PROC_NR, MM_PROC_NR), Told(t), t.at[p] = "calls"
  PROVE  LET u == [t EXCEPT !.at[p] = "blocked"]
         IN  Keeps(t, u, p) /\ Live(u, p) /\ u.flags = t.flags
<1> DEFINE u == [t EXCEPT !.at[p] = "blocked"]
<1>1. /\ t \in Table /\ InitKept(t) /\ NoHangup(t) /\ Parented(t) /\ Counted(t)
      /\ Agree(t, MM_PROC_NR) /\ Waiters(t, MM_PROC_NR) /\ "stray reply" \notin t.wrong
  BY DEF Good
<1>2. /\ u \in Table /\ Rest(t, u) /\ u.at = [t.at EXCEPT ![p] = "blocked"]
      /\ u.flags = t.flags /\ u.parent = t.parent /\ u.in_use = t.in_use
      /\ u.sigstatus = t.sigstatus /\ u.group = t.group /\ u.count = t.count
      /\ u.stop = t.stop
  BY <1>1, SetAt DEF State
<1> HIDE DEF u
<1>3. p # MM_PROC_NR /\ \A r \in Slots : r # MM_PROC_NR
  BY Numbers
<1>4. Live(t, p) /\ ~ Waits(t, p)
  BY <1>1, <1>3 DEF Agree, Waiters
<1>5. \A r \in Slots : /\ Live(u, r) <=> Live(t, r)
                       /\ Has(u, r, "IN_USE") <=> Has(t, r, "IN_USE")
                       /\ Has(u, r, "HANGING") <=> Has(t, r, "HANGING")
                       /\ Has(u, r, "WAITING") <=> Has(t, r, "WAITING")
                       /\ Waits(u, r) <=> Waits(t, r)
  BY <1>2 DEF Live, Has, Waits
<1>6. u.at[p] = "blocked" /\ \A r \in Slots \ {p} : u.at[r] = t.at[r]
  BY <1>1, <1>2, Fields
<1>7. InitKept(u) /\ NoHangup(u)
  BY <1>1, <1>2, <1>5, Numbers DEF InitKept, NoHangup, Rest
<1>8. Parented(u)
  BY <1>1, <1>2, <1>5, Numbers DEF Parented
<1>9. Counted(u)
  <2>1. InUse(u) = InUse(t)
    BY <1>5 DEF InUse
  <2> QED BY <1>1, <1>2, <1>5, <2>1 DEF Counted
<1>10. Agree(u, MM_PROC_NR)
  BY <1>1, <1>4, <1>5, <1>6 DEF Agree
<1>11. Waiters(u, p)
  <2> SUFFICES ASSUME NEW r \in Slots, Live(u, r)
               PROVE  IF r = p THEN u.at[r] = "blocked" /\ ~ Waits(u, r)
                      ELSE /\ u.at[r] = "blocked" <=> Waits(u, r)
                           /\ ~ {"WAITING", "PAUSED"} \subseteq u.flags[r]
    BY DEF Waiters
  <2>1. CASE r = p
    BY <1>4, <1>5, <1>6, <2>1
  <2>2. CASE r # p
    BY <1>1, <1>2, <1>3, <1>5, <1>6, <2>2 DEF Waiters
  <2> QED BY <2>1, <2>2
<1>12. Good(u, p, MM_PROC_NR)
  BY <1>1, <1>2, <1>7, <1>8, <1>9, <1>10, <1>11 DEF Good, Rest
<1>13. Told(u)
  <2>1. Quieter(t, u)
    BY <1>2, <1>5 DEF Quieter, Reports, Has
  <2> QED BY <2>1, QuieterTold
<1>14. Keeps(t, u, p)
  BY <1>5, <1>12, <1>13 DEF Keeps
<1> QED BY <1>2, <1>4, <1>5, <1>14 DEF u

LEMMA SetCall ==
  ASSUME NEW t \in Table, NEW p \in Slots
  PROVE  LET u == [t EXCEPT !.call[p] = NoCall]
         IN  /\ Alike(t, u) /\ u.flags = t.flags /\ u.parent = t.parent
             /\ u.sigstatus = t.sigstatus
<1> DEFINE Y == [t.call EXCEPT ![p] = NoCall]
           u == [t EXCEPT !.call = Y]
<1>1. Y \in [Slots -> AllCalls \cup {NoCall}] /\ Y[INIT] \in {NoCall, t.call[INIT]}
  BY Fields, Numbers
<1> HIDE DEF Y
<1>2. u \in Table
  BY <1>1 DEF Table
<1>3. /\ u.flags = t.flags /\ u.parent = t.parent /\ u.sigstatus = t.sigstatus
      /\ u.ignore = t.ignore /\ u.in_use = t.in_use /\ u.at = t.at /\ u.pending = t.pending
      /\ u.alarm = t.alarm /\ u.wrong = t.wrong /\ u.call = Y
  BY DEF Table
<1> HIDE DEF u
<1>4. Alike(t, u)
  BY <1>1, <1>2, <1>3 DEF Alike, Has
<1>5. [t EXCEPT !.call[p] = NoCall] = u
  BY DEF u, Y
<1> QED BY <1>3, <1>4, <1>5

TakenOf(t, p) == [t EXCEPT !.at[p] = "blocked", !.call[p] = NoCall]

LEMMA TakenGood ==
  ASSUME NEW t, NEW p \in Slots, Good(t, MM_PROC_NR, MM_PROC_NR), Told(t), t.at[p] = "calls"
  PROVE  Keeps(t, TakenOf(t, p), p) /\ Live(TakenOf(t, p), p)
<1> DEFINE v == [t EXCEPT !.at[p] = "blocked"]
           u == [v EXCEPT !.call[p] = NoCall]
<1>1. Keeps(t, v, p) /\ Live(v, p) /\ v.flags = t.flags
  BY BlockGood
<1>2. TakenOf(t, p) = u
  BY DEF TakenOf
<1> HIDE DEF v
<1>3. Good(v, p, MM_PROC_NR) /\ Told(v) /\ v \in Table
  BY <1>1 DEF Keeps, Good
<1>4. /\ Alike(v, u) /\ u.flags = v.flags /\ u.parent = v.parent
      /\ u.sigstatus = v.sigstatus
  BY <1>3, SetCall
<1> HIDE DEF u
<1>5. Keeps(v, u, p)
  BY <1>3, <1>4, KeepsAlike DEF Reports, Has
<1>6. Keeps(t, u, p)
  BY <1>1, <1>5, KeepsTrans
<1>7. Live(u, p)
  BY <1>1, <1>4 DEF Live, Has
<1> QED BY <1>2, <1>6, <1>7

(* The call of w is not answered yet *)
LEMMA HoldGood ==
  ASSUME NEW t, NEW w \in Slots, NEW f \in {"WAITING", "PAUSED"}, Good(t, w, MM_PROC_NR), Told(t),
         f = "WAITING" => \A c \in Children(t, w) : ~ Reports(t, c)
  PROVE  Keeps(t, With(t, w, {f}), MM_PROC_NR)
<1> DEFINE F == t.flags[w] \cup {f}
           u == [t EXCEPT !.flags[w] = F]
<1>1. /\ t \in Table /\ InitKept(t) /\ NoHangup(t) /\ Parented(t) /\ Counted(t)
      /\ Agree(t, MM_PROC_NR) /\ Waiters(t, w) /\ "stray reply" \notin t.wrong
  BY DEF Good
<1>2. F \in SUBSET Flag
  BY <1>1, Fields DEF Flag
<1>3. With(t, w, {f}) = u
  BY DEF With
<1>4. f \in F /\ \A g \in Flag \ {f} : g \in F <=> Has(t, w, g)
  BY DEF Has
<1> HIDE DEF F
<1>5. /\ u \in Table /\ Rest(t, u) /\ u.flags = [t.flags EXCEPT ![w] = F]
      /\ u.at = t.at /\ u.parent = t.parent /\ u.in_use = t.in_use
      /\ u.sigstatus = t.sigstatus /\ u.group = t.group /\ u.count = t.count
      /\ u.stop = t.stop
  BY <1>1, <1>2, SetFlags
<1> HIDE DEF u
<1>6. u.flags[w] = F /\ \A r \in Slots \ {w} : u.flags[r] = t.flags[r]
  BY <1>1, <1>5, Fields
<1>7. \A r \in Slots : \A g \in {"IN_USE", "HANGING", "STOPPED"} : Has(u, r, g) <=> Has(t, r, g)
  BY <1>4, <1>6 DEF Has, Flag
<1>8. \A r \in Slots : /\ Live(u, r) <=> Live(t, r)
                       /\ Reports(u, r) <=> Reports(t, r)
                       /\ Children(u, r) = Children(t, r)
  BY <1>5, <1>7 DEF Live, Reports, Children
<1>9. InitKept(u) /\ NoHangup(u)
  BY <1>1, <1>5, <1>8, Numbers DEF InitKept, NoHangup, Rest
<1>10. Parented(u)
  BY <1>1, <1>5, <1>7, Numbers DEF Parented
<1>11. Counted(u)
  <2>1. InUse(u) = InUse(t)
    BY <1>7 DEF InUse
  <2> QED BY <1>1, <1>5, <1>7, <2>1 DEF Counted
<1>12. Agree(u, MM_PROC_NR)
  BY <1>1, <1>5, <1>8 DEF Agree
<1>13. Waiters(u, MM_PROC_NR)
  <2> SUFFICES ASSUME NEW r \in Slots, Live(u, r)
               PROVE  /\ u.at[r] = "blocked" <=> Waits(u, r)
                      /\ ~ {"WAITING", "PAUSED"} \subseteq u.flags[r]
    BY Numbers DEF Waiters
  <2>1. CASE r = w
    <3>1. t.at[w] = "blocked" /\ ~ Waits(t, w)
      BY <1>1, <1>8, <2>1 DEF Waiters
    <3> QED BY <1>4, <1>5, <1>6, <2>1, <3>1 DEF Waits, Flag, Has
  <2>2. CASE r # w
    BY <1>1, <1>5, <1>6, <1>8, <2>2 DEF Waiters, Waits
  <2> QED BY <2>1, <2>2
<1>14. Good(u, MM_PROC_NR, MM_PROC_NR)
  BY <1>1, <1>5, <1>9, <1>10, <1>11, <1>12, <1>13 DEF Good, Rest
<1>15. Told(u)
  <2> SUFFICES ASSUME NEW r \in Slots PROVE IsTold(u, r)
    BY DEF Told
  <2>1. CASE r # w
    <3>1. IsTold(t, r)
      BY DEF Told
    <3> QED BY <1>6, <1>7, <1>8, <2>1, <3>1 DEF IsTold, Has, Children
  <2>2. CASE r = w
    <3>1. CASE f = "WAITING"
      BY <1>7, <1>8, <2>2, <3>1 DEF IsTold, Reports, Children
    <3>2. CASE f # "WAITING"
      <4>1. Has(u, w, "WAITING") <=> Has(t, w, "WAITING")
        BY <1>4, <1>6, <3>2 DEF Has, Flag
      <4>2. IsTold(t, w)
        BY DEF Told
      <4> QED BY <1>7, <1>8, <2>2, <4>1, <4>2 DEF IsTold, Children
    <3> QED BY <3>1, <3>2
  <2> QED BY <2>1, <2>2
<1> QED BY <1>3, <1>8, <1>14, <1>15 DEF Keeps

LEMMA WaitGood ==
  ASSUME NEW t, NEW p \in Slots, Good(t, p, MM_PROC_NR), Told(t)
  PROVE  Keeps(t, wait(t, p), MM_PROC_NR)
<1> DEFINE news == {c \in Children(t, p) : Reports(t, c)}
           m == Min(news)
<1>1. t \in Table /\ Live(t, INIT)
  BY DEF Good, InitKept
<1>2. CASE news = {} /\ Children(t, p) # {}
  <2>1. wait(t, p) = With(t, p, {"WAITING"})
    BY <1>2 DEF wait
  <2> QED BY <1>2, <2>1, HoldGood
<1>3. CASE news = {} /\ Children(t, p) = {}
  <2>1. wait(t, p) = reply(t, p)
    BY <1>3 DEF wait
  <2> QED BY <2>1, ReplyGood
<1>4. CASE news # {}
  <2>1. m \in news
    <3>1. news \in SUBSET Slots
      BY DEF Children
    <3> QED BY <1>4, <3>1, MinSlot
  <2>2. wait(t, p) = IF Has(t, m, "HANGING") THEN cleanup(t, m)
                     ELSE [reply(t, p) EXCEPT !.sigstatus[m] = 0]
    BY <1>4 DEF wait
  <2>3. m \in Slots /\ t.parent[m] = p /\ Has(t, m, "IN_USE")
    BY <2>1 DEF Children
  <2> HIDE DEF news, m
  <2>4. CASE Has(t, m, "HANGING")
    <3>1. m \in Users
      BY <1>1, <2>3, <2>4, Numbers DEF Live
    <3>2. ToldBut(t, m)
      BY DEF Told, ToldBut
    <3>3. /\ Good(cleanup(t, m), After(p, t.parent[m]), MM_PROC_NR)
          /\ Told(cleanup(t, m)) /\ ~ Has(cleanup(t, m), m, "IN_USE")
          /\ \A c \in Slots : Live(cleanup(t, m), c) => Live(t, c)
      BY <2>3, <2>4, <3>1, <3>2, CleanupGood
    <3> QED BY <2>2, <2>3, <2>4, <3>3 DEF Keeps, After
  <2>5. CASE ~ Has(t, m, "HANGING")
    <3> DEFINE v == reply(t, p)
               u == [v EXCEPT !.sigstatus[m] = 0]
    <3>1. Keeps(t, v, MM_PROC_NR)
      BY ReplyGood
    <3> HIDE DEF v
    <3>2. Good(v, MM_PROC_NR, MM_PROC_NR) /\ Told(v) /\ v \in Table
      BY <3>1 DEF Keeps, Good
    <3>3. 0 \in Sigs \cup {0}
      OBVIOUS
    <3>4. /\ Alike(v, u) /\ u.sigstatus = [v.sigstatus EXCEPT ![m] = 0]
          /\ u.flags = v.flags
      BY <2>3, <3>2, <3>3, SetStatus
    <3> HIDE DEF u
    <3>5. \A c \in Slots : Reports(u, c) => Reports(v, c)
      BY <2>3, <3>2, <3>4, Fields DEF Reports, Has
    <3>6. Keeps(v, u, MM_PROC_NR)
      BY <3>2, <3>4, <3>5, KeepsAlike
    <3>7. Keeps(t, u, MM_PROC_NR)
      BY <3>1, <3>6, KeepsTrans
    <3> QED BY <2>2, <2>5, <3>7 DEF u, v
  <2> QED BY <2>4, <2>5
<1> QED BY <1>2, <1>3, <1>4

LEMMA CauseGood ==
  ASSUME NEW t, NEW w, NEW p \in Users, NEW sig \in Sigs \ {SIGHUP},
         Good(t, w, MM_PROC_NR), Told(t)
  PROVE  Keeps(t, cause_sig(t, p, sig), w)
<1> DEFINE X == t.pending[p] \cup {sig}
           n == t.count[p] + 1
           v == [t EXCEPT !.pending[p] = X]
           u == [v EXCEPT !.count[p] = n]
<1>1. t \in Table /\ p \in Slots /\ p # INIT /\ NoHangup(t)
  BY Numbers DEF Users, Good
<1>2. X \in SUBSET Sigs /\ n \in Nat /\ t.count \in [Slots -> Nat]
  BY <1>1, Fields
<1>3. SIGHUP \notin X
  BY <1>1 DEF NoHangup
<1>4. CASE sig \in t.pending[p]
  BY <1>4 DEF cause_sig, Keeps
<1>5. CASE sig \notin t.pending[p]
  <2>1. cause_sig(t, p, sig) = u
    BY <1>1, <1>2, <1>5 DEF cause_sig, Table
  <2> HIDE DEF X, n
  <2>2. /\ Alike(t, v) /\ v.flags = t.flags /\ v.parent = t.parent
        /\ v.sigstatus = t.sigstatus
    BY <1>1, <1>2, <1>3, SetPending
  <2> HIDE DEF v
  <2>3. Keeps(t, v, w)
    BY <2>2, KeepsAlike DEF Reports, Has
  <2>4. Good(v, w, MM_PROC_NR) /\ Told(v) /\ v \in Table
    BY <2>3 DEF Keeps, Good
  <2>5. /\ Alike(v, u) /\ u.flags = v.flags /\ u.parent = v.parent
        /\ u.sigstatus = v.sigstatus
    BY <1>1, <1>2, <2>4, SetCount
  <2> HIDE DEF u
  <2>6. Keeps(v, u, w)
    BY <2>4, <2>5, KeepsAlike DEF Reports, Has
  <2> QED BY <2>1, <2>3, <2>6, KeepsTrans
<1> QED BY <1>4, <1>5

LEMMA AlarmGood ==
  ASSUME NEW t, NEW w, NEW p \in Slots, NEW on \in BOOLEAN, p = INIT => ~ on,
         Good(t, w, MM_PROC_NR), Told(t)
  PROVE  /\ Keeps(t, set_alarm(t, p, on), w)
         /\ on = FALSE => Keeps(t, [t EXCEPT !.alarm[p] = FALSE], w)
<1>1. ASSUME NEW v, Good(v, w, MM_PROC_NR), Told(v)
      PROVE  Keeps(v, [v EXCEPT !.alarm[p] = on], w)
  <2> DEFINE u == [v EXCEPT !.alarm[p] = on]
  <2>1. v \in Table
    BY <1>1 DEF Good
  <2>2. /\ Alike(v, u) /\ u.flags = v.flags /\ u.parent = v.parent
        /\ u.sigstatus = v.sigstatus
    BY <2>1, SetClock
  <2> HIDE DEF u
  <2>3. Keeps(v, u, w)
    BY <1>1, <2>2, KeepsAlike DEF Reports, Has
  <2> QED BY <2>3 DEF u
<1> DEFINE F == IF on THEN t.flags[p] \cup {"ALARM_ON"} ELSE t.flags[p] \ {"ALARM_ON"}
           v == [t EXCEPT !.flags[p] = F]
<1>2. set_alarm(t, p, on) = [v EXCEPT !.alarm[p] = on]
  BY DEF set_alarm, With, Without
<1>3. F \in SUBSET Flag
  <2>1. t \in Table
    BY DEF Good
  <2> QED BY <2>1, Fields DEF Flag
<1>4. Keeps(t, v, w)
  <2>1. /\ \A f \in {"IN_USE", "HANGING", "WAITING", "PAUSED"} : f \in F <=> Has(t, p, f)
        /\ "STOPPED" \in F => Has(t, p, "STOPPED")
    BY DEF Has
  <2> HIDE DEF F
  <2> QED BY <1>3, <2>1, MarkGood
<1> HIDE DEF v
<1>5. Keeps(v, [v EXCEPT !.alarm[p] = on], w)
  BY <1>1, <1>4, KeepsGood
<1>6. on = FALSE => Keeps(t, [t EXCEPT !.alarm[p] = FALSE], w)
  BY <1>1
<1> QED BY <1>2, <1>4, <1>5, <1>6, KeepsTrans

LEMMA SignalGood ==
  ASSUME NEW t, NEW w, NEW p \in Users, NEW sig \in Sigs, NEW how,
         Good(t, w, MM_PROC_NR), Told(t)
  PROVE  Keeps(t, signal(t, p, sig, how), w)
<1> DEFINE X == IF how = "SIG_IGN" THEN t.ignore[p] \cup {sig} ELSE t.ignore[p] \ {sig}
           Y == IF how = "catch" THEN t.catch[p] \cup {sig} ELSE t.catch[p] \ {sig}
           v == [t EXCEPT !.ignore[p] = X]
           u == [v EXCEPT !.catch[p] = Y]
<1>1. t \in Table /\ p \in Slots /\ p # INIT
  BY Numbers DEF Users, Good
<1>2. X \in SUBSET Sigs /\ Y \in SUBSET Sigs
  BY <1>1, Fields
<1>3. CASE sig = SIGKILL
  BY <1>3 DEF signal, Keeps
<1>4. CASE sig # SIGKILL
  <2>1. signal(t, p, sig, how) = u
    BY <1>1, <1>4 DEF signal, Table
  <2> HIDE DEF X, Y
  <2>2. /\ Alike(t, v) /\ v.flags = t.flags /\ v.parent = t.parent
        /\ v.sigstatus = t.sigstatus
    BY <1>1, <1>2, SetIgnore
  <2> HIDE DEF v
  <2>3. Keeps(t, v, w)
    BY <2>2, KeepsAlike DEF Reports, Has
  <2>4. Good(v, w, MM_PROC_NR) /\ Told(v) /\ v \in Table
    BY <2>3 DEF Keeps, Good
  <2>5. /\ Alike(v, u) /\ u.flags = v.flags /\ u.parent = v.parent
        /\ u.sigstatus = v.sigstatus
    BY <1>1, <1>2, <2>4, SetCatch
  <2> HIDE DEF u
  <2>6. Keeps(v, u, w)
    BY <2>4, <2>5, KeepsAlike DEF Reports, Has
  <2> QED BY <2>1, <2>3, <2>6, KeepsTrans
<1> QED BY <1>3, <1>4

LEMMA TracedGood ==
  ASSUME NEW t, NEW w, NEW p \in Slots, Good(t, w, MM_PROC_NR), Told(t)
  PROVE  /\ Keeps(t, With(t, p, {"TRACED"}), w) /\ Keeps(t, Without(t, p, {"TRACED"}), w)
         /\ Keeps(t, Without(t, p, {"STOPPED"}), w)
         /\ Keeps(t, [t EXCEPT !.stop[p] = FALSE], w)
<1>1. t \in Table
  BY DEF Good
<1>2. ASSUME NEW F \in SUBSET Flag,
             \A f \in {"IN_USE", "HANGING", "WAITING", "PAUSED"} : f \in F <=> Has(t, p, f),
             "STOPPED" \in F => Has(t, p, "STOPPED")
      PROVE  Keeps(t, [t EXCEPT !.flags[p] = F], w)
  BY <1>2, MarkGood
<1>3. t.flags[p] \in SUBSET Flag
  BY <1>1, Fields
<1>4. Keeps(t, With(t, p, {"TRACED"}), w)
  <2> DEFINE F == t.flags[p] \cup {"TRACED"}
  <2>1. /\ F \in SUBSET Flag
        /\ \A f \in {"IN_USE", "HANGING", "WAITING", "PAUSED"} : f \in F <=> Has(t, p, f)
        /\ "STOPPED" \in F => Has(t, p, "STOPPED")
    BY <1>3 DEF Has, Flag
  <2> HIDE DEF F
  <2>2. Keeps(t, [t EXCEPT !.flags[p] = F], w)
    BY <1>2, <2>1
  <2> QED BY <2>2 DEF With, F
<1>5. Keeps(t, Without(t, p, {"TRACED"}), w)
  <2> DEFINE F == t.flags[p] \ {"TRACED"}
  <2>1. /\ F \in SUBSET Flag
        /\ \A f \in {"IN_USE", "HANGING", "WAITING", "PAUSED"} : f \in F <=> Has(t, p, f)
        /\ "STOPPED" \in F => Has(t, p, "STOPPED")
    BY <1>3 DEF Has, Flag
  <2> HIDE DEF F
  <2>2. Keeps(t, [t EXCEPT !.flags[p] = F], w)
    BY <1>2, <2>1
  <2> QED BY <2>2 DEF Without, F
<1>6. Keeps(t, Without(t, p, {"STOPPED"}), w)
  <2> DEFINE F == t.flags[p] \ {"STOPPED"}
  <2>1. /\ F \in SUBSET Flag
        /\ \A f \in {"IN_USE", "HANGING", "WAITING", "PAUSED"} : f \in F <=> Has(t, p, f)
        /\ "STOPPED" \in F => Has(t, p, "STOPPED")
    BY <1>3 DEF Has, Flag
  <2> HIDE DEF F
  <2>2. Keeps(t, [t EXCEPT !.flags[p] = F], w)
    BY <1>2, <2>1
  <2> QED BY <2>2 DEF Without, F
<1>7. Keeps(t, [t EXCEPT !.stop[p] = FALSE], w)
  <2> DEFINE u == [t EXCEPT !.stop[p] = FALSE]
  <2>1. /\ Alike(t, u) /\ u.flags = t.flags /\ u.parent = t.parent
        /\ u.sigstatus = t.sigstatus
    BY <1>1, SetStop
  <2> HIDE DEF u
  <2>2. Keeps(t, u, w)
    BY <2>1, KeepsAlike DEF Reports, Has
  <2> QED BY <2>2 DEF u
<1> QED BY <1>4, <1>5, <1>6, <1>7

LEMMA TraceGood ==
  ASSUME NEW t, NEW w, NEW p \in Slots, NEW c \in Slots, NEW request \in {0, 7, 8, 9},
         NEW data \in {0} \cup Sigs, NEW room, Good(t, w, MM_PROC_NR), Told(t)
  PROVE  Keeps(t, trace(t, p, request, c, data, room), w)
<1> DEFINE a == Without(t, c, {"TRACED"})
           b == sig_proc(a, c, data, room)
           u == IF data = 0 THEN t ELSE With(b, c, {"TRACED"})
           d == Without(u, c, {"STOPPED"})
           r == trace(t, p, request, c, data, room)
<1>1. \/ r = With(t, p, {"TRACED"})
      \/ r = t
      \/ c # INIT /\ Has(t, c, "IN_USE") /\ r = [d EXCEPT !.stop[c] = FALSE]
      \/ c # INIT /\ Has(t, c, "IN_USE") /\ r = mm_exit(t, c)
      \/ r = [t EXCEPT !.stop[c] = FALSE]
  BY DEF trace, Resume, Has
<1> HIDE DEF r
<1>2. CASE r = With(t, p, {"TRACED"})
  BY <1>2, TracedGood DEF r
<1>3. CASE r = t
  BY <1>3 DEF r, Keeps
<1>4. CASE r = [t EXCEPT !.stop[c] = FALSE]
  BY <1>4, TracedGood DEF r
<1>5. CASE c # INIT /\ Has(t, c, "IN_USE") /\ r = mm_exit(t, c)
  <2>1. c \in Users /\ ToldBut(t, c)
    BY <1>5, Numbers DEF Told, ToldBut
  <2>2. /\ Good(mm_exit(t, c), w, MM_PROC_NR) /\ Told(mm_exit(t, c)) /\ ~ Live(mm_exit(t, c), c)
        /\ \A k \in Slots : Live(mm_exit(t, c), k) => Live(t, k)
    BY <1>5, <2>1, ExitGood
  <2> QED BY <1>5, <2>2 DEF r, Keeps
<1>6. CASE c # INIT /\ Has(t, c, "IN_USE") /\ r = [d EXCEPT !.stop[c] = FALSE]
  <2>1. c \in Users
    BY <1>6, Numbers
  <2>2. Keeps(t, u, w)
    <3>1. CASE data = 0
      BY <3>1 DEF Keeps
    <3>2. CASE data # 0
      <4>1. data \in Sigs
        BY <3>2
      <4>2. Keeps(t, a, w)
        BY TracedGood
      <4> HIDE DEF a
      <4>3. Keeps(a, b, w)
        BY <2>1, <4>1, <4>2, KeepsGood, SigGood
      <4> HIDE DEF b
      <4>4. Keeps(b, With(b, c, {"TRACED"}), w)
        BY <4>3, KeepsGood, TracedGood
      <4>5. Keeps(t, With(b, c, {"TRACED"}), w)
        BY <4>2, <4>3, <4>4, KeepsTrans
      <4> QED BY <3>2, <4>5
    <3> QED BY <3>1, <3>2
  <2> HIDE DEF u
  <2>3. Keeps(u, d, w)
    BY <2>2, KeepsGood, TracedGood
  <2> HIDE DEF d
  <2>4. Keeps(d, [d EXCEPT !.stop[c] = FALSE], w)
    BY <2>3, KeepsGood, TracedGood
  <2>5. Keeps(t, [d EXCEPT !.stop[c] = FALSE], w)
    BY <2>2, <2>3, <2>4, KeepsTrans
  <2> QED BY <1>6, <2>5 DEF r
<1> QED BY <1>1, <1>2, <1>3, <1>4, <1>5, <1>6

LEMMA ExecGood ==
  ASSUME NEW t, NEW p \in Users, Good(t, p, MM_PROC_NR), Told(t), Live(t, p)
  PROVE  Keeps(t, sys_exec([t EXCEPT !.catch[p] = {}], p), MM_PROC_NR)
<1> DEFINE v == [t EXCEPT !.catch[p] = {}]
           a == [v EXCEPT !.at[p] = "runs"]
           b == [a EXCEPT !.alarm[p] = FALSE]
<1>1. t \in Table /\ p \in Slots /\ p # INIT /\ {} \in SUBSET Sigs
  BY Numbers DEF Users, Good
<1>2. /\ Alike(t, v) /\ v.flags = t.flags /\ v.parent = t.parent
      /\ v.sigstatus = t.sigstatus
  BY <1>1, SetCatch
<1>3. sys_exec(v, p) = IF Has(v, p, "TRACED") THEN cause_sig(b, p, SIGTRAP) ELSE b
  BY DEF sys_exec
<1> HIDE DEF v
<1>4. Keeps(t, v, p) /\ Live(v, p)
  <2>1. Keeps(t, v, p)
    BY <1>2, KeepsAlike DEF Reports, Has
  <2> QED BY <1>2, <2>1 DEF Live, Has
<1>5. reply(v, p) = a /\ Keeps(v, a, MM_PROC_NR)
  <2>1. Good(v, p, MM_PROC_NR) /\ Told(v)
    BY <1>4, KeepsGood
  <2> QED BY <1>1, <1>4, <2>1, ReplyGood
<1> HIDE DEF a
<1>6. Keeps(a, b, MM_PROC_NR)
  <2>1. Good(a, MM_PROC_NR, MM_PROC_NR) /\ Told(a)
    BY <1>5, KeepsGood
  <2>2. FALSE \in BOOLEAN
    OBVIOUS
  <2> QED BY <1>1, <2>1, <2>2, AlarmGood
<1> HIDE DEF b
<1>7. Keeps(b, cause_sig(b, p, SIGTRAP), MM_PROC_NR)
  <2>1. SIGTRAP \in Sigs \ {SIGHUP}
    BY DEF SIGTRAP, SIGHUP, Sigs
  <2> QED BY <1>6, <2>1, KeepsGood, CauseGood
<1>8. Keeps(t, b, MM_PROC_NR)
  BY <1>4, <1>5, <1>6, KeepsTrans
<1>9. Keeps(t, cause_sig(b, p, SIGTRAP), MM_PROC_NR)
  BY <1>7, <1>8, KeepsTrans
<1>10. Keeps(t, sys_exec(v, p), MM_PROC_NR)
  BY <1>3, <1>8, <1>9
<1> QED BY <1>10 DEF v

-----------------------------------------------------------------------------
(* fork() *)

LEMMA FreeGood ==
  ASSUME NEW t, Counted(t), t.in_use < NR_PROCS
  PROVE  LET S == {c \in Slots : ~ Has(t, c, "IN_USE")} IN Min(S) \in S
<1> DEFINE S == {c \in Slots : ~ Has(t, c, "IN_USE")}
<1>1. S # {}
  <2> SUFFICES ASSUME S = {} PROVE FALSE
    OBVIOUS
  <2>1. InUse(t) = Slots
    BY DEF InUse
  <2>2. INIT \in Int /\ NR_PROCS - 1 \in Int /\ INIT <= NR_PROCS - 1 + 1
    BY Numbers
  <2>3. Cardinality(INIT .. NR_PROCS - 1) = IF INIT > NR_PROCS - 1 THEN 0
                                            ELSE NR_PROCS - 1 - INIT + 1
    BY <2>2, FS_Interval
  <2>4. Cardinality(Slots) = NR_PROCS - 2
    BY <2>3, Numbers DEF Slots
  <2> QED BY <2>1, <2>4, Numbers DEF Counted
<1>2. S \in SUBSET Slots
  OBVIOUS
<1>3. Min(S) \in S
  BY <1>1, <1>2, MinSlot
<1> QED BY <1>3

LEMMA RegroupedType ==
  ASSUME NEW t \in Table, NEW c \in Slots
  PROVE  Regrouped(t, c) \in [Slots -> Slots \cup {MM_PROC_NR}]
<1> DEFINE old == {q \in Slots \ {c} : t.group[q] = c /\ Has(t, q, "IN_USE")}
<1>1. \A q \in Slots : q \in old => Min(old) \in Slots
  <2>1. old \in SUBSET Slots
    OBVIOUS
  <2>2. old # {} => Min(old) \in old
    BY <2>1, MinSlot
  <2> QED BY <2>1, <2>2
<1>2. Regrouped(t, c) = [q \in Slots |-> IF q \in old THEN Min(old) ELSE t.group[q]]
  BY DEF Regrouped
<1> HIDE DEF old
<1> QED BY <1>1, <1>2, Fields

(* c is the child of p and has got its reply *)
Forked(t, u, p, c) ==
  /\ u \in Table /\ u.flags = [t.flags EXCEPT ![c] = t.flags[p] \ {"TRACED"}]
  /\ u.parent = [t.parent EXCEPT ![c] = p] /\ u.in_use = t.in_use + 1
  /\ u.at = [t.at EXCEPT ![c] = "runs"] /\ u.wrong = t.wrong
  /\ u.pending = [t.pending EXCEPT ![c] = {}]
  /\ \A r \in Slots \ {c} : /\ u.ignore[r] = t.ignore[r] /\ u.alarm[r] = t.alarm[r]
                            /\ u.call[r] = t.call[r] /\ u.sigstatus[r] = t.sigstatus[r]

LEMMA ForkIs ==
  ASSUME NEW t \in Table, NEW p \in Slots, NEW c \in Slots \ {p}, Live(t, p),
         t.at[p] = "blocked"
  PROVE  Forked(t, reply(sys_fork(Copy(t, p, c), p, c), c), p, c)
<1> DEFINE F == t.flags[p] \ {"TRACED"}
           flags == [t.flags EXCEPT ![c] = F]
           parent == [t.parent EXCEPT ![c] = p]
           group == [Regrouped(t, c) EXCEPT ![c] = IF p = INIT THEN c ELSE Regrouped(t, c)[p]]
           sigstatus == [t.sigstatus EXCEPT ![c] = 0]
           catch == [t.catch EXCEPT ![c] = t.catch[p]]
           ignore == [t.ignore EXCEPT ![c] = t.ignore[p]]
           n == t.in_use + 1
           k == [t EXCEPT !.flags = flags, !.parent = parent, !.group = group,
                          !.sigstatus = sigstatus, !.catch = catch, !.ignore = ignore,
                          !.in_use = n]
<1>1. Copy(t, p, c) = k
  BY DEF Copy
<1>2. /\ flags \in [Slots -> SUBSET Flag] /\ parent \in [Slots -> Slots \cup {MM_PROC_NR}]
      /\ sigstatus \in [Slots -> Sigs \cup {0}] /\ n \in Nat
      /\ catch \in [Slots -> SUBSET Sigs] /\ ignore \in [Slots -> SUBSET Sigs]
  BY Fields
<1>3. group \in [Slots -> Slots \cup {MM_PROC_NR}]
  <2> DEFINE R == Regrouped(t, c)
  <2>1. R \in [Slots -> Slots \cup {MM_PROC_NR}]
    BY RegroupedType
  <2> HIDE DEF R
  <2>2. [R EXCEPT ![c] = IF p = INIT THEN c ELSE R[p]] \in [Slots -> Slots \cup {MM_PROC_NR}]
    BY <2>1
  <2> QED BY <2>2 DEF R
<1>4. /\ \A r \in Slots \ {c} : sigstatus[r] = t.sigstatus[r] /\ ignore[r] = t.ignore[r]
      /\ flags[c] = F /\ "IN_USE" \in F /\ "HANGING" \notin F
  BY Fields DEF Live, Has
<1> HIDE DEF group, sigstatus, catch, ignore
<1>5. k \in Table
  <2> HIDE DEF flags, parent, n
  <2> QED BY <1>2, <1>3 DEF Table
<1>6. /\ k.flags = flags /\ k.parent = parent /\ k.in_use = n /\ k.sigstatus = sigstatus
      /\ k.ignore = ignore /\ k.at = t.at /\ k.call = t.call /\ k.pending = t.pending
      /\ k.alarm = t.alarm /\ k.wrong = t.wrong /\ k.count = t.count /\ k.stop = t.stop
  <2> HIDE DEF flags, parent, n
  <2> QED BY DEF Table
<1> HIDE DEF k
<1> DEFINE at == [t.at EXCEPT ![c] = "blocked"]
           call == [t.call EXCEPT ![c] = NoCall]
           alarm == [t.alarm EXCEPT ![c] = t.alarm[p]]
           pending == [t.pending EXCEPT ![c] = {}]
           count == [t.count EXCEPT ![c] = 0]
           stop == [t.stop EXCEPT ![c] = FALSE]
           m == [k EXCEPT !.at = at, !.call = call, !.alarm = alarm, !.pending = pending,
                          !.count = count, !.stop = stop]
<1>7. sys_fork(k, p, c) = m
  BY <1>6 DEF sys_fork
<1>8. /\ at \in [Slots -> State] /\ call \in [Slots -> AllCalls \cup {NoCall}]
      /\ alarm \in [Slots -> BOOLEAN] /\ pending \in [Slots -> SUBSET Sigs]
      /\ count \in [Slots -> Nat] /\ stop \in [Slots -> BOOLEAN]
  BY Fields DEF State
<1>9. /\ \A r \in Slots \ {c} : alarm[r] = t.alarm[r] /\ call[r] = t.call[r]
      /\ at[c] = "blocked" /\ [at EXCEPT ![c] = "runs"] = [t.at EXCEPT ![c] = "runs"]
  BY Fields
<1> HIDE DEF call, alarm, count, stop
<1>10. m \in Table
  <2> HIDE DEF at, pending
  <2> QED BY <1>5, <1>8 DEF Table
<1>11. /\ m.flags = k.flags /\ m.parent = k.parent /\ m.in_use = k.in_use
       /\ m.sigstatus = k.sigstatus /\ m.ignore = k.ignore /\ m.wrong = k.wrong
       /\ m.at = at /\ m.call = call /\ m.pending = pending /\ m.alarm = alarm
  <2> HIDE DEF at, pending
  <2> QED BY <1>5 DEF Table
<1> HIDE DEF m
<1>12. Live(m, c) /\ m.at[c] = "blocked"
  BY <1>4, <1>6, <1>9, <1>11 DEF Live, Has
<1> DEFINE v == [m EXCEPT !.at[c] = "runs"]
<1>13. reply(m, c) = v
  BY <1>12 DEF reply
<1>14. /\ v \in Table /\ Rest(m, v) /\ v.at = [m.at EXCEPT ![c] = "runs"]
       /\ v.flags = m.flags /\ v.parent = m.parent /\ v.in_use = m.in_use
       /\ v.sigstatus = m.sigstatus /\ v.group = m.group /\ v.count = m.count
       /\ v.stop = m.stop
  BY <1>10, SetAt DEF State
<1>15. v.ignore = m.ignore
  BY <1>10 DEF Table
<1> HIDE DEF v
<1>16. /\ v.flags = flags /\ v.parent = parent /\ v.in_use = n
       /\ v.at = [t.at EXCEPT ![c] = "runs"] /\ v.wrong = t.wrong /\ v.pending = pending
  BY <1>6, <1>9, <1>11, <1>14 DEF Rest
<1>17. \A r \in Slots \ {c} : /\ v.ignore[r] = t.ignore[r] /\ v.alarm[r] = t.alarm[r]
                              /\ v.call[r] = t.call[r] /\ v.sigstatus[r] = t.sigstatus[r]
  BY <1>4, <1>6, <1>9, <1>11, <1>14, <1>15 DEF Rest
<1>18. Forked(t, v, p, c)
  BY <1>14, <1>16, <1>17 DEF Forked
<1> QED BY <1>1, <1>7, <1>13, <1>18

LEMMA ForkGood ==
  ASSUME NEW t, NEW p \in Slots, NEW c \in Slots, Good(t, p, MM_PROC_NR), Told(t),
         Live(t, p), ~ Has(t, c, "IN_USE")
  PROVE  Good(fork(t, p, c), MM_PROC_NR, MM_PROC_NR) /\ Told(fork(t, p, c))
<1> DEFINE v == reply(sys_fork(Copy(t, p, c), p, c), c)
<1>1. /\ t \in Table /\ InitKept(t) /\ NoHangup(t) /\ Parented(t) /\ Counted(t)
      /\ Agree(t, MM_PROC_NR) /\ Waiters(t, p) /\ "stray reply" \notin t.wrong
  BY DEF Good
<1>2. c # p /\ c # INIT /\ Has(t, p, "IN_USE") /\ ~ Has(t, p, "HANGING") /\ INIT \in Slots
  BY <1>1, Numbers DEF Live, InitKept
<1>3. t.at[p] = "blocked" /\ ~ Waits(t, p)
  BY <1>1 DEF Waiters
<1>4. Forked(t, v, p, c)
  BY <1>1, <1>2, <1>3, ForkIs
<1>5. fork(t, p, c) = reply(v, p)
  BY DEF fork
<1> HIDE DEF v
<1>6. /\ v \in Table /\ v.in_use = t.in_use + 1 /\ v.wrong = t.wrong
      /\ v.flags = [t.flags EXCEPT ![c] = t.flags[p] \ {"TRACED"}]
      /\ v.parent = [t.parent EXCEPT ![c] = p]
      /\ v.at = [t.at EXCEPT ![c] = "runs"]
      /\ v.pending = [t.pending EXCEPT ![c] = {}]
      /\ \A r \in Slots \ {c} : /\ v.ignore[r] = t.ignore[r] /\ v.alarm[r] = t.alarm[r]
                                /\ v.call[r] = t.call[r] /\ v.sigstatus[r] = t.sigstatus[r]
  BY <1>4 DEF Forked
<1>7. /\ v.flags[c] = t.flags[p] \ {"TRACED"} /\ v.parent[c] = p /\ v.at[c] = "runs"
      /\ v.pending[c] = {}
      /\ \A r \in Slots \ {c} : /\ v.flags[r] = t.flags[r] /\ v.parent[r] = t.parent[r]
                                /\ v.at[r] = t.at[r] /\ v.pending[r] = t.pending[r]
  <2>1. /\ t.flags \in [Slots -> SUBSET Flag]
        /\ t.parent \in [Slots -> Slots \cup {MM_PROC_NR}]
        /\ t.at \in [Slots -> State] /\ t.pending \in [Slots -> SUBSET Sigs]
    BY <1>1, Fields
  <2>2. /\ v.flags = [t.flags EXCEPT ![c] = t.flags[p] \ {"TRACED"}]
        /\ v.parent = [t.parent EXCEPT ![c] = p] /\ v.at = [t.at EXCEPT ![c] = "runs"]
        /\ v.pending = [t.pending EXCEPT ![c] = {}]
    BY <1>6
  <2> QED BY <2>1, <2>2
<1>8. /\ Live(v, c) /\ ~ Waits(v, c) /\ Has(v, c, "IN_USE") /\ ~ Has(v, c, "HANGING")
      /\ \A r \in Slots \ {c} : /\ Live(v, r) <=> Live(t, r)
                                /\ Has(v, r, "IN_USE") <=> Has(t, r, "IN_USE")
                                /\ Has(v, r, "HANGING") <=> Has(t, r, "HANGING")
                                /\ Has(v, r, "WAITING") <=> Has(t, r, "WAITING")
                                /\ Waits(v, r) <=> Waits(t, r)
                                /\ Reports(v, r) <=> Reports(t, r)
  BY <1>2, <1>3, <1>6, <1>7 DEF Live, Has, Waits, Reports
<1>9. InitKept(v)
  BY <1>1, <1>2, <1>6, <1>7, <1>8 DEF InitKept
<1>10. NoHangup(v)
  BY <1>1, <1>7 DEF NoHangup
<1>11. Parented(v)
  <2> SUFFICES ASSUME NEW r \in Users, Has(v, r, "IN_USE")
               PROVE  v.parent[r] \in Slots \ {r} /\ Has(v, v.parent[r], "IN_USE")
    BY DEF Parented
  <2>1. CASE r = c
    BY <1>2, <1>7, <1>8, <2>1
  <2>2. CASE r # c
    <3>1. r \in Slots \ {c} /\ Has(t, r, "IN_USE")
      BY <1>8, <2>2, Numbers
    <3>2. t.parent[r] \in Slots \ {r} /\ Has(t, t.parent[r], "IN_USE")
      BY <1>1, <3>1 DEF Parented
    <3>3. v.parent[r] = t.parent[r] /\ t.parent[r] # c
      BY <1>7, <3>1, <3>2
    <3> QED BY <1>8, <3>2, <3>3
  <2> QED BY <2>1, <2>2
<1>12. Counted(v)
  <2>1. InUse(v) = InUse(t) \cup {c} /\ c \notin InUse(t)
    BY <1>8 DEF InUse
  <2>2. IsFiniteSet(InUse(t))
    BY SlotsFinite, FS_Subset DEF InUse
  <2>3. Cardinality(InUse(v)) = Cardinality(InUse(t)) + 1
    BY <2>1, <2>2, FS_AddElement
  <2>4. Cardinality(InUse(t)) \in Nat
    BY <2>2, FS_CardinalityType
  <2>5. \A r \in Slots : Has(v, r, "HANGING") => Has(v, r, "IN_USE")
    BY <1>1, <1>8 DEF Counted
  <2>6. t.in_use = 2 + Cardinality(InUse(t)) /\ v.in_use = t.in_use + 1
    BY <1>1, <1>6 DEF Counted
  <2>7. v.in_use = 2 + Cardinality(InUse(v))
    BY <2>3, <2>4, <2>6
  <2> QED BY <2>5, <2>7 DEF Counted
<1>13. Agree(v, MM_PROC_NR)
  BY <1>1, <1>7, <1>8 DEF Agree
<1>14. Waiters(v, p)
  <2> SUFFICES ASSUME NEW r \in Slots, Live(v, r)
               PROVE  IF r = p THEN v.at[r] = "blocked" /\ ~ Waits(v, r)
                      ELSE /\ v.at[r] = "blocked" <=> Waits(v, r)
                           /\ ~ {"WAITING", "PAUSED"} \subseteq v.flags[r]
    BY DEF Waiters
  <2>1. CASE r = c
    BY <1>2, <1>7, <1>8, <2>1 DEF Waits
  <2>2. CASE r # c
    <3>1. r \in Slots \ {c} /\ Live(t, r)
      BY <1>8, <2>2
    <3>2. v.flags[r] = t.flags[r] /\ v.at[r] = t.at[r]
      BY <1>7, <3>1
    <3> QED BY <1>1, <3>1, <3>2 DEF Waiters, Waits
  <2> QED BY <2>1, <2>2
<1>15. Good(v, p, MM_PROC_NR)
  BY <1>1, <1>6, <1>9, <1>10, <1>11, <1>12, <1>13, <1>14 DEF Good
<1>16. Told(v)
  <2> SUFFICES ASSUME NEW r \in Slots, Live(v, r), Has(v, r, "WAITING"), NEW k \in Children(v, r)
               PROVE  ~ Has(v, k, "HANGING") /\ (Reports(v, k) => r = INIT)
    BY DEF Told, IsTold
  <2>1. r # c /\ r # p
    BY <1>2, <1>3, <1>8 DEF Waits, Has
  <2>2. k \in Slots /\ v.parent[k] = r /\ Has(v, k, "IN_USE") /\ k # c
    BY <1>7, <2>1 DEF Children
  <2>3. t.parent[k] = r /\ Has(t, k, "IN_USE") /\ Live(t, r) /\ Has(t, r, "WAITING")
    BY <1>7, <1>8, <2>1, <2>2
  <2>4. ~ Has(t, k, "HANGING") /\ (Reports(t, k) => r = INIT)
    BY <2>2, <2>3 DEF Told, IsTold, Children
  <2> QED BY <1>8, <2>2, <2>4
<1>17. Keeps(v, reply(v, p), MM_PROC_NR)
  BY <1>15, <1>16, ReplyGood
<1> QED BY <1>5, <1>17, KeepsGood

-----------------------------------------------------------------------------
(* The steps of Next *)

LEMMA Resumed ==
  ASSUME Good(s', mm'.by, MM_PROC_NR), Told(s'), Doing', may' = may, may \in Mixes
  PROVE  IInv'
BY DEF IInv

(* A step of a program or of the kernel *)
LEMMA StepKept ==
  ASSUME IInv, Keeps(s, s', mm.by), mm' = mm, may' = may
  PROVE  IInv'
<1>1. Good(s', mm'.by, MM_PROC_NR) /\ Told(s')
  BY KeepsGood
<1>2. Doing'
  BY DEF IInv, Doing
<1> QED BY <1>1, <1>2, Resumed DEF IInv

(* MM serves a call *)
LEMMA ServeKept ==
  ASSUME IInv, mm = Idle, Good(s', MM_PROC_NR, MM_PROC_NR), Told(s'), mm' = mm, may' = may
  PROVE  IInv'
<1>1. mm'.by = MM_PROC_NR /\ Doing'
  BY DEF Idle, Doing
<1> QED BY <1>1, Resumed DEF IInv

LEMMA CallArgs ==
  ASSUME NEW c \in AllCalls \cup {NoCall}
  PROVE  /\ c[1] = "do_alarm" => c[2] \in BOOLEAN
         /\ c[1] = "do_signal" => c[2] \in Sigs
         /\ c[1] = "do_kill" => c[2] \in Slots \cup {0, -1} /\ c[3] \in Sigs \ {SIGHUP}
         /\ c[1] = "do_trace" => c[2] \in {0, 7, 8, 9} /\ c[3] \in Slots /\ c[4] \in {0} \cup Sigs
         /\ c \in InitCalls \cup {NoCall} => c[1] \in {"do_fork", "do_wait", "none"}
<1>1. CASE c \in {<<"do_fork">>, <<"do_wait">>, <<"do_mm_exit">>, <<"do_exec">>, <<"do_pause">>, NoCall}
  BY <1>1 DEF NoCall, InitCalls
<1>2. CASE c \in {"do_alarm"} \X BOOLEAN
  BY <1>2 DEF NoCall, InitCalls
<1>3. CASE c \in {"do_signal"} \X (Sigs \ {SIGHUP}) \X {"SIG_IGN", "SIG_DFL", "catch"}
  BY <1>3 DEF NoCall, InitCalls
<1>4. CASE c \in {"do_kill"} \X (Slots \cup {0, -1}) \X (Sigs \ {SIGHUP})
  BY <1>4 DEF NoCall, InitCalls
<1>5. CASE c \in {"do_trace"} \X {0, 7, 8, 9} \X Slots \X ({0} \cup (Sigs \ {SIGHUP}))
  BY <1>5 DEF NoCall, InitCalls
<1> QED BY <1>1, <1>2, <1>3, <1>4, <1>5 DEF AllCalls

(* What MM finds when it takes a call *)
LEMMA Served ==
  ASSUME IInv, NEW p \in Slots, NEW name, Serve(p, name)
  PROVE  /\ mm = Idle /\ Good(Taken(p), p, MM_PROC_NR) /\ Told(Taken(p)) /\ Live(Taken(p), p)
         /\ name \notin {"do_fork", "do_wait", "none"} => p \in Users
         /\ s.call[p] \in AllCalls \cup {NoCall} /\ s.call[p][1] = name
<1>1. mm = Idle /\ s.at[p] = "calls" /\ s.call[p][1] = name
  BY DEF Serve
<1>2. Good(s, MM_PROC_NR, MM_PROC_NR) /\ Told(s)
  BY <1>1 DEF IInv, Idle
<1>3. s \in Table /\ InitKept(s)
  BY <1>2 DEF Good
<1>4. s.call[p] \in AllCalls \cup {NoCall}
  BY <1>3, Fields
<1>5. p = INIT => name \in {"do_fork", "do_wait", "none"}
  BY <1>1, <1>3, <1>4, CallArgs DEF InitKept
<1>6. Keeps(s, TakenOf(s, p), p) /\ Live(TakenOf(s, p), p)
  BY <1>1, <1>2, TakenGood
<1>7. Taken(p) = TakenOf(s, p)
  BY DEF Taken, TakenOf
<1> QED BY <1>1, <1>4, <1>5, <1>6, <1>7, KeepsGood, Numbers

LEMMA MixType ==
  ASSUME may \in Mixes
  PROVE  may.calls \subseteq AllCalls /\ may.raised \subseteq Sigs \ {SIGHUP}
BY MmProcAssumption DEF Mix

LEMMA AskStep ==
  ASSUME IInv, NEW p \in Slots, Ask(p)
  PROVE  IInv'
<1>1. /\ s.at[p] = "runs" /\ mm' = mm /\ may' = may
      /\ \E c \in IF p = INIT THEN InitCalls ELSE may.calls :
           s' = [s EXCEPT !.at[p] = "calls", !.call[p] = c]
  BY DEF Ask, Runs
<1>2. PICK c \in IF p = INIT THEN InitCalls ELSE may.calls :
        s' = [s EXCEPT !.at[p] = "calls", !.call[p] = c]
  BY <1>1
<1>3. c \in AllCalls /\ (p = INIT => c \in InitCalls)
  BY <1>2, MixType DEF IInv, InitCalls, AllCalls
<1>4. Good(s, mm.by, MM_PROC_NR) /\ Told(s) /\ s \in Table
  BY DEF IInv, Good
<1> DEFINE at == [s.at EXCEPT ![p] = "calls"]
           call == [s.call EXCEPT ![p] = c]
           u == [s EXCEPT !.at = at, !.call = call]
<1>5. s' = u
  BY <1>2
<1>6. at \in [Slots -> State] /\ call \in [Slots -> AllCalls \cup {NoCall}]
  BY <1>3, <1>4, Fields DEF State
<1>7. /\ \A r \in Slots : /\ at[r] = "free" <=> s.at[r] = "free"
                          /\ at[r] = "blocked" <=> s.at[r] = "blocked"
      /\ call[INIT] \in InitCalls \cup {NoCall, s.call[INIT]}
  BY <1>1, <1>3, <1>4, Fields, Numbers
<1> HIDE DEF at, call
<1>8. u \in Table
  BY <1>4, <1>6 DEF Table
<1>9. /\ u.flags = s.flags /\ u.parent = s.parent /\ u.sigstatus = s.sigstatus
      /\ u.ignore = s.ignore /\ u.in_use = s.in_use /\ u.at = at /\ u.pending = s.pending
      /\ u.alarm = s.alarm /\ u.wrong = s.wrong /\ u.call = call
  BY <1>4 DEF Table
<1> HIDE DEF u
<1>10. Alike(s, u)
  BY <1>7, <1>8, <1>9 DEF Alike, Has
<1>11. Keeps(s, s', mm.by)
  BY <1>4, <1>5, <1>9, <1>10, KeepsAlike DEF Reports, Has
<1> QED BY <1>1, <1>11, StepKept

LEMMA AlarmStep ==
  ASSUME IInv, NEW p \in Slots, Alarm(p)
  PROVE  IInv'
<1> DEFINE u == cause_sig(s, p, SIGALRM)
<1>1. /\ s.alarm[p] /\ mm' = mm /\ may' = may /\ s' = [u EXCEPT !.alarm[p] = FALSE]
  BY DEF Alarm
<1>2. Good(s, mm.by, MM_PROC_NR) /\ Told(s) /\ ~ s.alarm[INIT]
  BY DEF IInv, Good, InitKept
<1>3. p \in Users
  BY <1>1, <1>2, Numbers
<1>4. SIGALRM \in Sigs \ {SIGHUP} /\ FALSE \in BOOLEAN
  BY DEF SIGALRM, SIGHUP, Sigs
<1>5. Keeps(s, u, mm.by)
  BY <1>2, <1>3, <1>4, CauseGood
<1> HIDE DEF u
<1>6. Good(u, mm.by, MM_PROC_NR) /\ Told(u)
  BY <1>5, KeepsGood
<1>7. Keeps(u, s', mm.by)
  BY <1>1, <1>4, <1>6, AlarmGood
<1>8. Keeps(s, s', mm.by)
  BY <1>5, <1>7, KeepsTrans
<1> QED BY <1>1, <1>8, StepKept

LEMMA RaiseStep ==
  ASSUME IInv, NEW p \in Slots, Raise(p)
  PROVE  IInv'
<1>1. /\ p # INIT /\ mm' = mm /\ may' = may
      /\ \E sig \in may.raised : s' = cause_sig(s, p, sig)
  BY DEF Raise
<1>2. PICK sig \in may.raised : s' = cause_sig(s, p, sig)
  BY <1>1
<1>3. sig \in Sigs \ {SIGHUP} /\ p \in Users
  BY <1>1, <1>2, MixType, Numbers DEF IInv
<1>4. Good(s, mm.by, MM_PROC_NR) /\ Told(s)
  BY DEF IInv
<1>5. Keeps(s, s', mm.by)
  BY <1>2, <1>3, <1>4, CauseGood
<1> QED BY <1>1, <1>5, StepKept

(* MM's answers to a call that it has taken *)
LEMMA ResultKept ==
  ASSUME IInv, NEW p \in Slots, NEW name, Serve(p, name),
         NEW t, Keeps(Taken(p), t, MM_PROC_NR), Result(t)
  PROVE  IInv'
<1>1. s' = t /\ mm' = mm /\ may' = may
  BY DEF Result
<1>2. Good(s', MM_PROC_NR, MM_PROC_NR) /\ Told(s')
  BY <1>1, KeepsGood
<1>3. mm = Idle
  BY DEF Serve
<1> QED BY <1>1, <1>2, <1>3, ServeKept

LEMMA ReplyKept ==
  ASSUME IInv, NEW p \in Slots, NEW name, Serve(p, name),
         NEW t, Keeps(Taken(p), t, p), Result(reply(t, p))
  PROVE  IInv'
<1>1. Keeps(t, reply(t, p), MM_PROC_NR)
  BY KeepsGood, ReplyGood
<1>2. Keeps(Taken(p), reply(t, p), MM_PROC_NR)
  BY <1>1, KeepsTrans
<1> QED BY <1>2, ResultKept

LEMMA TakenKeeps ==
  ASSUME IInv, NEW p \in Slots, NEW name, Serve(p, name)
  PROVE  Keeps(Taken(p), Taken(p), p)
BY Served DEF Keeps

LEMMA ForkStep ==
  ASSUME IInv, NEW p \in Slots, do_fork(p)
  PROVE  IInv'
<1> DEFINE t == Taken(p)
<1>1. Serve(p, "do_fork")
  BY DEF do_fork
<1>2. CASE Result(reply(t, p))
  BY <1>1, <1>2, TakenKeeps, ReplyKept
<1>3. CASE s.in_use < NR_PROCS /\ Result(fork(t, p, FreeSlot))
  <2>1. /\ mm = Idle /\ Good(t, p, MM_PROC_NR) /\ Told(t) /\ Live(t, p)
    BY <1>1, Served
  <2>2. FreeSlot \in Slots /\ ~ Has(s, FreeSlot, "IN_USE")
    <3>1. Counted(s)
      BY DEF IInv, Good
    <3> QED BY <1>3, <3>1, FreeGood DEF FreeSlot
  <2>3. t.flags = s.flags
    <3>1. s \in Table
      BY DEF IInv, Good
    <3> QED BY <3>1 DEF Taken, Table
  <2>4. ~ Has(t, FreeSlot, "IN_USE")
    BY <2>2, <2>3 DEF Has
  <2> HIDE DEF t
  <2>5. Good(fork(t, p, FreeSlot), MM_PROC_NR, MM_PROC_NR) /\ Told(fork(t, p, FreeSlot))
    BY <2>1, <2>2, <2>4, ForkGood
  <2>6. s' = fork(t, p, FreeSlot) /\ mm' = mm /\ may' = may
    BY <1>3 DEF Result
  <2>7. Good(s', MM_PROC_NR, MM_PROC_NR) /\ Told(s')
    BY <2>5, <2>6
  <2> QED BY <2>1, <2>6, <2>7, ServeKept
<1>4. s.in_use < (IF may.super \/ p = INIT THEN NR_PROCS ELSE NR_PROCS - LAST_FEW)
        => s.in_use < NR_PROCS
  <2>1. s \in Table
    BY DEF IInv, Good
  <2>2. s.in_use \in Nat /\ NR_PROCS \in Nat
    BY <2>1, Numbers, Fields
  <2> DEFINE super == may.super \/ p = INIT
             n == s.in_use
  <2> HIDE DEF super, n
  <2>3. n \in Nat /\ n < (IF super THEN NR_PROCS ELSE NR_PROCS - LAST_FEW) => n < NR_PROCS
    BY <2>2 DEF LAST_FEW
  <2> QED BY <2>2, <2>3 DEF super, n
<1> QED BY <1>2, <1>3, <1>4 DEF do_fork

LEMMA ExitStep ==
  ASSUME IInv, NEW p \in Slots, do_mm_exit(p)
  PROVE  IInv'
<1> DEFINE t == Taken(p)
<1>1. Serve(p, "do_mm_exit") /\ s' = mm_exit(t, p) /\ mm' = mm /\ may' = may
  BY DEF do_mm_exit, Result
<1>2. mm = Idle /\ Good(t, p, MM_PROC_NR) /\ Told(t) /\ Live(t, p) /\ p \in Users
  BY <1>1, Served
<1> HIDE DEF t
<1>3. Has(t, p, "IN_USE") /\ ToldBut(t, p)
  BY <1>2 DEF Live, Told, ToldBut
<1>4. /\ Good(s', p, MM_PROC_NR) /\ Told(s') /\ ~ Live(s', p)
  <2>1. /\ Good(mm_exit(t, p), p, MM_PROC_NR) /\ Told(mm_exit(t, p)) /\ ~ Live(mm_exit(t, p), p)
        /\ \A c \in Slots : Live(mm_exit(t, p), c) => Live(t, c)
    BY <1>2, <1>3, ExitGood
  <2> QED BY <1>1, <2>1
<1>5. Good(s', MM_PROC_NR, MM_PROC_NR)
  BY <1>4, WorksFor, Numbers
<1> QED BY <1>1, <1>2, <1>4, <1>5, ServeKept

LEMMA WaitStep ==
  ASSUME IInv, NEW p \in Slots, do_wait(p)
  PROVE  IInv'
<1> DEFINE t == Taken(p)
<1>1. Serve(p, "do_wait") /\ Result(wait(t, p))
  BY DEF do_wait
<1>2. Good(t, p, MM_PROC_NR) /\ Told(t)
  BY <1>1, Served
<1>3. Keeps(t, wait(t, p), MM_PROC_NR)
  BY <1>2, WaitGood
<1> QED BY <1>1, <1>3, ResultKept

LEMMA ExecStep ==
  ASSUME IInv, NEW p \in Slots, do_exec(p)
  PROVE  IInv'
<1> DEFINE t == Taken(p)
<1>1. Serve(p, "do_exec")
  BY DEF do_exec
<1>2. CASE Result(reply(t, p))
  BY <1>1, <1>2, TakenKeeps, ReplyKept
<1>3. CASE Result(sys_exec([t EXCEPT !.catch[p] = {}], p))
  <2>1. Good(t, p, MM_PROC_NR) /\ Told(t) /\ Live(t, p) /\ p \in Users
    BY <1>1, Served
  <2>2. Keeps(t, sys_exec([t EXCEPT !.catch[p] = {}], p), MM_PROC_NR)
    BY <2>1, ExecGood
  <2> QED BY <1>1, <1>3, <2>2, ResultKept
<1> QED BY <1>2, <1>3 DEF do_exec

LEMMA PauseStep ==
  ASSUME IInv, NEW p \in Slots, do_pause(p)
  PROVE  IInv'
<1> DEFINE t == Taken(p)
<1>1. Serve(p, "do_pause") /\ Result(With(t, p, {"PAUSED"}))
  BY DEF do_pause
<1>2. Good(t, p, MM_PROC_NR) /\ Told(t)
  BY <1>1, Served
<1>3. Keeps(t, With(t, p, {"PAUSED"}), MM_PROC_NR)
  BY <1>2, HoldGood
<1> QED BY <1>1, <1>3, ResultKept

LEMMA AlarmCallStep ==
  ASSUME IInv, NEW p \in Slots, do_alarm(p)
  PROVE  IInv'
<1> DEFINE t == Taken(p)
           on == Arg(p, 1)
<1>1. Serve(p, "do_alarm") /\ Result(reply(set_alarm(t, p, on), p))
  BY DEF do_alarm
<1>2. /\ Good(t, p, MM_PROC_NR) /\ Told(t) /\ p \in Users
      /\ s.call[p] \in AllCalls \cup {NoCall} /\ s.call[p][1] = "do_alarm"
  BY <1>1, Served
<1>3. on \in BOOLEAN /\ p # INIT
  BY <1>2, CallArgs DEF Arg, Users
<1> HIDE DEF on
<1>4. Keeps(t, set_alarm(t, p, on), p)
  BY <1>2, <1>3, AlarmGood
<1> QED BY <1>1, <1>4, ReplyKept

LEMMA SignalStep ==
  ASSUME IInv, NEW p \in Slots, do_signal(p)
  PROVE  IInv'
<1> DEFINE t == Taken(p)
           sig == Arg(p, 1)
           how == Arg(p, 2)
<1>1. Serve(p, "do_signal") /\ Result(reply(signal(t, p, sig, how), p))
  BY DEF do_signal
<1>2. /\ Good(t, p, MM_PROC_NR) /\ Told(t) /\ p \in Users
      /\ s.call[p] \in AllCalls \cup {NoCall} /\ s.call[p][1] = "do_signal"
  BY <1>1, Served
<1>3. sig \in Sigs
  BY <1>2, CallArgs DEF Arg
<1> HIDE DEF sig, how
<1>4. Keeps(t, signal(t, p, sig, how), p)
  BY <1>2, <1>3, SignalGood
<1> QED BY <1>1, <1>4, ReplyKept

LEMMA TraceStep ==
  ASSUME IInv, NEW p \in Slots, do_trace(p)
  PROVE  IInv'
<1> DEFINE t == Taken(p)
           request == Arg(p, 1)
           c == Arg(p, 2)
           data == Arg(p, 3)
<1>1. Serve(p, "do_trace")
  BY DEF do_trace
<1>2. PICK room \in BOOLEAN : Result(reply(trace(t, p, request, c, data, room), p))
  BY DEF do_trace
<1>3. /\ Good(t, p, MM_PROC_NR) /\ Told(t)
      /\ s.call[p] \in AllCalls \cup {NoCall} /\ s.call[p][1] = "do_trace"
  BY <1>1, Served
<1>4. request \in {0, 7, 8, 9} /\ c \in Slots /\ data \in {0} \cup Sigs
  BY <1>3, CallArgs DEF Arg
<1> HIDE DEF request, c, data
<1>5. Keeps(t, trace(t, p, request, c, data, room), p)
  BY <1>3, <1>4, TraceGood
<1> QED BY <1>1, <1>2, <1>5, ReplyKept

LEMMA KillStep ==
  ASSUME IInv, NEW p \in Slots, do_kill(p)
  PROVE  IInv'
<1> DEFINE id == Arg(p, 1)
           sig == Arg(p, 2)
           who == [super |-> may.super \/ p = INIT, id |-> id, group |-> s.group[p]]
           loop == [by |-> p, sig |-> sig, slot |-> INIT, who |-> who]
<1>1. Serve(p, "do_kill") /\ s' = Taken(p) /\ mm' = loop /\ may' = may
  BY DEF do_kill
<1>2. /\ Good(Taken(p), p, MM_PROC_NR) /\ Told(Taken(p)) /\ p \in Users
      /\ s.call[p] \in AllCalls \cup {NoCall} /\ s.call[p][1] = "do_kill"
  BY <1>1, Served
<1>3. id \in Slots \cup {0, -1} /\ sig \in Sigs \ {SIGHUP}
  BY <1>2, CallArgs DEF Arg
<1> HIDE DEF id, sig
<1>4. who \in Who
  <2>1. may.super \in BOOLEAN
    BY MmProcAssumption DEF IInv, Mix
  <2>2. s.group[p] \in Slots \cup {MM_PROC_NR}
    <3>1. s \in Table
      BY DEF IInv, Good
    <3> QED BY <3>1, Fields
  <2>3. (may.super \/ p = INIT) \in BOOLEAN
    BY <2>1
  <2> QED BY <1>3, <2>2, <2>3 DEF Who
<1> HIDE DEF who
<1>5. loop \in [by : Slots, who : Who, sig : Sigs, slot : INIT .. NR_PROCS]
  BY <1>3, <1>4, Numbers
<1>6. loop.by = p /\ loop.sig = sig /\ p # INIT /\ p # HARDWARE
  BY <1>2, Numbers DEF Users
<1> HIDE DEF loop
<1>7. Doing'
  BY <1>1, <1>3, <1>5, <1>6 DEF Doing, Loop
<1>8. Good(s', mm'.by, MM_PROC_NR) /\ Told(s')
  BY <1>1, <1>2, <1>6
<1> QED BY <1>1, <1>7, <1>8, Resumed DEF IInv

LEMMA CallStep ==
  ASSUME IInv, NEW p \in Slots, Call(p)
  PROVE  IInv'
BY ForkStep, ExitStep, WaitStep, ExecStep, PauseStep, AlarmCallStep, SignalStep, TraceStep,
   KillStep DEF Call

(* The signals that MM has still to do for p *)
LEMMA LoopRight ==
  ASSUME s \in Table, NEW p \in Users, NEW left \in SUBSET (Sigs \ {SIGHUP})
  PROVE  /\ KernelLoop(p, left).by \notin Slots
         /\ \/ KernelLoop(p, left) = Idle
            \/ /\ KernelLoop(p, left) \in Loop /\ KernelLoop(p, left).by = HARDWARE
               /\ KernelLoop(p, left).sig # SIGHUP /\ SIGHUP \notin KernelLoop(p, left).left
<1>1. CASE left = {}
  BY <1>1, Numbers DEF KernelLoop, Idle
<1>2. CASE left # {}
  <2> DEFINE sig == Min(left)
             id == Id(p, sig)
             who == [super |-> TRUE, id |-> id, group |-> s.group[p]]
             rest == left \ {sig}
             loop == [by |-> HARDWARE, sig |-> sig, slot |-> INIT, for |-> p, left |-> rest,
                      who |-> who]
  <2>1. KernelLoop(p, left) = loop
    BY <1>2 DEF KernelLoop
  <2>2. sig \in left
    BY <1>2, MinSig
  <2> HIDE DEF sig
  <2>3. id \in Slots \cup {0, -1} /\ s.group[p] \in Slots \cup {MM_PROC_NR} /\ p \in Slots
    BY Fields, Numbers DEF Id
  <2> HIDE DEF id
  <2>4. who \in Who
    BY <2>3 DEF Who
  <2> HIDE DEF who
  <2>5. rest \in SUBSET Sigs /\ SIGHUP \notin rest /\ sig \in Sigs /\ sig # SIGHUP
    BY <2>2
  <2> HIDE DEF rest
  <2>6. loop \in [by : {HARDWARE}, who : Who, sig : Sigs, slot : INIT .. NR_PROCS,
                  for : Users, left : SUBSET Sigs]
    BY <2>4, <2>5, Numbers
  <2>7. loop.by = HARDWARE /\ loop.sig = sig /\ loop.left = rest
    OBVIOUS
  <2> HIDE DEF loop
  <2>8. loop \in Loop
    BY <2>6 DEF Loop
  <2> QED BY <2>1, <2>5, <2>7, <2>8, Numbers
<1> QED BY <1>1, <1>2

LEMMA DoneGood ==
  ASSUME NEW t, NEW w, NEW p \in Slots, Good(t, w, MM_PROC_NR), Told(t)
  PROVE  Keeps(t, sys_sigDone(t, p), w)
<1> DEFINE X == IF t.count[p] = 0 THEN 0 ELSE t.count[p] - 1
           u == [t EXCEPT !.count[p] = X]
<1>1. t \in Table
  BY DEF Good
<1>2. t.count \in [Slots -> Nat]
  BY <1>1, Fields
<1>3. X \in Nat
  BY <1>2
<1>4. sys_sigDone(t, p) = u
  BY <1>1, <1>2 DEF sys_sigDone, Table
<1> HIDE DEF X
<1>5. /\ Alike(t, u) /\ u.flags = t.flags /\ u.parent = t.parent
      /\ u.sigstatus = t.sigstatus
  BY <1>1, <1>3, SetCount
<1> HIDE DEF u
<1>6. Keeps(t, u, w)
  BY <1>5, KeepsAlike DEF Reports, Has
<1> QED BY <1>4, <1>6

LEMMA FaultGood ==
  ASSUME NEW t, NEW w, NEW p \in Users, NEW grows, Good(t, w, MM_PROC_NR), Told(t)
  PROVE  Keeps(t, stack_fault(t, p, grows), w)
<1> DEFINE u == sys_sigDone(t, p)
           v == [u EXCEPT !.catch[p] = {}]
           y == sig_proc(v, p, SIGSEGV, FALSE)
<1>1. p \in Slots /\ {} \in SUBSET Sigs /\ SIGSEGV \in Sigs
  BY Numbers DEF SIGSEGV, Sigs
<1>2. stack_fault(t, p, grows) = IF grows THEN u ELSE y
  BY DEF stack_fault
<1>3. Keeps(t, u, w)
  BY <1>1, DoneGood
<1> HIDE DEF u
<1>4. Good(u, w, MM_PROC_NR) /\ Told(u) /\ u \in Table
  BY <1>3 DEF Keeps, Good
<1>5. Alike(u, v) /\ v.flags = u.flags /\ v.parent = u.parent /\ v.sigstatus = u.sigstatus
  BY <1>1, <1>4, SetCatch
<1> HIDE DEF v
<1>6. Keeps(u, v, w)
  BY <1>4, <1>5, KeepsAlike DEF Reports, Has
<1>7. Keeps(v, y, w)
  BY <1>1, <1>6, KeepsGood, SigGood
<1> HIDE DEF y
<1>8. Keeps(t, y, w)
  BY <1>3, <1>6, <1>7, KeepsTrans
<1> QED BY <1>2, <1>3, <1>8

LEMMA KsigStep ==
  ASSUME IInv, NEW p \in Slots, do_ksig(p)
  PROVE  IInv'
<1> DEFINE sigs == s.pending[p]
           t == [s EXCEPT !.pending[p] = {}]
<1>1. /\ mm = Idle /\ sigs # {} /\ may' = may
      /\ IF ~ Live(s, p) THEN s' = t /\ mm' = Idle
         ELSE /\ mm' = KernelLoop(p, ToDo(sigs))
              /\ s' = t \/ \E grows \in BOOLEAN : s' = stack_fault(t, p, grows)
  BY DEF do_ksig
<1>2. Good(s, MM_PROC_NR, MM_PROC_NR) /\ Told(s)
  BY <1>1 DEF IInv, Idle
<1>3. s \in Table /\ s.pending[INIT] = {} /\ SIGHUP \notin s.pending[p]
  BY <1>2 DEF Good, InitKept, NoHangup
<1>4. p \in Users
  BY <1>1, <1>3, Numbers
<1>5. Keeps(s, t, MM_PROC_NR)
  <2>1. {} \in SUBSET Sigs /\ SIGHUP \notin {}
    OBVIOUS
  <2>2. /\ Alike(s, t) /\ t.flags = s.flags /\ t.parent = s.parent
        /\ t.sigstatus = s.sigstatus
    BY <1>3, <2>1, SetPending
  <2> HIDE DEF t
  <2> QED BY <1>2, <2>2, KeepsAlike DEF Reports, Has
<1> HIDE DEF t
<1>6. Keeps(s, s', MM_PROC_NR)
  <2>1. CASE s' = t
    BY <1>5, <2>1
  <2>2. ASSUME NEW grows \in BOOLEAN, s' = stack_fault(t, p, grows)
        PROVE  Keeps(s, s', MM_PROC_NR)
    <3>1. Keeps(t, stack_fault(t, p, grows), MM_PROC_NR)
      BY <1>4, <1>5, KeepsGood, FaultGood
    <3> QED BY <1>5, <2>2, <3>1, KeepsTrans
  <2> QED BY <1>1, <2>1, <2>2
<1>7. Good(s', MM_PROC_NR, MM_PROC_NR) /\ Told(s')
  BY <1>6, KeepsGood
<1>8. CASE mm' = Idle
  <2>1. mm'.by = MM_PROC_NR /\ Doing'
    BY <1>8 DEF Doing, Idle
  <2> QED BY <1>1, <1>7, <2>1, Resumed DEF IInv
<1>9. CASE mm' = KernelLoop(p, ToDo(sigs))
  <2> DEFINE left == ToDo(sigs)
             m == KernelLoop(p, left)
  <2>1. left \in SUBSET (Sigs \ {SIGHUP})
    BY <1>3, Fields DEF ToDo
  <2> HIDE DEF left
  <2>2. /\ m.by \notin Slots
        /\ \/ m = Idle
           \/ /\ m \in Loop /\ m.by = HARDWARE
              /\ m.sig # SIGHUP /\ SIGHUP \notin m.left
    BY <1>3, <1>4, <2>1, LoopRight
  <2>3. mm' = m
    BY <1>9 DEF left
  <2> HIDE DEF m
  <2>4. Doing'
    BY <2>2, <2>3, Numbers DEF Doing
  <2>5. Good(s', mm'.by, MM_PROC_NR)
    BY <1>7, <2>2, <2>3, WorksFor, Numbers
  <2> QED BY <1>1, <1>7, <2>4, <2>5, Resumed DEF IInv
<1> QED BY <1>1, <1>8, <1>9

LEMMA CheckSigStep ==
  ASSUME IInv, CheckSig
  PROVE  IInv'
<1> DEFINE slot == mm.slot
           sig == mm.sig
           who == mm.who
<1>1. mm # Idle /\ slot < NR_PROCS /\ mm' = [mm EXCEPT !.slot = @ + 1] /\ may' = may
  BY DEF CheckSig
<1>2. PICK room \in BOOLEAN : s' = check_sig(s, who, sig, slot, room)
  BY DEF CheckSig
<1>3. /\ mm \in Loop /\ mm.by # INIT /\ sig # SIGHUP
      /\ mm.by = HARDWARE => SIGHUP \notin mm.left
  BY <1>1 DEF IInv, Doing
<1>4. sig \in Sigs /\ slot \in INIT .. NR_PROCS
  BY <1>3 DEF Loop
<1>5. slot \in Slots /\ slot + 1 \in INIT .. NR_PROCS
  BY <1>1, <1>4, Numbers DEF Slots
<1>6. /\ mm' \in Loop /\ mm'.by = mm.by /\ mm'.sig = mm.sig
      /\ mm.by = HARDWARE => mm'.left = mm.left
  <2>1. CASE mm \in [by : Slots, who : Who, sig : Sigs, slot : INIT .. NR_PROCS]
    BY <1>1, <1>5, <2>1, Numbers DEF Loop
  <2>2. CASE mm \in [by : {HARDWARE}, who : Who, sig : Sigs, slot : INIT .. NR_PROCS,
                     for : Users, left : SUBSET Sigs]
    BY <1>1, <1>5, <2>2 DEF Loop
  <2> QED BY <1>3, <2>1, <2>2 DEF Loop
<1> HIDE DEF slot, sig, who
<1>7. Doing'
  BY <1>3, <1>6 DEF Doing, sig
<1>8. Good(s, mm.by, MM_PROC_NR) /\ Told(s)
  BY DEF IInv
<1>9. Keeps(s, s', mm.by)
  BY <1>2, <1>3, <1>4, <1>5, <1>8, CheckGood
<1>10. Good(s', mm'.by, MM_PROC_NR) /\ Told(s')
  BY <1>6, <1>9, KeepsGood
<1> QED BY <1>1, <1>7, <1>10, Resumed DEF IInv

LEMMA CheckedStep ==
  ASSUME IInv, Checked
  PROVE  IInv'
<1>1. mm # Idle /\ may' = may
  BY DEF Checked
<1>2. /\ mm \in Loop /\ mm.by # INIT /\ mm.sig # SIGHUP
      /\ mm.by = HARDWARE => SIGHUP \notin mm.left
  BY <1>1 DEF IInv, Doing
<1>3. Good(s, mm.by, MM_PROC_NR) /\ Told(s) /\ s \in Table
  BY DEF IInv, Good
<1>4. CASE mm.by = HARDWARE
  <2> DEFINE m == KernelLoop(mm.for, mm.left)
  <2>1. s' = sys_sigDone(s, mm.for) /\ mm' = m
    BY <1>4 DEF Checked
  <2>2. mm.for \in Users /\ mm.left \in SUBSET (Sigs \ {SIGHUP})
    BY <1>2, <1>4, Numbers DEF Loop
  <2>3. Keeps(s, s', mm.by)
    BY <1>3, <2>1, <2>2, DoneGood, Numbers
  <2>4. Good(s', mm.by, MM_PROC_NR) /\ Told(s')
    BY <2>3, KeepsGood
  <2>5. /\ m.by \notin Slots
        /\ \/ m = Idle
           \/ /\ m \in Loop /\ m.by = HARDWARE
              /\ m.sig # SIGHUP /\ SIGHUP \notin m.left
    BY <1>3, <2>2, LoopRight
  <2> HIDE DEF m
  <2>6. Doing'
    BY <2>1, <2>5, Numbers DEF Doing
  <2>7. Good(s', mm'.by, MM_PROC_NR)
    BY <1>4, <2>1, <2>4, <2>5, WorksFor, Numbers
  <2> QED BY <1>1, <2>4, <2>6, <2>7, Resumed DEF IInv
<1>5. CASE mm.by # HARDWARE
  <2>1. s' = reply(s, mm.by) /\ mm' = Idle
    BY <1>5 DEF Checked
  <2>2. mm.by \in Slots
    BY <1>2, <1>5 DEF Loop
  <2>3. Keeps(s, s', MM_PROC_NR)
    BY <1>3, <2>1, <2>2, ReplyGood
  <2>4. Good(s', MM_PROC_NR, MM_PROC_NR) /\ Told(s')
    BY <2>3, KeepsGood
  <2>5. mm'.by = MM_PROC_NR /\ Doing'
    BY <2>1 DEF Doing, Idle
  <2> QED BY <1>1, <2>4, <2>5, Resumed DEF IInv
<1> QED BY <1>4, <1>5

LEMMA InitGood == Init => IInv
<1> SUFFICES ASSUME Init PROVE IInv
  OBVIOUS
<1> DEFINE none == [p \in Slots |-> {}]
<1>1. /\ s.flags = [p \in Slots |-> IF p = INIT THEN {"IN_USE"} ELSE {}]
      /\ s.at = [p \in Slots |-> IF p = INIT THEN "runs" ELSE "free"]
      /\ s.ignore = [p \in Slots |-> IF p = INIT THEN Sigs \ {SIGHUP, SIGKILL} ELSE {}]
      /\ s.pending = [p \in Slots |-> {}] /\ s.alarm = [p \in Slots |-> FALSE]
      /\ s.call = [p \in Slots |-> NoCall] /\ s.in_use = 3 /\ s.wrong = {}
      /\ mm = Idle /\ may \in Mixes
  BY DEF Init
<1>2. s \in Table
  <2> DEFINE flags == [p \in Slots |-> IF p = INIT THEN {"IN_USE"} ELSE {}]
             zero == [p \in Slots |-> MM_PROC_NR]
             sigstatus == [p \in Slots |-> 0]
             catch == [p \in Slots |-> IF p = INIT THEN {SIGHUP} ELSE {}]
             ignore == [p \in Slots |-> IF p = INIT THEN Sigs \ {SIGHUP, SIGKILL} ELSE {}]
             at == [p \in Slots |-> IF p = INIT THEN "runs" ELSE "free"]
             call == [p \in Slots |-> NoCall]
             count == [p \in Slots |-> 0]
             no == [p \in Slots |-> FALSE]
  <2>1. s = [flags |-> flags, parent |-> zero, group |-> zero, sigstatus |-> sigstatus,
             catch |-> catch, ignore |-> ignore, in_use |-> 3, at |-> at, call |-> call,
             pending |-> none, count |-> count, alarm |-> no, stop |-> no, wrong |-> {}]
    BY DEF Init
  <2>2. flags \in [Slots -> SUBSET Flag] /\ at \in [Slots -> State]
    BY DEF Flag, State
  <2>3. zero \in [Slots -> Slots \cup {MM_PROC_NR}] /\ sigstatus \in [Slots -> Sigs \cup {0}]
    OBVIOUS
  <2>4. /\ catch \in [Slots -> SUBSET Sigs] /\ ignore \in [Slots -> SUBSET Sigs]
        /\ none \in [Slots -> SUBSET Sigs]
    BY DEF Sigs, SIGHUP
  <2>5. /\ call \in [Slots -> AllCalls \cup {NoCall}] /\ count \in [Slots -> Nat]
        /\ no \in [Slots -> BOOLEAN]
    OBVIOUS
  <2> HIDE DEF flags, zero, sigstatus, catch, ignore, at, call, none, count, no
  <2> QED BY <2>1, <2>2, <2>3, <2>4, <2>5 DEF Table
<1>3. \A p \in Slots : /\ Has(s, p, "IN_USE") <=> p = INIT
                       /\ ~ Has(s, p, "HANGING") /\ ~ Has(s, p, "WAITING") /\ ~ Waits(s, p)
                       /\ ~ {"WAITING", "PAUSED"} \subseteq s.flags[p]
                       /\ Live(s, p) <=> p = INIT
  BY <1>1 DEF Has, Live, Waits
<1>4. InitKept(s) /\ NoHangup(s)
  BY <1>1, <1>3, Numbers DEF InitKept, NoHangup
<1>5. Parented(s)
  BY <1>3, Numbers DEF Parented, Users
<1>6. Counted(s)
  <2>1. InUse(s) = {INIT}
    BY <1>3, Numbers DEF InUse
  <2>2. Cardinality({INIT}) = 1
    BY FS_Singleton
  <2> QED BY <1>1, <1>3, <2>1, <2>2 DEF Counted
<1>7. Agree(s, MM_PROC_NR)
  BY <1>1, <1>3 DEF Agree
<1>8. Waiters(s, MM_PROC_NR)
  BY <1>1, <1>3, Numbers DEF Waiters
<1>9. mm.by = MM_PROC_NR /\ Doing
  BY <1>1 DEF Doing, Idle
<1>10. Told(s)
  BY <1>3 DEF Told, IsTold
<1>11. Good(s, MM_PROC_NR, MM_PROC_NR)
  BY <1>1, <1>2, <1>4, <1>5, <1>6, <1>7, <1>8 DEF Good
<1> QED BY <1>1, <1>9, <1>10, <1>11 DEF IInv

LEMMA NextGood ==
  ASSUME IInv, Next
  PROVE  IInv'
BY AskStep, AlarmStep, RaiseStep, CallStep, KsigStep, CheckSigStep, CheckedStep DEF Next

LEMMA StutterGood ==
  ASSUME IInv, UNCHANGED vars
  PROVE  IInv'
<1>1. s' = s /\ mm' = mm /\ may' = may
  BY DEF vars
<1>2. Good(s, mm.by, MM_PROC_NR) /\ Told(s)
  BY DEF IInv
<1>3. Keeps(s, s', mm.by)
  BY <1>1, <1>2 DEF Keeps
<1> QED BY <1>1, <1>3, StepKept

LEMMA Inductive == Spec => []IInv
<1>1. IInv /\ [Next]_vars => IInv'
  BY NextGood, StutterGood
<1> QED BY InitGood, <1>1, PTL DEF Spec

-----------------------------------------------------------------------------
(* Theorems *)

(* The routines keep every field of the process table in its range, and MM *)
(* is idle or in the loop of check_sig() (mproc.h, forkexit.c, signal.c).   *)
THEOREM Types == Spec => []TypeOK
<1>1. IInv => TypeOK
  BY DEF IInv, Good, Doing, TypeOK
<1> QED BY <1>1, Inductive, PTL

(* The kernel has a process exactly for the slots in use that have not     *)
(* exited; the parent of a process exists, since a parent that goes leaves *)
(* its children to INIT; and procs_in_use counts the slots in use (do_fork, *)
(* mm_exit, cleanup).                                                      *)
THEOREM FamilyKept == Spec => []Family
<1>1. IInv => Family
  <2> SUFFICES ASSUME IInv PROVE Family
    OBVIOUS
  <2>1. Parented(s) /\ Counted(s) /\ Agree(s, MM_PROC_NR)
    BY DEF IInv, Good
  <2>2. TablesAgree
    BY <2>1, Numbers DEF Agree, TablesAgree
  <2> QED BY <2>1, <2>2 DEF Family, Parented, Counted, InUse
<1> QED BY <1>1, Inductive, PTL

(* MM's WAITING and PAUSED say exactly which processes wait for a reply     *)
(* after their call has been served, and MM never replies to a process that *)
(* does not wait, which would hang it in send() (reply, unpause, cleanup,   *)
(* do_wait, do_pause).                                                      *)
THEOREM WaitersRight == Spec => []WaitersKnown
<1>1. IInv => WaitersKnown
  <2> SUFFICES ASSUME IInv PROVE WaitersKnown
    OBVIOUS
  <2>1. Waiters(s, mm.by) /\ "stray reply" \notin s.wrong
    BY DEF IInv, Good
  <2> QED BY <2>1 DEF Waiters, Waits, WaitersKnown, BlockedKnown, NoStrayReply
<1> QED BY <1>1, Inductive, PTL

(* Nobody waits while a child of his has exited, or has stopped and that is *)
(* not reported yet; INIT may not be told of the stops of children that it  *)
(* inherits (mm_exit, do_wait, cleanup, stop_proc).                         *)
THEOREM ParentsTold == Spec => []WaitAnswered
<1>1. IInv => WaitAnswered
  BY DEF IInv, Told, IsTold, WaitAnswered
<1> QED BY <1>1, Inductive, PTL

=============================================================================
