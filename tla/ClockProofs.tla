----------------------------- MODULE ClockProofs -----------------------------
(* Theorems about the clock of module Clock *)
EXTENDS Clock, SequenceTheorems, FiniteSetTheorems, WellFoundedInduction, TLAPS

-----------------------------------------------------------------------------
(* Numbers *)

LEMMA MaxOf == ASSUME NEW a \in Int, NEW b \in Int
               PROVE  Max({a, b}) = IF a >= b THEN a ELSE b
<1> DEFINE m == IF a >= b THEN a ELSE b
<1>1. m \in {a, b} /\ \A y \in {a, b} : m >= y
  OBVIOUS
<1>2. \A x \in {a, b} : (\A y \in {a, b} : x >= y) => x = m
  OBVIOUS
<1> QED BY <1>1, <1>2 DEF Max

LEMMA MinOf == ASSUME NEW a \in Int, NEW b \in Int
               PROVE  Min({a, b}) = IF a <= b THEN a ELSE b
<1> DEFINE m == IF a <= b THEN a ELSE b
<1>1. m \in {a, b} /\ \A y \in {a, b} : m <= y
  OBVIOUS
<1>2. \A x \in {a, b} : (\A y \in {a, b} : x <= y) => x = m
  OBVIOUS
<1> QED BY <1>1, <1>2 DEF Min

(* A finite set has a least element: the numbers below it are the fewest *)
LEMMA Least == ASSUME NEW S \in SUBSET Nat, S # {}, IsFiniteSet(S)
               PROVE  Min(S) \in S /\ \A n \in S : Min(S) <= n
<1> DEFINE Below(n) == {k \in S : k < n}
           T == {Below(n) : n \in S}
<1>1. T # {} /\ T \subseteq FiniteSubsetsOf(S)
  <2>1. ASSUME NEW n \in S PROVE Below(n) \in FiniteSubsetsOf(S)
    <3>1. Below(n) \in SUBSET S
      OBVIOUS
    <3>2. IsFiniteSet(Below(n))
      BY <3>1, FS_Subset
    <3> QED BY <3>1, <3>2 DEF FiniteSubsetsOf
  <2> QED BY <2>1
<1>2. PICK x \in T : \A y \in T : <<y, x>> \notin StrictSubsetOrdering(S)
  <2>1. IsWellFoundedOn(StrictSubsetOrdering(S), FiniteSubsetsOf(S))
    BY FS_StrictSubsetOrderingWellFounded
  <2> QED BY <1>1, <2>1, WFMin
<1>3. PICK m \in S : x = Below(m)
  OBVIOUS
<1>4. ASSUME NEW n \in S, n < m PROVE FALSE
  <2>1. Below(n) \in T /\ Below(n) \subseteq Below(m)
    <3>1. \A k \in S : k < n => k < m
      BY <1>4
    <3> QED BY <3>1
  <2>2. n \in Below(m) /\ n \notin Below(n)
    BY <1>4
  <2>3. <<Below(n), Below(m)>> \in StrictSubsetOrdering(S)
    BY <2>1, <2>2 DEF StrictSubsetOrdering
  <2> QED BY <1>2, <1>3, <2>1, <2>3
<1>5. m \in S /\ \A n \in S : m <= n
  BY <1>4
<1> QED BY <1>5 DEF Min

-----------------------------------------------------------------------------
(* The queue *)

LEMMA AppendOne ==
  ASSUME NEW S, NEW q \in Seq(S), NEW u \in S, IsInjective(q), u \notin Range(q)
  PROVE  /\ Append(q, u) \in Seq(S) /\ IsInjective(Append(q, u))
         /\ Range(Append(q, u)) = Range(q) \cup {u}
<1>1. /\ Append(q, u) \in Seq(S) /\ Len(Append(q, u)) = Len(q) + 1
      /\ \A i \in 1 .. Len(q) : Append(q, u)[i] = q[i]
      /\ Append(q, u)[Len(q) + 1] = u
  BY AppendProperties
<1>2. /\ DOMAIN q = 1 .. Len(q) /\ Len(q) \in Nat
      /\ DOMAIN Append(q, u) = 1 .. Len(q) + 1
  BY <1>1, LenProperties
<1>3. \A i \in 1 .. Len(q) + 1 : i \in 1 .. Len(q) \/ i = Len(q) + 1
  BY <1>2
<1>4. IsInjective(Append(q, u))
  BY <1>1, <1>2, <1>3 DEF IsInjective, Range
<1>5. Range(Append(q, u)) = Range(q) \cup {u}
  <2>1. \A v \in Range(q) : \E i \in 1 .. Len(q) + 1 : Append(q, u)[i] = v
    BY <1>1, <1>2 DEF Range
  <2>2. Len(q) + 1 \in 1 .. Len(q) + 1
    BY <1>2
  <2> QED BY <1>1, <1>2, <1>3, <2>1, <2>2 DEF Range
<1> QED BY <1>1, <1>4, <1>5

LEMMA TailOne ==
  ASSUME NEW S, NEW q \in Seq(S), q # <<>>, IsInjective(q)
  PROVE  /\ Tail(q) \in Seq(S) /\ IsInjective(Tail(q)) /\ Head(q) \in S
         /\ Head(q) \in Range(q) /\ Range(Tail(q)) = Range(q) \ {Head(q)}
<1>1. /\ Len(q) \in Nat \ {0} /\ DOMAIN q = 1 .. Len(q) /\ Head(q) = q[1] /\ Head(q) \in S
      /\ Tail(q) \in Seq(S) /\ Len(Tail(q)) = Len(q) - 1
      /\ \A i \in 1 .. Len(Tail(q)) : Tail(q)[i] = q[i + 1]
  BY HeadTailProperties, LenProperties, EmptySeq
<1>2. DOMAIN Tail(q) = 1 .. Len(q) - 1
  BY <1>1, LenProperties
<1>3. IsInjective(Tail(q))
  <2> SUFFICES ASSUME NEW i \in 1 .. Len(q) - 1, NEW j \in 1 .. Len(q) - 1, q[i + 1] = q[j + 1]
               PROVE  i = j
    BY <1>1, <1>2 DEF IsInjective
  <2>1. i + 1 \in DOMAIN q /\ j + 1 \in DOMAIN q
    BY <1>1
  <2>2. i + 1 = j + 1
    BY <2>1 DEF IsInjective
  <2> QED BY <2>2, <1>1
<1>4. ASSUME NEW v \in Range(Tail(q)) PROVE v \in Range(q) \ {Head(q)}
  <2>1. PICK i \in 1 .. Len(q) - 1 : v = q[i + 1]
    BY <1>1, <1>2, <1>4 DEF Range
  <2>2. i + 1 \in DOMAIN q /\ 1 \in DOMAIN q /\ i + 1 # 1
    BY <1>1
  <2> QED BY <1>1, <2>1, <2>2 DEF Range, IsInjective
<1>5. ASSUME NEW v \in Range(q) \ {Head(q)} PROVE v \in Range(Tail(q))
  <2>1. PICK i \in 1 .. Len(q) : v = q[i]
    BY <1>1, <1>5 DEF Range
  <2>2. i - 1 \in 1 .. Len(q) - 1 /\ (i - 1) + 1 = i
    BY <1>1, <1>5, <2>1
  <2>3. v = Tail(q)[i - 1]
    BY <1>1, <2>1, <2>2
  <2> QED BY <1>2, <2>2, <2>3 DEF Range
<1>6. Head(q) \in Range(q)
  BY <1>1 DEF Range
<1> QED BY <1>1, <1>3, <1>4, <1>5, <1>6

LEMMA RotatedSame ==
  ASSUME NEW S, NEW q \in Seq(S), IsInjective(q)
  PROVE  Rotated(q) \in Seq(S) /\ IsInjective(Rotated(q)) /\ Range(Rotated(q)) = Range(q)
<1> SUFFICES ASSUME q # <<>> PROVE Rotated(q) \in Seq(S) /\ IsInjective(Rotated(q)) /\ Range(Rotated(q)) = Range(q)
  BY DEF Rotated
<1>1. /\ Tail(q) \in Seq(S) /\ IsInjective(Tail(q)) /\ Head(q) \in S
      /\ Head(q) \in Range(q) /\ Range(Tail(q)) = Range(q) \ {Head(q)}
  BY TailOne
<1>2. Rotated(q) = Append(Tail(q), Head(q))
  BY DEF Rotated
<1>3. Head(q) \notin Range(Tail(q)) /\ Range(Tail(q)) \cup {Head(q)} = Range(q)
  BY <1>1
<1> DEFINE h == Head(q)
           t == Tail(q)
<1>4. h \in S /\ t \in Seq(S) /\ IsInjective(t) /\ h \notin Range(t)
  BY <1>1, <1>3
<1> HIDE DEF h, t
<1>5. /\ Append(t, h) \in Seq(S) /\ IsInjective(Append(t, h))
      /\ Range(Append(t, h)) = Range(t) \cup {h}
  BY <1>4, AppendOne
<1> QED BY <1>2, <1>3, <1>5 DEF h, t

LEMMA WithoutOne ==
  ASSUME NEW S, NEW q \in Seq(S), NEW u, IsInjective(q)
  PROVE  /\ Without(q, u) \in Seq(S) /\ IsInjective(Without(q, u))
         /\ Range(Without(q, u)) = Range(q) \ {u}
<1> SUFFICES ASSUME u \in Range(q)
             PROVE  /\ Without(q, u) \in Seq(S) /\ IsInjective(Without(q, u))
                    /\ Range(Without(q, u)) = Range(q) \ {u}
  BY DEF Without
<1> DEFINE i == CHOOSE i \in DOMAIN q : q[i] = u
           r == [j \in 1 .. Len(q) - 1 |-> IF j < i THEN q[j] ELSE q[j + 1]]
<1>1. DOMAIN q = 1 .. Len(q) /\ Len(q) \in Nat
  BY LenProperties
<1>2. i \in 1 .. Len(q) /\ q[i] = u
  BY <1>1 DEF Range
<1> HIDE DEF i
<1>3. Without(q, u) = r
  BY DEF Without, i
<1> DEFINE k(j) == IF j < i THEN j ELSE j + 1
<1>4. \A j \in 1 .. Len(q) - 1 : k(j) \in 1 .. Len(q) /\ k(j) # i /\ r[j] = q[k(j)]
  BY <1>1, <1>2
<1>5. \A j \in 1 .. Len(q) : j # i => \E m \in 1 .. Len(q) - 1 : k(m) = j
  <2> SUFFICES ASSUME NEW j \in 1 .. Len(q), j # i PROVE \E m \in 1 .. Len(q) - 1 : k(m) = j
    OBVIOUS
  <2>1. CASE j < i
    <3>1. j \in 1 .. Len(q) - 1 /\ k(j) = j
      BY <1>1, <1>2, <2>1
    <3> QED BY <3>1
  <2>2. CASE j > i
    <3>1. j - 1 \in 1 .. Len(q) - 1 /\ k(j - 1) = j
      BY <1>1, <1>2, <2>2
    <3> QED BY <3>1
  <2> QED BY <1>1, <1>2, <2>1, <2>2
<1>6. \A m, n \in 1 .. Len(q) - 1 : k(m) = k(n) => m = n
  BY <1>1, <1>2
<1>7. r \in Seq(S)
  <2>1. \A j \in 1 .. Len(q) : q[j] \in S
    BY <1>1, ElementOfSeq
  <2>2. Len(q) - 1 \in Nat
    BY <1>1, <1>2
  <2>3. r \in [1 .. Len(q) - 1 -> S]
    BY <1>4, <2>1
  <2> QED BY <2>2, <2>3, IsASeq
<1>8. DOMAIN r = 1 .. Len(q) - 1
  OBVIOUS
<1> HIDE DEF r, k
<1>9. IsInjective(r)
  BY <1>1, <1>4, <1>6, <1>8 DEF IsInjective
<1>10. Range(r) = Range(q) \ {u}
  <2>1. ASSUME NEW v \in Range(r) PROVE v \in Range(q) \ {u}
    <3>1. PICK j \in 1 .. Len(q) - 1 : v = r[j]
      BY <1>8 DEF Range
    <3> QED BY <1>1, <1>2, <1>4, <3>1 DEF Range, IsInjective
  <2>2. ASSUME NEW v \in Range(q) \ {u} PROVE v \in Range(r)
    <3>1. PICK j \in 1 .. Len(q) : v = q[j] /\ j # i
      BY <1>1, <1>2 DEF Range
    <3>2. PICK m \in 1 .. Len(q) - 1 : k(m) = j
      BY <1>5, <3>1
    <3> QED BY <1>4, <1>8, <3>1, <3>2 DEF Range
  <2> QED BY <2>1, <2>2
<1> QED BY <1>3, <1>7, <1>9, <1>10

-----------------------------------------------------------------------------
(* Where users stand: the two queues, and those out of them *)

Queued(q, sq, sh, l, o) ==
  /\ l \subseteq Users /\ q \in Seq(Users) /\ sq \in Seq(Users)
  /\ IsInjective(q) /\ IsInjective(sq)
  /\ l = Range(q) \cup Range(sq) \cup o
  /\ \A u \in o : u \notin Range(q) /\ u \notin Range(sq)
  /\ Range(sq) \subseteq sh /\ Range(q) \cap sh = {}

(* Families, of whom one owns the place *)
Kin(sh, fa, l) ==
  /\ sh \subseteq l /\ fa \in [Users -> SUBSET Users]
  /\ \A u \in Users : u \in fa[u] /\ fa[u] \subseteq l \cup {u}
  /\ \A u, v \in Users : v \in fa[u] => fa[v] = fa[u]
  /\ \A u \in Users : ~ fa[u] \subseteq sh
  /\ \A u \in Users \ sh : fa[u] \ {u} \subseteq sh

(* OnePlace and Families, for waiting users w and served ones s *)
Placed(r, l, w, s) ==
  /\ r \in Run /\ w \cap s = {} /\ r.physio \subseteq w
  /\ Queued(r.queue, r.shadow_q, r.shadow, l, w \cup s) /\ Kin(r.shadow, r.family, l)

Alike(x, y) ==
  /\ x.queue = y.queue /\ x.shadow_q = y.shadow_q /\ x.shadow = y.shadow
  /\ x.physio = y.physio /\ x.family = y.family

LEMMA PlacedAlike ==
  ASSUME NEW r, NEW x \in Run, NEW l, NEW w, NEW s, Placed(r, l, w, s), Alike(x, r)
  PROVE  Placed(x, l, w, s)
BY DEF Placed, Alike

LEMMA QueuedReady ==
  ASSUME NEW q, NEW sq, NEW sh, NEW l, NEW o, NEW u \in o, Queued(q, sq, sh, l, o)
  PROVE  /\ u \in sh => Queued(q, Append(sq, u), sh, l, o \ {u})
         /\ u \notin sh => Queued(Append(q, u), sq, sh, l, o \ {u})
<1>1. /\ u \in Users /\ q \in Seq(Users) /\ sq \in Seq(Users) /\ IsInjective(q) /\ IsInjective(sq)
      /\ u \notin Range(q) /\ u \notin Range(sq)
  BY DEF Queued
<1>2. /\ Append(q, u) \in Seq(Users) /\ IsInjective(Append(q, u))
      /\ Range(Append(q, u)) = Range(q) \cup {u}
  BY <1>1, AppendOne
<1>3. /\ Append(sq, u) \in Seq(Users) /\ IsInjective(Append(sq, u))
      /\ Range(Append(sq, u)) = Range(sq) \cup {u}
  BY <1>1, AppendOne
<1> DEFINE a == Append(q, u)
           b == Append(sq, u)
<1> HIDE DEF a, b
<1>4. a \in Seq(Users) /\ IsInjective(a) /\ Range(a) = Range(q) \cup {u}
  BY <1>2 DEF a
<1>5. b \in Seq(Users) /\ IsInjective(b) /\ Range(b) = Range(sq) \cup {u}
  BY <1>3 DEF b
<1>6. u \in sh => Queued(q, b, sh, l, o \ {u})
  BY <1>1, <1>5 DEF Queued
<1>7. u \notin sh => Queued(a, sq, sh, l, o \ {u})
  BY <1>1, <1>4 DEF Queued
<1> QED BY <1>6, <1>7 DEF a, b

LEMMA QueuedWithout ==
  ASSUME NEW q, NEW sq, NEW sh, NEW l, NEW o, NEW u \in l, Queued(q, sq, sh, l, o)
  PROVE  Queued(Without(q, u), Without(sq, u), sh, l, o \cup {u})
<1>1. q \in Seq(Users) /\ sq \in Seq(Users) /\ IsInjective(q) /\ IsInjective(sq)
  BY DEF Queued
<1>2. /\ Without(q, u) \in Seq(Users) /\ IsInjective(Without(q, u))
      /\ Range(Without(q, u)) = Range(q) \ {u}
  BY <1>1, WithoutOne
<1>3. /\ Without(sq, u) \in Seq(Users) /\ IsInjective(Without(sq, u))
      /\ Range(Without(sq, u)) = Range(sq) \ {u}
  BY <1>1, WithoutOne
<1> DEFINE a == Without(q, u)
           b == Without(sq, u)
<1> HIDE DEF a, b
<1>4. a \in Seq(Users) /\ IsInjective(a) /\ Range(a) = Range(q) \ {u}
  BY <1>2 DEF a
<1>5. b \in Seq(Users) /\ IsInjective(b) /\ Range(b) = Range(sq) \ {u}
  BY <1>3 DEF b
<1>6. Queued(a, b, sh, l, o \cup {u})
  BY <1>4, <1>5 DEF Queued
<1> QED BY <1>6 DEF a, b

(* ready(): whoever was out of the queues is in one *)
LEMMA ReadyPlaced ==
  ASSUME NEW r, NEW l, NEW w, NEW s, NEW u \in s, Placed(r, l, w, s)
  PROVE  Placed(Ready(r, u), l, w, s \ {u}) /\ Ready(r, u).srv = r.srv
<1>1. /\ r \in Run /\ w \cap s = {} /\ r.physio \subseteq w
      /\ Queued(r.queue, r.shadow_q, r.shadow, l, w \cup s) /\ Kin(r.shadow, r.family, l)
  BY DEF Placed
<1>2. (w \cup s) \ {u} = w \cup (s \ {u}) /\ u \in w \cup s /\ w \cap (s \ {u}) = {}
  BY <1>1
<1>3. CASE u \in r.shadow
  <2> DEFINE b == Append(r.shadow_q, u)
  <2>1. Queued(r.queue, b, r.shadow, l, w \cup (s \ {u}))
    <3>1. Queued(r.queue, b, r.shadow, l, (w \cup s) \ {u})
      BY <1>1, <1>2, <1>3, QueuedReady
    <3> QED BY <1>2, <3>1
  <2>2. b \in Seq(Users)
    BY <2>1 DEF Queued
  <2>3. Ready(r, u) = [r EXCEPT !.shadow_q = b]
    BY <1>3 DEF Ready
  <2> HIDE DEF b
  <2>4. /\ Ready(r, u) \in Run /\ Ready(r, u).queue = r.queue /\ Ready(r, u).shadow_q = b
        /\ Ready(r, u).shadow = r.shadow /\ Ready(r, u).physio = r.physio
        /\ Ready(r, u).family = r.family /\ Ready(r, u).srv = r.srv
    BY <1>1, <2>2, <2>3 DEF Run
  <2> QED BY <1>1, <1>2, <2>1, <2>4 DEF Placed
<1>4. CASE u \notin r.shadow
  <2> DEFINE a == Append(r.queue, u)
  <2>1. Queued(a, r.shadow_q, r.shadow, l, w \cup (s \ {u}))
    <3>1. Queued(a, r.shadow_q, r.shadow, l, (w \cup s) \ {u})
      BY <1>1, <1>2, <1>4, QueuedReady
    <3> QED BY <1>2, <3>1
  <2>2. a \in Seq(Users)
    BY <2>1 DEF Queued
  <2>3. Ready(r, u) = [r EXCEPT !.queue = a]
    BY <1>4 DEF Ready
  <2> HIDE DEF a
  <2>4. /\ Ready(r, u) \in Run /\ Ready(r, u).queue = a /\ Ready(r, u).shadow_q = r.shadow_q
        /\ Ready(r, u).shadow = r.shadow /\ Ready(r, u).physio = r.physio
        /\ Ready(r, u).family = r.family /\ Ready(r, u).srv = r.srv
    BY <1>1, <2>2, <2>3 DEF Run
  <2> QED BY <1>1, <1>2, <2>1, <2>4 DEF Placed
<1> QED BY <1>3, <1>4

(* unready(): who does not wait is in hand *)
LEMMA UnreadyPlaced ==
  ASSUME NEW r, NEW l, NEW w, NEW s, NEW u \in l, Placed(r, l, w, s)
  PROVE  Placed(Unready(r, u), l, w, s \cup ({u} \ w)) /\ Unready(r, u).srv = r.srv
<1>1. /\ r \in Run /\ w \cap s = {} /\ r.physio \subseteq w
      /\ Queued(r.queue, r.shadow_q, r.shadow, l, w \cup s) /\ Kin(r.shadow, r.family, l)
  BY DEF Placed
<1> DEFINE a == Without(r.queue, u)
           b == Without(r.shadow_q, u)
           t == s \cup ({u} \ w)
<1>2. Queued(a, b, r.shadow, l, w \cup t)
  <2>1. Queued(a, b, r.shadow, l, (w \cup s) \cup {u})
    BY <1>1, QueuedWithout
  <2>2. (w \cup s) \cup {u} = w \cup t
    OBVIOUS
  <2> QED BY <2>1, <2>2
<1>3. a \in Seq(Users) /\ b \in Seq(Users)
  BY <1>2 DEF Queued
<1>4. Unready(r, u) = [r EXCEPT !.queue = a, !.shadow_q = b]
  BY DEF Unready
<1>5. w \cap t = {}
  BY <1>1
<1> HIDE DEF a, b, t
<1>6. /\ Unready(r, u) \in Run /\ Unready(r, u).queue = a /\ Unready(r, u).shadow_q = b
      /\ Unready(r, u).shadow = r.shadow /\ Unready(r, u).physio = r.physio
      /\ Unready(r, u).family = r.family /\ Unready(r, u).srv = r.srv
  BY <1>1, <1>3, <1>4 DEF Run
<1>7. Placed(Unready(r, u), l, w, t)
  BY <1>1, <1>2, <1>5, <1>6 DEF Placed
<1> QED BY <1>6, <1>7 DEF t

(* rmshadow(): u leaves its family, whose place goes to h if it was u's *)
Left(fa, u) == [v \in Users |-> IF v = u THEN {u} ELSE fa[v] \ {u}]

LEMMA LeftIs ==
  ASSUME NEW sh, NEW fa, NEW l, NEW u \in l, l \subseteq Users, Kin(sh, fa, l)
  PROVE  /\ Left(fa, u) \in [Users -> SUBSET Users]
         /\ \A v \in Users : v \in Left(fa, u)[v] /\ Left(fa, u)[v] \subseteq l \cup {v}
         /\ \A v, x \in Users : x \in Left(fa, u)[v] => Left(fa, u)[x] = Left(fa, u)[v]
         /\ Left(fa, u)[u] = {u}
<1> DEFINE g == Left(fa, u)
<1>1. g = [v \in Users |-> IF v = u THEN {u} ELSE fa[v] \ {u}] /\ u \in Users
  BY DEF Left
<1>2. g \in [Users -> SUBSET Users]
  BY <1>1 DEF Kin
<1> HIDE DEF g
<1>3. g[u] = {u} /\ \A v \in Users \ {u} : g[v] = fa[v] \ {u}
  BY <1>1
<1>4. \A v \in Users : v \in g[v] /\ g[v] \subseteq l \cup {v}
  BY <1>3 DEF Kin
<1>5. ASSUME NEW v \in Users, NEW x \in Users, x \in g[v] PROVE g[x] = g[v]
  <2>1. CASE v = u
    BY <1>3, <1>5, <2>1
  <2>2. CASE v # u
    <3>1. x # u /\ x \in fa[v]
      BY <1>3, <1>5, <2>2
    <3>2. fa[x] = fa[v]
      BY <3>1 DEF Kin
    <3> QED BY <1>3, <2>2, <3>1, <3>2
  <2> QED BY <2>1, <2>2
<1> QED BY <1>2, <1>3, <1>4, <1>5 DEF g

LEMMA KinShadowLeaves ==
  ASSUME NEW sh, NEW fa, NEW l, NEW u \in l, l \subseteq Users, Kin(sh, fa, l),
         u \in sh \/ fa[u] = {u}
  PROVE  Kin(sh \ {u}, Left(fa, u), l)
<1> DEFINE g == Left(fa, u)
<1>1. /\ g \in [Users -> SUBSET Users] /\ u \in Users
      /\ \A v \in Users : v \in g[v] /\ g[v] \subseteq l \cup {v}
      /\ \A v, x \in Users : x \in g[v] => g[x] = g[v]
  BY LeftIs
<1>2. g[u] = {u} /\ \A v \in Users \ {u} : g[v] = fa[v] \ {u}
  BY <1>1 DEF Left
<1> HIDE DEF g
<1>3. ASSUME NEW v \in Users PROVE ~ g[v] \subseteq sh \ {u}
  <2>1. CASE v = u
    BY <1>2, <2>1
  <2>2. CASE v # u
    <3>1. PICK x \in fa[v] : x \notin sh
      BY DEF Kin
    <3>2. x # u
      <4>1. ASSUME x = u PROVE FALSE
        <5>1. fa[u] = {u} /\ u \in fa[v]
          BY <3>1, <4>1
        <5>2. fa[u] = fa[v] /\ v \in fa[v]
          BY <1>1, <5>1 DEF Kin
        <5> QED BY <2>2, <5>1, <5>2
      <4> QED BY <4>1
    <3> QED BY <1>2, <2>2, <3>1, <3>2
  <2> QED BY <2>1, <2>2
<1>4. ASSUME NEW v \in Users \ (sh \ {u}) PROVE g[v] \ {v} \subseteq sh \ {u}
  <2>1. CASE v = u
    BY <1>2, <2>1
  <2>2. CASE v # u
    BY <1>2, <2>2 DEF Kin
  <2> QED BY <2>1, <2>2
<1>5. sh \ {u} \subseteq l
  BY DEF Kin
<1>6. Kin(sh \ {u}, g, l)
  BY <1>1, <1>3, <1>4, <1>5 DEF Kin
<1> QED BY <1>6 DEF g

LEMMA KinHeir ==
  ASSUME NEW sh, NEW fa, NEW l, NEW u \in l, l \subseteq Users, Kin(sh, fa, l),
         u \notin sh, NEW h \in fa[u] \ {u}
  PROVE  h \in sh /\ Kin(sh \ {h}, Left(fa, u), l)
<1> DEFINE g == Left(fa, u)
<1>1. /\ g \in [Users -> SUBSET Users] /\ u \in Users
      /\ \A v \in Users : v \in g[v] /\ g[v] \subseteq l \cup {v}
      /\ \A v, x \in Users : x \in g[v] => g[x] = g[v]
  BY LeftIs
<1>2. g[u] = {u} /\ \A v \in Users \ {u} : g[v] = fa[v] \ {u}
  BY <1>1 DEF Left
<1> HIDE DEF g
<1>3. h \in sh /\ h \in Users /\ fa[h] = fa[u] /\ fa[u] \ {u} \subseteq sh
  BY <1>1 DEF Kin
<1>4. \A v \in Users : h \in fa[v] => fa[v] = fa[u]
  BY <1>3 DEF Kin
<1>5. ASSUME NEW v \in Users PROVE ~ g[v] \subseteq sh \ {h}
  <2>1. CASE v = u
    BY <1>2, <2>1
  <2>2. CASE v # u
    <3>1. PICK x \in fa[v] : x \notin sh
      BY DEF Kin
    <3>2. CASE x = u
      <4>1. fa[u] = fa[v]
        BY <1>1, <3>1, <3>2 DEF Kin
      <4> QED BY <1>2, <2>2, <4>1
    <3>3. CASE x # u
      BY <1>2, <2>2, <3>1, <3>3
    <3> QED BY <3>2, <3>3
  <2> QED BY <2>1, <2>2
<1>6. ASSUME NEW v \in Users \ (sh \ {h}) PROVE g[v] \ {v} \subseteq sh \ {h}
  <2>1. CASE v = u
    BY <1>2, <2>1
  <2>2. CASE v = h
    BY <1>2, <1>3, <2>2
  <2>3. CASE v # u /\ v # h
    <3>1. v \notin sh
      BY <1>6, <2>3
    <3>2. fa[v] \ {v} \subseteq sh
      BY <3>1 DEF Kin
    <3>3. h \notin fa[v]
      <4>1. v \in fa[v]
        BY DEF Kin
      <4> QED BY <1>3, <1>4, <2>3, <3>1, <4>1
    <3> QED BY <1>2, <2>3, <3>2, <3>3
  <2> QED BY <2>1, <2>2, <2>3
<1>7. sh \ {h} \subseteq l
  BY DEF Kin
<1>8. Kin(sh \ {h}, g, l)
  BY <1>1, <1>5, <1>6, <1>7 DEF Kin
<1> QED BY <1>3, <1>8 DEF g

LEMMA QueuedHeir ==
  ASSUME NEW q, NEW sq, NEW sh, NEW l, NEW o, NEW h \in Range(sq), Queued(q, sq, sh, l, o)
  PROVE  Queued(Append(Without(q, h), h), Without(sq, h), sh \ {h}, l, o)
<1> DEFINE a == Without(q, h)
           b == Without(sq, h)
<1>1. h \in l /\ h \notin o
  BY DEF Queued
<1>2. Queued(a, b, sh, l, o \cup {h})
  BY <1>1, QueuedWithout
<1> HIDE DEF a, b
<1>3. Queued(a, b, sh \ {h}, l, o \cup {h})
  BY <1>2 DEF Queued
<1>4. Queued(Append(a, h), b, sh \ {h}, l, (o \cup {h}) \ {h})
  BY <1>3, QueuedReady
<1>5. (o \cup {h}) \ {h} = o
  BY <1>1
<1> QED BY <1>4, <1>5 DEF a, b

(* h becomes the owner, wherever it stands *)
Inherits(x, r, h, l, o) ==
  /\ x \in Run /\ Queued(x.queue, x.shadow_q, r.shadow \ {h}, l, o)
  /\ x.shadow = r.shadow \ {h} /\ x.physio = r.physio
  /\ x.family = r.family /\ x.srv = r.srv

LEMMA HeirIs ==
  ASSUME NEW r, NEW l, NEW o, NEW h \in r.shadow, r \in Run,
         Queued(r.queue, r.shadow_q, r.shadow, l, o)
  PROVE  Inherits(Heir(r, h), r, h, l, o)
<1> DEFINE sh == r.shadow \ {h}
<1>1. CASE h \in Range(r.shadow_q)
  <2> DEFINE a == Append(Without(r.queue, h), h)
             b == Without(r.shadow_q, h)
  <2>1. Queued(a, b, sh, l, o)
    BY <1>1, QueuedHeir
  <2>2. a \in Seq(Users) /\ b \in Seq(Users)
    BY <2>1 DEF Queued
  <2>3. Heir(r, h) = [r EXCEPT !.shadow = sh, !.queue = a, !.shadow_q = b]
    BY <1>1 DEF Heir, Ready, Unready, Run
  <2> HIDE DEF a, b
  <2>4. /\ Heir(r, h) \in Run /\ Heir(r, h).queue = a /\ Heir(r, h).shadow_q = b
        /\ Heir(r, h).shadow = sh /\ Heir(r, h).physio = r.physio
        /\ Heir(r, h).family = r.family /\ Heir(r, h).srv = r.srv
    BY <2>2, <2>3 DEF Run
  <2> QED BY <2>1, <2>4 DEF Inherits
<1>2. CASE h \notin Range(r.shadow_q)
  <2>1. Heir(r, h) = [r EXCEPT !.shadow = sh]
    BY <1>2 DEF Heir, Run
  <2>2. Queued(r.queue, r.shadow_q, sh, l, o)
    BY <1>2 DEF Queued
  <2>3. /\ Heir(r, h) \in Run /\ Heir(r, h).queue = r.queue /\ Heir(r, h).shadow_q = r.shadow_q
        /\ Heir(r, h).shadow = sh /\ Heir(r, h).physio = r.physio
        /\ Heir(r, h).family = r.family /\ Heir(r, h).srv = r.srv
    BY <2>1 DEF Run
  <2> QED BY <2>2, <2>3 DEF Inherits
<1> QED BY <1>1, <1>2

LeavesFamily(x, r, l, w, s, u) ==
  Placed(x, l, w, s) /\ x.srv = r.srv /\ u \notin x.shadow /\ x.family[u] = {u}

LEMMA RmshadowPlaced ==
  ASSUME NEW r, NEW l, NEW w, NEW s, NEW u \in w \cup s, Placed(r, l, w, s)
  PROVE  LeavesFamily(rmshadow(r, u), r, l, w, s, u)
<1>1. /\ r \in Run /\ w \cap s = {} /\ r.physio \subseteq w
      /\ Queued(r.queue, r.shadow_q, r.shadow, l, w \cup s) /\ Kin(r.shadow, r.family, l)
  BY DEF Placed
<1>2. /\ u \in l /\ l \subseteq Users /\ u \in Users
      /\ u \notin Range(r.queue) /\ u \notin Range(r.shadow_q)
  BY <1>1 DEF Queued
<1> DEFINE others == r.family[u] \ {u}
           g == Left(r.family, u)
           k == IF u \in r.shadow THEN [r EXCEPT !.shadow = @ \ {u}]
                ELSE IF others # {} THEN Heir(r, Min(others)) ELSE r
<1>3. /\ k \in Run /\ Queued(k.queue, k.shadow_q, k.shadow, l, w \cup s)
      /\ Kin(k.shadow, g, l) /\ u \notin k.shadow
      /\ k.physio = r.physio /\ k.family = r.family /\ k.srv = r.srv
  <2>1. CASE u \in r.shadow
    <3>1. k = [r EXCEPT !.shadow = r.shadow \ {u}]
      BY <2>1
    <3> HIDE DEF k
    <3>2. /\ k \in Run /\ k.queue = r.queue /\ k.shadow_q = r.shadow_q
          /\ k.shadow = r.shadow \ {u} /\ k.physio = r.physio /\ k.family = r.family
          /\ k.srv = r.srv
      BY <1>1, <3>1 DEF Run
    <3>3. Queued(k.queue, k.shadow_q, k.shadow, l, w \cup s)
      BY <1>1, <1>2, <3>2 DEF Queued
    <3>4. Kin(k.shadow, g, l)
      BY <1>1, <1>2, <2>1, <3>2, KinShadowLeaves
    <3> QED BY <3>2, <3>3, <3>4
  <2>2. CASE u \notin r.shadow /\ others # {}
    <3> DEFINE h == Min(others)
    <3>1. h \in others
      <4>1. others \in SUBSET Nat
        BY <1>1, <1>2, ClockAssumption DEF Run
      <4>2. IsFiniteSet(others)
        BY <1>1, <1>2, ClockAssumption, FS_Subset DEF Run
      <4> QED BY <2>2, <4>1, <4>2, Least
    <3>2. k = Heir(r, h)
      BY <2>2
    <3> HIDE DEF h, k
    <3>3. h \in r.shadow /\ Kin(r.shadow \ {h}, g, l)
      BY <1>1, <1>2, <2>2, <3>1, KinHeir
    <3> DEFINE o == w \cup s
    <3> HIDE DEF o
    <3>4. Queued(r.queue, r.shadow_q, r.shadow, l, o)
      BY <1>1 DEF o
    <3>5. Inherits(Heir(r, h), r, h, l, o)
      BY <1>1, <3>3, <3>4, HeirIs
    <3>6. Inherits(k, r, h, l, o)
      BY <3>2, <3>5
    <3> QED BY <2>2, <3>3, <3>6 DEF o, Inherits
  <2>3. CASE u \notin r.shadow /\ others = {}
    <3>1. k = r
      BY <2>3
    <3> HIDE DEF k
    <3>2. r.family[u] = {u}
      BY <1>1, <1>2, <2>3 DEF Kin
    <3>3. r.shadow \ {u} = r.shadow
      BY <2>3
    <3>4. Kin(r.shadow, g, l)
      BY <1>1, <1>2, <3>2, <3>3, KinShadowLeaves
    <3> QED BY <1>1, <2>3, <3>1, <3>4
  <2> QED BY <2>1, <2>2, <2>3
<1>4. rmshadow(r, u) = [k EXCEPT !.family = g]
  <2>1. rmshadow(r, u) = [k EXCEPT !.family = [v \in Users |-> IF v = u THEN {u} ELSE @[v] \ {u}]]
    BY DEF rmshadow
  <2> HIDE DEF k
  <2> QED BY <1>3, <2>1 DEF Left
<1>5. g \in [Users -> SUBSET Users] /\ g[u] = {u}
  BY <1>1, <1>2, LeftIs
<1> HIDE DEF k, g
<1> DEFINE n == rmshadow(r, u)
<1>6. /\ n \in Run /\ n.queue = k.queue /\ n.shadow_q = k.shadow_q /\ n.shadow = k.shadow
      /\ n.physio = k.physio /\ n.family = g /\ n.srv = k.srv
  BY <1>3, <1>4, <1>5 DEF Run
<1> HIDE DEF n
<1>7. Placed(n, l, w, s)
  BY <1>1, <1>3, <1>6 DEF Placed
<1>8. LeavesFamily(n, r, l, w, s, u)
  BY <1>3, <1>5, <1>6, <1>7 DEF LeavesFamily
<1> QED BY <1>8 DEF n

(* mkshadow(): of p's family, c has the place *)
Joined(fa, p, c) == [v \in Users |-> IF v \in fa[p] \cup {c} THEN fa[p] \cup {c} ELSE fa[v]]

LEMMA KinJoins ==
  ASSUME NEW sh, NEW fa, NEW l, NEW p \in l, NEW c \in Users \ l, l \subseteq Users,
         Kin(sh, fa, l), NEW x \in {p, c}, x = IF p \in sh THEN c ELSE p
  PROVE  Kin(sh \cup {x}, Joined(fa, p, c), l \cup {c})
<1> DEFINE f == fa[p] \cup {c}
           g == Joined(fa, p, c)
<1>1. p \in Users /\ p \in fa[p] /\ fa[p] \subseteq l /\ f \subseteq Users /\ c \notin sh
  BY DEF Kin
<1>2. /\ \A v \in Users : g[v] = IF v \in f THEN f ELSE fa[v]
      /\ g \in [Users -> SUBSET Users]
  BY <1>1 DEF Joined, Kin
<1>3. \A v \in Users : v \in fa[p] => fa[v] = fa[p]
  BY <1>1 DEF Kin
<1>4. \A v \in Users : v \notin f => fa[v] \cap f = {}
  <2> SUFFICES ASSUME NEW v \in Users, v \notin f, NEW y \in fa[v], y \in f PROVE FALSE
    OBVIOUS
  <2>1. y \in Users /\ fa[y] = fa[v] /\ v \in fa[v] /\ fa[v] \subseteq l \cup {v}
    BY DEF Kin
  <2>2. y # c
    BY <1>1, <2>1
  <2>3. fa[y] = fa[p]
    BY <1>1, <1>3, <2>1, <2>2
  <2> QED BY <2>1, <2>3
<1> HIDE DEF g, f
<1>5. \A v \in Users : v \in g[v] /\ g[v] \subseteq (l \cup {c}) \cup {v}
  BY <1>1, <1>2 DEF Kin, f
<1>6. \A v, y \in Users : y \in g[v] => g[y] = g[v]
  <2> SUFFICES ASSUME NEW v \in Users, NEW y \in Users, y \in g[v] PROVE g[y] = g[v]
    OBVIOUS
  <2>1. CASE v \in f
    BY <1>2, <2>1
  <2>2. CASE v \notin f
    <3>1. y \in fa[v] /\ y \notin f
      BY <1>2, <1>4, <2>2
    <3>2. fa[y] = fa[v]
      BY <3>1 DEF Kin
    <3> QED BY <1>2, <2>2, <3>1, <3>2
  <2> QED BY <2>1, <2>2
<1>7. \A v \in Users : ~ g[v] \subseteq sh \cup {x}
  <2> SUFFICES ASSUME NEW v \in Users PROVE ~ g[v] \subseteq sh \cup {x}
    OBVIOUS
  <2>1. CASE v \in f
    <3>1. CASE p \in sh
      <4>1. PICK y \in fa[p] : y \notin sh
        BY <1>1 DEF Kin
      <4>2. y # c
        BY <1>1, <4>1
      <4> QED BY <1>2, <2>1, <3>1, <4>1, <4>2 DEF f
    <3>2. CASE p \notin sh
      BY <1>1, <1>2, <2>1, <3>2 DEF f
    <3> QED BY <3>1, <3>2
  <2>2. CASE v \notin f
    <3>1. PICK y \in fa[v] : y \notin sh
      BY DEF Kin
    <3>2. y \notin f
      BY <1>4, <2>2, <3>1
    <3>3. x \in f
      BY <1>1 DEF f
    <3> QED BY <1>2, <2>2, <3>1, <3>2, <3>3
  <2> QED BY <2>1, <2>2
<1>8. \A v \in Users \ (sh \cup {x}) : g[v] \ {v} \subseteq sh \cup {x}
  <2> SUFFICES ASSUME NEW v \in Users, v \notin sh, v # x PROVE g[v] \ {v} \subseteq sh \cup {x}
    OBVIOUS
  <2>1. fa[v] \ {v} \subseteq sh
    BY DEF Kin
  <2>2. CASE v \notin f
    BY <1>2, <2>1, <2>2
  <2>3. CASE v \in f /\ p \in sh
    <3>1. v \in fa[p]
      BY <2>3 DEF f
    <3> QED BY <1>2, <1>3, <2>1, <2>3, <3>1 DEF f
  <2>4. CASE v \in f /\ p \notin sh
    <3>1. fa[p] \ {p} \subseteq sh
      BY <1>1, <2>4 DEF Kin
    <3>2. v = c
      BY <2>4, <3>1 DEF f
    <3> QED BY <1>2, <2>4, <3>1, <3>2 DEF f
  <2> QED BY <2>2, <2>3, <2>4
<1>9. sh \cup {x} \subseteq l \cup {c}
  BY DEF Kin
<1>10. Kin(sh \cup {x}, g, l \cup {c})
  BY <1>2, <1>5, <1>6, <1>7, <1>8, <1>9 DEF Kin
<1> QED BY <1>10 DEF g

LEMMA MkshadowPlaced ==
  ASSUME NEW r, NEW l, NEW w, NEW s, NEW p \in s, NEW c \in Users \ l, Placed(r, l, w, s)
  PROVE  /\ Placed(mkshadow(r, p, c), l \cup {c}, w, s \cup {c})
         /\ mkshadow(r, p, c).srv = r.srv
<1>1. /\ r \in Run /\ w \cap s = {} /\ r.physio \subseteq w
      /\ Queued(r.queue, r.shadow_q, r.shadow, l, w \cup s) /\ Kin(r.shadow, r.family, l)
  BY DEF Placed
<1>2. /\ l \subseteq Users /\ p \in l /\ w \subseteq l /\ s \subseteq l
      /\ p \notin Range(r.queue) /\ p \notin Range(r.shadow_q)
  BY <1>1 DEF Queued
<1> DEFINE x == IF p \in r.shadow THEN c ELSE p
           g == Joined(r.family, p, c)
<1>3. x \in {p, c} /\ x \in Users
  BY <1>2
<1>4. Kin(r.shadow \cup {x}, g, l \cup {c})
  BY <1>1, <1>2, <1>3, KinJoins
<1>5. mkshadow(r, p, c) = [r EXCEPT !.shadow = r.shadow \cup {x}, !.family = g,
                                    !.flipwait = FLIPWAIT]
  <2>1. x = c \/ x = p
    BY <1>3
  <2>2. (IF p \in r.shadow THEN r.shadow \cup {c} ELSE r.shadow \cup {p}) = r.shadow \cup {x}
    OBVIOUS
  <2>3. mkshadow(r, p, c) = [r EXCEPT !.shadow = IF p \in r.shadow THEN r.shadow \cup {c}
                                                 ELSE r.shadow \cup {p},
                                      !.family = g, !.flipwait = FLIPWAIT]
    BY <1>1 DEF mkshadow, Joined, Run
  <2> QED BY <2>2, <2>3
<1>6. Queued(r.queue, r.shadow_q, r.shadow \cup {x}, l \cup {c}, (w \cup s) \cup {c})
  BY <1>1, <1>2, <1>3 DEF Queued
<1>7. (w \cup s) \cup {c} = w \cup (s \cup {c}) /\ w \cap (s \cup {c}) = {}
  BY <1>1, <1>2
<1>8. g \in [Users -> SUBSET Users]
  BY <1>4 DEF Kin
<1> HIDE DEF x, g
<1> DEFINE n == mkshadow(r, p, c)
<1>9. /\ n \in Run /\ n.queue = r.queue /\ n.shadow_q = r.shadow_q
      /\ n.shadow = r.shadow \cup {x} /\ n.physio = r.physio /\ n.family = g
      /\ n.srv = r.srv
  <2> DEFINE h == r.shadow \cup {x}
  <2>1. h \in SUBSET Users /\ FLIPWAIT \in 0 .. FLIPWAIT
    BY <1>1, <1>3, ClockAssumption DEF Run
  <2> HIDE DEF h
  <2>2. n = [r EXCEPT !.shadow = h, !.family = g, !.flipwait = FLIPWAIT]
    BY <1>5 DEF h
  <2> HIDE DEF n
  <2>3. /\ n \in Run /\ n.queue = r.queue /\ n.shadow_q = r.shadow_q
        /\ n.shadow = h /\ n.physio = r.physio /\ n.family = g /\ n.srv = r.srv
    BY <1>1, <1>8, <2>1, <2>2 DEF Run
  <2> QED BY <2>3 DEF h
<1> HIDE DEF n
<1>10. Queued(r.queue, r.shadow_q, r.shadow \cup {x}, l \cup {c}, w \cup (s \cup {c}))
  BY <1>6, <1>7
<1>11. Placed(n, l \cup {c}, w, s \cup {c})
  BY <1>1, <1>4, <1>7, <1>9, <1>10 DEF Placed
<1> QED BY <1>9, <1>11 DEF n

(* unshadow(): the first shadow changes places with the owner *)
LEMMA QueuedFlipped ==
  ASSUME NEW q, NEW sq, NEW sh, NEW l, NEW o, Queued(q, sq, sh, l, o), sq # <<>>,
         NEW x \in l \ sh
  PROVE  /\ Head(sq) \in sh /\ Head(sq) \in l
         /\ x \in Range(q) =>
              Queued(Append(Without(q, x), Head(sq)), Append(Tail(sq), x),
                     (sh \ {Head(sq)}) \cup {x}, l, o)
         /\ x \notin Range(q) =>
              Queued(Append(Without(q, x), Head(sq)), Tail(sq), (sh \ {Head(sq)}) \cup {x}, l, o)
<1> DEFINE p == Head(sq)
           t == Tail(sq)
           a == Without(q, x)
           n == (sh \ {p}) \cup {x}
<1>1. /\ t \in Seq(Users) /\ IsInjective(t) /\ p \in Users /\ p \in Range(sq)
      /\ Range(t) = Range(sq) \ {p}
  BY TailOne DEF Queued
<1>2. Without(t, x) = t
  <2>1. x \notin Range(t)
    BY <1>1 DEF Queued
  <2> HIDE DEF t
  <2> QED BY <2>1 DEF Without
<1> HIDE DEF p, t, n
<1>3. Queued(q, t, sh, l, o \cup {p})
  BY <1>1 DEF Queued
<1>4. p \in sh /\ p \in l /\ p # x /\ p \notin o
  BY <1>1 DEF Queued
<1>5. Queued(a, t, sh, l, (o \cup {p}) \cup {x})
  <2>1. Queued(a, Without(t, x), sh, l, (o \cup {p}) \cup {x})
    BY <1>3, QueuedWithout
  <2> QED BY <1>2, <2>1
<1> HIDE DEF a
<1>6. Queued(a, t, n, l, (o \cup {p}) \cup {x})
  BY <1>5 DEF Queued, n
<1>7. p \notin n /\ x \in n
  BY <1>4 DEF n
<1>8. Queued(Append(a, p), t, n, l, o \cup {x})
  <2>1. Queued(Append(a, p), t, n, l, ((o \cup {p}) \cup {x}) \ {p})
    BY <1>6, <1>7, QueuedReady
  <2>2. ((o \cup {p}) \cup {x}) \ {p} = o \cup {x}
    BY <1>4
  <2> QED BY <2>1, <2>2
<1>9. x \in Range(q) => Queued(Append(a, p), Append(t, x), n, l, o)
  <2> SUFFICES ASSUME x \in Range(q) PROVE Queued(Append(a, p), Append(t, x), n, l, o)
    OBVIOUS
  <2>1. Queued(Append(a, p), Append(t, x), n, l, (o \cup {x}) \ {x})
    BY <1>7, <1>8, QueuedReady
  <2>2. (o \cup {x}) \ {x} = o
    BY DEF Queued
  <2> QED BY <2>1, <2>2
<1>10. x \notin Range(q) => Queued(Append(a, p), t, n, l, o)
  <2> SUFFICES ASSUME x \notin Range(q) PROVE Queued(Append(a, p), t, n, l, o)
    OBVIOUS
  <2>1. x \in o
    BY DEF Queued
  <2>2. o \cup {x} = o
    BY <2>1
  <2> QED BY <1>8, <2>2
<1> QED BY <1>4, <1>9, <1>10 DEF a, p, t, n

LEMMA KinFlipped ==
  ASSUME NEW sh, NEW fa, NEW l, l \subseteq Users, Kin(sh, fa, l), NEW p \in sh,
         NEW x \in fa[p] \ sh
  PROVE  x \in l /\ Kin((sh \ {p}) \cup {x}, fa, l)
<1> DEFINE n == (sh \ {p}) \cup {x}
<1>1. p \in Users /\ p \in l /\ x \in l /\ x \in Users /\ fa[x] = fa[p] /\ p \in fa[p]
  BY DEF Kin
<1>2. fa[x] \ {x} \subseteq sh
  BY <1>1 DEF Kin
<1>3. n \subseteq l
  BY <1>1 DEF Kin
<1>4. ASSUME NEW v \in Users PROVE ~ fa[v] \subseteq n
  <2>1. PICK y \in fa[v] : y \notin sh
    BY DEF Kin
  <2>2. CASE y = x
    <3>1. fa[x] = fa[v]
      BY <1>1, <2>2 DEF Kin
    <3> QED BY <1>1, <3>1
  <2>3. CASE y # x
    BY <2>1, <2>3
  <2> QED BY <2>2, <2>3
<1>5. ASSUME NEW v \in Users \ n PROVE fa[v] \ {v} \subseteq n
  <2>1. CASE v = p
    BY <1>1, <1>2, <2>1
  <2>2. CASE v # p
    <3>1. v \notin sh /\ v # x
      BY <2>2
    <3>2. fa[v] \ {v} \subseteq sh
      BY <3>1 DEF Kin
    <3>3. p \notin fa[v]
      <4>1. ASSUME p \in fa[v] PROVE FALSE
        <5>1. fa[p] = fa[v] /\ v \in fa[v]
          BY <1>1, <4>1 DEF Kin
        <5> QED BY <1>1, <1>2, <3>1, <5>1
      <4> QED BY <4>1
    <3> QED BY <3>2, <3>3
  <2> QED BY <2>1, <2>2
<1> HIDE DEF n
<1>6. Kin(n, fa, l)
  BY <1>3, <1>4, <1>5 DEF Kin
<1> QED BY <1>1, <1>6 DEF n

LEMMA FlippedPlaced ==
  ASSUME NEW r, NEW l, NEW w, NEW s, Placed(r, l, w, s), r.shadow_q # <<>>
  PROVE  LET f == Flipped(r, Head(r.shadow_q), Owner(r, Head(r.shadow_q)))
         IN  Placed(f, l, w, s) /\ f.srv = r.srv
<1> DEFINE p == Head(r.shadow_q)
           x == Owner(r, p)
           f == Flipped(r, p, x)
           n == (r.shadow \ {p}) \cup {x}
           a == Append(Without(r.queue, x), p)
           t == Tail(r.shadow_q)
<1>1. /\ r \in Run /\ w \cap s = {} /\ r.physio \subseteq w
      /\ Queued(r.queue, r.shadow_q, r.shadow, l, w \cup s) /\ Kin(r.shadow, r.family, l)
  BY DEF Placed
<1>2. /\ p \in r.shadow /\ p \in Users /\ l \subseteq Users
  <2>1. p \in Range(r.shadow_q) /\ p \in Users
    BY <1>1, TailOne DEF Queued
  <2> QED BY <1>1, <2>1 DEF Queued
<1>3. x \in r.family[p] \ r.shadow
  <2>1. \E y \in r.family[p] : y \notin r.shadow
    BY <1>1, <1>2 DEF Kin
  <2> QED BY <2>1 DEF Owner
<1> HIDE DEF x
<1>4. x \in l /\ Kin(n, r.family, l)
  BY <1>1, <1>2, <1>3, KinFlipped
<1>5. /\ x \in Range(r.queue) => Queued(a, Append(t, x), n, l, w \cup s)
      /\ x \notin Range(r.queue) => Queued(a, t, n, l, w \cup s)
  BY <1>1, <1>3, <1>4, QueuedFlipped
<1>6. x \in n /\ n \in SUBSET Users /\ FLIPWAIT \in 0 .. FLIPWAIT
  BY <1>1, <1>2, <1>4, ClockAssumption DEF Kin
<1>7. \E b : /\ f = [r EXCEPT !.flipwait = FLIPWAIT, !.shadow = n, !.shadow_q = b, !.queue = a]
             /\ Queued(a, b, n, l, w \cup s)
  <2>1. CASE x \in Range(r.queue)
    <3>1. f = [r EXCEPT !.flipwait = FLIPWAIT, !.shadow = n, !.shadow_q = Append(t, x), !.queue = a]
      BY <1>1, <2>1, <1>6 DEF Flipped, Ready, Run
    <3> QED BY <1>5, <2>1, <3>1
  <2>2. CASE x \notin Range(r.queue)
    <3>1. f = [r EXCEPT !.flipwait = FLIPWAIT, !.shadow = n, !.shadow_q = t, !.queue = a]
      BY <2>2 DEF Flipped
    <3> QED BY <1>5, <2>2, <3>1
  <2> QED BY <2>1, <2>2
<1> HIDE DEF f, n, a, t
<1>8. PICK b : /\ f = [r EXCEPT !.flipwait = FLIPWAIT, !.shadow = n, !.shadow_q = b, !.queue = a]
               /\ Queued(a, b, n, l, w \cup s)
  BY <1>7
<1>9. a \in Seq(Users) /\ b \in Seq(Users)
  BY <1>8 DEF Queued
<1>10. /\ f \in Run /\ f.queue = a /\ f.shadow_q = b /\ f.shadow = n
       /\ f.physio = r.physio /\ f.family = r.family /\ f.srv = r.srv
  BY <1>1, <1>6, <1>8, <1>9 DEF Run
<1>11. Placed(f, l, w, s)
  BY <1>1, <1>4, <1>8, <1>10 DEF Placed
<1> QED BY <1>10, <1>11 DEF f, x

(* Whoever has left its family can go *)
LEMMA GonePlaced ==
  ASSUME NEW r, NEW l, NEW w, NEW s, NEW u \in w \cup s, Placed(r, l, w, s),
         u \notin r.shadow, r.family[u] = {u}
  PROVE  Placed([r EXCEPT !.physio = @ \ {u}], l \ {u}, w \ {u}, s \ {u})
<1>1. /\ r \in Run /\ w \cap s = {} /\ r.physio \subseteq w
      /\ Queued(r.queue, r.shadow_q, r.shadow, l, w \cup s) /\ Kin(r.shadow, r.family, l)
  BY DEF Placed
<1>2. Queued(r.queue, r.shadow_q, r.shadow, l \ {u}, (w \cup s) \ {u})
  BY <1>1 DEF Queued
<1>3. (w \cup s) \ {u} = (w \ {u}) \cup (s \ {u})
  OBVIOUS
<1>4. Kin(r.shadow, r.family, l \ {u})
  <2>1. ASSUME NEW v \in Users PROVE r.family[v] \subseteq (l \ {u}) \cup {v}
    <3>1. v # u => u \notin r.family[v]
      <4>1. u \in Users
        BY <1>1 DEF Queued
      <4> QED BY <1>1, <4>1 DEF Kin
    <3> QED BY <1>1, <3>1 DEF Kin
  <2> QED BY <1>1, <2>1 DEF Kin
<1> DEFINE n == [r EXCEPT !.physio = r.physio \ {u}]
<1>5. /\ n \in Run /\ n.queue = r.queue /\ n.shadow_q = r.shadow_q /\ n.shadow = r.shadow
      /\ n.physio = r.physio \ {u} /\ n.family = r.family
  BY <1>1 DEF Run
<1> HIDE DEF n
<1>6. n.physio \subseteq w \ {u} /\ (w \ {u}) \cap (s \ {u}) = {}
  BY <1>1, <1>5
<1>7. Queued(r.queue, r.shadow_q, r.shadow, l \ {u}, (w \ {u}) \cup (s \ {u}))
  BY <1>2, <1>3
<1>8. Placed(n, l \ {u}, w \ {u}, s \ {u})
  BY <1>4, <1>5, <1>6, <1>7 DEF Placed
<1> QED BY <1>8 DEF n

-----------------------------------------------------------------------------
(* The inductive invariant *)

(* What CLOCK works on, and that MM waits for the answer to its request *)
MessInv ==
  /\ clk.at = "ready" => clk.mess = HARD_INT \/ clk.mess.op = "SET_ALARM"
  /\ clk.at \in {"SET_ALARM", "search"} => clk.mess.op = "SET_ALARM"
  /\ clk.at \in {"ready", "SET_ALARM", "search"} /\ clk.mess.op = "SET_ALARM"
     => run.srv.op = "told" /\ run.srv.p = clk.mess.p

ServInv ==
  /\ run.srv = NoCall \/ run.srv.p \in Users
  /\ run.srv.op # "asks" /\ (run.srv.op = "told" => run.srv.p \in Users)

(* sched_ticks is positive except while the quantum is over, where it can  *)
(* only go on below 0                                                      *)
SchedInv ==
  /\ clk.at = "count" => clk.seen \in 1 .. SCHED_RATE
  /\ IF clk.at \in {"switch", "reset"} THEN clk.sched <= 0 ELSE clk.sched \in 1 .. SCHED_RATE

NextInv ==
  clk.at \notin {"SET_ALARM", "search", "alarms"} => \A u \in DOMAIN alarm : clk.next <= alarm[u]

(* The stopwatch of a request runs before its alarm does *)
TimeInv ==
  /\ \A u \in DOMAIN alarm :
       (clk.at = "SET_ALARM" /\ u = clk.mess.p) \/ left[u] = Max({0, alarm[u] - pending})
  /\ clk.at = "SET_ALARM" => left[clk.mess.p] = Max({0, clk.mess.delta - pending})

IInv == TypeOK /\ MessInv /\ ServInv /\ SchedInv /\ NextInv /\ TimeInv

-----------------------------------------------------------------------------
(* Facts for all steps *)

LEMMA Constants ==
  /\ IDLE \notin Users /\ MAX_P_LONG = 1000 /\ SCHED_RATE \in Nat /\ SCHED_RATE > 0
  /\ MaxPending \in Nat /\ MaxPending > 0 /\ MaxPending < 1000 /\ MaxLate \in Nat
  /\ Deltas \subseteq 0 .. MaxPending /\ FLIPWAIT \in Nat
  /\ NoCall \in Mess /\ NoCall.p = IDLE /\ NoCall.op = "none"
  /\ HARD_INT \in Mess /\ HARD_INT.op = "HARD_INT"
BY ClockAssumption DEF MAX_P_LONG, NoCall, HARD_INT, Mess, Ops

LEMMA Max0 == \A a \in Int : Max({0, a}) = IF a <= 0 THEN 0 ELSE a
<1> SUFFICES ASSUME NEW a \in Int PROVE Max({0, a}) = IF a <= 0 THEN 0 ELSE a
  OBVIOUS
<1>1. Max({0, a}) = IF 0 >= a THEN 0 ELSE a
  BY MaxOf
<1> QED BY <1>1

LEMMA PickedIs ==
  ASSUME NEW r \in Run, NEW at
  PROVE  /\ Picked(r, at) \in Run
         /\ Alike(Picked(r, at), r) /\ Picked(r, at).srv = r.srv
<1>1. r.queue # <<>> => Head(r.queue) \in Users
  BY HeadTailProperties DEF Run
<1>2. PICK b \in Users \cup {IDLE} : Picked(r, at) = [r EXCEPT !.bill = b]
  BY <1>1 DEF Picked, Run
<1> QED BY <1>2 DEF Run, Alike

(* CLOCK waits for its next message, and takes it if it is there *)
LEMMA ReceiveIs ==
  ASSUME NEW c \in Clk, NEW r \in Run, r.srv.op # "asks", Receive(c, r)
  PROVE  /\ clk' \in Clk /\ clk'.next = c.next /\ clk'.sched = c.sched
         /\ clk'.at \in {"recv", "ready"} /\ (clk'.at = "ready" => clk'.mess = HARD_INT)
         /\ run' \in Run /\ Alike(run', r) /\ run'.srv = r.srv
<1> DEFINE taken == [c EXCEPT !.at = "ready", !.mess = HARD_INT, !.int = FALSE]
           rests == [c EXCEPT !.at = "recv", !.mess = NoCall, !.late = 0]
<1>0. HARD_INT \in Mess /\ NoCall \in Mess /\ 0 \in 0 .. MaxLate
  BY Constants
<1>1. CASE c.int
  <2>1. clk' = taken /\ run' = r
    BY <1>1 DEF Receive
  <2>2. taken \in Clk
    BY <1>0 DEF Clk, At
  <2>3. /\ taken.next = c.next /\ taken.sched = c.sched
        /\ taken.at = "ready" /\ taken.mess = HARD_INT
    BY DEF Clk
  <2>4. Alike(r, r)
    BY DEF Alike
  <2> QED BY <2>1, <2>2, <2>3, <2>4
<1>2. CASE ~ c.int
  <2>1. clk' = rests /\ run' = Picked(r, "recv")
    BY <1>2 DEF Receive
  <2>2. rests \in Clk
    BY <1>0 DEF Clk, At
  <2>3. rests.next = c.next /\ rests.sched = c.sched /\ rests.at = "recv"
    BY DEF Clk
  <2> QED BY <2>1, <2>2, <2>3, PickedIs
<1> QED BY <1>1, <1>2

LEMMA EarliestIs ==
  ASSUME NEW D \in SUBSET Users, NEW a \in [D -> 0 .. MaxPending]
  PROVE  /\ Earliest(a) \in 0 .. MaxPending \cup {MAX_P_LONG}
         /\ \A u \in D : Earliest(a) <= a[u]
<1> DEFINE S == {a[u] : u \in D}
           T == {MAX_P_LONG} \cup S
<1>1. DOMAIN a = D
  OBVIOUS
<1>2. IsFiniteSet(T)
  <2>1. IsFiniteSet(D)
    BY ClockAssumption, FS_Subset
  <2>2. IsFiniteSet(S)
    <3>1. a \in Surjection(D, S)
      BY DEF Surjection
    <3> QED BY <2>1, <3>1, FS_Surjection
  <2> QED BY <2>2, FS_AddElement, FS_Union, FS_Singleton
<1>3. T \in SUBSET Nat /\ T # {}
  BY Constants
<1>4. Min(T) \in T /\ \A n \in T : Min(T) <= n
  BY <1>2, <1>3, Least
<1>5. Earliest(a) = Min(T)
  BY <1>1 DEF Earliest
<1> QED BY <1>4, <1>5

(* Where everyone stands, before and after a step *)
LEMMA PlacedNow == ASSUME IInv PROVE Placed(run, live, waiting, Serving)
<1>1. run \in Run /\ OnePlace /\ Families /\ live \subseteq Users
  BY DEF IInv, TypeOK
<1>2. Queued(run.queue, run.shadow_q, run.shadow, live, waiting \cup Serving)
  BY <1>1 DEF Run, OnePlace, InQueue, Queued
<1>3. Kin(run.shadow, run.family, live)
  BY <1>1 DEF Run, Families, Kin
<1> QED BY <1>1, <1>2, <1>3 DEF OnePlace, Placed

LEMMA PlacedNext ==
  ASSUME Placed(run', live', waiting', Serving')
  PROVE  run' \in Run /\ live' \subseteq Users /\ OnePlace' /\ Families'
<1>1. /\ run' \in Run /\ waiting' \cap Serving' = {} /\ run'.physio \subseteq waiting'
      /\ Queued(run'.queue, run'.shadow_q, run'.shadow, live', waiting' \cup Serving')
      /\ Kin(run'.shadow, run'.family, live')
  BY DEF Placed
<1>2. OnePlace' /\ live' \subseteq Users
  BY <1>1 DEF OnePlace, InQueue, Queued
<1>3. Families'
  BY <1>1 DEF Families, Kin
<1> QED BY <1>1, <1>2, <1>3

LEMMA PlaceKept ==
  ASSUME IInv, run' \in Run, Alike(run', run), run'.srv.p = run.srv.p, UNCHANGED <<live, waiting>>
  PROVE  OnePlace' /\ Families'
<1>1. Placed(run', live, waiting, Serving)
  BY PlacedNow, PlacedAlike
<1>2. Serving' = Serving
  BY DEF Serving
<1>3. Placed(run', live', waiting', Serving')
  BY <1>1, <1>2
<1> QED BY <1>3, PlacedNext

LEMMA PlaceSame ==
  ASSUME IInv, UNCHANGED <<run, live, waiting>> PROVE OnePlace' /\ Families'
<1>1. run' \in Run /\ Alike(run', run) /\ run'.srv.p = run.srv.p
  BY DEF IInv, TypeOK, Alike
<1> QED BY <1>1, PlaceKept

-----------------------------------------------------------------------------
(* The steps *)

LEMMA InitHolds == Init => IInv
<1> SUFFICES ASSUME Init PROVE IInv
  OBVIOUS
<1>1. PICK u \in Users :
        /\ live = {u}
        /\ run = [queue |-> <<u>>, shadow_q |-> <<>>, bill |-> u, srv |-> NoCall,
                  shadow |-> {}, physio |-> {}, family |-> [v \in Users |-> {v}],
                  flipwait |-> 0]
  BY DEF Init
<1>2. /\ <<u>> \in Seq(Users) /\ Range(<<u>>) = {u} /\ IsInjective(<<u>>)
      /\ <<>> \in Seq(Users) /\ Range(<<>>) = {} /\ IsInjective(<<>>)
  BY DEF Range, IsInjective
<1>3. alarm = << >> /\ DOMAIN alarm = {} /\ waiting = {} /\ pending = 0 /\ left = [v \in Users |-> 0]
  BY DEF Init
<1>4. clk \in Clk /\ clk.at = "recv" /\ clk.sched = SCHED_RATE
  BY Constants DEF Init, Clk, At
<1>5. TypeOK
  <2>1. alarm \in [DOMAIN alarm -> 0 .. MaxPending]
    BY <1>3
  <2>2. left \in [Users -> 0 .. MaxPending] /\ pending \in 0 .. MaxPending
    BY <1>3, Constants
  <2>3. run \in Run
    BY <1>1, <1>2, Constants DEF Run
  <2>4. OnePlace
    BY <1>1, <1>2, <1>3, Constants DEF OnePlace, InQueue, Serving
  <2>5. Families
    BY <1>1 DEF Families
  <2> QED BY <1>1, <1>3, <1>4, <2>1, <2>2, <2>3, <2>4, <2>5 DEF TypeOK
<1>6. MessInv /\ ServInv
  BY <1>1, <1>4, Constants DEF MessInv, ServInv
<1>7. SchedInv /\ NextInv /\ TimeInv
  BY <1>3, <1>4, Constants DEF SchedInv, NextInv, TimeInv
<1> QED BY <1>5, <1>6, <1>7 DEF IInv

LEMMA HandlerHolds == IInv /\ clock_handler => IInv'
<1> SUFFICES ASSUME IInv, clock_handler PROVE IInv'
  OBVIOUS
<1> DEFINE c == IF clk.at = "recv" THEN clk ELSE [clk EXCEPT !.late = @ + 1]
<1>1. /\ clk \in Clk /\ pending \in 0 .. MaxPending /\ run \in Run /\ live \subseteq Users
      /\ left \in [Users -> 0 .. MaxPending] /\ DOMAIN alarm \subseteq live
      /\ alarm \in [DOMAIN alarm -> 0 .. MaxPending]
  BY DEF IInv, TypeOK
<1>2. UNCHANGED <<alarm, run, live, waiting>>
  BY DEF clock_handler
<1>3. pending' = IF pending + 1 <= MaxPending THEN pending + 1 ELSE MaxPending
  BY <1>1, Constants, MinOf DEF clock_handler
<1>4. left' = [u \in Users |-> IF left[u] = 0 THEN 0 ELSE left[u] - 1]
  <2>1. \A u \in Users : Max({0, left[u] - 1}) = IF left[u] = 0 THEN 0 ELSE left[u] - 1
    BY <1>1, Max0
  <2> QED BY <2>1 DEF clock_handler
<1>5. c \in Clk /\ c.at = clk.at /\ c.next = clk.next /\ c.mess = clk.mess
      /\ c.sched = clk.sched /\ c.seen = clk.seen
  BY <1>1, Constants DEF clock_handler, Clk
<1>6. clk' = (IF ToDo THEN interrupt(c) ELSE Counted(c))
  BY DEF clock_handler
<1> HIDE DEF c
<1> DEFINE Same(x) == /\ x \in Clk /\ x.next = clk.next /\ x.seen = clk.seen
                      /\ \/ x.at = clk.at /\ x.mess = clk.mess
                         \/ clk.at = "recv" /\ x.at = "ready" /\ x.mess = HARD_INT
                      /\ \/ x.sched = clk.sched
                         \/ clk.sched = 1 /\ x.sched = SCHED_RATE
                         \/ clk.sched # 1 /\ x.sched = clk.sched - 1
<1>7. Same(clk')
  <2>1. CASE ToDo /\ c.at = "recv"
    <3>1. clk' = [c EXCEPT !.at = "ready", !.mess = HARD_INT]
      BY <1>6, <2>1 DEF interrupt
    <3>2. HARD_INT \in Mess
      BY Constants
    <3> QED BY <1>5, <2>1, <3>1, <3>2 DEF Clk, At
  <2>2. CASE ToDo /\ c.at # "recv"
    <3>1. clk' = [c EXCEPT !.int = TRUE]
      BY <1>6, <2>2 DEF interrupt
    <3> QED BY <1>5, <3>1 DEF Clk
  <2>3. CASE ~ ToDo /\ c.sched - 1 = 0
    <3>1. clk' = [c EXCEPT !.sched = SCHED_RATE, !.prev = run.bill]
      BY <1>6, <2>3 DEF Counted, Expired
    <3>2. SCHED_RATE \in Int /\ run.bill \in Users \cup {IDLE} /\ clk.sched \in Int
      BY <1>1, Constants DEF Run, Clk
    <3>3. clk.sched = 1
      BY <1>5, <2>3, <3>2
    <3> QED BY <1>5, <3>1, <3>2, <3>3 DEF Clk
  <2>4. CASE ~ ToDo /\ c.sched - 1 # 0
    <3>1. clk' = [c EXCEPT !.sched = @ - 1]
      BY <1>6, <2>4 DEF Counted
    <3>2. clk.sched \in Int /\ clk.sched # 1
      BY <1>1, <1>5, <2>4 DEF Clk
    <3> QED BY <1>5, <3>1, <3>2 DEF Clk
  <2> QED BY <2>1, <2>2, <2>3, <2>4
<1> HIDE DEF Same
<1>8. TypeOK'
  <2>1. clk' \in Clk
    BY <1>7 DEF Same
  <2>2. pending' \in 0 .. MaxPending
    BY <1>1, <1>3, Constants
  <2>3. left' \in [Users -> 0 .. MaxPending]
    BY <1>1, <1>4, Constants
  <2>4. OnePlace' /\ Families'
    BY <1>2, PlaceSame
  <2> QED BY <1>1, <1>2, <2>1, <2>2, <2>3, <2>4 DEF TypeOK
<1>9. MessInv' /\ ServInv'
  BY <1>2, <1>7, Constants DEF IInv, MessInv, ServInv, Same
<1>10. SchedInv'
  <2>1. clk.sched \in Int
    BY <1>1 DEF Clk
  <2> QED BY <1>7, <2>1, Constants DEF IInv, SchedInv, Same
<1>11. NextInv'
  BY <1>2, <1>7 DEF IInv, NextInv, Same
<1>12. TimeInv'
  <2>1. ASSUME NEW a \in 0 .. MaxPending, NEW l \in 0 .. MaxPending, l = Max({0, a - pending})
        PROVE  (IF l = 0 THEN 0 ELSE l - 1) = Max({0, a - pending'})
    <3>1. pending \in Int /\ pending' \in Int /\ a - pending \in Int /\ a - pending' \in Int
      BY <1>1, <1>3, Constants
    <3>2. l = IF a - pending <= 0 THEN 0 ELSE a - pending
      BY <2>1, <3>1, Max0
    <3>3. Max({0, a - pending'}) = IF a - pending' <= 0 THEN 0 ELSE a - pending'
      BY <3>1, Max0
    <3> QED BY <1>1, <1>3, <3>2, <3>3, Constants
  <2>2. ASSUME NEW u \in DOMAIN alarm, left[u] = Max({0, alarm[u] - pending})
        PROVE  left'[u] = Max({0, alarm'[u] - pending'})
    <3>1. u \in Users /\ alarm[u] \in 0 .. MaxPending /\ left[u] \in 0 .. MaxPending
      BY <1>1
    <3> QED BY <1>2, <1>4, <2>1, <2>2, <3>1
  <2>3. ASSUME clk'.at = "SET_ALARM"
        PROVE  left'[clk'.mess.p] = Max({0, clk'.mess.delta - pending'})
    <3>1. clk.at = "SET_ALARM" /\ clk'.mess = clk.mess
      BY <1>7, <2>3 DEF Same
    <3>2. /\ clk.mess.p \in Users /\ clk.mess.delta \in 0 .. MaxPending
          /\ left[clk.mess.p] \in 0 .. MaxPending
      BY <1>1, <3>1, Constants DEF IInv, MessInv, ServInv, Clk, Mess
    <3>3. left[clk.mess.p] = Max({0, clk.mess.delta - pending})
      BY <3>1 DEF IInv, TimeInv
    <3> QED BY <1>4, <2>1, <3>1, <3>2, <3>3
  <2> QED BY <1>2, <1>7, <2>2, <2>3 DEF IInv, TimeInv, Same
<1> QED BY <1>8, <1>9, <1>10, <1>11, <1>12 DEF IInv

LEMMA TransferHolds == IInv /\ Transfer => IInv'
<1> SUFFICES ASSUME IInv, Transfer PROVE IInv'
  OBVIOUS
<1>1. /\ clk \in Clk /\ pending \in 0 .. MaxPending /\ run \in Run /\ live \subseteq Users
      /\ left \in [Users -> 0 .. MaxPending] /\ DOMAIN alarm \subseteq live
      /\ alarm \in [DOMAIN alarm -> 0 .. MaxPending]
  BY DEF IInv, TypeOK
<1>2. UNCHANGED <<run, live, waiting>> /\ pending' = 0 /\ clk.at = "ready"
  BY DEF Transfer
<1>3. ASSUME NEW a \in 0 .. MaxPending
      PROVE  /\ Max({0, a - pending}) = IF a <= pending THEN 0 ELSE a - pending
             /\ Max({0, a - pending}) \in 0 .. MaxPending
  <2>1. a - pending \in Int /\ pending \in Int /\ MaxPending \in Nat
    BY <1>1, Constants
  <2>2. Max({0, a - pending}) = IF a - pending <= 0 THEN 0 ELSE a - pending
    BY <2>1, Max0
  <2> QED BY <1>1, <2>1, <2>2
<1>4. /\ DOMAIN alarm' = DOMAIN alarm
      /\ \A u \in DOMAIN alarm : /\ alarm'[u] \in 0 .. MaxPending
                                 /\ alarm'[u] = Max({0, alarm[u] - pending})
      /\ alarm' \in [DOMAIN alarm -> 0 .. MaxPending]
  <2>1. alarm' = [u \in DOMAIN alarm |-> Max({0, alarm[u] - pending})]
    BY DEF Transfer, Shifted
  <2>2. ASSUME NEW u \in DOMAIN alarm PROVE Max({0, alarm[u] - pending}) \in 0 .. MaxPending
    <3>1. alarm[u] \in 0 .. MaxPending
      BY <1>1
    <3> QED BY <3>1, <1>3
  <2> QED BY <2>1, <2>2
<1> DEFINE next == IF clk.next = MAX_P_LONG THEN clk.next ELSE Max({0, clk.next - pending})
<1>5. next \in 0 .. MaxPending \cup {MAX_P_LONG}
  BY <1>1, <1>3, Constants DEF Clk
<1>6. clk' = [clk EXCEPT !.next = next, !.at = clk.mess.op]
  BY DEF Transfer, Earlier
<1>7. clk.mess.op \in {"HARD_INT", "SET_ALARM"} /\ (clk.mess = HARD_INT <=> clk.mess.op = "HARD_INT")
  BY <1>2, Constants DEF IInv, MessInv
<1> HIDE DEF next
<1>8. /\ clk' \in Clk /\ clk'.at = clk.mess.op /\ clk'.mess = clk.mess /\ clk'.next = next
      /\ clk'.sched = clk.sched /\ clk'.seen = clk.seen
  BY <1>1, <1>5, <1>6, <1>7 DEF Clk, At
<1>9. clk.mess.op = "SET_ALARM" => clk.mess.p \in Users /\ clk.mess.delta \in 0 .. MaxPending
  BY <1>1, <1>2, Constants DEF IInv, MessInv, ServInv, Clk, Mess
<1>10. left' = IF clk.mess.op = "HARD_INT" THEN left ELSE [left EXCEPT ![clk.mess.p] = clk.mess.delta]
  BY <1>7 DEF Transfer
<1>11. TypeOK'
  <2>1. left' \in [Users -> 0 .. MaxPending]
    BY <1>1, <1>7, <1>9, <1>10
  <2>2. pending' \in 0 .. MaxPending
    BY <1>2, Constants
  <2>3. OnePlace' /\ Families'
    BY <1>2, PlaceSame
  <2> QED BY <1>1, <1>2, <1>4, <1>8, <2>1, <2>2, <2>3 DEF TypeOK
<1>12. MessInv' /\ ServInv'
  BY <1>2, <1>7, <1>8 DEF IInv, MessInv, ServInv
<1>13. SchedInv'
  BY <1>2, <1>7, <1>8 DEF IInv, SchedInv
<1>14. NextInv'
  <2> SUFFICES ASSUME NEW u \in DOMAIN alarm' PROVE next <= alarm'[u]
    BY <1>8 DEF NextInv
  <2>1. clk.next <= alarm[u] /\ alarm[u] \in 0 .. MaxPending
    BY <1>1, <1>2, <1>4 DEF IInv, NextInv
  <2>2. clk.next \in 0 .. MaxPending
    BY <1>1, <2>1, Constants DEF Clk
  <2>3. next = Max({0, clk.next - pending}) /\ alarm'[u] = Max({0, alarm[u] - pending})
    BY <1>4, <2>2, Constants DEF next
  <2>4. next = IF clk.next <= pending THEN 0 ELSE clk.next - pending
    BY <1>3, <2>2, <2>3
  <2>5. alarm'[u] = IF alarm[u] <= pending THEN 0 ELSE alarm[u] - pending
    BY <1>3, <2>1, <2>3
  <2> QED BY <1>1, <2>1, <2>2, <2>4, <2>5
<1>15. TimeInv'
  <2>1. ASSUME NEW u \in DOMAIN alarm', ~ (clk'.at = "SET_ALARM" /\ u = clk'.mess.p)
        PROVE  left'[u] = Max({0, alarm'[u] - pending'})
    <3>1. u \in Users /\ alarm[u] \in 0 .. MaxPending /\ alarm'[u] \in 0 .. MaxPending
      BY <1>1, <1>4
    <3>2. left[u] = Max({0, alarm[u] - pending})
      BY <1>2, <1>4 DEF IInv, TimeInv
    <3>3. left'[u] = left[u]
      BY <1>1, <1>7, <1>8, <1>9, <1>10, <2>1, <3>1
    <3>4. left'[u] = alarm'[u]
      BY <1>4, <3>2, <3>3
    <3>5. Max({0, alarm'[u] - pending'}) = alarm'[u]
      <4>1. alarm'[u] - pending' = alarm'[u] /\ alarm'[u] \in Int
        BY <1>2, <3>1
      <4> QED BY <3>1, <4>1, Max0
    <3> QED BY <3>4, <3>5
  <2>2. ASSUME clk'.at = "SET_ALARM"
        PROVE  left'[clk'.mess.p] = Max({0, clk'.mess.delta - pending'})
    <3>1. /\ left'[clk'.mess.p] = clk.mess.delta /\ clk.mess.delta \in 0 .. MaxPending
          /\ clk'.mess.delta = clk.mess.delta
      BY <1>1, <1>7, <1>8, <1>9, <1>10, <2>2
    <3>2. clk.mess.delta - pending' = clk.mess.delta /\ clk.mess.delta \in Int
      BY <1>2, <3>1
    <3> QED BY <3>1, <3>2, Max0
  <2> QED BY <2>1, <2>2 DEF TimeInv
<1> QED BY <1>11, <1>12, <1>13, <1>14, <1>15 DEF IInv

LEMMA SetAlarmHolds == IInv /\ do_setalarm => IInv'
<1> SUFFICES ASSUME IInv, do_setalarm PROVE IInv'
  OBVIOUS
<1>1. /\ clk \in Clk /\ pending \in 0 .. MaxPending /\ run \in Run /\ live \subseteq Users
      /\ left \in [Users -> 0 .. MaxPending] /\ DOMAIN alarm \subseteq live
      /\ alarm \in [DOMAIN alarm -> 0 .. MaxPending]
  BY DEF IInv, TypeOK
<1>2. UNCHANGED <<pending, left, run, live, waiting>> /\ clk.at = "SET_ALARM"
  BY DEF do_setalarm
<1>3. clk' = [clk EXCEPT !.at = "search", !.next = MAX_P_LONG]
  BY DEF do_setalarm
<1>4. /\ clk' \in Clk /\ clk'.at = "search" /\ clk'.mess = clk.mess
      /\ clk'.sched = clk.sched
  BY <1>1, <1>3 DEF Clk, At
<1> DEFINE p == clk.mess.p
           d == clk.mess.delta
<1>5. /\ p \in live /\ d \in 0 .. MaxPending /\ left[p] = Max({0, d - pending})
  <2>1. run.srv.p = p /\ p \in Users
    BY <1>2 DEF IInv, MessInv, ServInv
  <2>2. p \in live
    BY <2>1, Constants DEF IInv, TypeOK, OnePlace, Serving
  <2> QED BY <1>1, <1>2, <2>2, Constants DEF IInv, TimeInv, Clk, Mess
<1>6. alarm' = IF d = 0 THEN Off(alarm, p) ELSE With(alarm, p, d)
  BY DEF do_setalarm
<1>7. /\ DOMAIN alarm' \subseteq live
      /\ \A u \in DOMAIN alarm' : alarm'[u] \in 0 .. MaxPending
      /\ alarm' \in [DOMAIN alarm' -> 0 .. MaxPending]
      /\ \A u \in DOMAIN alarm' : IF u = p THEN alarm'[u] = d
                                  ELSE u \in DOMAIN alarm /\ alarm'[u] = alarm[u]
  <2>1. CASE d = 0
    <3>1. alarm' = [u \in DOMAIN alarm \ {p} |-> alarm[u]]
      BY <1>6, <2>1 DEF Off, Restrict
    <3> QED BY <1>1, <3>1
  <2>2. CASE d # 0
    <3>1. alarm' = [u \in DOMAIN alarm \cup {p} |-> IF u = p THEN d ELSE alarm[u]]
      BY <1>6, <2>2 DEF With
    <3> QED BY <1>1, <1>5, <3>1
  <2> QED BY <2>1, <2>2
<1>8. TypeOK'
  <2>1. OnePlace' /\ Families'
    BY <1>2, PlaceSame
  <2> QED BY <1>1, <1>2, <1>4, <1>7, <2>1 DEF TypeOK
<1>9. MessInv' /\ ServInv'
  BY <1>2, <1>4 DEF IInv, MessInv, ServInv
<1>10. SchedInv' /\ NextInv'
  BY <1>2, <1>4 DEF IInv, SchedInv, NextInv
<1>11. TimeInv'
  BY <1>2, <1>4, <1>5, <1>7 DEF IInv, TimeInv
<1> QED BY <1>8, <1>9, <1>10, <1>11 DEF IInv

LEMMA NextAlarmHolds == IInv /\ NextAlarm => IInv'
<1> SUFFICES ASSUME IInv, NextAlarm PROVE IInv'
  OBVIOUS
<1>1. /\ clk \in Clk /\ pending \in 0 .. MaxPending /\ run \in Run /\ live \subseteq Users
      /\ left \in [Users -> 0 .. MaxPending] /\ DOMAIN alarm \subseteq live
      /\ alarm \in [DOMAIN alarm -> 0 .. MaxPending]
  BY DEF IInv, TypeOK
<1> DEFINE c == [clk EXCEPT !.next = Earliest(alarm)]
           r == [run EXCEPT !.srv.op = "done", !.srv.delta = 0]
<1>2. UNCHANGED <<pending, alarm, left, live, waiting>> /\ clk.at = "search" /\ Receive(c, r)
  BY DEF NextAlarm
<1>3. /\ Earliest(alarm) \in 0 .. MaxPending \cup {MAX_P_LONG}
      /\ \A u \in DOMAIN alarm : Earliest(alarm) <= alarm[u]
  <2>1. DOMAIN alarm \in SUBSET Users
    BY <1>1
  <2> QED BY <1>1, <2>1, EarliestIs
<1>4. c \in Clk /\ c.next = Earliest(alarm) /\ c.sched = clk.sched
  BY <1>1, <1>3 DEF Clk
<1>5. /\ r \in Run /\ Alike(r, run)
      /\ r.srv.op = "done" /\ r.srv.p = run.srv.p
  BY <1>1 DEF Run, Alike, Mess, Ops
<1>6. run.srv.op = "told" /\ run.srv.p \in Users
  BY <1>2 DEF IInv, MessInv, ServInv
<1> HIDE DEF c, r
<1>7. /\ clk' \in Clk /\ clk'.next = c.next /\ clk'.sched = c.sched
      /\ clk'.at \in {"recv", "ready"} /\ (clk'.at = "ready" => clk'.mess = HARD_INT)
      /\ run' \in Run /\ Alike(run', r) /\ run'.srv = r.srv
  BY <1>2, <1>4, <1>5, ReceiveIs
<1>8. TypeOK'
  <2>1. Alike(run', run) /\ run'.srv.p = run.srv.p
    BY <1>5, <1>7 DEF Alike
  <2>2. OnePlace' /\ Families'
    BY <1>2, <1>7, <2>1, PlaceKept
  <2> QED BY <1>1, <1>2, <1>7, <2>2 DEF TypeOK
<1>9. MessInv' /\ ServInv'
  BY <1>5, <1>6, <1>7, Constants DEF IInv, MessInv, ServInv
<1>10. SchedInv'
  BY <1>2, <1>4, <1>7 DEF IInv, SchedInv
<1>11. NextInv'
  BY <1>2, <1>3, <1>4, <1>7 DEF NextInv
<1>12. TimeInv'
  BY <1>2, <1>7 DEF IInv, TimeInv
<1> QED BY <1>8, <1>9, <1>10, <1>11, <1>12 DEF IInv

(* do_clocktick() up to where the quantum is over *)
LEMMA TickHolds == IInv /\ (Ticked \/ Quantum) => IInv'
<1> SUFFICES ASSUME IInv, Ticked \/ Quantum PROVE IInv'
  OBVIOUS
<1>1. /\ clk \in Clk /\ pending \in 0 .. MaxPending /\ run \in Run /\ live \subseteq Users
      /\ left \in [Users -> 0 .. MaxPending] /\ DOMAIN alarm \subseteq live
      /\ alarm \in [DOMAIN alarm -> 0 .. MaxPending]
  BY DEF IInv, TypeOK
<1>2. UNCHANGED <<pending, alarm, left, run, live, waiting>>
  BY DEF Ticked, Quantum
<1>3. /\ clk' \in Clk /\ clk.at \in {"HARD_INT", "quantum"} /\ clk'.sched = clk.sched
      /\ \/ clk'.at = "alarms"
         \/ clk'.at = "quantum" /\ clk'.next = clk.next
         \/ clk'.at = "count" /\ clk'.next = clk.next /\ clk'.seen = clk.sched
  BY ZenonT(40), <1>1 DEF Ticked, Quantum, Clk, At
<1>4. TypeOK'
  <2>1. OnePlace' /\ Families'
    BY <1>2, PlaceSame
  <2> QED BY <1>1, <1>2, <1>3, <2>1 DEF TypeOK
<1>5. MessInv' /\ ServInv'
  BY <1>2, <1>3 DEF IInv, MessInv, ServInv
<1>6. SchedInv' /\ NextInv'
  BY <1>2, <1>3 DEF IInv, SchedInv, NextInv
<1>7. TimeInv'
  BY <1>2, <1>3 DEF IInv, TimeInv
<1> QED BY <1>4, <1>5, <1>6, <1>7 DEF IInv

LEMMA AlarmsHolds == IInv /\ Alarms => IInv'
<1> SUFFICES ASSUME IInv, Alarms PROVE IInv'
  OBVIOUS
<1>1. /\ clk \in Clk /\ pending \in 0 .. MaxPending /\ run \in Run /\ live \subseteq Users
      /\ left \in [Users -> 0 .. MaxPending] /\ DOMAIN alarm \subseteq live
      /\ alarm \in [DOMAIN alarm -> 0 .. MaxPending]
  BY DEF IInv, TypeOK
<1> DEFINE a == [u \in {v \in DOMAIN alarm : alarm[v] > 0} |-> alarm[u]]
<1>2. /\ UNCHANGED <<pending, left, run, live, waiting>> /\ clk.at = "alarms" /\ alarm' = a
      /\ clk' = [clk EXCEPT !.at = "quantum", !.next = Earliest(a)]
  BY DEF Alarms
<1>3. /\ DOMAIN a \in SUBSET Users /\ DOMAIN a \subseteq DOMAIN alarm
      /\ \A u \in DOMAIN a : a[u] = alarm[u]
      /\ a \in [DOMAIN a -> 0 .. MaxPending]
  BY <1>1
<1> HIDE DEF a
<1>4. Earliest(a) \in 0 .. MaxPending \cup {MAX_P_LONG} /\ \A u \in DOMAIN a : Earliest(a) <= a[u]
  BY <1>3, EarliestIs
<1>5. /\ clk' \in Clk /\ clk'.at = "quantum" /\ clk'.next = Earliest(a)
      /\ clk'.sched = clk.sched
  BY <1>1, <1>2, <1>4 DEF Clk, At
<1>6. TypeOK'
  <2>1. OnePlace' /\ Families'
    BY <1>2, PlaceSame
  <2> QED BY <1>1, <1>2, <1>3, <1>5, <2>1 DEF TypeOK
<1>7. MessInv' /\ ServInv'
  BY <1>2, <1>5 DEF IInv, MessInv, ServInv
<1>8. SchedInv' /\ NextInv'
  BY <1>2, <1>4, <1>5 DEF IInv, SchedInv, NextInv
<1>9. TimeInv'
  BY <1>2, <1>3, <1>5 DEF IInv, TimeInv
<1> QED BY <1>6, <1>7, <1>8, <1>9 DEF IInv

LEMMA CountHolds == IInv /\ Count => IInv'
<1> SUFFICES ASSUME IInv, Count PROVE IInv'
  OBVIOUS
<1>1. /\ clk \in Clk /\ pending \in 0 .. MaxPending /\ run \in Run /\ live \subseteq Users
      /\ left \in [Users -> 0 .. MaxPending] /\ DOMAIN alarm \subseteq live
      /\ alarm \in [DOMAIN alarm -> 0 .. MaxPending]
  BY DEF IInv, TypeOK
<1> DEFINE n == clk.seen - 1
           at == IF n = 0 THEN "switch" ELSE "flip"
<1>2. /\ UNCHANGED <<pending, alarm, left, run, live, waiting>> /\ clk.at = "count"
      /\ clk' = [[clk EXCEPT !.sched = n, !.seen = 0] EXCEPT !.at = at]
  BY DEF Count
<1>3. clk.seen \in 1 .. SCHED_RATE /\ n \in Int /\ 0 \in Int /\ at \in At
  BY <1>2, Constants DEF IInv, SchedInv, At
<1>4. n <= 0 => n = 0
  BY <1>3, Constants
<1>5. /\ n # 0 => n \in 1 .. SCHED_RATE /\ at = "flip"
      /\ n = 0 => at = "switch"
  BY <1>3, Constants
<1> HIDE DEF n, at
<1>6. clk' \in Clk /\ clk'.next = clk.next /\ clk'.sched = n /\ clk'.at = at
  BY <1>1, <1>2, <1>3 DEF Clk
<1>7. TypeOK'
  <2>1. OnePlace' /\ Families'
    BY <1>2, PlaceSame
  <2> QED BY <1>1, <1>2, <1>6, <2>1 DEF TypeOK
<1>8. at \in {"switch", "flip"}
  BY <1>5
<1>9. MessInv' /\ ServInv'
  BY <1>2, <1>6, <1>8 DEF IInv, MessInv, ServInv
<1>10. SchedInv'
  BY <1>3, <1>5, <1>6, <1>8 DEF SchedInv
<1>11. NextInv' /\ TimeInv'
  BY <1>2, <1>6, <1>8 DEF IInv, NextInv, TimeInv
<1> QED BY <1>7, <1>9, <1>10, <1>11 DEF IInv

LEMMA SwitchHolds == IInv /\ Switch => IInv'
<1> SUFFICES ASSUME IInv, Switch PROVE IInv'
  OBVIOUS
<1>1. /\ clk \in Clk /\ pending \in 0 .. MaxPending /\ run \in Run /\ live \subseteq Users
      /\ left \in [Users -> 0 .. MaxPending] /\ DOMAIN alarm \subseteq live
      /\ alarm \in [DOMAIN alarm -> 0 .. MaxPending]
  BY DEF IInv, TypeOK
<1>2. UNCHANGED <<pending, alarm, left, live, waiting>> /\ clk.at = "switch"
  BY DEF Switch
<1>3. /\ clk' \in Clk /\ clk'.at = "reset" /\ clk'.next = clk.next
      /\ clk'.sched = clk.sched
  BY <1>1 DEF Switch, Clk, At
<1>4. run' \in Run /\ run'.srv = run.srv /\ Placed(run', live, waiting, Serving)
  <2>1. run.queue \in Seq(Users) /\ IsInjective(run.queue)
    BY <1>1 DEF IInv, TypeOK, OnePlace, Run
  <2>2. /\ Rotated(run.queue) \in Seq(Users) /\ IsInjective(Rotated(run.queue))
        /\ Range(Rotated(run.queue)) = Range(run.queue)
    BY <2>1, RotatedSame
  <2>3. run' = run \/ run' = [run EXCEPT !.queue = Rotated(run.queue)]
    BY DEF Switch
  <2> DEFINE q == Rotated(run.queue)
  <2> HIDE DEF q
  <2>4. q \in Seq(Users) /\ IsInjective(q) /\ Range(q) = Range(run.queue)
    BY <2>2 DEF q
  <2>5. /\ run' \in Run /\ run'.srv = run.srv /\ run'.queue \in {run.queue, q}
        /\ run'.shadow_q = run.shadow_q /\ run'.shadow = run.shadow
        /\ run'.physio = run.physio /\ run'.family = run.family
    BY <1>1, <2>3, <2>4 DEF Run, q
  <2>6. /\ waiting \cap Serving = {} /\ run.physio \subseteq waiting
        /\ Queued(run.queue, run.shadow_q, run.shadow, live, waiting \cup Serving)
        /\ Kin(run.shadow, run.family, live)
    BY PlacedNow DEF Placed
  <2>7. Queued(q, run.shadow_q, run.shadow, live, waiting \cup Serving)
    BY <2>4, <2>6 DEF Queued
  <2>8. Queued(run'.queue, run.shadow_q, run.shadow, live, waiting \cup Serving)
    BY <2>5, <2>6, <2>7
  <2> QED BY <2>5, <2>6, <2>8 DEF Placed
<1>5. TypeOK'
  <2>1. OnePlace' /\ Families'
    <3>1. Serving' = Serving
      BY <1>4 DEF Serving
    <3>2. Placed(run', live', waiting', Serving')
      BY <1>2, <1>4, <3>1
    <3> QED BY <3>2, PlacedNext
  <2> QED BY <1>1, <1>2, <1>3, <1>4, <2>1 DEF TypeOK
<1>6. MessInv' /\ ServInv'
  BY <1>3, <1>4 DEF IInv, MessInv, ServInv
<1>7. SchedInv' /\ NextInv' /\ TimeInv'
  BY <1>2, <1>3 DEF IInv, SchedInv, NextInv, TimeInv
<1> QED BY <1>5, <1>6, <1>7 DEF IInv

LEMMA ResetHolds == IInv /\ Reset => IInv'
<1> SUFFICES ASSUME IInv, Reset PROVE IInv'
  OBVIOUS
<1>1. /\ clk \in Clk /\ pending \in 0 .. MaxPending /\ run \in Run /\ live \subseteq Users
      /\ left \in [Users -> 0 .. MaxPending] /\ DOMAIN alarm \subseteq live
      /\ alarm \in [DOMAIN alarm -> 0 .. MaxPending]
  BY DEF IInv, TypeOK
<1>2. UNCHANGED <<pending, alarm, left, run, live, waiting>> /\ clk.at = "reset"
  BY DEF Reset
<1>3. /\ clk' \in Clk /\ clk'.next = clk.next /\ clk'.sched = SCHED_RATE
      /\ clk'.at = "flip"
  <2>1. run.bill \in Users \cup {IDLE} /\ SCHED_RATE \in Int
    BY <1>1, Constants DEF Run
  <2>2. clk' = [clk EXCEPT !.sched = SCHED_RATE, !.prev = run.bill, !.at = "flip"]
    BY DEF Reset, Expired
  <2> QED BY <1>1, <2>1, <2>2 DEF Clk, At
<1>4. TypeOK'
  <2>1. OnePlace' /\ Families'
    BY <1>2, PlaceSame
  <2> QED BY <1>1, <1>2, <1>3, <2>1 DEF TypeOK
<1>5. MessInv' /\ ServInv'
  BY <1>2, <1>3 DEF IInv, MessInv, ServInv
<1>6. SchedInv'
  BY <1>3, Constants DEF SchedInv
<1>7. NextInv' /\ TimeInv'
  BY <1>2, <1>3 DEF IInv, NextInv, TimeInv
<1> QED BY <1>4, <1>5, <1>6, <1>7 DEF IInv

(* ... and when CLOCK is done, flipped or not *)
LEMMA FlipHolds == IInv /\ Flip => IInv'
<1> SUFFICES ASSUME IInv, Flip PROVE IInv'
  OBVIOUS
<1>1. /\ clk \in Clk /\ pending \in 0 .. MaxPending /\ run \in Run /\ live \subseteq Users
      /\ left \in [Users -> 0 .. MaxPending] /\ DOMAIN alarm \subseteq live
      /\ alarm \in [DOMAIN alarm -> 0 .. MaxPending]
  BY DEF IInv, TypeOK
<1>2. UNCHANGED <<pending, alarm, left, live, waiting>> /\ clk.at = "flip"
  BY DEF Flip
<1>3. PICK r : Placed(r, live, waiting, Serving) /\ r.srv = run.srv /\ Receive(clk, r)
  <2>1. Placed(run, live, waiting, Serving)
    BY PlacedNow
  <2> DEFINE f == Flipped(run, Head(run.shadow_q), Owner(run, Head(run.shadow_q)))
             g == [run EXCEPT !.flipwait = run.flipwait - 1]
  <2>2. CASE Receive(clk, run)
    BY <2>1, <2>2
  <2>3. CASE run.flipwait # 0 /\ Receive(clk, g)
    <3>1. run.flipwait - 1 \in 0 .. FLIPWAIT
      BY <1>1, <2>3, Constants DEF Run
    <3>2. g \in Run /\ Alike(g, run) /\ g.srv = run.srv
      BY <1>1, <3>1 DEF Run, Alike
    <3> HIDE DEF g
    <3>3. Placed(g, live, waiting, Serving)
      BY <2>1, <3>2, PlacedAlike
    <3> QED BY <2>3, <3>2, <3>3
  <2>4. CASE run.shadow_q # <<>> /\ Receive(clk, f)
    <3>1. Placed(f, live, waiting, Serving) /\ f.srv = run.srv
      BY <2>1, <2>4, FlippedPlaced
    <3> HIDE DEF f
    <3> QED BY <2>4, <3>1
  <2> QED BY <2>2, <2>3, <2>4 DEF Flip, unshadow
<1>4. r \in Run /\ r.srv.op # "asks"
  BY <1>3 DEF Placed, IInv, ServInv
<1>5. /\ clk' \in Clk /\ clk'.next = clk.next /\ clk'.sched = clk.sched
      /\ clk'.at \in {"recv", "ready"} /\ (clk'.at = "ready" => clk'.mess = HARD_INT)
      /\ run' \in Run /\ Alike(run', r) /\ run'.srv = r.srv
  BY <1>1, <1>3, <1>4, ReceiveIs
<1>6. run'.srv = run.srv
  BY <1>3, <1>5
<1>7. TypeOK'
  <2>1. OnePlace' /\ Families'
    <3>1. Placed(run', live, waiting, Serving)
      BY <1>3, <1>5, PlacedAlike
    <3>2. Serving' = Serving
      BY <1>6 DEF Serving
    <3>3. Placed(run', live', waiting', Serving')
      BY <1>2, <3>1, <3>2
    <3> QED BY <3>3, PlacedNext
  <2> QED BY <1>1, <1>2, <1>5, <2>1 DEF TypeOK
<1>8. MessInv' /\ ServInv'
  BY <1>5, <1>6, Constants DEF IInv, MessInv, ServInv
<1>9. SchedInv'
  BY <1>2, <1>5 DEF IInv, SchedInv
<1>10. NextInv' /\ TimeInv'
  BY <1>2, <1>5 DEF IInv, NextInv, TimeInv
<1> QED BY <1>7, <1>8, <1>9, <1>10 DEF IInv

(* MM's request is there at once *)
LEMMA AskHolds == IInv /\ set_alarm => IInv'
<1> SUFFICES ASSUME IInv, set_alarm PROVE IInv'
  OBVIOUS
<1>1. /\ clk \in Clk /\ pending \in 0 .. MaxPending /\ run \in Run /\ live \subseteq Users
      /\ left \in [Users -> 0 .. MaxPending] /\ DOMAIN alarm \subseteq live
      /\ alarm \in [DOMAIN alarm -> 0 .. MaxPending]
  BY DEF IInv, TypeOK
<1>2. /\ UNCHANGED <<pending, alarm, left, live, waiting>> /\ clk.at = "recv"
      /\ run.srv.op = "alarm" /\ Receive(clk, [run EXCEPT !.srv.op = "asks"])
  BY DEF set_alarm
<1> DEFINE r == [run EXCEPT !.srv.op = "asks"]
           m == [r.srv EXCEPT !.op = "SET_ALARM"]
<1>3. /\ r.srv.op = "asks" /\ r.srv.p = run.srv.p /\ m \in Mess
      /\ m.op = "SET_ALARM" /\ m.p = run.srv.p
  BY <1>1 DEF Run, Mess, Ops
<1>4. clk' = [clk EXCEPT !.at = "ready", !.mess = m] /\ run' = [r EXCEPT !.srv.op = "told"]
  BY <1>2, <1>3 DEF Receive
<1>5. /\ clk' \in Clk /\ clk'.at = "ready" /\ clk'.mess = m /\ clk'.next = clk.next
      /\ clk'.sched = clk.sched
  <2> HIDE DEF m
  <2> QED BY <1>1, <1>3, <1>4 DEF Clk, At
<1>6. /\ run' \in Run /\ Alike(run', run)
      /\ run'.srv.op = "told" /\ run'.srv.p = run.srv.p
  BY <1>1, <1>4 DEF Run, Alike, Mess, Ops
<1>7. run.srv.p \in Users
  BY <1>2, Constants DEF IInv, ServInv
<1> HIDE DEF m, r
<1>8. TypeOK'
  <2>1. OnePlace' /\ Families'
    BY <1>2, <1>6, PlaceKept
  <2> QED BY <1>1, <1>2, <1>5, <1>6, <2>1 DEF TypeOK
<1>9. MessInv' /\ ServInv'
  BY <1>3, <1>5, <1>6, <1>7 DEF MessInv, ServInv
<1>10. SchedInv' /\ NextInv'
  BY <1>2, <1>5 DEF IInv, SchedInv, NextInv
<1>11. TimeInv'
  BY <1>2, <1>5 DEF IInv, TimeInv
<1> QED BY <1>8, <1>9, <1>10, <1>11 DEF IInv

(* While CLOCK has nothing to do with it, processes go about *)
LEMMA ServesHolds ==
  ASSUME IInv, clk.at = "recv", UNCHANGED <<clk, pending, alarm, left, live>>,
         Placed(run', live', waiting', Serving'), ServInv'
  PROVE  IInv'
<1>1. /\ clk \in Clk /\ pending \in 0 .. MaxPending /\ run \in Run /\ live \subseteq Users
      /\ left \in [Users -> 0 .. MaxPending] /\ DOMAIN alarm \subseteq live
      /\ alarm \in [DOMAIN alarm -> 0 .. MaxPending]
  BY DEF IInv, TypeOK
<1>2. TypeOK'
  BY <1>1, PlacedNext DEF TypeOK
<1>3. MessInv'
  BY DEF MessInv
<1>4. SchedInv' /\ NextInv' /\ TimeInv'
  BY DEF IInv, SchedInv, NextInv, TimeInv
<1> QED BY <1>2, <1>3, <1>4 DEF IInv

LEMMA QueuedTail ==
  ASSUME NEW q, NEW sq, NEW sh, NEW l, NEW o, Queued(q, sq, sh, l, o), q # <<>>
  PROVE  Tail(q) \in Seq(Users) /\ Queued(Tail(q), sq, sh, l, o \cup {Head(q)})
<1> DEFINE h == Head(q)
           t == Tail(q)
<1>1. /\ t \in Seq(Users) /\ IsInjective(t) /\ h \in Users /\ h \in Range(q)
      /\ Range(t) = Range(q) \ {h}
  BY TailOne DEF Queued
<1> HIDE DEF h, t
<1>2. Queued(t, sq, sh, l, o \cup {h})
  BY <1>1 DEF Queued
<1> QED BY <1>1, <1>2 DEF h, t

LEMMA CallHolds == ASSUME NEW u \in Users PROVE IInv /\ Call(u) => IInv'
<1> SUFFICES ASSUME IInv, NEW op \in {"FS", "life", "alarm"}, NEW d \in Deltas \cup {0},
                    Calls([p |-> u, op |-> op, delta |-> d])
             PROVE  IInv'
  BY DEF Call
<1> DEFINE m == [p |-> u, op |-> op, delta |-> d]
           t == Tail(run.queue)
           r == [run EXCEPT !.queue = t, !.srv = m]
<1>1. run \in Run /\ m \in Mess /\ m.p = u /\ m.op = op
  BY DEF IInv, TypeOK, Mess, Ops
<1>2. /\ clk.at = "recv" /\ run.srv = NoCall /\ run.queue # <<>> /\ u = Head(run.queue)
      /\ run' = Picked(r, clk.at) /\ UNCHANGED <<clk, pending, alarm, left, live, waiting>>
  BY DEF Calls, Serves
<1>3. /\ waiting \cap Serving = {} /\ run.physio \subseteq waiting
      /\ Queued(run.queue, run.shadow_q, run.shadow, live, waiting \cup Serving)
      /\ Kin(run.shadow, run.family, live)
  BY PlacedNow DEF Placed
<1>4. Serving = {}
  BY <1>2, Constants DEF Serving
<1>5. t \in Seq(Users) /\ Queued(t, run.shadow_q, run.shadow, live, (waiting \cup Serving) \cup {u})
  BY <1>2, <1>3, QueuedTail
<1>6. (waiting \cup Serving) \cup {u} = waiting \cup {u} /\ waiting \cap {u} = {}
  <2>1. u \in Range(run.queue)
    BY <1>2, <1>3, TailOne DEF Queued
  <2> QED BY <1>3, <1>4, <2>1 DEF Queued
<1> HIDE DEF m, t
<1>7. /\ r \in Run /\ r.queue = t /\ r.shadow_q = run.shadow_q /\ r.shadow = run.shadow
      /\ r.physio = run.physio /\ r.family = run.family /\ r.srv = m
  BY <1>1, <1>5 DEF Run
<1> HIDE DEF r
<1>8. Placed(r, live, waiting, {u})
  BY <1>3, <1>5, <1>6, <1>7 DEF Placed
<1>9. run' \in Run /\ Alike(run', r) /\ run'.srv = m
  BY <1>2, <1>7, PickedIs
<1>10. Serving' = {u}
  BY <1>1, <1>9, Constants DEF Serving
<1>11. Placed(run', live', waiting', Serving')
  <2>1. Placed(run', live, waiting, {u})
    BY <1>8, <1>9, PlacedAlike
  <2> QED BY <1>2, <1>10, <2>1
<1>12. ServInv'
  BY <1>1, <1>9 DEF ServInv
<1> QED BY <1>2, <1>11, <1>12, ServesHolds

(* Nobody is served any more *)
LEMMA ServedHolds ==
  ASSUME IInv, clk.at = "recv", UNCHANGED <<clk, pending, alarm, left, live>>,
         NEW r, r.srv = NoCall, Placed(r, live, waiting', {}), run' = Picked(r, clk.at)
  PROVE  IInv'
<1>1. r \in Run
  BY DEF Placed
<1>2. run' \in Run /\ Alike(run', r) /\ run'.srv = NoCall
  BY <1>1, PickedIs
<1>3. Serving' = {}
  BY <1>2, Constants DEF Serving
<1>4. Placed(run', live', waiting', Serving')
  <2>1. Placed(run', live, waiting', {})
    BY <1>2, PlacedAlike
  <2> QED BY <1>3, <2>1
<1>5. ServInv'
  BY <1>2, Constants DEF ServInv
<1> QED BY <1>4, <1>5, ServesHolds

LEMMA AnswerHolds == IInv /\ Answer => IInv'
<1> SUFFICES ASSUME IInv, Answer PROVE IInv'
  OBVIOUS
<1> DEFINE p == run.srv.p
           k == Ready(run, p)
           r == [k EXCEPT !.srv = NoCall]
<1>1. /\ clk.at = "recv" /\ UNCHANGED <<clk, pending, alarm, left, live, waiting>>
      /\ run' = Picked(r, clk.at)
  BY DEF Answer, Serves
<1>2. p \in Serving /\ Serving = {p}
  BY Constants DEF Answer, IInv, ServInv, Serving
<1> HIDE DEF p
<1>3. Placed(k, live, waiting, {})
  <2>1. Placed(k, live, waiting, Serving \ {p})
    BY <1>2, PlacedNow, ReadyPlaced
  <2> QED BY <1>2, <2>1
<1>4. k \in Run
  BY <1>3 DEF Placed
<1> HIDE DEF k
<1>5. r \in Run /\ Alike(r, k) /\ r.srv = NoCall
  BY <1>4, Constants DEF Run, Alike
<1> HIDE DEF r
<1>6. Placed(r, live, waiting, {})
  BY <1>3, <1>5, PlacedAlike
<1> QED BY <1>1, <1>5, <1>6, ServedHolds

LEMMA SuspendHolds == IInv /\ Suspend => IInv'
<1> SUFFICES ASSUME IInv, Suspend PROVE IInv'
  OBVIOUS
<1> DEFINE p == run.srv.p
<1>1. PICK d \in SUBSET Working(p) :
        run' = Picked([run EXCEPT !.srv = NoCall, !.physio = @ \cup d], clk.at)
  BY DEF Suspend, Serves
<1>2. /\ clk.at = "recv" /\ UNCHANGED <<clk, pending, alarm, left, live>>
      /\ waiting' = waiting \cup {p}
  BY DEF Suspend, Serves
<1>3. p \in Users /\ Serving = {p} /\ d \subseteq {p}
  BY <1>1, Constants DEF Suspend, IInv, ServInv, Serving, Working
<1>4. /\ run \in Run /\ waiting \cap Serving = {} /\ run.physio \subseteq waiting
      /\ Queued(run.queue, run.shadow_q, run.shadow, live, waiting \cup Serving)
      /\ Kin(run.shadow, run.family, live)
  BY PlacedNow DEF Placed
<1> HIDE DEF p
<1> DEFINE ph == run.physio \cup d
           r == [run EXCEPT !.srv = NoCall, !.physio = ph]
<1>5. ph \in SUBSET Users /\ ph \subseteq waiting'
  BY <1>2, <1>3, <1>4 DEF Run
<1>6. run' = Picked(r, clk.at)
  BY <1>1
<1> HIDE DEF ph
<1>7. /\ r \in Run /\ r.queue = run.queue /\ r.shadow_q = run.shadow_q /\ r.shadow = run.shadow
      /\ r.physio = ph /\ r.family = run.family /\ r.srv = NoCall
  BY <1>4, <1>5, Constants DEF Run
<1> HIDE DEF r
<1>8. waiting \cup Serving = waiting' \cup {} /\ waiting' \cap {} = {}
  BY <1>2, <1>3
<1>9. Queued(run.queue, run.shadow_q, run.shadow, live, waiting' \cup {})
  BY <1>4, <1>8
<1>10. Placed(r, live, waiting', {})
  BY <1>4, <1>5, <1>7, <1>8, <1>9 DEF Placed
<1> QED BY <1>2, <1>6, <1>7, <1>10, ServedHolds

LEMMA ReviveHolds == ASSUME NEW u \in Users PROVE IInv /\ Revive(u) => IInv'
<1> SUFFICES ASSUME IInv, Revive(u) PROVE IInv'
  OBVIOUS
<1>1. /\ clk.at = "recv" /\ run.srv = NoCall /\ u \in waiting /\ waiting' = waiting \ {u}
      /\ run' = Picked([Ready(run, u) EXCEPT !.physio = @ \ {u}], clk.at)
      /\ UNCHANGED <<clk, pending, alarm, left, live>>
  BY DEF Revive, Serves
<1>2. Serving = {}
  BY <1>1, Constants DEF Serving
<1>3. /\ run \in Run /\ waiting \cap Serving = {} /\ run.physio \subseteq waiting
      /\ Queued(run.queue, run.shadow_q, run.shadow, live, waiting \cup Serving)
      /\ Kin(run.shadow, run.family, live)
  BY PlacedNow DEF Placed
<1> DEFINE k == [run EXCEPT !.physio = run.physio \ {u}]
<1>4. /\ k \in Run /\ k.queue = run.queue /\ k.shadow_q = run.shadow_q /\ k.shadow = run.shadow
      /\ k.physio = run.physio \ {u} /\ k.family = run.family /\ k.srv = run.srv
  BY <1>3 DEF Run
<1>5. Ready(k, u) = [Ready(run, u) EXCEPT !.physio = @ \ {u}]
  BY <1>3 DEF Ready, Run
<1> HIDE DEF k
<1>6. /\ waiting \cup Serving = waiting' \cup {u} /\ waiting' \cap {u} = {}
      /\ k.physio \subseteq waiting'
  BY <1>1, <1>2, <1>3, <1>4
<1>7. Queued(run.queue, run.shadow_q, run.shadow, live, waiting' \cup {u})
  BY <1>3, <1>6
<1>8. Placed(k, live, waiting', {u})
  BY <1>3, <1>4, <1>6, <1>7 DEF Placed
<1> DEFINE r == Ready(k, u)
<1>9. Placed(r, live, waiting', {}) /\ r.srv = NoCall
  <2>1. Placed(r, live, waiting', {u} \ {u}) /\ r.srv = k.srv
    BY <1>8, ReadyPlaced
  <2> QED BY <1>1, <1>4, <2>1
<1>10. run' = Picked(r, clk.at)
  BY <1>1, <1>5
<1> HIDE DEF r
<1> QED BY <1>1, <1>9, <1>10, ServedHolds

(* SYSTASK only copies alarms and clears them, while CLOCK does not look *)
LEMMA SysHolds ==
  ASSUME IInv, run.srv.op \in {"life", "fresh"}, clk.at \in {"recv", "ready"},
         UNCHANGED <<clk, pending>>, left' \in [Users -> 0 .. MaxPending],
         DOMAIN alarm' \subseteq live', alarm' \in [DOMAIN alarm' -> 0 .. MaxPending],
         \A u \in DOMAIN alarm' : \E v \in DOMAIN alarm : alarm'[u] = alarm[v] /\ left'[u] = left[v],
         Placed(run', live', waiting', Serving'), ServInv'
  PROVE  IInv'
<1>1. clk \in Clk /\ pending \in 0 .. MaxPending
  BY DEF IInv, TypeOK
<1>2. TypeOK'
  BY <1>1, PlacedNext DEF TypeOK
<1>3. MessInv'
  BY DEF IInv, MessInv
<1>4. SchedInv'
  BY DEF IInv, SchedInv
<1>5. NextInv'
  BY DEF IInv, NextInv
<1>6. TimeInv'
  BY DEF IInv, TimeInv
<1> QED BY <1>2, <1>3, <1>4, <1>5, <1>6 DEF IInv

LEMMA ClearedIs ==
  ASSUME NEW u, alarm \in [DOMAIN alarm -> 0 .. MaxPending], alarm' = Cleared(u)
  PROVE  /\ DOMAIN alarm' = DOMAIN alarm \ {u} /\ alarm' \in [DOMAIN alarm' -> 0 .. MaxPending]
         /\ \A v \in DOMAIN alarm' : v \in DOMAIN alarm /\ alarm'[v] = alarm[v]
<1>1. alarm' = [v \in DOMAIN alarm \ {u} |-> alarm[v]]
  BY DEF Cleared, Off, Restrict
<1> QED BY <1>1

LEMMA FreshHolds == IInv /\ Fresh => IInv'
<1> SUFFICES ASSUME IInv, Fresh PROVE IInv'
  OBVIOUS
<1> DEFINE p == run.srv.p
           k == rmshadow(run, p)
<1>1. /\ left \in [Users -> 0 .. MaxPending]
      /\ DOMAIN alarm \subseteq live /\ alarm \in [DOMAIN alarm -> 0 .. MaxPending]
  BY DEF IInv, TypeOK
<1>2. /\ run.srv.op = "life" /\ clk.at \in {"recv", "ready"}
      /\ UNCHANGED <<clk, pending, alarm, left, live, waiting>>
      /\ run' = [k EXCEPT !.srv.op = "fresh"]
  BY DEF Fresh, SysTask
<1>3. p \in Users /\ p \in Serving
  BY <1>2, Constants DEF IInv, ServInv, Serving
<1>4. Placed(k, live, waiting, Serving) /\ k.srv = run.srv
  BY <1>3, PlacedNow, RmshadowPlaced DEF LeavesFamily
<1>5. k \in Run /\ k.srv.p = p
  BY <1>4 DEF Placed
<1> HIDE DEF k, p
<1>6. run' \in Run /\ Alike(run', k) /\ run'.srv.p = p /\ run'.srv.op = "fresh"
  BY <1>2, <1>5 DEF Run, Alike, Mess, Ops
<1>7. Placed(run', live', waiting', Serving')
  <2>1. Placed(run', live, waiting, Serving)
    BY <1>4, <1>6, PlacedAlike
  <2>2. Serving' = Serving
    BY <1>6 DEF Serving, p
  <2> QED BY <1>2, <2>1, <2>2
<1>8. ServInv'
  BY <1>3, <1>6 DEF ServInv
<1>9. \A u \in DOMAIN alarm' : \E v \in DOMAIN alarm : alarm'[u] = alarm[v] /\ left'[u] = left[v]
  BY <1>2
<1> QED BY <1>1, <1>2, <1>7, <1>8, <1>9, SysHolds

LEMMA ExecHolds == IInv /\ Exec => IInv'
<1> SUFFICES ASSUME IInv, Exec PROVE IInv'
  OBVIOUS
<1> DEFINE p == run.srv.p
<1>1. /\ run \in Run /\ left \in [Users -> 0 .. MaxPending]
      /\ DOMAIN alarm \subseteq live /\ alarm \in [DOMAIN alarm -> 0 .. MaxPending]
  BY DEF IInv, TypeOK
<1>2. /\ run.srv.op = "fresh" /\ clk.at \in {"recv", "ready"}
      /\ UNCHANGED <<clk, pending, live, waiting>> /\ left' = [left EXCEPT ![p] = 0]
      /\ alarm' = Cleared(p) /\ run' = [run EXCEPT !.srv.op = "done"]
  BY DEF Exec, SysTask
<1>3. /\ run' \in Run /\ Alike(run', run) /\ run'.srv.p = p /\ run'.srv.op = "done"
  BY <1>1, <1>2 DEF Run, Alike, Mess, Ops
<1>4. /\ DOMAIN alarm' = DOMAIN alarm \ {p} /\ alarm' \in [DOMAIN alarm' -> 0 .. MaxPending]
      /\ \A v \in DOMAIN alarm' : alarm'[v] = alarm[v]
  BY <1>1, <1>2, ClearedIs
<1>5. Placed(run', live', waiting', Serving')
  <2>1. Placed(run', live, waiting, Serving)
    BY <1>3, PlacedNow, PlacedAlike
  <2>2. Serving' = Serving
    BY <1>3 DEF Serving
  <2> QED BY <1>2, <2>1, <2>2
<1>6. ServInv'
  BY <1>2, <1>3, Constants DEF IInv, ServInv
<1> HIDE DEF p
<1>7. left' \in [Users -> 0 .. MaxPending] /\ \A u \in Users : u # p => left'[u] = left[u]
  <2>1. left' = [left EXCEPT ![p] = 0] /\ 0 \in 0 .. MaxPending
    BY <1>2, Constants
  <2> QED BY <1>1, <2>1
<1>8. \A u \in DOMAIN alarm' : u \in Users
  <2>1. live \subseteq Users
    BY DEF IInv, TypeOK
  <2> QED BY <1>1, <1>4, <2>1
<1>9. \A u \in DOMAIN alarm' : \E v \in DOMAIN alarm : alarm'[u] = alarm[v] /\ left'[u] = left[v]
  BY <1>4, <1>7, <1>8
<1>10. DOMAIN alarm' \subseteq live'
  BY <1>1, <1>2, <1>4
<1> QED BY <1>2, <1>4, <1>5, <1>6, <1>7, <1>9, <1>10, SysHolds

LEMMA ForkHolds == ASSUME NEW c \in Users PROVE IInv /\ Fork(c) => IInv'
<1> SUFFICES ASSUME IInv, Fork(c) PROVE IInv'
  OBVIOUS
<1> DEFINE p == run.srv.p
           m == mkshadow(run, p, c)
           k == Ready(m, c)
<1>1. /\ live \subseteq Users /\ left \in [Users -> 0 .. MaxPending]
      /\ DOMAIN alarm \subseteq live /\ alarm \in [DOMAIN alarm -> 0 .. MaxPending]
  BY DEF IInv, TypeOK
<1>2. /\ run.srv.op = "life" /\ clk.at \in {"recv", "ready"} /\ c \notin live
      /\ UNCHANGED <<clk, pending, waiting>> /\ live' = live \cup {c}
      /\ alarm' = Copied(alarm, p, c) /\ left' = [left EXCEPT ![c] = left[p]]
      /\ run' = [k EXCEPT !.srv.op = "done"]
  BY DEF Fork, SysTask
<1>3. p \in Users /\ Serving = {p} /\ p \in live /\ p # c
  <2>1. p \in Users /\ Serving = {p}
    BY <1>2, Constants DEF IInv, ServInv, Serving
  <2>2. p \in live
    BY <2>1 DEF IInv, TypeOK, OnePlace
  <2> QED BY <1>2, <2>1, <2>2
<1>4. Placed(m, live \cup {c}, waiting, Serving \cup {c}) /\ m.srv = run.srv
  <2> HIDE DEF p
  <2>1. p \in Serving /\ c \in Users \ live
    BY <1>2, <1>3
  <2>2. Placed(run, live, waiting, Serving)
    BY PlacedNow
  <2> QED BY <2>1, <2>2, MkshadowPlaced
<1>5. Placed(k, live', waiting', Serving) /\ k.srv = run.srv
  <2> DEFINE s == Serving \cup {c}
  <2>1. c \in s /\ s \ {c} = Serving
    BY <1>3
  <2> HIDE DEF s, m
  <2>2. Placed(m, live \cup {c}, waiting, s) /\ m.srv = run.srv
    BY <1>4 DEF s
  <2>3. Placed(k, live \cup {c}, waiting, s \ {c}) /\ k.srv = m.srv
    BY <2>1, <2>2, ReadyPlaced
  <2> QED BY <1>2, <2>1, <2>2, <2>3
<1>6. k \in Run /\ k.srv.p = p
  BY <1>5 DEF Placed
<1> HIDE DEF k, m
<1>7. run' \in Run /\ Alike(run', k) /\ run'.srv.p = p /\ run'.srv.op = "done"
  <2> HIDE DEF p
  <2> QED BY <1>2, <1>6 DEF Run, Alike, Mess, Ops
<1>8. Placed(run', live', waiting', Serving')
  <2>1. Serving' = Serving
    BY <1>7 DEF Serving
  <2> QED BY <1>5, <1>7, <2>1, PlacedAlike
<1> HIDE DEF p
<1>9. /\ DOMAIN alarm' \subseteq live' /\ alarm' \in [DOMAIN alarm' -> 0 .. MaxPending]
      /\ \A u \in DOMAIN alarm' : IF u = c THEN p \in DOMAIN alarm /\ alarm'[u] = alarm[p]
                                  ELSE u \in DOMAIN alarm /\ alarm'[u] = alarm[u]
  <2>1. CASE p \in DOMAIN alarm
    <3>1. alarm' = [u \in DOMAIN alarm \cup {c} |-> IF u = c THEN alarm[p] ELSE alarm[u]]
      BY <1>2, <2>1 DEF Copied, With
    <3> QED BY <1>1, <1>2, <2>1, <3>1
  <2>2. CASE p \notin DOMAIN alarm
    <3>1. alarm' = [u \in DOMAIN alarm \ {c} |-> alarm[u]]
      BY <1>2, <2>2 DEF Copied, Off, Restrict
    <3> QED BY <1>1, <1>2, <3>1
  <2> QED BY <2>1, <2>2
<1>10. left' \in [Users -> 0 .. MaxPending]
  BY <1>1, <1>2, <1>3
<1>11. \A u \in DOMAIN alarm' : \E v \in DOMAIN alarm : alarm'[u] = alarm[v] /\ left'[u] = left[v]
  BY <1>1, <1>2, <1>3, <1>9
<1>12. ServInv'
  BY <1>3, <1>7, Constants DEF ServInv
<1> QED BY <1>2, <1>8, <1>9, <1>10, <1>11, <1>12, SysHolds

LEMMA XitHolds == ASSUME NEW u \in Users PROVE IInv /\ Xit(u) => IInv'
<1> SUFFICES ASSUME IInv, Xit(u) PROVE IInv'
  OBVIOUS
<1> DEFINE p == run.srv.p
           v == IF u = p THEN NoCall ELSE [run.srv EXCEPT !.op = "done"]
           a == Unready(run, u)
           b == rmshadow(a, u)
           c == [b EXCEPT !.physio = b.physio \ {u}]
           r == [b EXCEPT !.physio = b.physio \ {u}, !.srv = v]
           s == Serving \cup ({u} \ waiting)
<1>1. /\ run \in Run /\ live \subseteq Users /\ left \in [Users -> 0 .. MaxPending]
      /\ DOMAIN alarm \subseteq live /\ alarm \in [DOMAIN alarm -> 0 .. MaxPending]
  BY DEF IInv, TypeOK
<1>2. /\ run.srv.op = "life" /\ clk.at \in {"recv", "ready"} /\ u \in live
      /\ UNCHANGED <<clk, pending>> /\ live' = live \ {u} /\ waiting' = waiting \ {u}
      /\ alarm' = Cleared(u) /\ left' = [left EXCEPT ![u] = 0]
  BY DEF Xit, SysTask
<1>3. p \in Users /\ Serving = {p}
  BY <1>2, Constants DEF IInv, ServInv, Serving
<1>4. v \in Mess /\ IF u = p THEN v = NoCall ELSE v.p = p /\ v.op = "done"
  BY <1>1, Constants DEF Run, Mess, Ops
<1>5. Placed(a, live, waiting, s) /\ a.srv = run.srv
  BY <1>2, PlacedNow, UnreadyPlaced
<1>6. u \in waiting \cup s /\ s \ {u} = Serving \ {u}
  OBVIOUS
<1> HIDE DEF a, s
<1>7. /\ Placed(b, live, waiting, s) /\ b.srv = a.srv /\ u \notin b.shadow /\ b.family[u] = {u}
  <2>1. LeavesFamily(b, a, live, waiting, s, u)
    BY <1>5, <1>6, RmshadowPlaced
  <2> QED BY <2>1 DEF LeavesFamily
<1>8. b \in Run
  BY <1>7 DEF Placed
<1>9. run' = Picked(r, clk.at)
  <2>1. run' = Picked([b EXCEPT !.physio = @ \ {u},
                                !.srv = IF u = p THEN NoCall ELSE [@ EXCEPT !.op = "done"]],
                      clk.at)
    BY DEF Xit, SysTask, a
  <2>2. b.srv = run.srv
    BY <1>5, <1>7
  <2> HIDE DEF b
  <2> QED BY <1>8, <2>1, <2>2 DEF Run
<1> HIDE DEF b, v
<1>10. Placed(c, live', waiting', Serving \ {u})
  <2>1. Placed([b EXCEPT !.physio = @ \ {u}], live \ {u}, waiting \ {u}, s \ {u})
    BY <1>6, <1>7, GonePlaced
  <2>2. c = [b EXCEPT !.physio = @ \ {u}]
    BY <1>8 DEF Run
  <2> HIDE DEF c
  <2> QED BY <1>2, <1>6, <2>1, <2>2
<1>11. c \in Run
  BY <1>10 DEF Placed
<1>12. r \in Run /\ Alike(r, c) /\ r.srv = v
  BY <1>4, <1>8 DEF Run, Alike
<1> HIDE DEF c, r
<1>13. run' \in Run /\ Alike(run', c) /\ run'.srv = v
  <2>1. run' \in Run /\ Alike(run', r) /\ run'.srv = r.srv
    BY <1>9, <1>12, PickedIs
  <2> QED BY <1>12, <2>1 DEF Alike
<1>14. Serving' = Serving \ {u}
  BY <1>3, <1>4, <1>13, Constants DEF Serving
<1>15. Placed(run', live', waiting', Serving')
  BY <1>10, <1>13, <1>14, PlacedAlike
<1>16. /\ DOMAIN alarm' = DOMAIN alarm \ {u} /\ alarm' \in [DOMAIN alarm' -> 0 .. MaxPending]
       /\ \A w \in DOMAIN alarm' : w \in DOMAIN alarm /\ alarm'[w] = alarm[w]
  BY <1>1, <1>2, ClearedIs
<1>17. left' \in [Users -> 0 .. MaxPending] /\ \A w \in Users : w # u => left'[w] = left[w]
  BY <1>1, <1>2, Constants
<1>18. \A w \in DOMAIN alarm' : \E x \in DOMAIN alarm : alarm'[w] = alarm[x] /\ left'[w] = left[x]
  BY <1>1, <1>16, <1>17
<1>19. DOMAIN alarm' \subseteq live'
  BY <1>1, <1>2, <1>16
<1>20. ServInv'
  BY <1>3, <1>4, <1>13, Constants DEF ServInv
<1> QED BY <1>2, <1>15, <1>16, <1>17, <1>18, <1>19, <1>20, SysHolds

-----------------------------------------------------------------------------
(* What follows *)

LEMMA NextHolds == IInv /\ [Next]_vars => IInv'
<1> SUFFICES ASSUME IInv, [Next]_vars PROVE IInv'
  OBVIOUS
<1>1. CASE clock_handler
  BY <1>1, HandlerHolds
<1>2. CASE Task
  BY <1>2, TransferHolds, SetAlarmHolds, NextAlarmHolds, TickHolds, AlarmsHolds, CountHolds,
     SwitchHolds, ResetHolds, FlipHolds DEF Task
<1>3. CASE Servers
  BY <1>3, AskHolds, FreshHolds, ExecHolds, AnswerHolds, SuspendHolds, ForkHolds, XitHolds
     DEF Servers
<1>4. CASE \E u \in Users : Call(u) \/ Revive(u)
  BY <1>4, CallHolds, ReviveHolds
<1>5. CASE UNCHANGED vars
  <2>1. OnePlace' /\ Families'
    BY <1>5, PlaceSame DEF vars
  <2>2. TypeOK'
    BY <1>5, <2>1 DEF vars, IInv, TypeOK
  <2>3. MessInv' /\ ServInv' /\ SchedInv' /\ NextInv' /\ TimeInv'
    BY <1>5 DEF vars, IInv, MessInv, ServInv, SchedInv, NextInv, TimeInv
  <2> QED BY <2>2, <2>3 DEF IInv
<1> QED BY <1>1, <1>2, <1>3, <1>4, <1>5 DEF Next

LEMMA Invariant == Spec => []IInv
BY InitHolds, NextHolds, PTL DEF Spec

(* No alarm is forgotten by the handler's test and no tick is lost or     *)
(* counted twice, for any number of processes, quantum and times, however *)
(* often the handler interrupts the task (clock.c: clock_task,            *)
(* do_setalarm, do_clocktick, clock_handler)                              *)
THEOREM AlarmsRight == Spec => []AlarmsKept
<1>1. IInv => AlarmsKept
  BY DEF IInv, NextInv, NextCovers, TimeInv, TimeKept, AlarmsKept
<1> QED BY <1>1, Invariant, PTL

(* sched_ticks is "restored to reasonable values" (clock.c:405) whenever   *)
(* the task is done, though it shares the variable without a lock          *)
THEOREM QuantumSane == Spec => []SchedSane
<1>1. IInv => SchedSane
  BY DEF IInv, SchedInv, SchedSane
<1> QED BY <1>1, Invariant, PTL
=============================================================================
