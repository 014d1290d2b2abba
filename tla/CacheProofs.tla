------------------------------ MODULE CacheProofs ------------------------------
(* Theorems about the block cache and its users, module FsCache *)
EXTENDS FsCache, SequenceTheorems, FunctionTheorems, FiniteSetTheorems, WellFoundedInduction,
        TLAPS

-----------------------------------------------------------------------------
(* The inductive invariant, of a cache x whose buffers are used as often   *)
(* as u says                                                               *)

InUse(u)       == {b \in Bufs : u[b] # 0}
Plus(u, bs)    == [b \in Bufs |-> u[b] + IF b \in bs THEN 1 ELSE 0]
Minus(u, b)    == [u EXCEPT ![b] = @ - 1]

Books(x, u) ==
  /\ x \in Caches /\ u \in [Bufs -> Nat]
  /\ x.lru \in Bijection(1 .. NR_BUFS, Bufs)
  /\ \A b \in Bufs : x.buf[b].count = u[b]
  /\ x.in_use = Cardinality(InUse(u))

(* A buffer that has a device has a block of it, and no other has *)
Valid(x, b)  == x.buf[b].dev # NO_DEV
Single(x) ==
  /\ \A b \in Bufs : Valid(x, b) => Sector(x, b) \in Sectors
  /\ \A b1, b2 \in Bufs : Sector(x, b1) = Sector(x, b2) /\ Valid(x, b1) => b1 = b2

Clean(x, b) == Valid(x, b) /\ ~ x.buf[b].dirt => x.buf[b].data = x.disk[Sector(x, b)]

(* w: buffers that have just been taken and are about to be filled *)
Good(x, u, w) == Books(x, u) /\ Single(x) /\ \A b \in Bufs \ w : Clean(x, b)

(* What no routine changes of buffers that it does not take *)
Kept(x, y, w) ==
  /\ y.super = x.super
  /\ \A b \in Bufs \ w : /\ y.buf[b].block = x.buf[b].block
                         /\ y.buf[b].dev \in {x.buf[b].dev, NO_DEV}

-----------------------------------------------------------------------------
(* Numbers and finite sets *)

LEMMA Numbers ==
  /\ IsFiniteSet(Bufs) /\ NR_BUFS \in Nat /\ NIL \notin Bufs
  /\ NR_DEVS \in Nat /\ NR_DEVS > 0 /\ NR_SUPERS \in Nat /\ NR_SUPERS > 0
  /\ NR_BLOCKS \in Nat /\ NR_BLOCKS >= 2 /\ MARGIN \in Nat /\ MaxHeld \in Nat
  /\ MaxHeld > 0 /\ MaxHeld <= MARGIN + 1 /\ NR_BUFS > MaxHeld
<1>1. IsFiniteSet(Bufs) /\ NIL \notin Bufs
  BY CacheAssumption
<1>2. Cardinality(Bufs) \in Nat
  BY <1>1, FS_CardinalityType
<1> QED BY <1>1, <1>2, CacheAssumption, RoomAssumption DEF NR_BUFS, MAP_BLOCK

(* The numbers below the least are the fewest. *)
LEMMA Bottom ==
  ASSUME NEW S \in SUBSET Int, S # {}, IsFiniteSet(S)
  PROVE  \E m \in S : \A n \in S : m <= n
<1> DEFINE Below(n) == {k \in S : k < n}
           T == {Below(n) : n \in S}
<1>1. T # {} /\ T \subseteq FiniteSubsetsOf(S)
  <2>1. ASSUME NEW n \in S PROVE Below(n) \in FiniteSubsetsOf(S)
    <3>1. Below(n) \in SUBSET S
      OBVIOUS
    <3>2. IsFiniteSet(Below(n))
      BY <3>1, FS_Subset
    <3> QED BY <3>1, <3>2 DEF FiniteSubsetsOf
  <2> QED BY <2>1
<1>2. PICK x \in T : \A y \in T : <<y, x>> \notin StrictSubsetOrdering(S)
  <2>1. IsWellFoundedOn(StrictSubsetOrdering(S), FiniteSubsetsOf(S))
    BY FS_StrictSubsetOrderingWellFounded
  <2> QED BY <1>1, <2>1, WFMin
<1>3. PICK m \in S : x = Below(m)
  OBVIOUS
<1>4. ASSUME NEW n \in S, n < m PROVE FALSE
  <2>1. Below(n) \in T /\ Below(n) \subseteq Below(m)
    <3>1. \A k \in S : k < n => k < m
      BY <1>4
    <3> QED BY <3>1
  <2>2. n \in Below(m) /\ n \notin Below(n)
    BY <1>4
  <2>3. <<Below(n), Below(m)>> \in StrictSubsetOrdering(S)
    BY <2>1, <2>2 DEF StrictSubsetOrdering
  <2> QED BY <1>2, <1>3, <2>1, <2>3
<1> QED BY <1>4

LEMMA LeastNat ==
  ASSUME NEW S \in SUBSET Nat, S # {}
  PROVE  \E m \in S : \A n \in S : m <= n
<1>1. PICK k \in S : TRUE
  OBVIOUS
<1> DEFINE T == {i \in S : i <= k}
<1>2. T \in SUBSET Int /\ T # {} /\ IsFiniteSet(T)
  <2>1. T \in SUBSET Nat /\ k \in Nat /\ \A i \in T : i <= k
    BY <1>1
  <2>2. IsFiniteSet(T)
    BY <2>1, FS_BoundedSetOfNaturals
  <2> QED BY <1>1, <2>1, <2>2
<1>3. PICK m \in T : \A n \in T : m <= n
  BY <1>2, Bottom
<1> QED BY <1>1, <1>3

(* What a recursive function f[k \in 0 .. n] is: it exists, ... *)
IsRec(q, n, a, F) == q = [k \in 0 .. n |-> IF k = 0 THEN a ELSE F[k][q[k - 1]]]

LEMMA Recursion ==
  ASSUME NEW n \in Nat, NEW a, NEW F
  PROVE  \E q : IsRec(q, n, a, F)
<1> USE DEF IsRec
<1> DEFINE Def(m) == \E q : q = [k \in 0 .. m |-> IF k = 0 THEN a ELSE F[k][q[k - 1]]]
           B == {m \in Nat : ~ Def(m)}
<1>1. B = {}
  <2> SUFFICES ASSUME B # {} PROVE FALSE
    OBVIOUS
  <2>1. PICK m \in B : \A k \in B : m <= k
    BY LeastNat
  <2>2. CASE m = 0
    <3> DEFINE q == [k \in 0 .. 0 |-> a]
    <3>1. q = [k \in 0 .. 0 |-> IF k = 0 THEN a ELSE F[k][q[k - 1]]]
      OBVIOUS
    <3>2. Def(0)
      BY <3>1
    <3> QED BY <2>2, <3>2
  <2>3. CASE m # 0
    <3>1. m - 1 \in Nat /\ m - 1 \notin B
      BY <2>1, <2>3
    <3>2. PICK p : p = [k \in 0 .. m - 1 |-> IF k = 0 THEN a ELSE F[k][p[k - 1]]]
      BY <3>1
    <3> DEFINE q == [k \in 0 .. m |-> IF k = m THEN F[m][p[m - 1]] ELSE p[k]]
    <3>3. \A k \in 0 .. m - 1 : q[k] = p[k]
      BY <2>1
    <3>4. ASSUME NEW k \in 0 .. m
          PROVE  q[k] = IF k = 0 THEN a ELSE F[k][q[k - 1]]
      <4>1. CASE k = m
        <5>1. q[k] = F[m][p[m - 1]] /\ q[m - 1] = p[m - 1]
          BY <2>1, <2>3, <3>1, <3>3, <4>1
        <5> QED BY <2>3, <4>1, <5>1
      <4>2. CASE k # m
        <5>1. k \in 0 .. m - 1
          BY <2>1, <4>2
        <5>2. q[k] = IF k = 0 THEN a ELSE F[k][p[k - 1]]
          BY <3>2, <3>3, <5>1
        <5>3. k # 0 => k - 1 \in 0 .. m - 1
          BY <5>1, <2>1
        <5> HIDE DEF q
        <5> QED BY <3>3, <5>2, <5>3
      <4> QED BY <4>1, <4>2
    <3>5. q = [k \in 0 .. m |-> q[k]]
      OBVIOUS
    <3> HIDE DEF q
    <3>6. q = [k \in 0 .. m |-> IF k = 0 THEN a ELSE F[k][q[k - 1]]]
      BY <3>4, <3>5
    <3>7. Def(m)
      BY <3>6
    <3> QED BY <2>1, <3>7
  <2> QED BY <2>2, <2>3
<1> QED BY <1>1

(* ... and all of its values have a property that each step keeps *)
LEMMA Steps ==
  ASSUME NEW n \in Nat, NEW P, NEW q, q[0] \in P[0],
         \A k \in 1 .. n : q[k - 1] \in P[k - 1] => q[k] \in P[k]
  PROVE  \A k \in 0 .. n : q[k] \in P[k]
<1> DEFINE B == {k \in 0 .. n : q[k] \notin P[k]}
<1> SUFFICES ASSUME B # {} PROVE FALSE
  OBVIOUS
<1>1. PICK m \in B : \A k \in B : m <= k
  <2>1. B \subseteq Nat
    OBVIOUS
  <2> HIDE DEF B
  <2> QED BY <2>1, LeastNat
<1>2. m \in 1 .. n
  BY <1>1
<1>3. m - 1 \in 0 .. n /\ m - 1 \notin B
  BY <1>1, <1>2
<1> QED BY <1>1, <1>2, <1>3

-----------------------------------------------------------------------------
(* Caches *)

Buffers == [dev : Devs \cup {NO_DEV}, block : Blocks \cup {NO_BLOCK},
            dirt : BOOLEAN, count : Int, data : Data \cup {JUNK}]

LEMMA Fields ==
  ASSUME NEW x \in Caches
  PROVE  /\ x.buf \in [Bufs -> Buffers] /\ x.lru \in [1 .. NR_BUFS -> Bufs]
         /\ x.in_use \in Nat /\ x.disk \in [Sectors -> Data \cup {JUNK}]
         /\ x.super \in [Supers -> [dev : Devs \cup {NO_DEV}, map : Bufs \cup {NIL}]]
         /\ x.got \in Bufs \cup {NIL} /\ x.panic \in BOOLEAN
BY DEF Caches, Buffers

LEMMA BufFields ==
  ASSUME NEW x \in Caches, NEW b \in Bufs
  PROVE  /\ x.buf[b] \in Buffers
         /\ x.buf[b].dev \in Devs \cup {NO_DEV} /\ x.buf[b].block \in Blocks \cup {NO_BLOCK}
         /\ x.buf[b].dirt \in BOOLEAN /\ x.buf[b].count \in Int
         /\ x.buf[b].data \in Data \cup {JUNK}
BY Fields DEF Buffers

LEMMA DevsAre == NO_DEV \notin Devs /\ ROOT_DEV \in Devs /\ Devs \subseteq Nat /\ NO_DEV = 0
                 /\ SUPER_BLOCK \in Blocks /\ MAP_BLOCK \in Blocks /\ NO_BLOCK \notin Blocks
BY Numbers DEF Devs, NO_DEV, ROOT_DEV, Blocks, SUPER_BLOCK, MAP_BLOCK, NO_BLOCK

LEMMA ChainIs ==
  ASSUME NEW lru \in Bijection(1 .. NR_BUFS, Bufs)
  PROVE  /\ lru \in [1 .. NR_BUFS -> Bufs] /\ \A i, j \in 1 .. NR_BUFS : lru[i] = lru[j] => i = j
         /\ \A a \in Bufs : \E i \in 1 .. NR_BUFS : lru[i] = a
BY DEF Bijection, Injection, Surjection, IsInjective

LEMMA UsesFinite ==
  ASSUME NEW u
  PROVE  IsFiniteSet(InUse(u)) /\ Cardinality(InUse(u)) \in Nat
<1>1. InUse(u) \in SUBSET Bufs
  BY DEF InUse
<1> QED BY <1>1, Numbers, FS_Subset, FS_CardinalityType

-----------------------------------------------------------------------------
(* Buffers bs are written *)
LEMMA WrittenDoes ==
  ASSUME NEW x, NEW u, NEW w, Good(x, u, w), NEW bs \in SUBSET Bufs,
         \A b \in bs : Valid(x, b), NEW bad, NEW y, y = Written(x, bs, bad)
  PROVE  /\ Good(y, u, w) /\ Kept(x, y, {}) /\ y.got = x.got /\ y.panic = x.panic
         /\ y.lru = x.lru /\ y.in_use = x.in_use
         /\ \A b \in bs : Clean(y, b) /\ ~ y.buf[b].dirt
         /\ \A b \in Bufs \ bs : y.buf[b] = x.buf[b]
         /\ \A b \in Bufs : y.buf[b].data = x.buf[b].data
<1>1. x \in Caches /\ Single(x)
  BY DEF Good, Books
<1> DEFINE disk == [s \in Sectors |->
                      IF s \in bad \/ \A b \in bs : Sector(x, b) # s THEN x.disk[s]
                      ELSE x.buf[CHOOSE b \in bs : Sector(x, b) = s].data]
           buf  == [b \in Bufs |->
                      IF b \notin bs THEN x.buf[b]
                      ELSE [x.buf[b] EXCEPT !.dirt = FALSE,
                              !.dev = IF Sector(x, b) \in bad THEN NO_DEV ELSE @]]
<1>2. disk \in [Sectors -> Data \cup {JUNK}]
  <2> SUFFICES ASSUME NEW s \in Sectors PROVE disk[s] \in Data \cup {JUNK}
    OBVIOUS
  <2>1. x.disk[s] \in Data \cup {JUNK}
    BY <1>1, Fields
  <2>2. ASSUME \E b \in bs : Sector(x, b) = s
        PROVE  x.buf[CHOOSE b \in bs : Sector(x, b) = s].data \in Data \cup {JUNK}
    <3>1. (CHOOSE b \in bs : Sector(x, b) = s) \in Bufs
      BY <2>2
    <3> QED BY <1>1, <3>1, BufFields
  <2> QED BY <2>1, <2>2
<1>3. buf \in [Bufs -> Buffers]
  <2> SUFFICES ASSUME NEW b \in Bufs PROVE buf[b] \in Buffers
    OBVIOUS
  <2>1. x.buf[b] \in Buffers
    BY <1>1, BufFields
  <2> QED BY <2>1 DEF Buffers
<1>4. y = [x EXCEPT !.buf = buf, !.lru = x.lru, !.in_use = x.in_use, !.disk = disk, !.got = x.got]
  BY <1>1 DEF Written, Caches
<1>5. \A b \in Bufs : /\ buf[b].block = x.buf[b].block /\ buf[b].count = x.buf[b].count
                      /\ buf[b].data = x.buf[b].data
                      /\ b \notin bs => buf[b] = x.buf[b]
                      /\ b \in bs => ~ buf[b].dirt /\
                           buf[b].dev = IF Sector(x, b) \in bad THEN NO_DEV ELSE x.buf[b].dev
  <2> SUFFICES ASSUME NEW b \in Bufs
               PROVE  /\ buf[b].block = x.buf[b].block /\ buf[b].count = x.buf[b].count
                      /\ buf[b].data = x.buf[b].data
                      /\ b \notin bs => buf[b] = x.buf[b]
                      /\ b \in bs => ~ buf[b].dirt /\
                           buf[b].dev = IF Sector(x, b) \in bad THEN NO_DEV ELSE x.buf[b].dev
    OBVIOUS
  <2>1. x.buf[b] \in Buffers
    BY <1>1, BufFields
  <2> QED BY <2>1 DEF Buffers
<1>6. /\ \A b \in bs : Sector(x, b) \in Sectors \ bad => disk[Sector(x, b)] = x.buf[b].data
      /\ \A s \in Sectors : (\A b \in bs : Sector(x, b) # s) => disk[s] = x.disk[s]
  <2>1. ASSUME NEW b \in bs, Sector(x, b) \in Sectors \ bad PROVE disk[Sector(x, b)] = x.buf[b].data
    <3> DEFINE s == Sector(x, b)
               a == CHOOSE a \in bs : Sector(x, a) = s
    <3>1. a \in bs /\ Sector(x, a) = s
      OBVIOUS
    <3>2. a = b
      BY <1>1, <3>1 DEF Single
    <3> QED BY <2>1, <3>2
  <2> QED BY <2>1
<1> HIDE DEF buf, disk
<1>7. /\ y \in Caches /\ y.buf = buf /\ y.lru = x.lru /\ y.in_use = x.in_use /\ y.disk = disk
      /\ y.got = x.got /\ y.super = x.super /\ y.panic = x.panic
  <2>1. x.lru \in [1 .. NR_BUFS -> Bufs] /\ x.in_use \in Nat /\ x.got \in Bufs \cup {NIL}
    BY <1>1, Fields
  <2> QED BY <1>1, <1>2, <1>3, <1>4, <2>1 DEF Caches, Buffers
<1>8. Books(y, u)
  BY <1>5, <1>7 DEF Good, Books
<1>9. Kept(x, y, {})
  BY <1>5, <1>7 DEF Kept
<1>10. \A b \in Bufs : Valid(y, b) => Valid(x, b) /\ Sector(y, b) = Sector(x, b)
  BY <1>9 DEF Kept, Valid, Sector
<1>11. Single(y)
  BY <1>1, <1>10 DEF Single, Valid, Sector
<1>12. \A b \in bs : Clean(y, b) /\ ~ y.buf[b].dirt
  <2> SUFFICES ASSUME NEW b \in bs PROVE Clean(y, b) /\ ~ y.buf[b].dirt
    OBVIOUS
  <2>1. Sector(x, b) \in Sectors
    BY <1>1 DEF Single
  <2>2. Valid(y, b) => Sector(x, b) \notin bad /\ Sector(y, b) = Sector(x, b)
    BY <1>5, <1>7, <1>10 DEF Valid
  <2> QED BY <1>5, <1>6, <1>7, <2>1, <2>2 DEF Clean
<1>13. \A b \in Bufs \ bs : y.buf[b] = x.buf[b]
  BY <1>5, <1>7
<1>14. ASSUME NEW b \in Bufs \ bs, Clean(x, b) PROVE Clean(y, b)
  <2>1. Valid(x, b) => \A a \in bs : Sector(x, a) # Sector(x, b)
    BY <1>1 DEF Single
  <2>2. Valid(x, b) => Sector(x, b) \in Sectors
    BY <1>1 DEF Single
  <2> QED BY <1>6, <1>7, <1>10, <1>13, <1>14, <2>1, <2>2 DEF Clean, Valid
<1>15. Good(y, u, w)
  BY <1>8, <1>11, <1>12, <1>14 DEF Good
<1> QED BY <1>5, <1>7, <1>9, <1>12, <1>13, <1>15

LEMMA KeptTrans ==
  ASSUME NEW x, NEW y, NEW z, NEW v, NEW w, Kept(x, y, v), Kept(y, z, w)
  PROVE  Kept(x, z, v \cup w)
BY DEF Kept

LEMMA KeptRefl == ASSUME NEW x, NEW w PROVE Kept(x, x, w)
BY DEF Kept

LEMMA Flushes ==
  ASSUME NEW x, NEW u, NEW w, Good(x, u, w), NEW dev \in Devs, NEW bad,
         NEW y, y = flushall(x, dev, bad)
  PROVE  /\ Good(y, u, w) /\ Kept(x, y, {}) /\ y.got = x.got /\ y.panic = x.panic
         /\ y.lru = x.lru /\ y.in_use = x.in_use
         /\ \A b \in Bufs : /\ y.buf[b].dirt => x.buf[b].dirt /\ x.buf[b].dev # dev
                            /\ x.buf[b].dirt /\ x.buf[b].dev = dev => Clean(y, b)
                            /\ ~ x.buf[b].dirt => y.buf[b] = x.buf[b]
<1> DEFINE bs == Dirty(x, dev)
<1>1. bs \in SUBSET Bufs /\ \A b \in bs : Valid(x, b)
  BY DevsAre DEF Dirty, Valid
<1>2. \A b \in Bufs : b \in bs <=> x.buf[b].dirt /\ x.buf[b].dev = dev
  BY DEF Dirty
<1>3. y = Written(x, bs, bad)
  BY DEF flushall
<1> HIDE DEF bs
<1>4. /\ Good(y, u, w) /\ Kept(x, y, {}) /\ y.got = x.got /\ y.panic = x.panic
      /\ y.lru = x.lru /\ y.in_use = x.in_use
      /\ \A b \in bs : Clean(y, b) /\ ~ y.buf[b].dirt
      /\ \A b \in Bufs \ bs : y.buf[b] = x.buf[b]
  BY <1>1, <1>3, WrittenDoes
<1> QED BY <1>2, <1>4

LEMMA Evicts ==
  ASSUME NEW x, NEW u, NEW w, Good(x, u, w), NEW b \in Bufs, b \notin w, NEW bad,
         NEW y, y = Evict(x, b, bad)
  PROVE  /\ Good(y, u, w) /\ Kept(x, y, {}) /\ y.got = x.got /\ y.panic = x.panic
         /\ y.lru = x.lru /\ y.in_use = x.in_use
         /\ Valid(y, b) => ~ y.buf[b].dirt
<1>1. x \in Caches
  BY DEF Good, Books
<1>2. CASE x.buf[b].dirt /\ x.buf[b].dev # NO_DEV
  <2>1. x.buf[b].dev \in Devs /\ y = flushall(x, x.buf[b].dev, bad)
    BY <1>1, <1>2, BufFields DEF Evict
  <2> QED BY <1>2, <2>1, Flushes
<1>3. CASE ~ (x.buf[b].dirt /\ x.buf[b].dev # NO_DEV)
  <2>1. y = x
    BY <1>3 DEF Evict
  <2> QED BY <1>3, <2>1, KeptRefl DEF Valid
<1> QED BY <1>2, <1>3

LEMMA OldestFree ==
  ASSUME NEW x, NEW u, Books(x, u), FreeBufs(x) # {}
  PROVE  Oldest(x) \in FreeBufs(x) /\ Oldest(x) \in Bufs /\ u[Oldest(x)] = 0
<1> DEFINE K == {k \in 1 .. NR_BUFS : x.lru[k] \in FreeBufs(x)}
<1>1. x.lru \in [1 .. NR_BUFS -> Bufs] /\ \A b \in Bufs : \E k \in 1 .. NR_BUFS : x.lru[k] = b
  <2>1. x.lru \in Bijection(1 .. NR_BUFS, Bufs)
    BY DEF Books
  <2> QED BY <2>1, ChainIs
<1>2. K # {} /\ K \in SUBSET Nat
  <2>1. PICK b \in Bufs : b \in FreeBufs(x)
    BY DEF FreeBufs
  <2>2. PICK k \in 1 .. NR_BUFS : x.lru[k] = b
    BY <1>1, <2>1
  <2> QED BY <2>1, <2>2
<1>3. PICK m \in K : \A k \in K : m <= k
  BY <1>2, LeastNat
<1> DEFINE First(k) == /\ x.lru[k] \in FreeBufs(x)
                       /\ \A j \in 1 .. k - 1 : x.lru[j] \notin FreeBufs(x)
<1>4. First(m) /\ m \in 1 .. NR_BUFS
  <2>1. \A j \in 1 .. m - 1 : j \in 1 .. NR_BUFS /\ ~ (m <= j)
    BY <1>3, Numbers
  <2>2. \A j \in 1 .. m - 1 : x.lru[j] \notin FreeBufs(x)
    BY <1>3, <2>1
  <2> QED BY <1>3, <2>2
<1> DEFINE k == CHOOSE k \in 1 .. NR_BUFS : First(k)
<1>5. First(k)
  BY <1>4
<1>6. Oldest(x) = x.lru[k]
  BY DEF Oldest
<1> HIDE DEF k
<1>7. Oldest(x) \in FreeBufs(x)
  BY <1>5, <1>6
<1> QED BY <1>7 DEF FreeBufs, Books

(* A buffer is found *)
LEMMA Finds ==
  ASSUME NEW x, NEW u, NEW w, Good(x, u, w), NEW b \in Bufs, NEW y, y = Use(x, b)
  PROVE  /\ Good(y, Plus(u, {b}), w) /\ Kept(x, y, {}) /\ y.panic = x.panic /\ y.got = b
         /\ y.disk = x.disk /\ y.lru = x.lru
         /\ \A a \in Bufs : y.buf[a] = [x.buf[a] EXCEPT !.count = y.buf[a].count]
<1> DEFINE buf == [x.buf EXCEPT ![b].count = @ + 1]
           n   == x.in_use + IF x.buf[b].count = 0 THEN 1 ELSE 0
<1>1. /\ x \in Caches /\ u \in [Bufs -> Nat] /\ \A a \in Bufs : x.buf[a].count = u[a]
      /\ x.in_use = Cardinality(InUse(u)) /\ x.in_use \in Nat
  BY Fields DEF Good, Books
<1>2. buf \in [Bufs -> Buffers]
  <2>1. x.buf \in [Bufs -> Buffers] /\ x.buf[b].count \in Int
    BY <1>1, Fields
  <2> QED BY <2>1 DEF Buffers
<1>3. n \in Nat
  BY <1>1
<1>4. y = [x EXCEPT !.buf = buf, !.lru = x.lru, !.in_use = n, !.disk = x.disk, !.got = b]
  BY <1>1 DEF Use, Caches
<1>5. \A a \in Bufs : /\ buf[a].count = Plus(u, {b})[a]
                      /\ buf[a] = [x.buf[a] EXCEPT !.count = buf[a].count]
  <2> SUFFICES ASSUME NEW a \in Bufs
               PROVE  /\ buf[a].count = Plus(u, {b})[a]
                      /\ buf[a] = [x.buf[a] EXCEPT !.count = buf[a].count]
    OBVIOUS
  <2>1. x.buf \in [Bufs -> Buffers] /\ x.buf[a] \in Buffers
    BY <1>1, BufFields, Fields
  <2>2. x.buf[a].count = u[a] /\ u[a] \in Nat
    BY <1>1
  <2> QED BY <2>1, <2>2 DEF Buffers, Plus
<1>6. n = Cardinality(InUse(Plus(u, {b})))
  <2>1. CASE u[b] = 0
    <3>1. InUse(Plus(u, {b})) = InUse(u) \cup {b} /\ b \notin InUse(u)
      BY <1>1, <2>1 DEF InUse, Plus
    <3>2. IsFiniteSet(InUse(u))
      BY <1>1, UsesFinite
    <3>3. Cardinality(InUse(Plus(u, {b}))) = Cardinality(InUse(u)) + 1
      BY <3>1, <3>2, FS_AddElement
    <3> QED BY <1>1, <2>1, <3>3
  <2>2. CASE u[b] # 0
    <3>1. InUse(Plus(u, {b})) = InUse(u)
      BY <1>1, <2>2 DEF InUse, Plus
    <3> QED BY <1>1, <2>2, <3>1
  <2> QED BY <2>1, <2>2
<1> HIDE DEF buf, n
<1>7. /\ y \in Caches /\ y.buf = buf /\ y.lru = x.lru /\ y.in_use = n /\ y.disk = x.disk
      /\ y.got = b /\ y.super = x.super /\ y.panic = x.panic
  <2>1. x.lru \in [1 .. NR_BUFS -> Bufs] /\ x.disk \in [Sectors -> Data \cup {JUNK}]
    BY <1>1, Fields
  <2> QED BY <1>1, <1>2, <1>3, <1>4, <2>1 DEF Caches, Buffers
<1>8. \A a \in Bufs : /\ y.buf[a].dev = x.buf[a].dev /\ y.buf[a].block = x.buf[a].block
                      /\ y.buf[a].dirt = x.buf[a].dirt /\ y.buf[a].data = x.buf[a].data
  <2> SUFFICES ASSUME NEW a \in Bufs
               PROVE  /\ y.buf[a].dev = x.buf[a].dev /\ y.buf[a].block = x.buf[a].block
                      /\ y.buf[a].dirt = x.buf[a].dirt /\ y.buf[a].data = x.buf[a].data
    OBVIOUS
  <2>1. x.buf[a] \in Buffers /\ y.buf[a] = [x.buf[a] EXCEPT !.count = y.buf[a].count]
    BY <1>1, <1>5, <1>7, BufFields
  <2> QED BY <2>1 DEF Buffers
<1>9. Plus(u, {b}) \in [Bufs -> Nat]
  BY <1>1 DEF Plus
<1>10. Books(y, Plus(u, {b}))
  BY <1>5, <1>6, <1>7, <1>9 DEF Good, Books
<1>11. Single(y)
  BY <1>8 DEF Good, Single, Valid, Sector
<1>12. \A a \in Bufs \ w : Clean(y, a)
  BY <1>7, <1>8 DEF Good, Clean, Valid, Sector
<1> QED BY <1>5, <1>7, <1>8, <1>10, <1>11, <1>12 DEF Good, Kept

(* Buffer b is filled with v *)
With(x, b, v) == [x EXCEPT !.buf[b] = v]
Filled(x, y, b, v) ==
  /\ y.panic = x.panic /\ y.got = x.got /\ y.disk = x.disk /\ y.lru = x.lru /\ y.in_use = x.in_use
  /\ y.buf[b] = v /\ \A a \in Bufs \ {b} : y.buf[a] = x.buf[a]
Fits(x, b, v) ==
  v.dev # NO_DEV => /\ v.dev \in Devs /\ v.block \in Blocks
                    /\ \A a \in Bufs \ {b} : Sector(x, a) # <<v.dev, v.block>>

LEMMA Refills ==
  ASSUME NEW x, NEW u, NEW w, Good(x, u, w), NEW b \in Bufs, NEW v \in Buffers,
         v.count = x.buf[b].count, Fits(x, b, v), NEW t, w \subseteq t, b \in t,
         NEW y, y = With(x, b, v)
  PROVE  Good(y, u, t) /\ Kept(x, y, {b}) /\ Filled(x, y, b, v)
<1> DEFINE buf == [x.buf EXCEPT ![b] = v]
<1>1. x \in Caches
  BY DEF Good, Books
<1>2. buf \in [Bufs -> Buffers] /\ buf[b] = v /\ \A a \in Bufs \ {b} : buf[a] = x.buf[a]
  <2>1. x.buf \in [Bufs -> Buffers]
    BY <1>1, Fields
  <2> QED BY <2>1
<1>3. y = [x EXCEPT !.buf = buf, !.lru = x.lru, !.in_use = x.in_use, !.disk = x.disk, !.got = x.got]
  BY <1>1 DEF Caches, With
<1> HIDE DEF buf
<1>4. /\ y \in Caches /\ y.buf = buf /\ y.lru = x.lru /\ y.in_use = x.in_use /\ y.disk = x.disk
      /\ y.got = x.got /\ y.super = x.super /\ y.panic = x.panic
  <2>1. /\ x.lru \in [1 .. NR_BUFS -> Bufs] /\ x.disk \in [Sectors -> Data \cup {JUNK}]
        /\ x.in_use \in Nat /\ x.got \in Bufs \cup {NIL}
    BY <1>1, Fields
  <2> QED BY <1>1, <1>2, <1>3, <2>1 DEF Caches, Buffers
<1>5. Books(y, u)
  BY <1>2, <1>4 DEF Good, Books
<1>6. \A a \in Bufs \ {b} : Valid(y, a) = Valid(x, a) /\ Sector(y, a) = Sector(x, a)
                            /\ (Clean(x, a) => Clean(y, a))
  BY <1>2, <1>4 DEF Valid, Sector, Clean
<1>7. Valid(y, b) => /\ Sector(y, b) \in Sectors
                     /\ \A a \in Bufs \ {b} : Sector(y, a) # Sector(y, b)
  <2>1. Sector(y, b) = <<v.dev, v.block>> /\ (Valid(y, b) <=> v.dev # NO_DEV)
    BY <1>2, <1>4 DEF Valid, Sector
  <2> QED BY <1>6, <2>1 DEF Fits, Sectors
<1>8. Single(y)
  <2>1. ASSUME NEW a \in Bufs, Valid(y, a) PROVE Sector(y, a) \in Sectors
    BY <1>6, <1>7, <2>1 DEF Good, Single
  <2>2. ASSUME NEW b1 \in Bufs, NEW b2 \in Bufs, Sector(y, b1) = Sector(y, b2), Valid(y, b1)
        PROVE  b1 = b2
    <3>1. Valid(y, b2)
      BY <2>2 DEF Valid, Sector
    <3>2. CASE b1 = b \/ b2 = b
      BY <1>7, <2>2, <3>1, <3>2
    <3>3. CASE b1 # b /\ b2 # b
      BY <1>6, <2>2, <3>3 DEF Good, Single
    <3> QED BY <3>2, <3>3
  <2> QED BY <2>1, <2>2 DEF Single
<1>9. Good(y, u, t)
  BY <1>5, <1>6, <1>8 DEF Good
<1>10. Kept(x, y, {b})
  BY <1>2, <1>4 DEF Kept
<1> QED BY <1>2, <1>4, <1>9, <1>10 DEF Filled

Searches == {"NORMAL", "NO_READ", "PREFETCH"}
Fresh(mode, b) == IF mode = "NO_READ" THEN {b} ELSE {}

LEMMA Room ==
  ASSUME NEW x, NEW u, Books(x, u), Cardinality(InUse(u)) < NR_BUFS
  PROVE  x.in_use # NR_BUFS /\ FreeBufs(x) # {}
<1>1. InUse(u) # Bufs /\ InUse(u) \subseteq Bufs
  BY UsesFinite, Numbers DEF NR_BUFS, InUse
<1>2. PICK b \in Bufs : u[b] = 0
  BY <1>1 DEF InUse
<1> QED BY <1>2, UsesFinite, Numbers DEF Books, FreeBufs

(* y: the cache x after a buffer was got for a block of a device *)
Got(x, y, u, dev, block, mode) ==
  /\ y.got \in Bufs /\ y.panic = x.panic
  /\ Good(y, Plus(u, {y.got}), Fresh(mode, y.got))
  /\ Kept(x, y, {y.got})
  /\ y.buf[y.got].block = block
  /\ y.buf[y.got].dev \in {NO_DEV, dev}
  /\ u[y.got] # 0 => /\ y.buf[y.got].dev = x.buf[y.got].dev /\ Valid(y, y.got)
                     /\ x.buf[y.got].block = block
  /\ mode = "PREFETCH" /\ ~ Valid(y, y.got) => Found(x, dev, block) = {} /\ u[y.got] = 0

(* A buffer is taken *)
LEMMA Takes ==
  ASSUME NEW x, NEW u, Good(x, u, {}), Cardinality(InUse(u)) < NR_BUFS,
         NEW dev \in Devs \cup {NO_DEV}, NEW block \in Blocks \cup {NO_BLOCK},
         dev # NO_DEV => block \in Blocks,
         NEW mode \in Searches, NEW bad, Found(x, dev, block) = {},
         NEW y, y = get_block(x, dev, block, mode, bad)
  PROVE  Got(x, y, u, dev, block, mode)
<1> DEFINE b     == Oldest(x)
           f     == Evict(x, b, bad)
           reads == dev # NO_DEV /\ mode = "NORMAL"
           fails == reads /\ <<dev, block>> \in bad
           v     == [f.buf[b] EXCEPT
                      !.dev   = IF mode = "PREFETCH" \/ fails THEN NO_DEV ELSE dev,
                      !.block = block,
                      !.dirt  = @ /\ ~ reads,
                      !.data  = IF reads /\ ~ fails THEN f.disk[<<dev, block>>] ELSE JUNK]
           g     == [f EXCEPT !.buf[b] = v]
<1>1. x.in_use # NR_BUFS /\ FreeBufs(x) # {} /\ Books(x, u)
  BY Room DEF Good
<1>2. b \in Bufs /\ u[b] = 0
  BY <1>1, OldestFree
<1>3. /\ Good(f, u, {}) /\ Kept(x, f, {}) /\ f.panic = x.panic
      /\ Valid(f, b) => ~ f.buf[b].dirt
  <2> HIDE DEF b
  <2> QED BY <1>2, Evicts
<1>4. f \in Caches /\ f.buf \in [Bufs -> Buffers] /\ f.buf[b] \in Buffers
      /\ f.disk \in [Sectors -> Data \cup {JUNK}]
  <2>1. f \in Caches
    BY <1>3 DEF Good, Books
  <2> HIDE DEF f, b
  <2> QED BY <1>2, <2>1, Fields, BufFields
<1>5. y = Use([f EXCEPT !.buf[b] = v], b)
  <2>1. [f EXCEPT !.buf[b] =
                  [f.buf[b] EXCEPT
                     !.dev   = IF mode = "PREFETCH" \/ fails THEN NO_DEV ELSE dev,
                     !.block = block,
                     !.dirt  = @ /\ ~ reads,
                     !.data  = IF reads /\ ~ fails THEN f.disk[<<dev, block>>] ELSE JUNK]] = g
    BY <1>2, <1>4 DEF Caches
  <2> QED BY <1>1, <2>1 DEF get_block
<1>6. /\ v \in Buffers /\ v.count = f.buf[b].count /\ v.block = block
      /\ v.dev = IF mode = "PREFETCH" \/ fails THEN NO_DEV ELSE dev
      /\ v.dirt = (f.buf[b].dirt /\ ~ reads)
      /\ v.data = IF reads /\ ~ fails THEN f.disk[<<dev, block>>] ELSE JUNK
  <2>1. reads => f.disk[<<dev, block>>] \in Data \cup {JUNK}
    BY <1>4 DEF Sectors
  <2> HIDE DEF f, b
  <2> QED BY <1>4, <2>1 DEF Buffers
<1>7. Fits(f, b, v)
  <2> SUFFICES ASSUME v.dev # NO_DEV, NEW a \in Bufs, Sector(f, a) = <<v.dev, v.block>>
               PROVE  FALSE
    BY <1>6 DEF Fits
  <2>1. v.dev = dev /\ v.block = block
    BY <1>6
  <2>2. f.buf[a].dev = dev /\ f.buf[a].block = block
    BY <2>1 DEF Sector
  <2>3. x.buf[a].dev = dev /\ x.buf[a].block = block
    BY <1>3, <2>1, <2>2 DEF Kept
  <2>4. a \in Found(x, dev, block)
    BY <2>1, <2>3 DEF Found, Sector
  <2> QED BY <2>4
<1> HIDE DEF v, b, f
<1>8. /\ Good(g, u, {b}) /\ Kept(f, g, {b}) /\ g.panic = f.panic /\ g.disk = f.disk /\ g.buf[b] = v
  <2> DEFINE t == {b}
  <2>1. {} \subseteq t /\ b \in t
    OBVIOUS
  <2> HIDE DEF g, t
  <2>2. g = With(f, b, v)
    BY DEF g, With
  <2>3. Good(g, u, t) /\ Kept(f, g, {b}) /\ Filled(f, g, b, v)
    BY <1>2, <1>3, <1>6, <1>7, <2>1, <2>2, Refills
  <2> QED BY <2>3 DEF t, Filled
<1>9. mode # "NO_READ" => Clean(g, b)
  <2>1. ASSUME mode # "NO_READ", Valid(g, b) PROVE g.buf[b].data = g.disk[Sector(g, b)]
    <3>1. reads /\ ~ fails /\ v.dev = dev
      BY <1>6, <1>8, <2>1 DEF Valid, Searches
    <3>2. Sector(g, b) = <<dev, block>>
      BY <1>6, <1>8, <3>1 DEF Sector
    <3> QED BY <1>6, <1>8, <3>1, <3>2
  <2> QED BY <2>1 DEF Clean
<1>10. Good(g, u, Fresh(mode, b))
  BY <1>8, <1>9 DEF Good, Fresh
<1>11. y = Use(g, b)
  BY <1>5
<1> HIDE DEF g
<1>12. /\ Good(y, Plus(u, {b}), Fresh(mode, b)) /\ Kept(g, y, {})
       /\ y.panic = g.panic /\ y.got = b
       /\ y.buf[b] = [g.buf[b] EXCEPT !.count = y.buf[b].count]
  BY <1>2, <1>10, <1>11, Finds
<1>13. y.buf[b].block = block /\ y.buf[b].dev = v.dev
  BY <1>6, <1>8, <1>12 DEF Buffers
<1>14. Kept(x, y, {b})
  <2>1. Kept(x, g, {b})
    <3>1. {} \cup {b} = {b}
      OBVIOUS
    <3> QED BY <1>3, <1>8, <3>1, KeptTrans
  <2>2. {b} \cup {} = {b}
    OBVIOUS
  <2> QED BY <1>12, <2>1, <2>2, KeptTrans
<1> QED BY <1>2, <1>3, <1>6, <1>8, <1>12, <1>13, <1>14 DEF Got

(* A buffer is got *)
LEMMA Gets ==
  ASSUME NEW x, NEW u, Good(x, u, {}), Cardinality(InUse(u)) < NR_BUFS,
         NEW dev \in Devs \cup {NO_DEV}, NEW block \in Blocks \cup {NO_BLOCK},
         dev # NO_DEV => block \in Blocks,
         NEW mode \in Searches, NEW bad,
         NEW y, y = get_block(x, dev, block, mode, bad)
  PROVE  Got(x, y, u, dev, block, mode)
<1>1. CASE Found(x, dev, block) = {}
  BY <1>1, Takes
<1>2. CASE Found(x, dev, block) # {}
  <2> DEFINE b == CHOOSE b \in Found(x, dev, block) : TRUE
  <2>1. b \in Bufs /\ Sector(x, b) = <<dev, block>> /\ dev # NO_DEV
    BY <1>2 DEF Found
  <2>2. y = Use(x, b)
    BY <1>2 DEF get_block
  <2> HIDE DEF b
  <2>3. x.buf[b].dev = dev /\ x.buf[b].block = block /\ x.buf[b] \in Buffers
    <3>1. x \in Caches
      BY DEF Good, Books
    <3> QED BY <2>1, <3>1, BufFields DEF Sector
  <2>4. /\ Good(y, Plus(u, {b}), {}) /\ Kept(x, y, {}) /\ y.panic = x.panic /\ y.got = b
        /\ y.buf[b] = [x.buf[b] EXCEPT !.count = y.buf[b].count]
    BY <2>1, <2>2, Finds
  <2>5. y.buf[b].dev = dev /\ y.buf[b].block = block
    BY <2>3, <2>4 DEF Buffers
  <2>6. Good(y, Plus(u, {b}), {b}) /\ Kept(x, y, {b})
    BY <2>4 DEF Good, Kept
  <2>7. y.got \in Bufs /\ Good(y, Plus(u, {y.got}), Fresh(mode, y.got)) /\ Kept(x, y, {y.got})
    BY <2>1, <2>4, <2>6 DEF Fresh
  <2>8. Valid(y, y.got)
    BY <2>1, <2>4, <2>5 DEF Valid
  <2> QED BY <2>3, <2>4, <2>5, <2>7, <2>8 DEF Got
<1> QED BY <1>1, <1>2

-----------------------------------------------------------------------------
LEMMA RemoveAtProperties ==
  ASSUME NEW S, NEW s \in Seq(S), NEW k \in 1 .. Len(s)
  PROVE  /\ RemoveAt(s, k) \in Seq(S) /\ Len(RemoveAt(s, k)) = Len(s) - 1
         /\ \A i \in 1 .. Len(s) - 1 : RemoveAt(s, k)[i] = IF i < k THEN s[i] ELSE s[i + 1]
<1> DEFINE n == Len(s)
           f == SubSeq(s, 1, k - 1)
           t == SubSeq(s, k + 1, n)
<1>1. n \in Nat /\ k \in 1 .. n /\ \A i \in 1 .. n : s[i] \in S
  BY LenProperties, ElementOfSeq
<1>2. /\ f \in Seq(S) /\ Len(f) = k - 1 /\ \A i \in 1 .. k - 1 : f[i] = s[i]
  BY <1>1, SubSeqProperties
<1>3. /\ t \in Seq(S) /\ Len(t) = n - k /\ \A i \in 1 .. n - k : t[i] = s[k + i]
  BY <1>1, SubSeqProperties
<1>4. RemoveAt(s, k) = f \o t
  BY DEF RemoveAt
<1> HIDE DEF f, t
<1>5. /\ f \o t \in Seq(S) /\ Len(f \o t) = Len(f) + Len(t)
      /\ \A i \in 1 .. Len(f) + Len(t) : (f \o t)[i] = IF i <= Len(f) THEN f[i] ELSE t[i - Len(f)]
  BY <1>2, <1>3, ConcatProperties
<1> HIDE DEF n
<1>6. ASSUME NEW i \in 1 .. n - 1
      PROVE  (f \o t)[i] = IF i < k THEN s[i] ELSE s[i + 1]
  <2>1. CASE i < k
    BY <1>1, <1>2, <1>3, <1>5, <2>1
  <2>2. CASE ~ (i < k)
    <3>1. i - (k - 1) \in 1 .. n - k /\ k + (i - (k - 1)) = i + 1
      BY <1>1, <2>2
    <3>2. t[i - (k - 1)] = s[i + 1]
      BY <1>3, <3>1
    <3>3. i \in 1 .. Len(f) + Len(t) /\ Len(f) = k - 1 /\ ~ (i <= k - 1)
      BY <1>1, <1>2, <1>3, <2>2
    <3>4. (f \o t)[i] = t[i - (k - 1)]
      BY <1>5, <3>3
    <3> QED BY <2>2, <3>2, <3>4
  <2> QED BY <2>1, <2>2
<1>7. /\ f \o t \in Seq(S) /\ Len(f \o t) = n - 1
      /\ \A i \in 1 .. n - 1 : (f \o t)[i] = IF i < k THEN s[i] ELSE s[i + 1]
  <2>1. Len(f) + Len(t) = n - 1
    BY <1>1, <1>2, <1>3
  <2> QED BY <1>5, <1>6, <2>1
<1> QED BY <1>4, <1>7 DEF n

(* The chain of buffers stays one *)
LEMMA ChainKept ==
  ASSUME NEW lru \in Bijection(1 .. NR_BUFS, Bufs), NEW b \in Bufs, NEW type
  PROVE  Chained(lru, b, type) \in Bijection(1 .. NR_BUFS, Bufs)
<1> DEFINE k    == CHOOSE k \in 1 .. NR_BUFS : lru[k] = b
           rest == RemoveAt(lru, k)
<1>1. /\ lru \in [1 .. NR_BUFS -> Bufs]
      /\ \A i, j \in 1 .. NR_BUFS : lru[i] = lru[j] => i = j
      /\ \A a \in Bufs : \E i \in 1 .. NR_BUFS : lru[i] = a
  BY ChainIs
<1>2. NR_BUFS \in Nat /\ NR_BUFS > 0
  BY Numbers
<1>3. k \in 1 .. NR_BUFS /\ lru[k] = b
  BY <1>1
<1>4. Chained(lru, b, type) = IF "ONE_SHOT" \in type THEN <<b>> \o rest ELSE Append(rest, b)
  BY DEF Chained
<1> HIDE DEF k
<1>5. lru \in Seq(Bufs) /\ Len(lru) = NR_BUFS
  BY <1>1, <1>2, SeqDef, LenProperties
<1>6. /\ rest \in Seq(Bufs) /\ Len(rest) = NR_BUFS - 1
      /\ \A i \in 1 .. NR_BUFS - 1 : rest[i] = IF i < k THEN lru[i] ELSE lru[i + 1]
  BY <1>3, <1>5, RemoveAtProperties
<1> HIDE DEF rest
<1>7. CASE "ONE_SHOT" \in type
  <2> DEFINE q == [i \in 1 .. NR_BUFS |->
                 IF i = 1 THEN b ELSE IF i - 1 < k THEN lru[i - 1] ELSE lru[i]]
  <2>1. <<b>> \in Seq(Bufs) /\ Len(<<b>>) = 1 /\ <<b>>[1] = b
    OBVIOUS
  <2>2. /\ <<b>> \o rest \in Seq(Bufs) /\ Len(<<b>> \o rest) = NR_BUFS
        /\ \A i \in 1 .. NR_BUFS : (<<b>> \o rest)[i] = IF i <= 1 THEN <<b>>[i] ELSE rest[i - 1]
    BY <1>2, <1>6, <2>1, ConcatProperties
  <2>3. <<b>> \o rest = q
    <3>1. \A i \in 1 .. NR_BUFS : (<<b>> \o rest)[i] = q[i]
      BY <1>2, <1>6, <2>1, <2>2
    <3>2. q \in Seq(Bufs) /\ Len(q) = NR_BUFS
      <4>1. q \in [1 .. NR_BUFS -> Bufs]
        BY <1>1, <1>2, <1>3
      <4> HIDE DEF q
      <4> QED BY <1>2, <4>1, SeqDef, LenProperties
    <3> HIDE DEF q
    <3> QED BY <2>2, <3>1, <3>2, SeqEqual
  <2>4. q \in [1 .. NR_BUFS -> Bufs]
    BY <1>1, <1>2, <1>3
  <2>5. ASSUME NEW i \in 1 .. NR_BUFS, NEW j \in 1 .. NR_BUFS, q[i] = q[j] PROVE i = j
    BY <1>1, <1>2, <1>3, <2>5
  <2>6. ASSUME NEW a \in Bufs PROVE \E i \in 1 .. NR_BUFS : q[i] = a
    <3>1. PICK i \in 1 .. NR_BUFS : lru[i] = a
      BY <1>1
    <3>2. CASE i = k
      <4>1. 1 \in 1 .. NR_BUFS /\ q[1] = a
        BY <1>2, <1>3, <3>1, <3>2
      <4> QED BY <4>1
    <3>3. CASE i < k
      <4>1. i + 1 \in 1 .. NR_BUFS /\ q[i + 1] = a
        BY <1>2, <1>3, <3>1, <3>3
      <4> QED BY <4>1
    <3>4. CASE i > k
      <4>1. q[i] = a
        BY <1>2, <1>3, <3>1, <3>4
      <4> QED BY <4>1
    <3> QED BY <1>3, <3>2, <3>3, <3>4
  <2>7. q \in Bijection(1 .. NR_BUFS, Bufs)
    <3> HIDE DEF q
    <3> QED BY <2>4, <2>5, <2>6, Fun_IsBij
  <2> QED BY <1>4, <1>7, <2>3, <2>7
<1>8. CASE "ONE_SHOT" \notin type
  <2> DEFINE q == [i \in 1 .. NR_BUFS |->
                 IF i = NR_BUFS THEN b ELSE IF i < k THEN lru[i] ELSE lru[i + 1]]
  <2>1. /\ Append(rest, b) \in Seq(Bufs) /\ Len(Append(rest, b)) = NR_BUFS
        /\ \A i \in 1 .. NR_BUFS - 1 : Append(rest, b)[i] = rest[i]
        /\ Append(rest, b)[NR_BUFS] = b
    BY <1>2, <1>6, AppendProperties
  <2>2. q \in [1 .. NR_BUFS -> Bufs]
    BY <1>1, <1>2, <1>3
  <2>3. Append(rest, b) = q
    <3>1. \A i \in 1 .. NR_BUFS : Append(rest, b)[i] = q[i]
      BY <1>2, <1>6, <2>1
    <3>2. q \in Seq(Bufs) /\ Len(q) = NR_BUFS
      <4> HIDE DEF q
      <4> QED BY <1>2, <2>2, SeqDef, LenProperties
    <3> HIDE DEF q
    <3> QED BY <2>1, <3>1, <3>2, SeqEqual
  <2>4. ASSUME NEW i \in 1 .. NR_BUFS, NEW j \in 1 .. NR_BUFS, q[i] = q[j] PROVE i = j
    BY <1>1, <1>2, <1>3, <2>4
  <2>5. ASSUME NEW a \in Bufs PROVE \E i \in 1 .. NR_BUFS : q[i] = a
    <3>1. PICK i \in 1 .. NR_BUFS : lru[i] = a
      BY <1>1
    <3>2. CASE i = k
      <4>1. NR_BUFS \in 1 .. NR_BUFS /\ q[NR_BUFS] = a
        BY <1>2, <1>3, <3>1, <3>2
      <4> QED BY <4>1
    <3>3. CASE i < k
      <4>1. q[i] = a
        BY <1>2, <1>3, <3>1, <3>3
      <4> QED BY <4>1
    <3>4. CASE i > k
      <4>1. i - 1 \in 1 .. NR_BUFS /\ q[i - 1] = a
        BY <1>2, <1>3, <3>1, <3>4
      <4> QED BY <4>1
    <3> QED BY <1>3, <3>2, <3>3, <3>4
  <2>6. q \in Bijection(1 .. NR_BUFS, Bufs)
    <3> HIDE DEF q
    <3> QED BY <2>2, <2>4, <2>5, Fun_IsBij
  <2> QED BY <1>4, <1>8, <2>3, <2>6
<1> QED BY <1>7, <1>8

(* One use of a buffer ends *)
LEMMA UseEnds ==
  ASSUME NEW x, NEW u, Books(x, u), NEW b \in Bufs, u[b] # 0
  PROVE  /\ Minus(u, b) \in [Bufs -> Nat] /\ x.buf[b].count - 1 = Minus(u, b)[b]
         /\ \A a \in Bufs \ {b} : Minus(u, b)[a] = u[a]
         /\ Cardinality(InUse(Minus(u, b))) = x.in_use - IF u[b] = 1 THEN 1 ELSE 0
<1>1. u \in [Bufs -> Nat] /\ x.buf[b].count = u[b] /\ x.in_use = Cardinality(InUse(u))
      /\ x.in_use \in Nat
  BY UsesFinite DEF Books
<1>2. /\ Minus(u, b) \in [Bufs -> Nat] /\ x.buf[b].count - 1 = Minus(u, b)[b]
      /\ \A a \in Bufs \ {b} : Minus(u, b)[a] = u[a]
      /\ Minus(u, b)[b] = u[b] - 1
  BY <1>1 DEF Minus
<1>3. CASE u[b] = 1
  <2>1. InUse(Minus(u, b)) = InUse(u) \ {b} /\ b \in InUse(u)
    BY <1>1, <1>2, <1>3 DEF InUse
  <2> QED BY <1>1, <1>2, <1>3, <2>1, UsesFinite, FS_RemoveElement
<1>4. CASE u[b] # 1
  <2>1. InUse(Minus(u, b)) = InUse(u)
    BY <1>1, <1>2, <1>4 DEF InUse
  <2> QED BY <1>1, <1>2, <1>4, <2>1
<1> QED BY <1>3, <1>4

Release(x, b, lru, n) == [x EXCEPT !.buf[b].count = x.buf[b].count - 1, !.in_use = n, !.lru = lru]

LEMMA Releases ==
  ASSUME NEW x, NEW u, NEW w, Good(x, u, w), NEW b \in Bufs, u[b] # 0,
         NEW lru \in Bijection(1 .. NR_BUFS, Bufs),
         NEW n, n = x.in_use - (IF u[b] = 1 THEN 1 ELSE 0), NEW y, y = Release(x, b, lru, n)
  PROVE  /\ Good(y, Minus(u, b), w) /\ Kept(x, y, {}) /\ y.panic = x.panic /\ y.got = x.got
         /\ y.disk = x.disk
         /\ \A a \in Bufs : y.buf[a] = [x.buf[a] EXCEPT !.count = y.buf[a].count]
<1> DEFINE buf == [x.buf EXCEPT ![b].count = x.buf[b].count - 1]
<1>1. /\ x \in Caches /\ Books(x, u) /\ \A a \in Bufs : x.buf[a].count = u[a]
      /\ u \in [Bufs -> Nat]
  BY DEF Good, Books
<1>2. buf \in [Bufs -> Buffers]
  <2>1. x.buf \in [Bufs -> Buffers] /\ x.buf[b].count \in Int
    BY <1>1, Fields, BufFields
  <2> QED BY <2>1 DEF Buffers
<1>3. \A a \in Bufs : /\ buf[a] = [x.buf[a] EXCEPT !.count = buf[a].count]
                      /\ buf[a].count = Minus(u, b)[a]
  <2> SUFFICES ASSUME NEW a \in Bufs
               PROVE  /\ buf[a] = [x.buf[a] EXCEPT !.count = buf[a].count]
                      /\ buf[a].count = Minus(u, b)[a]
    OBVIOUS
  <2>1. x.buf \in [Bufs -> Buffers] /\ x.buf[a] \in Buffers
    BY <1>1, BufFields, Fields
  <2>2. x.buf[a].count = u[a] /\ u[a] \in Nat
    BY <1>1
  <2> QED BY <1>1, <2>1, <2>2 DEF Buffers, Minus
<1>4. y = [x EXCEPT !.buf = buf, !.lru = lru, !.in_use = n, !.disk = x.disk, !.got = x.got]
  BY <1>1 DEF Caches, Release
<1> HIDE DEF buf
<1>5. n \in Nat /\ n = Cardinality(InUse(Minus(u, b))) /\ Minus(u, b) \in [Bufs -> Nat]
  BY <1>1, UseEnds, UsesFinite
<1>6. lru \in [1 .. NR_BUFS -> Bufs]
  BY ChainIs
<1>7. /\ y \in Caches /\ y.buf = buf /\ y.lru = lru /\ y.in_use = n /\ y.disk = x.disk
      /\ y.got = x.got /\ y.super = x.super /\ y.panic = x.panic
  <2>1. x.disk \in [Sectors -> Data \cup {JUNK}] /\ x.got \in Bufs \cup {NIL}
    BY <1>1, Fields
  <2>2. n \in Nat
    BY <1>5
  <2> QED BY <1>1, <1>2, <1>4, <1>6, <2>1, <2>2 DEF Caches, Buffers
<1>8. \A a \in Bufs : /\ y.buf[a].dev = x.buf[a].dev /\ y.buf[a].block = x.buf[a].block
                      /\ y.buf[a].dirt = x.buf[a].dirt /\ y.buf[a].data = x.buf[a].data
  <2> SUFFICES ASSUME NEW a \in Bufs
               PROVE  /\ y.buf[a].dev = x.buf[a].dev /\ y.buf[a].block = x.buf[a].block
                      /\ y.buf[a].dirt = x.buf[a].dirt /\ y.buf[a].data = x.buf[a].data
    OBVIOUS
  <2>1. x.buf[a] \in Buffers /\ y.buf[a] = [x.buf[a] EXCEPT !.count = y.buf[a].count]
    BY <1>1, <1>3, <1>7, BufFields
  <2> QED BY <2>1 DEF Buffers
<1>9. Books(y, Minus(u, b))
  BY <1>3, <1>5, <1>7 DEF Books
<1>10. Single(y)
  BY <1>8 DEF Good, Single, Valid, Sector
<1>11. \A a \in Bufs \ w : Clean(y, a)
  BY <1>7, <1>8 DEF Good, Clean, Valid, Sector
<1> QED BY <1>3, <1>7, <1>8, <1>9, <1>10, <1>11 DEF Good, Kept

(* A buffer is given up *)
Drop(x, b) == [x EXCEPT !.buf[b].dev = NO_DEV]

LEMMA GivesUp ==
  ASSUME NEW x, NEW u, NEW w, Good(x, u, w), NEW b \in Bufs,
         NEW y, y = Drop(x, b)
  PROVE  /\ Good(y, u, w) /\ Kept(x, y, {}) /\ y.panic = x.panic /\ y.got = x.got
         /\ y.disk = x.disk /\ ~ Valid(y, b) /\ \A a \in Bufs \ {b} : y.buf[a] = x.buf[a]
<1> DEFINE v == [x.buf[b] EXCEPT !.dev = NO_DEV]
<1>1. x \in Caches
  BY DEF Good, Books
<1>2. x.buf[b] \in Buffers /\ x.buf \in [Bufs -> Buffers]
  BY <1>1, BufFields, Fields
<1>3. v \in Buffers /\ v.dev = NO_DEV /\ v.count = x.buf[b].count /\ v.block = x.buf[b].block
  BY <1>2 DEF Buffers
<1>4. y = With(x, b, v)
  BY <1>1, <1>2 DEF Caches, Drop, With
<1>5. Fits(x, b, v)
  BY <1>3 DEF Fits
<1> DEFINE t == w \cup {b}
<1>6. w \subseteq t /\ b \in t /\ t \subseteq w \cup {b}
  OBVIOUS
<1> HIDE DEF v, t
<1>7. /\ Good(y, u, t) /\ Kept(x, y, {b}) /\ y.panic = x.panic /\ y.got = x.got
      /\ y.disk = x.disk /\ y.buf[b] = v /\ \A a \in Bufs \ {b} : y.buf[a] = x.buf[a]
  <2>1. Good(y, u, t) /\ Kept(x, y, {b}) /\ Filled(x, y, b, v)
    BY <1>3, <1>4, <1>5, <1>6, Refills
  <2> QED BY <2>1 DEF Filled
<1>8. ~ Valid(y, b) /\ Clean(y, b)
  BY <1>3, <1>7 DEF Valid, Clean
<1>9. Good(y, u, w)
  BY <1>6, <1>7, <1>8 DEF Good
<1>10. Kept(x, y, {})
  BY <1>3, <1>7 DEF Kept
<1> QED BY <1>7, <1>8, <1>9, <1>10

(* A buffer is put *)
LEMMA Puts ==
  ASSUME NEW x, NEW u, NEW w, Good(x, u, w), NEW b \in Bufs, u[b] # 0, NEW type, NEW bad,
         NEW y, y = put_block(x, b, type, bad)
  PROVE  /\ Good(y, Minus(u, b), w) /\ Kept(x, y, {}) /\ y.panic = x.panic /\ y.got = x.got
         /\ \A a \in Bufs \ {b} : y.buf[a] = x.buf[a]
<1> DEFINE n == x.buf[b].count - 1
           g == [x EXCEPT !.buf[b].count = n, !.in_use = @ - 1, !.lru = Chained(@, b, type)]
           h == IF "WRITE_IMMED" \in type /\ x.buf[b].dirt /\ x.buf[b].dev # NO_DEV
                THEN Written(g, {b}, bad) ELSE g
<1>1. /\ x \in Caches /\ Books(x, u) /\ x.buf[b].count = u[b] /\ u[b] \in Nat /\ x.in_use \in Nat
      /\ x.lru \in Bijection(1 .. NR_BUFS, Bufs)
  BY Fields DEF Good, Books
<1>2. ASSUME NEW z, Good(z, Minus(u, b), w), Kept(x, z, {}), z.panic = x.panic, z.got = x.got,
             \A a \in Bufs : z.buf[a] = [x.buf[a] EXCEPT !.count = z.buf[a].count]
      PROVE  \A a \in Bufs \ {b} : z.buf[a] = x.buf[a]
  <2> SUFFICES ASSUME NEW a \in Bufs \ {b} PROVE z.buf[a] = x.buf[a]
    OBVIOUS
  <2>1. x.buf[a] \in Buffers
    BY <1>1, BufFields
  <2>2. z.buf[a].count = x.buf[a].count
    BY <1>1, <1>2, UseEnds DEF Good, Books
  <2> QED BY <1>2, <2>1, <2>2 DEF Buffers
<1>3. CASE n # 0
  <2>1. y = Release(x, b, x.lru, x.in_use)
    BY <1>1, <1>3 DEF put_block, Caches, Release
  <2>2. x.in_use = x.in_use - IF u[b] = 1 THEN 1 ELSE 0
    BY <1>1, <1>3
  <2>3. /\ Good(y, Minus(u, b), w) /\ Kept(x, y, {}) /\ y.panic = x.panic /\ y.got = x.got
        /\ \A a \in Bufs : y.buf[a] = [x.buf[a] EXCEPT !.count = y.buf[a].count]
    BY <1>1, <2>1, <2>2, Releases
  <2> QED BY <1>2, <2>3
<1>4. CASE n = 0
  <2>1. y = IF "ZUPER" \in type THEN Drop(h, b) ELSE h
    BY <1>4 DEF put_block, Drop
  <2> DEFINE chain == Chained(x.lru, b, type)
             m == x.in_use - 1
  <2>2. chain \in Bijection(1 .. NR_BUFS, Bufs) /\ m = x.in_use - IF u[b] = 1 THEN 1 ELSE 0
    BY <1>1, <1>4, ChainKept
  <2>3. g = Release(x, b, chain, m)
    BY DEF Release
  <2> HIDE DEF g, m, chain
  <2>4. /\ Good(g, Minus(u, b), w) /\ Kept(x, g, {}) /\ g.panic = x.panic /\ g.got = x.got
        /\ \A a \in Bufs : g.buf[a] = [x.buf[a] EXCEPT !.count = g.buf[a].count]
    BY <2>2, <2>3, Releases
  <2>5. \A a \in Bufs \ {b} : g.buf[a] = x.buf[a]
    BY <1>2, <2>4
  <2>6. /\ Good(h, Minus(u, b), w) /\ Kept(x, h, {}) /\ h.panic = x.panic /\ h.got = x.got
        /\ \A a \in Bufs \ {b} : h.buf[a] = x.buf[a]
    <3>1. CASE "WRITE_IMMED" \in type /\ x.buf[b].dirt /\ x.buf[b].dev # NO_DEV
      <4>1. h = Written(g, {b}, bad)
        BY <3>1
      <4>2. x.buf[b] \in Buffers
        BY <1>1, BufFields
      <4>3. Valid(g, b)
        BY <2>4, <3>1, <4>2 DEF Valid, Buffers
      <4> DEFINE bs == {b}
      <4>4. bs \in SUBSET Bufs /\ (\A a \in bs : Valid(g, a)) /\ h = Written(g, bs, bad)
            /\ \A a \in Bufs \ {b} : a \in Bufs \ bs
        BY <4>1, <4>3
      <4> HIDE DEF h, bs
      <4>5. /\ Good(h, Minus(u, b), w) /\ Kept(g, h, {}) /\ h.got = g.got /\ h.panic = g.panic
            /\ \A a \in Bufs \ {b} : h.buf[a] = g.buf[a]
        BY <2>4, <4>4, WrittenDoes
      <4>6. {} \cup {} = {}
        OBVIOUS
      <4> QED BY <2>4, <2>5, <4>5, <4>6, KeptTrans
    <3>2. CASE ~ ("WRITE_IMMED" \in type /\ x.buf[b].dirt /\ x.buf[b].dev # NO_DEV)
      BY <2>4, <2>5, <3>2
    <3> QED BY <3>1, <3>2
  <2> HIDE DEF h
  <2>7. CASE "ZUPER" \in type
    <3>1. /\ Good(y, Minus(u, b), w) /\ Kept(h, y, {}) /\ y.panic = h.panic /\ y.got = h.got
          /\ \A a \in Bufs \ {b} : y.buf[a] = h.buf[a]
      BY <2>1, <2>6, <2>7, GivesUp
    <3>2. {} \cup {} = {}
      OBVIOUS
    <3> QED BY <2>6, <3>1, <3>2, KeptTrans
  <2>8. CASE "ZUPER" \notin type
    BY <2>1, <2>6, <2>8
  <2> QED BY <2>7, <2>8
<1> QED BY <1>3, <1>4

(* A device is forgotten *)
LEMMA Forgets ==
  ASSUME NEW x, NEW u, NEW w, Good(x, u, w), NEW dev \in Devs, NEW y, y = invalidate(x, dev)
  PROVE  /\ Good(y, u, w) /\ Kept(x, y, {}) /\ y.panic = x.panic /\ y.got = x.got
         /\ y.disk = x.disk /\ y.in_use = x.in_use
         /\ \A b \in Bufs : /\ y.buf[b].dev = IF x.buf[b].dev = dev THEN NO_DEV ELSE x.buf[b].dev
                            /\ Valid(y, b) => y.buf[b] = x.buf[b]
<1> DEFINE buf == [b \in Bufs |-> IF x.buf[b].dev = dev THEN [x.buf[b] EXCEPT !.dev = NO_DEV]
                                  ELSE x.buf[b]]
<1>1. x \in Caches
  BY DEF Good, Books
<1>2. ASSUME NEW b \in Bufs
      PROVE  /\ buf[b] \in Buffers /\ buf[b].block = x.buf[b].block
             /\ buf[b].count = x.buf[b].count /\ buf[b].dirt = x.buf[b].dirt
             /\ buf[b].data = x.buf[b].data
             /\ buf[b].dev = IF x.buf[b].dev = dev THEN NO_DEV ELSE x.buf[b].dev
             /\ buf[b].dev # NO_DEV => buf[b] = x.buf[b]
  <2>1. x.buf[b] \in Buffers
    BY <1>1, BufFields
  <2> QED BY <2>1 DEF Buffers
<1>3. buf \in [Bufs -> Buffers]
  BY <1>2
<1>4. y = [x EXCEPT !.buf = buf, !.lru = x.lru, !.in_use = x.in_use, !.disk = x.disk, !.got = x.got]
  BY <1>1 DEF invalidate, Caches
<1> HIDE DEF buf
<1>5. /\ y \in Caches /\ y.buf = buf /\ y.lru = x.lru /\ y.in_use = x.in_use /\ y.disk = x.disk
      /\ y.got = x.got /\ y.super = x.super /\ y.panic = x.panic
  <2>1. /\ x.lru \in [1 .. NR_BUFS -> Bufs] /\ x.disk \in [Sectors -> Data \cup {JUNK}]
        /\ x.in_use \in Nat /\ x.got \in Bufs \cup {NIL}
    BY <1>1, Fields
  <2> QED BY <1>1, <1>3, <1>4, <2>1 DEF Caches, Buffers
<1>6. Books(y, u)
  BY <1>2, <1>5 DEF Good, Books
<1>7. Kept(x, y, {})
  BY <1>2, <1>5 DEF Kept
<1>8. \A b \in Bufs : Valid(y, b) => Valid(x, b) /\ y.buf[b] = x.buf[b]
  BY <1>2, <1>5 DEF Valid
<1>9. Single(y)
  <2>1. ASSUME NEW b \in Bufs, Valid(y, b) PROVE Sector(y, b) \in Sectors
    BY <1>8, <2>1 DEF Good, Single, Sector
  <2>2. ASSUME NEW b1 \in Bufs, NEW b2 \in Bufs, Sector(y, b1) = Sector(y, b2), Valid(y, b1)
        PROVE  b1 = b2
    <3>1. Valid(y, b2)
      BY <2>2 DEF Valid, Sector
    <3> QED BY <1>8, <2>2, <3>1 DEF Good, Single, Sector
  <2> QED BY <2>1, <2>2 DEF Single
<1>10. \A b \in Bufs \ w : Clean(y, b)
  BY <1>5, <1>8 DEF Good, Clean, Sector
<1> QED BY <1>2, <1>5, <1>6, <1>7, <1>8, <1>9, <1>10 DEF Good, Valid

(* A buffer is changed *)
Changed(x, y, b, d) ==
  /\ y.panic = x.panic /\ y.got = x.got /\ y.disk = x.disk /\ y.in_use = x.in_use
  /\ y.buf[b] = [x.buf[b] EXCEPT !.data = d, !.dirt = TRUE]
  /\ y.buf[b].data = d /\ y.buf[b].dirt
  /\ \A a \in Bufs \ {b} : y.buf[a] = x.buf[a]
  /\ \A a \in Bufs : y.buf[a].dev = x.buf[a].dev /\ y.buf[a].block = x.buf[a].block

LEMMA Changes ==
  ASSUME NEW x, NEW u, NEW w, Good(x, u, w), NEW b \in Bufs, NEW d \in Data \cup {JUNK},
         NEW t, w \ {b} \subseteq t, NEW y, y = Overwrite(x, b, d)
  PROVE  Good(y, u, t) /\ Kept(x, y, {}) /\ Changed(x, y, b, d)
<1> DEFINE v == [x.buf[b] EXCEPT !.data = d, !.dirt = TRUE]
<1>1. x \in Caches
  BY DEF Good, Books
<1>2. x.buf[b] \in Buffers /\ x.buf \in [Bufs -> Buffers]
  BY <1>1, BufFields, Fields
<1>3. v \in Buffers /\ v.dev = x.buf[b].dev /\ v.count = x.buf[b].count /\ v.block = x.buf[b].block
      /\ v.data = d /\ v.dirt
  BY <1>2 DEF Buffers
<1>4. y = With(x, b, v)
  BY <1>1, <1>2 DEF Caches, Overwrite, With
<1>5. Fits(x, b, v)
  <2> SUFFICES ASSUME v.dev # NO_DEV
               PROVE  /\ v.dev \in Devs /\ v.block \in Blocks
                      /\ \A a \in Bufs \ {b} : Sector(x, a) # <<v.dev, v.block>>
    BY DEF Fits
  <2>1. Sector(x, b) = <<v.dev, v.block>> /\ Valid(x, b)
    BY <1>3 DEF Sector, Valid
  <2> HIDE DEF v
  <2> QED BY <2>1 DEF Good, Single, Sectors
<1> DEFINE s == w \cup {b}
<1>6. w \subseteq s /\ b \in s /\ \A a \in s : a # b => a \in t
  OBVIOUS
<1> HIDE DEF v, s
<1>7. Good(y, u, s) /\ Kept(x, y, {b}) /\ Filled(x, y, b, v)
  BY <1>3, <1>4, <1>5, <1>6, Refills
<1>8. Clean(y, b)
  BY <1>3, <1>7 DEF Clean, Filled
<1>9. Good(y, u, t)
  BY <1>6, <1>7, <1>8 DEF Good
<1>10. Kept(x, y, {})
  BY <1>3, <1>7 DEF Kept, Filled
<1>11. \A a \in Bufs : y.buf[a].dev = x.buf[a].dev /\ y.buf[a].block = x.buf[a].block
  BY <1>3, <1>7 DEF Filled
<1> QED BY <1>3, <1>7, <1>9, <1>10, <1>11 DEF v, Filled, Changed

(* What is not of interest in a free buffer is forgotten: Settle *)
Settled(x) ==
  [x EXCEPT !.got = NIL,
            !.buf = [b \in Bufs |-> IF @[b].dev # NO_DEV THEN @[b]
                                    ELSE [@[b] EXCEPT !.block = NO_BLOCK, !.data = JUNK]]]

LEMMA Settles ==
  ASSUME NEW x, NEW u, Good(x, u, {}), NEW y, y = Settled(x)
  PROVE  /\ Good(y, u, {}) /\ y.super = x.super /\ y.panic = x.panic /\ y.got = NIL
         /\ y.disk = x.disk /\ y.in_use = x.in_use
         /\ \A b \in Bufs : /\ y.buf[b].dev = x.buf[b].dev
                            /\ Valid(x, b) => y.buf[b] = x.buf[b]
<1> DEFINE buf == [b \in Bufs |-> IF x.buf[b].dev # NO_DEV THEN x.buf[b]
                                  ELSE [x.buf[b] EXCEPT !.block = NO_BLOCK, !.data = JUNK]]
<1>1. x \in Caches
  BY DEF Good, Books
<1>2. ASSUME NEW b \in Bufs
      PROVE  /\ buf[b] \in Buffers /\ buf[b].dev = x.buf[b].dev
             /\ buf[b].count = x.buf[b].count
             /\ x.buf[b].dev # NO_DEV => buf[b] = x.buf[b]
  <2>1. x.buf[b] \in Buffers
    BY <1>1, BufFields
  <2> QED BY <2>1 DEF Buffers
<1>3. buf \in [Bufs -> Buffers]
  BY <1>2
<1>4. y = [x EXCEPT !.buf = buf, !.lru = x.lru, !.in_use = x.in_use, !.disk = x.disk, !.got = NIL]
  BY <1>1 DEF Settled, Caches
<1> HIDE DEF buf
<1>5. /\ y \in Caches /\ y.buf = buf /\ y.lru = x.lru /\ y.in_use = x.in_use /\ y.disk = x.disk
      /\ y.got = NIL /\ y.super = x.super /\ y.panic = x.panic
  <2>1. /\ x.lru \in [1 .. NR_BUFS -> Bufs] /\ x.disk \in [Sectors -> Data \cup {JUNK}]
        /\ x.in_use \in Nat /\ NIL \in Bufs \cup {NIL}
    BY <1>1, Fields
  <2> QED BY <1>1, <1>3, <1>4, <2>1 DEF Caches, Buffers
<1>6. Books(y, u)
  BY <1>2, <1>5 DEF Good, Books
<1>7. \A b \in Bufs : (Valid(y, b) <=> Valid(x, b)) /\ (Valid(x, b) => y.buf[b] = x.buf[b])
  BY <1>2, <1>5 DEF Valid
<1>8. Single(y)
  <2>1. ASSUME NEW b \in Bufs, Valid(y, b) PROVE Sector(y, b) \in Sectors
    BY <1>7, <2>1 DEF Good, Single, Sector
  <2>2. ASSUME NEW b1 \in Bufs, NEW b2 \in Bufs, Sector(y, b1) = Sector(y, b2), Valid(y, b1)
        PROVE  b1 = b2
    <3>1. Valid(y, b2)
      BY <2>2 DEF Valid, Sector
    <3> QED BY <1>7, <2>2, <3>1 DEF Good, Single, Sector
  <2> QED BY <2>1, <2>2 DEF Single
<1>9. \A b \in Bufs : Clean(y, b)
  BY <1>5, <1>7 DEF Good, Clean, Sector
<1> QED BY <1>2, <1>5, <1>6, <1>7, <1>8, <1>9 DEF Good, Valid

-----------------------------------------------------------------------------
(* Everything is written *)

(* The devices up to k are written *)
UpTo(x, u, w, k) ==
  {y \in Caches : /\ Good(y, u, w) /\ Kept(x, y, {}) /\ y.panic = x.panic /\ y.got = x.got
                  /\ y.in_use = x.in_use
                  /\ \A b \in Bufs : Valid(y, b) /\ y.buf[b].dirt => y.buf[b].dev > k}

LEMMA FlushesNext ==
  ASSUME NEW x, NEW u, NEW w, NEW k \in 1 .. NR_DEVS, NEW y \in UpTo(x, u, w, k - 1), NEW bad
  PROVE  flushall(y, k, bad) \in UpTo(x, u, w, k)
<1> DEFINE z == flushall(y, k, bad)
<1>1. k \in Devs /\ Good(y, u, w)
  BY DEF Devs, UpTo
<1>2. /\ Good(z, u, w) /\ Kept(y, z, {}) /\ z.got = y.got /\ z.panic = y.panic
      /\ z.in_use = y.in_use
      /\ \A b \in Bufs : z.buf[b].dirt => y.buf[b].dirt /\ y.buf[b].dev # k
  BY <1>1, Flushes
<1> HIDE DEF z
<1>3. Kept(x, z, {})
  <2>1. {} \cup {} = {}
    OBVIOUS
  <2> QED BY <1>2, <2>1, KeptTrans DEF UpTo
<1>4. ASSUME NEW b \in Bufs, Valid(z, b), z.buf[b].dirt PROVE z.buf[b].dev > k
  <2>1. y.buf[b].dirt /\ y.buf[b].dev # k /\ z.buf[b].dev = y.buf[b].dev /\ Valid(y, b)
    BY <1>2, <1>4 DEF Kept, Valid
  <2>2. y.buf[b].dev > k - 1
    BY <2>1 DEF UpTo
  <2>3. y.buf[b].dev \in Nat
    <3>1. y \in Caches
      BY DEF UpTo
    <3>2. y.buf[b].dev \in Devs \cup {NO_DEV}
      BY <3>1, BufFields
    <3> QED BY <3>2 DEF Devs, NO_DEV
  <2> QED BY <2>1, <2>2, <2>3
<1>5. z \in Caches
  BY <1>2 DEF Good, Books
<1>6. z \in UpTo(x, u, w, k)
  BY <1>2, <1>3, <1>4, <1>5 DEF UpTo
<1> QED BY <1>6 DEF z

LEMMA FlushesAll ==
  ASSUME NEW x, NEW u, NEW w, Good(x, u, w), NEW bad, NEW y, y = FlushEach(x, bad)
  PROVE  /\ Good(y, u, w) /\ Kept(x, y, {}) /\ y.panic = x.panic /\ y.got = x.got
         /\ y.in_use = x.in_use
         /\ \A b \in Bufs : Valid(y, b) => ~ y.buf[b].dirt
<1> DEFINE n == NR_DEVS
           F == [k \in 1 .. n |-> [z \in Caches |-> flushall(z, k, bad)]]
           P == [k \in 0 .. n |-> UpTo(x, u, w, k)]
           Def(f) == f = [dev \in 0 .. n |-> IF dev = 0 THEN x ELSE flushall(f[dev - 1], dev, bad)]
           f == CHOOSE f : Def(f)
<1>1. y = f[n]
  BY DEF FlushEach
<1>2. n \in Nat
  BY Numbers
<1>3. x \in P[0]
  <2>1. x \in Caches
    BY DEF Good, Books
  <2>2. \A b \in Bufs : Valid(x, b) => x.buf[b].dev > 0
    BY <2>1, BufFields, DevsAre DEF Valid, Devs
  <2>3. x \in UpTo(x, u, w, 0)
    BY <2>1, <2>2, KeptRefl DEF UpTo
  <2> QED BY <1>2, <2>3
<1>4. \A k \in 1 .. n : \A z \in P[k - 1] : flushall(z, k, bad) \in P[k]
  <2> SUFFICES ASSUME NEW k \in 1 .. n, NEW z \in P[k - 1] PROVE flushall(z, k, bad) \in P[k]
    OBVIOUS
  <2>1. k \in 1 .. NR_DEVS /\ z \in UpTo(x, u, w, k - 1) /\ P[k] = UpTo(x, u, w, k)
    BY <1>2
  <2> QED BY <2>1, FlushesNext
<1>5. \A k \in 0 .. n : P[k] \subseteq Caches
  BY DEF UpTo
<1> HIDE DEF P, n
<1>6. PICK p : IsRec(p, n, x, F)
  <2> HIDE DEF F
  <2> QED BY <1>2, Recursion
<1>7. \A k \in 0 .. n : p[k] \in P[k]
  <2>1. p[0] \in P[0]
    BY <1>2, <1>3, <1>6 DEF IsRec
  <2>2. ASSUME NEW k \in 1 .. n, p[k - 1] \in P[k - 1] PROVE p[k] \in P[k]
    <3>1. p[k] = F[k][p[k - 1]]
      <4> HIDE DEF F
      <4> QED BY <1>2, <1>6 DEF IsRec
    <3>2. k - 1 \in 0 .. n
      BY <1>2
    <3>3. F[k][p[k - 1]] = flushall(p[k - 1], k, bad)
      BY <1>5, <2>2, <3>2
    <3> QED BY <1>4, <2>2, <3>1, <3>3
  <2> QED BY <1>2, <2>1, <2>2, Steps
<1>8. Def(p)
  <2>1. ASSUME NEW k \in 0 .. n
        PROVE  p[k] = IF k = 0 THEN x ELSE flushall(p[k - 1], k, bad)
    <3>1. CASE k = 0
      BY <1>6, <3>1 DEF IsRec
    <3>2. CASE k # 0
      <4>1. k \in 1 .. n /\ k - 1 \in 0 .. n
        BY <1>2, <3>2
      <4>2. F[k][p[k - 1]] = flushall(p[k - 1], k, bad)
        BY <1>5, <1>7, <4>1
      <4> QED BY <1>6, <3>2, <4>2 DEF IsRec
    <3> QED BY <3>1, <3>2
  <2>2. p = [k \in 0 .. n |-> p[k]]
    BY <1>6 DEF IsRec
  <2> HIDE DEF F
  <2> QED BY <2>1, <2>2
<1>9. Def(f)
  BY <1>8
<1> HIDE DEF f
<1>10. \A k \in 0 .. n : f[k] \in P[k]
  <2>1. f[0] \in P[0]
    BY <1>2, <1>3, <1>9
  <2>2. ASSUME NEW k \in 1 .. n, f[k - 1] \in P[k - 1] PROVE f[k] \in P[k]
    <3>1. f[k] = flushall(f[k - 1], k, bad)
      BY <1>2, <1>9
    <3> QED BY <1>4, <2>2, <3>1
  <2> QED BY <1>2, <2>1, <2>2, Steps
<1>11. y \in UpTo(x, u, w, n)
  <2>1. f[n] \in P[n]
    BY <1>2, <1>10
  <2> QED BY <1>1, <1>2, <2>1 DEF P
<1>12. ASSUME NEW b \in Bufs, Valid(y, b), y.buf[b].dirt PROVE FALSE
  <2>1. y.buf[b].dev > n
    BY <1>11, <1>12 DEF UpTo
  <2>2. y.buf[b].dev \in 1 .. n
    <3>1. y \in Caches
      BY <1>11 DEF UpTo
    <3> QED BY <1>12, <3>1, BufFields DEF Valid, Devs, n
  <2> QED BY <1>2, <2>1, <2>2
<1> QED BY <1>11, <1>12 DEF UpTo

-----------------------------------------------------------------------------
(* What a routine keeps in the end: the buffers that are in use, and that  *)
(* there are no devices but those there were and those of ds               *)
DevsOf(x) == {x.buf[b].dev : b \in Bufs} \cup {NO_DEV}
Near(x, y, u, ds) ==
  /\ y.super = x.super
  /\ \A b \in Bufs : /\ y.buf[b].dev \in DevsOf(x) \cup ds
                     /\ u[b] # 0 => /\ y.buf[b].block = x.buf[b].block
                                    /\ y.buf[b].dev \in {x.buf[b].dev, NO_DEV}

LEMMA NearTrans ==
  ASSUME NEW x, NEW y, NEW z, NEW u, NEW v, NEW ds, NEW es, Near(x, y, u, ds), Near(y, z, v, es),
         \A b \in Bufs : u[b] # 0 => v[b] # 0
  PROVE  Near(x, z, u, ds \cup es)
<1>1. \A b \in Bufs : z.buf[b].dev \in DevsOf(x) \cup ds \cup es
  BY DEF Near, DevsOf
<1> QED BY <1>1 DEF Near

LEMMA NearKept ==
  ASSUME NEW x, NEW y, NEW u, Kept(x, y, {}), NEW ds
  PROVE  Near(x, y, u, ds)
BY DEF Kept, Near, DevsOf

(* What is got and what is put in the end *)
LEMMA PlusMinus ==
  ASSUME NEW u \in [Bufs -> Nat], NEW b \in Bufs
  PROVE  /\ Plus(u, {b}) \in [Bufs -> Nat] /\ Plus(u, {b})[b] # 0 /\ Minus(Plus(u, {b}), b) = u
         /\ \A a \in Bufs : u[a] # 0 => Plus(u, {b})[a] # 0
<1> DEFINE v == Plus(u, {b})
<1>1. v \in [Bufs -> Nat] /\ \A a \in Bufs : v[a] = u[a] + IF a = b THEN 1 ELSE 0
  BY DEF Plus
<1> HIDE DEF v
<1>2. Minus(v, b) \in [Bufs -> Int] /\ \A a \in Bufs : Minus(v, b)[a] = u[a]
  BY <1>1 DEF Minus
<1>3. Minus(v, b) = u
  BY <1>2
<1>4. v \in [Bufs -> Nat] /\ v[b] # 0 /\ \A a \in Bufs : u[a] # 0 => v[a] # 0
  BY <1>1
<1> QED BY <1>3, <1>4 DEF v

LEMMA GetsNear ==
  ASSUME NEW x, NEW u, Good(x, u, {}), Cardinality(InUse(u)) < NR_BUFS,
         NEW dev \in Devs \cup {NO_DEV}, NEW block \in Blocks \cup {NO_BLOCK},
         dev # NO_DEV => block \in Blocks,
         NEW mode \in Searches, NEW bad,
         NEW y, y = get_block(x, dev, block, mode, bad)
  PROVE  Near(x, y, u, {dev})
<1>1. /\ y.got \in Bufs
      /\ Kept(x, y, {y.got}) /\ y.buf[y.got].block = block /\ y.buf[y.got].dev \in {NO_DEV, dev}
      /\ u[y.got] # 0 => /\ y.buf[y.got].dev = x.buf[y.got].dev /\ Valid(y, y.got)
                     /\ x.buf[y.got].block = block
  <2>1. Got(x, y, u, dev, block, mode)
    BY Gets
  <2> QED BY <2>1 DEF Got
<1>2. ASSUME NEW b \in Bufs
      PROVE  /\ y.buf[b].dev \in DevsOf(x) \cup {dev}
             /\ u[b] # 0 => /\ y.buf[b].block = x.buf[b].block
                            /\ y.buf[b].dev \in {x.buf[b].dev, NO_DEV}
  <2>1. CASE b = y.got
    BY <1>1, <2>1 DEF DevsOf
  <2>2. CASE b # y.got
    BY <1>1, <2>2 DEF Kept, DevsOf
  <2> QED BY <2>1, <2>2
<1> QED BY <1>1, <1>2 DEF Near, Kept

(* A block is got and put again *)
GotPut(x, g, y, u, dev) ==
  /\ Good(y, u, {}) /\ Near(x, y, u, {dev}) /\ g.panic = x.panic /\ y.panic = x.panic
  /\ g.got \in Bufs

LEMMA GetsPuts ==
  ASSUME NEW x, NEW u, Good(x, u, {}), Cardinality(InUse(u)) < NR_BUFS,
         NEW dev \in Devs, NEW block \in Blocks, NEW bad, NEW type,
         NEW g, g = get_block(x, dev, block, "NORMAL", bad),
         NEW y, y = put_block(g, g.got, type, bad)
  PROVE  GotPut(x, g, y, u, dev)
<1>1. /\ g.got \in Bufs /\ g.panic = x.panic /\ Good(g, Plus(u, {g.got}), {})
      /\ Near(x, g, u, {dev})
  <2>1. "NORMAL" \in Searches /\ "NORMAL" # "NO_READ"
    BY DEF Searches
  <2>2. Got(x, g, u, dev, block, "NORMAL") /\ Near(x, g, u, {dev})
    BY <2>1, DevsAre, Gets, GetsNear
  <2> QED BY <2>2 DEF Got, Fresh
<1>2. u \in [Bufs -> Nat]
  BY DEF Good, Books
<1>3. /\ Plus(u, {g.got})[g.got] # 0 /\ Minus(Plus(u, {g.got}), g.got) = u
      /\ \A a \in Bufs : u[a] # 0 => Plus(u, {g.got})[a] # 0
  BY <1>1, <1>2, PlusMinus
<1>4. Good(y, u, {}) /\ Kept(g, y, {}) /\ y.panic = g.panic
  BY <1>1, <1>3, Puts
<1>5. Near(x, y, u, {dev})
  <2>1. Near(g, y, Plus(u, {g.got}), {dev})
    BY <1>4, NearKept
  <2>2. {dev} \cup {dev} = {dev}
    OBVIOUS
  <2> QED BY <1>1, <1>3, <2>1, <2>2, NearTrans
<1> QED BY <1>1, <1>4, <1>5 DEF GotPut

LEMMA SuperWrites ==
  ASSUME NEW x, NEW u, Good(x, u, {}), Cardinality(InUse(u)) < NR_BUFS, ~ x.panic,
         NEW bad, NEW y, y = rw_super(x, bad)
  PROVE  Good(y, u, {}) /\ Near(x, y, u, {ROOT_DEV}) /\ ~ y.panic
<1> DEFINE g == get_block(x, ROOT_DEV, SUPER_BLOCK, "NO_READ", bad)
           d == x.disk[<<ROOT_DEV, SUPER_BLOCK>>]
           h == Overwrite(g, g.got, d)
           type == {"WRITE_IMMED", "ONE_SHOT", "ZUPER"}
<1>1. /\ g.got \in Bufs /\ g.panic = x.panic /\ Good(g, Plus(u, {g.got}), {g.got})
      /\ Near(x, g, u, {ROOT_DEV})
  <2>1. "NO_READ" \in Searches
    BY DEF Searches
  <2>2. Got(x, g, u, ROOT_DEV, SUPER_BLOCK, "NO_READ") /\ Near(x, g, u, {ROOT_DEV})
    BY <2>1, DevsAre, Gets, GetsNear
  <2> QED BY <2>2 DEF Got, Fresh
<1>2. u \in [Bufs -> Nat] /\ x \in Caches
  BY DEF Good, Books
<1>3. /\ Plus(u, {g.got})[g.got] # 0 /\ Minus(Plus(u, {g.got}), g.got) = u
      /\ \A a \in Bufs : u[a] # 0 => Plus(u, {g.got})[a] # 0
  BY <1>1, <1>2, PlusMinus
<1>4. d \in Data \cup {JUNK}
  <2>1. <<ROOT_DEV, SUPER_BLOCK>> \in Sectors
    BY DevsAre DEF Sectors
  <2> QED BY <1>2, <2>1, Fields
<1>5. y = put_block(h, g.got, type, bad)
  BY <1>1 DEF rw_super
<1> HIDE DEF g, d
<1>6. Good(h, Plus(u, {g.got}), {}) /\ Kept(g, h, {}) /\ h.panic = g.panic
  <2>1. {g.got} \ {g.got} \subseteq {}
    OBVIOUS
  <2>2. Good(h, Plus(u, {g.got}), {}) /\ Kept(g, h, {}) /\ Changed(g, h, g.got, d)
    BY <1>1, <1>4, <2>1, Changes
  <2> QED BY <2>2 DEF Changed
<1> HIDE DEF h, type
<1>7. Good(y, u, {}) /\ Kept(h, y, {}) /\ y.panic = h.panic
  BY <1>1, <1>3, <1>5, <1>6, Puts
<1>8. Near(x, y, u, {ROOT_DEV})
  <2>1. Kept(g, y, {})
    <3>1. {} \cup {} = {}
      OBVIOUS
    <3> QED BY <1>6, <1>7, <3>1, KeptTrans
  <2>2. Near(g, y, Plus(u, {g.got}), {ROOT_DEV})
    BY <2>1, NearKept
  <2>3. {ROOT_DEV} \cup {ROOT_DEV} = {ROOT_DEV}
    OBVIOUS
  <2> QED BY <1>1, <1>3, <2>2, <2>3, NearTrans
<1> QED BY <1>1, <1>6, <1>7, <1>8

LEMMA Syncs ==
  ASSUME NEW x, NEW u, Good(x, u, {}), Cardinality(InUse(u)) < NR_BUFS, ~ x.panic,
         NEW bad, NEW y, y = do_sync(x, bad)
  PROVE  /\ Good(y, u, {}) /\ Near(x, y, u, {ROOT_DEV}) /\ ~ y.panic
         /\ \A b \in Bufs : Valid(y, b) => ~ y.buf[b].dirt
<1> DEFINE g == rw_super(x, bad)
<1>1. Good(g, u, {}) /\ Near(x, g, u, {ROOT_DEV}) /\ ~ g.panic
  BY SuperWrites
<1>2. y = FlushEach(g, bad)
  BY DEF do_sync
<1> HIDE DEF g
<1>3. /\ Good(y, u, {}) /\ Kept(g, y, {}) /\ y.panic = g.panic
      /\ \A b \in Bufs : Valid(y, b) => ~ y.buf[b].dirt
  BY <1>1, <1>2, FlushesAll
<1>4. Near(x, y, u, {ROOT_DEV})
  <2>1. Near(g, y, u, {ROOT_DEV})
    BY <1>3, NearKept
  <2>2. {ROOT_DEV} \cup {ROOT_DEV} = {ROOT_DEV}
    OBVIOUS
  <2> QED BY <1>1, <2>1, <2>2, NearTrans
<1> QED BY <1>1, <1>3, <1>4

-----------------------------------------------------------------------------
(* Who uses a buffer: the call that holds it, and the device whose bit     *)
(* maps it has.  h is what the call holds, sup is the super block table    *)
Mounts(sup)    == {n \in Supers : sup[n].dev # NO_DEV}
Holding(h, b)  == {k \in DOMAIN h : h[k] = b}
Mapping(sup, b) == {n \in Mounts(sup) : sup[n].map = b}
Uses(h, sup)   == [b \in Bufs |-> Cardinality(Holding(h, b)) + Cardinality(Mapping(sup, b))]

Tables == [Supers -> [dev : Devs \cup {NO_DEV}, map : Bufs \cup {NIL}]]

LEMMA UsersFinite ==
  ASSUME NEW h \in Seq(Bufs), NEW sup, NEW b
  PROVE  /\ IsFiniteSet(Holding(h, b)) /\ IsFiniteSet(Mapping(sup, b)) /\ IsFiniteSet(Mounts(sup))
         /\ Cardinality(Holding(h, b)) \in Nat /\ Cardinality(Mapping(sup, b)) \in Nat
         /\ Cardinality(Mounts(sup)) \in Nat
<1>1. IsFiniteSet(Supers) /\ IsFiniteSet(DOMAIN h)
  <2>1. DOMAIN h = 1 .. Len(h) /\ Len(h) \in Int
    BY LenProperties
  <2> QED BY <2>1, Numbers, FS_Interval DEF Supers
<1>2. /\ Holding(h, b) \subseteq DOMAIN h /\ Mapping(sup, b) \subseteq Supers
      /\ Mounts(sup) \subseteq Supers
  BY DEF Holding, Mapping, Mounts
<1>3. IsFiniteSet(Holding(h, b)) /\ IsFiniteSet(Mapping(sup, b)) /\ IsFiniteSet(Mounts(sup))
  BY <1>1, <1>2, FS_Subset
<1> QED BY <1>3, FS_CardinalityType

LEMMA UsesType ==
  ASSUME NEW h \in Seq(Bufs), NEW sup
  PROVE  /\ Uses(h, sup) \in [Bufs -> Nat]
         /\ \A b \in Bufs : Uses(h, sup)[b] # 0 <=> Holding(h, b) # {} \/ Mapping(sup, b) # {}
<1>1. ASSUME NEW b \in Bufs
      PROVE  /\ Uses(h, sup)[b] = Cardinality(Holding(h, b)) + Cardinality(Mapping(sup, b))
             /\ Uses(h, sup)[b] \in Nat
             /\ Uses(h, sup)[b] # 0 <=> Holding(h, b) # {} \/ Mapping(sup, b) # {}
  <2>1. /\ Cardinality(Holding(h, b)) = 0 <=> Holding(h, b) = {}
        /\ Cardinality(Mapping(sup, b)) = 0 <=> Mapping(sup, b) = {}
    BY UsersFinite, FS_EmptySet
  <2> QED BY <2>1, UsersFinite DEF Uses
<1> QED BY <1>1 DEF Uses

LEMMA PlusIs ==
  ASSUME NEW u \in [Bufs -> Nat], NEW v \in [Bufs -> Nat], NEW x \in Bufs,
         \A b \in Bufs : v[b] = u[b] + IF b = x THEN 1 ELSE 0
  PROVE  v = Plus(u, {x})
BY DEF Plus

LEMMA MinusIs ==
  ASSUME NEW u \in [Bufs -> Nat], NEW v \in [Bufs -> Nat], NEW x \in Bufs,
         \A b \in Bufs : v[b] = u[b] - IF b = x THEN 1 ELSE 0
  PROVE  v = Minus(u, x)
BY DEF Minus

LEMMA UsesAt ==
  ASSUME NEW h, NEW sup, NEW b \in Bufs
  PROVE  Uses(h, sup)[b] = Cardinality(Holding(h, b)) + Cardinality(Mapping(sup, b))
BY DEF Uses

LEMMA UsesAppend ==
  ASSUME NEW h \in Seq(Bufs), NEW sup, NEW x \in Bufs
  PROVE  Uses(Append(h, x), sup) = Plus(Uses(h, sup), {x})
<1> DEFINE g == Append(h, x)
           n == Len(h) + 1
<1>1. /\ g \in Seq(Bufs) /\ DOMAIN g = (1 .. Len(h)) \cup {n} /\ n \notin 1 .. Len(h)
      /\ \A k \in 1 .. Len(h) : g[k] = h[k]
      /\ g[n] = x /\ DOMAIN h = 1 .. Len(h)
  <2>1. Len(h) \in Nat
    BY LenProperties
  <2>2. 1 .. n = (1 .. Len(h)) \cup {n}
    BY <2>1
  <2> QED BY <2>1, <2>2, AppendProperties, LenProperties
<1> HIDE DEF g, n
<1>2. ASSUME NEW b \in Bufs
      PROVE  Cardinality(Holding(g, b)) = Cardinality(Holding(h, b)) + IF b = x THEN 1 ELSE 0
  <2>1. CASE b = x
    <3>1. Holding(g, b) = Holding(h, b) \cup {n} /\ n \notin Holding(h, b)
      BY <1>1, <2>1 DEF Holding
    <3> QED BY <2>1, <3>1, UsersFinite, FS_AddElement
  <2>2. CASE b # x
    <3>1. Holding(g, b) = Holding(h, b)
      BY <1>1, <2>2 DEF Holding
    <3> QED BY <2>2, <3>1, UsersFinite
  <2> QED BY <2>1, <2>2
<1>3. \A b \in Bufs : /\ Cardinality(Holding(h, b)) \in Nat
                      /\ Cardinality(Mapping(sup, b)) \in Nat
  BY UsersFinite
<1>4. ASSUME NEW b \in Bufs
      PROVE  Uses(g, sup)[b] = Uses(h, sup)[b] + IF b = x THEN 1 ELSE 0
  <2>1. Uses(g, sup)[b] = Cardinality(Holding(g, b)) + Cardinality(Mapping(sup, b))
    BY UsesAt
  <2>2. Uses(h, sup)[b] = Cardinality(Holding(h, b)) + Cardinality(Mapping(sup, b))
    BY UsesAt
  <2>3. CASE b = x
    BY <1>2, <1>3, <2>1, <2>2, <2>3
  <2>4. CASE b # x
    BY <1>2, <1>3, <2>1, <2>2, <2>4
  <2> QED BY <2>3, <2>4
<1>5. Uses(g, sup) = Plus(Uses(h, sup), {x})
  <2>1. Uses(g, sup) \in [Bufs -> Nat] /\ Uses(h, sup) \in [Bufs -> Nat]
    BY <1>1, UsesType
  <2> QED BY <1>4, <2>1, PlusIs
<1> QED BY <1>5 DEF g

LEMMA UsesRemove ==
  ASSUME NEW h \in Seq(Bufs), NEW sup, NEW k \in DOMAIN h
  PROVE  Uses(RemoveAt(h, k), sup) = Minus(Uses(h, sup), h[k])
<1> DEFINE g == RemoveAt(h, k)
           n == Len(h)
<1>1. n \in Nat /\ DOMAIN h = 1 .. n /\ k \in 1 .. n /\ \A i \in 1 .. n : h[i] \in Bufs
  BY LenProperties, ElementOfSeq
<1>2. /\ g \in Seq(Bufs) /\ DOMAIN g = 1 .. n - 1
      /\ \A i \in 1 .. n - 1 : g[i] = IF i < k THEN h[i] ELSE h[i + 1]
  <2>1. /\ g \in Seq(Bufs) /\ Len(g) = n - 1
        /\ \A i \in 1 .. n - 1 : g[i] = IF i < k THEN h[i] ELSE h[i + 1]
    BY <1>1, RemoveAtProperties
  <2> QED BY <2>1, LenProperties
<1> HIDE DEF g, n
<1>3. ASSUME NEW b \in Bufs
      PROVE  Cardinality(Holding(g, b)) = Cardinality(Holding(h, b)) - IF b = h[k] THEN 1 ELSE 0
  <2> DEFINE S == Holding(g, b)
             T == Holding(h, b) \ {k}
             f == [i \in S |-> IF i < k THEN i ELSE i + 1]
  <2>1. f \in [S -> T]
    <3> SUFFICES ASSUME NEW i \in S PROVE (IF i < k THEN i ELSE i + 1) \in T
      OBVIOUS
    <3>1. i \in 1 .. n - 1 /\ g[i] = b
      BY <1>2 DEF Holding
    <3>2. CASE i < k
      BY <1>1, <1>2, <3>1, <3>2 DEF Holding
    <3>3. CASE ~ (i < k)
      BY <1>1, <1>2, <3>1, <3>3 DEF Holding
    <3> QED BY <3>2, <3>3
  <2>2. \A i, j \in S : f[i] = f[j] => i = j
    <3>1. S \subseteq Nat
      BY <1>1, <1>2 DEF Holding
    <3> HIDE DEF S
    <3> QED BY <1>1, <3>1
  <2>3. ASSUME NEW j \in T PROVE \E i \in S : f[i] = j
    <3>1. j \in 1 .. n /\ h[j] = b /\ j # k
      BY <1>1 DEF Holding
    <3>2. CASE j < k
      <4>1. j \in S /\ f[j] = j
        BY <1>1, <1>2, <3>1, <3>2 DEF Holding
      <4> QED BY <4>1
    <3>3. CASE j > k
      <4>1. j - 1 \in 1 .. n - 1 /\ ~ (j - 1 < k) /\ (j - 1) + 1 = j
        BY <1>1, <3>1, <3>3
      <4>2. j - 1 \in S
        BY <1>2, <3>1, <4>1 DEF Holding
      <4>3. f[j - 1] = j
        BY <4>1, <4>2
      <4> QED BY <4>2, <4>3
    <3> QED BY <1>1, <3>1, <3>2, <3>3
  <2> HIDE DEF f
  <2>4. f \in Bijection(S, T)
    BY <2>1, <2>2, <2>3, Fun_IsBij
  <2>5. Cardinality(T) = Cardinality(S)
    <3>1. IsFiniteSet(S)
      BY <1>2, UsersFinite
    <3> HIDE DEF S, T
    <3> QED BY <2>4, <3>1, FS_Bijection DEF ExistsBijection
  <2>6. IsFiniteSet(Holding(h, b)) /\ Cardinality(Holding(h, b)) \in Nat
    BY UsersFinite
  <2>7. Cardinality(T) = IF k \in Holding(h, b) THEN Cardinality(Holding(h, b)) - 1
                         ELSE Cardinality(Holding(h, b))
    BY <2>6, FS_RemoveElement
  <2>8. k \in Holding(h, b) <=> b = h[k]
    BY DEF Holding
  <2> QED BY <2>5, <2>6, <2>7, <2>8
<1>4. \A b \in Bufs : /\ Cardinality(Holding(h, b)) \in Nat
                      /\ Cardinality(Mapping(sup, b)) \in Nat
  BY UsersFinite
<1>5. \A b \in Bufs : Uses(g, sup)[b] = Uses(h, sup)[b] - IF b = h[k] THEN 1 ELSE 0
  BY <1>1, <1>3, <1>4, UsesAt
<1>6. Uses(g, sup) = Minus(Uses(h, sup), h[k])
  <2>1. Uses(g, sup) \in [Bufs -> Nat] /\ Uses(h, sup) \in [Bufs -> Nat]
    BY <1>1, <1>2, UsesType
  <2> QED BY <1>1, <1>5, <2>1, MinusIs
<1> QED BY <1>6 DEF g

(* A device is mounted in slot n *)
MountAt(sup, n, dev, x) == [sup EXCEPT ![n] = [dev |-> dev, map |-> x]]

LEMMA UsesMount ==
  ASSUME NEW h \in Seq(Bufs), NEW sup \in Tables, NEW n \in Supers, n \notin Mounts(sup),
         NEW dev \in Devs, NEW x \in Bufs,
         NEW new, new = MountAt(sup, n, dev, x)
  PROVE  Uses(h, new) = Plus(Uses(h, sup), {x}) /\ Mounts(new) = Mounts(sup) \cup {n}
<1>1. /\ Mounts(new) = Mounts(sup) \cup {n} /\ new[n].map = x
      /\ \A m \in Supers \ {n} : new[m] = sup[m]
  BY DevsAre DEF Mounts, Tables, MountAt
<1>2. ASSUME NEW b \in Bufs
      PROVE  Cardinality(Mapping(new, b)) = Cardinality(Mapping(sup, b)) + IF b = x THEN 1 ELSE 0
  <2>1. CASE b = x
    <3>1. Mapping(new, b) = Mapping(sup, b) \cup {n} /\ n \notin Mapping(sup, b)
      BY <1>1, <2>1 DEF Mapping, Mounts
    <3> QED BY <2>1, <3>1, UsersFinite, FS_AddElement
  <2>2. CASE b # x
    <3>1. Mapping(new, b) = Mapping(sup, b)
      BY <1>1, <2>2 DEF Mapping, Mounts
    <3> QED BY <2>2, <3>1, UsersFinite
  <2> QED BY <2>1, <2>2
<1>3. \A b \in Bufs : /\ Cardinality(Holding(h, b)) \in Nat
                      /\ Cardinality(Mapping(sup, b)) \in Nat
  BY UsersFinite
<1>4. ASSUME NEW b \in Bufs
      PROVE  Uses(h, new)[b] = Uses(h, sup)[b] + IF b = x THEN 1 ELSE 0
  <2>1. Uses(h, new)[b] = Cardinality(Holding(h, b)) + Cardinality(Mapping(new, b))
    BY UsesAt
  <2>2. Uses(h, sup)[b] = Cardinality(Holding(h, b)) + Cardinality(Mapping(sup, b))
    BY UsesAt
  <2>3. CASE b = x
    BY <1>2, <1>3, <2>1, <2>2, <2>3
  <2>4. CASE b # x
    BY <1>2, <1>3, <2>1, <2>2, <2>4
  <2> QED BY <2>3, <2>4
<1>5. Uses(h, new) = Plus(Uses(h, sup), {x})
  <2>1. Uses(h, new) \in [Bufs -> Nat] /\ Uses(h, sup) \in [Bufs -> Nat]
    BY UsesType
  <2> QED BY <1>4, <2>1, PlusIs
<1> QED BY <1>1, <1>5

(* The device in slot n is unmounted; what is in the slot stays *)
UnmountAt(sup, n) == [sup EXCEPT ![n].dev = NO_DEV]

LEMMA UsesUnmount ==
  ASSUME NEW h \in Seq(Bufs), NEW sup \in Tables, NEW n \in Mounts(sup), sup[n].map \in Bufs,
         NEW new, new = UnmountAt(sup, n)
  PROVE  Uses(h, new) = Minus(Uses(h, sup), sup[n].map) /\ Mounts(new) = Mounts(sup) \ {n}
<1>1. /\ Mounts(new) = Mounts(sup) \ {n}
      /\ \A m \in Supers \ {n} : new[m] = sup[m]
  BY DEF Mounts, Tables, UnmountAt
<1>2. ASSUME NEW b \in Bufs
      PROVE  Cardinality(Mapping(new, b)) =
               Cardinality(Mapping(sup, b)) - IF b = sup[n].map THEN 1 ELSE 0
  <2>1. Mapping(new, b) = Mapping(sup, b) \ {n}
    BY <1>1 DEF Mapping, Mounts
  <2>2. n \in Mapping(sup, b) <=> b = sup[n].map
    BY DEF Mapping
  <2>3. IsFiniteSet(Mapping(sup, b)) /\ Cardinality(Mapping(sup, b)) \in Nat
    BY UsersFinite
  <2>4. Cardinality(Mapping(sup, b) \ {n}) =
          IF n \in Mapping(sup, b) THEN Cardinality(Mapping(sup, b)) - 1
          ELSE Cardinality(Mapping(sup, b))
    BY <2>3, FS_RemoveElement
  <2> QED BY <2>1, <2>2, <2>3, <2>4
<1>3. \A b \in Bufs : /\ Cardinality(Holding(h, b)) \in Nat
                      /\ Cardinality(Mapping(sup, b)) \in Nat
  BY UsersFinite
<1>4. ASSUME NEW b \in Bufs
      PROVE  Uses(h, new)[b] = Uses(h, sup)[b] - IF b = sup[n].map THEN 1 ELSE 0
  <2>1. Uses(h, new)[b] = Cardinality(Holding(h, b)) + Cardinality(Mapping(new, b))
    BY UsesAt
  <2>2. Uses(h, sup)[b] = Cardinality(Holding(h, b)) + Cardinality(Mapping(sup, b))
    BY UsesAt
  <2>3. CASE b = sup[n].map
    BY <1>2, <1>3, <2>1, <2>2, <2>3
  <2>4. CASE b # sup[n].map
    BY <1>2, <1>3, <2>1, <2>2, <2>4
  <2> QED BY <2>3, <2>4
<1>5. Uses(h, new) = Minus(Uses(h, sup), sup[n].map)
  <2>1. Uses(h, new) \in [Bufs -> Nat] /\ Uses(h, sup) \in [Bufs -> Nat]
    BY UsesType
  <2> QED BY <1>4, <2>1, MinusIs
<1> QED BY <1>1, <1>5

(* No more buffers are used than there are users *)
LEMMA UsesBound ==
  ASSUME NEW h \in Seq(Bufs), NEW sup \in Tables, \A n \in Mounts(sup) : sup[n].map \in Bufs
  PROVE  Cardinality(InUse(Uses(h, sup))) <= Len(h) + Cardinality(Mounts(sup))
<1> DEFINE A == {h[k] : k \in 1 .. Len(h)}
           B == {sup[n].map : n \in Mounts(sup)}
           f == [n \in Mounts(sup) |-> sup[n].map]
<1>1. Len(h) \in Nat /\ DOMAIN h = 1 .. Len(h) /\ h \in [1 .. Len(h) -> Bufs]
  BY LenProperties
<1>2. IsFiniteSet(A) /\ Cardinality(A) <= Len(h)
  <2>1. h \in Surjection(1 .. Len(h), A)
    <3>1. h \in [1 .. Len(h) -> A]
      BY <1>1
    <3>2. \A a \in A : \E k \in 1 .. Len(h) : h[k] = a
      OBVIOUS
    <3> HIDE DEF A
    <3> QED BY <3>1, <3>2, Fun_IsSurj
  <2>2. IsFiniteSet(1 .. Len(h)) /\ Cardinality(1 .. Len(h)) = Len(h)
    BY <1>1, FS_Interval
  <2> HIDE DEF A
  <2> QED BY <2>1, <2>2, FS_Surjection
<1>3. IsFiniteSet(B) /\ Cardinality(B) <= Cardinality(Mounts(sup))
  <2>1. f \in Surjection(Mounts(sup), B)
    <3>1. f \in [Mounts(sup) -> B]
      OBVIOUS
    <3>2. \A a \in B : \E n \in Mounts(sup) : f[n] = a
      OBVIOUS
    <3> HIDE DEF B, f
    <3> QED BY <3>1, <3>2, Fun_IsSurj
  <2>2. IsFiniteSet(Mounts(sup))
    BY UsersFinite
  <2> HIDE DEF B, f
  <2> QED BY <2>1, <2>2, FS_Surjection
<1>4. InUse(Uses(h, sup)) \subseteq A \cup B
  <2> SUFFICES ASSUME NEW b \in Bufs, Uses(h, sup)[b] # 0 PROVE b \in A \cup B
    BY DEF InUse
  <2>1. Holding(h, b) # {} \/ Mapping(sup, b) # {}
    BY UsesType
  <2> QED BY <1>1, <2>1 DEF Holding, Mapping
<1> HIDE DEF A, B
<1>5. IsFiniteSet(A \cup B) /\ Cardinality(A \cup B) <= Cardinality(A) + Cardinality(B)
  <2>1. Cardinality(A \cup B) = Cardinality(A) + Cardinality(B) - Cardinality(A \cap B)
    BY <1>2, <1>3, FS_Union
  <2>2. IsFiniteSet(A \cap B)
    BY <1>2, FS_Subset
  <2> QED BY <1>2, <1>3, <2>1, <2>2, FS_CardinalityType, FS_Union
<1>6. Cardinality(InUse(Uses(h, sup))) <= Cardinality(A \cup B)
  BY <1>4, <1>5, FS_Subset
<1> QED BY <1>1, <1>2, <1>3, <1>5, <1>6, UsersFinite, UsesFinite, FS_CardinalityType

(* Between calls a buffer is in use for each mounted device *)
LEMMA UsesBetween ==
  ASSUME NEW sup \in Tables, \A n \in Mounts(sup) : sup[n].map \in Bufs,
         \A m, n \in Mounts(sup) : m # n => sup[m].map # sup[n].map
  PROVE  Cardinality(InUse(Uses(<<>>, sup))) = Cardinality(Mounts(sup))
<1> DEFINE U == InUse(Uses(<<>>, sup))
           f == [n \in Mounts(sup) |-> sup[n].map]
<1>1. <<>> \in Seq(Bufs) /\ \A b : Holding(<<>>, b) = {}
  BY DEF Holding
<1>2. \A b : b \in U <=> b \in Bufs /\ \E n \in Mounts(sup) : sup[n].map = b
  <2> DEFINE h == <<>>
  <2>1. h \in Seq(Bufs) /\ \A b : Holding(h, b) = {}
    BY <1>1
  <2> HIDE DEF h
  <2>2. \A b \in Bufs : Uses(h, sup)[b] # 0 <=> Mapping(sup, b) # {}
    BY <2>1, UsesType
  <2>3. \A b : b \in InUse(Uses(h, sup)) <=> b \in Bufs /\ \E n \in Mounts(sup) : sup[n].map = b
    BY <2>2 DEF InUse, Mapping
  <2> QED BY <2>3 DEF h
<1> HIDE DEF U
<1>3. f \in Bijection(Mounts(sup), U)
  <2>1. f \in [Mounts(sup) -> U]
    BY <1>2
  <2>2. \A m, n \in Mounts(sup) : f[m] = f[n] => m = n
    OBVIOUS
  <2>3. \A b \in U : \E n \in Mounts(sup) : f[n] = b
    BY <1>2
  <2> HIDE DEF f
  <2> QED BY <2>1, <2>2, <2>3, Fun_IsBij
<1>4. IsFiniteSet(Mounts(sup))
  BY <1>1, UsersFinite
<1> HIDE DEF f
<1>5. Cardinality(U) = Cardinality(Mounts(sup))
  BY <1>3, <1>4, FS_Bijection DEF ExistsBijection
<1> QED BY <1>5 DEF U

(* A buffer that is held, or that has a bit map, is in use *)
LEMMA Used1 ==
  ASSUME NEW h \in Seq(Bufs), NEW sup \in Tables
  PROVE  /\ \A k \in DOMAIN h : h[k] \in Bufs /\ Uses(h, sup)[h[k]] # 0
         /\ \A n \in Mounts(sup) : sup[n].map \in Bufs => Uses(h, sup)[sup[n].map] # 0
<1>1. \A k \in DOMAIN h : h[k] \in Bufs
  BY LenProperties, ElementOfSeq
<1>2. \A k \in DOMAIN h : k \in Holding(h, h[k])
  BY DEF Holding
<1>3. \A n \in Mounts(sup) : n \in Mapping(sup, sup[n].map)
  BY DEF Mapping
<1> QED BY <1>1, <1>2, <1>3, UsesType

-----------------------------------------------------------------------------
(* The super block table.  Slots are taken from the last one on, and what  *)
(* is in a slot when its device is unmounted stays there.  Slot n has been *)
(* taken only when the later ones were, and only with enough buffers       *)
Slots(sup) ==
  /\ sup \in Tables
  /\ sup[1].dev = ROOT_DEV
  /\ \A n \in Mounts(sup) : sup[n].map \in Bufs
  /\ \A m, n \in Mounts(sup) : m # n => sup[m].dev # sup[n].dev /\ sup[m].map # sup[n].map
  /\ \A n \in Supers \ {1} : sup[n].map # NIL => NR_SUPERS - n + 2 <= NR_BUFS - MARGIN - 1
  /\ Cardinality(Mounts(sup)) <= 1 \/ Cardinality(Mounts(sup)) <= NR_BUFS - MARGIN - 1

(* A call that holds less blocks than it may finds a buffer *)
LEMMA SlotsRoom ==
  ASSUME NEW h \in Seq(Bufs), NEW sup, Slots(sup), Len(h) < MaxHeld
  PROVE  Cardinality(InUse(Uses(h, sup))) < NR_BUFS
<1>1. Cardinality(InUse(Uses(h, sup))) <= Len(h) + Cardinality(Mounts(sup))
  BY UsesBound DEF Slots
<1>2. /\ Cardinality(Mounts(sup)) \in Nat /\ Len(h) \in Nat
      /\ Cardinality(InUse(Uses(h, sup))) \in Nat
  BY UsersFinite, LenProperties, UsesFinite
<1>3. Cardinality(Mounts(sup)) <= 1 \/ Cardinality(Mounts(sup)) <= NR_BUFS - MARGIN - 1
  BY DEF Slots
<1> QED BY <1>1, <1>2, <1>3, Numbers

LEMMA IntervalSize ==
  ASSUME NEW a \in Int, NEW b \in Int, a <= b
  PROVE  IsFiniteSet(a .. b) /\ Cardinality(a .. b) = b - a + 1
BY FS_Interval

(* With all slots from n on taken there are no fewer devices *)
LEMMA Above ==
  ASSUME NEW S \in SUBSET Supers, NEW n \in Supers, n # 1, 1 \in S, n .. NR_SUPERS \subseteq S
  PROVE  NR_SUPERS - n + 2 <= Cardinality(S)
<1>1. n \in Int /\ NR_SUPERS \in Int /\ n <= NR_SUPERS /\ n > 1
  BY Numbers DEF Supers
<1>2. IsFiniteSet(n .. NR_SUPERS) /\ Cardinality(n .. NR_SUPERS) = NR_SUPERS - n + 1
  BY <1>1, IntervalSize
<1>3. /\ IsFiniteSet((n .. NR_SUPERS) \cup {1})
      /\ Cardinality((n .. NR_SUPERS) \cup {1}) = NR_SUPERS - n + 2
  <2>1. 1 \notin n .. NR_SUPERS
    BY <1>1
  <2>2. (NR_SUPERS - n + 1) + 1 = NR_SUPERS - n + 2
    BY <1>1
  <2> HIDE DEF Supers
  <2>3. /\ IsFiniteSet((n .. NR_SUPERS) \cup {1})
        /\ Cardinality((n .. NR_SUPERS) \cup {1}) = Cardinality(n .. NR_SUPERS) + 1
    BY <1>2, <2>1, FS_AddElement
  <2> QED BY <1>2, <2>2, <2>3
<1>4. IsFiniteSet(S) /\ (n .. NR_SUPERS) \cup {1} \in SUBSET S
  <2>1. IsFiniteSet(Supers)
    BY Numbers, FS_Interval DEF Supers
  <2> QED BY <2>1, FS_Subset
<1> QED BY <1>3, <1>4, FS_Subset

(* A device cannot fail to be mounted in a slot that was taken before:     *)
(* there were enough buffers then                                          *)
LEMMA NotStale ==
  ASSUME NEW sup, Slots(sup), NEW n \in Supers, n \notin Mounts(sup), sup[n].map # NIL
  PROVE  Cardinality(Mounts(sup)) + 1 < NR_BUFS - MARGIN
<1> DEFINE T == {k \in Supers \ {1} : sup[k].map # NIL}
           S == Mounts(sup)
<1>1. 1 \in Supers /\ 1 \in S /\ n # 1 /\ IsFiniteSet(Supers)
  <2>1. 1 \in Supers
    BY Numbers DEF Supers
  <2>2. IsFiniteSet(Supers)
    BY Numbers, FS_Interval DEF Supers
  <2>3. 1 \in Mounts(sup)
    BY <2>1, DevsAre DEF Mounts, Slots
  <2> QED BY <2>1, <2>2, <2>3
<1>2. PICK m \in T : \A k \in T : m <= k
  <2>1. n \in T /\ T \subseteq Nat
    BY <1>1 DEF Supers
  <2> HIDE DEF T
  <2> QED BY <2>1, LeastNat
<1>3. m \in Int /\ m > 1 /\ m <= NR_SUPERS /\ NR_SUPERS \in Int /\ n \in m .. NR_SUPERS
  <2>1. n \in T
    BY <1>1
  <2> QED BY <1>2, <2>1, Numbers DEF Supers
<1>4. S \subseteq ((m .. NR_SUPERS) \ {n}) \cup {1}
  <2> SUFFICES ASSUME NEW k \in S, k # 1 PROVE k \in (m .. NR_SUPERS) \ {n}
    OBVIOUS
  <2>1. k \in T
    BY Numbers DEF Mounts, Slots
  <2>2. m <= k /\ k \in Supers /\ k # n
    BY <1>2, <2>1
  <2> QED BY <1>3, <2>2 DEF Supers
<1>5. /\ IsFiniteSet((m .. NR_SUPERS) \ {n})
      /\ Cardinality((m .. NR_SUPERS) \ {n}) = NR_SUPERS - m
  <2> HIDE DEF T, S
  <2>1. IsFiniteSet(m .. NR_SUPERS) /\ Cardinality(m .. NR_SUPERS) = NR_SUPERS - m + 1
    BY <1>3, IntervalSize
  <2>2. (NR_SUPERS - m + 1) - 1 = NR_SUPERS - m
    BY <1>3
  <2> QED BY <1>3, <2>1, <2>2, FS_RemoveElement
<1>6. /\ IsFiniteSet(((m .. NR_SUPERS) \ {n}) \cup {1})
      /\ Cardinality(((m .. NR_SUPERS) \ {n}) \cup {1}) <= NR_SUPERS - m + 1
  <2> DEFINE I == (m .. NR_SUPERS) \ {n}
  <2>1. NR_SUPERS - m \in Int
    BY <1>3
  <2>2. IsFiniteSet(I) /\ Cardinality(I) = NR_SUPERS - m
    BY <1>5
  <2> HIDE DEF I
  <2>3. /\ IsFiniteSet(I \cup {1})
        /\ Cardinality(I \cup {1}) = IF 1 \in I THEN Cardinality(I) ELSE Cardinality(I) + 1
    BY <2>2, FS_AddElement
  <2>4. Cardinality(I \cup {1}) <= NR_SUPERS - m + 1
    BY <2>1, <2>2, <2>3
  <2> QED BY <2>3, <2>4 DEF I
<1>7. Cardinality(S) <= NR_SUPERS - m + 1 /\ Cardinality(S) \in Nat
  <2>1. Cardinality(S) <= Cardinality(((m .. NR_SUPERS) \ {n}) \cup {1}) /\ IsFiniteSet(S)
    BY <1>4, <1>6, FS_Subset
  <2>2. Cardinality(S) \in Nat /\ Cardinality(((m .. NR_SUPERS) \ {n}) \cup {1}) \in Nat
    BY <1>6, <2>1, FS_CardinalityType
  <2> QED BY <1>3, <1>6, <2>1, <2>2
<1>8. NR_SUPERS - m + 2 <= NR_BUFS - MARGIN - 1
  BY <1>2 DEF Slots
<1> QED BY <1>3, <1>7, <1>8, Numbers

-----------------------------------------------------------------------------
(* Reading ahead.  The buffers bs wait for their blocks of dev, which are  *)
(* different, not after block m, and in no buffer                          *)
Absent(y, dev, block) == \A a \in Bufs : ~ (y.buf[a].dev = dev /\ y.buf[a].block = block)
Waiting(y, dev, bs, m) ==
  /\ \A b \in bs : /\ ~ Valid(y, b) /\ y.buf[b].block \in Blocks /\ y.buf[b].block <= m
                   /\ Absent(y, dev, y.buf[b].block)
  /\ \A a, b \in bs : y.buf[a].block = y.buf[b].block => a = b

LEMMA FoundAbsent ==
  ASSUME NEW y, NEW dev \in Devs, NEW block
  PROVE  Found(y, dev, block) = {} <=> Absent(y, dev, block)
BY DevsAre DEF Found, Absent, Sector

LEMMA PlusTwice ==
  ASSUME NEW u \in [Bufs -> Nat], NEW bs \in SUBSET Bufs, NEW a \in Bufs, a \notin bs,
         NEW cs, cs = bs \cup {a}
  PROVE  Plus(Plus(u, bs), {a}) = Plus(u, cs)
<1>1. \A b \in Bufs : Plus(Plus(u, bs), {a})[b] = Plus(u, cs)[b]
  BY DEF Plus
<1> QED BY <1>1 DEF Plus

LEMMA PlusAt ==
  ASSUME NEW u \in [Bufs -> Nat], NEW bs, NEW b \in Bufs
  PROVE  /\ Plus(u, bs) \in [Bufs -> Nat]
         /\ Plus(u, bs)[b] = u[b] + (IF b \in bs THEN 1 ELSE 0)
         /\ u[b] # 0 => Plus(u, bs)[b] # 0
BY DEF Plus

(* When devices and blocks only disappear, buffers go on waiting *)
LEMMA WaitingKept ==
  ASSUME NEW y, NEW z, NEW dev \in Devs, NEW bs \in SUBSET Bufs, NEW m,
         Waiting(y, dev, bs, m), Kept(y, z, {})
  PROVE  Waiting(z, dev, bs, m)
<1>1. \A b \in Bufs : z.buf[b].block = y.buf[b].block /\ z.buf[b].dev \in {y.buf[b].dev, NO_DEV}
  BY DEF Kept
<1>2. \A b \in bs : ~ Valid(z, b)
  BY <1>1 DEF Waiting, Valid
<1>3. \A b \in bs : Absent(z, dev, y.buf[b].block)
  BY <1>1, DevsAre DEF Waiting, Absent
<1> QED BY <1>1, <1>2, <1>3 DEF Waiting

(* One more buffer is got: it waits, too, unless it has the block already *)
Joined(bs, g) == bs \cup {g.got}
Taken(y, g, u, bs, cs, dev, m) ==
  /\ g.got \in Bufs /\ g.panic = y.panic /\ Near(y, g, u, {dev})
  /\ Good(g, Plus(Plus(u, bs), {g.got}), {})
  /\ Waiting(g, dev, bs, m)
  /\ ~ Valid(g, g.got) => u[g.got] = 0 /\ Good(g, Plus(u, cs), {}) /\ Waiting(g, dev, cs, m)

LEMMA QueueNext ==
  ASSUME NEW u \in [Bufs -> Nat], NEW bs \in SUBSET Bufs, NEW y, Good(y, Plus(u, bs), {}),
         NEW dev \in Devs, NEW m \in Blocks, Waiting(y, dev, bs, m - 1),
         Cardinality(InUse(Plus(u, bs))) < NR_BUFS,
         NEW bad, NEW g, g = get_block(y, dev, m, "PREFETCH", bad),
         NEW cs, cs = Joined(bs, g)
  PROVE  Taken(y, g, u, bs, cs, dev, m)
<1> DEFINE v == Plus(u, bs)
<1>1. v \in [Bufs -> Nat] /\ \A b \in Bufs : u[b] # 0 => v[b] # 0
  <2>1. v \in [Bufs -> Nat]
    BY DEF Plus
  <2>2. \A b \in Bufs : u[b] # 0 => v[b] # 0
    BY DEF Plus
  <2> QED BY <2>1, <2>2
<1>2. \A b \in bs : v[b] # 0
  BY DEF Plus
<1>3. Good(y, v, {}) /\ Cardinality(InUse(v)) < NR_BUFS
  OBVIOUS
<1> HIDE DEF v
<1>4. "PREFETCH" \in Searches /\ m \in Blocks \cup {NO_BLOCK} /\ dev \in Devs \cup {NO_DEV}
  BY DEF Searches
<1>5. Got(y, g, v, dev, m, "PREFETCH")
  BY <1>3, <1>4, Gets
<1>6. Near(y, g, v, {dev})
  BY <1>3, <1>4, GetsNear
<1>7. Near(y, g, u, {dev})
  BY <1>1, <1>6 DEF Near
<1>8. Good(g, Plus(v, {g.got}), {}) /\ g.got \in Bufs /\ g.panic = y.panic
  BY <1>5 DEF Got, Fresh
<1>9. \A b \in Bufs \ {g.got} : /\ g.buf[b].block = y.buf[b].block
                                /\ g.buf[b].dev \in {y.buf[b].dev, NO_DEV}
  BY <1>5 DEF Got, Kept
<1>10. g.buf[g.got].block = m /\ g.buf[g.got].dev \in {NO_DEV, dev}
  BY <1>5 DEF Got
<1>11. m \in Nat /\ \A b \in bs : y.buf[b].block \in Nat /\ y.buf[b].block < m
  BY Numbers DEF Waiting, Blocks
<1>12. g.got \notin bs
  <2> SUFFICES ASSUME g.got \in bs PROVE FALSE
    OBVIOUS
  <2>1. v[g.got] # 0
    BY <1>2
  <2>2. y.buf[g.got].block = m
    BY <1>5, <2>1 DEF Got
  <2> QED BY <1>11, <2>2
<1>13. ASSUME NEW b \in bs PROVE /\ ~ Valid(g, b) /\ g.buf[b].block = y.buf[b].block
                                 /\ Absent(g, dev, g.buf[b].block)
  <2>1. b \in Bufs \ {g.got}
    BY <1>12
  <2>2. ~ Valid(g, b) /\ g.buf[b].block = y.buf[b].block
    BY <1>9, <2>1 DEF Waiting, Valid
  <2>3. Absent(y, dev, y.buf[b].block) /\ y.buf[b].block # m
    BY <1>11 DEF Waiting
  <2>4. Absent(g, dev, y.buf[b].block)
    BY <1>9, <1>10, <2>3, DevsAre DEF Absent
  <2> QED BY <2>2, <2>4
<1>14. \A b \in bs : g.buf[b].block \in Blocks /\ g.buf[b].block < m
  BY <1>11, <1>13 DEF Waiting
<1>15. Waiting(g, dev, bs, m)
  <2>1. \A b \in bs : g.buf[b].block <= m
    BY <1>11, <1>13
  <2> QED BY <1>13, <1>14, <2>1 DEF Waiting
<1>16. ASSUME ~ Valid(g, g.got)
       PROVE  u[g.got] = 0 /\ Good(g, Plus(u, cs), {}) /\ Waiting(g, dev, cs, m)
  <2>1. Found(y, dev, m) = {} /\ v[g.got] = 0
    BY <1>5, <1>16 DEF Got
  <2>2. u[g.got] = 0
    BY <1>1, <1>8, <2>1
  <2>3. Good(g, Plus(u, cs), {})
    <3>1. Plus(v, {g.got}) = Plus(u, cs)
      BY <1>8, <1>12, PlusTwice DEF Joined, v
    <3> QED BY <1>8, <3>1
  <2>4. Absent(g, dev, m)
    <3>1. Absent(y, dev, m)
      BY <2>1, FoundAbsent
    <3> QED BY <1>9, <1>16, <3>1, DevsAre DEF Absent, Valid
  <2>5. \A b \in cs : /\ ~ Valid(g, b) /\ g.buf[b].block \in Blocks /\ g.buf[b].block <= m
                      /\ Absent(g, dev, g.buf[b].block)
    <3> SUFFICES ASSUME NEW b \in cs
                 PROVE  /\ ~ Valid(g, b) /\ g.buf[b].block \in Blocks /\ g.buf[b].block <= m
                        /\ Absent(g, dev, g.buf[b].block)
      OBVIOUS
    <3>1. CASE b = g.got
      BY <1>10, <1>11, <1>16, <2>4, <3>1
    <3>2. CASE b \in bs
      BY <1>15, <3>2 DEF Waiting
    <3> QED BY <3>1, <3>2 DEF Joined
  <2>6. \A a, b \in cs : g.buf[a].block = g.buf[b].block => a = b
    <3> SUFFICES ASSUME NEW a \in cs, NEW b \in cs, g.buf[a].block = g.buf[b].block PROVE a = b
      OBVIOUS
    <3>1. \A e \in bs : g.buf[e].block # m
      BY <1>11, <1>14 DEF Blocks
    <3>2. CASE a \in bs /\ b \in bs
      BY <1>15, <3>2 DEF Waiting
    <3>3. CASE a = g.got \/ b = g.got
      BY <1>10, <3>1, <3>3 DEF Joined
    <3> QED BY <3>2, <3>3 DEF Joined
  <2> QED BY <2>2, <2>3, <2>5, <2>6 DEF Waiting
<1> QED BY <1>7, <1>8, <1>15, <1>16 DEF Taken, v

(* The buffers done of those that wait are read *)
ReadIn(x, dev, done) ==
  [x EXCEPT !.buf = [b \in Bufs |->
     IF b \in done THEN [x.buf[b] EXCEPT !.dev = dev,
                                         !.data = x.disk[<<dev, x.buf[b].block>>]]
     ELSE x.buf[b]]]

WereRead(x, y, u, dev, bs) ==
  /\ Good(y, u, {}) /\ y.super = x.super /\ y.panic = x.panic
  /\ \A b \in Bufs : /\ y.buf[b].block = x.buf[b].block
                     /\ y.buf[b].dev \in {x.buf[b].dev, dev}
                     /\ b \notin bs => y.buf[b] = x.buf[b]

LEMMA ReadsIn ==
  ASSUME NEW x, NEW u, Good(x, u, {}), NEW dev \in Devs, NEW bs \in SUBSET Bufs, NEW m,
         Waiting(x, dev, bs, m), NEW done \in SUBSET bs, NEW y, y = ReadIn(x, dev, done)
  PROVE  WereRead(x, y, u, dev, bs)
<1>1. x \in Caches /\ Books(x, u) /\ Single(x) /\ \A b \in Bufs : Clean(x, b)
  BY DEF Good, Books
<1>2. /\ x.buf \in [Bufs -> Buffers] /\ x.disk \in [Sectors -> Data \cup {JUNK}]
  BY <1>1, Fields
<1>3. /\ y.disk = x.disk /\ y.super = x.super /\ y.panic = x.panic /\ y.lru = x.lru
      /\ y.in_use = x.in_use /\ y.got = x.got
  BY <1>1 DEF ReadIn, Caches
<1>4. \A b \in Bufs : y.buf[b] = IF b \in done THEN [x.buf[b] EXCEPT !.dev = dev,
                                         !.data = x.disk[<<dev, x.buf[b].block>>]]
                                 ELSE x.buf[b]
  BY <1>1 DEF ReadIn, Caches
<1>5. \A b \in done : b \in Bufs /\ <<dev, x.buf[b].block>> \in Sectors
  BY DEF Waiting, Sectors
<1>6. \A b \in Bufs : x.buf[b] \in Buffers
  BY <1>2
<1>7. \A b \in Bufs \ done : y.buf[b] = x.buf[b]
  BY <1>4
<1>8. \A b \in done : /\ y.buf[b] \in Buffers /\ y.buf[b].dev = dev
                      /\ y.buf[b].block = x.buf[b].block /\ y.buf[b].count = x.buf[b].count
                      /\ y.buf[b].data = x.disk[<<dev, x.buf[b].block>>]
  <2> SUFFICES ASSUME NEW b \in done
               PROVE  /\ y.buf[b] \in Buffers /\ y.buf[b].dev = dev
                      /\ y.buf[b].block = x.buf[b].block /\ y.buf[b].count = x.buf[b].count
                      /\ y.buf[b].data = x.disk[<<dev, x.buf[b].block>>]
    OBVIOUS
  <2>1. y.buf[b] = [x.buf[b] EXCEPT !.dev = dev, !.data = x.disk[<<dev, x.buf[b].block>>]]
    BY <1>4, <1>5
  <2>2. x.buf[b] \in Buffers /\ x.disk[<<dev, x.buf[b].block>>] \in Data \cup {JUNK}
    BY <1>2, <1>5, <1>6
  <2> HIDE DEF Data, JUNK, Devs
  <2> QED BY <2>1, <2>2 DEF Buffers
<1>9. \A b \in Bufs : /\ y.buf[b] \in Buffers /\ y.buf[b].block = x.buf[b].block
                      /\ y.buf[b].count = x.buf[b].count
                      /\ y.buf[b].dev \in {x.buf[b].dev, dev}
  BY <1>6, <1>7, <1>8
<1>10. y \in Caches
  <2>1. y.buf \in [Bufs -> Buffers]
    <3>1. y.buf = [b \in Bufs |-> y.buf[b]]
      BY <1>1 DEF ReadIn, Caches
    <3> QED BY <1>9, <3>1
  <2>2. y = [x EXCEPT !.buf = y.buf]
    BY <1>1 DEF ReadIn, Caches
  <2> QED BY <1>1, <2>1, <2>2 DEF Caches, Buffers
<1>11. Books(y, u)
  BY <1>1, <1>3, <1>9, <1>10 DEF Books
<1>12. Single(y)
  <2>1. ASSUME NEW b \in Bufs, Valid(y, b) PROVE Sector(y, b) \in Sectors
    <3>1. CASE b \in done
      BY <1>5, <1>8, <3>1 DEF Sector
    <3>2. CASE b \notin done
      BY <1>1, <1>7, <2>1, <3>2 DEF Single, Sector, Valid
    <3> QED BY <3>1, <3>2
  <2>2. ASSUME NEW b1 \in Bufs, NEW b2 \in Bufs, Sector(y, b1) = Sector(y, b2), Valid(y, b1)
        PROVE  b1 = b2
    <3>1. y.buf[b1].dev = y.buf[b2].dev /\ x.buf[b1].block = x.buf[b2].block
      BY <1>9, <2>2 DEF Sector
    <3>2. CASE b1 \in done /\ b2 \in done
      BY <3>1, <3>2 DEF Waiting
    <3>3. CASE b1 \in done /\ b2 \notin done
      <4>1. x.buf[b2].dev = dev /\ x.buf[b2].block = x.buf[b1].block
        BY <1>7, <1>8, <3>1, <3>3
      <4>2. Absent(x, dev, x.buf[b1].block)
        BY <3>3 DEF Waiting
      <4> QED BY <4>1, <4>2 DEF Absent
    <3>4. CASE b1 \notin done /\ b2 \in done
      <4>1. x.buf[b1].dev = dev /\ x.buf[b1].block = x.buf[b2].block
        BY <1>7, <1>8, <3>1, <3>4
      <4>2. Absent(x, dev, x.buf[b2].block)
        BY <3>4 DEF Waiting
      <4> QED BY <4>1, <4>2 DEF Absent
    <3>5. CASE b1 \notin done /\ b2 \notin done
      BY <1>1, <1>7, <2>2, <3>5 DEF Single, Sector, Valid
    <3> QED BY <3>2, <3>3, <3>4, <3>5
  <2> QED BY <2>1, <2>2 DEF Single
<1>13. ASSUME NEW b \in Bufs PROVE Clean(y, b)
  <2>1. CASE b \in done
    BY <1>3, <1>8, <2>1 DEF Clean, Sector
  <2>2. CASE b \notin done
    BY <1>1, <1>3, <1>7, <2>2 DEF Clean, Sector, Valid
  <2> QED BY <2>1, <2>2
<1>14. Good(y, u, {})
  BY <1>11, <1>12, <1>13 DEF Good
<1> QED BY <1>3, <1>7, <1>9, <1>14 DEF WereRead

(* They are put in the order of their blocks.  Unread: those after block k *)
Unread(x, bs, k) == {b \in bs : x.buf[b].block > k}
PutUpTo(x, r, u, bs, k) ==
  {y \in Caches : /\ Good(y, Plus(u, Unread(x, bs, k)), {})
                  /\ Kept(r, y, {}) /\ y.panic = r.panic}

(* What is added to the uses of several buffers is taken from one *)
LEMMA PlusLess ==
  ASSUME NEW u \in [Bufs -> Nat], NEW bs \in SUBSET Bufs, NEW e \in bs, NEW cs, cs = bs \ {e}
  PROVE  Plus(u, bs)[e] # 0 /\ Minus(Plus(u, bs), e) = Plus(u, cs)
<1>1. Plus(u, bs)[e] # 0
  BY DEF Plus
<1>2. Minus(Plus(u, bs), e) = [b \in Bufs |-> Minus(Plus(u, bs), e)[b]]
  BY DEF Plus, Minus
<1>3. ASSUME NEW b \in Bufs PROVE Minus(Plus(u, bs), e)[b] = Plus(u, cs)[b]
  <2>1. CASE b = e
    BY <2>1 DEF Plus, Minus
  <2>2. CASE b # e
    BY <2>2 DEF Plus, Minus
  <2> QED BY <2>1, <2>2
<1> QED BY <1>1, <1>2, <1>3 DEF Plus

LEMMA PutsNext ==
  ASSUME NEW u \in [Bufs -> Nat], NEW x, NEW r, NEW bs \in SUBSET Bufs,
         \A b \in bs : x.buf[b].block \in Blocks,
         \A a, b \in bs : x.buf[a].block = x.buf[b].block => a = b,
         NEW k \in 1 .. NR_BLOCKS, NEW y \in PutUpTo(x, r, u, bs, k - 1)
  PROVE  /\ (\A b \in bs : x.buf[b].block # k) => y \in PutUpTo(x, r, u, bs, k)
         /\ (\E b \in bs : x.buf[b].block = k) =>
               put_block(y, CHOOSE b \in bs : x.buf[b].block = k, {}, {})
                 \in PutUpTo(x, r, u, bs, k)
<1>1. \A b \in bs : x.buf[b].block \in Nat
  BY DEF Blocks
<1>2. ASSUME \A b \in bs : x.buf[b].block # k PROVE y \in PutUpTo(x, r, u, bs, k)
  <2>1. Unread(x, bs, k) = Unread(x, bs, k - 1)
    BY <1>1, <1>2 DEF Unread
  <2> QED BY <2>1 DEF PutUpTo
<1>3. ASSUME NEW e \in bs, x.buf[e].block = k, NEW z, z = put_block(y, e, {}, {})
      PROVE  z \in PutUpTo(x, r, u, bs, k)
  <2> DEFINE S == Unread(x, bs, k - 1)
             T == Unread(x, bs, k)
  <2>1. e \in S /\ T = S \ {e} /\ S \in SUBSET Bufs
    BY <1>1, <1>3 DEF Unread
  <2>2. Good(y, Plus(u, S), {}) /\ Kept(r, y, {}) /\ y.panic = r.panic
    BY DEF PutUpTo
  <2> HIDE DEF S, T
  <2>3. Plus(u, S)[e] # 0 /\ Minus(Plus(u, S), e) = Plus(u, T)
    BY <2>1, PlusLess
  <2> DEFINE v == Plus(u, S)
             ty == {}
  <2>4. Good(y, v, {}) /\ v[e] # 0 /\ e \in Bufs /\ z = put_block(y, e, ty, {})
    BY <1>3, <2>2, <2>3
  <2> HIDE DEF v, ty
  <2>5. Good(z, Minus(v, e), {}) /\ Kept(y, z, {}) /\ z.panic = y.panic
    BY <2>4, Puts
  <2>6. Kept(r, z, {})
    BY <2>2, <2>5, KeptTrans
  <2>7. z \in Caches
    BY <2>5 DEF Good, Books
  <2> QED BY <2>2, <2>3, <2>5, <2>6, <2>7 DEF PutUpTo, v, T
<1>4. ASSUME \E b \in bs : x.buf[b].block = k
      PROVE  put_block(y, CHOOSE b \in bs : x.buf[b].block = k, {}, {})
               \in PutUpTo(x, r, u, bs, k)
  <2> DEFINE e == CHOOSE b \in bs : x.buf[b].block = k
  <2>1. e \in bs /\ x.buf[e].block = k
    BY <1>4
  <2> HIDE DEF e
  <2>2. put_block(y, e, {}, {}) \in PutUpTo(x, r, u, bs, k)
    BY <1>3, <2>1
  <2> QED BY <2>2 DEF e
<1> QED BY <1>2, <1>4

Unused(u, bs) == \A b \in bs : u[b] = 0

LEMMA ReadsAll ==
  ASSUME NEW x, NEW u \in [Bufs -> Nat], NEW bs \in SUBSET Bufs, Good(x, Plus(u, bs), {}),
         NEW dev \in Devs, NEW m, Waiting(x, dev, bs, m), NEW done \in SUBSET bs,
         Unused(u, bs), NEW y, y = ReadAll(x, dev, bs, done)
  PROVE  Good(y, u, {}) /\ Near(x, y, u, {dev}) /\ y.panic = x.panic
<1> DEFINE n == NR_BLOCKS
           r == ReadIn(x, dev, done)
           PutAt(k, z) == IF \A b \in bs : x.buf[b].block # k THEN z
                          ELSE put_block(z, CHOOSE b \in bs : x.buf[b].block = k, {}, {})
           F == [k \in 1 .. n |-> [z \in Caches |-> PutAt(k, z)]]
           P == [k \in 0 .. n |-> PutUpTo(x, r, u, bs, k)]
           Def(f) == f = [k \in 0 .. n |-> IF k = 0 THEN r ELSE PutAt(k, f[k - 1])]
           f == CHOOSE f : Def(f)
<1>1. y = f[n]
  BY DEF ReadAll, ReadIn
<1>2. n \in Nat
  BY Numbers
<1>3. /\ Good(r, Plus(u, bs), {}) /\ r.super = x.super /\ r.panic = x.panic
      /\ \A b \in Bufs : /\ r.buf[b].block = x.buf[b].block
                         /\ r.buf[b].dev \in {x.buf[b].dev, dev}
                         /\ b \notin bs => r.buf[b] = x.buf[b]
  <2> DEFINE v == Plus(u, bs)
  <2>1. Good(x, v, {})
    OBVIOUS
  <2> HIDE DEF v, r
  <2>2. WereRead(x, r, v, dev, bs)
    <3>1. r = ReadIn(x, dev, done)
      BY DEF r
    <3> QED BY <2>1, <3>1, ReadsIn
  <2> QED BY <2>2 DEF v, WereRead
<1> HIDE DEF r
<1>4. /\ \A b \in bs : x.buf[b].block \in Blocks
      /\ \A a, b \in bs : x.buf[a].block = x.buf[b].block => a = b
  BY DEF Waiting
<1>5. r \in P[0]
  <2>1. Unread(x, bs, 0) = bs
    BY <1>4 DEF Unread, Blocks
  <2>2. r \in Caches
    BY <1>3 DEF Good, Books
  <2>3. Kept(r, r, {})
    BY KeptRefl
  <2>4. r \in PutUpTo(x, r, u, bs, 0)
    BY <1>3, <2>1, <2>2, <2>3 DEF PutUpTo
  <2> QED BY <1>2, <2>4
<1>6. \A k \in 1 .. n : \A z \in P[k - 1] : PutAt(k, z) \in P[k]
  <2> SUFFICES ASSUME NEW k \in 1 .. n, NEW z \in P[k - 1] PROVE PutAt(k, z) \in P[k]
    OBVIOUS
  <2>1. /\ k \in 1 .. NR_BLOCKS /\ z \in PutUpTo(x, r, u, bs, k - 1)
        /\ P[k] = PutUpTo(x, r, u, bs, k)
    BY <1>2
  <2>2. /\ (\A b \in bs : x.buf[b].block # k) => z \in PutUpTo(x, r, u, bs, k)
        /\ (\E b \in bs : x.buf[b].block = k) =>
               put_block(z, CHOOSE b \in bs : x.buf[b].block = k, {}, {})
                 \in PutUpTo(x, r, u, bs, k)
    BY <1>4, <2>1, PutsNext
  <2> QED BY <2>1, <2>2
<1>7. \A k \in 0 .. n : P[k] \subseteq Caches
  BY DEF PutUpTo
<1> HIDE DEF P, n, PutAt
<1>8. PICK p : IsRec(p, n, r, F)
  <2> HIDE DEF F
  <2> QED BY <1>2, Recursion
<1>9. \A k \in 0 .. n : p[k] \in P[k]
  <2>1. p[0] \in P[0]
    BY <1>2, <1>5, <1>8 DEF IsRec
  <2>2. ASSUME NEW k \in 1 .. n, p[k - 1] \in P[k - 1] PROVE p[k] \in P[k]
    <3>1. p[k] = F[k][p[k - 1]]
      <4> HIDE DEF F
      <4> QED BY <1>2, <1>8 DEF IsRec
    <3>2. k - 1 \in 0 .. n
      BY <1>2
    <3>3. F[k][p[k - 1]] = PutAt(k, p[k - 1])
      BY <1>7, <2>2, <3>2
    <3> QED BY <1>6, <2>2, <3>1, <3>3
  <2> QED BY <1>2, <2>1, <2>2, Steps
<1>10. Def(p)
  <2>1. ASSUME NEW k \in 0 .. n
        PROVE  p[k] = IF k = 0 THEN r ELSE PutAt(k, p[k - 1])
    <3>1. CASE k = 0
      BY <1>8, <3>1 DEF IsRec
    <3>2. CASE k # 0
      <4>1. k \in 1 .. n /\ k - 1 \in 0 .. n
        BY <1>2, <3>2
      <4>2. F[k][p[k - 1]] = PutAt(k, p[k - 1])
        BY <1>7, <1>9, <4>1
      <4> QED BY <1>8, <3>2, <4>2 DEF IsRec
    <3> QED BY <3>1, <3>2
  <2>2. p = [k \in 0 .. n |-> p[k]]
    BY <1>8 DEF IsRec
  <2> HIDE DEF F
  <2> QED BY <2>1, <2>2
<1>11. Def(f)
  BY <1>10
<1> HIDE DEF f
<1>12. \A k \in 0 .. n : f[k] \in P[k]
  <2>1. f[0] \in P[0]
    BY <1>2, <1>5, <1>11
  <2>2. ASSUME NEW k \in 1 .. n, f[k - 1] \in P[k - 1] PROVE f[k] \in P[k]
    <3>1. f[k] = PutAt(k, f[k - 1])
      BY <1>2, <1>11
    <3> QED BY <1>6, <2>2, <3>1
  <2> QED BY <1>2, <2>1, <2>2, Steps
<1>13. y \in PutUpTo(x, r, u, bs, n)
  <2>1. f[n] \in P[n]
    BY <1>2, <1>12
  <2> QED BY <1>1, <1>2, <2>1 DEF P
<1>14. Good(y, u, {})
  <2>1. Unread(x, bs, n) = {}
    BY <1>4, Numbers DEF Unread, Blocks, n
  <2>2. Plus(u, {}) = u
    BY DEF Plus
  <2> QED BY <1>13, <2>1, <2>2 DEF PutUpTo
<1>15. Near(x, y, u, {dev})
  <2>1. Kept(r, y, {})
    BY <1>13 DEF PutUpTo
  <2>2. Near(r, y, u, {})
    BY <2>1, NearKept
  <2>3. Near(x, r, u, {dev})
    BY <1>3 DEF Near, DevsOf, Unused
  <2> DEFINE ds == {dev}
             es == {}
  <2>4. Near(x, r, u, ds) /\ Near(r, y, u, es) /\ ds \cup es = {dev}
    BY <2>2, <2>3
  <2> HIDE DEF ds, es
  <2>5. Near(x, y, u, ds \cup es)
    BY <2>4, NearTrans
  <2> QED BY <2>4, <2>5
<1> QED BY <1>3, <1>13, <1>14, <1>15 DEF PutUpTo

LEMMA NearAgain ==
  ASSUME NEW x, NEW y, NEW z, NEW u, NEW ds, Near(x, y, u, ds), Near(y, z, u, ds)
  PROVE  Near(x, z, u, ds)
<1>1. Near(x, z, u, ds \cup ds)
  BY NearTrans
<1>2. ds \cup ds = ds
  OBVIOUS
<1> QED BY <1>1, <1>2

(* y: the cache x when the buffers bs were queued for blocks up to m *)
Queued(x, y, u, bs, dev, m) ==
  /\ Good(y, Plus(u, bs), {}) /\ Near(x, y, u, {dev}) /\ ~ y.panic
  /\ bs \in SUBSET Bufs /\ (\A b \in bs : u[b] = 0) /\ Waiting(y, dev, bs, m)

LEMMA QueueStays ==
  ASSUME NEW x, NEW y, NEW u, NEW bs, NEW dev, NEW m \in Blocks, Queued(x, y, u, bs, dev, m - 1)
  PROVE  Queued(x, y, u, bs, dev, m)
<1>1. Waiting(y, dev, bs, m)
  <2>1. m \in Nat /\ \A b \in bs : y.buf[b].block \in Nat
    BY DEF Queued, Waiting, Blocks
  <2>2. Waiting(y, dev, bs, m - 1)
    BY DEF Queued
  <2>3. \A b \in bs : y.buf[b].block <= m
    <3> SUFFICES ASSUME NEW b \in bs PROVE y.buf[b].block <= m
      OBVIOUS
    <3>1. y.buf[b].block <= m - 1 /\ y.buf[b].block \in Nat
      BY <2>1, <2>2 DEF Waiting
    <3> QED BY <2>1, <3>1
  <2> QED BY <2>2, <2>3 DEF Waiting
<1> QED BY <1>1 DEF Queued

LEMMA QueueGrows ==
  ASSUME NEW x, NEW y, NEW u \in [Bufs -> Nat], NEW bs, NEW dev \in Devs, NEW m \in Blocks,
         Queued(x, y, u, bs, dev, m - 1), Cardinality(InUse(Plus(u, bs))) < NR_BUFS,
         NEW bad, NEW g, g = get_block(y, dev, m, "PREFETCH", bad),
         NEW cs, cs = Joined(bs, g), NEW type
  PROVE  /\ g.got \in Bufs
         /\ ~ Valid(g, g.got) => Queued(x, g, u, cs, dev, m)
         /\ Valid(g, g.got) => Queued(x, put_block(g, g.got, type, bad), u, bs, dev, m)
<1>1. bs \in SUBSET Bufs /\ Good(y, Plus(u, bs), {}) /\ Waiting(y, dev, bs, m - 1)
  BY DEF Queued
<1>2. Taken(y, g, u, bs, cs, dev, m)
  BY <1>1, QueueNext
<1>3. ~ g.panic /\ Near(x, g, u, {dev})
  <2> DEFINE ds == {dev}
  <2>1. Near(x, y, u, ds) /\ Near(y, g, u, ds)
    BY <1>2 DEF Queued, Taken
  <2> HIDE DEF ds
  <2>2. Near(x, g, u, ds)
    BY <2>1, NearAgain
  <2> QED BY <1>2, <2>2 DEF Queued, Taken, ds
<1>4. ASSUME ~ Valid(g, g.got) PROVE Queued(x, g, u, cs, dev, m)
  <2>1. \A b \in cs : u[b] = 0
    BY <1>2, <1>4 DEF Queued, Taken, Joined
  <2>2. cs \in SUBSET Bufs
    BY <1>1, <1>2 DEF Taken, Joined
  <2> QED BY <1>2, <1>3, <1>4, <2>1, <2>2 DEF Queued, Taken
<1>5. ASSUME NEW z, z = put_block(g, g.got, type, bad) PROVE Queued(x, z, u, bs, dev, m)
  <2> DEFINE v == Plus(u, bs)
             e == g.got
             t == Plus(v, {e})
  <2>1. v \in [Bufs -> Nat] /\ e \in Bufs
    BY <1>2 DEF Plus, Taken
  <2>2. Good(g, t, {})
    BY <1>2 DEF Taken
  <2> HIDE DEF v, e
  <2>3. t \in [Bufs -> Nat] /\ t[e] # 0 /\ Minus(t, e) = v
    BY <2>1, PlusMinus
  <2> HIDE DEF t
  <2>4. z = put_block(g, e, type, bad)
    BY <1>5 DEF e
  <2>5. Good(z, Minus(t, e), {}) /\ Kept(g, z, {}) /\ z.panic = g.panic
    BY <2>1, <2>2, <2>3, <2>4, Puts
  <2>6. Waiting(z, dev, bs, m)
    BY <1>1, <1>2, <2>5, WaitingKept DEF Taken
  <2>7. Near(x, z, u, {dev})
    <3> DEFINE ds == {dev}
    <3>1. Near(x, g, u, ds)
      BY <1>3
    <3> HIDE DEF ds
    <3>2. Near(g, z, u, ds)
      BY <2>5, NearKept
    <3>3. Near(x, z, u, ds)
      BY <3>1, <3>2, NearAgain
    <3> QED BY <3>3 DEF ds
  <2>8. Good(z, Plus(u, bs), {})
    BY <2>3, <2>5 DEF v
  <2> QED BY <1>1, <1>3, <2>5, <2>6, <2>7, <2>8 DEF Queued
<1> QED BY <1>2, <1>4, <1>5 DEF Taken

(* What the queue may be after k blocks that follow block m *)
Queues(x, u, dev, m, k) ==
  {q \in [c : Caches, bs : SUBSET Bufs] : Queued(x, q.c, u, q.bs, dev, m + k)}

QueueOne(q, dev, block, limit, bad) ==
  IF q.c.in_use >= limit THEN q
  ELSE LET g == get_block(q.c, dev, block, "PREFETCH", bad)
       IN  IF g.buf[g.got].dev = NO_DEV
           THEN [c |-> g, bs |-> q.bs \cup {g.got}]
           ELSE [c |-> put_block(g, g.got, {}, bad), bs |-> q.bs]

LEMMA QueueSteps ==
  ASSUME NEW x, NEW u \in [Bufs -> Nat], NEW dev \in Devs, NEW m \in Blocks,
         NEW k \in 1 .. NR_BLOCKS - m, NEW q \in Queues(x, u, dev, m, k - 1),
         NEW limit \in Int, limit <= NR_BUFS, NEW bad,
         NEW z, z = QueueOne(q, dev, m + k, limit, bad)
  PROVE  z \in Queues(x, u, dev, m, k)
<1> DEFINE y == q.c
           bs == q.bs
           top == m + k
           type == {}
<1>1. top \in Blocks /\ m + (k - 1) = top - 1
  BY Numbers DEF Blocks
<1>2. Queued(x, y, u, bs, dev, top - 1)
  BY <1>1 DEF Queues
<1>3. q \in [c : Caches, bs : SUBSET Bufs] /\ q = [c |-> y, bs |-> bs] /\ bs \in SUBSET Bufs
  BY DEF Queues
<1>4. z = IF y.in_use >= limit THEN q
          ELSE LET g == get_block(y, dev, top, "PREFETCH", bad)
               IN  IF g.buf[g.got].dev = NO_DEV
                   THEN [c |-> g, bs |-> bs \cup {g.got}]
                   ELSE [c |-> put_block(g, g.got, type, bad), bs |-> bs]
  BY DEF QueueOne
<1> HIDE DEF y, bs, top, type
<1>5. CASE y.in_use >= limit
  <2>1. Queued(x, y, u, bs, dev, top)
    BY <1>1, <1>2, QueueStays
  <2> QED BY <1>3, <1>4, <1>5, <2>1 DEF Queues, top
<1>6. CASE ~ (y.in_use >= limit)
  <2> DEFINE g == get_block(y, dev, top, "PREFETCH", bad)
             cs == Joined(bs, g)
             p == put_block(g, g.got, type, bad)
  <2>1. z = IF ~ Valid(g, g.got) THEN [c |-> g, bs |-> cs] ELSE [c |-> p, bs |-> bs]
    BY <1>4, <1>6 DEF Joined, Valid
  <2>2. Cardinality(InUse(Plus(u, bs))) < NR_BUFS
    <3>1. y.in_use = Cardinality(InUse(Plus(u, bs))) /\ y.in_use \in Nat
      BY <1>2, Fields DEF Queued, Good, Books
    <3> QED BY <1>6, <3>1, Numbers
  <2> HIDE DEF g, cs, p
  <2>3. /\ g.got \in Bufs
        /\ ~ Valid(g, g.got) => Queued(x, g, u, cs, dev, top)
        /\ Valid(g, g.got) => Queued(x, put_block(g, g.got, type, bad), u, bs, dev, top)
    <3>1. g = get_block(y, dev, top, "PREFETCH", bad) /\ cs = Joined(bs, g)
      BY DEF g, cs
    <3> QED BY <1>1, <1>2, <2>2, <3>1, QueueGrows
  <2>4. ASSUME NEW a, NEW as, Queued(x, a, u, as, dev, top)
        PROVE  [c |-> a, bs |-> as] \in Queues(x, u, dev, m, k)
    <3>1. a \in Caches /\ as \in SUBSET Bufs
      BY <2>4 DEF Queued, Good, Books
    <3> QED BY <2>4, <3>1 DEF Queues, top
  <2>5. CASE ~ Valid(g, g.got)
    BY <2>1, <2>3, <2>4, <2>5
  <2>6. CASE Valid(g, g.got)
    <3>1. Queued(x, p, u, bs, dev, top)
      BY <2>3, <2>6 DEF p
    <3> QED BY <2>1, <2>4, <2>6, <3>1
  <2> QED BY <2>5, <2>6
<1> QED BY <1>5, <1>6

(* Blocks are read ahead *)
LEMMA ReadsAhead ==
  ASSUME NEW x, NEW u, Good(x, u, {}), Cardinality(InUse(u)) < NR_BUFS, ~ x.panic,
         NEW dev \in Devs, NEW block \in Blocks, NEW more,
         more = [k \in 1 .. NR_BLOCKS - block |-> block + k],
         NEW limit \in Int, limit <= NR_BUFS, NEW get, NEW bad,
         NEW y, y = rahead(x, dev, block, more, limit, get, bad)
  PROVE  /\ y.got \in Bufs /\ ~ y.panic /\ Near(x, y, u, {dev})
         /\ Good(y, Plus(u, {y.got}), {})
<1> DEFINE first == get_block(x, dev, block, "PREFETCH", bad)
           a  == [c |-> first, bs |-> {first.got}]
           n  == NR_BLOCKS - block
           F == [k \in 1 .. n |->
                   [q \in [c : Caches, bs : SUBSET Bufs] |->
                      QueueOne(q, dev, block + k, limit, bad)]]
           P == [k \in 0 .. n |-> Queues(x, u, dev, block, k)]
           Body(q) == [k \in 0 .. Len(more) |->
             IF k = 0 THEN [c |-> first, bs |-> {first.got}]
             ELSE IF q[k - 1].c.in_use >= limit THEN q[k - 1]
             ELSE LET g == get_block(q[k - 1].c, dev, more[k], "PREFETCH", bad)
                  IN  IF g.buf[g.got].dev = NO_DEV
                      THEN [c |-> g, bs |-> q[k - 1].bs \cup {g.got}]
                      ELSE [c |-> put_block(g, g.got, {}, bad), bs |-> q[k - 1].bs]]
           f == CHOOSE q : q = Body(q)
           all == f[Len(more)]
           done == {b \in all.bs : /\ <<dev, all.c.buf[b].block>> \notin bad
                                   /\ all.c.buf[b].block - block < get}
<1>1. n \in Nat /\ Len(more) = n /\ \A k \in 1 .. n : more[k] = block + k
  BY Numbers DEF Blocks
<1>2. y = IF first.panic \/ first.buf[first.got].dev # NO_DEV THEN first
          ELSE get_block(ReadAll(all.c, dev, all.bs, done), dev, block, "NORMAL", bad)
  BY DEF rahead
<1>3. ASSUME NEW g
      PROVE  Body(g) = [k \in 0 .. n |->
                          IF k = 0 THEN a ELSE QueueOne(g[k - 1], dev, block + k, limit, bad)]
  <2>1. ASSUME NEW k \in 0 .. n, k # 0 PROVE more[k] = block + k
    BY <1>1, <2>1
  <2> HIDE DEF n, first
  <2> QED BY <1>1, <2>1 DEF QueueOne
<1>4. "PREFETCH" \in Searches /\ "NORMAL" \in Searches /\ dev \in Devs \cup {NO_DEV}
      /\ block \in Blocks \cup {NO_BLOCK}
  BY DEF Searches
<1>5. u \in [Bufs -> Nat]
  BY DEF Good, Books
<1>6. Got(x, first, u, dev, block, "PREFETCH")
  BY <1>4, Gets
<1>7. Near(x, first, u, {dev})
  BY <1>4, GetsNear
<1>8. /\ first.got \in Bufs /\ ~ first.panic /\ Good(first, Plus(u, {first.got}), {})
      /\ first \in Caches
  BY <1>6 DEF Got, Fresh, Good, Books
<1>9. CASE Valid(first, first.got)
  <2>1. y = first
    BY <1>2, <1>9 DEF Valid
  <2> QED BY <1>7, <1>8, <2>1
<1>10. CASE ~ Valid(first, first.got)
  <2>1. Queued(x, first, u, {first.got}, dev, block)
    <3> DEFINE es == {}
               cs == Joined(es, first)
    <3>1. cs = {first.got} /\ es \in SUBSET Bufs /\ Plus(u, es) = u
      BY <1>5 DEF Joined, Plus
    <3>2. Waiting(x, dev, es, block - 1)
      BY DEF Waiting
    <3> HIDE DEF cs, es
    <3>3. Good(x, Plus(u, es), {}) /\ Cardinality(InUse(Plus(u, es))) < NR_BUFS
      BY <3>1
    <3>4. Taken(x, first, u, es, cs, dev, block)
      <4> HIDE DEF first
      <4>1. first = get_block(x, dev, block, "PREFETCH", bad) /\ cs = Joined(es, first)
        BY DEF first, cs
      <4> QED BY <1>5, <3>1, <3>2, <3>3, <4>1, QueueNext
    <3>5. u[first.got] = 0 /\ Waiting(first, dev, cs, block)
      BY <1>10, <3>4 DEF Taken
    <3> QED BY <1>7, <1>8, <3>1, <3>5 DEF Queued
  <2> HIDE DEF first
  <2>2. a \in P[0] /\ a \in [c : Caches, bs : SUBSET Bufs]
    <3>1. block + 0 = block
      BY DEF Blocks
    <3>2. a \in [c : Caches, bs : SUBSET Bufs]
      BY <1>8
    <3>3. a \in Queues(x, u, dev, block, 0)
      BY <2>1, <3>1, <3>2 DEF Queues
    <3> QED BY <1>1, <3>2, <3>3
  <2>3. \A k \in 1 .. n : \A q \in P[k - 1] : QueueOne(q, dev, block + k, limit, bad) \in P[k]
    <3> SUFFICES ASSUME NEW k \in 1 .. n, NEW q \in P[k - 1]
                 PROVE  QueueOne(q, dev, block + k, limit, bad) \in P[k]
      OBVIOUS
    <3>1. /\ k \in 1 .. NR_BLOCKS - block /\ q \in Queues(x, u, dev, block, k - 1)
          /\ P[k] = Queues(x, u, dev, block, k)
      BY <1>1
    <3> QED BY <1>5, <3>1, QueueSteps
  <2>4. \A k \in 0 .. n : P[k] \subseteq [c : Caches, bs : SUBSET Bufs]
    BY DEF Queues
  <2> HIDE DEF P, a, n
  <2>5. PICK p : IsRec(p, n, a, F)
    <3> HIDE DEF F
    <3> QED BY <1>1, Recursion
  <2>6. \A k \in 0 .. n : p[k] \in P[k]
    <3>1. p[0] \in P[0]
      BY <1>1, <2>2, <2>5 DEF IsRec
    <3>2. ASSUME NEW k \in 1 .. n, p[k - 1] \in P[k - 1] PROVE p[k] \in P[k]
      <4>1. p[k] = F[k][p[k - 1]]
        <5> HIDE DEF F
        <5>1. k \in 0 .. n /\ k # 0
          BY <1>1
        <5>2. \A i \in 0 .. n : p[i] = IF i = 0 THEN a ELSE F[i][p[i - 1]]
          BY <2>5 DEF IsRec
        <5> QED BY <5>1, <5>2
      <4>2. k - 1 \in 0 .. n
        BY <1>1
      <4>3. F[k][p[k - 1]] = QueueOne(p[k - 1], dev, block + k, limit, bad)
        BY <2>4, <3>2, <4>2
      <4> QED BY <2>3, <3>2, <4>1, <4>3
    <3> QED BY <1>1, <3>1, <3>2, Steps
  <2>7. p = [k \in 0 .. n |->
               IF k = 0 THEN a ELSE QueueOne(p[k - 1], dev, block + k, limit, bad)]
    <3>1. ASSUME NEW k \in 0 .. n
          PROVE  p[k] = IF k = 0 THEN a ELSE QueueOne(p[k - 1], dev, block + k, limit, bad)
      <4>1. CASE k = 0
        BY <2>5, <4>1 DEF IsRec
      <4>2. CASE k # 0
        <5>1. k \in 1 .. n /\ k - 1 \in 0 .. n
          BY <1>1, <4>2
        <5>2. F[k][p[k - 1]] = QueueOne(p[k - 1], dev, block + k, limit, bad)
          BY <2>4, <2>6, <5>1
        <5> QED BY <2>5, <4>2, <5>2 DEF IsRec
      <4> QED BY <4>1, <4>2
    <3>2. p = [k \in 0 .. n |-> p[k]]
      BY <2>5 DEF IsRec
    <3> HIDE DEF F
    <3> QED BY <3>1, <3>2
  <2>8. p = Body(p)
    <3> HIDE DEF Body
    <3> QED BY <1>3, <2>7
  <2> HIDE DEF Body
  <2>9. f = Body(f)
    BY <2>8
  <2> HIDE DEF f
  <2>10. f = [k \in 0 .. n |->
                IF k = 0 THEN a ELSE QueueOne(f[k - 1], dev, block + k, limit, bad)]
    BY <1>3, <2>9
  <2>11. \A k \in 0 .. n : f[k] \in P[k]
    <3>1. f[0] \in P[0]
      BY <1>1, <2>2, <2>10
    <3>2. ASSUME NEW k \in 1 .. n, f[k - 1] \in P[k - 1] PROVE f[k] \in P[k]
      <4>1. f[k] = QueueOne(f[k - 1], dev, block + k, limit, bad)
        BY <1>1, <2>10
      <4> QED BY <2>3, <3>2, <4>1
    <3> QED BY <1>1, <3>1, <3>2, Steps
  <2>12. all \in Queues(x, u, dev, block, n)
    <3>1. f[n] \in P[n]
      BY <1>1, <2>11
    <3>2. P[n] = Queues(x, u, dev, block, n)
      BY <1>1 DEF P
    <3>3. all = f[n]
      BY <1>1
    <3> QED BY <3>1, <3>2, <3>3
  <2> DEFINE y1 == all.c
             bs == all.bs
             y2 == ReadAll(y1, dev, bs, done)
  <2>13. Queued(x, y1, u, bs, dev, block + n) /\ bs \in SUBSET Bufs
    BY <2>12 DEF Queues
  <2>14. y = get_block(y2, dev, block, "NORMAL", bad)
    BY <1>2, <1>8, <1>10 DEF Valid
  <2>15. done \in SUBSET bs
    OBVIOUS
  <2> HIDE DEF done, y1, bs, all
  <2>16. /\ Good(y1, Plus(u, bs), {}) /\ Near(x, y1, u, {dev}) /\ ~ y1.panic
         /\ (\A b \in bs : u[b] = 0) /\ Waiting(y1, dev, bs, block + n)
    BY <2>13 DEF Queued
  <2> HIDE DEF y2
  <2>17. Good(y2, u, {}) /\ Near(y1, y2, u, {dev}) /\ y2.panic = y1.panic
    <3>1. y2 = ReadAll(y1, dev, bs, done)
      BY DEF y2
    <3> DEFINE m == block + n
    <3>2. Waiting(y1, dev, bs, m) /\ Unused(u, bs)
      BY <2>16 DEF Unused
    <3> HIDE DEF m
    <3> QED BY <1>5, <2>13, <2>15, <2>16, <3>1, <3>2, ReadsAll
  <2>18. Got(y2, y, u, dev, block, "NORMAL")
    BY <1>4, <2>14, <2>17, Gets
  <2>19. Near(y2, y, u, {dev})
    BY <1>4, <2>14, <2>17, GetsNear
  <2>20. Near(x, y, u, {dev})
    <3> DEFINE ds == {dev}
    <3>1. Near(x, y1, u, ds) /\ Near(y1, y2, u, ds) /\ Near(y2, y, u, ds)
      BY <2>16, <2>17, <2>19
    <3> HIDE DEF ds
    <3>2. Near(x, y2, u, ds)
      BY <3>1, NearAgain
    <3>3. Near(x, y, u, ds)
      BY <3>1, <3>2, NearAgain
    <3> QED BY <3>3 DEF ds
  <2> QED BY <2>16, <2>17, <2>18, <2>20 DEF Got, Fresh
<1> QED BY <1>9, <1>10

-----------------------------------------------------------------------------
(* The inductive invariant of a cache x, when the call holds h and the     *)
(* special files o are open: besides what is counted and consistent, the   *)
(* bit maps of a device are in a buffer of its own                         *)
DevsIn(sup) == {sup[n].dev : n \in Supers} \ {NO_DEV}
Within(x, o) == \A b \in Bufs : x.buf[b].dev \in DevsIn(x.super) \cup o \cup {NO_DEV}
MapsRight(x) ==
  \A n \in Mounts(x.super) : x.buf[x.super[n].map].dev \in {x.super[n].dev, NO_DEV}

Safe(x, h, o) ==
  /\ ~ x.panic /\ Good(x, Uses(h, x.super), {})
  /\ h \in Seq(Bufs) /\ Len(h) <= MaxHeld
  /\ Slots(x.super) /\ MapsRight(x)
  /\ o \subseteq Devs /\ Within(x, o)

LEMMA MapsAre ==
  ASSUME NEW x, NEW buf, NEW sup, x.super = sup, x.buf = buf,
         \A n \in Mounts(sup) : buf[sup[n].map].dev \in {sup[n].dev, NO_DEV}
  PROVE  MapsRight(x)
BY DEF MapsRight

LEMMA SettledSafe ==
  ASSUME NEW x, NEW h, NEW o, Safe(x, h, o), NEW y, y = Settled(x)
  PROVE  Safe(y, h, o)
<1> DEFINE u == Uses(h, x.super)
<1>1. Good(x, u, {})
  BY DEF Safe
<1> HIDE DEF u
<1>2. /\ Good(y, u, {}) /\ y.super = x.super /\ y.panic = x.panic
      /\ \A b \in Bufs : y.buf[b].dev = x.buf[b].dev
  BY <1>1, Settles
<1>3. MapsRight(y)
  BY <1>2 DEF MapsRight, Safe, Slots
<1>4. Within(y, o)
  BY <1>2 DEF Within, Safe
<1> QED BY <1>2, <1>3, <1>4 DEF Safe, u

(* A routine that only works on free buffers and on those of devices that  *)
(* are mounted or open                                                     *)
LEMMA NearSafe ==
  ASSUME NEW x, NEW h, NEW o, Safe(x, h, o), NEW y, NEW ds, Near(x, y, Uses(h, x.super), ds),
         ds \subseteq DevsIn(x.super) \cup o \cup {NO_DEV}
  PROVE  y.super = x.super /\ MapsRight(y) /\ Within(y, o)
<1>1. y.super = x.super
  BY DEF Near
<1>2. Slots(x.super) /\ h \in Seq(Bufs)
  BY DEF Safe
<1>3. MapsRight(y)
  <2> SUFFICES ASSUME NEW n \in Mounts(x.super)
               PROVE  y.buf[x.super[n].map].dev \in {x.super[n].dev, NO_DEV}
    BY <1>1 DEF MapsRight
  <2> DEFINE b == x.super[n].map
  <2>1. b \in Bufs /\ Uses(h, x.super)[b] # 0
    <3>1. x.super \in Tables /\ b \in Bufs
      BY <1>2 DEF Slots
    <3> QED BY <1>2, <3>1, Used1
  <2>2. x.buf[b].dev \in {x.super[n].dev, NO_DEV}
    BY DEF Safe, MapsRight
  <2> HIDE DEF b
  <2>3. y.buf[b].dev \in {x.buf[b].dev, NO_DEV}
    BY <2>1 DEF Near
  <2> QED BY <2>2, <2>3 DEF b
<1>4. Within(y, o)
  <2>1. DevsOf(x) \subseteq DevsIn(x.super) \cup o \cup {NO_DEV}
    BY DEF Safe, Within, DevsOf
  <2>2. \A b \in Bufs : y.buf[b].dev \in DevsOf(x) \cup ds
    BY DEF Near
  <2> QED BY <1>1, <2>1, <2>2 DEF Within
<1> QED BY <1>1, <1>3, <1>4

LEMMA SafeNear ==
  ASSUME NEW x, NEW h, NEW o, Safe(x, h, o), NEW y, NEW ds, Near(x, y, Uses(h, x.super), ds),
         ds \subseteq DevsIn(x.super) \cup o \cup {NO_DEV},
         Good(y, Uses(h, x.super), {}), ~ y.panic
  PROVE  Safe(y, h, o)
<1>1. y.super = x.super /\ MapsRight(y) /\ Within(y, o)
  BY NearSafe
<1> QED BY <1>1 DEF Safe

(* The call gets a block *)
LEMMA GotSafe ==
  ASSUME NEW x, NEW h, NEW o, Safe(x, h, o), Len(h) < MaxHeld,
         NEW y, NEW ds, Near(x, y, Uses(h, x.super), ds), 
         ds \subseteq DevsIn(x.super) \cup o \cup {NO_DEV}, y.got \in Bufs, ~ y.panic,
         Good(y, Plus(Uses(h, x.super), {y.got}), {})
  PROVE  Safe(y, Append(h, y.got), o)
<1>1. y.super = x.super /\ MapsRight(y) /\ Within(y, o)
  BY NearSafe
<1>2. h \in Seq(Bufs) /\ Slots(x.super) /\ o \subseteq Devs
  BY DEF Safe
<1>3. Append(h, y.got) \in Seq(Bufs) /\ Len(Append(h, y.got)) = Len(h) + 1 /\ Len(h) \in Nat
  BY <1>2, AppendProperties, LenProperties
<1>4. Uses(Append(h, y.got), x.super) = Plus(Uses(h, x.super), {y.got})
  BY <1>2, UsesAppend
<1> DEFINE u == Uses(h, x.super)
           v == Plus(u, {y.got})
<1>5. Good(y, Uses(Append(h, y.got), y.super), {})
  <2>1. Good(y, v, {}) /\ Uses(Append(h, y.got), y.super) = v
    BY <1>1, <1>4
  <2> HIDE DEF v
  <2> QED BY <2>1
<1>6. Len(Append(h, y.got)) <= MaxHeld
  BY <1>3, Numbers
<1> QED BY <1>1, <1>2, <1>3, <1>5, <1>6 DEF Safe

LEMMA SafeRoom ==
  ASSUME NEW x, NEW h, NEW o, Safe(x, h, o), Len(h) < MaxHeld
  PROVE  /\ Good(x, Uses(h, x.super), {}) /\ Cardinality(InUse(Uses(h, x.super))) < NR_BUFS
         /\ ~ x.panic
<1>1. h \in Seq(Bufs) /\ Slots(x.super)
  BY DEF Safe
<1> QED BY <1>1, SlotsRoom DEF Safe

(* A block that is looked at *)
LEMMA GetSafe ==
  ASSUME NEW x, NEW h, NEW o, Safe(x, h, o), Len(h) < MaxHeld,
         NEW dev \in Devs, dev \in DevsIn(x.super) \cup o, NEW block \in Blocks, NEW bad,
         NEW y, y = get_block(x, dev, block, "NORMAL", bad)
  PROVE  ~ y.panic /\ Safe(y, Append(h, y.got), o)
<1> DEFINE u  == Uses(h, x.super)
           ds == {dev}
<1>1. Good(x, u, {}) /\ Cardinality(InUse(u)) < NR_BUFS /\ ~ x.panic
  BY SafeRoom
<1>2. /\ "NORMAL" \in Searches /\ dev \in Devs \cup {NO_DEV} /\ block \in Blocks \cup {NO_BLOCK}
      /\ ds \subseteq DevsIn(x.super) \cup o \cup {NO_DEV}
  BY DEF Searches
<1>3. Got(x, y, u, dev, block, "NORMAL") /\ Near(x, y, u, ds)
  <2> HIDE DEF u
  <2>1. Got(x, y, u, dev, block, "NORMAL")
    BY <1>1, <1>2, Gets
  <2>2. Near(x, y, u, {dev})
    BY <1>1, <1>2, GetsNear
  <2> QED BY <2>1, <2>2
<1>4. y.got \in Bufs /\ ~ y.panic /\ Good(y, Plus(u, {y.got}), {})
  BY <1>1, <1>3 DEF Got, Fresh
<1> HIDE DEF ds
<1> QED BY <1>2, <1>3, <1>4, GotSafe

(* A block that is changed as a whole, or not at all *)
Whole(g, h, o) ==
  /\ ~ g.panic /\ g.got \in Bufs /\ g.buf[g.got].data \in Data \cup {JUNK}
  /\ \A d \in Data \cup {JUNK} : LET y == Overwrite(g, g.got, d)
                                 IN  ~ y.panic /\ Safe(y, Append(h, y.got), o)

LEMMA WholeSafe ==
  ASSUME NEW x, NEW h, NEW o, Safe(x, h, o), Len(h) < MaxHeld,
         NEW dev \in Devs, dev \in DevsIn(x.super) \cup o, NEW block \in Blocks, NEW bad,
         NEW g, g = get_block(x, dev, block, "NO_READ", bad)
  PROVE  Whole(g, h, o)
<1> DEFINE u  == Uses(h, x.super)
           ds == {dev}
           b  == g.got
           w  == {b}
           v  == Plus(u, w)
           e  == {}
<1>1. Good(x, u, {}) /\ Cardinality(InUse(u)) < NR_BUFS /\ ~ x.panic
  BY SafeRoom
<1>2. /\ "NO_READ" \in Searches /\ dev \in Devs \cup {NO_DEV} /\ block \in Blocks \cup {NO_BLOCK}
      /\ ds \subseteq DevsIn(x.super) \cup o \cup {NO_DEV}
  BY DEF Searches
<1>3. Got(x, g, u, dev, block, "NO_READ") /\ Near(x, g, u, ds)
  <2> HIDE DEF u
  <2>1. Got(x, g, u, dev, block, "NO_READ")
    BY <1>1, <1>2, Gets
  <2>2. Near(x, g, u, {dev})
    BY <1>1, <1>2, GetsNear
  <2> QED BY <2>1, <2>2
<1>4. b \in Bufs /\ ~ g.panic /\ Good(g, v, w)
  BY <1>1, <1>3 DEF Got, Fresh
<1>5. g \in Caches /\ g.buf[g.got].data \in Data \cup {JUNK}
  <2>1. g \in Caches
    BY <1>4 DEF Good, Books
  <2> QED BY <1>4, <2>1, BufFields
<1>6. ASSUME NEW d \in Data \cup {JUNK}, NEW y, y = Overwrite(g, b, d)
      PROVE  ~ y.panic /\ y.got = b /\ Safe(y, Append(h, y.got), o)
  <2>1. w \ {b} \subseteq e
    OBVIOUS
  <2> HIDE DEF u, b, w, v, e, ds
  <2>2. Good(y, v, e) /\ Kept(g, y, {}) /\ Changed(g, y, b, d)
    BY <1>4, <1>6, <2>1, Changes
  <2>3. y.panic = g.panic /\ y.got = g.got
    BY <2>2 DEF Changed
  <2>4. Near(x, y, u, ds)
    <3>1. Near(g, y, u, ds)
      BY <2>2, NearKept
    <3> QED BY <1>3, <3>1, NearAgain
  <2>5. y.got \in Bufs /\ ~ y.panic /\ y.got = b
    BY <1>4, <2>3 DEF b
  <2>6. Good(y, Plus(u, {y.got}), {})
    BY <2>2, <2>5 DEF v, w, e
  <2>7. Safe(y, Append(h, y.got), o)
    BY <1>2, <2>4, <2>5, <2>6, GotSafe DEF u
  <2> QED BY <2>5, <2>7
<1> QED BY <1>4, <1>5, <1>6 DEF Whole

(* A hole *)
LEMMA HoleSafe ==
  ASSUME NEW x, NEW h, NEW o, Safe(x, h, o), Len(h) < MaxHeld, NEW bad,
         NEW g, g = get_block(x, NO_DEV, NO_BLOCK, "NORMAL", bad),
         NEW y, y = Overwrite(g, g.got, JUNK)
  PROVE  ~ g.panic /\ ~ y.panic /\ Safe(y, Append(h, y.got), o)
<1> DEFINE u  == Uses(h, x.super)
           ds == {NO_DEV}
           b  == g.got
           v  == Plus(u, {b})
           e  == {}
           d  == JUNK
           nd == NO_DEV
           nb == NO_BLOCK
<1>1. Good(x, u, {}) /\ Cardinality(InUse(u)) < NR_BUFS /\ ~ x.panic
  BY SafeRoom
<1>2. /\ "NORMAL" \in Searches /\ nd \in Devs \cup {NO_DEV} /\ nb \in Blocks \cup {NO_BLOCK}
      /\ (nd # NO_DEV => nb \in Blocks)
      /\ ds \subseteq DevsIn(x.super) \cup o \cup {NO_DEV} /\ ds = {nd}
      /\ g = get_block(x, nd, nb, "NORMAL", bad)
  BY DEF Searches
<1>3. Got(x, g, u, nd, nb, "NORMAL") /\ Near(x, g, u, ds)
  <2> HIDE DEF u, nd, nb, ds
  <2>1. Got(x, g, u, nd, nb, "NORMAL")
    BY <1>1, <1>2, Gets
  <2>2. Near(x, g, u, {nd})
    BY <1>1, <1>2, GetsNear
  <2> QED BY <1>2, <2>1, <2>2
<1>4. b \in Bufs /\ ~ g.panic /\ Good(g, v, e) /\ d \in Data \cup {JUNK} /\ e \ {b} \subseteq e
      /\ y = Overwrite(g, b, d)
  BY <1>1, <1>3 DEF Got, Fresh
<1> HIDE DEF u, b, v, e, ds, d
<1>5. Good(y, v, e) /\ Kept(g, y, {}) /\ Changed(g, y, b, d)
  BY <1>4, Changes
<1>6. y.panic = g.panic /\ y.got = g.got
  BY <1>5 DEF Changed
<1>7. Near(x, y, u, ds)
  <2>1. Near(g, y, u, ds)
    BY <1>5, NearKept
  <2> QED BY <1>3, <2>1, NearAgain
<1>8. y.got \in Bufs /\ ~ y.panic /\ y.got = b
  BY <1>4, <1>6 DEF b
<1>9. Good(y, Plus(u, {y.got}), {})
  BY <1>5, <1>8 DEF v, e
<1>10. Safe(y, Append(h, y.got), o)
  BY <1>2, <1>7, <1>8, <1>9, GotSafe DEF u
<1> QED BY <1>4, <1>8, <1>10

(* A block and those that follow are read *)
LEMMA AheadSafe ==
  ASSUME NEW x, NEW h, NEW o, Safe(x, h, o), Len(h) < MaxHeld,
         NEW dev \in Devs, dev \in DevsIn(x.super) \cup o, NEW block \in Blocks, NEW more,
         more = [k \in 1 .. NR_BLOCKS - block |-> block + k],
         NEW limit \in Int, limit <= NR_BUFS, NEW get, NEW bad,
         NEW y, y = rahead(x, dev, block, more, limit, get, bad)
  PROVE  ~ y.panic /\ Safe(y, Append(h, y.got), o)
<1> DEFINE u  == Uses(h, x.super)
           ds == {dev}
<1>1. Good(x, u, {}) /\ Cardinality(InUse(u)) < NR_BUFS /\ ~ x.panic
  BY SafeRoom
<1>2. ds \subseteq DevsIn(x.super) \cup o \cup {NO_DEV}
  OBVIOUS
<1>3. /\ y.got \in Bufs /\ ~ y.panic /\ Near(x, y, u, {dev})
      /\ Good(y, Plus(u, {y.got}), {})
  <2> HIDE DEF u
  <2> QED BY <1>1, ReadsAhead
<1>4. Near(x, y, u, ds)
  BY <1>3
<1> HIDE DEF ds
<1> QED BY <1>2, <1>3, <1>4, GotSafe

(* A block is changed *)
LEMMA ModifySafe ==
  ASSUME NEW x, NEW h, NEW o, Safe(x, h, o), NEW b \in Bufs, NEW d \in Data,
         NEW y, y = Overwrite(x, b, d)
  PROVE  Safe(y, h, o)
<1> DEFINE u == Uses(h, x.super)
           e == {}
<1>1. Good(x, u, e) /\ ~ x.panic /\ d \in Data \cup {JUNK} /\ e \ {b} \subseteq e
  BY DEF Safe
<1> HIDE DEF u, e
<1>2. Good(y, u, e) /\ Kept(x, y, {}) /\ Changed(x, y, b, d)
  BY <1>1, Changes
<1>3. Near(x, y, u, e)
  BY <1>2, NearKept
<1>4. y.super = x.super /\ MapsRight(y) /\ Within(y, o)
  BY <1>3, NearSafe DEF u, e
<1>5. ~ y.panic
  BY <1>1, <1>2 DEF Changed
<1> QED BY <1>2, <1>4, <1>5 DEF Safe, u, e

(* A block is put *)
LEMMA PutSafe ==
  ASSUME NEW x, NEW h, NEW o, Safe(x, h, o), NEW k \in DOMAIN h, NEW type, NEW bad,
         NEW y, y = put_block(x, h[k], type, bad)
  PROVE  Safe(y, RemoveAt(h, k), o)
<1> DEFINE u == Uses(h, x.super)
           e == {}
           b == h[k]
<1>1. h \in Seq(Bufs) /\ Slots(x.super) /\ x.super \in Tables /\ ~ x.panic
  BY DEF Safe, Slots
<1>2. b \in Bufs /\ u[b] # 0
  BY <1>1, Used1
<1>3. Good(x, u, e)
  BY DEF Safe
<1>4. k \in 1 .. Len(h)
  BY <1>1
<1>5. RemoveAt(h, k) \in Seq(Bufs) /\ Len(RemoveAt(h, k)) = Len(h) - 1 /\ Len(h) \in Nat
  BY <1>1, <1>4, RemoveAtProperties
<1>6. Uses(RemoveAt(h, k), x.super) = Minus(u, b)
  BY <1>1, UsesRemove
<1> HIDE DEF u, e, b
<1>7. Good(y, Minus(u, b), e) /\ Kept(x, y, {}) /\ y.panic = x.panic
  <2>1. y = put_block(x, b, type, bad)
    BY DEF b
  <2> QED BY <1>2, <1>3, <2>1, Puts
<1>8. Near(x, y, u, e)
  BY <1>7, NearKept
<1>9. y.super = x.super /\ MapsRight(y) /\ Within(y, o)
  BY <1>8, NearSafe DEF u, e
<1>10. Len(RemoveAt(h, k)) <= MaxHeld
  <2>1. Len(h) <= MaxHeld
    BY DEF Safe
  <2> QED BY <1>5, <2>1, Numbers
<1>11. Good(y, Uses(RemoveAt(h, k), y.super), {})
  BY <1>6, <1>7, <1>9 DEF e
<1> QED BY <1>1, <1>5, <1>7, <1>9, <1>10, <1>11 DEF Safe

(* Between the calls *)
LEMMA NothingHeld ==
  /\ <<>> \in Seq(Bufs) /\ Len(<<>>) = 0 /\ Len(<<>>) < MaxHeld /\ Len(<<>>) <= MaxHeld
BY Numbers

LEMMA RootIn ==
  ASSUME NEW sup, Slots(sup)
  PROVE  1 \in Supers /\ 1 \in Mounts(sup) /\ ROOT_DEV \in DevsIn(sup)
<1>1. 1 \in Supers
  BY Numbers DEF Supers
<1> QED BY <1>1, DevsAre DEF Slots, Mounts, DevsIn

(* Everything is written *)
LEMMA SyncSafe ==
  ASSUME NEW x, NEW o, Safe(x, <<>>, o), NEW bad, NEW y, y = do_sync(x, bad)
  PROVE  Safe(y, <<>>, o)
<1> DEFINE h  == <<>>
           u  == Uses(h, x.super)
           ds == {ROOT_DEV}
<1>1. h \in Seq(Bufs) /\ Len(h) <= MaxHeld /\ Len(h) < MaxHeld
  BY NothingHeld
<1>2. Safe(x, h, o)
  OBVIOUS
<1> HIDE DEF h
<1>3. Good(x, u, {}) /\ Cardinality(InUse(u)) < NR_BUFS /\ ~ x.panic
  BY <1>1, <1>2, SafeRoom
<1>4. Good(y, u, {}) /\ Near(x, y, u, {ROOT_DEV}) /\ ~ y.panic
  <2> HIDE DEF u
  <2> QED BY <1>3, Syncs
<1>5. Slots(x.super) /\ o \subseteq Devs
  BY <1>2 DEF Safe
<1>6. ds \subseteq DevsIn(x.super) \cup o \cup {NO_DEV} /\ Near(x, y, u, ds)
  BY <1>4, <1>5, RootIn
<1> HIDE DEF ds
<1>7. y.super = x.super /\ MapsRight(y) /\ Within(y, o)
  <2>1. Near(x, y, Uses(h, x.super), ds) /\ ds \subseteq DevsIn(x.super) \cup o \cup {NO_DEV}
    BY <1>6
  <2> HIDE DEF u
  <2> QED BY <1>2, <2>1, NearSafe
<1>8. Safe(y, h, o)
  <2>1. Uses(h, y.super) = u /\ Slots(y.super)
    BY <1>5, <1>7
  <2>2. Good(y, Uses(h, y.super), {})
    BY <1>4, <2>1
  <2> QED BY <1>1, <1>4, <1>5, <1>7, <2>1, <2>2 DEF Safe
<1> QED BY <1>8 DEF h

(* A special file is opened *)
LEMMA OpenSafe ==
  ASSUME NEW x, NEW h, NEW o, Safe(x, h, o), NEW dev \in Devs
  PROVE  Safe(x, h, o \cup {dev})
BY DEF Safe, Within

(* The blocks of a device are forgotten *)
LEMMA ForgetSafe ==
  ASSUME NEW g, NEW h, NEW q, Safe(g, h, q), NEW dev \in Devs, NEW y, y = invalidate(g, dev),
         NEW p \in SUBSET Devs, q \subseteq p \cup {dev}
  PROVE  Safe(y, h, p)
<1> DEFINE u == Uses(h, g.super)
           e == {}
<1>1. Good(g, u, {})
  BY DEF Safe
<1> HIDE DEF u, e
<1>2. /\ Good(y, u, {}) /\ Kept(g, y, {}) /\ y.panic = g.panic
      /\ \A b \in Bufs : y.buf[b].dev = IF g.buf[b].dev = dev THEN NO_DEV ELSE g.buf[b].dev
  BY <1>1, Forgets
<1>3. Near(g, y, u, e)
  BY <1>2, NearKept
<1>4. y.super = g.super /\ MapsRight(y) /\ Within(y, q)
  BY <1>3, NearSafe DEF u, e
<1>5. Within(y, p)
  <2>1. \A b \in Bufs : g.buf[b].dev \in DevsIn(g.super) \cup q \cup {NO_DEV}
    BY DEF Safe, Within
  <2>2. \A b \in Bufs : y.buf[b].dev \in DevsIn(g.super) \cup p \cup {NO_DEV}
    BY <1>2, <2>1
  <2> QED BY <1>4, <2>2 DEF Within
<1> QED BY <1>2, <1>4, <1>5 DEF Safe, u

(* A special file is closed *)
LEMMA CloseSafe ==
  ASSUME NEW x, NEW o, Safe(x, <<>>, o), NEW dev \in o, NEW bad, NEW g, g = do_sync(x, bad)
  PROVE  /\ dev \in DevsIn(x.super) => Safe(g, <<>>, o \ {dev})
         /\ Safe(invalidate(g, dev), <<>>, o \ {dev})
<1> DEFINE h == <<>>
           p == o \ {dev}
<1>1. Safe(g, h, o) /\ dev \in Devs /\ p \in SUBSET Devs /\ o \subseteq p \cup {dev}
  <2>1. Safe(g, h, o)
    BY SyncSafe
  <2> QED BY <2>1 DEF Safe
<1>2. g.super = x.super
  <2> DEFINE v == Uses(h, x.super)
  <2>1. Good(x, v, {}) /\ Cardinality(InUse(v)) < NR_BUFS /\ ~ x.panic
    BY NothingHeld, SafeRoom
  <2> HIDE DEF v
  <2>2. Near(x, g, v, {ROOT_DEV})
    BY <2>1, Syncs
  <2> QED BY <2>2 DEF Near
<1> HIDE DEF h
<1>3. ASSUME dev \in DevsIn(x.super) PROVE Safe(g, h, p)
  <2>1. Within(g, p)
    BY <1>1, <1>2, <1>3 DEF Safe, Within
  <2> HIDE DEF p
  <2> QED BY <1>1, <2>1 DEF Safe
<1>4. ASSUME NEW y, y = invalidate(g, dev) PROVE Safe(y, h, p)
  <2> HIDE DEF p
  <2> QED BY <1>1, <1>4, ForgetSafe
<1> QED BY <1>3, <1>4 DEF h

(* The super block table of x is changed *)
SuperIs(x, sup) == [x EXCEPT !.super = sup]

LEMMA SuperChanges ==
  ASSUME NEW x, NEW u, NEW w, Good(x, u, w), NEW sup \in Tables, NEW y, y = SuperIs(x, sup)
  PROVE  /\ Good(y, u, w) /\ y.super = sup /\ y.panic = x.panic /\ y.buf = x.buf
         /\ y.got = x.got
<1>1. x \in Caches /\ Books(x, u) /\ Single(x) /\ \A b \in Bufs \ w : Clean(x, b)
  BY DEF Good, Books
<1>2. /\ y.buf = x.buf /\ y.disk = x.disk /\ y.super = sup /\ y.panic = x.panic /\ y.lru = x.lru
      /\ y.in_use = x.in_use /\ y.got = x.got
  BY <1>1 DEF SuperIs, Caches
<1>3. y \in Caches
  BY <1>1 DEF SuperIs, Caches, Tables
<1>4. Books(y, u)
  BY <1>1, <1>2, <1>3 DEF Books
<1>5. Single(y)
  BY <1>1, <1>2 DEF Single, Sector, Valid
<1>6. \A b \in Bufs \ w : Clean(y, b)
  BY <1>1, <1>2 DEF Clean, Sector, Valid
<1> QED BY <1>2, <1>4, <1>5, <1>6 DEF Good

(* A device is mounted in slot n, the last one that is free, with its bit  *)
(* maps in buffer b                                                        *)
LEMMA MountSlots ==
  ASSUME NEW sup, Slots(sup), NEW n \in Supers, n \notin Mounts(sup),
         \A k \in Supers : k > n => k \in Mounts(sup),
         NEW dev \in Devs, dev \notin DevsIn(sup), NEW b \in Bufs,
         \A k \in Mounts(sup) : sup[k].map # b,
         Cardinality(Mounts(sup)) + 1 < NR_BUFS - MARGIN,
         NEW new, new = MountAt(sup, n, dev, b)
  PROVE  Slots(new)
<1>1. sup \in Tables /\ 1 \in Supers /\ 1 \in Mounts(sup) /\ n # 1
  BY RootIn DEF Slots
<1>2. /\ new \in Tables /\ new[n].dev = dev /\ new[n].map = b
      /\ \A k \in Supers \ {n} : new[k] = sup[k]
  BY <1>1 DEF Tables, MountAt
<1>3. Mounts(new) = Mounts(sup) \cup {n}
  BY <1>2, DevsAre DEF Mounts
<1>4. new[1].dev = ROOT_DEV
  BY <1>1, <1>2 DEF Slots
<1>5. \A k \in Mounts(new) : new[k].map \in Bufs
  BY <1>2, <1>3 DEF Slots, Mounts
<1>6. ASSUME NEW k \in Mounts(new), NEW m \in Mounts(new), k # m
      PROVE  new[k].dev # new[m].dev /\ new[k].map # new[m].map
  <2>1. \A j \in Mounts(sup) : /\ new[j].dev # dev /\ new[j].map # b /\ new[j] = sup[j]
                               /\ j \in Supers
    BY <1>2 DEF Mounts, DevsIn
  <2>2. CASE k \in Mounts(sup) /\ m \in Mounts(sup)
    BY <1>6, <2>1, <2>2 DEF Slots
  <2>3. CASE k = n \/ m = n
    BY <1>2, <1>3, <1>6, <2>1, <2>3
  <2> QED BY <1>3, <2>2, <2>3
<1>7. IsFiniteSet(Mounts(sup)) /\ Cardinality(Mounts(sup)) \in Nat
  <2> DEFINE h == <<>>
  <2>1. h \in Seq(Bufs)
    OBVIOUS
  <2> HIDE DEF h
  <2> QED BY <2>1, UsersFinite
<1>8. Cardinality(Mounts(new)) = Cardinality(Mounts(sup)) + 1
  <2> DEFINE S == Mounts(sup)
             T == S \cup {n}
  <2>1. IsFiniteSet(S) /\ n \notin S /\ Mounts(new) = T
    BY <1>3, <1>7
  <2>2. Cardinality(T) = IF n \in S THEN Cardinality(S) ELSE Cardinality(S) + 1
    <3> HIDE DEF S
    <3> QED BY <2>1, FS_AddElement
  <2> HIDE DEF T
  <2> QED BY <2>1, <2>2
<1>9. NR_SUPERS - n + 2 <= Cardinality(Mounts(new))
  <2>1. n .. NR_SUPERS \subseteq Mounts(new)
    <3> SUFFICES ASSUME NEW k \in n .. NR_SUPERS, k # n PROVE k \in Mounts(sup)
      BY <1>3
    <3>1. k \in Supers /\ k > n
      BY Numbers DEF Supers
    <3> QED BY <3>1
  <2>2. Mounts(new) \in SUBSET Supers /\ 1 \in Mounts(new)
    BY <1>1, <1>3 DEF Mounts
  <2> QED BY <1>1, <2>1, <2>2, Above
<1>10. Cardinality(Mounts(new)) <= NR_BUFS - MARGIN - 1
  BY <1>7, <1>8, Numbers
<1>11. \A k \in Supers \ {1} : new[k].map # NIL => NR_SUPERS - k + 2 <= NR_BUFS - MARGIN - 1
  <2> SUFFICES ASSUME NEW k \in Supers \ {1}, new[k].map # NIL
               PROVE  NR_SUPERS - k + 2 <= NR_BUFS - MARGIN - 1
    OBVIOUS
  <2>1. CASE k = n
    <3>1. n \in Int /\ NR_SUPERS \in Int /\ Cardinality(Mounts(new)) \in Int
      BY <1>7, <1>8, Numbers DEF Supers
    <3> QED BY <1>9, <1>10, <2>1, <3>1, Numbers
  <2>2. CASE k # n
    BY <1>2, <2>2 DEF Slots
  <2> QED BY <2>1, <2>2
<1> QED BY <1>2, <1>4, <1>5, <1>6, <1>10, <1>11 DEF Slots

LEMMA UnmountSlots ==
  ASSUME NEW sup, Slots(sup), NEW n \in Mounts(sup), sup[n].dev # ROOT_DEV,
         NEW new, new = UnmountAt(sup, n)
  PROVE  /\ Slots(new) /\ \A m \in Mounts(new) : m \in Mounts(sup) /\ new[m] = sup[m]
         /\ DevsIn(sup) \subseteq DevsIn(new) \cup {sup[n].dev}
<1>1. sup \in Tables /\ n \in Supers /\ n # 1
  BY DEF Slots, Mounts
<1>2. /\ new \in Tables /\ new[n].dev = NO_DEV /\ new[n].map = sup[n].map
      /\ \A k \in Supers \ {n} : new[k] = sup[k]
  BY <1>1 DEF Tables, UnmountAt
<1>3. Mounts(new) = Mounts(sup) \ {n} /\ \A m \in Mounts(new) : new[m] = sup[m] /\ m \in Supers
  BY <1>2 DEF Mounts
<1>4. new[1].dev = ROOT_DEV
  BY <1>1, <1>2, RootIn DEF Slots
<1>5. IsFiniteSet(Mounts(sup)) /\ Cardinality(Mounts(sup)) \in Nat
  <2> DEFINE h == <<>>
  <2>1. h \in Seq(Bufs)
    OBVIOUS
  <2> HIDE DEF h
  <2> QED BY <2>1, UsersFinite
<1>6. Cardinality(Mounts(new)) = Cardinality(Mounts(sup)) - 1
  BY <1>3, <1>5, FS_RemoveElement
<1>7. \/ Cardinality(Mounts(new)) <= 1
      \/ Cardinality(Mounts(new)) <= NR_BUFS - MARGIN - 1
  <2>1. \/ Cardinality(Mounts(sup)) <= 1
        \/ Cardinality(Mounts(sup)) <= NR_BUFS - MARGIN - 1
    BY DEF Slots
  <2> QED BY <1>5, <1>6, <2>1, Numbers
<1>8. \A k \in Supers : new[k].map = sup[k].map
  BY <1>2
<1>9. Slots(new)
  <2>1. \A k \in Supers \ {1} : new[k].map # NIL => NR_SUPERS - k + 2 <= NR_BUFS - MARGIN - 1
    BY <1>8 DEF Slots
  <2>2. \A m \in Mounts(new) : new[m].map \in Bufs
    BY <1>3 DEF Slots
  <2>3. \A k, m \in Mounts(new) : k # m => new[k].dev # new[m].dev /\ new[k].map # new[m].map
    BY <1>3 DEF Slots
  <2> QED BY <1>2, <1>4, <1>7, <2>1, <2>2, <2>3 DEF Slots
<1>10. DevsIn(sup) \subseteq DevsIn(new) \cup {sup[n].dev}
  BY <1>1, <1>2 DEF DevsIn
<1> QED BY <1>3, <1>9, <1>10

(* A device is unmounted *)
LEMMA UnmountSafe ==
  ASSUME NEW x, NEW o, Safe(x, <<>>, o), NEW n \in Mounts(x.super), NEW dev,
         dev = x.super[n].dev, dev # ROOT_DEV, NEW bad,
         NEW z, z = unload_bit_maps(x, n, bad), NEW s, s = do_sync(z, bad),
         NEW f, f = invalidate(s, dev),
         NEW y, y = SuperIs(f, UnmountAt(f.super, n))
  PROVE  Safe(y, <<>>, o)
<1> DEFINE h    == <<>>
           sup  == x.super
           u    == Uses(h, sup)
           b    == sup[n].map
           new  == UnmountAt(sup, n)
           v    == Uses(h, new)
           type == {"WRITE_IMMED", "ONE_SHOT"}
           ds   == {ROOT_DEV}
<1>1. h \in Seq(Bufs) /\ Len(h) <= MaxHeld /\ Len(h) < MaxHeld
  BY NothingHeld
<1>2. Safe(x, h, o)
  OBVIOUS
<1>3. z = IF b = NIL THEN x ELSE put_block(x, b, type, bad)
  BY DEF unload_bit_maps
<1>4. Slots(sup) /\ sup \in Tables /\ b \in Bufs /\ o \subseteq Devs /\ ~ x.panic
  BY <1>2 DEF Safe, Slots
<1>5. dev \in Devs /\ n \in Supers
  BY <1>4 DEF Mounts, Tables
<1> HIDE DEF h, type
<1>6. u[b] # 0
  BY <1>1, <1>4, Used1
<1>7. Good(x, u, {}) /\ Cardinality(InUse(u)) < NR_BUFS
  BY <1>1, <1>2, SafeRoom
<1>8. v = Minus(u, b)
  <2> HIDE DEF sup, new
  <2>1. new = UnmountAt(sup, n) /\ sup[n].map \in Bufs /\ n \in Mounts(sup)
    BY <1>4 DEF new, sup
  <2> QED BY <1>1, <1>4, <2>1, UsesUnmount DEF u, v
<1>9. /\ Slots(new) /\ \A m \in Mounts(new) : m \in Mounts(sup) /\ new[m] = sup[m]
      /\ DevsIn(sup) \subseteq DevsIn(new) \cup {dev}
  BY <1>4, UnmountSlots
<1> HIDE DEF u, v, b, new, sup
<1>10. Good(z, v, {}) /\ Kept(x, z, {}) /\ z.panic = x.panic
  <2>1. z = put_block(x, b, type, bad)
    BY <1>3, <1>4, Numbers
  <2>2. Good(z, Minus(u, b), {}) /\ Kept(x, z, {}) /\ z.panic = x.panic
    BY <1>4, <1>6, <1>7, <2>1, Puts
  <2> QED BY <1>8, <2>2
<1>11. Cardinality(InUse(v)) < NR_BUFS
  <2>1. Books(x, u) /\ x.in_use = Cardinality(InUse(u))
    BY <1>7 DEF Good, Books
  <2>2. Cardinality(InUse(Minus(u, b))) = x.in_use - IF u[b] = 1 THEN 1 ELSE 0
    BY <1>4, <1>6, <2>1, UseEnds
  <2>3. Cardinality(InUse(u)) \in Nat
    BY UsesFinite
  <2> QED BY <1>7, <1>8, <2>1, <2>2, <2>3, Numbers
<1>12. Good(s, v, {}) /\ Near(z, s, v, {ROOT_DEV}) /\ ~ s.panic
  BY <1>4, <1>10, <1>11, Syncs
<1>13. /\ Good(f, v, {}) /\ Kept(s, f, {}) /\ f.panic = s.panic
       /\ \A a \in Bufs : f.buf[a].dev = IF s.buf[a].dev = dev THEN NO_DEV ELSE s.buf[a].dev
  BY <1>5, <1>12, Forgets
<1>14. Near(x, f, v, ds)
  <2>1. Near(z, s, v, ds)
    BY <1>12
  <2> HIDE DEF ds
  <2>2. Near(x, z, v, ds) /\ Near(s, f, v, ds)
    BY <1>10, <1>13, NearKept
  <2>3. Near(x, s, v, ds)
    BY <2>1, <2>2, NearAgain
  <2> QED BY <2>2, <2>3, NearAgain
<1>15. f.super = sup
  BY <1>14 DEF Near, sup
<1>16. Good(y, v, {}) /\ y.super = new /\ y.panic = f.panic /\ y.buf = f.buf
  <2>1. y = SuperIs(f, new) /\ new \in Tables
    BY <1>9, <1>15 DEF new, Slots
  <2> QED BY <1>13, <2>1, SuperChanges
<1>17. MapsRight(y)
  <2>1. ASSUME NEW m \in Mounts(new)
        PROVE  f.buf[new[m].map].dev \in {new[m].dev, NO_DEV}
    <3> DEFINE e == new[m].map
    <3>1. e \in Bufs /\ v[e] # 0
      <4>1. new \in Tables /\ e \in Bufs
        BY <1>9 DEF Slots
      <4> QED BY <1>1, <4>1, Used1 DEF v
    <3>2. f.buf[e].dev \in {x.buf[e].dev, NO_DEV}
      <4> HIDE DEF e
      <4> QED BY <1>14, <3>1 DEF Near
    <3>3. x.buf[e].dev \in {new[m].dev, NO_DEV}
      BY <1>2, <1>9 DEF Safe, MapsRight, sup
    <3> QED BY <3>2, <3>3
  <2>2. y.super = new /\ y.buf = f.buf
    BY <1>16
  <2> QED BY <2>1, <2>2, MapsAre
<1>18. Within(y, o)
  <2> SUFFICES ASSUME NEW a \in Bufs PROVE f.buf[a].dev \in DevsIn(new) \cup o \cup {NO_DEV}
    BY <1>16 DEF Within
  <2>1. f.buf[a].dev \in DevsOf(x) \cup ds
    BY <1>14 DEF Near
  <2>2. DevsOf(x) \subseteq DevsIn(sup) \cup o \cup {NO_DEV}
    BY <1>2 DEF Safe, Within, DevsOf, sup
  <2>3. ROOT_DEV \in DevsIn(new)
    BY <1>9, RootIn
  <2>4. f.buf[a].dev # dev
    BY <1>5, <1>13, DevsAre
  <2> QED BY <1>9, <2>1, <2>2, <2>3, <2>4
<1>19. Safe(y, h, o)
  BY <1>1, <1>4, <1>9, <1>12, <1>13, <1>16, <1>17, <1>18 DEF Safe, v
<1> QED BY <1>19 DEF h

LEMMA MountTwice ==
  ASSUME NEW sup \in Tables, NEW n \in Supers, NEW dev \in Devs, NEW b \in Bufs,
         NEW t, t = [sup EXCEPT ![n].map = b], NEW new, new = [t EXCEPT ![n].dev = dev]
  PROVE  new = MountAt(sup, n, dev, b)
<1>1. /\ t[n] = [sup[n] EXCEPT !.map = b]
      /\ sup[n] \in [dev : Devs \cup {NO_DEV}, map : Bufs \cup {NIL}]
      /\ \A k \in Supers \ {n} : t[k] = sup[k]
  BY DEF Tables
<1>2. t[n] = [dev |-> sup[n].dev, map |-> b]
  BY <1>1
<1>3. new[n] = [dev |-> dev, map |-> b] /\ \A k \in Supers \ {n} : new[k] = sup[k]
  BY <1>1, <1>2 DEF Tables
<1> QED BY <1>1, <1>3 DEF Tables, MountAt

(* A device is mounted, or nothing is changed if there is no room for it *)
LEMMA MountSafe ==
  ASSUME NEW x, NEW o, Safe(x, <<>>, o), NEW dev \in Devs, dev \notin DevsIn(x.super),
         NEW n \in Supers, n \notin Mounts(x.super),
         \A k \in Supers : k > n => k \in Mounts(x.super), NEW bad, NEW type,
         NEW g, g = get_block(x, dev, SUPER_BLOCK, "NORMAL", bad),
         NEW f, f = put_block(g, g.got, type, bad),
         NEW l, l = load_bit_maps(f, n, dev, bad)
  PROVE  /\ ~ g.panic
         /\ l = f => Safe(invalidate(do_sync(unload_bit_maps(f, n, bad), bad), dev), <<>>, o)
         /\ l # f => Safe([l EXCEPT !.super[n].dev = dev], <<>>, o)
<1> DEFINE h    == <<>>
           sup  == x.super
           u    == Uses(h, sup)
           ds   == {dev}
           q    == o \cup {dev}
           r    == get_block(f, dev, MAP_BLOCK, "NORMAL", bad)
           b    == r.got
           new  == MountAt(sup, n, dev, b)
           v    == Plus(u, {b})
<1>1. h \in Seq(Bufs) /\ Len(h) <= MaxHeld /\ Len(h) < MaxHeld
  BY NothingHeld
<1>2. Safe(x, h, o)
  OBVIOUS
<1>3. l = IF f.in_use + 1 >= NR_BUFS - MARGIN THEN f ELSE [r EXCEPT !.super[n].map = b]
  BY DEF load_bit_maps
<1>4. r = get_block(f, dev, MAP_BLOCK, "NORMAL", bad)
  OBVIOUS
<1>5. Slots(sup) /\ sup \in Tables /\ o \subseteq Devs /\ ~ x.panic
  BY <1>2 DEF Safe, Slots
<1> HIDE DEF h, u, r
<1>6. Good(x, u, {}) /\ Cardinality(InUse(u)) < NR_BUFS
  BY <1>1, <1>2, SafeRoom DEF u
<1>7. SUPER_BLOCK \in Blocks /\ MAP_BLOCK \in Blocks /\ "NORMAL" \in Searches
      /\ dev \in Devs \cup {NO_DEV} /\ MAP_BLOCK \in Blocks \cup {NO_BLOCK}
  BY DevsAre DEF Searches
<1>8. /\ Good(f, u, {}) /\ Near(x, f, u, {dev}) /\ g.panic = x.panic /\ f.panic = x.panic
      /\ g.got \in Bufs
  <2> DEFINE sb == SUPER_BLOCK
  <2>1. sb \in Blocks /\ g = get_block(x, dev, sb, "NORMAL", bad)
    BY <1>7
  <2> HIDE DEF sb
  <2>2. GotPut(x, g, f, u, dev)
    BY <1>6, <2>1, GetsPuts
  <2> QED BY <2>2 DEF GotPut
<1>9. f.super = sup
  BY <1>8 DEF Near
<1>10. Safe(f, h, q) /\ q \subseteq Devs
  <2>1. Safe(x, h, q)
    BY <1>2, OpenSafe
  <2>2. ds \subseteq DevsIn(sup) \cup q \cup {NO_DEV} /\ Near(x, f, u, ds)
    BY <1>8
  <2> HIDE DEF ds, q
  <2>3. Safe(f, h, q)
    BY <1>5, <1>8, <2>1, <2>2, SafeNear DEF u
  <2>4. q \subseteq Devs
    BY <2>1 DEF Safe
  <2> QED BY <2>3, <2>4
<1>11. /\ f.in_use = Cardinality(InUse(u)) /\ Cardinality(InUse(u)) = Cardinality(Mounts(sup))
       /\ Cardinality(Mounts(sup)) \in Nat
  <2>1. f.in_use = Cardinality(InUse(u))
    BY <1>8 DEF Good, Books
  <2>2. /\ \A m \in Mounts(sup) : sup[m].map \in Bufs
        /\ \A m, k \in Mounts(sup) : m # k => sup[m].map # sup[k].map
    BY <1>5 DEF Slots
  <2> HIDE DEF sup
  <2>3. Cardinality(InUse(u)) = Cardinality(Mounts(sup))
    BY <1>5, <2>2, UsesBetween DEF u, h
  <2> QED BY <1>1, <2>1, <2>3, UsersFinite
<1>12. CASE f.in_use + 1 >= NR_BUFS - MARGIN
  <2>1. l = f
    BY <1>3, <1>12
  <2>2. sup[n].map = NIL
    <3> SUFFICES ASSUME sup[n].map # NIL PROVE FALSE
      OBVIOUS
    <3> HIDE DEF sup
    <3>1. n \notin Mounts(sup)
      BY DEF sup
    <3>2. Cardinality(Mounts(sup)) + 1 < NR_BUFS - MARGIN
      BY <1>5, <3>1, NotStale
    <3> QED BY <1>11, <1>12, <3>2, Numbers
  <2>3. unload_bit_maps(f, n, bad) = f
    BY <1>9, <2>2 DEF unload_bit_maps
  <2> DEFINE s == do_sync(f, bad)
             y == invalidate(s, dev)
  <2>4. Safe(s, h, q)
    <3>1. Safe(f, <<>>, q) /\ s = do_sync(f, bad)
      BY <1>10 DEF h
    <3> HIDE DEF s, q
    <3>2. Safe(s, <<>>, q)
      BY <3>1, SyncSafe
    <3> QED BY <3>2 DEF h
  <2>5. Safe(y, h, o)
    <3>1. q \subseteq o \cup {dev} /\ o \in SUBSET Devs /\ y = invalidate(s, dev)
      BY <1>5
    <3> HIDE DEF s, y, q
    <3> QED BY <2>4, <3>1, ForgetSafe
  <2> QED BY <1>5, <1>8, <2>1, <2>3, <2>5 DEF h
<1>13. CASE ~ (f.in_use + 1 >= NR_BUFS - MARGIN)
  <2>1. l = [r EXCEPT !.super[n].map = b]
    BY <1>3, <1>13
  <2>2. Got(f, r, u, dev, MAP_BLOCK, "NORMAL") /\ Near(f, r, u, ds)
    <3> DEFINE mb == MAP_BLOCK
    <3>1. mb \in Blocks /\ mb \in Blocks \cup {NO_BLOCK}
          /\ r = get_block(f, dev, mb, "NORMAL", bad)
      BY <1>4, <1>7
    <3> HIDE DEF mb
    <3>2. Got(f, r, u, dev, mb, "NORMAL")
      BY <1>6, <1>7, <1>8, <3>1, Gets
    <3>3. Near(f, r, u, {dev})
      BY <1>6, <1>7, <1>8, <3>1, GetsNear
    <3> QED BY <3>2, <3>3 DEF mb
  <2>3. b \in Bufs /\ r.panic = f.panic /\ Good(r, v, {}) /\ r.buf[b].dev \in {NO_DEV, dev}
    BY <2>2 DEF Got, Fresh
  <2>4. r \in Caches /\ r.super = sup /\ u \in [Bufs -> Nat]
    BY <1>6, <1>9, <2>2, <2>3 DEF Good, Books, Near
  <2>5. l # f
    <3>1. l.buf = r.buf
      BY <2>1, <2>4 DEF Caches
    <3>2. r.buf[b].count = v[b] /\ f.buf[b].count = u[b]
      BY <1>8, <2>3 DEF Good, Books
    <3>3. v[b] = u[b] + 1
      BY <2>3, <2>4 DEF Plus
    <3>4. u[b] \in Nat
      BY <2>3, <2>4
    <3> QED BY <3>1, <3>2, <3>3, <3>4
  <2> DEFINE y == [l EXCEPT !.super[n].dev = dev]
  <2>6. y = SuperIs(r, new)
    <3> DEFINE t == l.super
    <3>1. t = [sup EXCEPT ![n].map = b] /\ y.super = [t EXCEPT ![n].dev = dev]
          /\ y = [r EXCEPT !.super = y.super]
      BY <2>1, <2>4 DEF Caches
    <3> HIDE DEF sup, b, t, y, new
    <3>2. y.super = MountAt(sup, n, dev, b)
      BY <1>5, <2>3, <3>1, MountTwice
    <3> QED BY <3>1, <3>2 DEF SuperIs, new
  <2>7. \A k \in Mounts(sup) : sup[k].map # b
    <3> SUFFICES ASSUME NEW k \in Mounts(sup), sup[k].map = b PROVE FALSE
      OBVIOUS
    <3>1. u[b] # 0
      BY <1>1, <1>5, <2>3, Used1 DEF u
    <3>2. f.buf[b].dev = dev
      BY <2>2, <2>3, <3>1 DEF Got, Valid
    <3>3. f.buf[b].dev \in {sup[k].dev, NO_DEV}
      BY <1>9, <1>10 DEF Safe, MapsRight
    <3>4. sup[k].dev \in DevsIn(sup)
      BY DEF Mounts, DevsIn
    <3> QED BY <3>2, <3>3, <3>4, DevsAre
  <2>8. Slots(new)
    <3>1. Cardinality(Mounts(sup)) + 1 < NR_BUFS - MARGIN
      BY <1>11, <1>13, Numbers
    <3>2. n \notin Mounts(sup) /\ dev \notin DevsIn(sup)
          /\ \A k \in Supers : k > n => k \in Mounts(sup)
      OBVIOUS
    <3>3. new = MountAt(sup, n, dev, b)
      OBVIOUS
    <3> HIDE DEF sup, b, new
    <3> QED BY <1>5, <2>3, <2>7, <3>1, <3>2, <3>3, MountSlots
  <2>9. Uses(h, new) = v /\ Mounts(new) = Mounts(sup) \cup {n}
    <3>1. n \notin Mounts(sup) /\ new = MountAt(sup, n, dev, b)
      OBVIOUS
    <3> HIDE DEF sup, b, new
    <3> QED BY <1>1, <1>5, <2>3, <3>1, UsesMount DEF u
  <2>10. /\ new \in Tables /\ new[n] = [dev |-> dev, map |-> b]
         /\ \A k \in Supers \ {n} : new[k] = sup[k]
    BY <1>5, <2>3 DEF MountAt, Tables
  <2> HIDE DEF v, y, new, b
  <2>11. Good(y, v, {}) /\ y.super = new /\ y.panic = r.panic /\ y.buf = r.buf
    BY <2>3, <2>6, <2>10, SuperChanges
  <2>12. r.super = f.super /\ MapsRight(r) /\ Within(r, q)
    <3>1. Near(f, r, Uses(h, f.super), ds) /\ ds \subseteq DevsIn(f.super) \cup q \cup {NO_DEV}
      BY <1>9, <2>2 DEF u
    <3> HIDE DEF ds, q
    <3> QED BY <1>10, <3>1, NearSafe
  <2>13. MapsRight(y)
    <3> SUFFICES ASSUME NEW m \in Mounts(new)
                 PROVE  r.buf[new[m].map].dev \in {new[m].dev, NO_DEV}
      BY <2>11, MapsAre
    <3>1. CASE m = n
      BY <2>3, <2>10, <3>1
    <3>2. CASE m # n
      <4>1. m \in Mounts(sup) /\ new[m] = sup[m]
        BY <2>9, <2>10, <3>2 DEF Mounts
      <4> QED BY <1>9, <2>12, <4>1 DEF MapsRight
    <3> QED BY <3>1, <3>2
  <2>14. Within(y, o)
    <3>1. DevsIn(sup) \cup {dev} \subseteq DevsIn(new)
      <4>1. dev \in DevsIn(new)
        BY <2>10, DevsAre DEF DevsIn
      <4>2. ASSUME NEW d \in DevsIn(sup) PROVE d \in DevsIn(new)
        <5>1. PICK k \in Supers : d = sup[k].dev /\ d # NO_DEV
          BY DEF DevsIn
        <5>2. k # n
          BY <5>1 DEF Mounts
        <5> QED BY <2>10, <5>1, <5>2 DEF DevsIn
      <4> QED BY <4>1, <4>2
    <3> QED BY <1>9, <2>11, <2>12, <3>1 DEF Within
  <2>15. Safe(y, h, o)
    BY <1>1, <1>5, <1>8, <2>3, <2>8, <2>9, <2>11, <2>13, <2>14 DEF Safe
  <2> QED BY <1>5, <1>8, <2>5, <2>15 DEF h, y
<1> QED BY <1>12, <1>13

-----------------------------------------------------------------------------
(* The inductive invariant *)
IInv == Safe(c, held, open)

LEMMA Maximum ==
  ASSUME NEW S \in SUBSET Supers, S # {}
  PROVE  Max(S) \in S /\ \A k \in S : k <= Max(S)
<1> DEFINE T == {NR_SUPERS - k : k \in S}
<1>1. T \in SUBSET Nat /\ T # {}
  <2>1. \A k \in S : k \in Int /\ NR_SUPERS - k \in Nat
    BY Numbers DEF Supers
  <2> QED BY <2>1
<1>2. PICK m \in T : \A k \in T : m <= k
  <2> HIDE DEF T
  <2> QED BY <1>1, LeastNat
<1>3. PICK n \in S : m = NR_SUPERS - n
  BY <1>2
<1>4. \A k \in S : n >= k
  <2> SUFFICES ASSUME NEW k \in S PROVE n >= k
    OBVIOUS
  <2>1. m <= NR_SUPERS - k
    BY <1>2
  <2> QED BY <1>3, <2>1, Numbers DEF Supers
<1>5. Max(S) \in S /\ \A k \in S : Max(S) >= k
  BY <1>4 DEF Max
<1> QED BY <1>5 DEF Supers

(* The first state *)
LEMMA InitOrder ==
  /\ SetToSeq(Bufs) \in Bijection(1 .. NR_BUFS, Bufs)
  /\ SetToSeq(Bufs)[1] \in Bufs
<1> DEFINE f == SetToSeq(Bufs)
           D == 1 .. NR_BUFS
<1>1. IsFiniteSet(Bufs) /\ NR_BUFS \in Nat /\ NR_BUFS > 0
  BY Numbers
<1>2. \E g \in [D -> Bufs] : IsInjective(g)
  <2>1. ExistsBijection(1 .. Cardinality(Bufs), Bufs)
    BY <1>1, FS_CardinalityType
  <2>2. PICK g : g \in Bijection(D, Bufs)
    BY <2>1 DEF ExistsBijection, NR_BUFS
  <2> QED BY <2>2 DEF Bijection, Injection
<1>3. f \in [D -> Bufs] /\ IsInjective(f)
  BY <1>2 DEF SetToSeq, NR_BUFS
<1> HIDE DEF f, D
<1>4. f \in Injection(D, Bufs)
  BY <1>3 DEF Injection
<1>5. IsFiniteSet(D) /\ Cardinality(D) = Cardinality(Bufs)
  <2>1. Cardinality(1 .. NR_BUFS) = NR_BUFS /\ IsFiniteSet(1 .. NR_BUFS)
    BY <1>1, FS_Interval
  <2> QED BY <2>1 DEF D, NR_BUFS
<1>6. f \in Surjection(D, Bufs)
  BY <1>1, <1>4, <1>5, FS_Injection
<1>7. f \in Bijection(D, Bufs)
  BY <1>4, <1>6 DEF Bijection
<1>8. f[1] \in Bufs
  BY <1>1, <1>3 DEF D
<1> QED BY <1>7, <1>8 DEF f, D

LEMMA InitSafe ==
  ASSUME Init
  PROVE  IInv
<1> DEFINE order == SetToSeq(Bufs)
           map   == order[1]
           disk  == [s \in Sectors |-> 0]
           sup   == [n \in Supers |-> IF n = 1 THEN [dev |-> ROOT_DEV, map |-> map]
                                      ELSE [dev |-> NO_DEV, map |-> NIL]]
           free  == [dev |-> NO_DEV, block |-> NO_BLOCK, dirt |-> FALSE, count |-> 0,
                     data |-> JUNK]
           used  == [dev |-> ROOT_DEV, block |-> MAP_BLOCK, dirt |-> FALSE, count |-> 1,
                     data |-> disk[<<ROOT_DEV, MAP_BLOCK>>]]
           h     == <<>>
           u     == Uses(h, sup)
<1>1. /\ c = [buf |-> [b \in Bufs |-> IF b # map THEN free ELSE used], lru |-> order,
              in_use |-> 1, disk |-> disk, super |-> sup, got |-> NIL, panic |-> FALSE]
      /\ held = h /\ open = {}
  BY DEF Init
<1>2. order \in Bijection(1 .. NR_BUFS, Bufs) /\ map \in Bufs
  BY InitOrder
<1>3. order \in [1 .. NR_BUFS -> Bufs]
  BY <1>2 DEF Bijection, Injection
<1>4. h \in Seq(Bufs) /\ Len(h) <= MaxHeld
  BY NothingHeld
<1>5. /\ disk \in [Sectors -> Data \cup {JUNK}] /\ <<ROOT_DEV, MAP_BLOCK>> \in Sectors
      /\ disk[<<ROOT_DEV, MAP_BLOCK>>] = 0
  BY DevsAre DEF Sectors, Data
<1> HIDE DEF order, map, disk
<1>6. 1 \in Supers /\ sup \in Tables /\ sup[1].dev = ROOT_DEV /\ sup[1].map = map
      /\ \A n \in Supers \ {1} : sup[n].dev = NO_DEV /\ sup[n].map = NIL
  BY <1>2, Numbers, DevsAre DEF Tables, Supers
<1>7. Mounts(sup) = {1}
  BY <1>6, DevsAre DEF Mounts
<1> HIDE DEF sup, h
<1>8. Cardinality(Mounts(sup)) = 1
  BY <1>7, FS_Singleton
<1>9. Slots(sup)
  BY <1>2, <1>6, <1>7, <1>8 DEF Slots
<1>10. u \in [Bufs -> Nat] /\ \A b \in Bufs : u[b] = IF b = map THEN 1 ELSE 0
  <2>1. u \in [Bufs -> Nat]
    BY <1>4, UsesType
  <2>2. ASSUME NEW b \in Bufs PROVE u[b] = IF b = map THEN 1 ELSE 0
    <3>1. u[b] = Cardinality(Holding(h, b)) + Cardinality(Mapping(sup, b))
      BY UsesAt
    <3>2. Holding(h, b) = {}
      BY DEF Holding, h
    <3>3. Mapping(sup, b) = IF b = map THEN {1} ELSE {}
      BY <1>6, <1>7 DEF Mapping
    <3> QED BY <3>1, <3>2, <3>3, FS_EmptySet, FS_Singleton
  <2> QED BY <2>1, <2>2
<1> HIDE DEF u
<1>11. Cardinality(InUse(u)) = 1
  <2>1. InUse(u) = {map}
    BY <1>2, <1>10 DEF InUse
  <2> QED BY <2>1, FS_Singleton
<1>12. free \in Buffers /\ used \in Buffers
  BY <1>5, DevsAre DEF Buffers, Data
<1>13. c \in Caches
  <2>1. [b \in Bufs |-> IF b # map THEN free ELSE used] \in [Bufs -> Buffers]
    BY <1>12
  <2> HIDE DEF free, used
  <2> QED BY <1>1, <1>3, <1>5, <1>6, <2>1 DEF Caches, Tables, Buffers
<1>14. /\ c.lru = order /\ c.in_use = 1 /\ c.disk = disk /\ c.super = sup /\ ~ c.panic
       /\ \A b \in Bufs : c.buf[b] = IF b # map THEN free ELSE used
  BY <1>1
<1>15. Books(c, u)
  <2>1. \A b \in Bufs : c.buf[b].count = u[b]
    BY <1>10, <1>14
  <2> QED BY <1>2, <1>10, <1>11, <1>13, <1>14, <2>1 DEF Books
<1>16. \A b \in Bufs : Valid(c, b) => b = map
  BY <1>14 DEF Valid
<1>17. Sector(c, map) = <<ROOT_DEV, MAP_BLOCK>> /\ c.buf[map].data = 0
  BY <1>2, <1>5, <1>14 DEF Sector
<1>18. Single(c)
  <2>1. ASSUME NEW b1 \in Bufs, NEW b2 \in Bufs, Sector(c, b1) = Sector(c, b2), Valid(c, b1)
        PROVE  b1 = b2
    <3>1. c.buf[b1].dev = c.buf[b2].dev
      BY <2>1 DEF Sector
    <3> QED BY <1>16, <2>1, <3>1 DEF Valid
  <2>2. \A b \in Bufs : Valid(c, b) => Sector(c, b) \in Sectors
    BY <1>5, <1>16, <1>17
  <2> QED BY <2>1, <2>2 DEF Single
<1>19. \A b \in Bufs : Clean(c, b)
  BY <1>5, <1>14, <1>16, <1>17 DEF Clean
<1>20. Good(c, u, {})
  BY <1>15, <1>18, <1>19 DEF Good
<1>21. MapsRight(c)
  <2>1. c.buf[map].dev = ROOT_DEV
    BY <1>2, <1>14
  <2> QED BY <1>6, <1>7, <1>14, <2>1 DEF MapsRight
<1>22. Within(c, open)
  <2>1. ROOT_DEV \in DevsIn(sup)
    BY <1>9, RootIn
  <2> QED BY <1>14, <2>1 DEF Within
<1> QED BY <1>1, <1>4, <1>9, <1>14, <1>20, <1>21, <1>22 DEF IInv, Safe, u

(* What the call got is remembered *)
LEMMA Acquires ==
  ASSUME NEW g, Acquire(g), ~ g.panic, Safe(g, Append(held, g.got), open)
  PROVE  IInv'
<1>1. c' = Settled(g) /\ held' = Append(held, g.got) /\ open' = open
  BY DEF Acquire, Settle, Settled
<1>2. Safe(c', held', open')
  BY <1>1, SettledSafe
<1> QED BY <1>2 DEF IInv

LEMMA Mounted ==
  /\ mounted = DevsIn(c.super)
  /\ Maps = {c.super[n].map : n \in Mounts(c.super)}
BY DEF mounted, DevsIn, Maps, Mounts

LEMMA SectorParts ==
  ASSUME NEW s \in Reachable
  PROVE  s[1] \in Devs /\ s[2] \in Blocks /\ s[1] \in DevsIn(c.super) \cup open
<1>1. s \in Used /\ s[1] \in mounted \cup open
  BY DEF Reachable
<1>2. s \in Sectors
  BY <1>1, CacheAssumption
<1> QED BY <1>1, <1>2, Mounted DEF Sectors

LEMMA GetKeeps ==
  ASSUME IInv, Get
  PROVE  IInv'
<1>1. PICK s \in Reachable, bad \in Failing : Acquire(get_block(c, s[1], s[2], "NORMAL", bad))
  BY DEF Get
<1> DEFINE dev   == s[1]
           block == s[2]
           g     == get_block(c, dev, block, "NORMAL", bad)
<1>2. dev \in Devs /\ block \in Blocks /\ dev \in DevsIn(c.super) \cup open
  BY SectorParts
<1>3. Safe(c, held, open) /\ Len(held) < MaxHeld
  BY <1>1 DEF IInv, Acquire
<1>4. Acquire(g) /\ g = get_block(c, dev, block, "NORMAL", bad)
  BY <1>1
<1> HIDE DEF dev, block, g
<1>5. ~ g.panic /\ Safe(g, Append(held, g.got), open)
  BY <1>2, <1>3, <1>4, GetSafe
<1> QED BY <1>4, <1>5, Acquires

LEMMA GetWholeKeeps ==
  ASSUME IInv, GetWhole
  PROVE  IInv'
<1>1. PICK s \in Reachable, bad \in Failing :
        LET g == get_block(c, s[1], s[2], "NO_READ", bad)
        IN  \/ \E data \in Data : Acquire(IF g.panic THEN g ELSE Overwrite(g, g.got, data))
            \/ BadAddress /\ Acquire(IF g.panic THEN g ELSE Overwrite(g, g.got, g.buf[g.got].data))
  BY DEF GetWhole
<1> DEFINE dev   == s[1]
           block == s[2]
           g     == get_block(c, dev, block, "NO_READ", bad)
<1>2. dev \in Devs /\ block \in Blocks /\ dev \in DevsIn(c.super) \cup open
  BY SectorParts
<1>3. PICK d : /\ d \in Data \/ d = g.buf[g.got].data
               /\ Acquire(IF g.panic THEN g ELSE Overwrite(g, g.got, d))
  BY <1>1
<1>4. Safe(c, held, open) /\ Len(held) < MaxHeld
  BY <1>3 DEF IInv, Acquire
<1>5. g = get_block(c, dev, block, "NO_READ", bad)
  OBVIOUS
<1> HIDE DEF dev, block, g
<1>6. Whole(g, held, open)
  BY <1>2, <1>4, <1>5, WholeSafe
<1> DEFINE y == Overwrite(g, g.got, d)
<1>7. Acquire(y) /\ d \in Data \cup {JUNK}
  BY <1>3, <1>6 DEF Whole
<1>8. ~ y.panic /\ Safe(y, Append(held, y.got), open)
  BY <1>6, <1>7 DEF Whole
<1> HIDE DEF y
<1> QED BY <1>7, <1>8, Acquires

LEMMA GetHoleKeeps ==
  ASSUME IInv, GetHole
  PROVE  IInv'
<1>1. PICK bad \in Failing :
        LET g == get_block(c, NO_DEV, NO_BLOCK, "NORMAL", bad)
        IN  Acquire(IF g.panic THEN g ELSE Overwrite(g, g.got, JUNK))
  BY DEF GetHole
<1> DEFINE g == get_block(c, NO_DEV, NO_BLOCK, "NORMAL", bad)
           y == Overwrite(g, g.got, JUNK)
<1>2. Acquire(IF g.panic THEN g ELSE y)
  BY <1>1
<1>3. Safe(c, held, open) /\ Len(held) < MaxHeld
  BY <1>2 DEF IInv, Acquire
<1>4. g = get_block(c, NO_DEV, NO_BLOCK, "NORMAL", bad) /\ y = Overwrite(g, g.got, JUNK)
  OBVIOUS
<1> HIDE DEF g, y
<1>5. ~ g.panic /\ ~ y.panic /\ Safe(y, Append(held, y.got), open)
  BY <1>3, <1>4, HoleSafe
<1> QED BY <1>2, <1>5, Acquires

LEMMA ReadAheadKeeps ==
  ASSUME IInv, ReadAhead
  PROVE  IInv'
<1>1. PICK s \in Reachable, bad \in Failing, limit \in {NR_BUFS, NR_BUFS - 2},
           get \in {1, NR_BLOCKS} :
        LET more == [k \in 1 .. NR_BLOCKS - s[2] |-> s[2] + k]
        IN  Acquire(rahead(c, s[1], s[2], more, limit, get, bad))
  BY DEF ReadAhead
<1> DEFINE dev   == s[1]
           block == s[2]
           more  == [k \in 1 .. NR_BLOCKS - block |-> block + k]
           y     == rahead(c, dev, block, more, limit, get, bad)
<1>2. dev \in Devs /\ block \in Blocks /\ dev \in DevsIn(c.super) \cup open
  BY SectorParts
<1>3. Acquire(y) /\ y = rahead(c, dev, block, more, limit, get, bad)
  BY <1>1
<1>4. Safe(c, held, open) /\ Len(held) < MaxHeld
  BY <1>3 DEF IInv, Acquire
<1>5. limit \in Int /\ limit <= NR_BUFS
  BY Numbers
<1> HIDE DEF dev, block, y
<1>6. more = [k \in 1 .. NR_BLOCKS - block |-> block + k]
  OBVIOUS
<1> HIDE DEF more
<1>7. ~ y.panic /\ Safe(y, Append(held, y.got), open)
  BY <1>2, <1>3, <1>4, <1>5, <1>6, AheadSafe
<1> QED BY <1>3, <1>7, Acquires

(* The call works on what it has *)
LEMMA Settling ==
  ASSUME NEW g, Settle(g), Safe(g, held', open')
  PROVE  IInv'
<1>1. c' = Settled(g)
  BY DEF Settle, Settled
<1> QED BY <1>1, SettledSafe DEF IInv

LEMMA ModifyKeeps ==
  ASSUME IInv, Modify
  PROVE  IInv'
<1>1. PICK b \in ToSet(held) \cup {x \in Maps : Sector(c, x) \in Used}, d \in Data :
        Settle(Overwrite(c, b, d))
  BY DEF Modify
<1>2. held' = held /\ open' = open /\ Safe(c, held, open)
  BY DEF Modify, IInv
<1>3. b \in Bufs
  <2>1. Maps \subseteq Bufs
    BY <1>2, Mounted DEF Safe, Slots
  <2>2. ToSet(held) \subseteq Bufs
    BY <1>2 DEF Safe, ToSet
  <2> QED BY <2>1, <2>2
<1> DEFINE y == Overwrite(c, b, d)
<1>4. Settle(y) /\ y = Overwrite(c, b, d)
  BY <1>1
<1> HIDE DEF y
<1>5. Safe(y, held', open')
  BY <1>2, <1>3, <1>4, ModifySafe
<1> QED BY <1>4, <1>5, Settling

LEMMA PutKeeps ==
  ASSUME IInv, Put
  PROVE  IInv'
<1>1. PICK k \in DOMAIN held, type \in Types, bad \in Failing :
        Settle(put_block(c, held[k], type, bad)) /\ held' = RemoveAt(held, k)
  BY DEF Put
<1> DEFINE y == put_block(c, held[k], type, bad)
<1>2. Settle(y) /\ y = put_block(c, held[k], type, bad) /\ held' = RemoveAt(held, k)
      /\ open' = open /\ Safe(c, held, open)
  BY <1>1 DEF Put, IInv
<1> HIDE DEF y
<1>3. Safe(y, held', open')
  BY <1>2, PutSafe
<1> QED BY <1>2, <1>3, Settling

LEMMA SyncKeeps ==
  ASSUME IInv, Sync
  PROVE  IInv'
<1>1. PICK bad \in Failing : Settle(do_sync(c, bad))
  BY DEF Sync
<1> DEFINE y == do_sync(c, bad)
<1>2. Settle(y) /\ y = do_sync(c, bad)
  BY <1>1
<1>3. held = <<>> /\ held' = held /\ open' = open /\ Safe(c, held, open)
  BY DEF Sync, Between, IInv
<1> HIDE DEF y
<1>4. Safe(y, <<>>, open)
  BY <1>2, <1>3, SyncSafe
<1> QED BY <1>2, <1>3, <1>4, Settling

LEMMA OpenSpecialKeeps ==
  ASSUME IInv, OpenSpecial
  PROVE  IInv'
<1>1. PICK s \in Used : open' = open \cup {s[1]}
  BY DEF OpenSpecial
<1>2. c' = c /\ held' = held /\ Safe(c, held, open)
  BY DEF OpenSpecial, Between, IInv
<1>3. s[1] \in Devs
  BY CacheAssumption DEF Sectors
<1>4. Safe(c, held, open \cup {s[1]})
  BY <1>2, <1>3, OpenSafe
<1> QED BY <1>1, <1>2, <1>4 DEF IInv

LEMMA CloseSpecialKeeps ==
  ASSUME IInv, CloseSpecial
  PROVE  IInv'
<1>1. PICK dev \in open, bad \in Failing :
        LET g == do_sync(c, bad)
        IN  /\ Settle(IF dev \in mounted THEN g ELSE invalidate(g, dev))
            /\ open' = open \ {dev}
  BY DEF CloseSpecial
<1> DEFINE g == do_sync(c, bad)
           y == IF dev \in mounted THEN g ELSE invalidate(g, dev)
<1>2. Settle(y) /\ open' = open \ {dev}
  BY <1>1
<1>3. held = <<>> /\ held' = held /\ Safe(c, held, open)
  BY DEF CloseSpecial, Between, IInv
<1>4. /\ dev \in DevsIn(c.super) => Safe(g, <<>>, open \ {dev})
      /\ Safe(invalidate(g, dev), <<>>, open \ {dev})
  <2>1. Safe(c, <<>>, open) /\ g = do_sync(c, bad)
    BY <1>3
  <2> HIDE DEF g
  <2> QED BY <2>1, CloseSafe
<1>5. Safe(y, held', open')
  BY <1>2, <1>3, <1>4, Mounted
<1> HIDE DEF y
<1> QED BY <1>2, <1>5, Settling

LEMMA MountKeeps ==
  ASSUME IInv, Mount
  PROVE  IInv'
<1> DEFINE free == {n \in Supers : c.super[n].dev = NO_DEV}
           n    == Max(free)
           type == {"WRITE_IMMED", "ONE_SHOT", "ZUPER"}
<1>1. PICK dev \in Devs \ mounted, bad \in Failing :
        LET g == get_block(c, dev, SUPER_BLOCK, "NORMAL", bad)
            f == put_block(g, g.got, type, bad)
            l == load_bit_maps(f, n, dev, bad)
        IN  /\ free # {}
            /\ Settle(IF g.panic THEN g
                      ELSE IF l = f THEN invalidate(do_sync(unload_bit_maps(f, n, bad), bad), dev)
                      ELSE [l EXCEPT !.super[n].dev = dev])
  BY DEF Mount
<1> DEFINE g == get_block(c, dev, SUPER_BLOCK, "NORMAL", bad)
           f == put_block(g, g.got, type, bad)
           l == load_bit_maps(f, n, dev, bad)
           y == IF l = f THEN invalidate(do_sync(unload_bit_maps(f, n, bad), bad), dev)
                ELSE [l EXCEPT !.super[n].dev = dev]
<1>2. free # {} /\ Settle(IF g.panic THEN g ELSE y)
  BY <1>1
<1>3. held = <<>> /\ held' = held /\ open' = open /\ Safe(c, <<>>, open)
  BY DEF Mount, Between, IInv
<1>4. n \in free /\ \A k \in free : k <= n
  <2>1. free \in SUBSET Supers
    OBVIOUS
  <2> HIDE DEF free
  <2> QED BY <1>2, <2>1, Maximum
<1>5. n \in Supers /\ n \notin Mounts(c.super)
      /\ \A k \in Supers : k > n => k \in Mounts(c.super)
  <2>1. n \in Supers /\ n \notin Mounts(c.super)
    BY <1>4 DEF Mounts
  <2>2. \A k \in Supers : k > n => k \notin free
    BY <1>4, <2>1 DEF Supers
  <2> HIDE DEF n
  <2> QED BY <2>1, <2>2 DEF Mounts
<1>6. dev \in Devs /\ dev \notin DevsIn(c.super)
  BY Mounted
<1>7. /\ ~ g.panic
      /\ l = f => Safe(invalidate(do_sync(unload_bit_maps(f, n, bad), bad), dev), <<>>, open)
      /\ l # f => Safe([l EXCEPT !.super[n].dev = dev], <<>>, open)
  <2>1. /\ g = get_block(c, dev, SUPER_BLOCK, "NORMAL", bad) /\ f = put_block(g, g.got, type, bad)
        /\ l = load_bit_maps(f, n, dev, bad)
    OBVIOUS
  <2> HIDE DEF g, f, l, n, free, type
  <2> QED BY <1>3, <1>5, <1>6, <2>1, MountSafe
<1>8. Settle(y) /\ Safe(y, held', open')
  BY <1>2, <1>3, <1>7
<1> HIDE DEF y
<1> QED BY <1>8, Settling

LEMMA UnmountKeeps ==
  ASSUME IInv, Unmount
  PROVE  IInv'
<1>1. PICK n \in Supers, bad \in Failing :
        LET dev == c.super[n].dev
        IN  /\ dev \notin {ROOT_DEV, NO_DEV}
            /\ Settle([invalidate(do_sync(unload_bit_maps(c, n, bad), bad), dev)
                         EXCEPT !.super[n].dev = NO_DEV])
  BY DEF Unmount
<1> DEFINE dev == c.super[n].dev
           z   == unload_bit_maps(c, n, bad)
           s   == do_sync(z, bad)
           f   == invalidate(s, dev)
           y   == SuperIs(f, UnmountAt(f.super, n))
<1>2. dev # ROOT_DEV /\ n \in Mounts(c.super) /\ dev = c.super[n].dev
  BY <1>1 DEF Mounts
<1>3. held = <<>> /\ held' = held /\ open' = open /\ Safe(c, <<>>, open)
  BY DEF Unmount, Between, IInv
<1>4. /\ z = unload_bit_maps(c, n, bad) /\ s = do_sync(z, bad) /\ f = invalidate(s, dev)
      /\ y = SuperIs(f, UnmountAt(f.super, n))
  OBVIOUS
<1>5. Settle([f EXCEPT !.super[n].dev = NO_DEV])
  BY <1>1
<1> HIDE DEF f
<1>6. Settle(y)
  BY <1>5 DEF SuperIs, UnmountAt
<1> HIDE DEF dev, z, s, y
<1>7. Safe(y, <<>>, open)
  BY <1>2, <1>3, <1>4, UnmountSafe
<1> QED BY <1>3, <1>6, <1>7, Settling

LEMMA StepKeeps == IInv /\ [Next]_vars => IInv'
<1> SUFFICES ASSUME IInv, [Next]_vars PROVE IInv'
  OBVIOUS
<1>1. CASE UNCHANGED vars
  BY <1>1 DEF vars, IInv
<1>2. CASE Next
  BY <1>2, GetKeeps, GetWholeKeeps, GetHoleKeeps, ReadAheadKeeps, ModifyKeeps, PutKeeps, SyncKeeps,
     OpenSpecialKeeps, CloseSpecialKeeps, MountKeeps, UnmountKeeps DEF Next
<1> QED BY <1>1, <1>2

-----------------------------------------------------------------------------
(* The invariant IInv holds, whatever sectors fail: get_block(),           *)
(* put_block(), rahead(), load_bit_maps(), invalidate() and do_sync() keep *)
(* it in every order in which calls use them                               *)
THEOREM Kept_IInv == Spec => []IInv
<1>1. Init => IInv
  BY InitSafe
<1> QED BY <1>1, StepKeeps, PTL DEF Spec

(* What a buffer counts are its users, and bufs_in_use the buffers that    *)
(* have any, so that no buffer is taken from its user and FS never runs    *)
(* out of buffers and panics (get_block, put_block, rahead, load_bit_maps) *)
THEOREM BufsRight == Spec => []BufsKept
<1>1. IInv => BufsKept
  <2> SUFFICES ASSUME IInv PROVE BufsKept
    OBVIOUS
  <2> DEFINE u == Uses(held, c.super)
  <2>1. /\ ~ c.panic /\ held \in Seq(Bufs) /\ open \subseteq Devs
        /\ Good(c, u, {})
    BY DEF IInv, Safe
  <2>2. c \in Caches /\ u \in [Bufs -> Nat] /\ (\A b \in Bufs : c.buf[b].count = u[b])
        /\ c.in_use = Cardinality(InUse(u))
    BY <2>1 DEF Good, Books
  <2>3. \A b \in Bufs : Users(b) = u[b]
    <3> SUFFICES ASSUME NEW b \in Bufs PROVE Users(b) = u[b]
      OBVIOUS
    <3>1. Mapping(c.super, b) = {n \in Supers : c.super[n].dev # NO_DEV /\ c.super[n].map = b}
      BY DEF Mapping, Mounts
    <3>2. Users(b) = Cardinality(Holding(held, b)) + Cardinality(Mapping(c.super, b))
      BY <3>1 DEF Users, Holding
    <3>3. u[b] = Cardinality(Holding(held, b)) + Cardinality(Mapping(c.super, b))
      BY UsesAt
    <3> QED BY <3>2, <3>3
  <2>4. {b \in Bufs : Users(b) > 0} = InUse(u)
    BY <2>2, <2>3 DEF InUse
  <2>5. BufsCounted
    BY <2>2, <2>3, <2>4 DEF BufsCounted
  <2> QED BY <2>1, <2>2, <2>5 DEF BufsKept, TypeOK, NoPanic
<1> QED BY <1>1, Kept_IInv, PTL

(* A block is in one buffer, which agrees with the device when it is not   *)
(* marked as modified, and the cache has nothing of devices that are       *)
(* neither mounted nor open (get_block, flushall, rahead, invalidate)      *)
THEOREM ConsistentRight == Spec => []Consistent
<1>1. IInv => Consistent
  <2> SUFFICES ASSUME IInv PROVE Consistent
    OBVIOUS
  <2>1. Good(c, Uses(held, c.super), {}) /\ Within(c, open)
    BY DEF IInv, Safe
  <2>2. OneCopy
    BY <2>1 DEF OneCopy, Good, Single, Valid
  <2>3. CleanIsStored
    BY <2>1 DEF CleanIsStored, Good, Clean, Valid
  <2>4. Forgotten
    BY <2>1, Mounted DEF Forgotten, Within
  <2> QED BY <2>2, <2>3, <2>4 DEF Consistent
<1> QED BY <1>1, Kept_IInv, PTL
=============================================================================
