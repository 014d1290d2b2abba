---------------------------- MODULE AllocProofs ----------------------------
(* Theorems about the hole list of module Alloc *)
EXTENDS Alloc, SequenceTheorems, FiniteSetTheorems, WellFoundedInduction, TLAPS

(* Facts about sets and sequences of the community modules *)

(* A set of numbers has a least element *)
LEMMA MinExists == ASSUME NEW I \in SUBSET Nat, I # {}
                   PROVE  Min(I) \in I /\ \A x \in I : Min(I) <= x
<1> DEFINE Below(n) == I \cap (0 .. n)
           Parts == {Below(n) : n \in I}
<1>1. Parts \subseteq FiniteSubsetsOf(Nat)
  <2> SUFFICES ASSUME NEW n \in I PROVE Below(n) \in SUBSET Nat /\ IsFiniteSet(Below(n))
    BY DEF FiniteSubsetsOf
  <2>1. IsFiniteSet(0 .. n)
    BY FS_Interval
  <2>2. Below(n) \in SUBSET (0 .. n)
    OBVIOUS
  <2> QED BY <2>1, <2>2, FS_Subset
<1>2. Parts # {}
  OBVIOUS
<1>3. PICK P \in Parts : \A Q \in Parts : <<Q, P>> \notin StrictSubsetOrdering(Nat)
  BY <1>1, <1>2, FS_StrictSubsetOrderingWellFounded, WFMin
<1>4. PICK m \in I : P = Below(m)
  OBVIOUS
<1>5. \A n \in I : m <= n
  <2> SUFFICES ASSUME NEW n \in I, n < m PROVE FALSE
    OBVIOUS
  <2>1. Below(n) \subseteq Below(m) /\ m \in Below(m) /\ m \notin Below(n)
    OBVIOUS
  <2>2. Below(n) \in SUBSET Nat /\ Below(m) \in SUBSET Nat
    OBVIOUS
  <2>3. <<Below(n), Below(m)>> \in StrictSubsetOrdering(Nat)
    BY <2>1, <2>2 DEF StrictSubsetOrdering
  <2> QED BY <1>3, <1>4, <2>3
<1> QED BY <1>5 DEF Min

LEMMA RemoveAtElements ==
  ASSUME NEW S, NEW s \in Seq(S), NEW i \in 1 .. Len(s)
  PROVE  /\ RemoveAt(s, i) \in Seq(S)
         /\ Len(RemoveAt(s, i)) = Len(s) - 1
         /\ \A j \in 1 .. Len(s) - 1 :
              RemoveAt(s, i)[j] = IF j < i THEN s[j] ELSE s[j + 1]
<1> DEFINE a == SubSeq(s, 1, i - 1)
           b == SubSeq(s, i + 1, Len(s))
<1>1. Len(s) \in Nat /\ \A j \in 1 .. Len(s) : s[j] \in S
  OBVIOUS
<1>2. a \in Seq(S) /\ Len(a) = i - 1 /\ \A j \in 1 .. i - 1 : a[j] = s[j]
  BY <1>1, SubSeqProperties
<1>3. b \in Seq(S) /\ Len(b) = Len(s) - i /\ \A j \in 1 .. Len(s) - i : b[j] = s[i + j]
  BY <1>1, SubSeqProperties
<1> HIDE DEF a, b
<1>4. /\ a \o b \in Seq(S) /\ Len(a \o b) = Len(a) + Len(b)
      /\ \A j \in 1 .. Len(a) + Len(b) :
           (a \o b)[j] = IF j <= Len(a) THEN a[j] ELSE b[j - Len(a)]
  BY <1>2, <1>3, ConcatProperties
<1> DEFINE c == a \o b
<1>5. RemoveAt(s, i) = c
  BY DEF RemoveAt, a, b
<1>6. /\ c \in Seq(S) /\ Len(c) = Len(s) - 1
      /\ \A j \in 1 .. Len(s) - 1 : c[j] = IF j < i THEN s[j] ELSE b[j - (i - 1)]
  BY <1>1, <1>2, <1>3, <1>4
<1> HIDE DEF c
<1>7. ASSUME NEW j \in 1 .. Len(s) - 1, ~(j < i) PROVE b[j - (i - 1)] = s[j + 1]
  <2>1. j - (i - 1) \in 1 .. Len(s) - i /\ i + (j - (i - 1)) = j + 1
    BY <1>1, <1>7
  <2> QED BY <1>3, <2>1
<1> QED BY <1>5, <1>6, <1>7

LEMMA InsertAtElements ==
  ASSUME NEW S, NEW s \in Seq(S), NEW i \in 1 .. Len(s) + 1, NEW e \in S
  PROVE  /\ InsertAt(s, i, e) \in Seq(S)
         /\ Len(InsertAt(s, i, e)) = Len(s) + 1
         /\ \A j \in 1 .. Len(s) + 1 :
              InsertAt(s, i, e)[j] =
                IF j < i THEN s[j] ELSE IF j = i THEN e ELSE s[j - 1]
<1> DEFINE a == SubSeq(s, 1, i - 1)
           b == SubSeq(s, i, Len(s))
           c == a \o <<e>>
<1>1. Len(s) \in Nat /\ \A j \in 1 .. Len(s) : s[j] \in S
  OBVIOUS
<1>2. a \in Seq(S) /\ Len(a) = i - 1 /\ \A j \in 1 .. i - 1 : a[j] = s[j]
  BY <1>1, SubSeqProperties
<1>3. /\ b \in Seq(S) /\ Len(b) = Len(s) - i + 1
      /\ \A j \in 1 .. Len(s) - i + 1 : b[j] = s[i + j - 1]
  BY <1>1, SubSeqProperties
<1>4. <<e>> \in Seq(S) /\ Len(<<e>>) = 1 /\ <<e>>[1] = e
  OBVIOUS
<1> HIDE DEF a, b
<1>5. /\ c \in Seq(S) /\ Len(c) = i
      /\ \A j \in 1 .. i : c[j] = IF j < i THEN s[j] ELSE e
  BY <1>2, <1>4, ConcatProperties
<1> HIDE DEF c
<1>6. /\ c \o b \in Seq(S) /\ Len(c \o b) = Len(c) + Len(b)
      /\ \A j \in 1 .. Len(c) + Len(b) :
           (c \o b)[j] = IF j <= Len(c) THEN c[j] ELSE b[j - Len(c)]
  BY <1>3, <1>5, ConcatProperties
<1>7. InsertAt(s, i, e) = c \o b
  BY DEF InsertAt, a, b, c
<1> QED BY <1>1, <1>3, <1>5, <1>6, <1>7

-----------------------------------------------------------------------------
(* The hole list *)

Tables == {t \in [list : Seq(Holes), slots : Nat, panic : Panics] :
             Len(t.list) + t.slots = NR_HOLES}

(* Sorted, but hole i may abut hole i + 1 if i is in S *)
Sorted(l, S) ==
  \A i \in 1 .. Len(l) : \A j \in 1 .. Len(l) :
    i < j => /\ End(l[i]) <= l[j].base
             /\ End(l[i]) = l[j].base => i \in S /\ j = i + 1

(* Click c is in a hole of l *)
InHole(l, c) == \E i \in 1 .. Len(l) : l[i].base <= c /\ c < End(l[i])

LEMMA HoleType ==
  ASSUME NEW o
  PROVE  o \in Holes <=> /\ o \in [base : Nat, len : Nat \ {0}]
                         /\ o = Hole(o.base, o.len)
                         /\ o.base + o.len <= TOTAL
<1>1. TOTAL \in Nat
  BY MemoryAssumption
<1>2. ASSUME o \in Holes
      PROVE  /\ o \in [base : Nat, len : Nat \ {0}] /\ o = Hole(o.base, o.len)
             /\ o.base + o.len <= TOTAL
  BY <1>1, <1>2 DEF Holes, Hole, End
<1>3. ASSUME o \in [base : Nat, len : Nat \ {0}], o.base + o.len <= TOTAL
      PROVE  o \in Holes
  BY <1>1, <1>3 DEF Holes, End
<1> QED BY <1>2, <1>3

LEMMA FreeClicksInHole ==
  ASSUME NEW t \in Tables, NEW c
  PROVE  c \in FreeClicks(t) <=> c \in Int /\ InHole(t.list, c)
<1>1. t.list \in Seq(Holes) /\ DOMAIN t.list = 1 .. Len(t.list)
  BY DEF Tables
<1>2. ASSUME NEW i \in 1 .. Len(t.list)
      PROVE  t.list[i].base \in Nat /\ t.list[i].len \in Nat
  BY <1>1, HoleType
<1> QED BY <1>1, <1>2 DEF FreeClicks, Extent, InHole, End

(* Then no two holes abut *)
LEMMA StrictlySorted ==
  ASSUME NEW l \in Seq(Holes)
  PROVE  Sorted(l, {}) <=> \A i \in 1 .. Len(l) : \A j \in 1 .. Len(l) :
                             i < j => End(l[i]) < l[j].base
<1>1. \A i \in 1 .. Len(l) : l[i].base \in Nat /\ l[i].len \in Nat /\ End(l[i]) \in Nat
  BY HoleType DEF End
<1> QED BY <1>1 DEF Sorted

(* A range of free clicks is in one hole *)
LEMMA OneHole ==
  ASSUME NEW l \in Seq(Holes), Sorted(l, {}), NEW c \in Int, NEW n \in Nat \ {0},
         \A d \in c .. c + n - 1 : InHole(l, d)
  PROVE  \E i \in 1 .. Len(l) : l[i].base <= c /\ c + n <= End(l[i])
<1>1. \A i \in 1 .. Len(l) : l[i].base \in Nat /\ l[i].len \in Nat \ {0} /\ End(l[i]) \in Nat
  BY HoleType DEF End
<1>2. c \in c .. c + n - 1
  OBVIOUS
<1>3. PICK i \in 1 .. Len(l) : l[i].base <= c /\ c < End(l[i])
  BY <1>2 DEF InHole
<1>4. SUFFICES ASSUME End(l[i]) < c + n PROVE FALSE
  BY <1>1, <1>3
<1>5. End(l[i]) \in c .. c + n - 1
  BY <1>1, <1>3, <1>4
<1>6. PICK j \in 1 .. Len(l) : l[j].base <= End(l[i]) /\ End(l[i]) < End(l[j])
  BY <1>5 DEF InHole
<1>7. CASE i < j
  BY <1>1, <1>6, <1>7 DEF Sorted
<1>8. CASE j < i
  <2>1. End(l[j]) <= l[i].base
    BY <1>8 DEF Sorted
  <2>2. l[i].base < End(l[i])
    BY <1>1 DEF End
  <2> QED BY <1>1, <1>6, <2>1, <2>2
<1>9. CASE i = j
  BY <1>1, <1>6, <1>9
<1> QED BY <1>7, <1>8, <1>9

LEMMA FirstFitSpec ==
  ASSUME NEW t \in Tables, NEW n \in Nat
  PROVE  \/ FirstFit(t, n) = 0 /\ \A i \in 1 .. Len(t.list) : t.list[i].len < n
         \/ /\ FirstFit(t, n) \in 1 .. Len(t.list)
            /\ t.list[FirstFit(t, n)].len >= n
            /\ \A i \in 1 .. Len(t.list) : t.list[i].len >= n => FirstFit(t, n) <= i
<1> DEFINE I == {i \in 1 .. Len(t.list) : t.list[i].len >= n}
<1>1. t.list \in Seq(Holes)
  BY DEF Tables
<1>2. I \in SUBSET Nat /\ \A i \in 1 .. Len(t.list) : t.list[i].len \in Nat
  BY <1>1, HoleType
<1>3. FirstFit(t, n) = IF I # {} THEN Min(I) ELSE 0
  BY DEF FirstFit, SelectInSeq
<1>4. CASE I = {}
  BY <1>2, <1>3, <1>4
<1>5. CASE I # {}
  BY <1>2, <1>3, <1>5, MinExists
<1> QED BY <1>4, <1>5

(* The numbers of a hole in a list *)
LEMMA HoleNumbers ==
  ASSUME NEW l \in Seq(Holes), NEW i \in 1 .. Len(l)
  PROVE  /\ Len(l) \in Nat /\ i \in Nat /\ l[i] \in Holes
         /\ l[i].base \in Nat /\ l[i].len \in Nat \ {0} /\ End(l[i]) \in Nat
         /\ End(l[i]) = l[i].base + l[i].len /\ End(l[i]) <= TOTAL
BY HoleType DEF End

(* The first n clicks of hole i are used, and some are left *)
LEMMA Bite ==
  ASSUME NEW l \in Seq(Holes), Sorted(l, {}), NEW i \in 1 .. Len(l),
         NEW n \in Nat \ {0}, n < l[i].len,
         NEW m, m = [l EXCEPT ![i] = Hole(l[i].base + n, l[i].len - n)]
  PROVE  /\ m \in Seq(Holes) /\ Len(m) = Len(l) /\ Sorted(m, {})
         /\ \A c \in Int : InHole(m, c) <=>
              InHole(l, c) /\ ~(l[i].base <= c /\ c < l[i].base + n)
<1> DEFINE rest == Hole(l[i].base + n, l[i].len - n)
<1>1. \A j \in 1 .. Len(l) : \A k \in 1 .. Len(l) : j < k => End(l[j]) < l[k].base
  BY StrictlySorted
<1>2. /\ rest \in [base : Nat, len : Nat \ {0}] /\ rest.base = l[i].base + n
      /\ rest.len = l[i].len - n
  BY HoleNumbers DEF Hole
<1> HIDE DEF rest
<1>3. rest \in Holes /\ End(rest) = End(l[i])
  <2>1. /\ l[i].base \in Nat /\ l[i].len \in Nat /\ End(l[i]) <= TOTAL
        /\ End(l[i]) = l[i].base + l[i].len
    BY HoleNumbers
  <2>3. rest.base + rest.len = End(l[i])
    BY SMTT(30), <1>2, <2>1
  <2>4. End(rest) = rest.base + rest.len
    BY DEF End
  <2>2. rest = Hole(rest.base, rest.len)
    BY <1>2 DEF rest
  <2> QED BY <1>2, <2>1, <2>2, <2>3, <2>4, HoleType
<1>4. /\ m \in Seq(Holes) /\ Len(m) = Len(l)
      /\ \A j \in 1 .. Len(l) : m[j] = IF j = i THEN rest ELSE l[j]
  BY <1>3, ExceptSeq DEF rest
<1>5. ASSUME NEW j \in 1 .. Len(l)
      PROVE  /\ End(m[j]) = End(l[j])
             /\ m[j].base = IF j = i THEN l[i].base + n ELSE l[j].base
  BY <1>2, <1>3, <1>4
<1>6. ASSUME NEW j \in 1 .. Len(l), NEW k \in 1 .. Len(l), j < k
      PROVE  End(m[j]) < m[k].base
  <2>1. End(l[j]) < l[k].base
    BY <1>1, <1>6
  <2>2. l[k].base <= m[k].base
    BY <1>5, HoleNumbers
  <2>3. m[k].base \in Nat /\ l[k].base \in Nat /\ End(l[j]) \in Nat
    BY <1>4, HoleNumbers
  <2> QED BY <1>5, <2>1, <2>2, <2>3
<1>7. Sorted(m, {})
  BY <1>4, <1>6, StrictlySorted
<1>8. ASSUME NEW c \in Int
      PROVE  InHole(m, c) <=> InHole(l, c) /\ ~(l[i].base <= c /\ c < l[i].base + n)
  <2>1. ASSUME NEW j \in 1 .. Len(l), j # i, l[j].base <= c, c < End(l[j])
        PROVE  ~(l[i].base <= c /\ c < l[i].base + n)
    <3>1. End(l[j]) < l[i].base \/ End(l[i]) < l[j].base
      BY <1>1, <2>1
    <3>2. /\ l[i].base \in Nat /\ End(l[j]) \in Nat /\ l[j].base \in Nat
          /\ End(l[i]) = l[i].base + l[i].len /\ l[i].len \in Nat
      BY HoleNumbers
    <3> QED BY <2>1, <3>1, <3>2, SMTT(30)
  <2>2. ASSUME NEW j \in 1 .. Len(l)
        PROVE  m[j].base <= c /\ c < End(m[j]) <=>
               /\ l[j].base <= c /\ c < End(l[j])
               /\ ~(l[i].base <= c /\ c < l[i].base + n)
    <3>1. CASE j = i
      BY <1>5, <3>1, HoleNumbers
    <3>2. CASE j # i
      BY <1>5, <2>1, <3>2
    <3> QED BY <3>1, <3>2
  <2> QED BY <1>4, <2>2 DEF InHole
<1> QED BY <1>4, <1>7, <1>8

(* Hole i is taken out of the list.  The holes on both sides of it do not  *)
(* abut, as it was between them.                                           *)
LEMMA Drop ==
  ASSUME NEW l \in Seq(Holes), Sorted(l, {}), NEW i \in 1 .. Len(l),
         NEW m, m = RemoveAt(l, i)
  PROVE  /\ m \in Seq(Holes) /\ Len(m) = Len(l) - 1 /\ Sorted(m, {})
         /\ \A c \in Int : InHole(m, c) <=>
              InHole(l, c) /\ ~(l[i].base <= c /\ c < End(l[i]))
<1>1. \A j \in 1 .. Len(l) : \A k \in 1 .. Len(l) : j < k => End(l[j]) < l[k].base
  BY StrictlySorted
<1>2. /\ m \in Seq(Holes) /\ Len(m) = Len(l) - 1 /\ Len(l) \in Nat
      /\ \A j \in 1 .. Len(l) - 1 : m[j] = IF j < i THEN l[j] ELSE l[j + 1]
  BY RemoveAtElements, SMTT(30)
<1>3. ASSUME NEW j \in 1 .. Len(l) - 1, NEW k \in 1 .. Len(l) - 1, j < k
      PROVE  End(m[j]) < m[k].base
  <2> DEFINE jj == IF j < i THEN j ELSE j + 1
             kk == IF k < i THEN k ELSE k + 1
  <2>1. jj \in 1 .. Len(l) /\ kk \in 1 .. Len(l) /\ jj < kk
    BY <1>2, <1>3
  <2>2. m[j] = l[jj] /\ m[k] = l[kk]
    BY <1>2
  <2> HIDE DEF jj, kk
  <2> QED BY <1>1, <2>1, <2>2
<1>4. Sorted(m, {})
  BY <1>2, <1>3, StrictlySorted
<1>5. ASSUME NEW c \in Int
      PROVE  InHole(m, c) <=> InHole(l, c) /\ ~(l[i].base <= c /\ c < End(l[i]))
  <2>1. ASSUME NEW j \in 1 .. Len(l), j # i, l[j].base <= c, c < End(l[j])
        PROVE  ~(l[i].base <= c /\ c < End(l[i]))
    <3>1. End(l[j]) < l[i].base \/ End(l[i]) < l[j].base
      BY <1>1, <2>1
    <3> QED BY <2>1, <3>1, HoleNumbers
  <2>2. ASSUME InHole(m, c)
        PROVE  InHole(l, c) /\ ~(l[i].base <= c /\ c < End(l[i]))
    <3>1. PICK j \in 1 .. Len(l) - 1 : m[j].base <= c /\ c < End(m[j])
      BY <1>2, <2>2 DEF InHole
    <3> DEFINE jj == IF j < i THEN j ELSE j + 1
    <3>2. jj \in 1 .. Len(l) /\ jj # i /\ m[j] = l[jj]
      BY <1>2
    <3> HIDE DEF jj
    <3> QED BY <2>1, <3>1, <3>2 DEF InHole
  <2>3. ASSUME InHole(l, c), ~(l[i].base <= c /\ c < End(l[i])) PROVE InHole(m, c)
    <3>1. PICK j \in 1 .. Len(l) : l[j].base <= c /\ c < End(l[j])
      BY <2>3 DEF InHole
    <3> DEFINE jj == IF j < i THEN j ELSE j - 1
    <3>2. j # i
      BY <2>3, <3>1
    <3>3. jj \in 1 .. Len(l) - 1 /\ m[jj] = l[j]
      <4>1. CASE j < i
        BY <1>2, <4>1
      <4>2. CASE ~(j < i)
        <5>1. j - 1 \in 1 .. Len(l) - 1 /\ ~(j - 1 < i) /\ (j - 1) + 1 = j
          BY <1>2, <3>2, <4>2
        <5> QED BY <1>2, <4>2, <5>1
      <4> QED BY <4>1, <4>2
    <3> HIDE DEF jj
    <3> QED BY <1>2, <3>1, <3>3 DEF InHole
  <2> QED BY <2>2, <2>3
<1> QED BY <1>2, <1>4, <1>5

(* alloc_mem() takes n clicks at the lowest address with room for them *)
LEMMA AllocMem ==
  ASSUME NEW t \in Tables, Sorted(t.list, {}), NEW n \in Nat \ {0},
         NEW u, u = alloc_mem(t, n), NEW b, b = AllocResult(t, n), FirstFit(t, n) # 0
  PROVE  /\ u \in Tables /\ u.panic = t.panic
         /\ Sorted(u.list, {}) /\ Len(u.list) <= Len(t.list)
         /\ Hole(b, n) \in Holes
         /\ \A c \in Int : InHole(u.list, c) <=> InHole(t.list, c) /\ ~(b <= c /\ c < b + n)
         /\ \A c \in b .. b + n - 1 : InHole(t.list, c)
         /\ \A c \in Int :
              (\A d \in c .. c + n - 1 : InHole(t.list, d)) => b <= c
<1>1. PICK l : l = t.list
  OBVIOUS
<1>2. PICK i : i = FirstFit(t, n)
  OBVIOUS
<1>3. /\ l \in Seq(Holes) /\ Len(l) \in Nat /\ t.slots \in Nat
      /\ Len(l) + t.slots = NR_HOLES
  BY <1>1 DEF Tables
<1>4. /\ i \in 1 .. Len(l) /\ l[i].len >= n /\ b = l[i].base
      /\ \A j \in 1 .. Len(l) : l[j].len >= n => i <= j
  BY <1>1, <1>2, FirstFitSpec DEF AllocResult
<1>5. \A j \in 1 .. Len(l) : \A k \in 1 .. Len(l) : j < k => End(l[j]) < l[k].base
  BY <1>1, <1>3, StrictlySorted
<1>6. Hole(b, n) \in Holes
  <2>1. b \in Nat /\ b + n <= TOTAL
    BY <1>3, <1>4, HoleNumbers, MemoryAssumption
  <2>2. /\ Hole(b, n) \in [base : Nat, len : Nat \ {0}]
        /\ Hole(b, n).base = b /\ Hole(b, n).len = n
    BY <2>1 DEF Hole
  <2> QED BY <2>1, <2>2, HoleType
<1>7. ASSUME NEW c \in b .. b + n - 1 PROVE InHole(t.list, c)
  <2>1. /\ l[i].base \in Nat /\ l[i].len \in Nat
        /\ End(l[i]) = l[i].base + l[i].len
    BY <1>3, <1>4, HoleNumbers
  <2>2. l[i].base <= c /\ c < End(l[i])
    BY <1>4, <2>1
  <2> QED BY <1>1, <1>4, <2>2 DEF InHole
<1>8. ASSUME NEW c \in Int, \A d \in c .. c + n - 1 : InHole(t.list, d)
      PROVE  b <= c
  <2>1. PICK j \in 1 .. Len(l) : l[j].base <= c /\ c + n <= End(l[j])
    BY <1>1, <1>3, <1>8, OneHole
  <2>2. l[j].len >= n /\ l[j].base \in Nat
    BY <1>3, <2>1, HoleNumbers, SMTT(30)
  <2>3. i = j \/ i < j
    BY <1>3, <1>4, <2>2
  <2>4. i < j => b < l[j].base
    <3>1. i < j => End(l[i]) < l[j].base
      BY <1>4, <1>5
    <3>2. b <= End(l[i]) /\ End(l[i]) \in Nat /\ b \in Nat
      BY <1>3, <1>4, HoleNumbers
    <3> QED BY <2>2, <3>1, <3>2
  <2> QED BY <1>3, <1>4, <2>1, <2>2, <2>3, <2>4, HoleNumbers
<1>9. /\ u \in Tables /\ u.panic = t.panic
      /\ Sorted(u.list, {}) /\ Len(u.list) <= Len(t.list)
      /\ \A c \in Int : InHole(u.list, c) <=> InHole(t.list, c) /\ ~(b <= c /\ c < b + n)
  <2>1. l[i].len \in Nat /\ (l[i].len - n # 0 <=> n < l[i].len)
    BY <1>3, <1>4, HoleNumbers
  <2>2. CASE n < l[i].len
    <3>1. PICK m : m = [l EXCEPT ![i] = Hole(l[i].base + n, l[i].len - n)]
      OBVIOUS
    <3>2. u = [t EXCEPT !.list = m]
      <4>1. i # 0 /\ l[i].len - n # 0
        BY <1>3, <1>4, <2>1, <2>2
      <4> QED BY <1>1, <1>2, <3>1, <4>1 DEF alloc_mem, Hole
    <3>3. /\ m \in Seq(Holes) /\ Len(m) = Len(l) /\ Sorted(m, {})
          /\ \A c \in Int : InHole(m, c) <=> InHole(l, c) /\ ~(b <= c /\ c < b + n)
      BY <1>1, <1>3, <1>4, <2>2, <3>1, Bite, SMTT(30)
    <3>4. u \in Tables /\ u.panic = t.panic /\ u.list = m
      BY <1>1, <3>2, <3>3 DEF Tables
    <3> QED BY <1>1, <1>3, <3>3, <3>4
  <2>3. CASE l[i].len = n
    <3>1. PICK m : m = RemoveAt(l, i)
      OBVIOUS
    <3>2. u = [t EXCEPT !.list = m, !.slots = @ + 1]
      BY <1>1, <1>2, <1>4, <2>1, <2>3, <3>1 DEF alloc_mem, del_slot, Hole
    <3>3. /\ m \in Seq(Holes) /\ Len(m) = Len(l) - 1 /\ Sorted(m, {})
          /\ \A c \in Int : InHole(m, c) <=> InHole(l, c) /\ ~(b <= c /\ c < End(l[i]))
      BY <1>1, <1>3, <1>4, <3>1, Drop
    <3>4. u \in Tables /\ u.panic = t.panic /\ u.list = m
      <4>1. t \in [list : Seq(Holes), slots : Nat, panic : Panics]
        BY DEF Tables
      <4>2. /\ u \in [list : Seq(Holes), slots : Nat, panic : Panics]
            /\ u.list = m /\ u.slots = t.slots + 1 /\ u.panic = t.panic
        <5>1. t.slots + 1 \in Nat
          BY <1>3
        <5> QED BY <3>2, <3>3, <4>1, <5>1
      <4>3. Len(u.list) + u.slots = NR_HOLES
        <5>1. Len(u.list) = Len(l) - 1 /\ u.slots = t.slots + 1
          BY <3>3, <4>2
        <5> QED BY <1>3, <5>1
      <4> QED BY <4>2, <4>3 DEF Tables
    <3>5. End(l[i]) = b + n
      BY <1>4, <2>3 DEF End
    <3> QED BY <1>1, <1>3, <3>3, <3>4, <3>5
  <2> QED BY <1>4, <2>1, <2>2, <2>3
<1> QED BY <1>6, <1>7, <1>8, <1>9

(* List l when hole i has taken hole i + 1 *)
Joined(l, i) == RemoveAt([l EXCEPT ![i].len = @ + l[i + 1].len], i + 1)

(* The places S where holes may abut are in R when hole i + 1 is gone *)
MovedUp(S, i, R) == \A s \in S : s \in Int => (s < i => s \in R) /\ (s > i => s - 1 \in R)

(* Hole i takes hole i + 1, which it abuts.  The places where holes may    *)
(* abut still, S, become R, as the holes behind move up.                   *)
LEMMA Join ==
  ASSUME NEW S, NEW l \in Seq(Holes), Sorted(l, S), NEW i \in 1 .. Len(l) - 1,
         End(l[i]) = l[i + 1].base,
         NEW R, MovedUp(S, i, R), NEW m, m = Joined(l, i)
  PROVE  /\ m \in Seq(Holes) /\ Len(m) = Len(l) - 1 /\ Sorted(m, R)
         /\ \A c \in Int : InHole(m, c) <=> InHole(l, c)
<1> DEFINE a == l[i]
           b == l[i + 1]
           both == [a EXCEPT !.len = @ + b.len]
           k == [l EXCEPT ![i] = both]
           lo(j) == IF j <= i THEN j ELSE j + 1
           hi(j) == IF j < i THEN j ELSE j + 1
<1>1. Len(l) \in Nat /\ i \in 1 .. Len(l) /\ i + 1 \in 1 .. Len(l) /\ i \in Nat
  OBVIOUS
<1>2. /\ a \in Holes /\ b \in Holes
      /\ a.base \in Nat /\ a.len \in Nat \ {0} /\ b.base \in Nat /\ b.len \in Nat \ {0}
      /\ End(a) = a.base + a.len /\ End(b) = b.base + b.len
      /\ End(b) <= TOTAL
  <2>1. a \in Holes /\ b \in Holes
    BY <1>1
  <2> HIDE DEF a, b
  <2> QED BY <2>1, HoleType DEF End
<1>3. /\ both \in [base : Nat, len : Nat \ {0}]
      /\ both.base = a.base /\ both.len = a.len + b.len
  <2>1. a \in [base : Nat, len : Nat \ {0}]
    BY <1>2, HoleType
  <2>2. a.len + b.len \in Nat \ {0}
    BY <1>2, SMTT(30)
  <2> HIDE DEF a, b
  <2> QED BY <2>1, <2>2
<1>4. End(both) = both.base + both.len /\ End(a) = b.base
  BY DEF End
<1> HIDE DEF a, b
<1>5. End(both) = End(b)
  BY <1>2, <1>3, <1>4
<1>6. both \in Holes
  <2>1. both = Hole(both.base, both.len)
    BY <1>3 DEF Hole
  <2>2. both.base + both.len <= TOTAL
    BY <1>2, <1>4, <1>5
  <2> HIDE DEF both
  <2> QED BY <1>3, <2>1, <2>2, HoleType
<1>7. m = RemoveAt(k, i + 1)
  BY DEF Joined, a, b, both
<1> HIDE DEF both
<1>8. /\ k \in Seq(Holes) /\ Len(k) = Len(l)
      /\ \A j \in 1 .. Len(l) : k[j] = IF j = i THEN both ELSE l[j]
  BY <1>1, <1>6, ExceptSeq
<1> HIDE DEF k
<1>9. /\ m \in Seq(Holes) /\ Len(m) = Len(l) - 1
      /\ \A j \in 1 .. Len(l) - 1 : m[j] = IF j < i + 1 THEN k[j] ELSE k[j + 1]
  <2>1. i + 1 \in 1 .. Len(k)
    BY <1>1, <1>8
  <2>2. /\ m \in Seq(Holes) /\ Len(m) = Len(k) - 1
        /\ \A j \in 1 .. Len(k) - 1 : m[j] = IF j < i + 1 THEN k[j] ELSE k[j + 1]
    <3>1. PICK e \in 1 .. Len(k) : e = i + 1
      BY <2>1
    <3>2. /\ RemoveAt(k, e) \in Seq(Holes) /\ Len(RemoveAt(k, e)) = Len(k) - 1
          /\ \A j \in 1 .. Len(k) - 1 :
               RemoveAt(k, e)[j] = IF j < e THEN k[j] ELSE k[j + 1]
      BY <1>8, RemoveAtElements
    <3>3. m = RemoveAt(k, e)
      BY <1>7, <3>1
    <3> QED BY <3>1, <3>2, <3>3
  <2> QED BY <1>8, <2>2
<1>10. ASSUME NEW j \in 1 .. Len(l) - 1
       PROVE  /\ lo(j) \in 1 .. Len(l) /\ m[j].base = l[lo(j)].base
              /\ hi(j) \in 1 .. Len(l) /\ End(m[j]) = End(l[hi(j)])
  <2>1. CASE j < i
    <3>2. j < i + 1 /\ j \in 1 .. Len(l) /\ j # i
      BY <1>1, <2>1
    <3>1. m[j] = l[j]
      BY <1>8, <1>9, <3>2
    <3> QED BY <1>1, <2>1, <3>1
  <2>2. CASE j = i
    <3>1. m[j] = both
      BY <1>1, <1>8, <1>9, <2>2, i < i + 1
    <3>2. both.base = l[i].base /\ End(both) = End(l[i + 1])
      BY <1>3, <1>5 DEF a, b
    <3>3. lo(i) = i /\ hi(i) = i + 1
      BY <1>1
    <3> HIDE DEF lo, hi
    <3> QED BY <1>1, <2>2, <3>1, <3>2, <3>3
  <2>3. CASE j > i
    <3>4. ~(j < i + 1) /\ j + 1 \in 1 .. Len(l) /\ j + 1 # i
      BY <1>1, <2>3
    <3>1. m[j] = k[j + 1]
      BY <1>9, <3>4
    <3>2. m[j] = l[j + 1]
      BY <1>8, <3>1, <3>4
    <3>3. lo(j) = j + 1 /\ hi(j) = j + 1
      BY <1>1, <2>3
    <3> HIDE DEF lo, hi
    <3> QED BY <3>2, <3>3, <3>4
  <2> QED BY <1>1, <2>1, <2>2, <2>3
<1>11. ASSUME NEW j \in 1 .. Len(l) - 1, NEW n \in 1 .. Len(l) - 1, j < n
       PROVE  /\ End(m[j]) <= m[n].base
              /\ End(m[j]) = m[n].base => j \in R /\ n = j + 1
  <2>1. hi(j) < lo(n)
    BY <1>1, <1>11
  <2>2. /\ End(l[hi(j)]) <= l[lo(n)].base
        /\ End(l[hi(j)]) = l[lo(n)].base => hi(j) \in S /\ lo(n) = hi(j) + 1
    BY <1>10, <2>1 DEF Sorted
  <2>3. hi(j) \in S => j \in R
    BY <1>1 DEF MovedUp
  <2>4. lo(n) = hi(j) + 1 => n = j + 1
    BY <1>1, <1>11
  <2> HIDE DEF hi, lo
  <2> QED BY <1>10, <2>2, <2>3, <2>4
<1>12. Sorted(m, R)
  BY <1>9, <1>11 DEF Sorted
<1>13. ASSUME NEW c \in Int PROVE InHole(m, c) <=> InHole(l, c)
  <2>1. ASSUME InHole(m, c) PROVE InHole(l, c)
    <3>1. PICK j \in 1 .. Len(l) - 1 : m[j].base <= c /\ c < End(m[j])
      BY <1>9, <2>1 DEF InHole
    <3>2. l[lo(j)].base <= c /\ c < End(l[hi(j)]) /\ lo(j) \in 1 .. Len(l) /\ hi(j) \in 1 .. Len(l)
      BY <1>10, <3>1
    <3>3. CASE j = i
      <4>1. a.base <= c /\ c < End(b)
        BY <1>1, <3>2, <3>3 DEF a, b
      <4>2. c < End(a) \/ b.base <= c
        BY <1>2, <1>4
      <4> QED BY <1>1, <4>1, <4>2 DEF InHole, a, b
    <3>4. CASE j # i
      <4>1. lo(j) = hi(j)
        BY <1>1, <3>4
      <4> HIDE DEF lo, hi
      <4> QED BY <3>2, <4>1 DEF InHole
    <3> QED BY <3>3, <3>4
  <2>2. ASSUME InHole(l, c) PROVE InHole(m, c)
    <3>1. PICK j \in 1 .. Len(l) : l[j].base <= c /\ c < End(l[j])
      BY <2>2 DEF InHole
    <3>2. CASE j < i
      <4>1. j \in 1 .. Len(l) - 1 /\ lo(j) = j /\ hi(j) = j
        BY <1>1, <3>2
      <4> QED BY <1>9, <1>10, <3>1, <4>1 DEF InHole
    <3>3. CASE j > i + 1
      <4>1. j - 1 \in 1 .. Len(l) - 1 /\ lo(j - 1) = j /\ hi(j - 1) = j
        BY <1>1, <3>3
      <4> HIDE DEF lo, hi
      <4> QED BY <1>9, <1>10, <3>1, <4>1 DEF InHole
    <3>4. CASE j = i \/ j = i + 1
      <4>1. a.base <= c /\ c < End(b)
        <5>1. (a.base <= c /\ c < End(a)) \/ (b.base <= c /\ c < End(b))
          BY <3>1, <3>4 DEF a, b
        <5> QED BY SMTT(30), <1>2, <1>4, <5>1
      <4>2. i \in 1 .. Len(l) - 1 /\ m[i].base = a.base /\ End(m[i]) = End(b)
        <5>1. i \in 1 .. Len(l) - 1 /\ lo(i) = i /\ hi(i) = i + 1
          BY <1>1
        <5> HIDE DEF lo, hi
        <5> QED BY <1>10, <5>1 DEF a, b
      <4> QED BY <1>9, <4>1, <4>2 DEF InHole
    <3> QED BY <1>1, <3>2, <3>3, <3>4
  <2> QED BY <2>1, <2>2
<1> QED BY <1>9, <1>12, <1>13

LEMMA AbsorbSpec ==
  ASSUME NEW S, NEW t \in Tables, Sorted(t.list, S), NEW i \in Nat \ {0},
         NEW R, MovedUp(S, i, R)
  PROVE  /\ Absorb(t, i) \in Tables /\ Absorb(t, i).panic = t.panic
         /\ Len(Absorb(t, i).list) <= Len(t.list)
         /\ \A c \in Int : InHole(Absorb(t, i).list, c) <=> InHole(t.list, c)
         /\ Abuts(t, i) => Sorted(Absorb(t, i).list, R)
         /\ ~Abuts(t, i) => Sorted(Absorb(t, i).list, S \ {i})
<1> DEFINE l == t.list
<1>1. /\ l \in Seq(Holes) /\ Len(l) \in Nat /\ t.slots \in Nat
      /\ Len(l) + t.slots = NR_HOLES
  BY DEF Tables
<1>2. CASE ~Abuts(t, i)
  <2>1. Absorb(t, i) = t
    BY <1>2 DEF Absorb
  <2>2. Sorted(t.list, S \ {i})
    BY <1>1, <1>2 DEF Sorted, Abuts
  <2> QED BY <1>1, <1>2, <2>1, <2>2
<1>3. CASE Abuts(t, i)
  <2>1. i \in 1 .. Len(l) - 1 /\ End(l[i]) = l[i + 1].base
    BY <1>1, <1>3 DEF Abuts
  <2>2. PICK m : m = Joined(l, i)
    OBVIOUS
  <2>3. Absorb(t, i) = [t EXCEPT !.list = m, !.slots = @ + 1]
    BY <1>3, <2>2 DEF Absorb, Joined, del_slot, Tables
  <2>4. Sorted(l, S)
    OBVIOUS
  <2> HIDE DEF l
  <2>5. /\ m \in Seq(Holes) /\ Len(m) = Len(l) - 1 /\ Sorted(m, R)
        /\ \A c \in Int : InHole(m, c) <=> InHole(l, c)
    BY <1>1, <2>1, <2>2, <2>4, Join
  <2>6. /\ Absorb(t, i) \in [list : Seq(Holes), slots : Nat, panic : Panics]
        /\ Absorb(t, i).list = m /\ Absorb(t, i).slots = t.slots + 1
        /\ Absorb(t, i).panic = t.panic
    <3>1. t.slots + 1 \in Nat /\ t \in [list : Seq(Holes), slots : Nat, panic : Panics]
      BY <1>1 DEF Tables
    <3> QED BY <2>3, <2>5, <3>1
  <2>7. Len(Absorb(t, i).list) + Absorb(t, i).slots = NR_HOLES
    <3>1. Len(Absorb(t, i).list) = Len(l) - 1
      BY <2>5, <2>6
    <3> QED BY <1>1, <2>6, <3>1
  <2>8. Absorb(t, i) \in Tables
    BY <2>6, <2>7 DEF Tables
  <2> QED BY <1>1, <1>3, <2>5, <2>6, <2>8 DEF l
<1> QED BY <1>2, <1>3

(* merge(i) merges whatever abuts, if only hole i and the next one may     *)
LEMMA MergeSpec ==
  ASSUME NEW t \in Tables, NEW i \in Nat \ {0}, Sorted(t.list, {i, i + 1})
  PROVE  /\ merge(t, i) \in Tables /\ merge(t, i).panic = t.panic
         /\ Len(merge(t, i).list) <= Len(t.list) /\ Sorted(merge(t, i).list, {})
         /\ \A c \in Int : InHole(merge(t, i).list, c) <=> InHole(t.list, c)
<1>1. PICK u : u = Absorb(t, i)
  OBVIOUS
<1>2. MovedUp({i, i + 1}, i, {i})
  BY DEF MovedUp
<1>3. /\ u \in Tables /\ u.panic = t.panic /\ Len(u.list) <= Len(t.list)
      /\ \A c \in Int : InHole(u.list, c) <=> InHole(t.list, c)
      /\ Abuts(t, i) => Sorted(u.list, {i})
      /\ ~Abuts(t, i) => Sorted(u.list, {i, i + 1} \ {i})
  BY <1>1, <1>2, AbsorbSpec
<1>4. ASSUME NEW j \in Nat \ {0}, Sorted(u.list, {j})
      PROVE  /\ Absorb(u, j) \in Tables /\ Absorb(u, j).panic = u.panic
             /\ Len(Absorb(u, j).list) <= Len(u.list) /\ Sorted(Absorb(u, j).list, {})
             /\ \A c \in Int : InHole(Absorb(u, j).list, c) <=> InHole(u.list, c)
  <2>1. MovedUp({j}, j, {}) /\ {j} \ {j} = {}
    BY DEF MovedUp
  <2>2. PICK v : v = Absorb(u, j)
    OBVIOUS
  <2>3. Sorted(v.list, {})
    <3>1. /\ Abuts(u, j) => Sorted(v.list, {})
          /\ ~Abuts(u, j) => Sorted(v.list, {j} \ {j})
      BY <1>3, <1>4, <2>1, <2>2, AbsorbSpec
    <3> QED BY <2>1, <3>1
  <2> QED BY <1>3, <1>4, <2>1, <2>2, <2>3, AbsorbSpec
<1>5. Len(t.list) \in Nat /\ \A j : Absorb(u, j) \in Tables => Len(Absorb(u, j).list) \in Nat
  BY DEF Tables
<1>6. Len(u.list) \in Nat
  BY <1>3 DEF Tables
<1>7. CASE Abuts(t, i)
  <2>1. merge(t, i) = Absorb(u, i)
    BY <1>1, <1>7 DEF merge
  <2> QED BY <1>3, <1>4, <1>5, <1>6, <1>7, <2>1
<1>8. CASE ~Abuts(t, i)
  <2>1. merge(t, i) = Absorb(u, i + 1)
    BY <1>1, <1>8 DEF merge
  <2>2. {i, i + 1} \ {i} = {i + 1} /\ i + 1 \in Nat \ {0}
    OBVIOUS
  <2>3. Sorted(u.list, {i + 1})
    BY <1>3, <1>8, <2>2
  <2> QED BY <1>3, <1>4, <1>5, <1>6, <2>1, <2>2, <2>3
<1> QED BY <1>7, <1>8

LEMMA AboveSpec ==
  ASSUME NEW t \in Tables, Sorted(t.list, {}), NEW base \in Nat
  PROVE  /\ Above(t, base) \in 1 .. Len(t.list) + 1
         /\ \A j \in 1 .. Len(t.list) :
              IF j < Above(t, base) THEN t.list[j].base < base ELSE base <= t.list[j].base
<1> DEFINE l == t.list
           I == {i \in 1 .. Len(l) : base <= l[i].base}
<1>1. l \in Seq(Holes) /\ Len(l) \in Nat
  BY DEF Tables
<1>0. I \in SUBSET Nat /\ \A x \in I : x # 0
  OBVIOUS
<1>2. Above(t, base) = IF I # {} THEN Min(I) ELSE Len(l) + 1
  <2>1. SelectInSeq(l, LAMBDA o : base <= o.base) = IF I # {} THEN Min(I) ELSE 0
    BY DEF SelectInSeq
  <2>2. I # {} => Min(I) # 0
    BY <1>0, MinExists
  <2> QED BY <2>1, <2>2 DEF Above
<1>3. \A j \in 1 .. Len(l) : l[j].base \in Nat /\ End(l[j]) \in Nat /\ l[j].base <= End(l[j])
  BY <1>1, HoleNumbers
<1>4. Sorted(l, {})
  OBVIOUS
<1> HIDE DEF l
<1>5. CASE I = {}
  BY <1>1, <1>2, <1>3, <1>5 DEF l
<1>6. CASE I # {}
  <2>1. Min(I) \in I /\ \A x \in I : Min(I) <= x
    BY <1>0, <1>6, MinExists
  <2>2. PICK i \in 1 .. Len(l) : /\ i = Above(t, base) /\ base <= l[i].base
                                 /\ \A j \in 1 .. Len(l) : base <= l[j].base => i <= j
    BY <1>2, <1>6, <2>1
  <2>3. ASSUME NEW j \in 1 .. Len(l), j < i PROVE l[j].base < base
    BY <1>1, <1>3, <2>2, <2>3
  <2>4. ASSUME NEW j \in 1 .. Len(l), ~(j < i) PROVE base <= l[j].base
    <3>1. CASE j = i
      BY <2>2, <3>1
    <3>2. CASE i < j
      <4>1. End(l[i]) < l[j].base
        BY <1>1, <1>4, <3>2, StrictlySorted
      <4> QED BY <1>3, <2>2, <4>1
    <3> QED BY <1>1, <2>4, <3>1, <3>2
  <2> QED BY <1>1, <2>2, <2>3, <2>4 DEF l
<1> QED BY <1>5, <1>6

(* A block that was not free is put where it belongs *)
LEMMA InsertSpec ==
  ASSUME NEW l \in Seq(Holes), Sorted(l, {}), NEW o \in Holes,
         NEW i \in 1 .. Len(l) + 1,
         \A j \in 1 .. Len(l) : IF j < i THEN l[j].base < o.base ELSE o.base <= l[j].base,
         \A c \in Int : o.base <= c /\ c < End(o) => ~InHole(l, c),
         NEW m, m = InsertAt(l, i, o)
  PROVE  /\ m \in Seq(Holes) /\ Len(m) = Len(l) + 1 /\ Sorted(m, {i - 1, i})
         /\ \A c \in Int : InHole(m, c) <=> InHole(l, c) \/ (o.base <= c /\ c < End(o))
<1>1. /\ Len(l) \in Nat
      /\ \A j \in 1 .. Len(l) : /\ l[j].base \in Nat /\ End(l[j]) \in Nat
                                /\ l[j].base < End(l[j])
  BY HoleNumbers
<1>2. o.base \in Nat /\ End(o) \in Nat /\ o.base < End(o)
  BY HoleType DEF End
<1>3. \A j \in 1 .. Len(l) : \A k \in 1 .. Len(l) : j < k => End(l[j]) < l[k].base
  BY StrictlySorted
<1>4. ASSUME NEW j \in 1 .. Len(l)
      PROVE  IF j < i THEN End(l[j]) <= o.base ELSE End(o) <= l[j].base
  <2>1. ASSUME j < i, o.base < End(l[j]) PROVE FALSE
    <3>1. InHole(l, o.base)
      BY <1>1, <1>2, <2>1 DEF InHole
    <3> QED BY <1>2, <3>1
  <2>2. ASSUME ~(j < i), l[j].base < End(o) PROVE FALSE
    <3>1. InHole(l, l[j].base)
      BY <1>1, <2>2 DEF InHole
    <3> QED BY <1>1, <2>2, <3>1
  <2>3. End(l[j]) \in Nat /\ l[j].base \in Nat
    BY <1>1
  <2>4. j < i => End(l[j]) <= o.base
    BY <1>2, <2>1, <2>3
  <2>5. ~(j < i) => End(o) <= l[j].base
    BY <1>2, <2>2, <2>3
  <2> QED BY <2>4, <2>5
<1>5. /\ m \in Seq(Holes) /\ Len(m) = Len(l) + 1
      /\ \A j \in 1 .. Len(l) + 1 :
           m[j] = IF j < i THEN l[j] ELSE IF j = i THEN o ELSE l[j - 1]
  BY InsertAtElements, SMTT(30)
<1>6. ASSUME NEW j \in 1 .. Len(l) + 1, NEW k \in 1 .. Len(l) + 1, j < k
      PROVE  /\ End(m[j]) <= m[k].base
             /\ End(m[j]) = m[k].base => j \in {i - 1, i} /\ k = j + 1
  <2>1. CASE j = i
    <3>1. m[j] = o /\ m[k] = l[k - 1] /\ k - 1 \in 1 .. Len(l) /\ ~(k - 1 < i)
      BY <1>1, <1>5, <1>6, <2>1
    <3>2. End(o) <= l[k - 1].base
      BY <1>4, <3>1
    <3>3. ASSUME End(o) = l[k - 1].base PROVE k = j + 1
      <4>1. SUFFICES ASSUME i < k - 1 PROVE FALSE
        BY <1>1, <1>6, <2>1
      <4>2. i \in 1 .. Len(l) /\ End(l[i]) < l[k - 1].base /\ End(o) <= l[i].base
        BY <1>1, <1>3, <1>4, <3>1, <4>1
      <4> QED BY <1>1, <1>2, <3>1, <3>3, <4>2
    <3> QED BY <2>1, <3>1, <3>2, <3>3
  <2>2. CASE k = i
    <3>1. m[k] = o /\ m[j] = l[j] /\ j \in 1 .. Len(l) /\ j < i
      BY <1>1, <1>5, <1>6, <2>2
    <3>2. End(l[j]) <= o.base
      BY <1>4, <3>1
    <3>3. ASSUME End(l[j]) = o.base PROVE j = i - 1
      <4>1. SUFFICES ASSUME j < i - 1 PROVE FALSE
        BY <1>1, <3>1
      <4>2. i - 1 \in 1 .. Len(l) /\ i - 1 < i
        BY <1>1, <4>1
      <4>3. End(l[j]) < l[i - 1].base /\ End(l[i - 1]) <= o.base
        BY <1>3, <1>4, <3>1, <4>1, <4>2
      <4> QED BY <1>1, <1>2, <3>1, <3>3, <4>2, <4>3
    <3> QED BY <1>1, <2>2, <3>1, <3>2, <3>3
  <2>3. CASE j # i /\ k # i
    <3> DEFINE jj == IF j < i THEN j ELSE j - 1
               kk == IF k < i THEN k ELSE k - 1
    <3>1. jj \in 1 .. Len(l) /\ kk \in 1 .. Len(l)
      BY <1>1, <1>6, <2>3
    <3>2. m[j] = l[jj] /\ m[k] = l[kk]
      BY <1>5, <2>3
    <3>3. jj < kk
      BY <1>1, <1>6, <2>3
    <3> HIDE DEF jj, kk
    <3>4. End(l[jj]) < l[kk].base /\ End(l[jj]) \in Nat /\ l[kk].base \in Nat
      BY <1>1, <1>3, <3>1, <3>3
    <3> QED BY <3>2, <3>4
  <2> QED BY <2>1, <2>2, <2>3
<1>7. Sorted(m, {i - 1, i})
  BY <1>5, <1>6 DEF Sorted
<1>8. ASSUME NEW c \in Int
      PROVE  InHole(m, c) <=> InHole(l, c) \/ (o.base <= c /\ c < End(o))
  <2>1. ASSUME InHole(m, c) PROVE InHole(l, c) \/ (o.base <= c /\ c < End(o))
    <3>1. PICK j \in 1 .. Len(l) + 1 : m[j].base <= c /\ c < End(m[j])
      BY <1>5, <2>1 DEF InHole
    <3>2. CASE j = i
      BY <1>1, <1>5, <3>1, <3>2
    <3>3. CASE j # i
      <4> DEFINE jj == IF j < i THEN j ELSE j - 1
      <4>1. jj \in 1 .. Len(l)
        BY <1>1, <3>3
      <4>2. m[j] = l[jj]
        BY <1>5, <3>3
      <4> HIDE DEF jj
      <4> QED BY <3>1, <4>1, <4>2 DEF InHole
    <3> QED BY <3>2, <3>3
  <2>2. ASSUME InHole(l, c) PROVE InHole(m, c)
    <3>1. PICK j \in 1 .. Len(l) : l[j].base <= c /\ c < End(l[j])
      BY <2>2 DEF InHole
    <3> DEFINE jj == IF j < i THEN j ELSE j + 1
    <3>2. jj \in 1 .. Len(l) + 1
      BY <1>1
    <3>3. m[jj] = l[j]
      <4>1. CASE j < i
        BY <1>1, <1>5, <4>1
      <4>2. CASE ~(j < i)
        <5>1. ~(j + 1 < i) /\ j + 1 # i /\ (j + 1) - 1 = j /\ j + 1 \in 1 .. Len(l) + 1
          BY <1>1, <4>2
        <5> QED BY <1>5, <4>2, <5>1
      <4> QED BY <4>1, <4>2
    <3> HIDE DEF jj
    <3> QED BY <1>5, <3>1, <3>2, <3>3 DEF InHole
  <2>3. ASSUME o.base <= c, c < End(o) PROVE InHole(m, c)
    <3>1. i \in 1 .. Len(l) + 1 /\ m[i] = o
      BY <1>1, <1>5
    <3> QED BY <1>5, <2>3, <3>1 DEF InHole
  <2> QED BY <2>1, <2>2, <2>3
<1> QED BY <1>5, <1>7, <1>8

(* free_mem() makes a block free that was not *)
LEMMA FreeMem ==
  ASSUME NEW t \in Tables, Sorted(t.list, {}), t.slots > 0, NEW o \in Holes,
         \A c \in Int : o.base <= c /\ c < End(o) => ~InHole(t.list, c),
         NEW u, u = free_mem(t, o)
  PROVE  /\ u \in Tables /\ u.panic = t.panic
         /\ Sorted(u.list, {}) /\ Len(u.list) <= Len(t.list) + 1
         /\ \A c \in Int : InHole(u.list, c) <=>
              InHole(t.list, c) \/ (o.base <= c /\ c < End(o))
<1>1. PICK i : i = Above(t, o.base)
  OBVIOUS
<1>2. PICK l : l = t.list
  OBVIOUS
<1>3. PICK m : m = InsertAt(l, i, o)
  OBVIOUS
<1>4. PICK v : v = Insert(t, i, o)
  OBVIOUS
<1>5. l \in Seq(Holes) /\ Len(l) \in Nat /\ t.slots \in Nat /\ Len(l) + t.slots = NR_HOLES
  BY <1>2 DEF Tables
<1>6. o.base \in Nat
  BY HoleType
<1>7. /\ i \in 1 .. Len(l) + 1
      /\ \A j \in 1 .. Len(l) : IF j < i THEN l[j].base < o.base ELSE o.base <= l[j].base
  BY <1>1, <1>2, <1>6, AboveSpec
<1>8. /\ m \in Seq(Holes) /\ Len(m) = Len(l) + 1 /\ Sorted(m, {i - 1, i})
      /\ \A c \in Int : InHole(m, c) <=> InHole(l, c) \/ (o.base <= c /\ c < End(o))
  BY <1>2, <1>3, <1>5, <1>7, InsertSpec
<1>9. v = [t EXCEPT !.list = m, !.slots = @ - 1]
  BY <1>2, <1>3, <1>4 DEF Insert, Tables
<1>10. /\ v \in [list : Seq(Holes), slots : Nat, panic : Panics]
       /\ v.list = m /\ v.slots = t.slots - 1 /\ v.panic = t.panic
  <2>1. t.slots - 1 \in Nat /\ t \in [list : Seq(Holes), slots : Nat, panic : Panics]
    BY <1>5 DEF Tables
  <2> QED BY <1>8, <1>9, <2>1
<1>11. v \in Tables
  <2>1. Len(v.list) + v.slots = NR_HOLES
    <3>1. Len(v.list) = Len(l) + 1 /\ v.slots = t.slots - 1
      BY <1>8, <1>10
    <3> QED BY <1>5, <3>1
  <2> QED BY <1>10, <2>1 DEF Tables
<1>12. PICK k : k = IF i = 1 THEN 1 ELSE i - 1
  OBVIOUS
<1>13. k \in Nat \ {0} /\ Sorted(v.list, {k, k + 1})
  <2>1. CASE i = 1
    <3>1. k = 1 /\ Sorted(m, {0, 1})
      BY <1>8, <1>12, <2>1
    <3>2. Sorted(m, {1, 2})
      BY <3>1 DEF Sorted
    <3> QED BY <1>10, <3>1, <3>2
  <2>2. CASE i # 1
    <3>1. k = i - 1 /\ i - 1 \in Nat \ {0} /\ (i - 1) + 1 = i
      BY <1>5, <1>7, <1>12, <2>2
    <3> QED BY <1>8, <1>10, <3>1
  <2> QED BY <2>1, <2>2
<1>14. u = merge(v, k)
  <2>1. t.slots # 0
    BY <1>5
  <2> QED BY <1>1, <1>4, <1>12, <2>1, Zenon DEF free_mem
<1>15. /\ u \in Tables /\ u.panic = v.panic /\ Len(u.list) <= Len(v.list)
       /\ Sorted(u.list, {}) /\ \A c \in Int : InHole(u.list, c) <=> InHole(v.list, c)
  BY <1>11, <1>13, <1>14, MergeSpec
<1> QED BY <1>2, <1>8, <1>10, <1>15

(* alloc_mem() fails only if there is no room *)
LEMMA AllocFails ==
  ASSUME NEW t \in Tables, Sorted(t.list, {}), NEW n \in Nat \ {0},
         NEW c \in Int, \A d \in c .. c + n - 1 : InHole(t.list, d)
  PROVE  FirstFit(t, n) # 0
<1>1. t.list \in Seq(Holes)
  BY DEF Tables
<1>2. PICK i \in 1 .. Len(t.list) : t.list[i].base <= c /\ c + n <= End(t.list[i])
  BY <1>1, OneHole
<1>3. t.list[i].len >= n
  BY <1>1, <1>2, HoleNumbers
<1>4. /\ FirstFit(t, n) \in 1 .. Len(t.list) /\ Len(t.list) \in Nat
      /\ ~(t.list[i].len < n)
  BY <1>1, <1>3, FirstFitSpec, HoleNumbers
<1> QED BY <1>4

(* max_hole() tells whether alloc_mem() will succeed *)
LEMMA MaxHole ==
  ASSUME NEW t \in Tables, NEW n \in Nat \ {0}
  PROVE  n > max_hole(t) <=> FirstFit(t, n) = 0
<1> DEFINE L == {t.list[i].len : i \in DOMAIN t.list}
           S == {0} \cup L
           U == {y \in 0 .. TOTAL : \A x \in S : x <= y}
<1>1. /\ t.list \in Seq(Holes) /\ Len(t.list) \in Nat /\ TOTAL \in Nat
      /\ DOMAIN t.list = 1 .. Len(t.list)
  BY MemoryAssumption DEF Tables
<1>12. L = {t.list[i].len : i \in DOMAIN t.list} /\ S = {0} \cup L
  OBVIOUS
<1>2. S \subseteq 0 .. TOTAL
  <2>1. ASSUME NEW i \in DOMAIN t.list PROVE t.list[i].len \in 0 .. TOTAL
    <3>1. /\ t.list[i].base \in Nat /\ t.list[i].len \in Nat
          /\ t.list[i].base + t.list[i].len <= TOTAL
      BY <1>1, HoleNumbers
    <3> QED BY <1>1, <3>1
  <2> HIDE DEF S, L
  <2>2. L \subseteq 0 .. TOTAL
    BY <1>12, <2>1
  <2> QED BY <1>1, <1>12, <2>2
<1>3. max_hole(t) = Max(S)
  BY DEF max_hole
<1>10. 0 \in S /\ \A i \in 1 .. Len(t.list) : t.list[i].len \in S
  BY <1>1
<1>11. \A x \in S : x = 0 \/ \E i \in 1 .. Len(t.list) : x = t.list[i].len
  BY <1>1
<1> HIDE DEF L, S
<1>4. U # {} /\ U \in SUBSET Nat
  <2>1. TOTAL \in U
    BY <1>1, <1>2
  <2>2. U \subseteq 0 .. TOTAL /\ 0 .. TOTAL \subseteq Nat
    BY <1>1
  <2> HIDE DEF U
  <2> QED BY <2>1, <2>2
<1>5. Min(U) \in U /\ \A y \in U : Min(U) <= y
  BY <1>4, MinExists
<1>6. Min(U) \in S
  <2>1. PICK m : m = Min(U)
    OBVIOUS
  <2>2. m \in 0 .. TOTAL /\ \A x \in S : x <= m
    BY <1>5, <2>1
  <2>3. SUFFICES ASSUME m \notin S PROVE FALSE
    BY <2>1
  <2>4. \A x \in S : x <= m - 1 /\ x \in Nat
    BY <1>1, <1>2, <2>2, <2>3
  <2>5. m - 1 \in 0 .. TOTAL
    BY <1>1, <1>10, <2>2, <2>4
  <2>6. m - 1 \in U
    BY <2>4, <2>5
  <2> QED BY <1>1, <1>5, <2>1, <2>2, <2>6
<1>7. Max(S) \in S /\ \A x \in S : x <= Max(S)
  <2>1. \A x \in S : x <= Min(U)
    BY <1>5
  <2>2. \A x \in S : Min(U) >= x
    BY <1>1, <1>2, <1>6, <2>1
  <2> HIDE DEF U
  <2>3. Max(S) \in S /\ \A x \in S : Max(S) >= x
    BY <1>6, <2>2 DEF Max
  <2> QED BY <1>1, <1>2, <2>3
<1> HIDE DEF U
<1>8. CASE FirstFit(t, n) = 0
  <2>1. \A i \in 1 .. Len(t.list) : t.list[i].len < n
    BY <1>1, <1>8, FirstFitSpec
  <2>2. n > Max(S)
    BY <1>7, <1>11, <2>1
  <2> QED BY <1>3, <1>8, <2>2
<1>9. CASE FirstFit(t, n) # 0
  <2>1. /\ FirstFit(t, n) \in 1 .. Len(t.list)
        /\ t.list[FirstFit(t, n)].len >= n
    BY <1>1, <1>9, FirstFitSpec
  <2>2. Max(S) >= t.list[FirstFit(t, n)].len /\ Max(S) \in Nat
    <3>1. PICK x \in S : x = t.list[FirstFit(t, n)].len
      BY <1>10, <2>1
    <3>2. PICK y : y = Max(S)
      OBVIOUS
    <3>3. y \in 0 .. TOTAL /\ x \in 0 .. TOTAL /\ x <= y
      BY <1>2, <1>7, <3>1, <3>2
    <3>4. y >= x /\ y \in Nat
      BY <1>1, <3>3
    <3> QED BY <3>1, <3>2, <3>4
  <2>3. t.list[FirstFit(t, n)].len \in Nat
    BY <1>1, <2>1, HoleNumbers
  <2> QED BY <1>3, <1>9, <2>1, <2>2, <2>3
<1> QED BY <1>8, <1>9

-----------------------------------------------------------------------------
(* Holes and images together *)

SYS == MINIX + RAM
In(o, c) == o.base <= c /\ c < End(o)

(* Every click from SYS on is in the list of holes l or in one image of im *)
Layout(l, im) ==
  \A c \in Int :
    /\ InHole(l, c) => SYS <= c
    /\ \A o \in im : In(o, c) => /\ SYS <= c /\ ~InHole(l, c)
                                 /\ \A p \in im : In(p, c) => p = o
    /\ SYS <= c /\ c < TOTAL => InHole(l, c) \/ \E o \in im : In(o, c)

(* The inductive invariant.  The conjuncts but the last two are TypeOK,    *)
(* SlotsKept, NoPanic, Coalesced and Partition; the number of images keeps *)
(* the table from being full.                                              *)
IInv == /\ h \in Tables /\ h.panic = "none"
        /\ Sorted(h.list, {})
        /\ images \subseteq Holes /\ result \in {"OK", "EAGAIN"}
        /\ Layout(h.list, images)
        /\ IsFiniteSet(images)
        /\ Cardinality(images) <= NR_PROCS - 3

LEMMA LayoutTake ==
  ASSUME NEW l, NEW im, Layout(l, im), NEW o \in Holes, NEW m,
         \A c \in Int : InHole(m, c) <=> InHole(l, c) /\ ~In(o, c),
         \A c \in Int : In(o, c) => InHole(l, c)
  PROVE  Layout(m, im \cup {o}) /\ o \notin im
<1>1. o.base \in Int /\ In(o, o.base)
  BY HoleType DEF In, End
<1>2. o \notin im
  BY <1>1 DEF Layout
<1>3. ASSUME NEW c \in Int
      PROVE  /\ InHole(m, c) => SYS <= c
             /\ \A p \in im \cup {o} :
                  In(p, c) => /\ SYS <= c /\ ~InHole(m, c)
                              /\ \A q \in im \cup {o} : In(q, c) => q = p
             /\ SYS <= c /\ c < TOTAL => InHole(m, c) \/ \E p \in im \cup {o} : In(p, c)
  <2>1. /\ InHole(l, c) => SYS <= c
        /\ \A p \in im : In(p, c) => /\ SYS <= c /\ ~InHole(l, c)
                                     /\ \A q \in im : In(q, c) => q = p
        /\ SYS <= c /\ c < TOTAL => InHole(l, c) \/ \E p \in im : In(p, c)
    BY DEF Layout
  <2>2. InHole(m, c) <=> InHole(l, c) /\ ~In(o, c)
    OBVIOUS
  <2>3. In(o, c) => InHole(l, c)
    OBVIOUS
  <2> QED BY <2>1, <2>2, <2>3, Zenon
<1> QED BY <1>2, <1>3 DEF Layout

LEMMA LayoutGive ==
  ASSUME NEW l, NEW im, Layout(l, im), NEW o \in im, NEW m,
         \A c \in Int : InHole(m, c) <=> InHole(l, c) \/ In(o, c)
  PROVE  Layout(m, im \ {o})
<1>1. ASSUME NEW c \in Int
      PROVE  /\ InHole(m, c) => SYS <= c
             /\ \A p \in im \ {o} :
                  In(p, c) => /\ SYS <= c /\ ~InHole(m, c)
                              /\ \A q \in im \ {o} : In(q, c) => q = p
             /\ SYS <= c /\ c < TOTAL => InHole(m, c) \/ \E p \in im \ {o} : In(p, c)
  <2>1. /\ InHole(l, c) => SYS <= c
        /\ \A p \in im : In(p, c) => /\ SYS <= c /\ ~InHole(l, c)
                                     /\ \A q \in im : In(q, c) => q = p
        /\ SYS <= c /\ c < TOTAL => InHole(l, c) \/ \E p \in im : In(p, c)
    BY DEF Layout
  <2>2. InHole(m, c) <=> InHole(l, c) \/ In(o, c)
    OBVIOUS
  <2> QED BY <2>1, <2>2, Zenon
<1> QED BY <1>1 DEF Layout

(* Below each hole is an image or the system, as holes do not abut *)
LEMMA HolesBound ==
  ASSUME NEW l \in Seq(Holes), Sorted(l, {}), NEW im, im \subseteq Holes,
         IsFiniteSet(im), Layout(l, im)
  PROVE  Len(l) <= Cardinality(im) + 1
<1> DEFINE sys == Hole(0, SYS)
           B == im \cup {sys}
           f == [i \in 1 .. Len(l) |-> CHOOSE b \in B : End(b) = l[i].base]
<1>1. Len(l) \in Nat /\ SYS \in Nat /\ SYS < TOTAL /\ TOTAL \in Nat
  BY MemoryAssumption DEF SYS
<1>2. \A i \in 1 .. Len(l) : \A j \in 1 .. Len(l) : i < j => End(l[i]) < l[j].base
  BY StrictlySorted
<1>3. \A i \in 1 .. Len(l) : /\ l[i].base \in Nat /\ End(l[i]) \in Nat
                             /\ l[i].base < End(l[i]) /\ End(l[i]) <= TOTAL
  BY HoleNumbers
<1>4. ASSUME NEW i \in 1 .. Len(l) PROVE \E b \in B : End(b) = l[i].base
  <2>1. InHole(l, l[i].base)
    BY <1>3 DEF InHole
  <2>2. SYS <= l[i].base
    BY <1>3, <2>1 DEF Layout
  <2>3. CASE SYS = l[i].base
    <3>1. End(sys) = SYS
      BY <1>1 DEF End, Hole
    <3> QED BY <2>3, <3>1
  <2>4. CASE SYS < l[i].base
    <3>1. PICK c \in Int : c = l[i].base - 1
      BY <1>3
    <3>2. SYS <= c /\ c < TOTAL
      BY <1>1, <1>3, <2>4, <3>1
    <3>3. ~InHole(l, c)
      <4>1. SUFFICES ASSUME NEW j \in 1 .. Len(l), l[j].base <= c, c < End(l[j])
                     PROVE  FALSE
        BY DEF InHole
      <4>2. j < i \/ j = i \/ i < j
        BY <1>1
      <4> QED BY <1>2, <1>3, <3>1, <4>1, <4>2
    <3>4. PICK b \in im : In(b, c)
      BY <3>2, <3>3 DEF Layout
    <3>5. ~In(b, l[i].base)
      BY <1>3, <2>1 DEF Layout
    <3>6. b.base \in Nat /\ End(b) \in Nat
      BY HoleType DEF End
    <3>7. End(b) = l[i].base
      BY <1>3, <3>1, <3>4, <3>5, <3>6 DEF In
    <3> QED BY <3>7
  <2> QED BY <1>1, <1>3, <2>2, <2>3, <2>4
<1>5. ASSUME NEW i \in 1 .. Len(l) PROVE f[i] \in B /\ End(f[i]) = l[i].base
  BY <1>4
<1>6. ASSUME NEW i \in 1 .. Len(l), NEW j \in 1 .. Len(l), l[i].base = l[j].base
      PROVE  i = j
  <2>1. i < j \/ i = j \/ j < i
    BY <1>1
  <2> QED BY <1>2, <1>3, <1>6, <2>1
<1>7. f \in Injection(1 .. Len(l), B)
  BY <1>5, <1>6 DEF Injection, IsInjective
<1>8. IsFiniteSet(B) /\ Cardinality(B) <= Cardinality(im) + 1
  <2>1. Cardinality(im) \in Nat
    BY FS_CardinalityType
  <2>2. PICK x : x = sys
    OBVIOUS
  <2>3. /\ IsFiniteSet(im \cup {x})
        /\ Cardinality(im \cup {x}) = IF x \in im THEN Cardinality(im)
                                      ELSE Cardinality(im) + 1
    BY FS_AddElement
  <2>4. B = im \cup {x}
    BY <2>2
  <2> HIDE DEF B, sys
  <2>5. Cardinality(B) = Cardinality(im) \/ Cardinality(B) = Cardinality(im) + 1
    BY <2>3, <2>4
  <2> QED BY <2>1, <2>3, <2>4, <2>5
<1> HIDE DEF f, B
<1>9. Cardinality(1 .. Len(l)) <= Cardinality(B)
  BY <1>7, <1>8, FS_Injection
<1>10. Cardinality(1 .. Len(l)) = Len(l)
  <2>1. PICK k \in Nat : k = Len(l)
    BY <1>1
  <2>2. Cardinality(1 .. k) = IF 1 > k THEN 0 ELSE k - 1 + 1
    BY FS_Interval
  <2> QED BY <2>1, <2>2
<1>11. Cardinality(B) \in Nat /\ Cardinality(im) \in Nat
  BY <1>8, FS_CardinalityType
<1> QED BY <1>1, <1>8, <1>9, <1>10, <1>11

LEMMA ImageIn ==
  ASSUME NEW b \in Nat, NEW n \in Nat, NEW c \in Int
  PROVE  In(Hole(b, n), c) <=> b <= c /\ c < b + n
BY DEF In, End, Hole

(* free_mem() always finds an unused entry of the table *)
LEMMA EntryLeft == ASSUME IInv PROVE h.slots > 0 /\ Len(h.list) < NR_HOLES
<1>1. /\ h.list \in Seq(Holes) /\ Len(h.list) \in Nat /\ h.slots \in Nat
      /\ Len(h.list) + h.slots = NR_HOLES
  BY DEF IInv, Tables
<1>2. Len(h.list) <= Cardinality(images) + 1
  BY <1>1, HolesBound DEF IInv
<1>3. Cardinality(images) \in Nat /\ Cardinality(images) <= NR_PROCS - 3
  BY FS_CardinalityType DEF IInv
<1> QED BY <1>1, <1>2, <1>3, TableAssumption

(* NO_MEM is the address 0, but that is the system's *)
LEMMA NoMem == ASSUME IInv, NEW n \in Nat \ {0}
               PROVE  AllocResult(h, n) = NO_MEM <=> FirstFit(h, n) = 0
<1>1. SUFFICES ASSUME FirstFit(h, n) # 0
               PROVE  h.list[FirstFit(h, n)].base # 0
  BY DEF AllocResult, NO_MEM
<1>2. h \in Tables /\ h.list \in Seq(Holes)
  BY DEF IInv, Tables
<1>3. PICK i \in 1 .. Len(h.list) : i = FirstFit(h, n)
  BY <1>1, <1>2, FirstFitSpec
<1>4. /\ h.list[i].base \in Nat /\ End(h.list[i]) = h.list[i].base + h.list[i].len
      /\ h.list[i].len \in Nat \ {0}
  BY <1>2, HoleNumbers
<1>5. InHole(h.list, h.list[i].base)
  BY <1>4 DEF InHole
<1>6. SYS <= h.list[i].base
  BY <1>4, <1>5 DEF IInv, Layout
<1>7. SYS \in Nat /\ SYS > 0
  BY MemoryAssumption DEF SYS
<1> QED BY <1>3, <1>4, <1>6, <1>7

(* What alloc_mem() has given is an image from now on *)
LEMMA Taken ==
  ASSUME IInv, NEW n \in Nat \ {0}, AllocResult(h, n) # NO_MEM
  PROVE  LET u == alloc_mem(h, n)
             o == Hole(AllocResult(h, n), n)
         IN  /\ u \in Tables /\ u.panic = "none" /\ Sorted(u.list, {})
             /\ Len(u.list) <= Len(h.list) /\ o \in Holes
             /\ Layout(u.list, images \cup {o}) /\ o \notin images
<1> PICK u : u = alloc_mem(h, n)
  OBVIOUS
<1> PICK b : b = AllocResult(h, n)
  OBVIOUS
<1>0. h \in Tables /\ Sorted(h.list, {}) /\ FirstFit(h, n) # 0
  BY NoMem DEF IInv
<1>1. /\ u \in Tables /\ u.panic = h.panic /\ Sorted(u.list, {})
      /\ Len(u.list) <= Len(h.list) /\ Hole(b, n) \in Holes
      /\ \A c \in Int : InHole(u.list, c) <=> InHole(h.list, c) /\ ~(b <= c /\ c < b + n)
      /\ \A c \in b .. b + n - 1 : InHole(h.list, c)
  BY <1>0, AllocMem
<1>2. b \in Nat
  BY <1>1, HoleType DEF Hole
<1>3. \A c \in Int : In(Hole(b, n), c) <=> b <= c /\ c < b + n
  BY <1>2, ImageIn
<1>4. \A c \in Int : InHole(u.list, c) <=> InHole(h.list, c) /\ ~In(Hole(b, n), c)
  BY <1>1, <1>3
<1>5. \A c \in Int : In(Hole(b, n), c) => InHole(h.list, c)
  BY <1>1, <1>2, <1>3
<1>6. Layout(u.list, images \cup {Hole(b, n)}) /\ Hole(b, n) \notin images
  BY <1>1, <1>4, <1>5, LayoutTake DEF IInv
<1> QED BY <1>1, <1>6 DEF IInv

(* What an image had is free again when it has been given back *)
LEMMA Given ==
  ASSUME NEW t \in Tables, Sorted(t.list, {}), t.slots > 0, NEW im,
         Layout(t.list, im), NEW o \in im, o \in Holes, NEW u, u = free_mem(t, o)
  PROVE  /\ u \in Tables /\ u.panic = t.panic /\ Sorted(u.list, {})
         /\ \A c \in Int : InHole(u.list, c) <=> InHole(t.list, c) \/ In(o, c)
         /\ Layout(u.list, im \ {o})
<1>1. \A c \in Int : o.base <= c /\ c < End(o) => ~InHole(t.list, c)
  BY DEF Layout, In
<1>2. /\ u \in Tables /\ u.panic = t.panic /\ Sorted(u.list, {})
      /\ \A c \in Int : InHole(u.list, c) <=> InHole(t.list, c) \/ In(o, c)
  BY <1>1, FreeMem DEF In
<1> QED BY <1>2, LayoutGive

LEMMA ForkStep ==
  ASSUME IInv, NEW n \in 1 .. MaxSize, do_fork(n) PROVE IInv'
<1>1. n \in Nat \ {0}
  BY MemoryAssumption
<1>2. CASE AllocResult(h, n) = NO_MEM
  <2>1. alloc_mem(h, n) = h
    BY <1>1, <1>2, NoMem DEF alloc_mem
  <2>2. h' = h /\ images' = images /\ result' = "EAGAIN"
    BY <1>2, <2>1 DEF do_fork
  <2> QED BY <2>2 DEF IInv
<1>3. CASE AllocResult(h, n) # NO_MEM
  <2>1. PICK o : o = Hole(AllocResult(h, n), n)
    OBVIOUS
  <2>2. h' = alloc_mem(h, n) /\ images' = images \cup {o} /\ result' = "OK"
    BY <1>3, <2>1 DEF do_fork
  <2>3. /\ h' \in Tables /\ h'.panic = "none" /\ Sorted(h'.list, {})
        /\ o \in Holes /\ Layout(h'.list, images \cup {o}) /\ o \notin images
    BY <1>1, <1>3, <2>1, <2>2, Taken
  <2>4. IsFiniteSet(images \cup {o}) /\ Cardinality(images \cup {o}) <= NR_PROCS - 3
    <3>1. /\ IsFiniteSet(images \cup {o})
          /\ Cardinality(images \cup {o}) = Cardinality(images) + 1
      BY <2>3, FS_AddElement DEF IInv
    <3>2. Cardinality(images) \in Nat /\ Cardinality(images) < NR_PROCS - 3
      BY FS_CardinalityType DEF IInv, do_fork
    <3> QED BY <3>1, <3>2, TableAssumption
  <2> QED BY <2>2, <2>3, <2>4 DEF IInv
<1> QED BY <1>2, <1>3

LEMMA ExecStep ==
  ASSUME IInv, NEW o \in images, NEW n \in 1 .. MaxSize, new_mem(n, o) PROVE IInv'
<1>1. n \in Nat \ {0} /\ o \in Holes /\ h \in Tables
  BY MemoryAssumption DEF IInv
<1>2. CASE n > max_hole(h)
  <2>1. h' = h /\ images' = images /\ result' = "EAGAIN"
    BY <1>2 DEF new_mem
  <2> QED BY <2>1 DEF IInv
<1>3. CASE ~(n > max_hole(h))
  <2>1. AllocResult(h, n) # NO_MEM
    BY <1>1, <1>3, MaxHole, NoMem
  <2>2. PICK p : p = Hole(AllocResult(h, n), n)
    OBVIOUS
  <2>3. PICK t : t = alloc_mem(h, n)
    OBVIOUS
  <2>4. h' = free_mem(t, o) /\ images' = (images \ {o}) \cup {p} /\ result' = "OK"
    BY <1>3, <2>1, <2>2, <2>3 DEF new_mem
  <2>5. /\ t \in Tables /\ t.panic = "none" /\ Sorted(t.list, {})
        /\ Len(t.list) <= Len(h.list) /\ p \in Holes
        /\ Layout(t.list, images \cup {p}) /\ p \notin images
    BY <1>1, <2>1, <2>2, <2>3, Taken
  <2>6. t.slots > 0
    <3>1. /\ Len(t.list) \in Nat /\ t.slots \in Nat /\ Len(t.list) + t.slots = NR_HOLES
          /\ Len(h.list) \in Nat
      BY <1>1, <2>5 DEF Tables
    <3>2. Len(h.list) < NR_HOLES
      BY EntryLeft
    <3> QED BY <2>5, <3>1, <3>2, TableAssumption
  <2>7. (images \cup {p}) \ {o} = images'
    BY <2>4, <2>5
  <2>8. /\ h' \in Tables /\ h'.panic = "none" /\ Sorted(h'.list, {})
        /\ Layout(h'.list, images')
    <3>1. PICK im : im = images \cup {p}
      OBVIOUS
    <3>2. o \in im /\ Layout(t.list, im) /\ images' = im \ {o}
      BY <2>5, <2>7, <3>1
    <3>3. /\ h' \in Tables /\ h'.panic = t.panic /\ Sorted(h'.list, {})
          /\ Layout(h'.list, im \ {o})
      BY <1>1, <2>4, <2>5, <2>6, <3>2, Given
    <3> QED BY <2>5, <3>2, <3>3
  <2>9. IsFiniteSet(images') /\ Cardinality(images') <= NR_PROCS - 3
    <3>1. /\ IsFiniteSet(images \ {o})
          /\ Cardinality(images \ {o}) = Cardinality(images) - 1
      BY FS_RemoveElement DEF IInv
    <3>2. /\ IsFiniteSet((images \ {o}) \cup {p})
          /\ Cardinality((images \ {o}) \cup {p}) = Cardinality(images \ {o}) + 1
      BY <2>5, <3>1, FS_AddElement
    <3>3. Cardinality(images) \in Nat /\ Cardinality(images) <= NR_PROCS - 3
      BY FS_CardinalityType DEF IInv
    <3>4. Cardinality((images \ {o}) \cup {p}) = Cardinality(images)
      BY <3>1, <3>2, <3>3
    <3> QED BY <2>4, <3>2, <3>3, <3>4
  <2> QED BY <2>4, <2>5, <2>8, <2>9 DEF IInv
<1> QED BY <1>2, <1>3

LEMMA ExitStep == ASSUME IInv, NEW o \in images, mm_exit(o) PROVE IInv'
<1>1. h' = free_mem(h, o) /\ images' = images \ {o} /\ result' = "OK"
  BY DEF mm_exit
<1>2. o \in Holes /\ h \in Tables /\ h.slots > 0
  BY EntryLeft DEF IInv
<1>3. /\ h' \in Tables /\ h'.panic = "none" /\ Sorted(h'.list, {})
      /\ Layout(h'.list, images')
  BY <1>1, <1>2, Given DEF IInv
<1>4. IsFiniteSet(images') /\ Cardinality(images') <= NR_PROCS - 3
  <2>1. /\ IsFiniteSet(images \ {o})
        /\ Cardinality(images \ {o}) = Cardinality(images) - 1
    BY FS_RemoveElement DEF IInv
  <2>2. Cardinality(images) \in Nat /\ Cardinality(images) <= NR_PROCS - 3
    BY FS_CardinalityType DEF IInv
  <2> QED BY <1>1, <2>1, <2>2, TableAssumption
<1> QED BY <1>1, <1>3, <1>4 DEF IInv

(* do_brk2() finds memory for the system at address 0 and for the RAM disk *)
LEMMA InitStep == ASSUME Init PROVE IInv
<1>1. /\ TOTAL \in Nat /\ MINIX \in Nat \ {0} /\ RAM \in Nat \ {0} /\ SYS < TOTAL
      /\ NR_HOLES \in Nat /\ NR_HOLES > 0
  BY MemoryAssumption, TableAssumption DEF SYS
<1>2. PICK all : all = Hole(0, TOTAL)
  OBVIOUS
<1>3. all \in Holes /\ \A c \in Int : In(all, c) <=> 0 <= c /\ c < TOTAL
  <2>1. all \in Holes
    BY <1>1, <1>2 DEF Holes, Hole, End, SYS
  <2> QED BY <1>1, <1>2, <2>1, ImageIn
<1>4. /\ Empty \in Tables /\ Empty.list = <<>> /\ Empty.slots = NR_HOLES
      /\ Empty.panic = "none"
  BY <1>1 DEF Empty, Tables, Panics
<1>5. Sorted(<<>>, {}) /\ \A c : ~InHole(<<>>, c)
  BY DEF Sorted, InHole
<1>6. PICK t : t = mem_init
  OBVIOUS
<1>7. /\ t \in Tables /\ t.panic = "none" /\ Sorted(t.list, {})
      /\ \A c \in Int : InHole(t.list, c) <=> 0 <= c /\ c < TOTAL
  <2>1. /\ t \in Tables /\ t.panic = Empty.panic /\ Sorted(t.list, {})
        /\ \A c \in Int : InHole(t.list, c) <=>
             InHole(Empty.list, c) \/ (all.base <= c /\ c < End(all))
    BY <1>1, <1>2, <1>3, <1>4, <1>5, <1>6, FreeMem DEF mem_init
  <2> QED BY <1>3, <1>4, <1>5, <2>1 DEF In
<1>8. PICK b : b = AllocResult(t, MINIX)
  OBVIOUS
<1>9. FirstFit(t, MINIX) # 0
  <2>1. PICK c \in Int : c = 0
    OBVIOUS
  <2>2. \A d \in c .. c + MINIX - 1 : InHole(t.list, d)
    BY <1>1, <1>7, <2>1, MemoryAssumption
  <2> QED BY <1>1, <1>7, <1>8, <2>2, AllocFails
<1>10. PICK u : u = alloc_mem(t, MINIX)
  OBVIOUS
<1>11. /\ u \in Tables /\ u.panic = "none" /\ Sorted(u.list, {})
       /\ Hole(b, MINIX) \in Holes
       /\ \A c \in Int : InHole(u.list, c) <=> InHole(t.list, c) /\ ~(b <= c /\ c < b + MINIX)
       /\ \A c \in Int : (\A d \in c .. c + MINIX - 1 : InHole(t.list, d)) => b <= c
  BY <1>1, <1>7, <1>8, <1>9, <1>10, AllocMem
<1>12. b = 0
  <2>1. \A d \in 0 .. 0 + MINIX - 1 : InHole(t.list, d)
    BY <1>1, <1>7, MemoryAssumption
  <2>2. b <= 0
    BY <1>11, <2>1
  <2>3. b \in Nat
    BY <1>11, HoleType DEF Hole
  <2> QED BY <2>2, <2>3
<1>13. \A c \in Int : InHole(u.list, c) <=> MINIX <= c /\ c < TOTAL
  BY <1>1, <1>7, <1>11, <1>12
<1>14. PICK r : r = AllocResult(u, RAM)
  OBVIOUS
<1>15. FirstFit(u, RAM) # 0
  <2>1. PICK c \in Int : c = MINIX
    BY <1>1
  <2>2. \A d \in c .. c + RAM - 1 : InHole(u.list, d)
    BY <1>1, <1>13, <2>1 DEF SYS
  <2>3. u \in Tables /\ Sorted(u.list, {}) /\ RAM \in Nat \ {0}
    BY <1>1, <1>11
  <2> QED BY <2>2, <2>3, AllocFails
<1>16. PICK v : v = alloc_mem(u, RAM)
  OBVIOUS
<1>17. /\ v \in Tables /\ v.panic = "none" /\ Sorted(v.list, {})
       /\ Hole(r, RAM) \in Holes
       /\ \A c \in Int : InHole(v.list, c) <=> InHole(u.list, c) /\ ~(r <= c /\ c < r + RAM)
       /\ \A c \in r .. r + RAM - 1 : InHole(u.list, c)
       /\ \A c \in Int : (\A d \in c .. c + RAM - 1 : InHole(u.list, d)) => r <= c
  BY <1>1, <1>11, <1>14, <1>15, <1>16, AllocMem
<1>18. r = MINIX
  <2>1. r \in Nat
    BY <1>17, HoleType DEF Hole
  <2>2. r \in r .. r + RAM - 1
    BY <1>1, <2>1
  <2>3. InHole(u.list, r)
    BY <1>17, <2>2
  <2>4. MINIX <= r
    BY <1>13, <2>1, <2>3
  <2>5. \A d \in MINIX .. MINIX + RAM - 1 : InHole(u.list, d)
    BY <1>1, <1>13 DEF SYS
  <2>6. r <= MINIX
    BY <1>1, <1>17, <2>5
  <2> QED BY <1>1, <2>1, <2>4, <2>6
<1>19. \A c \in Int : InHole(v.list, c) <=> SYS <= c /\ c < TOTAL
  BY <1>1, <1>13, <1>17, <1>18 DEF SYS
<1>20. h = v /\ images = {} /\ result = "OK"
  BY <1>1, <1>6, <1>8, <1>10, <1>12, <1>14, <1>16, <1>18 DEF Init, do_brk2, NO_MEM
<1>21. Layout(h.list, images)
  BY <1>19, <1>20 DEF Layout
<1>22. IsFiniteSet(images) /\ Cardinality(images) <= NR_PROCS - 3
  BY <1>20, FS_EmptySet, TableAssumption
<1> QED BY <1>17, <1>20, <1>21, <1>22 DEF IInv

LEMMA NextStep == ASSUME IInv, [Next]_vars PROVE IInv'
<1>1. ASSUME NEW n \in 1 .. MaxSize, do_fork(n) PROVE IInv'
  BY <1>1, ForkStep
<1>2. ASSUME NEW o \in images, mm_exit(o) PROVE IInv'
  BY <1>2, ExitStep
<1>3. ASSUME NEW o \in images, NEW n \in 1 .. MaxSize, new_mem(n, o) PROVE IInv'
  BY <1>3, ExecStep
<1>4. CASE UNCHANGED vars
  BY <1>4 DEF vars, IInv
<1> QED BY <1>1, <1>2, <1>3, <1>4 DEF Next

LEMMA Inductive == Spec => []IInv
<1>1. Init => IInv
  BY InitStep
<1>2. IInv /\ [Next]_vars => IInv'
  BY NextStep
<1> QED BY <1>1, <1>2, PTL DEF Spec

-----------------------------------------------------------------------------
(* What the invariant says of the state *)

LEMMA ExtentIn == ASSUME NEW o \in Holes, NEW c
                  PROVE  c \in Extent(o) <=> c \in Int /\ In(o, c)
<1>1. o.base \in Nat /\ End(o) \in Nat
  BY HoleType DEF End
<1> QED BY <1>1 DEF Extent, In

(* The set of free clicks, as a refinement mapping sees it *)
LEMMA FreeFacts ==
  ASSUME NEW t \in Tables, NEW c
  PROVE  c \in FreeClicks(t) <=> c \in 0 .. TOTAL - 1 /\ InHole(t.list, c)
<1>1. t.list \in Seq(Holes) /\ TOTAL \in Nat
  BY MemoryAssumption DEF Tables
<1>2. ASSUME c \in Int, InHole(t.list, c) PROVE c \in 0 .. TOTAL - 1
  <2>1. PICK i \in 1 .. Len(t.list) : t.list[i].base <= c /\ c < End(t.list[i])
    BY <1>2 DEF InHole
  <2>2. t.list[i].base \in Nat /\ End(t.list[i]) \in Nat /\ End(t.list[i]) <= TOTAL
    BY <1>1, HoleNumbers
  <2> QED BY <1>1, <1>2, <2>1, <2>2
<1>3. 0 .. TOTAL - 1 \subseteq Int
  BY <1>1
<1> QED BY <1>2, <1>3, FreeClicksInHole

LEMMA InvParts == ASSUME IInv
                  PROVE  TypeOK /\ Coalesced /\ Partition /\ NoPanic /\ SlotsKept
<1>1. /\ h \in Tables /\ h.list \in Seq(Holes) /\ DOMAIN h.list = 1 .. Len(h.list)
      /\ Len(h.list) \in Nat /\ h.slots \in Nat /\ Len(h.list) + h.slots = NR_HOLES
      /\ images \subseteq Holes /\ Layout(h.list, images)
  BY DEF IInv, Tables
<1>2. NoPanic /\ SlotsKept
  BY <1>1 DEF IInv, NoPanic, SlotsKept
<1>3. TypeOK
  <2>1. h.slots \in 0 .. NR_HOLES
    BY <1>1, TableAssumption
  <2>2. h \in [list : Seq(Holes), slots : Nat, panic : Panics]
    BY <1>1 DEF Tables
  <2>3. h \in [list : Seq(Holes), slots : 0 .. NR_HOLES, panic : Panics]
    BY <2>1, <2>2
  <2> QED BY <2>3 DEF IInv, TypeOK
<1>4. Coalesced
  BY <1>1, StrictlySorted DEF IInv, Coalesced
<1>5. SYS \in Nat /\ SYS < TOTAL /\ TOTAL \in Nat
  BY MemoryAssumption DEF SYS
<1>6. Partition
  <2>1. ASSUME NEW c \in SYS .. TOTAL - 1
        PROVE  c \in FreeClicks(h) \/ \E o \in images : c \in Extent(o)
    <3>1. c \in Int /\ SYS <= c /\ c < TOTAL
      BY <1>5
    <3>2. InHole(h.list, c) \/ \E o \in images : In(o, c)
      BY <1>1, <3>1 DEF Layout
    <3> QED BY <1>1, <3>1, <3>2, ExtentIn, FreeClicksInHole
  <2>2. ASSUME NEW c \in FreeClicks(h) PROVE c \in SYS .. TOTAL - 1
    <3>1. c \in 0 .. TOTAL - 1 /\ InHole(h.list, c)
      BY <1>1, FreeFacts
    <3>2. SYS <= c
      BY <1>1, <1>5, <3>1 DEF Layout
    <3> QED BY <1>5, <3>1, <3>2
  <2>3. ASSUME NEW o \in images, NEW c \in Extent(o)
        PROVE  /\ c \in SYS .. TOTAL - 1 /\ c \notin FreeClicks(h)
               /\ \A p \in images : c \in Extent(p) => o = p
    <3>1. c \in Int /\ In(o, c) /\ o \in Holes
      BY <1>1, ExtentIn
    <3>2. /\ SYS <= c /\ ~InHole(h.list, c)
          /\ \A p \in images : In(p, c) => p = o
      BY <1>1, <3>1 DEF Layout
    <3>3. End(o) \in Nat /\ End(o) <= TOTAL
      BY <3>1, HoleType DEF End
    <3>4. c \in SYS .. TOTAL - 1
      BY <1>5, <3>1, <3>2, <3>3 DEF In
    <3> QED BY <1>1, <3>1, <3>2, <3>4, ExtentIn, FreeFacts
  <2> DEFINE F == FreeClicks(h)
             A == SYS .. TOTAL - 1
  <2>4. A = MINIX + RAM .. TOTAL - 1
    BY DEF SYS
  <2> HIDE DEF F, A
  <2>5. F \cup UNION {Extent(o) : o \in images} = A
    <3>1. (\A c \in F : c \in A) /\ (\A o \in images : \A c \in Extent(o) : c \in A)
      BY <2>2, <2>3 DEF F, A
    <3>2. \A c \in A : c \in F \/ \E o \in images : c \in Extent(o)
      BY <2>1 DEF F, A
    <3> QED BY <3>1, <3>2
  <2>6. \A o \in images : Extent(o) \cap F = {}
    BY <2>3 DEF F
  <2>7. \A o \in images : \A p \in images : o = p \/ Extent(o) \cap Extent(p) = {}
    BY <2>3
  <2> QED BY <2>4, <2>5, <2>6, <2>7 DEF F, Partition
<1> QED BY <1>2, <1>3, <1>4, <1>6

(***************************************************************************)
(* mm/alloc.c neither loses memory nor gives it out twice, in whatever     *)
(* order programs fork, exec and exit and whatever they ask for; merge()   *)
(* leaves no two holes that abut, and del_slot() loses no entry.           *)
(***************************************************************************)
THEOREM MemoryKept == Spec => []HolesKept
<1>1. IInv => HolesKept
  BY InvParts DEF HolesKept
<1> QED BY <1>1, Inductive, PTL

(***************************************************************************)
(* free_mem() never panics with "Hole table full" (alloc.c:88), nor exec   *)
(* with "MM hole list is inconsistent" (exec.c:296), if the table has at   *)
(* least NR_PROCS - 1 entries: below each hole is an image or the system,  *)
(* and there are at most NR_PROCS - 3 images.                              *)
(***************************************************************************)
THEOREM NeverFull == Spec => []NoPanic
<1>1. IInv => NoPanic
  BY InvParts
<1> QED BY <1>1, Inductive, PTL

-----------------------------------------------------------------------------
(* The hole list implements module Memory *)

LEMMA SameExtent ==
  ASSUME NEW b \in Nat, NEW n \in Nat
  PROVE  /\ Promise!Block(b, n) = Hole(b, n)
         /\ \A o \in Holes : Promise!Extent(o) = Extent(o)
BY HoleType DEF Promise!Block, Hole, Promise!Extent, Extent, End

(* A room of n clicks is what alloc_mem() looks for *)
LEMMA RoomIn ==
  ASSUME IInv, NEW n \in Nat \ {0}, NEW c
  PROVE  c \in Promise!Room(n) <=> c \in Int /\ \A d \in c .. c + n - 1 : InHole(h.list, d)
<1>1. h \in Tables /\ TOTAL \in Nat
  BY MemoryAssumption DEF IInv
<1>2. ASSUME c \in Promise!Room(n), NEW d \in c .. c + n - 1
      PROVE  c \in Int /\ InHole(h.list, d)
  <2>1. c \in 0 .. TOTAL - 1 /\ d \in FreeClicks(h)
    BY <1>2 DEF Promise!Room, Promise!Clicks
  <2> QED BY <1>1, <2>1, FreeFacts
<1>3. ASSUME c \in Int, \A d \in c .. c + n - 1 : InHole(h.list, d)
      PROVE  c \in Promise!Room(n)
  <2>1. ASSUME NEW d \in c .. c + n - 1 PROVE d \in FreeClicks(h)
    BY <1>1, <1>3, FreeClicksInHole
  <2>2. c \in FreeClicks(h)
    BY <1>3, <2>1
  <2>3. c \in 0 .. TOTAL - 1
    BY <1>1, <2>2, FreeFacts
  <2> QED BY <2>1, <2>3 DEF Promise!Room, Promise!Clicks
<1>4. c \in Promise!Room(n) => c \in Int
  BY <1>1 DEF Promise!Room, Promise!Clicks
<1> QED BY <1>2, <1>3, <1>4

(* alloc_mem() finds the lowest room, and fails only if there is none *)
LEMMA LowestRoom ==
  ASSUME IInv, NEW n \in Nat \ {0}, NEW b, b = AllocResult(h, n)
  PROVE  /\ b = NO_MEM => Promise!Room(n) = {}
         /\ b # NO_MEM => /\ b \in Promise!Room(n) /\ b \in Nat
                          /\ \A c \in Promise!Room(n) : b <= c
<1>1. h \in Tables /\ Sorted(h.list, {}) /\ (b = NO_MEM <=> FirstFit(h, n) = 0)
  BY NoMem DEF IInv
<1>2. CASE b = NO_MEM
  <2>1. SUFFICES ASSUME NEW c \in Promise!Room(n) PROVE FALSE
    BY <1>2
  <2>2. c \in Int /\ \A d \in c .. c + n - 1 : InHole(h.list, d)
    BY RoomIn
  <2> QED BY <1>1, <1>2, <2>2, AllocFails
<1>3. CASE b # NO_MEM
  <2>1. /\ Hole(b, n) \in Holes /\ \A c \in b .. b + n - 1 : InHole(h.list, c)
        /\ \A c \in Int : (\A d \in c .. c + n - 1 : InHole(h.list, d)) => b <= c
    BY <1>1, <1>3, AllocMem
  <2>2. b \in Nat
    BY <2>1, HoleType DEF Hole
  <2>3. \A c \in Promise!Room(n) : b <= c
    BY <2>1, RoomIn
  <2>4. b \in Promise!Room(n)
    BY <2>1, <2>2, RoomIn
  <2> QED BY <1>3, <2>2, <2>3, <2>4
<1> QED BY <1>2, <1>3

(* The clicks that are free after alloc_mem() and after free_mem() *)
LEMMA FreeTaken ==
  ASSUME IInv, NEW n \in Nat \ {0}, NEW b, b = AllocResult(h, n), b # NO_MEM,
         NEW u, u = alloc_mem(h, n)
  PROVE  FreeClicks(u) = FreeClicks(h) \ Extent(Hole(b, n))
<1>0. h \in Tables /\ Sorted(h.list, {}) /\ FirstFit(h, n) # 0
  BY NoMem DEF IInv
<1>1. /\ h \in Tables /\ u \in Tables /\ Hole(b, n) \in Holes
      /\ \A c \in Int : InHole(u.list, c) <=> InHole(h.list, c) /\ ~(b <= c /\ c < b + n)
  BY <1>0, AllocMem
<1>2. b \in Nat
  BY <1>1, HoleType DEF Hole
<1>3. ASSUME NEW c
      PROVE  c \in FreeClicks(u) <=> c \in FreeClicks(h) /\ c \notin Extent(Hole(b, n))
  <2>1. c \in FreeClicks(u) <=> c \in Int /\ InHole(u.list, c)
    BY <1>1, FreeClicksInHole
  <2>2. c \in FreeClicks(h) <=> c \in Int /\ InHole(h.list, c)
    BY <1>1, FreeClicksInHole
  <2>3. c \in Extent(Hole(b, n)) <=> c \in Int /\ In(Hole(b, n), c)
    BY <1>1, ExtentIn
  <2>4. c \in Int => (In(Hole(b, n), c) <=> b <= c /\ c < b + n)
    BY <1>2, ImageIn
  <2> QED BY <1>1, <2>1, <2>2, <2>3, <2>4
<1> QED BY <1>3

LEMMA FreeGiven ==
  ASSUME NEW t \in Tables, Sorted(t.list, {}), t.slots > 0, NEW im,
         Layout(t.list, im), NEW o \in im, o \in Holes, NEW u, u = free_mem(t, o)
  PROVE  FreeClicks(u) = FreeClicks(t) \cup Extent(o)
<1>1. /\ u \in Tables
      /\ \A c \in Int : InHole(u.list, c) <=> InHole(t.list, c) \/ In(o, c)
  BY Given
<1>2. ASSUME NEW c
      PROVE  c \in FreeClicks(u) <=> c \in FreeClicks(t) \/ c \in Extent(o)
  BY <1>1, FreeClicksInHole, ExtentIn
<1> QED BY <1>2

LEMMA ForkKept ==
  ASSUME IInv, NEW n \in 1 .. MaxSize, do_fork(n)
  PROVE  Promise!Place(n, {}) \/ Promise!Refuse(n)
<1>1. n \in Nat \ {0}
  BY MemoryAssumption
<1>2. PICK b : b = AllocResult(h, n)
  OBVIOUS
<1>3. CASE b = NO_MEM
  <2>1. Promise!Room(n) = {}
    BY <1>1, <1>2, <1>3, LowestRoom
  <2>2. alloc_mem(h, n) = h
    BY <1>1, <1>2, <1>3, NoMem DEF alloc_mem
  <2>3. h' = h /\ images' = images /\ result' = "EAGAIN"
    BY <1>2, <1>3, <2>2 DEF do_fork
  <2>4. FreeClicks(h)' = FreeClicks(h)
    BY <2>3 DEF FreeClicks, Extent, End
  <2> QED BY <2>1, <2>3, <2>4 DEF Promise!Refuse
<1>4. CASE b # NO_MEM
  <2>1. b \in Promise!Room(n) /\ b \in Nat /\ \A c \in Promise!Room(n) : b <= c
    BY <1>1, <1>2, <1>4, LowestRoom
  <2>2. h' = alloc_mem(h, n) /\ images' = images \cup {Hole(b, n)} /\ result' = "OK"
    BY <1>2, <1>4 DEF do_fork
  <2>3. FreeClicks(h') = FreeClicks(h) \ Extent(Hole(b, n)) /\ Hole(b, n) \in Holes
    BY <1>1, <1>2, <1>4, <2>2, FreeTaken, Taken
  <2>4. Promise!Block(b, n) = Hole(b, n) /\ Promise!Extent(Hole(b, n)) = Extent(Hole(b, n))
    BY <1>1, <2>1, <2>3, SameExtent
  <2>5. FreeClicks(h)' = (FreeClicks(h) \ Promise!Extent(Promise!Block(b, n)))
                           \cup UNION {Promise!Extent(o) : o \in {}}
    BY <2>3, <2>4 DEF FreeClicks, Extent, End
  <2> QED BY <2>1, <2>2, <2>4, <2>5 DEF Promise!Place
<1> QED BY <1>3, <1>4

LEMMA ExecKept ==
  ASSUME IInv, NEW o \in images, NEW n \in 1 .. MaxSize, new_mem(n, o)
  PROVE  Promise!Place(n, {o}) \/ Promise!Refuse(n)
<1>1. n \in Nat \ {0} /\ o \in Holes /\ h \in Tables
  BY MemoryAssumption DEF IInv
<1>2. PICK b : b = AllocResult(h, n)
  OBVIOUS
<1>3. CASE b = NO_MEM
  <2>1. Promise!Room(n) = {}
    BY <1>1, <1>2, <1>3, LowestRoom
  <2>2. h' = h /\ images' = images /\ result' = "EAGAIN"
    BY <1>1, <1>2, <1>3, MaxHole, NoMem DEF new_mem
  <2>3. FreeClicks(h)' = FreeClicks(h)
    BY <2>2 DEF FreeClicks, Extent, End
  <2> QED BY <2>1, <2>2, <2>3 DEF Promise!Refuse
<1>4. CASE b # NO_MEM
  <2>1. b \in Promise!Room(n) /\ b \in Nat /\ \A c \in Promise!Room(n) : b <= c
    BY <1>1, <1>2, <1>4, LowestRoom
  <2>2. PICK t : t = alloc_mem(h, n)
    OBVIOUS
  <2>3. /\ h' = free_mem(t, o) /\ images' = (images \ {o}) \cup {Hole(b, n)}
        /\ result' = "OK"
    BY <1>1, <1>2, <1>4, <2>2, MaxHole, NoMem DEF new_mem
  <2>4. /\ t \in Tables /\ Sorted(t.list, {}) /\ Len(t.list) <= Len(h.list)
        /\ Hole(b, n) \in Holes /\ Layout(t.list, images \cup {Hole(b, n)})
    <3>1. n \in Nat \ {0} /\ AllocResult(h, n) # NO_MEM
      BY <1>1, <1>2, <1>4
    <3> QED BY <1>2, <2>2, <3>1, Taken
  <2>5. t.slots > 0
    <3>1. /\ Len(t.list) \in Nat /\ t.slots \in Nat /\ Len(t.list) + t.slots = NR_HOLES
          /\ Len(h.list) \in Nat
      BY <1>1, <2>4 DEF Tables
    <3>2. Len(h.list) < NR_HOLES
      BY EntryLeft
    <3> QED BY <2>4, <3>1, <3>2, TableAssumption
  <2>6. FreeClicks(t) = FreeClicks(h) \ Extent(Hole(b, n))
    BY <1>1, <1>2, <1>4, <2>2, FreeTaken
  <2>7. FreeClicks(h') = FreeClicks(t) \cup Extent(o)
    <3>1. PICK im : im = images \cup {Hole(b, n)}
      OBVIOUS
    <3>2. o \in im /\ Layout(t.list, im)
      BY <2>4, <3>1
    <3> QED BY <1>1, <2>3, <2>4, <2>5, <3>2, FreeGiven
  <2>8. /\ Promise!Block(b, n) = Hole(b, n)
        /\ Promise!Extent(Hole(b, n)) = Extent(Hole(b, n))
        /\ Promise!Extent(o) = Extent(o)
    BY <1>1, <2>1, <2>4, SameExtent
  <2>9. FreeClicks(h)' = (FreeClicks(h) \ Promise!Extent(Promise!Block(b, n)))
                           \cup UNION {Promise!Extent(p) : p \in {o}}
    <3>1. UNION {Promise!Extent(p) : p \in {o}} = Extent(o)
      BY <2>8
    <3>2. FreeClicks(h)' = FreeClicks(h')
      BY DEF FreeClicks, Extent, End
    <3> QED BY <2>6, <2>7, <2>8, <3>1, <3>2
  <2> QED BY <2>1, <2>3, <2>8, <2>9 DEF Promise!Place
<1> QED BY <1>3, <1>4

LEMMA ExitKept ==
  ASSUME IInv, NEW o \in images, mm_exit(o) PROVE Promise!Release(o)
<1>1. h' = free_mem(h, o) /\ images' = images \ {o} /\ result' = "OK"
  BY DEF mm_exit
<1>2. o \in Holes /\ h \in Tables /\ h.slots > 0
  BY EntryLeft DEF IInv
<1>3. FreeClicks(h') = FreeClicks(h) \cup Extent(o)
  BY <1>1, <1>2, FreeGiven DEF IInv
<1>4. Promise!Extent(o) = Extent(o)
  BY <1>2, SameExtent
<1>5. FreeClicks(h)' = FreeClicks(h) \cup Promise!Extent(o)
  BY <1>3, <1>4 DEF FreeClicks, Extent, End
<1> QED BY <1>1, <1>5 DEF Promise!Release

(***************************************************************************)
(* The hole list implements module Memory: fork and exec put an image at   *)
(* the lowest address with room for it and fail only if there is none, and *)
(* what exit and exec give back is free again.  Coalesced is what makes    *)
(* room for n clicks the same as a hole of n clicks.                       *)
(***************************************************************************)
THEOREM Implements == Spec => PromiseKept
<1>1. Init => Promise!MemInit
  <2> SUFFICES ASSUME Init PROVE Promise!MemInit
    OBVIOUS
  <2>1. IInv /\ images = {} /\ result = "OK"
    BY InitStep DEF Init
  <2>2. FreeClicks(h) = MINIX + RAM .. TOTAL - 1
    BY <2>1, InvParts DEF Partition
  <2> QED BY <2>1, <2>2 DEF Promise!MemInit
<1>2. IInv /\ [Next]_vars => [Promise!MemNext]_(Promise!memvars)
  <2> SUFFICES ASSUME IInv, [Next]_vars
               PROVE  Promise!MemNext \/ UNCHANGED Promise!memvars
    OBVIOUS
  <2>1. ASSUME NEW n \in 1 .. MaxSize, do_fork(n) PROVE Promise!MemNext
    BY <2>1, ForkKept DEF Promise!MemNext, Promise!Size
  <2>2. ASSUME NEW o \in images, mm_exit(o) PROVE Promise!MemNext
    BY <2>2, ExitKept DEF Promise!MemNext
  <2>3. ASSUME NEW o \in images, NEW n \in 1 .. MaxSize, new_mem(n, o)
        PROVE  Promise!MemNext
    BY <2>3, ExecKept DEF Promise!MemNext, Promise!Size
  <2>4. CASE UNCHANGED vars
    <3>1. h' = h /\ images' = images /\ result' = result
      BY <2>4 DEF vars
    <3>2. FreeClicks(h)' = FreeClicks(h)
      BY <3>1 DEF FreeClicks, Extent, End
    <3> QED BY <3>1, <3>2 DEF Promise!memvars
  <2> QED BY <2>1, <2>2, <2>3, <2>4 DEF Next
<1> QED BY <1>1, <1>2, Inductive, PTL DEF Spec, PromiseKept, Promise!MemSpec
=============================================================================
