----------------------------- MODULE FsPipeStream -----------------------------
(* Module FsPipe implements module Stream: every pipe is a stream of bytes *)
EXTENDS FsPipeProofs

-----------------------------------------------------------------------------
(* Sequences *)

LEMMA SeqOf1 ==
  ASSUME NEW S, NEW m \in Nat, NEW s \in [1 .. m -> S]
  PROVE  s \in Seq(S) /\ Len(s) = m
<1>1. s \in Seq(S) /\ DOMAIN s = 1 .. m
  BY SeqDef
<1>2. Len(s) \in Nat /\ 1 .. Len(s) = 1 .. m
  BY <1>1, LenProperties
<1> QED BY <1>1, <1>2

LEMMA SeqSame ==
  ASSUME NEW S, NEW s \in Seq(S), NEW t \in Seq(S), Len(s) = Len(t),
         \A k \in 1 .. Len(s) : s[k] = t[k]
  PROVE  s = t
BY SeqEqual

(* Bytes that follow position k of data *)
LEMMA RestIs ==
  ASSUME NEW S, NEW m \in Nat, NEW s \in [1 .. m -> S], NEW k \in 0 .. m
  PROVE  /\ SubSeq(s, k + 1, m) \in Seq(S) /\ Len(SubSeq(s, k + 1, m)) = m - k
         /\ \A j \in 1 .. m - k : SubSeq(s, k + 1, m)[j] = s[k + j]
<1>1. \A j \in k + 1 .. m : s[j] \in S
  OBVIOUS
<1>2. k + 1 \in Int /\ m \in Int
  OBVIOUS
<1>3. /\ SubSeq(s, k + 1, m) \in Seq(S)
      /\ Len(SubSeq(s, k + 1, m)) = IF k + 1 <= m THEN m - (k + 1) + 1 ELSE 0
      /\ \A j \in 1 .. m - (k + 1) + 1 : SubSeq(s, k + 1, m)[j] = s[k + 1 + j - 1]
  <2> DEFINE a == k + 1
  <2>1. a \in Int /\ \A j \in a .. m : s[j] \in S
    BY <1>1
  <2> HIDE DEF a
  <2>2. /\ SubSeq(s, a, m) \in Seq(S)
        /\ Len(SubSeq(s, a, m)) = IF a <= m THEN m - a + 1 ELSE 0
        /\ \A j \in 1 .. m - a + 1 : SubSeq(s, a, m)[j] = s[a + j - 1]
    BY <1>2, <2>1, SubSeqProperties
  <2> QED BY <2>2 DEF a
<1>4. \A j \in 1 .. m - k : k + 1 + j - 1 = k + j /\ j \in 1 .. m - (k + 1) + 1
  OBVIOUS
<1> QED BY <1>3, <1>4

(* A reader that has taken n bytes has the others before it *)
LEMMA TakenRest ==
  ASSUME NEW S, NEW m \in Nat, NEW s \in [1 .. m -> S], NEW k \in 0 .. m, NEW n \in 0 .. m - k
  PROVE  SubSeq(s, k + n + 1, m) = SubSeq(SubSeq(s, k + 1, m), n + 1, Len(SubSeq(s, k + 1, m)))
<1> DEFINE r == SubSeq(s, k + 1, m)
           l == m - k
           a == k + n
<1>1. r \in Seq(S) /\ Len(r) = l /\ l \in Nat /\ \A j \in 1 .. l : r[j] = s[k + j]
  BY RestIs
<1>2. a \in 0 .. m /\ m - a = l - n /\ a = k + n
  OBVIOUS
<1> HIDE DEF r
<1>3. r \in [1 .. l -> S]
  BY <1>1, LenProperties
<1>4. /\ SubSeq(s, a + 1, m) \in Seq(S) /\ Len(SubSeq(s, a + 1, m)) = m - a
      /\ \A j \in 1 .. m - a : SubSeq(s, a + 1, m)[j] = s[a + j]
  <2> HIDE DEF a, l
  <2> QED BY <1>2, RestIs
<1>5. /\ SubSeq(r, n + 1, l) \in Seq(S) /\ Len(SubSeq(r, n + 1, l)) = l - n
      /\ \A j \in 1 .. l - n : SubSeq(r, n + 1, l)[j] = r[n + j]
  <2> HIDE DEF l
  <2>1. n \in 0 .. l
    BY DEF l
  <2> QED BY <1>1, <1>3, <2>1, RestIs
<1>6. \A j \in 1 .. l - n : r[n + j] = s[a + j]
  BY <1>1, <1>2
<1>7. SubSeq(s, a + 1, m) = SubSeq(r, n + 1, l)
  <2> DEFINE u == SubSeq(s, a + 1, m)
             v == SubSeq(r, n + 1, l)
  <2>1. u \in Seq(S) /\ v \in Seq(S) /\ Len(u) = Len(v) /\ \A j \in 1 .. Len(u) : u[j] = v[j]
    BY <1>2, <1>4, <1>5, <1>6
  <2> HIDE DEF u, v
  <2> QED BY <2>1, SeqSame DEF u, v
<1> QED BY <1>1, <1>2, <1>7 DEF r

Rep(p, n) == [j \in 1 .. n |-> p]

(* A write at the end appends *)
LEMMA PutRest ==
  ASSUME NEW m \in Nat, NEW s \in [1 .. m -> Procs \cup {0}], NEW k \in 0 .. m, NEW n \in Nat,
         NEW p \in Procs
  PROVE  SubSeq(Put(s, m, n, p), k + 1, m + n) = SubSeq(s, k + 1, m) \o Rep(p, n)
<1> DEFINE w == m + n
           t == [j \in 1 .. w |-> IF j <= m THEN s[j] ELSE p]
           r == SubSeq(s, k + 1, m)
           b == [j \in 1 .. n |-> p]
           u == SubSeq(t, k + 1, w)
           S == Procs \cup {0}
<1>s. s \in [1 .. m -> S] /\ p \in S
  OBVIOUS
<1> HIDE DEF S
<1>0. w \in Nat /\ k \in 0 .. w /\ w = m + n /\ Len(s) = m
  BY <1>s, SeqOf1
<1>1. Put(s, m, n, p) = t
  <2>1. Max({m, w}) = w
    BY <1>0, MaxOf
  <2>2. Put(s, m, n, p) = [j \in 1 .. w |-> IF j \in m + 1 .. w THEN p
                                            ELSE IF j <= m THEN s[j] ELSE 0]
    BY <1>0, <2>1 DEF Put
  <2> QED BY <1>0, <2>2
<1>2. t \in [1 .. w -> S] /\ \A j \in 1 .. w : t[j] = IF j <= m THEN s[j] ELSE p
  <2>1. \A j \in 1 .. w : (IF j <= m THEN s[j] ELSE p) \in S
    BY <1>0, <1>s
  <2> QED BY <2>1
<1> HIDE DEF t
<1>3. u \in Seq(S) /\ Len(u) = w - k /\ \A j \in 1 .. w - k : u[j] = t[k + j]
  <2> HIDE DEF w
  <2> QED BY <1>0, <1>2, RestIs
<1>4. r \in Seq(S) /\ Len(r) = m - k /\ \A j \in 1 .. m - k : r[j] = s[k + j]
  BY <1>s, RestIs
<1>5. b \in Seq(S) /\ Len(b) = n /\ \A j \in 1 .. n : b[j] = p
  <2>1. b \in [1 .. n -> S]
    BY <1>s
  <2> HIDE DEF b
  <2>2. b \in Seq(S) /\ Len(b) = n
    BY <2>1, SeqOf1
  <2> QED BY <2>2 DEF b
<1> HIDE DEF u, r, b
<1>6. /\ r \o b \in Seq(S) /\ Len(r \o b) = Len(r) + Len(b)
      /\ \A j \in 1 .. Len(r) + Len(b) : (r \o b)[j] = IF j <= Len(r) THEN r[j] ELSE b[j - Len(r)]
  BY <1>4, <1>5, ConcatProperties
<1>7. u = r \o b
  <2> DEFINE v == r \o b
  <2>1. Len(v) = Len(u)
    BY <1>0, <1>3, <1>4, <1>5, <1>6
  <2>2. ASSUME NEW j \in 1 .. Len(u) PROVE u[j] = v[j]
    <3>1. j \in 1 .. w - k /\ j \in 1 .. Len(r) + Len(b) /\ k + j \in 1 .. w
      BY <1>0, <1>3, <1>4, <1>5
    <3>2. CASE j <= m - k
      <4>1. k + j <= m /\ j \in 1 .. m - k
        BY <3>1, <3>2
      <4> QED BY <1>2, <1>3, <1>4, <1>6, <3>1, <3>2, <4>1
    <3>3. CASE ~ (j <= m - k)
      <4>1. ~ (k + j <= m) /\ j - (m - k) \in 1 .. n
        BY <1>0, <3>1, <3>3
      <4> QED BY <1>2, <1>3, <1>4, <1>5, <1>6, <3>1, <3>3, <4>1
    <3> QED BY <3>2, <3>3
  <2>3. v \in Seq(S)
    BY <1>6
  <2> HIDE DEF v
  <2>4. u = v
    BY <1>3, <2>1, <2>2, <2>3, SeqSame
  <2> QED BY <2>4 DEF v
<1> QED BY <1>0, <1>1, <1>7 DEF u, r, b, Rep

-----------------------------------------------------------------------------
(* What the reader of the pipe in Slot sees, from tables f to tables g *)

Same(f, g) == (Listened(g) <=> Listened(f)) /\ Unread(g) = Unread(f)

(* The last reader is gone, or nothing has changed *)
Shut(f, g) == Same(f, g) \/ (Listened(f) /\ ~ Listened(g))

Moved(f, g) ==
  \/ Shut(f, g)
  \/ ~ Listened(f) /\ Listened(g) /\ Unread(g) = <<>>
  \/ /\ Listened(f) /\ Listened(g)
     /\ \/ \E n \in 1 .. Len(Unread(f)) : Unread(g) = SubSeq(Unread(f), n + 1, Len(Unread(f)))
        \/ \E p \in Procs : \E n \in 1 .. PIPE_SIZE - Len(Unread(f)) :
             Unread(g) = Unread(f) \o [k \in 1 .. n |-> p]

(* Steps that come one after the other *)
LEMMA MovedOn ==
  ASSUME NEW f, NEW g, NEW h
  PROVE  /\ Same(f, g) /\ Same(g, h) => Same(f, h)
         /\ Same(f, g) /\ Moved(g, h) => Moved(f, h)
         /\ Moved(f, g) /\ Same(g, h) => Moved(f, h)
         /\ Shut(f, g) /\ Same(g, h) => Shut(f, h)
         /\ Same(f, g) /\ Shut(g, h) => Shut(f, h)
<1>1. Same(f, g) /\ Same(g, h) => Same(f, h)
  BY DEF Same
<1>2. Same(f, g) /\ Moved(g, h) => Moved(f, h)
  BY <1>1 DEF Moved, Shut, Same
<1>3. Moved(f, g) /\ Same(g, h) => Moved(f, h)
  BY <1>1 DEF Moved, Shut, Same
<1>4. Shut(f, g) /\ Same(g, h) => Shut(f, h)
  BY <1>1 DEF Shut, Same
<1>5. Same(f, g) /\ Shut(g, h) => Shut(f, h)
  BY <1>1 DEF Shut, Same
<1> QED BY <1>1, <1>2, <1>3, <1>4, <1>5

(* Nothing is read of a pipe that nobody reads *)
LEMMA ShutOn ==
  ASSUME NEW f, NEW g, NEW h, Shut(f, g), Shut(g, h)
  PROVE  Shut(f, h)
<1>1. \A u : ~ Listened(u) => Unread(u) = <<>>
  BY DEF Unread
<1> QED BY <1>1 DEF Shut, Same

LEMMA Deaf ==
  ASSUME NEW f, NEW g, ~ Listened(f), ~ Listened(g)
  PROVE  Same(f, g)
BY DEF Same, Unread

LEMMA FilesSame ==
  ASSUME NEW f, NEW g, SameFiles(f, g)
  PROVE  Same(f, g)
<1>1. Readers(g) = Readers(f)
  BY DEF SameFiles, Readers, Open
<1>2. Listened(g) <=> Listened(f)
  BY <1>1 DEF SameFiles, Listened
<1>3. Unread(g) = Unread(f)
  BY <1>1, <1>2 DEF SameFiles, Unread, i_size
<1> QED BY <1>2, <1>3 DEF Same

LEMMA MinOne == ASSUME NEW x \in Int PROVE Min({x}) = x
<1> DEFINE S == {x}
<1>1. S \in SUBSET Int /\ S # {} /\ \A y \in S : y = x
  OBVIOUS
<1>2. IsFiniteSet(S)
  BY FS_Singleton
<1> HIDE DEF S
<1>3. Min(S) \in S
  BY <1>1, <1>2, MinIn
<1>4. Min(S) = x
  BY <1>1, <1>3
<1> QED BY <1>4 DEF S

LEMMA FirstReader ==
  ASSUME NEW f, Readers(f) # {}
  PROVE  Min(Readers(f)) \in Readers(f) /\ Min(Readers(f)) \in Filps
<1> DEFINE S == Readers(f)
<1>1. S # {} /\ S \subseteq Filps
  BY DEF Readers, Open
<1> HIDE DEF S
<1>2. \A y \in S : y \in Int
  BY <1>1, Ranges
<1>3. S \in SUBSET Int
  BY <1>2
<1>4. IsFiniteSet(S)
  BY <1>1, Ranges, FS_Subset
<1>5. Min(S) \in S
  BY <1>1, <1>3, <1>4, MinIn
<1> QED BY <1>1, <1>5 DEF S

LEMMA NothingUnread ==
  ASSUME NEW f \in Tables, Listened(f), f.inode[Slot].data = <<>>
  PROVE  Unread(f) = <<>>
<1> DEFINE v == f.filp[Min(Readers(f))].pos
<1>1. Min(Readers(f)) \in Filps
  BY FirstReader DEF Listened
<1>2. v \in Nat
  BY <1>1, FilpTypes
<1>3. i_size(f, Slot) = 0
  BY DEF i_size
<1>4. Unread(f) = SubSeq(<<>>, v + 1, 0)
  BY <1>3 DEF Unread
<1> HIDE DEF v
<1>5. SubSeq(<<>>, v + 1, 0) = <<>>
  BY <1>2
<1> QED BY <1>4, <1>5

(* The one filp that a pipe is read from *)
LEMMA SoleReader ==
  ASSUME NEW f, Files(f), f.inode[Slot].num = "pipe", NEW x, x \in Readers(f)
  PROVE  /\ Readers(f) = {x} /\ x \in Filps /\ f.filp[x].mode = {"R"} /\ Listened(f)
         /\ f.filp[x].pos \in 0 .. i_size(f, Slot)
         /\ f.filp[x].pos >= i_size(f, Slot) => i_size(f, Slot) = 0
         /\ Unread(f) = SubSeq(f.inode[Slot].data, f.filp[x].pos + 1, i_size(f, Slot))
         /\ f.inode[Slot].data \in [1 .. i_size(f, Slot) -> Procs \cup {0}]
<1>0. f \in Tables /\ Slot \in Inodes /\ PipeEnds(f, Slot)
  BY SlotAssumption DEF Files, Pipes
<1>1. Readers(f) \subseteq Uses(f, Slot) /\ Uses(f, Slot) \subseteq Filps
      /\ \A y \in Readers(f) : "R" \in f.filp[y].mode
  BY DEF Readers, Open, Uses
<1>2. \A y \in Readers(f) : f.filp[y].mode = {"R"}
  <2>1. \A y \in Readers(f) : f.filp[y].mode # {"W"}
    BY <1>1
  <2> QED BY <1>0, <1>1, <2>1 DEF PipeEnds
<1>3. Readers(f) = {x} /\ x \in Filps /\ f.filp[x].mode = {"R"} /\ x \in Uses(f, Slot)
  <2>1. \A y, z \in Uses(f, Slot) : f.filp[y].mode = f.filp[z].mode => y = z
    BY <1>0 DEF PipeEnds
  <2>2. x \in Uses(f, Slot) /\ f.filp[x].mode = {"R"}
    BY <1>1, <1>2
  <2>3. ASSUME NEW y \in Readers(f) PROVE y = x
    <3>1. y \in Uses(f, Slot) /\ f.filp[y].mode = {"R"}
      BY <1>1, <1>2
    <3>2. f.filp[y].mode = f.filp[x].mode
      BY <2>2, <3>1
    <3> QED BY <2>1, <2>2, <3>1, <3>2
  <2> DEFINE S == Readers(f)
  <2>4. x \in S /\ \A y \in S : y = x
    BY <2>3
  <2> HIDE DEF S
  <2>5. S = {x}
    BY <2>4
  <2> QED BY <1>1, <2>2, <2>5 DEF S
<1>4. Listened(f)
  BY DEF Listened
<1>5. f.filp[x].pos \in Nat /\ i_size(f, Slot) \in Nat
  BY <1>0, <1>3, FilpTypes, SizeNat
<1>6. f.filp[x].pos < i_size(f, Slot) \/ (f.filp[x].pos = 0 /\ i_size(f, Slot) = 0)
  <2>1. f.filp[x].mode # {"W"}
    BY <1>1
  <2> QED BY <1>0, <1>3, <2>1 DEF PipeEnds
<1>7. Min(Readers(f)) = x
  <2>1. x \in Int
    BY <1>3, Ranges
  <2> QED BY <1>3, <2>1, MinOne
<1>8. Unread(f) = SubSeq(f.inode[Slot].data, f.filp[x].pos + 1, i_size(f, Slot))
  BY <1>4, <1>7 DEF Unread
<1>9. f.inode[Slot].data \in [1 .. i_size(f, Slot) -> Procs \cup {0}]
  <2>1. f.inode[Slot].data \in BoundedSeq(Procs \cup {0}, PIPE_SIZE)
    BY <1>0, Fields
  <2> QED BY <2>1, DataIs DEF i_size
<1>10. /\ f.filp[x].pos \in 0 .. i_size(f, Slot)
       /\ f.filp[x].pos >= i_size(f, Slot) => i_size(f, Slot) = 0
  BY <1>5, <1>6
<1> QED BY <1>3, <1>4, <1>8, <1>9, <1>10

(* The pipe, its readers and their position stay *)
Unmoved(f, g) ==
  /\ g.inode[Slot].num = f.inode[Slot].num /\ g.inode[Slot].data = f.inode[Slot].data
  /\ Readers(g) = Readers(f)
  /\ \A x \in Readers(f) : g.filp[x].pos = f.filp[x].pos

LEMMA UnmovedSame ==
  ASSUME NEW f, NEW g, f \in Tables, Unmoved(f, g)
  PROVE  Same(f, g)
<1>1. Listened(g) <=> Listened(f)
  BY DEF Unmoved, Listened
<1>2. CASE ~ Listened(f)
  BY <1>1, <1>2, Deaf
<1>3. CASE Listened(f)
  <2>1. Readers(f) # {} /\ Readers(f) \subseteq Filps
    BY <1>3 DEF Listened, Readers, Open
  <2>2. Min(Readers(f)) \in Readers(f)
    BY <2>1, FirstReader
  <2>3. g.filp[Min(Readers(g))].pos = f.filp[Min(Readers(f))].pos
    BY <2>2 DEF Unmoved
  <2>4. i_size(g, Slot) = i_size(f, Slot) /\ g.inode[Slot].data = f.inode[Slot].data
    BY DEF Unmoved, i_size
  <2>5. Unread(g) = Unread(f)
    BY <1>1, <1>3, <2>3, <2>4 DEF Unread
  <2> QED BY <1>1, <2>5 DEF Same
<1> QED BY <1>2, <1>3

-----------------------------------------------------------------------------
(* Steps that take nothing from a pipe that is still read *)

(* Pipes and filps are as they were, or given back *)
Shrunk(f, g) ==
  /\ \A j \in Inodes : g.inode[j].num # "none" =>
       g.inode[j].num = f.inode[j].num /\ g.inode[j].data = f.inode[j].data
  /\ \A y \in Filps : g.filp[y].ino # NIL =>
       /\ g.filp[y].mode = f.filp[y].mode /\ g.filp[y].pos = f.filp[y].pos
       /\ g.filp[y].ino = f.filp[y].ino

LEMMA ShrunkOn ==
  ASSUME NEW f, NEW g, NEW h, Shrunk(f, g), Shrunk(g, h)
  PROVE  Shrunk(f, h)
BY DEF Shrunk

LEMMA FilesShrunk ==
  ASSUME NEW f, NEW g, SameFiles(f, g)
  PROVE  Shrunk(f, g)
BY DEF SameFiles, Shrunk

LEMMA ShrunkShut ==
  ASSUME NEW f, NEW g, Files(f), Shrunk(f, g)
  PROVE  Shut(f, g)
<1>0. f \in Tables /\ Slot \in Inodes /\ NIL \notin Inodes
  BY SlotAssumption, Ranges DEF Files
<1>1. Readers(g) \subseteq Readers(f)
  BY <1>0 DEF Shrunk, Readers, Open
<1>2. g.inode[Slot].num = "pipe" =>
        f.inode[Slot].num = "pipe" /\ g.inode[Slot].data = f.inode[Slot].data
  BY <1>0 DEF Shrunk
<1>3. CASE ~ Listened(g)
  <2>1. CASE Listened(f)
    BY <1>3, <2>1 DEF Shut
  <2>2. CASE ~ Listened(f)
    BY <1>3, <2>2, Deaf DEF Shut
  <2> QED BY <2>1, <2>2
<1>4. CASE Listened(g)
  <2>1. g.inode[Slot].num = "pipe" /\ Readers(g) # {} /\ f.inode[Slot].num = "pipe"
    BY <1>2, <1>4 DEF Listened
  <2>2. PICK x : x \in Readers(g)
    BY <2>1
  <2>3. x \in Readers(f)
    BY <1>1, <2>2
  <2>4. Readers(f) = {x}
    BY <2>1, <2>3, SoleReader
  <2>5. Readers(g) = Readers(f)
    BY <1>1, <2>2, <2>4
  <2>6. \A y \in Readers(f) : g.filp[y].pos = f.filp[y].pos
    BY <1>0, <2>5 DEF Shrunk, Readers, Open
  <2>7. Unmoved(f, g)
    BY <1>2, <2>1, <2>5, <2>6 DEF Unmoved
  <2>8. Same(f, g)
    BY <1>0, <2>7, UnmovedSame
  <2> QED BY <2>8 DEF Shut
<1> QED BY <1>3, <1>4

(* Only counts and flags of filps, and descriptors, are changed *)
Kept(f, g) ==
  /\ g.inode = f.inode
  /\ \A x \in Filps : /\ g.filp[x].mode = f.filp[x].mode /\ g.filp[x].pos = f.filp[x].pos
                      /\ g.filp[x].ino = f.filp[x].ino

LEMMA KeptSame ==
  ASSUME NEW f, NEW g, f \in Tables, Kept(f, g)
  PROVE  Same(f, g)
<1>1. Readers(g) = Readers(f) /\ \A x \in Readers(f) : x \in Filps
  BY DEF Kept, Readers, Open
<1>2. Unmoved(f, g)
  BY <1>1 DEF Kept, Unmoved
<1> QED BY <1>2, UnmovedSame

(* What is done for processes, of any tables *)
LEMMA ProcsOnly ==
  ASSUME NEW f \in Tables, NEW p \in Procs
  PROVE  /\ \A new \in SUBSET Fds : SameFiles(f, reply(f, p, new)) /\ reply(f, p, new) \in Tables
         /\ \A c \in Hung : SameFiles(f, suspend(f, p, c)) /\ suspend(f, p, c) \in Tables
         /\ SameFiles(f, do_unpause(f, p))
         /\ SameFiles(f, [f EXCEPT !.at[p] = "free"])
<1>1. ASSUME NEW g \in Tables, NEW new \in SUBSET Fds
      PROVE  SameFiles(g, reply(g, p, new)) /\ reply(g, p, new) \in Tables
  BY <1>1, ReplyDoes DEF Replied
<1>2. ASSUME NEW c \in Hung PROVE SameFiles(f, suspend(f, p, c)) /\ suspend(f, p, c) \in Tables
  BY <1>2, SuspendDoes DEF Asleep
<1>3. SameFiles(f, do_unpause(f, p))
  <2> DEFINE g == [f EXCEPT !.hung[p] = NoCall]
  <2>1. g \in Tables /\ SameFiles(f, g)
    BY Calls DEF Tables, SameFiles
  <2> HIDE DEF g
  <2>2. {} \in SUBSET Fds
    OBVIOUS
  <2>3. SameFiles(g, reply(g, p, {}))
    BY <1>1, <2>1, <2>2
  <2>4. do_unpause(f, p) = reply(g, p, {}) \/ do_unpause(f, p) = f
    BY DEF do_unpause, g
  <2>5. SameFiles(f, f)
    BY DEF SameFiles
  <2>6. SameFiles(f, reply(g, p, {}))
    BY <2>1, <2>3 DEF SameFiles
  <2> QED BY <2>4, <2>5, <2>6
<1>4. SameFiles(f, [f EXCEPT !.at[p] = "free"])
  BY DEF Tables, SameFiles
<1> QED BY <1>1, <1>2, <1>3, <1>4

LEMMA ReleaseFiles ==
  ASSUME NEW f \in Tables, NEW i, NEW c \in {"READ", "WRITE"} \cup Waits
  PROVE  /\ \A n \in Int : SameFiles(f, release(f, i, c, n)) /\ release(f, i, c, n) \in Tables
         /\ SameFiles(f, releaseIfCounted(f, i, c)) /\ releaseIfCounted(f, i, c) \in Tables
<1>1. ASSUME NEW n \in Int PROVE SameFiles(f, release(f, i, c, n)) /\ release(f, i, c, n) \in Tables
  <2>1. PICK first : Released(f, release(f, i, c, n), i, c, first)
    BY ReleaseDoes
  <2> QED BY <2>1 DEF Released
<1>2. SameFiles(f, releaseIfCounted(f, i, c)) /\ releaseIfCounted(f, i, c) \in Tables
  <2>1. f.susp_count \in Int
    BY Fields
  <2>2. SameFiles(f, release(f, i, c, f.susp_count)) /\ release(f, i, c, f.susp_count) \in Tables
    BY <1>1, <2>1
  <2>3. SameFiles(f, f)
    BY DEF SameFiles
  <2> QED BY <2>2, <2>3 DEF releaseIfCounted
<1> QED BY <1>1, <1>2

-----------------------------------------------------------------------------
(* Calls that copy or give back descriptors *)

LEMMA FcntlSame ==
  ASSUME NEW f \in Tables, NEW p \in Procs, NEW d \in Fds, NEW nonblock \in BOOLEAN
  PROVE  Same(f, do_fcntl(f, p, d, nonblock))
<1>1. f.filp \in [Filps -> [mode : Modes \cup {{}}, count : Nat, pos : Nat,
                            ino : Inodes \cup {NIL}, nonblock : BOOLEAN]]
  BY Fields
<1>2. Kept(f, do_fcntl(f, p, d, nonblock))
  <2>1. CASE f.fd[p][d] = NIL
    BY <2>1 DEF do_fcntl, Kept
  <2>2. CASE f.fd[p][d] # NIL
    <3> DEFINE filp == [f.filp EXCEPT ![f.fd[p][d]].nonblock = nonblock]
    <3>1. \A x \in Filps : /\ filp[x].mode = f.filp[x].mode /\ filp[x].pos = f.filp[x].pos
                           /\ filp[x].ino = f.filp[x].ino
      BY <1>1
    <3>2. do_fcntl(f, p, d, nonblock) = [f EXCEPT !.filp = filp]
      BY <2>2 DEF do_fcntl
    <3> HIDE DEF filp
    <3> QED BY <3>1, <3>2 DEF Tables, Kept
  <2> QED BY <2>1, <2>2
<1> QED BY <1>2, KeptSame

LEMMA DupToSame ==
  ASSUME NEW f \in Tables, NEW p \in Procs, NEW d, NEW b \in Fds,
         f.fd[p][d] \in Filps
  PROVE  Same(f, DupTo(f, p, d, b))
<1> DEFINE x    == f.fd[p][d]
           fd   == [f.fd EXCEPT ![p][b] = x]
           filp == [f.filp EXCEPT ![x].count = @ + 1]
           g    == [f EXCEPT !.fd = fd, !.filp = filp]
<1> HIDE DEF x
<1>1. /\ f.filp \in [Filps -> [mode : Modes \cup {{}}, count : Nat, pos : Nat,
                               ino : Inodes \cup {NIL}, nonblock : BOOLEAN]]
      /\ f.fd \in [Procs -> [Fds -> Filps \cup {NIL}]] /\ x \in Filps
  BY Fields DEF x
<1>2. fd \in [Procs -> [Fds -> Filps \cup {NIL}]]
  BY <1>1
<1>3. filp \in [Filps -> [mode : Modes \cup {{}}, count : Nat, pos : Nat,
                          ino : Inodes \cup {NIL}, nonblock : BOOLEAN]]
  BY <1>1
<1>4. \A y \in Filps : /\ filp[y].mode = f.filp[y].mode /\ filp[y].pos = f.filp[y].pos
                       /\ filp[y].ino = f.filp[y].ino
  BY <1>1
<1>5. DupTo(f, p, d, b) = reply(g, p, {b})
  BY DEF DupTo, x
<1> HIDE DEF fd, filp
<1>6. g \in Tables /\ g.inode = f.inode /\ g.filp = filp
  BY <1>2, <1>3 DEF Tables
<1> HIDE DEF g
<1>7. Same(f, g)
  <2>1. Kept(f, g)
    BY <1>4, <1>6 DEF Kept
  <2> QED BY <2>1, KeptSame
<1>8. Same(g, reply(g, p, {b}))
  <2>1. {b} \in SUBSET Fds
    OBVIOUS
  <2>2. SameFiles(g, reply(g, p, {b}))
    BY <1>6, <2>1, ProcsOnly
  <2> QED BY <2>2, FilesSame
<1> QED BY <1>5, <1>7, <1>8, MovedOn

LEMMA DupSame ==
  ASSUME NEW f \in Tables, NEW p \in Procs, NEW d \in Fds
  PROVE  Same(f, do_dup(f, p, d))
<1>1. CASE f.fd[p][d] = NIL \/ ~ get_fd(f, p)
  BY <1>1 DEF do_dup, Same
<1>2. CASE f.fd[p][d] # NIL /\ get_fd(f, p)
  <2> DEFINE b == Min(FreeFds(f, p))
  <2>1. b \in Fds
    BY <1>2, FreeSlots DEF get_fd
  <2>2. do_dup(f, p, d) = DupTo(f, p, d, b)
    BY <1>2 DEF do_dup
  <2> HIDE DEF b
  <2>3. f.fd[p][d] \in Filps
    BY <1>2, Fields
  <2> QED BY <2>1, <2>2, <2>3, DupToSame
<1> QED BY <1>1, <1>2

LEMMA ForkSame ==
  ASSUME NEW f \in Tables, NEW p \in Procs, NEW c \in Procs
  PROVE  Same(f, do_fork(f, p, c))
<1> DEFINE filp == [x \in Filps |-> [f.filp[x] EXCEPT
                      !.count = @ + Cardinality({d \in Fds : f.fd[p][d] = x})]]
<1>1. f.filp \in [Filps -> [mode : Modes \cup {{}}, count : Nat, pos : Nat,
                            ino : Inodes \cup {NIL}, nonblock : BOOLEAN]]
  BY Fields
<1>2. \A x \in Filps : /\ filp[x].mode = f.filp[x].mode /\ filp[x].pos = f.filp[x].pos
                       /\ filp[x].ino = f.filp[x].ino
  BY <1>1
<1>3. do_fork(f, p, c) = [f EXCEPT !.at[c] = "runs", !.knows[c] = f.knows[p],
                                   !.fd[c] = f.fd[p], !.filp = filp]
  BY DEF do_fork
<1> HIDE DEF filp
<1>4. Kept(f, do_fork(f, p, c))
  BY <1>2, <1>3 DEF Tables, Kept
<1> QED BY <1>4, KeptSame

LEMMA CloseShrinks ==
  ASSUME NEW f \in Tables, NEW p \in Procs, NEW d \in Fds
  PROVE  Shrunk(f, do_close(f, p, d))
<1> DEFINE x == f.fd[p][d]
           i == f.filp[x].ino
           c == IF "R" \in f.filp[x].mode THEN "WRITE" ELSE "READ"
           g == IF f.inode[i].i_pipe THEN release(f, i, c, NR_PROCS) ELSE f
           n == f.filp[x].count
           inode == [g.inode EXCEPT ![i] = IF @.count = 1 THEN FreeInode
                                           ELSE [g.inode[i] EXCEPT !.count = @ - 1]]
           filp  == IF n = 1 THEN [g.filp EXCEPT ![x] = FreeFilp]
                             ELSE [g.filp EXCEPT ![x].count = @ - 1]
           t     == GiveUp(g, p, d, x, i, n)
<1>1. CASE x = NIL
  BY <1>1, CloseIs DEF Shrunk
<1>2. CASE x # NIL
  <2>1. do_close(f, p, d) = t
    BY <1>2, CloseIs
  <2>2. g \in Tables /\ SameFiles(f, g)
    <3>1. c \in {"READ", "WRITE"} \cup Waits /\ NR_PROCS \in Int
      BY FsAssumption
    <3> HIDE DEF c
    <3>2. SameFiles(f, release(f, i, c, NR_PROCS)) /\ release(f, i, c, NR_PROCS) \in Tables
      BY <3>1, ReleaseFiles
    <3>3. SameFiles(f, f)
      BY DEF SameFiles
    <3> QED BY <3>2, <3>3
  <2> HIDE DEF x, i, n, g
  <2>3. t.filp = filp /\ t.inode = IF n = 1 THEN inode ELSE g.inode
    BY <2>2 DEF Tables, GiveUp, put_inode
  <2> HIDE DEF t
  <2>4. /\ g.filp \in [Filps -> [mode : Modes \cup {{}}, count : Nat, pos : Nat,
                                 ino : Inodes \cup {NIL}, nonblock : BOOLEAN]]
        /\ g.inode \in [Inodes -> [num : {"none", "pipe", "fifo"}, count : Nat, i_pipe : BOOLEAN,
                                   data : BoundedSeq(Procs \cup {0}, PIPE_SIZE)]]
    BY <2>2, Fields
  <2>5. \A j \in Inodes : inode[j].num # "none" =>
          inode[j].num = g.inode[j].num /\ inode[j].data = g.inode[j].data
    BY <2>4, FreeIs
  <2>6. \A y \in Filps : filp[y].ino # NIL =>
          /\ filp[y].mode = g.filp[y].mode /\ filp[y].pos = g.filp[y].pos
          /\ filp[y].ino = g.filp[y].ino
    BY <2>4, FreeIs
  <2> HIDE DEF inode, filp
  <2>7. Shrunk(g, t)
    BY <2>3, <2>5, <2>6 DEF Shrunk
  <2>8. Shrunk(f, g)
    BY <2>2, FilesShrunk
  <2> QED BY <2>1, <2>7, <2>8, ShrunkOn
<1> QED BY <1>1, <1>2

LEMMA Dup2Shut ==
  ASSUME NEW f, NEW e, NEW p \in Procs, Good(f, e, NIL), f.at[p] = "runs",
         NEW d \in Fds, NEW b \in Fds
  PROVE  Shut(f, do_dup2(f, p, d, b))
<1>0. f \in Tables /\ Files(f) /\ ~ Suspended(f, p)
  BY RunsServed DEF Good, Files
<1>1. CASE f.fd[p][d] = NIL \/ d = b
  BY <1>1 DEF do_dup2, Shut, Same
<1>2. CASE f.fd[p][d] # NIL /\ d # b
  <2> DEFINE t == do_close(f, p, b)
             w == NIL
  <2>1. do_dup2(f, p, d, b) = DupTo(t, p, d, b) /\ Good(f, e, w)
    BY <1>2 DEF do_dup2
  <2>2. Shut(f, t)
    <3>1. Shrunk(f, t)
      BY <1>0, CloseShrinks
    <3> QED BY <1>0, <3>1, ShrunkShut
  <2>t. t = do_close(f, p, b)
    OBVIOUS
  <2> HIDE DEF t, w
  <2>3. Good(t, e, w) /\ t.fd[p][d] = f.fd[p][d]
    <3>1. /\ Good(t, e, w) /\ ~ Suspended(t, p) /\ t.at[p] = f.at[p]
          /\ t.fd[p][b] = NIL /\ \A k \in Fds : k # b => t.fd[p][k] = f.fd[p][k]
      BY <1>0, <2>1, <2>t, CloseGood
    <3> QED BY <1>2, <3>1
  <2>4. t \in Tables
    BY <2>3 DEF Good, Files
  <2>5. t.fd[p][d] \in Filps
    BY <1>0, <1>2, <2>3, Fields
  <2>6. Same(t, DupTo(t, p, d, b))
    BY <2>4, <2>5, DupToSame
  <2> QED BY <2>1, <2>2, <2>6, MovedOn
<1> QED BY <1>1, <1>2

LEMMA ClosesShrink ==
  ASSUME NEW g, NEW e, NEW w, NEW p \in Procs, Good(g, e, w), ~ Suspended(g, p),
         NEW h, Closes(g, p, h, OPEN_MAX)
  PROVE  Shrunk(g, h[OPEN_MAX])
<1> DEFINE Done(n) == Good(h[n], e, w) /\ ~ Suspended(h[n], p) /\ Shrunk(g, h[n])
           S == {n \in 0 .. OPEN_MAX : ~ Done(n)}
<1>0. OPEN_MAX \in Nat /\ Fds = 0 .. OPEN_MAX - 1
  BY FsAssumption DEF Fds
<1>1. \A n \in 0 .. OPEN_MAX : h[n] = IF n = 0 THEN g ELSE do_close(h[n - 1], p, n - 1)
  BY DEF Closes
<1>2. SUFFICES ASSUME S # {} PROVE FALSE
  <2>1. OPEN_MAX \in 0 .. OPEN_MAX
    BY <1>0
  <2>2. S = {} => Done(OPEN_MAX)
    <3> HIDE DEF Done
    <3> QED BY <2>1
  <2> QED BY <2>1, <2>2
<1>3. PICK m \in S : \A k \in S : m <= k
  <2>1. S \in SUBSET (0 .. OPEN_MAX)
    OBVIOUS
  <2>2. IsFiniteSet(0 .. OPEN_MAX) /\ 0 .. OPEN_MAX \subseteq Int
    BY <1>0, FS_Interval
  <2> HIDE DEF S
  <2>3. S \in SUBSET Int /\ IsFiniteSet(S)
    BY <2>1, <2>2, FS_Subset
  <2> QED BY <1>2, <2>3, Bottom
<1>4. m \in 0 .. OPEN_MAX /\ ~ Done(m)
  OBVIOUS
<1>5. m # 0
  <2>1. h[0] = g
    BY <1>0, <1>1
  <2>2. Shrunk(g, g)
    BY DEF Shrunk
  <2>3. Done(0)
    BY <2>1, <2>2
  <2> HIDE DEF Done
  <2> QED BY <1>4, <2>3
<1>6. m - 1 \in 0 .. OPEN_MAX /\ m - 1 \in Fds /\ m \in Nat
  BY <1>0, <1>4, <1>5
<1>7. Done(m - 1)
  <2>1. ~ (m <= m - 1)
    BY <1>6
  <2>2. m - 1 \notin S
    BY <1>3, <2>1
  <2> HIDE DEF Done
  <2> QED BY <1>6, <2>2
<1> HIDE DEF S
<1>8. h[m] = do_close(h[m - 1], p, m - 1)
  BY <1>1, <1>4, <1>5
<1>9. /\ Good(h[m], e, w) /\ ~ Suspended(h[m], p) /\ h[m].at[p] = h[m - 1].at[p]
      /\ h[m].fd[p][m - 1] = NIL
      /\ \A k \in Fds : k # m - 1 => h[m].fd[p][k] = h[m - 1].fd[p][k]
  BY <1>6, <1>7, <1>8, CloseGood
<1>10. Shrunk(g, h[m])
  <2>1. h[m - 1] \in Tables
    BY <1>7 DEF Good, Files
  <2>2. Shrunk(h[m - 1], h[m])
    BY <1>6, <1>8, <2>1, CloseShrinks
  <2>3. Shrunk(g, h[m - 1])
    BY <1>7
  <2> QED BY <2>2, <2>3, ShrunkOn
<1>11. Done(m)
  BY <1>9, <1>10
<1> QED BY <1>4, <1>11

LEMMA ExitShut ==
  ASSUME NEW f, NEW e \in Procs, Good(f, e, NIL), f.reviving = 0
  PROVE  Shut(f, do_exit(f, e))
<1> DEFINE g == ExitFrom(f, e)
<1>1. Good(g, e, NIL) /\ ~ Suspended(g, e) /\ SameFiles(f, g)
  BY ExitStarts
<1>2. PICK h : Closes(g, e, h, OPEN_MAX) /\ do_exit(f, e) = h[OPEN_MAX]
  BY ExitIs DEF ExitFrom
<1> DEFINE w == NIL
<1>3. Good(g, e, w)
  BY <1>1
<1> HIDE DEF g, w
<1>4. Shrunk(g, h[OPEN_MAX])
  BY <1>1, <1>2, <1>3, ClosesShrink
<1>5. Shrunk(f, h[OPEN_MAX])
  <2>1. Shrunk(f, g)
    BY <1>1, FilesShrunk
  <2> QED BY <1>4, <2>1, ShrunkOn
<1>6. Shut(f, h[OPEN_MAX])
  <2>1. Files(f)
    BY DEF Good
  <2> QED BY <1>5, <2>1, ShrunkShut
<1> QED BY <1>2, <1>6

-----------------------------------------------------------------------------
(* read() *)

LEMMA NoDataSame ==
  ASSUME NEW f \in Tables, NEW p \in Procs, NEW c \in Hung, NEW i
  PROVE  Same(f, NoData(f, p, c, i))
<1>0. {} \in SUBSET Fds /\ "WRITE" \in {"READ", "WRITE"} \cup Waits
  OBVIOUS
<1> DEFINE g == IF Filp(f, p, c.fd).nonblock THEN reply(f, p, {}) ELSE suspend(f, p, c)
<1>1. SameFiles(f, reply(f, p, {})) /\ reply(f, p, {}) \in Tables
  BY <1>0, ProcsOnly
<1>2. SameFiles(f, suspend(f, p, c)) /\ suspend(f, p, c) \in Tables
  BY ProcsOnly
<1>3. SameFiles(f, g) /\ g \in Tables
  BY <1>1, <1>2
<1>4. NoData(f, p, c, i) = IF find_filp(f, i, "W") = NIL THEN reply(f, p, {})
                           ELSE releaseIfCounted(g, i, "WRITE")
  BY DEF NoData
<1> HIDE DEF g
<1>5. SameFiles(g, releaseIfCounted(g, i, "WRITE"))
  BY <1>0, <1>3, ReleaseFiles
<1>6. SameFiles(f, releaseIfCounted(g, i, "WRITE"))
  BY <1>3, <1>5 DEF SameFiles
<1>7. SameFiles(f, NoData(f, p, c, i))
  BY <1>1, <1>4, <1>6
<1> QED BY <1>7, FilesSame

(* Where the pipe of another inode is worked on *)
LEMMA Elsewhere ==
  ASSUME NEW f, NEW g, f \in Tables, Shape(f, g), NEW i, i # Slot,
         \A j \in Inodes : j # i => g.inode[j] = f.inode[j],
         \A y \in Filps : f.filp[y].ino # i => g.filp[y].pos = f.filp[y].pos
  PROVE  Same(f, g)
<1>1. Readers(g) = Readers(f)
  BY ShapeSets DEF Readers
<1>2. \A x \in Readers(f) : x \in Filps /\ f.filp[x].ino = Slot
  BY DEF Readers, Open
<1>3. g.inode[Slot] = f.inode[Slot]
  BY SlotAssumption
<1>4. Unmoved(f, g)
  BY <1>1, <1>2, <1>3 DEF Unmoved
<1> QED BY <1>4, UnmovedSame

(* Positions and data of the pipe change: it is listened to as before *)
LEMMA ShapeListened ==
  ASSUME NEW f, NEW g, f \in Tables, Shape(f, g)
  PROVE  Readers(g) = Readers(f) /\ (Listened(g) <=> Listened(f))
<1>1. Readers(g) = Readers(f)
  BY ShapeSets DEF Readers
<1> QED BY <1>1, SlotAssumption DEF Listened, Shape

(* All bytes are read *)
LEMMA EmptiedMoved ==
  ASSUME NEW f, Files(f), NEW x \in Filps, NEW i \in Inodes, i = f.filp[x].ino,
         f.filp[x].count # 0, "R" \in f.filp[x].mode, f.filp[x].pos < i_size(f, i)
  PROVE  Moved(f, Emptied(f, x, i))
<1>0. f \in Tables
  BY DEF Files
<1> DEFINE w == find_filp(f, i, "W")
           g == Emptied(f, x, i)
<1>1. /\ g \in Tables /\ Shape(f, g) /\ FreeSame(f, g)
      /\ i_size(g, i) = 0 /\ \A j \in Inodes : j # i => g.inode[j] = f.inode[j]
      /\ x \in Uses(f, i)
      /\ w = NIL => \A y \in Uses(f, i) : "W" \notin f.filp[y].mode
      /\ w # NIL => w \in Open(f, i, "W") /\ w \in Filps /\ w \in Uses(f, i)
      /\ g.filp[x].pos = 0 /\ (w # NIL => g.filp[w].pos = 0)
      /\ \A y \in Filps : y # x /\ y # w => g.filp[y] = f.filp[y]
  BY EmptiedDoes
<1> HIDE DEF g, w
<1>2. CASE i # Slot
  <2>1. \A y \in Filps : f.filp[y].ino # i => g.filp[y].pos = f.filp[y].pos
    <3>1. \A y \in Filps : f.filp[y].ino # i => y # x /\ y # w
      BY <1>0, <1>1, Ranges DEF Uses
    <3> QED BY <1>1, <3>1
  <2>2. Same(f, g)
    BY <1>0, <1>1, <1>2, <2>1, Elsewhere
  <2> QED BY <2>2 DEF Moved, Shut, g
<1>3. CASE i = Slot
  <2>1. Listened(g) <=> Listened(f)
    BY <1>0, <1>1, ShapeListened
  <2>2. CASE ~ Listened(f)
    <3>1. Same(f, g)
      BY <2>1, <2>2, Deaf
    <3> QED BY <3>1 DEF Moved, Shut, g
  <2>3. CASE Listened(f)
    <3>1. x \in Readers(f)
      BY <1>3 DEF Readers, Open
    <3>2. f.inode[Slot].num = "pipe"
      BY <2>3 DEF Listened
    <3>3. /\ Unread(f) = SubSeq(f.inode[Slot].data, f.filp[x].pos + 1, i_size(f, Slot))
          /\ f.filp[x].pos \in 0 .. i_size(f, Slot)
          /\ f.inode[Slot].data \in [1 .. i_size(f, Slot) -> Procs \cup {0}]
      BY <3>1, <3>2, SoleReader
    <3>4. i_size(f, Slot) \in Nat
      BY <1>0, SizeNat, SlotAssumption
    <3> DEFINE u == Unread(f)
               m == i_size(f, Slot)
               k == f.filp[x].pos
               s == f.inode[Slot].data
    <3>5. /\ u \in Seq(Procs \cup {0}) /\ Len(u) = m - k /\ m - k \in Nat /\ m - k >= 1
      <4>1. SubSeq(s, k + 1, m) \in Seq(Procs \cup {0}) /\ Len(SubSeq(s, k + 1, m)) = m - k
            /\ \A j \in 1 .. m - k : SubSeq(s, k + 1, m)[j] = s[k + j]
        <5>1. m \in Nat /\ k \in 0 .. m /\ s \in [1 .. m -> Procs \cup {0}]
          BY <3>3, <3>4
        <5> HIDE DEF m, k, s
        <5> QED BY <5>1, RestIs
      <4>2. m \in Nat /\ k \in 0 .. m /\ k < m
        BY <1>3, <3>3, <3>4
      <4>3. u = SubSeq(s, k + 1, m)
        BY <3>3
      <4> HIDE DEF u, m, k, s
      <4> QED BY <4>1, <4>2, <4>3
    <3>6. Unread(g) = <<>>
      <4>1. g.inode[Slot].data = <<>>
        BY <1>1, <1>3, SizeType, SlotAssumption
      <4> QED BY <1>1, <2>1, <2>3, <4>1, NothingUnread
    <3>7. \E n \in 1 .. Len(u) : <<>> = SubSeq(u, n + 1, Len(u))
      <4> HIDE DEF u, m, k
      <4>1. Len(u) \in 1 .. Len(u)
        BY <3>5
      <4>2. SubSeq(u, Len(u) + 1, Len(u)) = <<>>
        BY <3>5
      <4> QED BY <4>1, <4>2
    <3> QED BY <2>1, <2>3, <3>6, <3>7 DEF Moved, g
  <2> QED BY <2>2, <2>3
<1> QED BY <1>2, <1>3

(* n bytes are read *)
LEMMA TakenMoved ==
  ASSUME NEW f, Files(f), NEW x \in Filps, NEW i, i = f.filp[x].ino,
         f.filp[x].count # 0, "R" \in f.filp[x].mode, NEW n \in Nat,
         f.inode[i].num = "pipe" => f.filp[x].pos + n <= i_size(f, i)
  PROVE  Moved(f, [f EXCEPT !.filp[x].pos = f.filp[x].pos + n])
<1> DEFINE k == f.filp[x].pos
           v == k + n
           g == [f EXCEPT !.filp[x].pos = v]
<1>0. f \in Tables /\ k \in Nat /\ v \in Nat
  <2>1. f \in Tables
    BY DEF Files
  <2> QED BY <2>1, FilpTypes
<1>1. /\ g \in Tables /\ Shape(f, g) /\ FreeSame(f, g) /\ g.inode = f.inode
      /\ g.filp[x].pos = v /\ \A y \in Filps : y # x => g.filp[y] = f.filp[y]
  <2> HIDE DEF v
  <2> QED BY <1>0, SetPos
<1>g. g = [f EXCEPT !.filp[x].pos = f.filp[x].pos + n]
  OBVIOUS
<1>v. v = k + n /\ k = f.filp[x].pos
  OBVIOUS
<1> HIDE DEF g, k, v
<1>2. CASE i # Slot
  <2>1. \A y \in Filps : f.filp[y].ino # i => g.filp[y].pos = f.filp[y].pos
    BY <1>1
  <2>2. Same(f, g)
    BY <1>0, <1>1, <1>2, <2>1, Elsewhere
  <2> QED BY <1>g, <2>2 DEF Moved, Shut
<1>3. CASE i = Slot
  <2>1. (Listened(g) <=> Listened(f)) /\ Readers(g) = Readers(f)
    BY <1>0, <1>1, ShapeListened
  <2>2. CASE ~ Listened(f)
    <3>1. Same(f, g)
      BY <2>1, <2>2, Deaf
    <3> QED BY <1>g, <3>1 DEF Moved, Shut
  <2>3. CASE Listened(f)
    <3>1. x \in Readers(f)
      BY <1>3 DEF Readers, Open
    <3>2. f.inode[Slot].num = "pipe"
      BY <2>3 DEF Listened
    <3>3. /\ Unread(f) = SubSeq(f.inode[Slot].data, f.filp[x].pos + 1, i_size(f, Slot))
          /\ f.filp[x].pos \in 0 .. i_size(f, Slot) /\ Readers(f) = {x}
          /\ f.inode[Slot].data \in [1 .. i_size(f, Slot) -> Procs \cup {0}]
      BY <3>1, <3>2, SoleReader
    <3>4. i_size(f, Slot) \in Nat
      BY <1>0, SizeNat, SlotAssumption
    <3> DEFINE u == Unread(f)
               m == i_size(f, Slot)
               s == f.inode[Slot].data
    <3>5. m \in Nat /\ k \in 0 .. m /\ s \in [1 .. m -> Procs \cup {0}] /\ n \in 0 .. m - k
          /\ u = SubSeq(s, k + 1, m)
      <4>1. k + n <= m /\ m \in Nat /\ k \in 0 .. m
        BY <1>3, <1>v, <3>2, <3>3, <3>4
      <4>2. n \in 0 .. m - k
        <5> HIDE DEF m
        <5> QED BY <4>1
      <4> QED BY <1>v, <3>3, <4>1, <4>2
    <3>6. Unread(g) = SubSeq(s, k + n + 1, m)
      <4>1. Min({x}) = x
        <5>1. x \in Int
          BY <3>3, Ranges
        <5> QED BY <5>1, MinOne
      <4>2. g.filp[Min(Readers(g))].pos = v
        BY <1>1, <2>1, <3>3, <4>1
      <4>3. Unread(g) = SubSeq(s, v + 1, m)
        BY <1>1, <2>1, <2>3, <4>2 DEF Unread, i_size
      <4> QED BY <1>v, <4>3
    <3> HIDE DEF u, m, s
    <3>7. u \in Seq(Procs \cup {0}) /\ Len(u) = m - k
      <4>1. SubSeq(s, k + 1, m) \in Seq(Procs \cup {0}) /\ Len(SubSeq(s, k + 1, m)) = m - k
            /\ \A j \in 1 .. m - k : SubSeq(s, k + 1, m)[j] = s[k + j]
        BY <3>5, RestIs
      <4> QED BY <3>5, <4>1
    <3>8. SubSeq(s, k + n + 1, m) = SubSeq(u, n + 1, Len(u))
      <4>1. SubSeq(s, k + n + 1, m) = SubSeq(SubSeq(s, k + 1, m), n + 1, Len(SubSeq(s, k + 1, m)))
        BY <3>5, TakenRest
      <4> QED BY <3>5, <4>1
    <3>9. CASE n = 0
      <4>1. Unread(g) = u
        <5>1. k + n + 1 = k + 1
          BY <1>0, <3>9
        <5> QED BY <3>5, <3>6, <5>1
      <4> QED BY <1>g, <2>1, <4>1 DEF Moved, Shut, Same, u
    <3>10. CASE n # 0
      <4>1. n \in 1 .. Len(u)
        BY <3>5, <3>7, <3>10
      <4> QED BY <1>g, <2>1, <2>3, <3>6, <3>8, <4>1 DEF Moved, u
    <3> QED BY <3>9, <3>10
  <2> QED BY <2>2, <2>3
<1> QED BY <1>2, <1>3

(* What read() asks for, and what it gets *)
LEMMA GetsSome ==
  ASSUME NEW pos \in Nat, NEW size \in Nat, NEW n \in Nat, NEW got, got = Min({n, size - pos})
  PROVE  /\ Max({got, 0}) \in Nat
         /\ pos < size => pos + Max({got, 0}) <= size
<1>1. size - pos \in Int /\ n \in Int
  OBVIOUS
<1>2. got = IF n <= size - pos THEN n ELSE size - pos
  <2> DEFINE a == size - pos
  <2>1. a \in Int /\ n \in Int
    BY <1>1
  <2> HIDE DEF a
  <2>2. Min({n, a}) = IF n <= a THEN n ELSE a
    BY <2>1, MinOf
  <2> QED BY <2>2 DEF a
<1>3. got \in Int /\ 0 \in Int
  BY <1>1, <1>2
<1>4. Max({got, 0}) = IF got >= 0 THEN got ELSE 0
  BY <1>3, MaxOf
<1> QED BY <1>2, <1>3, <1>4

LEMMA ReadMoved ==
  ASSUME NEW f, NEW e, NEW p \in Procs, Good(f, e, p), NEW c \in Hung
  PROVE  Moved(f, do_read(f, p, c))
<1>0. c.fd \in Fds /\ c.n \in Nat /\ Files(f) /\ {} \in SUBSET Fds /\ f \in Tables
  BY DEF Hung, Good, Files
<1> DEFINE x   == f.fd[p][c.fd]
           i   == f.filp[x].ino
           got == Min({c.n, i_size(f, i) - f.filp[x].pos})
           n   == Max({got, 0})
           h   == IF f.inode[i].i_pipe /\ f.filp[x].pos + got = i_size(f, i) THEN Emptied(f, x, i)
                  ELSE [f EXCEPT !.filp[x].pos = f.filp[x].pos + n]
<1>d. do_read(f, p, c) =
        IF x = NIL \/ "R" \notin f.filp[x].mode THEN reply(f, p, {})
        ELSE IF f.inode[i].i_pipe /\ f.filp[x].pos >= i_size(f, i) THEN NoData(f, p, c, i)
        ELSE reply(h, p, {})
  BY DEF do_read
<1>x. f.fd[p][c.fd] = x /\ f.filp[x].ino = i
  OBVIOUS
<1>n. got = Min({c.n, i_size(f, i) - f.filp[x].pos}) /\ n = Max({got, 0})
  OBVIOUS
<1>h. h = IF f.inode[i].i_pipe /\ f.filp[x].pos + got = i_size(f, i) THEN Emptied(f, x, i)
          ELSE [f EXCEPT !.filp[x].pos = f.filp[x].pos + n]
  OBVIOUS
<1> HIDE DEF x, i, got, n, h
<1>1. CASE x = NIL \/ "R" \notin f.filp[x].mode
  <2>1. do_read(f, p, c) = reply(f, p, {})
    BY <1>1, <1>d
  <2>2. SameFiles(f, reply(f, p, {}))
    BY <1>0, ProcsOnly
  <2> QED BY <2>1, <2>2, FilesSame DEF Moved, Shut
<1>2. CASE /\ x # NIL /\ "R" \in f.filp[x].mode
           /\ f.inode[i].i_pipe /\ f.filp[x].pos >= i_size(f, i)
  <2>1. do_read(f, p, c) = NoData(f, p, c, i)
    BY <1>2, <1>d
  <2>2. Same(f, NoData(f, p, c, i))
    BY <1>0, NoDataSame
  <2> QED BY <2>1, <2>2 DEF Moved, Shut
<1>3. CASE /\ x # NIL /\ "R" \in f.filp[x].mode
           /\ ~ (f.inode[i].i_pipe /\ f.filp[x].pos >= i_size(f, i))
  <2>1. do_read(f, p, c) = reply(h, p, {})
    BY <1>3, <1>d, SMTT(30)
  <2>2. x \in Filps /\ f.filp[x].count # 0 /\ i \in Inodes
    BY <1>0, <1>3, <1>x, InUse
  <2>3. f.filp[x].pos \in Nat /\ i_size(f, i) \in Nat
    BY <1>0, <2>2, FilpTypes, SizeNat
  <2>4. n \in Nat /\ (f.filp[x].pos < i_size(f, i) => f.filp[x].pos + n <= i_size(f, i))
    <3> DEFINE pos  == f.filp[x].pos
               size == i_size(f, i)
               m    == c.n
    <3>1. pos \in Nat /\ size \in Nat /\ m \in Nat /\ got = Min({m, size - pos})
      BY <1>0, <1>n, <2>3
    <3> HIDE DEF pos, size, m
    <3>2. Max({got, 0}) \in Nat /\ (pos < size => pos + Max({got, 0}) <= size)
      BY <3>1, GetsSome
    <3> QED BY <1>n, <3>2 DEF pos, size
  <2>5. f.inode[i].i_pipe => f.filp[x].pos < i_size(f, i)
    BY <1>3, <2>3
  <2>6. f.inode[i].num = "pipe" => f.inode[i].i_pipe
    BY <1>0, <2>2 DEF Files, Pipes, PipeEnds
  <2>7. Moved(f, h)
    <3>1. CASE f.inode[i].i_pipe /\ f.filp[x].pos + got = i_size(f, i)
      <4>1. Moved(f, Emptied(f, x, i))
        BY <1>0, <1>3, <1>x, <2>2, <2>5, <3>1, EmptiedMoved
      <4> QED BY <1>h, <3>1, <4>1
    <3>2. CASE ~ (f.inode[i].i_pipe /\ f.filp[x].pos + got = i_size(f, i))
      <4>1. Moved(f, [f EXCEPT !.filp[x].pos = f.filp[x].pos + n])
        BY <1>0, <1>3, <1>x, <2>2, <2>4, <2>5, <2>6, TakenMoved
      <4> QED BY <1>h, <3>2, <4>1
    <3> QED BY <3>1, <3>2
  <2>8. h \in Tables
    <3>1. Emptied(f, x, i) \in Tables
      BY <1>0, <1>x, <2>2, EmptiedDoes
    <3> DEFINE v == f.filp[x].pos + n
    <3>2. v \in Nat
      BY <2>3, <2>4
    <3> HIDE DEF v
    <3>3. [f EXCEPT !.filp[x].pos = v] \in Tables
      BY <1>0, <2>2, <3>2, SetPos
    <3> QED BY <1>h, <3>1, <3>3 DEF v
  <2>9. Same(h, reply(h, p, {}))
    <3>1. SameFiles(h, reply(h, p, {}))
      BY <1>0, <2>8, ProcsOnly
    <3> QED BY <3>1, FilesSame
  <2> QED BY <2>1, <2>7, <2>9, MovedOn
<1> QED BY <1>1, <1>2, <1>3

-----------------------------------------------------------------------------
(* write() *)

LEMMA NoneMore ==
  ASSUME NEW S, NEW u \in Seq(S), NEW p \in S
  PROVE  u \o Rep(p, 0) = u
<1> DEFINE b == [j \in 1 .. 0 |-> p]
<1>1. b \in Seq(S) /\ Len(b) = 0
  <2>1. b \in [1 .. 0 -> S]
    OBVIOUS
  <2> HIDE DEF b
  <2> QED BY <2>1, SeqOf1
<1>2. b = << >>
  <2> HIDE DEF b
  <2> QED BY <1>1, EmptySeq
<1>3. u \o << >> = u
  BY ConcatEmptySeq
<1> QED BY <1>2, <1>3 DEF Rep

LEMMA Appends ==
  ASSUME NEW m \in Nat, NEW s \in [1 .. m -> Procs \cup {0}], NEW k \in 0 .. m, NEW n \in Nat,
         NEW p \in Procs
  PROVE  /\ Len(SubSeq(s, k + 1, m)) = m - k
         /\ SubSeq(Put(s, m, n, p), k + 1, m + n) = SubSeq(s, k + 1, m) \o Rep(p, n)
         /\ n = 0 => SubSeq(s, k + 1, m) \o Rep(p, n) = SubSeq(s, k + 1, m)
<1> DEFINE T == Procs \cup {0}
           u == SubSeq(s, k + 1, m)
<1>1. s \in [1 .. m -> T] /\ p \in T
  OBVIOUS
<1> HIDE DEF T
<1>2. SubSeq(s, k + 1, m) \in Seq(T) /\ Len(SubSeq(s, k + 1, m)) = m - k
      /\ \A j \in 1 .. m - k : SubSeq(s, k + 1, m)[j] = s[k + j]
  BY <1>1, RestIs
<1>3. SubSeq(Put(s, m, n, p), k + 1, m + n) = SubSeq(s, k + 1, m) \o Rep(p, n)
  BY PutRest
<1>4. u \in Seq(T) /\ u = SubSeq(s, k + 1, m)
  BY <1>2
<1> HIDE DEF u
<1>5. u \o Rep(p, 0) = u
  BY <1>1, <1>4, NoneMore
<1> QED BY <1>2, <1>3, <1>4, <1>5

(* p's n bytes are appended *)
LEMMA WrittenMoved ==
  ASSUME NEW f, Files(f), NEW p \in Procs, NEW x \in Filps, NEW i \in Inodes, i = f.filp[x].ino,
         f.filp[x].count # 0, "W" \in f.filp[x].mode, NEW pos, pos = f.filp[x].pos,
         NEW n \in Nat, pos + n <= PIPE_SIZE,
         NEW g, g = Written(f, p, x, i, pos, n)
  PROVE  Moved(f, g)
<1>0. f \in Tables /\ PIPE_SIZE \in Nat
  BY FsAssumption DEF Files
<1>1. /\ g \in Tables /\ Shape(f, g) /\ FreeSame(f, g)
      /\ g.inode[i].data = Put(f.inode[i].data, pos, n, p)
      /\ i_size(f, i) = pos => i_size(g, i) = pos + n
      /\ \A j \in Inodes : j # i => g.inode[j] = f.inode[j]
      /\ x \in Uses(f, i) /\ g.filp[x].pos = pos + n
      /\ \A y \in Filps : y # x => g.filp[y] = f.filp[y]
      /\ pos \in Nat
  BY PutDoes
<1>2. CASE i # Slot
  <2>1. \A y \in Filps : f.filp[y].ino # i => g.filp[y].pos = f.filp[y].pos
    BY <1>1
  <2>2. Shape(f, g) /\ \A j \in Inodes : j # i => g.inode[j] = f.inode[j]
    BY <1>1
  <2>3. Same(f, g)
    BY <1>0, <1>2, <2>1, <2>2, Elsewhere
  <2> QED BY <2>3 DEF Moved, Shut
<1>3. CASE i = Slot
  <2>1. (Listened(g) <=> Listened(f)) /\ Readers(g) = Readers(f)
    BY <1>0, <1>1, ShapeListened
  <2>2. CASE ~ Listened(f)
    <3>1. Same(f, g)
      BY <2>1, <2>2, Deaf
    <3> QED BY <3>1 DEF Moved, Shut
  <2>3. CASE Listened(f)
    <3>1. f.inode[Slot].num = "pipe" /\ Readers(f) # {}
      BY <2>3 DEF Listened
    <3>2. PICK r : r \in Readers(f)
      BY <3>1
    <3>3. /\ Readers(f) = {r} /\ r \in Filps /\ f.filp[r].mode = {"R"}
          /\ Unread(f) = SubSeq(f.inode[Slot].data, f.filp[r].pos + 1, i_size(f, Slot))
          /\ f.filp[r].pos \in 0 .. i_size(f, Slot)
          /\ f.inode[Slot].data \in [1 .. i_size(f, Slot) -> Procs \cup {0}]
      BY <3>1, <3>2, SoleReader
    <3>4. i_size(f, Slot) \in Nat
      BY <1>0, SizeNat, SlotAssumption
    <3>5. pos = i_size(f, Slot) /\ x # r
      <4>1. PipeEnds(f, Slot) /\ x \in Uses(f, Slot)
        BY <1>1, <1>3, <3>1, SlotAssumption DEF Files, Pipes
      <4>2. f.filp[x].mode # {"R"}
        OBVIOUS
      <4>3. f.filp[x].pos = i_size(f, Slot)
        BY <4>1, <4>2 DEF PipeEnds
      <4> QED BY <3>3, <4>2, <4>3
    <3> DEFINE u == Unread(f)
               m == i_size(f, Slot)
               s == f.inode[Slot].data
               k == f.filp[r].pos
    <3>6. m \in Nat /\ k \in 0 .. m /\ s \in [1 .. m -> Procs \cup {0}] /\ u = SubSeq(s, k + 1, m)
          /\ p \in Procs \cup {0} /\ pos = m
      BY <3>3, <3>4, <3>5
    <3>7. Unread(g) = SubSeq(Put(s, m, n, p), k + 1, m + n)
      <4>1. Min({r}) = r
        <5>1. r \in Int
          BY <3>3, Ranges
        <5> QED BY <5>1, MinOne
      <4>2. g.filp[Min(Readers(g))].pos = k
        BY <1>1, <2>1, <3>3, <3>5, <4>1
      <4>3. i_size(g, Slot) = m + n /\ g.inode[Slot].data = Put(s, m, n, p)
        BY <1>1, <1>3, <3>5
      <4> QED BY <2>1, <2>3, <4>2, <4>3 DEF Unread
    <3> HIDE DEF u, m, s, k
    <3>8. m \in Nat /\ k \in 0 .. m
      BY <3>6
    <3>9. Len(u) = m - k /\ Unread(g) = u \o Rep(p, n) /\ (n = 0 => Unread(g) = u)
      <4> DEFINE v == Unread(g)
      <4>1. v = SubSeq(Put(s, m, n, p), k + 1, m + n)
        BY <3>7
      <4>2. u = SubSeq(s, k + 1, m)
        BY <3>6
      <4>3. s \in [1 .. m -> Procs \cup {0}]
        BY <3>6
      <4> HIDE DEF v
      <4>4. /\ Len(SubSeq(s, k + 1, m)) = m - k
            /\ SubSeq(Put(s, m, n, p), k + 1, m + n) = SubSeq(s, k + 1, m) \o Rep(p, n)
            /\ n = 0 => SubSeq(s, k + 1, m) \o Rep(p, n) = SubSeq(s, k + 1, m)
        BY <3>8, <4>3, Appends
      <4> QED BY <4>1, <4>2, <4>4 DEF v
    <3>10. CASE n = 0
      BY <2>1, <3>9, <3>10 DEF Moved, Shut, Same, u
    <3>11. CASE n # 0
      <4>1. n \in 1 .. PIPE_SIZE - Len(u)
        BY <1>0, <3>6, <3>8, <3>11
      <4> QED BY <2>1, <2>3, <3>9, <4>1 DEF Moved, Rep, u
    <3> QED BY <3>10, <3>11
  <2> QED BY <2>2, <2>3
<1> QED BY <1>2, <1>3

LEMMA WriteMoved ==
  ASSUME NEW f, NEW e, NEW p \in Procs, Good(f, e, p), NEW c \in Hung
  PROVE  Moved(f, do_write(f, p, c))
<1>0. c.fd \in Fds /\ c.n \in Nat /\ Files(f) /\ {} \in SUBSET Fds /\ f \in Tables
  BY DEF Hung, Good, Files
<1> DEFINE x == f.fd[p][c.fd]
           i == f.filp[x].ino
           pos == f.filp[x].pos
           g == IF pos = 0 THEN release(f, i, "READ", f.susp_count) ELSE f
           h == Written(g, p, x, i, pos, c.n)
<1>d. do_write(f, p, c) =
        IF \/ x = NIL \/ "W" \notin f.filp[x].mode \/ c.n > PIPE_SIZE \/ find_filp(f, i, "R") = NIL
        THEN reply(f, p, {})
        ELSE IF IsFull(pos, c.n)
        THEN IF f.filp[x].nonblock THEN reply(f, p, {}) ELSE suspend(f, p, c)
        ELSE reply(h, p, {})
  BY DEF do_write, Written
<1>x. f.fd[p][c.fd] = x /\ f.filp[x].ino = i /\ f.filp[x].pos = pos
  OBVIOUS
<1>h. h = Written(g, p, x, i, pos, c.n)
  OBVIOUS
<1> HIDE DEF x, i, pos, h
<1>r. Same(f, reply(f, p, {})) /\ Same(f, suspend(f, p, c))
  <2>1. SameFiles(f, reply(f, p, {})) /\ SameFiles(f, suspend(f, p, c))
    BY <1>0, ProcsOnly
  <2> QED BY <2>1, FilesSame
<1>1. CASE x = NIL \/ "W" \notin f.filp[x].mode \/ c.n > PIPE_SIZE \/ find_filp(f, i, "R") = NIL
  <2>1. do_write(f, p, c) = reply(f, p, {})
    BY <1>1, <1>d
  <2> QED BY <1>r, <2>1 DEF Moved, Shut
<1>2. CASE /\ x # NIL /\ "W" \in f.filp[x].mode /\ ~ (c.n > PIPE_SIZE)
           /\ find_filp(f, i, "R") # NIL /\ IsFull(pos, c.n)
  <2>1. do_write(f, p, c) = reply(f, p, {}) \/ do_write(f, p, c) = suspend(f, p, c)
    BY <1>2, <1>d
  <2> QED BY <1>r, <2>1 DEF Moved, Shut
<1>3. CASE /\ x # NIL /\ "W" \in f.filp[x].mode /\ ~ (c.n > PIPE_SIZE)
           /\ find_filp(f, i, "R") # NIL /\ ~ IsFull(pos, c.n)
  <2>1. do_write(f, p, c) = reply(h, p, {})
    BY <1>3, <1>d
  <2>2. x \in Filps /\ f.filp[x].count # 0 /\ i \in Inodes
    BY <1>0, <1>3, <1>x, InUse
  <2>3. g \in Tables /\ SameFiles(f, g)
    <3>1. "READ" \in {"READ", "WRITE"} \cup Waits /\ f.susp_count \in Int
      BY <1>0, Fields
    <3>2. SameFiles(f, release(f, i, "READ", f.susp_count))
          /\ release(f, i, "READ", f.susp_count) \in Tables
      BY <1>0, <3>1, ReleaseFiles
    <3>3. SameFiles(f, f)
      BY DEF SameFiles
    <3> QED BY <1>0, <3>2, <3>3
  <2> HIDE DEF g
  <2>4. Files(g)
    BY <1>0, <2>3, FilesStay
  <2>5. pos \in Nat
    BY <1>0, <1>x, <2>2, FilpTypes
  <2>6. pos + c.n <= PIPE_SIZE
    BY <1>0, <1>3, <2>5, FsAssumption DEF IsFull
  <2>7. /\ i = g.filp[x].ino /\ g.filp[x].count # 0 /\ "W" \in g.filp[x].mode
        /\ pos = g.filp[x].pos
    BY <1>3, <1>x, <2>2, <2>3 DEF SameFiles
  <2> DEFINE n == c.n
  <2>n. n \in Nat /\ pos + n <= PIPE_SIZE /\ h = Written(g, p, x, i, pos, n)
    BY <1>0, <1>h, <2>6
  <2> HIDE DEF n
  <2>8. Moved(g, h)
    BY <2>2, <2>4, <2>7, <2>n, WrittenMoved
  <2>9. h \in Tables
    <3>1. /\ h \in Tables /\ Shape(g, h) /\ FreeSame(g, h)
          /\ h.inode[i].data = Put(g.inode[i].data, pos, n, p)
          /\ i_size(g, i) = pos => i_size(h, i) = pos + n
          /\ \A j \in Inodes : j # i => h.inode[j] = g.inode[j]
          /\ x \in Uses(g, i) /\ h.filp[x].pos = pos + n
          /\ \A y \in Filps : y # x => h.filp[y] = g.filp[y]
          /\ pos \in Nat
      BY <2>2, <2>4, <2>7, <2>n, PutDoes
    <3> QED BY <3>1
  <2>10. Same(h, reply(h, p, {}))
    <3>1. SameFiles(h, reply(h, p, {}))
      BY <1>0, <2>9, ProcsOnly
    <3> QED BY <3>1, FilesSame
  <2>11. Same(f, g)
    BY <2>3, FilesSame
  <2>12. Moved(f, h)
    BY <2>8, <2>11, MovedOn
  <2> QED BY <2>1, <2>10, <2>12, MovedOn
<1> QED BY <1>1, <1>2, <1>3



-----------------------------------------------------------------------------
(* pipe() and open() *)

(* The two ends of a new pipe *)
Ends(f, p, d0, d1, x0, x1, i, v) ==
  SetInode(ClaimFd(ClaimFd(f, p, d0, x0, {"R"}, i, FALSE), p, d1, x1, {"W"}, i, FALSE), i, v)

ForEnds(f, g, x0, x1, i, v) ==
  /\ g \in Tables /\ g.inode[i] = v /\ \A j \in Inodes : j # i => g.inode[j] = f.inode[j]
  /\ \A y \in Filps : y \notin {x0, x1} => g.filp[y] = f.filp[y]
  /\ g.filp[x0].ino = i /\ g.filp[x0].mode = {"R"} /\ g.filp[x1].ino = i

LEMMA EndsClaimed ==
  ASSUME NEW f \in Tables, NEW p \in Procs, NEW d0 \in Fds, NEW d1 \in Fds,
         NEW x0 \in Filps, NEW x1 \in Filps, x1 # x0, NEW i \in Inodes,
         NEW v, EmptyPipe(v)
  PROVE  ForEnds(f, Ends(f, p, d0, d1, x0, x1, i, v), x0, x1, i, v)
<1> DEFINE FilpType == [mode : Modes \cup {{}}, count : Nat, pos : Nat, ino : Inodes \cup {NIL},
                        nonblock : BOOLEAN]
           r  == [mode |-> {"R"}, count |-> 1, pos |-> 0, ino |-> i, nonblock |-> FALSE]
           w  == [mode |-> {"W"}, count |-> 1, pos |-> 0, ino |-> i, nonblock |-> FALSE]
           fd == [[f.fd EXCEPT ![p][d0] = x0] EXCEPT ![p][d1] = x1]
           filp  == [[f.filp EXCEPT ![x0] = r] EXCEPT ![x1] = w]
           inode == [f.inode EXCEPT ![i] = v]
           h     == [f EXCEPT !.fd = fd, !.filp = filp, !.inode = inode]
<1>0. /\ f.fd \in [Procs -> [Fds -> Filps \cup {NIL}]]
      /\ f.filp \in [Filps -> FilpType] /\ f.inode \in [Inodes -> INode]
  BY Fields DEF INode
<1>1. r \in FilpType /\ w \in FilpType /\ r.ino = i /\ r.mode = {"R"} /\ w.ino = i
  BY DEF Modes
<1>2. Ends(f, p, d0, d1, x0, x1, i, v) = h
  BY DEF Ends, SetInode, ClaimFd, Tables
<1> HIDE DEF r, w
<1>3. fd \in [Procs -> [Fds -> Filps \cup {NIL}]]
  BY <1>0
<1>4. /\ filp \in [Filps -> FilpType] /\ filp[x0] = r /\ filp[x1] = w
      /\ \A y \in Filps : y \notin {x0, x1} => filp[y] = f.filp[y]
  BY <1>0, <1>1
<1>5. /\ inode \in [Inodes -> INode] /\ inode[i] = v
      /\ \A j \in Inodes : j # i => inode[j] = f.inode[j]
  BY <1>0 DEF EmptyPipe
<1> HIDE DEF fd, filp, inode
<1>6. h \in Tables /\ h.filp = filp /\ h.inode = inode
  BY <1>3, <1>4, <1>5 DEF Tables, INode
<1> HIDE DEF h
<1>7. ForEnds(f, h, x0, x1, i, v)
  BY <1>1, <1>4, <1>5, <1>6 DEF ForEnds
<1> QED BY <1>2, <1>7

LEMMA PipeMoved ==
  ASSUME NEW f, Files(f), NEW p \in Procs
  PROVE  Moved(f, do_pipe(f, p))
<1> DEFINE d0 == Min(FreeFds(f, p))
           x0 == Min(FreeFilps(f))
           d1 == Min(FreeFds(f, p) \ {d0})
           x1 == Min(FreeFilps(f) \ {x0})
           i  == Max(FreeInodes(f))
           v  == [num |-> "pipe", count |-> 2, i_pipe |-> TRUE, data |-> <<>>]
           fails == \/ Cardinality(FreeFds(f, p)) < 2 \/ Cardinality(FreeFilps(f)) < 2
                    \/ FreeInodes(f) = {}
           g  == Ends(f, p, d0, d1, x0, x1, i, v)
<1>0. f \in Tables
  BY DEF Files
<1>1. do_pipe(f, p) = IF fails THEN f ELSE reply(g, p, {d0, d1})
  BY DEF do_pipe, Ends, SetInode
<1>2. CASE fails
  BY <1>1, <1>2 DEF Moved, Shut, Same
<1>3. CASE ~ fails
  <2>0. ~ (Cardinality(FreeFds(f, p)) < 2) /\ ~ (Cardinality(FreeFilps(f)) < 2) /\ FreeInodes(f) # {}
    BY <1>3
  <2>1. do_pipe(f, p) = reply(g, p, {d0, d1})
    BY <1>1, <1>3
  <2>2. EmptyPipe(v) /\ v.count = 2
    BY EmptyIs
  <2>3. /\ d0 = Min(FreeFds(f, p)) /\ d1 = Min(FreeFds(f, p) \ {d0})
        /\ x0 = Min(FreeFilps(f)) /\ x1 = Min(FreeFilps(f) \ {x0}) /\ i = Max(FreeInodes(f))
    OBVIOUS
  <2> HIDE DEF fails, d0, x0, d1, x1, i, v
  <2>4. /\ i \in Inodes /\ f.inode[i].count = 0
        /\ d0 \in Fds /\ f.fd[p][d0] = NIL /\ d1 \in Fds /\ f.fd[p][d1] = NIL /\ d1 # d0
        /\ x0 \in Filps /\ f.filp[x0].count = 0 /\ x1 \in Filps /\ f.filp[x1].count = 0
        /\ x1 # x0
    BY <1>0, <2>0, <2>3, PipeSlots
  <2>5. ForEnds(f, g, x0, x1, i, v)
    BY <1>0, <2>2, <2>4, EndsClaimed
  <2> HIDE DEF g
  <2>6. /\ g \in Tables /\ g.inode[i] = v /\ \A j \in Inodes : j # i => g.inode[j] = f.inode[j]
        /\ \A y \in Filps : y \notin {x0, x1} => g.filp[y] = f.filp[y]
        /\ g.filp[x0].ino = i /\ g.filp[x0].mode = {"R"} /\ g.filp[x1].ino = i
    BY <2>5 DEF ForEnds
  <2>7. f.filp[x0].ino = NIL /\ f.filp[x1].ino = NIL /\ f.inode[i].num = "none"
    BY <2>4, FreeIs DEF Files, Slots
  <2>8. Moved(f, g)
    <3>1. CASE i # Slot
      <4>1. \A y \in Filps : f.filp[y].ino = Slot \/ g.filp[y].ino = Slot => g.filp[y] = f.filp[y]
        BY <2>4, <2>6, <2>7, <3>1, SlotAssumption, Ranges
      <4>2. Readers(g) = Readers(f)
        BY <4>1 DEF Readers, Open
      <4>3. \A y \in Readers(f) : g.filp[y].pos = f.filp[y].pos
        BY <4>1 DEF Readers, Open
      <4>4. Unmoved(f, g)
        BY <2>6, <3>1, <4>2, <4>3, SlotAssumption DEF Unmoved
      <4>5. Same(f, g)
        BY <1>0, <4>4, UnmovedSame
      <4> QED BY <4>5 DEF Moved, Shut
    <3>2. CASE i = Slot
      <4>1. ~ Listened(f)
        BY <2>7, <3>2 DEF Listened
      <4>2. g.inode[Slot].num = "pipe" /\ g.inode[Slot].data = <<>>
        BY <2>2, <2>6, <3>2 DEF EmptyPipe
      <4>3. x0 \in Readers(g)
        BY <2>4, <2>6, <3>2 DEF Readers, Open
      <4>4. Listened(g)
        BY <4>2, <4>3 DEF Listened
      <4>5. Unread(g) = <<>>
        BY <2>6, <4>2, <4>4, NothingUnread
      <4> QED BY <4>1, <4>4, <4>5 DEF Moved
    <3> QED BY <3>1, <3>2
  <2>9. Same(g, reply(g, p, {d0, d1}))
    <3>1. {d0, d1} \in SUBSET Fds
      BY <2>4
    <3>2. SameFiles(g, reply(g, p, {d0, d1}))
      BY <2>6, <3>1, ProcsOnly
    <3> QED BY <3>2, FilesSame
  <2> QED BY <2>1, <2>8, <2>9, MovedOn
<1> QED BY <1>2, <1>3

(* open() is for the inode of the named pipe, or one that is free *)
LEMMA OpenedInode ==
  ASSUME NEW f, Files(f), NEW in, in = {j \in Inodes : f.inode[j].num = "fifo"},
         NEW i, i = IF in = {} THEN Max(FreeInodes(f)) ELSE Min(in),
         in # {} \/ FreeInodes(f) # {}
  PROVE  i \in Inodes /\ f.inode[i].num # "pipe"
<1>1. ASSUME NEW S \in SUBSET Inodes, S # {} PROVE Min(S) \in S /\ Max(S) \in S
  <2>1. \A y \in S : y \in Int
    BY Ranges
  <2>2. S \in SUBSET Int
    BY <2>1
  <2>3. IsFiniteSet(S)
    BY Ranges, FS_Subset
  <2> QED BY <1>1, <2>2, <2>3, MinIn, MaxIn
<1>2. CASE in = {}
  <2>1. FreeInodes(f) \in SUBSET Inodes /\ FreeInodes(f) # {}
    BY <1>2 DEF FreeInodes
  <2>2. i \in FreeInodes(f)
    BY <1>1, <1>2, <2>1
  <2>3. i \in Inodes /\ f.inode[i].count = 0
    BY <2>2 DEF FreeInodes
  <2> QED BY <2>3, FreeIs DEF Files, Slots
<1>3. CASE in # {}
  <2>1. i \in in
    BY <1>1, <1>3
  <2> QED BY <2>1
<1> QED BY <1>2, <1>3

(* A descriptor for an inode that is the named pipe, or becomes it *)
LEMMA FifoSame ==
  ASSUME NEW f, Files(f), NEW g, NEW i \in Inodes, NEW x \in Filps, f.filp[x].count = 0,
         f.inode[i].num # "pipe", g.inode[i].num = "fifo",
         \A j \in Inodes : j # i => g.inode[j] = f.inode[j],
         \A y \in Filps : y # x => g.filp[y] = f.filp[y], g.filp[x].ino = i
  PROVE  Same(f, g)
<1>1. f \in Tables /\ f.filp[x].ino = NIL
  BY FreeIs DEF Files, Slots
<1>2. CASE i = Slot
  <2>1. ~ Listened(f) /\ ~ Listened(g)
    BY <1>2 DEF Listened
  <2> QED BY <2>1, Deaf
<1>3. CASE i # Slot
  <2>1. \A y \in Filps : f.filp[y].ino = Slot \/ g.filp[y].ino = Slot => g.filp[y] = f.filp[y]
    BY <1>1, <1>3, SlotAssumption, Ranges
  <2>2. Readers(g) = Readers(f)
    BY <2>1 DEF Readers, Open
  <2>3. \A y \in Readers(f) : g.filp[y].pos = f.filp[y].pos
    BY <2>1 DEF Readers, Open
  <2>4. Unmoved(f, g)
    BY <1>3, <2>2, <2>3, SlotAssumption DEF Unmoved
  <2> QED BY <1>1, <2>4, UnmovedSame
<1> QED BY <1>2, <1>3

LEMMA OpenSame ==
  ASSUME NEW f, Files(f), NEW p \in Procs,
         NEW c \in [fs_call : Waits, mode : Modes, nonblock : BOOLEAN]
  PROVE  Same(f, do_open(f, p, c))
<1> DEFINE in   == {j \in Inodes : f.inode[j].num = "fifo"}
           i    == IF in = {} THEN Max(FreeInodes(f)) ELSE Min(in)
           d    == Min(FreeFds(f, p))
           x    == Min(FreeFilps(f))
           g    == [f EXCEPT !.inode[i].num = "fifo", !.inode[i].count = @ + 1]
           peer == find_filp(f, i, IF "W" \in c.mode THEN "R" ELSE "W")
           call == [fs_call |-> c.fs_call, fd |-> d, n |-> 0]
           h    == IF peer # NIL
                   THEN reply(releaseIfCounted(releaseIfCounted(g, i, "OPEN"), i, "CREAT"), p, {d})
                   ELSE IF c.nonblock THEN reply(g, p, {d}) ELSE suspend(g, p, call)
           fails == \/ ~ get_fd(f, p) \/ (in = {} /\ FreeInodes(f) = {})
                    \/ (peer = NIL /\ c.nonblock /\ "W" \in c.mode)
           b    == [h EXCEPT !.inode[i].i_pipe = @ \/ peer # NIL \/ ~ c.nonblock]
           t    == ClaimFd(b, p, d, x, c.mode, i, c.nonblock)
           v    == Fifo(f, i)
<1>0. f \in Tables
  BY DEF Files
<1>1. do_open(f, p, c) = IF fails THEN reply(f, p, {}) ELSE t
  BY DEF do_open
<1>2. CASE fails
  <2>1. do_open(f, p, c) = reply(f, p, {})
    BY <1>1, <1>2, Zenon
  <2>2. {} \in SUBSET Fds
    OBVIOUS
  <2>3. SameFiles(f, reply(f, p, {}))
    BY <1>0, <2>2, ProcsOnly
  <2> QED BY <2>1, <2>3, FilesSame
<1>3. CASE ~ fails
  <2>0. get_fd(f, p) /\ (in # {} \/ FreeInodes(f) # {})
    BY <1>3, SMTT(30)
  <2>1. do_open(f, p, c) = t
    BY <1>1, <1>3, Zenon
  <2>2. /\ in = {j \in Inodes : f.inode[j].num = "fifo"}
        /\ i = IF in = {} THEN Max(FreeInodes(f)) ELSE Min(in)
        /\ d = Min(FreeFds(f, p)) /\ x = Min(FreeFilps(f))
        /\ g = [f EXCEPT !.inode[i].num = "fifo", !.inode[i].count = @ + 1]
    OBVIOUS
  <2>c. call = [fs_call |-> c.fs_call, fd |-> d, n |-> 0] /\ c.fs_call \in Waits
    OBVIOUS
  <2>3. h = IF peer # NIL
            THEN reply(releaseIfCounted(releaseIfCounted(g, i, "OPEN"), i, "CREAT"), p, {d})
            ELSE IF c.nonblock THEN reply(g, p, {d}) ELSE suspend(g, p, call)
    OBVIOUS
  <2>v. v = Fifo(f, i)
    OBVIOUS
  <2> DEFINE u == h.inode[i].i_pipe \/ peer # NIL \/ ~ c.nonblock
  <2>b. b = [h EXCEPT !.inode[i].i_pipe = u]
    OBVIOUS
  <2>t. t = ClaimFd(b, p, d, x, c.mode, i, c.nonblock)
    OBVIOUS
  <2> HIDE DEF fails, in, i, d, x, g, peer, call, h, b, t, u, v
  <2>4. i \in Inodes /\ f.inode[i].num # "pipe"
    BY <2>0, <2>2, OpenedInode
  <2>5. d \in Fds /\ x \in Filps /\ f.filp[x].count = 0
    <3>1. FreeFds(f, p) # {} /\ FreeFilps(f) # {}
      BY <2>0 DEF get_fd
    <3> QED BY <1>0, <2>2, <3>1, FreeSlots
  <2>6. v \in INode /\ v.num = "fifo"
    BY <1>0, <2>v, <2>4, FifoIs
  <2>7. g = With(f, At(f.inode, i, v))
    <3>1. [f EXCEPT !.inode[i].num = "fifo", !.inode[i].count = @ + 1] = With(f, At(f.inode, i, Fifo(f, i)))
      BY <1>0, <2>4, FifoIs
    <3> QED BY <2>2, <2>v, <3>1
  <2>8. /\ At(f.inode, i, v) \in [Inodes -> INode] /\ At(f.inode, i, v)[i] = v
        /\ \A j \in Inodes : j # i => At(f.inode, i, v)[j] = f.inode[j]
    <3>1. f.inode \in [Inodes -> INode]
      BY <1>0, Fields DEF INode
    <3> QED BY <2>4, <2>6, <3>1 DEF At
  <2> DEFINE inode == At(f.inode, i, v)
  <2>9. g \in Tables /\ g.inode = inode /\ g.filp = f.filp
    <3>1. inode \in [Inodes -> INode] /\ g = With(f, inode)
      BY <2>7, <2>8
    <3> HIDE DEF inode
    <3> QED BY <1>0, <3>1, WithIs
  <2>10. h \in Tables /\ SameFiles(g, h)
    <3>1. {d} \in SUBSET Fds /\ call \in Hung /\ {"OPEN", "CREAT"} \subseteq {"READ", "WRITE"} \cup Waits
      BY <2>c, <2>5 DEF Hung, Waits
    <3> DEFINE k == releaseIfCounted(g, i, "OPEN")
               l == releaseIfCounted(k, i, "CREAT")
    <3>2. k \in Tables /\ SameFiles(g, k)
      BY <2>9, <3>1, ReleaseFiles
    <3>3. l \in Tables /\ SameFiles(k, l)
      <4> HIDE DEF k
      <4> QED BY <3>1, <3>2, ReleaseFiles
    <3>l. l = releaseIfCounted(releaseIfCounted(g, i, "OPEN"), i, "CREAT")
      OBVIOUS
    <3> HIDE DEF k, l
    <3>4. reply(l, p, {d}) \in Tables /\ SameFiles(l, reply(l, p, {d}))
      BY <3>1, <3>3, ProcsOnly
    <3>5. reply(g, p, {d}) \in Tables /\ SameFiles(g, reply(g, p, {d}))
      BY <2>9, <3>1, ProcsOnly
    <3>6. suspend(g, p, call) \in Tables /\ SameFiles(g, suspend(g, p, call))
      BY <2>9, <3>1, ProcsOnly
    <3>7. SameFiles(g, reply(l, p, {d}))
      BY <3>2, <3>3, <3>4 DEF SameFiles
    <3>8. h \in {reply(l, p, {d}), reply(g, p, {d}), suspend(g, p, call)}
      BY <2>3, <3>l
    <3> QED BY <3>4, <3>5, <3>6, <3>7, <3>8
  <2>11. /\ h.inode[i].num = "fifo" /\ \A j \in Inodes : j # i => h.inode[j] = f.inode[j]
         /\ h.filp = f.filp
    BY <2>4, <2>6, <2>8, <2>9, <2>10 DEF SameFiles
  <2> HIDE DEF inode
  <2>12. /\ b.inode[i].num = "fifo" /\ \A j \in Inodes : j # i => b.inode[j] = h.inode[j]
         /\ b.filp = h.filp
    <3>1. h.inode \in [Inodes -> INode]
      BY <2>10, Fields DEF INode
    <3> DEFINE n == [h.inode EXCEPT ![i].i_pipe = u]
    <3>2. n[i].num = "fifo" /\ \A j \in Inodes : j # i => n[j] = h.inode[j]
      BY <2>4, <2>11, <3>1 DEF INode
    <3>3. b = [h EXCEPT !.inode = n]
      BY <2>b
    <3> HIDE DEF n
    <3>4. b.inode = n /\ b.filp = h.filp
      BY <2>10, <3>3 DEF Tables
    <3> QED BY <3>2, <3>4
  <2>13. /\ t.inode = b.inode /\ t.filp[x].ino = i
         /\ \A y \in Filps : y # x => t.filp[y] = b.filp[y]
    <3> DEFINE r == [mode |-> c.mode, count |-> 1, pos |-> 0, ino |-> i, nonblock |-> c.nonblock]
               n == [b.filp EXCEPT ![x] = r]
               k == [b.fd EXCEPT ![p][d] = x]
    <3>1. h.filp \in [Filps -> [mode : Modes \cup {{}}, count : Nat, pos : Nat,
                                ino : Inodes \cup {NIL}, nonblock : BOOLEAN]]
      BY <2>10, Fields
    <3>2. n[x].ino = i /\ \A y \in Filps : y # x => n[y] = b.filp[y]
      BY <2>5, <2>12, <3>1
    <3>3. t = [b EXCEPT !.fd = k, !.filp = n]
      BY <2>t DEF ClaimFd
    <3> HIDE DEF n, k
    <3>4. t.inode = b.inode /\ t.filp = n
      BY <2>10, <2>b, <3>3 DEF Tables
    <3> QED BY <3>2, <3>4
  <2>14. Same(f, t)
    <3>1. /\ t.inode[i].num = "fifo" /\ \A j \in Inodes : j # i => t.inode[j] = f.inode[j]
          /\ \A y \in Filps : y # x => t.filp[y] = f.filp[y]
      BY <2>11, <2>12, <2>13
    <3> QED BY <2>4, <2>5, <2>13, <3>1, FifoSame
  <2> QED BY <2>1, <2>14
<1> QED BY <1>2, <1>3


-----------------------------------------------------------------------------
(* Every step *)

LEMMA SameMoved ==
  ASSUME NEW f, NEW g
  PROVE  /\ Same(f, g) => Moved(f, g)
         /\ Shut(f, g) => Moved(f, g)
BY DEF Moved, Shut

(* The process that is retried is no longer suspended *)
LEMMA RetrySame ==
  ASSUME NEW f \in Tables, NEW p \in Procs
  PROVE  Same(f, [f EXCEPT !.hung[p] = NoCall, !.revived[p] = FALSE, !.reviving = @ - 1])
<1> DEFINE g == [f EXCEPT !.hung[p] = NoCall, !.revived[p] = FALSE, !.reviving = @ - 1]
<1>1. g.inode = f.inode /\ g.filp = f.filp /\ g.fd = f.fd
  BY DEF Tables
<1> HIDE DEF g
<1>2. Kept(f, g)
  BY <1>1 DEF Kept
<1>3. Same(f, g)
  BY <1>2, KeptSame
<1> QED BY <1>3 DEF g

LEMMA NextMoved == IInv /\ Next => Moved(fs, fs')
<1> SUFFICES ASSUME IInv, Next PROVE Moved(fs, fs')
  OBVIOUS
<1> DEFINE f == fs
           e == exiting
<1>0. Good(f, e, NIL) /\ may \in Mixes /\ f = fs /\ e = exiting /\ f \in Tables /\ Files(f)
  BY DEF IInv, Good, Files
<1> HIDE DEF f, e
<1>k. \A p \in Procs : f.knows[p] \subseteq Fds
  BY <1>0, Fields
<1>1. ASSUME NEW p \in Procs, Read(p) PROVE Moved(fs, fs')
  <2>1. PICK c \in may.read : fs' = do_read(f, p, c)
    BY <1>0, <1>1 DEF Read
  <2>2. f.at[p] = "runs"
    BY <1>0, <1>1 DEF Read, Runs
  <2>3. c \in Hung
    BY <1>0, MixIs
  <2>4. Good(f, e, p)
    BY <1>0, <2>2, RunsServed DEF Served
  <2>5. Moved(f, do_read(f, p, c))
    BY <2>3, <2>4, ReadMoved
  <2> QED BY <1>0, <2>1, <2>5
<1>2. ASSUME NEW p \in Procs, Write(p) PROVE Moved(fs, fs')
  <2>1. PICK c \in may.write : fs' = do_write(f, p, c)
    BY <1>0, <1>2 DEF Write
  <2>2. f.at[p] = "runs"
    BY <1>0, <1>2 DEF Write, Runs
  <2>3. c \in Hung
    BY <1>0, MixIs
  <2>4. Good(f, e, p)
    BY <1>0, <2>2, RunsServed DEF Served
  <2>5. Moved(f, do_write(f, p, c))
    BY <2>3, <2>4, WriteMoved
  <2> QED BY <1>0, <2>1, <2>5
<1>3. ASSUME NEW p \in Procs, Pipe(p) PROVE Moved(fs, fs')
  <2>1. fs' = do_pipe(f, p)
    BY <1>0, <1>3 DEF Pipe
  <2>2. Moved(f, do_pipe(f, p))
    BY <1>0, PipeMoved
  <2> QED BY <1>0, <2>1, <2>2
<1>4. ASSUME NEW p \in Procs, OpenFifo(p) PROVE Moved(fs, fs')
  <2>1. PICK c \in may.open : fs' = do_open(f, p, c)
    BY <1>0, <1>4 DEF OpenFifo
  <2>2. c \in [fs_call : Waits, mode : Modes, nonblock : BOOLEAN]
    BY <1>0, MixIs
  <2>3. Same(f, do_open(f, p, c))
    BY <1>0, <2>2, OpenSame
  <2> QED BY <1>0, <2>1, <2>3, SameMoved
<1>5. ASSUME NEW p \in Procs, Close(p) PROVE Moved(fs, fs')
  <2>1. PICK d \in f.knows[p] : fs' = do_close(f, p, d)
    BY <1>0, <1>5 DEF Close
  <2>2. d \in Fds
    BY <1>k
  <2>3. Shrunk(f, do_close(f, p, d))
    BY <1>0, <2>2, CloseShrinks
  <2>4. Shut(f, do_close(f, p, d))
    BY <1>0, <2>3, ShrunkShut
  <2> QED BY <1>0, <2>1, <2>4, SameMoved
<1>6. ASSUME NEW p \in Procs, Dup(p) PROVE Moved(fs, fs')
  <2>1. PICK d \in f.knows[p] : fs' = do_dup(f, p, d) \/ \E d2 \in Fds : fs' = do_dup2(f, p, d, d2)
    BY <1>0, <1>6 DEF Dup
  <2>2. f.at[p] = "runs"
    BY <1>0, <1>6 DEF Dup, Runs
  <2>3. d \in Fds
    BY <1>k
  <2>4. CASE fs' = do_dup(f, p, d)
    <3>1. Same(f, do_dup(f, p, d))
      BY <1>0, <2>3, DupSame
    <3> QED BY <1>0, <2>4, <3>1, SameMoved
  <2>5. ASSUME NEW d2 \in Fds, fs' = do_dup2(f, p, d, d2)
        PROVE  Moved(fs, fs')
    <3>1. Shut(f, do_dup2(f, p, d, d2))
      BY <1>0, <2>2, <2>3, Dup2Shut
    <3> QED BY <1>0, <2>5, <3>1, SameMoved
  <2> QED BY <2>1, <2>4, <2>5
<1>7. ASSUME NEW p \in Procs, SetFlags(p) PROVE Moved(fs, fs')
  <2>1. PICK d \in f.knows[p], no \in BOOLEAN : fs' = do_fcntl(f, p, d, no)
    BY <1>0, <1>7 DEF SetFlags
  <2>2. d \in Fds
    BY <1>k
  <2>3. Same(f, do_fcntl(f, p, d, no))
    BY <1>0, <2>2, FcntlSame
  <2> QED BY <1>0, <2>1, <2>3, SameMoved
<1>8. ASSUME NEW p \in Procs, Fork(p) PROVE Moved(fs, fs')
  <2>1. PICK c \in may.procs : fs' = do_fork(f, p, c)
    BY <1>0, <1>8 DEF Fork
  <2>2. c \in Procs
    BY <1>0, MixIs
  <2>3. Same(f, do_fork(f, p, c))
    BY <1>0, <2>2, ForkSame
  <2> QED BY <1>0, <2>1, <2>3, SameMoved
<1>9. ASSUME NEW p \in Procs, Kill(p) PROVE Moved(fs, fs')
  <2>1. fs' = [f EXCEPT !.at[p] = "free"]
    BY <1>0, <1>9 DEF Kill
  <2>2. SameFiles(f, [f EXCEPT !.at[p] = "free"])
    BY <1>0, ProcsOnly
  <2>3. Same(f, [f EXCEPT !.at[p] = "free"])
    BY <2>2, FilesSame
  <2> QED BY <1>0, <2>1, <2>3, SameMoved
<1>10. ASSUME NEW p \in Procs, Unpause(p) PROVE Moved(fs, fs')
  <2>1. fs' = do_unpause(f, p)
    BY <1>0, <1>10 DEF Unpause
  <2>2. SameFiles(f, do_unpause(f, p))
    BY <1>0, ProcsOnly
  <2>3. Same(f, do_unpause(f, p))
    BY <2>2, FilesSame
  <2> QED BY <1>0, <2>1, <2>3, SameMoved
<1>11. ASSUME Exit PROVE Moved(fs, fs')
  <2>1. e # NIL /\ f.reviving = 0 /\ fs' = do_exit(f, e)
    BY <1>0, <1>11 DEF Exit, TakesWork
  <2>2. e \in Procs
    BY <1>0, <2>1 DEF Good, Told
  <2>3. Shut(f, do_exit(f, e))
    BY <1>0, <2>1, <2>2, ExitShut
  <2> QED BY <1>0, <2>1, <2>3, SameMoved
<1>12. ASSUME Revived PROVE Moved(fs, fs')
  <2> DEFINE p == Min({q \in Procs : f.revived[q]})
             c == f.hung[p]
             g == [f EXCEPT !.hung[p] = NoCall, !.revived[p] = FALSE, !.reviving = @ - 1]
  <2>1. /\ f.reviving # 0
        /\ fs' = IF c.fs_call = "READ" THEN do_read(g, p, c) ELSE do_write(g, p, c)
    BY <1>0, <1>12 DEF Revived
  <2>2. p \in Procs /\ c \in Hung /\ Served(g, e, p)
    <3> DEFINE r == p
    <3>1. r = Min({q \in Procs : f.revived[q]})
      OBVIOUS
    <3> HIDE DEF r
    <3>2. /\ r \in Procs /\ f.hung[r] \in Hung /\ f.hung[r].fs_call \in {"READ", "WRITE"}
          /\ Served([f EXCEPT !.hung[r] = NoCall, !.revived[r] = FALSE, !.reviving = @ - 1], e, r)
      BY <1>0, <2>1, <3>1, RetryServed, ZenonT(60)
    <3> QED BY <3>2 DEF r
  <2>3. Same(f, g)
    BY <1>0, <2>2, RetrySame
  <2>4. Good(g, e, p)
    BY <2>2 DEF Served
  <2> HIDE DEF p, c, g
  <2>5. Moved(g, do_read(g, p, c)) /\ Moved(g, do_write(g, p, c))
    BY <2>2, <2>4, ReadMoved, WriteMoved
  <2>6. Moved(f, do_read(g, p, c)) /\ Moved(f, do_write(g, p, c))
    BY <2>3, <2>5, MovedOn
  <2> QED BY <1>0, <2>1, <2>6
<1> QED BY <1>1, <1>2, <1>3, <1>4, <1>5, <1>6, <1>7, <1>8, <1>9, <1>10, <1>11, <1>12 DEF Next

-----------------------------------------------------------------------------
(* The refinement *)

LEMMA StartsEmpty == Init => Queue!Init
<1> SUFFICES ASSUME Init PROVE Queue!Init
  OBVIOUS
<1>1. fs.inode[Slot].num = "none"
  BY SlotAssumption DEF Init, FreeInode
<1>2. ~ Listened(fs)
  BY <1>1 DEF Listened
<1>3. Unread(fs) = <<>>
  BY <1>2 DEF Unread
<1> QED BY <1>2, <1>3 DEF Queue!Init

LEMMA MovedStep == Moved(fs, fs') => [Queue!Next]_(Queue!vars)
<1> SUFFICES ASSUME Moved(fs, fs') PROVE [Queue!Next]_(Queue!vars)
  OBVIOUS
<1> DEFINE q == Unread(fs)
           r == Listened(fs)
<1>1. Unread(fs)' = Unread(fs') /\ (Listened(fs)' <=> Listened(fs'))
  BY DEF Unread, Listened, Readers
<1>2. /\ ~ Listened(fs) => Unread(fs) = <<>>
      /\ ~ Listened(fs') => Unread(fs') = <<>>
  BY DEF Unread
<1>3. CASE Same(fs, fs')
  <2>1. UNCHANGED Queue!vars
    BY <1>1, <1>3 DEF Same, Queue!vars, Listened
  <2> QED BY <2>1
<1>4. CASE Listened(fs) /\ ~ Listened(fs')
  <2>1. Queue!Close
    BY <1>1, <1>2, <1>4 DEF Queue!Close
  <2> QED BY <2>1 DEF Queue!Next
<1>5. CASE ~ Listened(fs) /\ Listened(fs') /\ Unread(fs') = <<>>
  <2>1. Queue!Open
    BY <1>1, <1>2, <1>5 DEF Queue!Open
  <2> QED BY <2>1 DEF Queue!Next
<1>6. CASE /\ Listened(fs) /\ Listened(fs')
           /\ \E n \in 1 .. Len(Unread(fs)) :
                Unread(fs') = SubSeq(Unread(fs), n + 1, Len(Unread(fs)))
  <2>1. Queue!Take
    BY <1>1, <1>6 DEF Queue!Take
  <2> QED BY <2>1 DEF Queue!Next
<1>7. CASE /\ Listened(fs) /\ Listened(fs')
           /\ \E p \in Procs : \E n \in 1 .. PIPE_SIZE - Len(Unread(fs)) :
                Unread(fs') = Unread(fs) \o [k \in 1 .. n |-> p]
  <2>1. PICK p \in Procs : \E n \in 1 .. PIPE_SIZE - Len(Unread(fs)) :
                Unread(fs') = Unread(fs) \o [k \in 1 .. n |-> p]
    BY <1>7
  <2>2. Queue!AppendAll(p)
    BY <1>1, <1>7, <2>1 DEF Queue!AppendAll
  <2> QED BY <2>2 DEF Queue!Next
<1> QED BY <1>3, <1>4, <1>5, <1>6, <1>7 DEF Moved, Shut

LEMMA StandsStill == UNCHANGED vars => UNCHANGED Queue!vars
BY DEF vars, Queue!vars, Unread, Listened, Readers

(***************************************************************************)
(* Module FsPipe implements module Stream.  Over every order of pipe(),    *)
(* read(), write(), close(), dup2(), fork(), signals, deaths and retries,  *)
(* what read_write() and pipe_check() do to the pipe of any inode is to    *)
(* take bytes from the front of one stream and append whole writes to its  *)
(* end, never beyond PIPE_SIZE, as long as do_close() and do_exit() leave  *)
(* it a reader: no byte is lost, read twice or written over.               *)
(***************************************************************************)
THEOREM StreamKept == Spec => IsStream
<1>1. IInv /\ [Next]_vars => [Queue!Next]_(Queue!vars)
  BY NextMoved, MovedStep, StandsStill
<1> QED BY <1>1, StartsEmpty, Inductive, PTL DEF Spec, IsStream, Queue!Spec

=============================================================================
