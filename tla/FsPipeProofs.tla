----------------------------- MODULE FsPipeProofs -----------------------------
(* Theorems about the pipes and the suspended processes of module FsPipe *)
EXTENDS FsPipe, SequenceTheorems, FiniteSetTheorems, WellFoundedInduction, TLAPS

-----------------------------------------------------------------------------
(* The inductive invariant, of tables f and of the process e that has died *)

Refs(f, x) == {pd \in Procs \X Fds : f.fd[pd[1]][pd[2]] = x}
Uses(f, i) == {x \in Filps : f.filp[x].ino = i}

(* Descriptor d of p refers to filp x, of inode i *)
Refers(f, p, d, x, i) == f.fd[p][d] = x /\ x # NIL /\ f.filp[x].ino = i

(* Slots that are not referred to are empty, the others are filled in *)
Slots(f) ==
  /\ \A x \in Filps : IF f.filp[x].count = 0 THEN f.filp[x] = FreeFilp
                      ELSE f.filp[x].mode \in Modes /\ f.filp[x].ino \in Inodes
  /\ \A i \in Inodes : IF f.inode[i].count = 0 THEN f.inode[i] = FreeInode
                       ELSE f.inode[i].num # "none"

FilpCounts(f)  == \A x \in Filps : f.filp[x].count = Cardinality(Refs(f, x))
InodeCounts(f) == \A i \in Inodes : f.inode[i].count = Cardinality(Uses(f, i))

(* A pipe has at most one filp to read from, whose position is short of    *)
(* the end if there is one, and at most one to write with, which is at the *)
(* end.                                                                    *)
PipeEnds(f, i) ==
  /\ f.inode[i].i_pipe
  /\ \A x \in Uses(f, i) :
       \/ f.filp[x].mode = {"R"} /\ (f.filp[x].pos < i_size(f, i) \/
                                     (f.filp[x].pos = 0 /\ i_size(f, i) = 0))
       \/ f.filp[x].mode = {"W"} /\ f.filp[x].pos = i_size(f, i)
  /\ \A x, y \in Uses(f, i) : f.filp[x].mode = f.filp[y].mode => x = y

Pipes(f) == \A i \in Inodes : f.inode[i].num = "pipe" => PipeEnds(f, i)

Files(f) == f \in Tables /\ Slots(f) /\ FilpCounts(f) /\ InodeCounts(f) /\ Pipes(f)

(* The program of every process but e and w, for whom FS works, waits      *)
(* exactly for a call that FS holds; the dead leave nothing behind.        *)
Told(f, e, w) ==
  /\ \A p \in Procs :
       /\ f.at[p] = "waits" => Suspended(f, p) \/ p = w
       /\ Suspended(f, p) => (f.at[p] = "waits" \/ p = e) /\ p # w
       /\ f.at[p] = "free" => p = e \/ (~ Suspended(f, p) /\ \A d \in Fds : f.fd[p][d] = NIL)
  /\ e \in Procs \cup {NIL}
  /\ e # NIL => f.at[e] = "free"

HangersOf(f) == {p \in Procs : Suspended(f, p) /\ ~ f.revived[p]}

Marks(f) ==
  /\ f.reviving = Cardinality({p \in Procs : f.revived[p]})
  /\ \A p \in Procs : f.revived[p] => f.hung[p].fs_call \in {"READ", "WRITE"}

Covers(f) == f.susp_count >= Cardinality(HangersOf(f))

(* What a process hangs on is open in the way it needs. *)
Hooked(f) ==
  \A p \in Procs : Suspended(f, p) =>
    /\ f.fd[p][f.hung[p].fd] # NIL
    /\ f.hung[p].fs_call = "READ"  => "R" \in Filp(f, p, f.hung[p].fd).mode
    /\ f.hung[p].fs_call = "WRITE" => "W" \in Filp(f, p, f.hung[p].fd).mode

(* NoStandoff, for one pipe *)
Flows(f, i) ==
  /\ Hanging(f, i, "READ") # {}  => i_size(f, i) = 0 /\ Open(f, i, "W") # {}
  /\ Hanging(f, i, "WRITE") # {} => Open(f, i, "R") # {}
  /\ Hanging(f, i, "READ") = {} \/ Hanging(f, i, "WRITE") = {}

AllFlow(f) == \A i \in Inodes : f.inode[i].num = "pipe" => Flows(f, i)

(* Who waits in open() for the other end is alone. *)
Alone(f) ==
  \A p \in Procs : f.hung[p].fs_call \in Waits =>
    LET x == f.fd[p][f.hung[p].fd]
    IN  \A y \in Uses(f, f.filp[x].ino) : {f.filp[x].mode, f.filp[y].mode} # {{"R"}, {"W"}}

Suspending(f) == Marks(f) /\ Covers(f) /\ Hooked(f)

(* w: the process for whose call FS works, which FS does not hold *)
Good(f, e, w) == Files(f) /\ Told(f, e, w) /\ Suspending(f) /\ AllFlow(f) /\ Alone(f)

IInv == Good(fs, exiting, NIL) /\ may \in Mixes

-----------------------------------------------------------------------------
(* Numbers and finite sets *)

LEMMA MaxOf == ASSUME NEW a \in Int, NEW b \in Int
               PROVE  Max({a, b}) = IF a >= b THEN a ELSE b
<1> DEFINE m == IF a >= b THEN a ELSE b
<1>1. m \in {a, b} /\ \A y \in {a, b} : m >= y
  OBVIOUS
<1>2. \A x \in {a, b} : (\A y \in {a, b} : x >= y) => x = m
  OBVIOUS
<1> QED BY <1>1, <1>2 DEF Max

LEMMA MinOf == ASSUME NEW a \in Int, NEW b \in Int
               PROVE  Min({a, b}) = IF a <= b THEN a ELSE b
<1> DEFINE m == IF a <= b THEN a ELSE b
<1>1. m \in {a, b} /\ \A y \in {a, b} : m <= y
  OBVIOUS
<1>2. \A x \in {a, b} : (\A y \in {a, b} : x <= y) => x = m
  OBVIOUS
<1> QED BY <1>1, <1>2 DEF Min

(* The numbers below the least are the fewest. *)
LEMMA Bottom ==
  ASSUME NEW S \in SUBSET Int, S # {}, IsFiniteSet(S)
  PROVE  \E m \in S : \A n \in S : m <= n
<1> DEFINE Below(n) == {k \in S : k < n}
           T == {Below(n) : n \in S}
<1>1. T # {} /\ T \subseteq FiniteSubsetsOf(S)
  <2>1. ASSUME NEW n \in S PROVE Below(n) \in FiniteSubsetsOf(S)
    <3>1. Below(n) \in SUBSET S
      OBVIOUS
    <3>2. IsFiniteSet(Below(n))
      BY <3>1, FS_Subset
    <3> QED BY <3>1, <3>2 DEF FiniteSubsetsOf
  <2> QED BY <2>1
<1>2. PICK x \in T : \A y \in T : <<y, x>> \notin StrictSubsetOrdering(S)
  <2>1. IsWellFoundedOn(StrictSubsetOrdering(S), FiniteSubsetsOf(S))
    BY FS_StrictSubsetOrderingWellFounded
  <2> QED BY <1>1, <2>1, WFMin
<1>3. PICK m \in S : x = Below(m)
  OBVIOUS
<1>4. ASSUME NEW n \in S, n < m PROVE FALSE
  <2>1. Below(n) \in T /\ Below(n) \subseteq Below(m)
    <3>1. \A k \in S : k < n => k < m
      BY <1>4
    <3> QED BY <3>1
  <2>2. n \in Below(m) /\ n \notin Below(n)
    BY <1>4
  <2>3. <<Below(n), Below(m)>> \in StrictSubsetOrdering(S)
    BY <2>1, <2>2 DEF StrictSubsetOrdering
  <2> QED BY <1>2, <1>3, <2>1, <2>3
<1> QED BY <1>4

LEMMA MinIn == ASSUME NEW S \in SUBSET Int, S # {}, IsFiniteSet(S)
               PROVE  Min(S) \in S /\ \A n \in S : Min(S) <= n
<1>1. PICK m \in S : \A n \in S : m <= n
  BY Bottom
<1> QED BY <1>1 DEF Min

LEMMA MaxIn == ASSUME NEW S \in SUBSET Int, S # {}, IsFiniteSet(S)
               PROVE  Max(S) \in S
<1> DEFINE T == {n \in Int : -n \in S}
           h == [n \in T |-> -n]
<1>1. h \in Injection(T, S)
  <2>1. h \in [T -> S]
    OBVIOUS
  <2>2. \A a, b \in T : h[a] = h[b] => a = b
    OBVIOUS
  <2> QED BY <2>1, <2>2 DEF Injection, IsInjective
<1>2. IsFiniteSet(T)
  BY <1>1, FS_Injection
<1>3. \A n \in S : -n \in T
  OBVIOUS
<1>4. PICK m \in T : \A n \in T : m <= n
  BY <1>2, <1>3, Bottom
<1>5. -m \in S /\ \A n \in S : -m >= n
  BY <1>3, <1>4
<1> QED BY <1>5 DEF Max

LEMMA Ranges ==
  /\ IsFiniteSet(Procs) /\ IsFiniteSet(Fds) /\ IsFiniteSet(Filps) /\ IsFiniteSet(Inodes)
  /\ Procs \subseteq Nat /\ Fds \subseteq Nat /\ Filps \subseteq Nat /\ Inodes \subseteq Nat
  /\ NIL \notin Procs /\ NIL \notin Filps /\ NIL \notin Inodes
<1>1. {NR_PROCS, OPEN_MAX, NR_FILPS, NR_INODES} \subseteq Nat \ {0}
  BY FsAssumption
<1>2. OPEN_MAX - 1 \in Int
  BY <1>1
<1>3. IsFiniteSet(Procs) /\ IsFiniteSet(Fds) /\ IsFiniteSet(Filps) /\ IsFiniteSet(Inodes)
  BY FS_Interval, <1>1, <1>2 DEF Procs, Fds, Filps, Inodes
<1> QED BY <1>1, <1>3 DEF Procs, Fds, Filps, Inodes, NIL

LEMMA RefsFinite == ASSUME NEW f, NEW x PROVE IsFiniteSet(Refs(f, x))
<1>1. IsFiniteSet(Procs \X Fds)
  BY Ranges, FS_Product
<1> QED BY <1>1, FS_Subset DEF Refs

LEMMA UsesFinite == ASSUME NEW f, NEW i PROVE IsFiniteSet(Uses(f, i))
BY Ranges, FS_Subset DEF Uses

-----------------------------------------------------------------------------
(* Tables *)

LEMMA Calls ==
  /\ NoCall.fs_call = "none" /\ NoCall \in Hung \cup {NoCall}
  /\ \A c \in Hung \cup {NoCall} : (c # NoCall <=> c.fs_call \in {"READ", "WRITE"} \cup Waits)
  /\ "none" \notin {"READ", "WRITE"} \cup Waits
  /\ "READ" \notin Waits /\ "WRITE" \notin Waits
BY DEF NoCall, Hung, Waits

LEMMA Fields ==
  ASSUME NEW f \in Tables
  PROVE  /\ f.at \in [Procs -> {"free", "runs", "waits"}]
         /\ f.knows \in [Procs -> SUBSET Fds]
         /\ f.hung \in [Procs -> Hung \cup {NoCall}]
         /\ f.revived \in [Procs -> BOOLEAN]
         /\ f.fd \in [Procs -> [Fds -> Filps \cup {NIL}]]
         /\ f.filp \in [Filps -> [mode : Modes \cup {{}}, count : Nat, pos : Nat,
                                  ino : Inodes \cup {NIL}, nonblock : BOOLEAN]]
         /\ f.inode \in [Inodes -> [num : {"none", "pipe", "fifo"}, count : Nat, i_pipe : BOOLEAN,
                                    data : BoundedSeq(Procs \cup {0}, PIPE_SIZE)]]
         /\ f.susp_count \in Int /\ f.reviving \in Int
BY DEF Tables

(* Files and inodes are the same, and what is done for processes differs *)
SameFiles(f, g) == g.fd = f.fd /\ g.filp = f.filp /\ g.inode = f.inode
SameProcs(f, g) == /\ g.at = f.at /\ g.hung = f.hung /\ g.revived = f.revived
                   /\ g.susp_count = f.susp_count /\ g.reviving = f.reviving

LEMMA FilesStay ==
  ASSUME NEW f, NEW g, Files(f), g \in Tables, SameFiles(f, g)
  PROVE  Files(g)
BY DEF Files, SameFiles, Slots, FilpCounts, InodeCounts, Pipes, PipeEnds, Refs, Uses, i_size

(* Nobody begins to hang *)
Calmer(f, g) ==
  /\ SameFiles(f, g)
  /\ \A p \in Procs : Suspended(g, p) => g.hung[p] = f.hung[p] /\ (f.revived[p] => g.revived[p])

LEMMA Fewer ==
  ASSUME NEW f \in Tables, NEW g \in Tables, Calmer(f, g), NEW i, NEW c \in {"READ", "WRITE"} \cup Waits
  PROVE  Hanging(g, i, c) \subseteq Hanging(f, i, c)
<1> SUFFICES ASSUME NEW p \in Hanging(g, i, c) PROVE p \in Hanging(f, i, c)
  OBVIOUS
<1>1. p \in Procs /\ g.hung[p].fs_call = c /\ ~ g.revived[p] /\ Filp(g, p, g.hung[p].fd).ino = i
  BY DEF Hanging
<1>2. Suspended(g, p)
  BY <1>1, Calls, Fields DEF Suspended
<1>3. g.hung[p] = f.hung[p] /\ ~ f.revived[p]
  BY <1>1, <1>2 DEF Calmer
<1> QED BY <1>1, <1>3 DEF Hanging, Calmer, SameFiles, Filp

LEMMA CalmFlow ==
  ASSUME NEW f \in Tables, NEW g \in Tables, Calmer(f, g)
  PROVE  /\ \A i \in Inodes : Flows(f, i) => Flows(g, i)
         /\ AllFlow(f) => AllFlow(g)
<1>1. ASSUME NEW i \in Inodes, Flows(f, i) PROVE Flows(g, i)
  <2>1. /\ Hanging(g, i, "READ") \subseteq Hanging(f, i, "READ")
        /\ Hanging(g, i, "WRITE") \subseteq Hanging(f, i, "WRITE")
    BY Fewer
  <2>2. i_size(g, i) = i_size(f, i) /\ \A bit : Open(g, i, bit) = Open(f, i, bit)
    BY DEF Calmer, SameFiles, i_size, Open
  <2> HIDE DEF Hanging, i_size, Open
  <2> QED BY <1>1, <2>1, <2>2 DEF Flows
<1> QED BY <1>1 DEF AllFlow, Calmer, SameFiles

LEMMA CalmHooked ==
  ASSUME NEW f \in Tables, NEW g \in Tables, Calmer(f, g)
  PROVE  /\ Hooked(f) => Hooked(g)
         /\ Alone(f) => Alone(g)
<1>1. \A p \in Procs : g.hung[p].fs_call \in Waits => Suspended(g, p)
  BY Calls, Fields, SMTT(30) DEF Suspended
<1>2. Hooked(f) => Hooked(g)
  <2> SUFFICES ASSUME Hooked(f), NEW p \in Procs, Suspended(g, p)
               PROVE  /\ g.fd[p][g.hung[p].fd] # NIL
                      /\ g.hung[p].fs_call = "READ"  => "R" \in Filp(g, p, g.hung[p].fd).mode
                      /\ g.hung[p].fs_call = "WRITE" => "W" \in Filp(g, p, g.hung[p].fd).mode
    BY DEF Hooked
  <2>1. g.hung[p] = f.hung[p] /\ Suspended(f, p)
    BY SMTT(30) DEF Calmer, Suspended
  <2> QED BY <2>1 DEF Hooked, Calmer, SameFiles, Filp
<1>3. Alone(f) => Alone(g)
  <2> SUFFICES ASSUME Alone(f), NEW p \in Procs, g.hung[p].fs_call \in Waits
               PROVE  \A y \in Uses(g, g.filp[g.fd[p][g.hung[p].fd]].ino) :
                        {g.filp[g.fd[p][g.hung[p].fd]].mode, g.filp[y].mode} # {{"R"}, {"W"}}
    BY Zenon DEF Alone
  <2>1. g.hung[p] = f.hung[p]
    BY <1>1 DEF Calmer
  <2> QED BY <2>1, ZenonT(60) DEF Alone, Calmer, SameFiles, Uses
<1> QED BY <1>2, <1>3

-----------------------------------------------------------------------------
(* Replies and suspension *)

(* Only at and knows change, at for p alone, who runs if he is alive *)
Replied(f, g, p) ==
  /\ g \in Tables /\ SameFiles(f, g)
  /\ g.hung = f.hung /\ g.revived = f.revived
  /\ g.susp_count = f.susp_count /\ g.reviving = f.reviving
  /\ \A q \in Procs : q # p => g.at[q] = f.at[q]
  /\ g.at[p] = IF f.at[p] = "free" THEN "free" ELSE "runs"

LEMMA ReplyDoes ==
  ASSUME NEW f \in Tables, NEW p \in Procs, NEW new \in SUBSET Fds
  PROVE  Replied(f, reply(f, p, new), p)
<1> USE Fields
<1>1. CASE f.at[p] = "free"
  BY <1>1 DEF reply, Replied, SameFiles
<1>2. CASE f.at[p] # "free"
  <2> DEFINE at == [f.at EXCEPT ![p] = "runs"]
             knows == [f.knows EXCEPT ![p] = @ \cup new]
             g == [f EXCEPT !.at = at, !.knows = knows]
  <2>1. at \in [Procs -> {"free", "runs", "waits"}] /\ knows \in [Procs -> SUBSET Fds]
    OBVIOUS
  <2>2. at[p] = "runs" /\ \A q \in Procs : q # p => at[q] = f.at[q]
    OBVIOUS
  <2>3. reply(f, p, new) = g
    BY <1>2 DEF reply
  <2> HIDE DEF at, knows
  <2>4. g \in Tables
    BY <2>1 DEF Tables
  <2>5. /\ SameFiles(f, g) /\ g.hung = f.hung /\ g.revived = f.revived
        /\ g.susp_count = f.susp_count /\ g.reviving = f.reviving /\ g.at = at
    BY DEF SameFiles, Tables
  <2> HIDE DEF g
  <2> QED BY <1>2, <2>2, <2>3, <2>4, <2>5 DEF Replied
<1> QED BY <1>1, <1>2

LEMMA RepliedGood ==
  ASSUME NEW f, NEW g, NEW e, NEW p \in Procs, Good(f, e, p), Replied(f, g, p)
  PROVE  /\ Good(g, e, NIL) /\ ~ Suspended(g, p)
         /\ Good(g, e, p)
<1> USE DEF Good, Suspending
<1>0. f \in Tables /\ g \in Tables
  BY DEF Files, Replied
<1>1. Calmer(f, g)
  BY DEF Replied, Calmer, Suspended
<1>2. Files(g) /\ Hooked(g) /\ AllFlow(g) /\ Alone(g)
  BY <1>0, <1>1, FilesStay, CalmFlow, CalmHooked DEF Calmer
<1>3. Marks(g) /\ Covers(g)
  BY DEF Replied, Marks, Covers, HangersOf, Suspended
<1>4. ~ Suspended(g, p)
  BY DEF Told, Replied, Suspended
<1>5. Told(g, e, NIL) /\ Told(g, e, p)
  BY <1>4, Ranges DEF Told, Replied, SameFiles, Suspended
<1> QED BY <1>2, <1>3, <1>4, <1>5

LEMMA ReplyGood ==
  ASSUME NEW f, NEW e, NEW p \in Procs, NEW new \in SUBSET Fds, Good(f, e, p)
  PROVE  /\ Good(reply(f, p, new), e, NIL) /\ ~ Suspended(reply(f, p, new), p)
         /\ Good(reply(f, p, new), e, p)
BY ReplyDoes, RepliedGood DEF Good, Files

(* p hangs in call *)
Asleep(f, g, p, call) ==
  /\ g \in Tables /\ SameFiles(f, g) /\ g.revived = f.revived /\ g.reviving = f.reviving
  /\ g.susp_count = f.susp_count + 1
  /\ \A q \in Procs : q # p => g.at[q] = f.at[q] /\ g.hung[q] = f.hung[q]
  /\ g.hung[p] = call
  /\ g.at[p] = IF f.at[p] = "free" THEN "free" ELSE "waits"

LEMMA SuspendDoes ==
  ASSUME NEW f \in Tables, NEW p \in Procs, NEW call \in Hung
  PROVE  Asleep(f, suspend(f, p, call), p, call)
<1> USE Fields
<1> DEFINE at == [f.at EXCEPT ![p] = IF @ = "free" THEN @ ELSE "waits"]
           hung == [f.hung EXCEPT ![p] = call]
           n == f.susp_count + 1
           g == [f EXCEPT !.at = at, !.hung = hung, !.susp_count = n]
<1>1. /\ at \in [Procs -> {"free", "runs", "waits"}] /\ hung \in [Procs -> Hung \cup {NoCall}]
      /\ n \in Int
  OBVIOUS
<1>2. /\ at[p] = IF f.at[p] = "free" THEN "free" ELSE "waits"
      /\ hung[p] = call
      /\ \A q \in Procs : q # p => at[q] = f.at[q] /\ hung[q] = f.hung[q]
  OBVIOUS
<1>3. suspend(f, p, call) = g
  BY DEF suspend
<1> HIDE DEF at, hung
<1>4. g \in Tables
  BY <1>1 DEF Tables
<1>5. /\ SameFiles(f, g) /\ g.revived = f.revived /\ g.reviving = f.reviving
      /\ g.susp_count = f.susp_count + 1 /\ g.at = at /\ g.hung = hung
  BY DEF SameFiles, Tables
<1> HIDE DEF g
<1> QED BY <1>2, <1>3, <1>4, <1>5 DEF Asleep

-----------------------------------------------------------------------------
(* Release *)

(* Those of first, who hung on inode i in the call fs_call, are released *)
Released(f, g, i, fs_call, first) ==
  /\ g \in Tables /\ SameFiles(f, g) /\ first \subseteq Hanging(f, i, fs_call)
  /\ g.susp_count = f.susp_count - Cardinality(first)
  /\ g.reviving = f.reviving + IF fs_call \in Waits THEN 0 ELSE Cardinality(first)
  /\ \A p \in Procs \ first : /\ g.hung[p] = f.hung[p] /\ g.at[p] = f.at[p]
                              /\ g.revived[p] = f.revived[p]
  /\ \A p \in first : /\ g.hung[p] = IF fs_call \in Waits THEN NoCall ELSE f.hung[p]
                      /\ g.revived[p] <=> fs_call \notin Waits
                      /\ g.at[p] = IF fs_call \in Waits /\ f.at[p] # "free" THEN "runs"
                                   ELSE f.at[p]

LEMMA ReviveDoes ==
  ASSUME NEW f \in Tables, NEW i, NEW fs_call \in {"READ", "WRITE"} \cup Waits,
         NEW first \in SUBSET Hanging(f, i, fs_call)
  PROVE  Released(f, [revive(f, first) EXCEPT !.susp_count = @ - Cardinality(first)],
                  i, fs_call, first)
<1> USE Fields
<1> DEFINE out     == IF fs_call \in Waits THEN first ELSE {}
           told    == {p \in out : f.at[p] # "free"}
           revived == [p \in Procs |-> f.revived[p] \/ p \in first \ out]
           rev     == f.reviving + Cardinality(first \ out)
           hung    == [p \in Procs |-> IF p \in out THEN NoCall ELSE f.hung[p]]
           at      == [p \in Procs |-> IF p \in told THEN "runs" ELSE f.at[p]]
           knows   == [p \in Procs |-> f.knows[p] \cup IF p \in told THEN {f.hung[p].fd} ELSE {}]
           n       == f.susp_count - Cardinality(first)
           h == [f EXCEPT !.revived = revived, !.reviving = rev, !.hung = hung, !.at = at,
                          !.knows = knows]
           g == [h EXCEPT !.susp_count = n]
<1>1. \A p \in first : p \in Procs /\ f.hung[p].fs_call = fs_call /\ ~ f.revived[p]
  BY DEF Hanging
<1>2. \A p \in first : Suspended(f, p) /\ f.hung[p] \in Hung
  BY <1>1, Calls DEF Suspended
<1>3. {p \in first : Suspended(f, p) /\ ~ f.revived[p]} = first
  BY <1>1, <1>2
<1>4. {p \in first : f.hung[p].fs_call \in Waits} = out
  BY <1>1
<1>5. revive(f, first) = h
  BY <1>3, <1>4, ZenonT(60) DEF revive
<1>6. IsFiniteSet(first) /\ Cardinality(first) \in Nat
  BY <1>1, Ranges, FS_Subset, FS_CardinalityType
<1>7. IsFiniteSet(first \ out) /\ Cardinality(first \ out) \in Nat
  BY <1>6, FS_Subset, FS_CardinalityType
<1>8. /\ at \in [Procs -> {"free", "runs", "waits"}] /\ knows \in [Procs -> SUBSET Fds]
      /\ hung \in [Procs -> Hung \cup {NoCall}] /\ revived \in [Procs -> BOOLEAN]
      /\ n \in Int /\ rev \in Int
  <2>1. \A p \in told : f.hung[p].fd \in Fds
    BY <1>2 DEF Hung
  <2>2. knows \in [Procs -> SUBSET Fds]
    BY <2>1
  <2>3. hung \in [Procs -> Hung \cup {NoCall}]
    OBVIOUS
  <2>4. revived \in [Procs -> BOOLEAN]
    OBVIOUS
  <2>5. n \in Int /\ rev \in Int
    BY <1>6, <1>7
  <2> QED BY <2>2, <2>3, <2>4, <2>5
<1>9. rev = f.reviving + IF fs_call \in Waits THEN 0 ELSE Cardinality(first)
  <2>1. CASE fs_call \in Waits
    BY <2>1, FS_EmptySet
  <2>2. CASE fs_call \notin Waits
    BY <2>2
  <2> QED BY <2>1, <2>2
<1>10. /\ \A p \in Procs \ first : hung[p] = f.hung[p] /\ at[p] = f.at[p]
                                   /\ revived[p] = f.revived[p]
       /\ \A p \in first : /\ hung[p] = IF fs_call \in Waits THEN NoCall ELSE f.hung[p]
                           /\ at[p] = IF fs_call \in Waits /\ f.at[p] # "free" THEN "runs"
                                      ELSE f.at[p]
  BY <1>1
<1>11. \A p \in first : revived[p] <=> fs_call \notin Waits
  BY <1>1
<1> HIDE DEF at, knows, hung, revived, n, rev
<1>12. h.susp_count = f.susp_count
  BY DEF Tables
<1>13. g = [revive(f, first) EXCEPT !.susp_count = @ - Cardinality(first)]
  BY <1>5, <1>12 DEF n
<1>14. g \in Tables
  BY <1>8 DEF Tables
<1>15. /\ SameFiles(f, g) /\ g.at = at /\ g.hung = hung /\ g.revived = revived
       /\ g.susp_count = n /\ g.reviving = rev
  BY <1>8 DEF SameFiles, Tables
<1> HIDE DEF g, h
<1>16. Released(f, g, i, fs_call, first)
  BY <1>9, <1>10, <1>11, <1>14, <1>15 DEF Released, n
<1> QED BY <1>13, <1>16

(* With a count that does not fall short everybody is released *)
LEMMA ReleaseDoes ==
  ASSUME NEW f \in Tables, NEW i, NEW fs_call \in {"READ", "WRITE"} \cup Waits, NEW count \in Int
  PROVE  /\ \E first : Released(f, release(f, i, fs_call, count), i, fs_call, first)
         /\ count <= 0 \/ count >= Cardinality(Hanging(f, i, fs_call)) =>
              Released(f, release(f, i, fs_call, count), i, fs_call, Hanging(f, i, fs_call))
<1> DEFINE hang  == Hanging(f, i, fs_call)
           first == {p \in hang : count <= 0 \/ Cardinality({q \in hang : q <= p}) <= count}
<1>1. release(f, i, fs_call, count) =
        [revive(f, first) EXCEPT !.susp_count = @ - Cardinality(first)]
  BY DEF release
<1>2. Released(f, release(f, i, fs_call, count), i, fs_call, first)
  <2>1. first \in SUBSET Hanging(f, i, fs_call)
    OBVIOUS
  <2> HIDE DEF first
  <2> QED BY <1>1, <2>1, ReviveDoes
<1>3. ASSUME count <= 0 \/ count >= Cardinality(hang) PROVE first = hang
  <2>1. IsFiniteSet(hang)
    BY Ranges, FS_Subset DEF Hanging
  <2>2. CASE count <= 0
    BY <2>2
  <2>3. CASE count >= Cardinality(hang)
    <3> SUFFICES ASSUME NEW p \in hang PROVE Cardinality({q \in hang : q <= p}) <= count
      OBVIOUS
    <3> HIDE DEF hang
    <3> DEFINE low == {q \in hang : q <= p}
    <3>1. low \in SUBSET hang
      OBVIOUS
    <3>2. Cardinality(low) <= Cardinality(hang) /\ Cardinality(low) \in Nat /\ Cardinality(hang) \in Nat
      BY <2>1, <3>1, FS_Subset, FS_CardinalityType
    <3> QED BY <2>3, <3>2
  <2> QED BY <1>3, <2>2, <2>3
<1> QED BY <1>2, <1>3

LEMMA HangersAre ==
  ASSUME NEW f \in Tables, NEW i, NEW c \in {"READ", "WRITE"} \cup Waits, NEW p \in Hanging(f, i, c)
  PROVE  /\ p \in Procs /\ f.hung[p].fs_call = c /\ ~ f.revived[p] /\ Suspended(f, p)
         /\ f.hung[p] \in Hung
<1>1. p \in Procs /\ f.hung[p].fs_call = c /\ ~ f.revived[p]
  BY DEF Hanging
<1> QED BY <1>1, Calls, Fields DEF Suspended

LEMMA ReleasedKeeps ==
  ASSUME NEW f \in Tables, NEW g, NEW i, NEW c \in {"READ", "WRITE"} \cup Waits, NEW first,
         Released(f, g, i, c, first)
  PROVE  /\ Calmer(f, g)
         /\ Marks(f) => Marks(g)
         /\ Covers(f) => Covers(g)
         /\ \A e, w : Told(f, e, w) => Told(g, e, w)
         /\ \A p \in Procs : ~ Suspended(f, p) => ~ Suspended(g, p) /\ g.at[p] = f.at[p]
         /\ \A p \in Procs : g.at[p] = "free" <=> f.at[p] = "free"
         /\ first = Hanging(f, i, c) => Hanging(g, i, c) = {}
<1>r. /\ g \in Tables /\ SameFiles(f, g) /\ first \subseteq Hanging(f, i, c)
      /\ g.susp_count = f.susp_count - Cardinality(first)
      /\ g.reviving = f.reviving + IF c \in Waits THEN 0 ELSE Cardinality(first)
  BY DEF Released
<1>p. \A p \in Procs \ first : /\ g.hung[p] = f.hung[p] /\ g.at[p] = f.at[p]
                               /\ g.revived[p] = f.revived[p]
  BY DEF Released
<1>q. \A p \in first : /\ g.hung[p] = IF c \in Waits THEN NoCall ELSE f.hung[p]
                       /\ g.revived[p] <=> c \notin Waits
                       /\ g.at[p] = IF c \in Waits /\ f.at[p] # "free" THEN "runs" ELSE f.at[p]
  BY DEF Released
<1>0. first \subseteq Procs /\ \A p \in first : /\ f.hung[p].fs_call = c /\ ~ f.revived[p]
                                                /\ Suspended(f, p) /\ f.hung[p] \in Hung
  <2>1. first \subseteq Hanging(f, i, c)
    BY <1>r
  <2> SUFFICES ASSUME NEW p \in first
               PROVE  /\ p \in Procs /\ f.hung[p].fs_call = c /\ ~ f.revived[p]
                      /\ Suspended(f, p) /\ f.hung[p] \in Hung
    OBVIOUS
  <2>2. p \in Hanging(f, i, c)
    BY <2>1
  <2>3. p \in Procs /\ f.hung[p].fs_call = c /\ ~ f.revived[p]
    BY <2>2 DEF Hanging
  <2>4. f.hung[p] \in Hung \cup {NoCall} /\ c # "none"
    BY <2>3, Calls, Fields
  <2>5. f.hung[p] # NoCall
    BY <2>3, <2>4, Calls
  <2> QED BY <2>3, <2>4, <2>5 DEF Suspended
<1>1. Calmer(f, g)
  <2>1. ASSUME NEW p \in Procs, Suspended(g, p)
        PROVE  g.hung[p] = f.hung[p] /\ (f.revived[p] => g.revived[p])
    <3>1. CASE p \in first
      BY <1>q, <2>1, <3>1, <1>0 DEF Suspended
    <3>2. CASE p \notin first
      BY <1>p, <3>2
    <3> QED BY <3>1, <3>2
  <2> QED BY <1>r, <2>1 DEF Calmer
<1>2. IsFiniteSet(first) /\ Cardinality(first) \in Nat
  BY <1>0, Ranges, FS_Subset, FS_CardinalityType
<1>3. ASSUME Marks(f) PROVE Marks(g)
  <2> DEFINE R == {p \in Procs : f.revived[p]}
             S == {p \in Procs : g.revived[p]}
  <2>1. IsFiniteSet(R) /\ f.reviving = Cardinality(R) /\ Cardinality(R) \in Nat
    BY <1>3, Ranges, FS_Subset, FS_CardinalityType DEF Marks
  <2>2. CASE c \in Waits
    <3>1. \A p \in R : p \notin first
      BY <1>0
    <3>2. S = R
      <4>1. \A p \in Procs : g.revived[p] <=> f.revived[p]
        BY <1>0, <1>p, <1>q, <2>2
      <4> QED BY <4>1
    <3>3. \A p \in S : g.hung[p].fs_call \in {"READ", "WRITE"}
      BY <1>3, <1>p, <3>1, <3>2 DEF Marks
    <3>4. g.reviving = Cardinality(S)
      <4>1. g.reviving = f.reviving
        BY <1>r, <2>2, Fields
      <4> QED BY <2>1, <3>2, <4>1
    <3> QED BY <3>3, <3>4 DEF Marks
  <2>3. CASE c \notin Waits
    <3>1. S = R \cup first /\ R \cap first = {}
      <4>1. \A p \in Procs : g.revived[p] <=> (f.revived[p] \/ p \in first)
        BY <1>0, <1>p, <1>q, <2>3
      <4> QED BY <1>0, <4>1
    <3>2. Cardinality(S) = Cardinality(R) + Cardinality(first)
      <4> HIDE DEF R, S
      <4>1. Cardinality(S) = Cardinality(R) + Cardinality(first) - Cardinality(R \cap first)
        BY <1>2, <2>1, <3>1, FS_Union
      <4> QED BY <1>2, <2>1, <3>1, <4>1, FS_EmptySet
    <3>3. g.reviving = Cardinality(S)
      BY <1>r, <2>1, <2>3, <3>2, <1>2
    <3>4. \A p \in S : g.hung[p].fs_call \in {"READ", "WRITE"}
      BY <1>0, <1>p, <1>q, <1>3, <2>3, <3>1 DEF Marks
    <3> QED BY <3>3, <3>4 DEF Marks
  <2> QED BY <2>2, <2>3
<1>4. ASSUME Covers(f) PROVE Covers(g)
  <2> DEFINE H == HangersOf(f)
             G == HangersOf(g)
  <2>1. H \subseteq Procs /\ first \subseteq H
    BY <1>0 DEF HangersOf
  <2>2. G = H \ first
    <3>1. ASSUME NEW p \in Procs PROVE p \in G <=> p \in H \ first
      <4>1. CASE p \in first
        BY <1>q, <4>1, <1>0 DEF HangersOf, Suspended
      <4>2. CASE p \notin first
        BY <1>p, <4>2 DEF HangersOf, Suspended
      <4> QED BY <4>1, <4>2
    <3> QED BY <3>1, <2>1 DEF HangersOf
  <2>3. IsFiniteSet(H) /\ H \cap first = first
    BY <2>1, Ranges, FS_Subset
  <2> HIDE DEF G, H
  <2>4. Cardinality(G) = Cardinality(H) - Cardinality(first) /\ Cardinality(H) \in Nat
    <3>1. Cardinality(H \ first) = Cardinality(H) - Cardinality(H \cap first)
      BY <2>3, FS_Difference
    <3>2. Cardinality(H) \in Nat
      BY <2>3, FS_CardinalityType
    <3> QED BY <2>2, <2>3, <3>1, <3>2
  <2>5. f.susp_count >= Cardinality(H) /\ f.susp_count \in Int
    BY <1>4, Fields DEF Covers, H
  <2>6. g.susp_count >= Cardinality(G)
    BY <1>r, <1>2, <2>4, <2>5
  <2> QED BY <2>6 DEF Covers, G
<1>5. ASSUME NEW e, NEW w, Told(f, e, w) PROVE Told(g, e, w)
  <2>1. ASSUME NEW p \in Procs
        PROVE  /\ g.at[p] = "waits" => Suspended(g, p) \/ p = w
               /\ Suspended(g, p) => (g.at[p] = "waits" \/ p = e) /\ p # w
               /\ g.at[p] = "free" =>
                    p = e \/ (~ Suspended(g, p) /\ \A d \in Fds : g.fd[p][d] = NIL)
               /\ g.at[p] = "free" <=> f.at[p] = "free"
    <3>1. CASE p \in first
      BY <1>r, <1>q, <1>0, <1>5, <3>1 DEF Told, Suspended, SameFiles
    <3>2. CASE p \notin first
      BY <1>r, <1>p, <1>5, <3>2 DEF Told, Suspended, SameFiles
    <3> QED BY <3>1, <3>2
  <2> QED BY <1>5, <2>1 DEF Told
<1>6. ASSUME NEW p \in Procs
      PROVE  /\ ~ Suspended(f, p) => ~ Suspended(g, p) /\ g.at[p] = f.at[p]
             /\ g.at[p] = "free" <=> f.at[p] = "free"
  <2>1. CASE p \in first
    BY <1>0, <1>q, <2>1
  <2>2. CASE p \notin first
    BY <1>p, <2>2 DEF Suspended
  <2> QED BY <2>1, <2>2
<1>7. ASSUME first = Hanging(f, i, c) PROVE Hanging(g, i, c) = {}
  <2>1. Hanging(g, i, c) \subseteq first
    BY <1>r, <1>1, <1>7, Fewer
  <2>2. ASSUME NEW p \in first, p \in Hanging(g, i, c) PROVE FALSE
    BY <1>0, <1>q, <2>2, Calls DEF Hanging
  <2> QED BY <2>1, <2>2
<1> QED BY <1>1, <1>3, <1>4, <1>5, <1>6, <1>7

-----------------------------------------------------------------------------
(* References *)

LEMMA DataIs ==
  ASSUME NEW data
  PROVE  data \in BoundedSeq(Procs \cup {0}, PIPE_SIZE) <=>
           \E m \in 0 .. PIPE_SIZE : data \in [1 .. m -> Procs \cup {0}] /\ Len(data) = m
<1>1. ASSUME NEW m \in Nat, data \in [1 .. m -> Procs \cup {0}] PROVE Len(data) = m
  <2>1. data \in Seq(Procs \cup {0}) /\ DOMAIN data = 1 .. m
    BY <1>1, SeqDef
  <2>2. Len(data) \in Nat /\ 1 .. Len(data) = 1 .. m
    BY <2>1, LenProperties
  <2> QED BY <2>2
<1> QED BY <1>1, FsAssumption DEF BoundedSeq, SeqOf

LEMMA SizeType ==
  ASSUME NEW f \in Tables, NEW i \in Inodes
  PROVE  i_size(f, i) \in 0 .. PIPE_SIZE /\ (i_size(f, i) = 0 <=> f.inode[i].data = <<>>)
<1>1. f.inode[i].data \in BoundedSeq(Procs \cup {0}, PIPE_SIZE)
  BY Fields
<1>2. PICK m \in 0 .. PIPE_SIZE : /\ f.inode[i].data \in [1 .. m -> Procs \cup {0}]
                                  /\ Len(f.inode[i].data) = m
  BY <1>1, DataIs
<1>3. f.inode[i].data \in Seq(Procs \cup {0})
  BY <1>2, SeqDef
<1> QED BY <1>2, <1>3, EmptySeq DEF i_size

(* Descriptor d of p, which was for old, is for new *)
LEMMA SetFd ==
  ASSUME NEW f \in Tables, NEW g, NEW p \in Procs, NEW d \in Fds, NEW new \in Filps \cup {NIL},
         g.fd = [f.fd EXCEPT ![p] = [@ EXCEPT ![d] = new]], f.fd[p][d] # new
  PROVE  /\ Cardinality(Refs(g, new)) = Cardinality(Refs(f, new)) + 1
         /\ Cardinality(Refs(g, f.fd[p][d])) = Cardinality(Refs(f, f.fd[p][d])) - 1
         /\ \A y : y \notin {new, f.fd[p][d]} => Refs(g, y) = Refs(f, y)
<1> DEFINE pd == <<p, d>>
           old == f.fd[p][d]
<1>1. \A q \in Procs, c \in Fds : g.fd[q][c] = IF q = p /\ c = d THEN new ELSE f.fd[q][c]
  BY Fields
<1>2. \A qc \in Procs \X Fds : qc = <<qc[1], qc[2]>> /\ qc[1] \in Procs /\ qc[2] \in Fds
  OBVIOUS
<1>3. \A qc \in Procs \X Fds : qc = pd <=> qc[1] = p /\ qc[2] = d
  BY <1>2
<1>4. \A qc \in Procs \X Fds : g.fd[qc[1]][qc[2]] = IF qc = pd THEN new ELSE f.fd[qc[1]][qc[2]]
  BY <1>1, <1>2, <1>3
<1>5. pd \in Procs \X Fds /\ f.fd[pd[1]][pd[2]] = old
  OBVIOUS
<1> HIDE DEF pd, old
<1>6. Refs(g, new) = Refs(f, new) \cup {pd} /\ pd \notin Refs(f, new)
  BY <1>4, <1>5 DEF Refs, old
<1>7. Refs(g, old) = Refs(f, old) \ {pd} /\ pd \in Refs(f, old)
  BY <1>4, <1>5 DEF Refs, old
<1>8. \A y : y \notin {new, old} => Refs(g, y) = Refs(f, y)
  BY <1>4, <1>5 DEF Refs
<1>9. Cardinality(Refs(g, new)) = Cardinality(Refs(f, new)) + 1
  BY <1>6, RefsFinite, FS_AddElement
<1>10. Cardinality(Refs(g, old)) = Cardinality(Refs(f, old)) - 1
  BY <1>7, RefsFinite, FS_RemoveElement
<1> QED BY <1>8, <1>9, <1>10 DEF old

LEMMA Counted ==
  ASSUME NEW f, FilpCounts(f), NEW p \in Procs, NEW d \in Fds, NEW x \in Filps, f.fd[p][d] = x
  PROVE  f.filp[x].count # 0
<1>1. <<p, d>> \in Refs(f, x)
  BY DEF Refs
<1> QED BY <1>1, RefsFinite, FS_EmptySet DEF FilpCounts

LEMMA UsedCounted ==
  ASSUME NEW f, InodeCounts(f), NEW x \in Filps, NEW i \in Inodes, f.filp[x].ino = i
  PROVE  f.inode[i].count # 0
<1>1. x \in Uses(f, i)
  BY SMTT(30) DEF Uses
<1> QED BY <1>1, UsesFinite, FS_EmptySet DEF InodeCounts

(* Who hangs, hangs on a file that is open *)
LEMMA HungFile ==
  ASSUME NEW f, Files(f), Hooked(f), NEW p \in Procs, Suspended(f, p)
  PROVE  /\ f.hung[p] \in Hung /\ f.hung[p].fd \in Fds
         /\ f.fd[p][f.hung[p].fd] \in Filps
         /\ f.filp[f.fd[p][f.hung[p].fd]].count # 0
         /\ f.filp[f.fd[p][f.hung[p].fd]].ino \in Inodes
         /\ f.inode[f.filp[f.fd[p][f.hung[p].fd]].ino].count # 0
<1>1. f \in Tables /\ FilpCounts(f) /\ InodeCounts(f) /\ Slots(f)
  BY DEF Files
<1>2. f.hung[p] \in Hung /\ f.hung[p].fd \in Fds
  BY <1>1, Fields DEF Suspended, Hung
<1> DEFINE x == f.fd[p][f.hung[p].fd]
<1>3. x \in Filps
  BY <1>1, <1>2, Fields DEF Hooked
<1>4. f.filp[x].count # 0
  BY <1>1, <1>2, <1>3, Counted, SMTT(30)
<1>5. f.filp[x].ino \in Inodes
  BY <1>1, <1>3, <1>4 DEF Slots
<1> QED BY <1>1, <1>2, <1>3, <1>4, <1>5, UsedCounted, Zenon

-----------------------------------------------------------------------------
(* Positions and data *)

(* Everything is the same but for positions, flags and data *)
Shape(f, g) ==
  /\ g.fd = f.fd /\ SameProcs(f, g)
  /\ \A x \in Filps : /\ g.filp[x].mode = f.filp[x].mode /\ g.filp[x].count = f.filp[x].count
                      /\ g.filp[x].ino = f.filp[x].ino
  /\ \A i \in Inodes : /\ g.inode[i].num = f.inode[i].num /\ g.inode[i].count = f.inode[i].count
                       /\ g.inode[i].i_pipe = f.inode[i].i_pipe

(* Slots that are free are the same *)
FreeSame(f, g) ==
  /\ \A x \in Filps : f.filp[x].count = 0 => g.filp[x] = f.filp[x]
  /\ \A i \in Inodes : f.inode[i].count = 0 => g.inode[i] = f.inode[i]

LEMMA ShapeTrans ==
  ASSUME NEW f, NEW g, NEW h, Shape(f, g), Shape(g, h) PROVE Shape(f, h)
BY DEF Shape, SameProcs

LEMMA ShapeSets ==
  ASSUME NEW f \in Tables, NEW g, Shape(f, g)
  PROVE  /\ \A x : Refs(g, x) = Refs(f, x)
         /\ \A i : Uses(g, i) = Uses(f, i)
         /\ \A i, bit : Open(g, i, bit) = Open(f, i, bit)
         /\ \A p \in Procs : Suspended(g, p) <=> Suspended(f, p)
         /\ HangersOf(g) = HangersOf(f)
BY DEF Shape, SameProcs, Refs, Uses, Open, Suspended, HangersOf

LEMMA ShapeHangers ==
  ASSUME NEW f, NEW g, Files(f), Hooked(f), Shape(f, g), NEW i,
         NEW c \in {"READ", "WRITE"} \cup Waits
  PROVE  Hanging(g, i, c) = Hanging(f, i, c)
<1>1. ASSUME NEW p \in Procs, f.hung[p].fs_call = c
      PROVE  Filp(g, p, g.hung[p].fd).ino = Filp(f, p, f.hung[p].fd).ino
  <2>1. Suspended(f, p)
    BY <1>1, Calls, Fields DEF Suspended, Files
  <2>2. f.fd[p][f.hung[p].fd] \in Filps
    BY <2>1, HungFile, Zenon
  <2> QED BY <2>2, SMTT(30) DEF Filp, Shape, SameProcs
<1> QED BY <1>1 DEF Hanging, Shape, SameProcs

LEMMA ShapeKeeps ==
  ASSUME NEW f, NEW g \in Tables, NEW e, NEW w, Good(f, e, w), Shape(f, g), FreeSame(f, g),
         \A i \in Inodes : f.inode[i].num = "pipe" =>
           PipeEnds(g, i) /\ (Hanging(f, i, "READ") # {} => i_size(g, i) = 0)
  PROVE  Good(g, e, w)
<1>0. f \in Tables /\ Files(f) /\ Hooked(f) /\ AllFlow(f) /\ Alone(f)
  BY DEF Good, Files, Suspending
<1>s. /\ \A x : Refs(g, x) = Refs(f, x)
      /\ \A i : Uses(g, i) = Uses(f, i)
      /\ \A i, bit : Open(g, i, bit) = Open(f, i, bit)
      /\ \A p \in Procs : Suspended(g, p) <=> Suspended(f, p)
      /\ HangersOf(g) = HangersOf(f)
  BY <1>0, ShapeSets
<1>1. Files(g)
  <2>1. FilpCounts(g) /\ InodeCounts(g)
    BY <1>0, <1>s DEF Files, FilpCounts, InodeCounts, Shape
  <2>2. Slots(g)
    BY <1>0 DEF Files, Slots, Shape, FreeSame
  <2>3. Pipes(g)
    BY DEF Pipes, Shape
  <2> QED BY <2>1, <2>2, <2>3 DEF Files
<1>2. Told(g, e, w)
  BY <1>s DEF Good, Told, Shape, SameProcs
<1>3. Marks(g) /\ Covers(g)
  BY <1>s, SMTT(30) DEF Good, Suspending, Marks, Covers, Shape, SameProcs
<1>f. \A p \in Procs : Suspended(f, p) => f.fd[p][f.hung[p].fd] \in Filps
  BY <1>0, HungFile, ZenonT(60)
<1>4. Hooked(g)
  BY <1>0, <1>s, <1>f, ZenonT(60) DEF Hooked, Shape, SameProcs, Filp
<1>5. AllFlow(g)
  <2> SUFFICES ASSUME NEW i \in Inodes, g.inode[i].num = "pipe" PROVE Flows(g, i)
    BY DEF AllFlow
  <2>1. f.inode[i].num = "pipe" /\ Flows(f, i)
    BY <1>0 DEF AllFlow, Shape
  <2>2. Hanging(g, i, "READ") = Hanging(f, i, "READ") /\ Hanging(g, i, "WRITE") = Hanging(f, i, "WRITE")
    BY <1>0, ShapeHangers
  <2>3. Hanging(f, i, "READ") # {} => i_size(g, i) = 0
    BY <2>1
  <2> HIDE DEF Hanging, Open, i_size
  <2> QED BY <1>s, <2>1, <2>2, <2>3 DEF Flows
<1>6. Alone(g)
  <2> SUFFICES ASSUME NEW p \in Procs, g.hung[p].fs_call \in Waits
               PROVE  \A y \in Uses(g, g.filp[g.fd[p][g.hung[p].fd]].ino) :
                        {g.filp[g.fd[p][g.hung[p].fd]].mode, g.filp[y].mode} # {{"R"}, {"W"}}
    BY Zenon DEF Alone
  <2>1. f.hung[p].fs_call \in Waits /\ g.hung[p] = f.hung[p]
    BY DEF Shape, SameProcs
  <2> DEFINE x == f.fd[p][f.hung[p].fd]
  <2>2. x \in Filps
    BY <1>0, <1>f, <2>1, Calls, Fields DEF Suspended
  <2>3. \A y \in Uses(f, f.filp[x].ino) : {f.filp[x].mode, f.filp[y].mode} # {{"R"}, {"W"}}
    BY <1>0, <2>1, Zenon DEF Alone
  <2>4. \A y \in Filps : g.filp[y].mode = f.filp[y].mode /\ g.filp[y].ino = f.filp[y].ino
    BY DEF Shape
  <2>5. g.fd[p][g.hung[p].fd] = x
    BY <2>1 DEF Shape
  <2>6. \A i : Uses(f, i) \subseteq Filps
    BY DEF Uses
  <2> HIDE DEF x
  <2> QED BY <1>s, <2>2, <2>3, <2>4, <2>5, <2>6, ZenonT(60)
<1> QED BY <1>1, <1>2, <1>3, <1>4, <1>5, <1>6 DEF Good, Suspending

LEMMA SetPos ==
  ASSUME NEW f \in Tables, NEW x \in Filps, NEW n \in Nat, f.filp[x].count # 0
  PROVE  LET g == [f EXCEPT !.filp[x].pos = n]
         IN  /\ g \in Tables /\ Shape(f, g) /\ FreeSame(f, g) /\ g.inode = f.inode
             /\ g.filp[x].pos = n /\ \A y \in Filps : y # x => g.filp[y] = f.filp[y]
<1> DEFINE v == [f.filp[x] EXCEPT !.pos = n]
           filp == [f.filp EXCEPT ![x] = v]
           g == [f EXCEPT !.filp = filp]
<1>1. /\ v \in [mode : Modes \cup {{}}, count : Nat, pos : Nat, ino : Inodes \cup {NIL},
                nonblock : BOOLEAN]
      /\ v.pos = n /\ v.mode = f.filp[x].mode /\ v.count = f.filp[x].count
      /\ v.ino = f.filp[x].ino
  <2> DEFINE M == Modes \cup {{}}
             I == Inodes \cup {NIL}
  <2>1. f.filp[x] \in [mode : M, count : Nat, pos : Nat, ino : I, nonblock : BOOLEAN]
    BY Fields
  <2> HIDE DEF M, I
  <2>2. /\ v \in [mode : M, count : Nat, pos : Nat, ino : I, nonblock : BOOLEAN]
        /\ v.pos = n /\ v.mode = f.filp[x].mode /\ v.count = f.filp[x].count
        /\ v.ino = f.filp[x].ino
    BY <2>1
  <2> QED BY <2>2 DEF M, I
<1> HIDE DEF v
<1>2. /\ filp \in [Filps -> [mode : Modes \cup {{}}, count : Nat, pos : Nat,
                            ino : Inodes \cup {NIL}, nonblock : BOOLEAN]]
      /\ filp[x] = v /\ \A y \in Filps : y # x => filp[y] = f.filp[y]
  BY <1>1, Fields
<1> HIDE DEF filp
<1>3. g \in Tables /\ g.filp = filp /\ g.fd = f.fd /\ SameProcs(f, g) /\ g.inode = f.inode
  BY <1>2 DEF Tables, SameProcs
<1>4. [f EXCEPT !.filp[x].pos = n] = g
  BY DEF filp, v
<1> HIDE DEF g
<1>5. Shape(f, g) /\ FreeSame(f, g)
  BY <1>1, <1>2, <1>3 DEF Shape, FreeSame
<1> QED BY <1>1, <1>2, <1>3, <1>4, <1>5

LEMMA SetData ==
  ASSUME NEW f \in Tables, NEW i \in Inodes, NEW data \in BoundedSeq(Procs \cup {0}, PIPE_SIZE),
         f.inode[i].count # 0
  PROVE  LET g == [f EXCEPT !.inode[i].data = data]
         IN  /\ g \in Tables /\ Shape(f, g) /\ FreeSame(f, g) /\ g.filp = f.filp
             /\ i_size(g, i) = Len(data) /\ g.inode[i].data = data
             /\ \A j \in Inodes : j # i => g.inode[j] = f.inode[j]
<1> DEFINE D == BoundedSeq(Procs \cup {0}, PIPE_SIZE)
           Num == {"none", "pipe", "fifo"}
           v == [f.inode[i] EXCEPT !.data = data]
           inode == [f.inode EXCEPT ![i] = v]
           g == [f EXCEPT !.inode = inode]
<1>0. data \in D /\ f.inode \in [Inodes -> [num : Num, count : Nat, i_pipe : BOOLEAN, data : D]]
  BY Fields
<1> HIDE DEF D, Num
<1>1. /\ v \in [num : Num, count : Nat, i_pipe : BOOLEAN, data : D]
      /\ v.data = data /\ v.num = f.inode[i].num /\ v.count = f.inode[i].count
      /\ v.i_pipe = f.inode[i].i_pipe
  BY <1>0
<1> HIDE DEF v
<1>2. /\ inode \in [Inodes -> [num : Num, count : Nat, i_pipe : BOOLEAN, data : D]]
      /\ inode[i] = v /\ \A y \in Inodes : y # i => inode[y] = f.inode[y]
  BY <1>0, <1>1
<1> HIDE DEF inode
<1>3. g \in Tables
  BY <1>2 DEF Tables, D, Num
<1>4. g.inode = inode /\ g.fd = f.fd /\ SameProcs(f, g) /\ g.filp = f.filp
  BY DEF Tables, SameProcs
<1>5. [f EXCEPT !.inode[i].data = data] = g
  BY DEF inode, v
<1> HIDE DEF g
<1>6. Shape(f, g) /\ FreeSame(f, g)
  BY <1>1, <1>2, <1>4 DEF Shape, FreeSame
<1>7. g.inode[i].data = data
  BY <1>1, <1>2, <1>4
<1>8. i_size(g, i) = Len(data)
  BY <1>7, SMTT(30) DEF i_size
<1> QED BY <1>2, <1>3, <1>4, <1>5, <1>6, <1>7, <1>8

(* A descriptor that is in use *)
LEMMA InUse ==
  ASSUME NEW f, Files(f), NEW p \in Procs, NEW d \in Fds, f.fd[p][d] # NIL
  PROVE  /\ f \in Tables
         /\ f.fd[p][d] \in Filps /\ f.filp[f.fd[p][d]].count # 0
         /\ f.filp[f.fd[p][d]].mode \in Modes /\ f.filp[f.fd[p][d]].ino \in Inodes
         /\ f.inode[f.filp[f.fd[p][d]].ino].count # 0
         /\ f.fd[p][d] \in Uses(f, f.filp[f.fd[p][d]].ino)
<1>1. f \in Tables /\ FilpCounts(f) /\ InodeCounts(f) /\ Slots(f)
  BY DEF Files
<1> DEFINE x == f.fd[p][d]
<1>2. x \in Filps
  BY <1>1, Fields
<1>3. f.filp[x].count # 0
  BY <1>1, <1>2, Counted
<1>4. f.filp[x].mode \in Modes /\ f.filp[x].ino \in Inodes
  BY <1>1, <1>2, <1>3 DEF Slots
<1>5. x \in Uses(f, f.filp[x].ino)
  BY <1>2 DEF Uses
<1> QED BY <1>1, <1>2, <1>3, <1>4, <1>5, UsedCounted

LEMMA FoundFilp ==
  ASSUME NEW f \in Tables, NEW i, NEW bit
  PROVE  /\ find_filp(f, i, bit) = NIL <=> Open(f, i, bit) = {}
         /\ find_filp(f, i, bit) # NIL => find_filp(f, i, bit) \in Open(f, i, bit)
<1> DEFINE S == Open(f, i, bit)
<1>1. S \subseteq Filps
  BY DEF Open
<1>2. IsFiniteSet(S) /\ S \in SUBSET Int
  <2> HIDE DEF S
  <2>1. IsFiniteSet(S)
    BY <1>1, Ranges, FS_Subset
  <2>2. S \in SUBSET Int
    BY <1>1, Ranges
  <2> QED BY <2>1, <2>2
<1>3. S # {} => Min(S) \in S /\ Min(S) # NIL
  <2> HIDE DEF S
  <2> QED BY <1>1, <1>2, Ranges, MinIn
<1> QED BY <1>3 DEF find_filp

LEMMA FcntlGood ==
  ASSUME NEW f, NEW e, NEW w, Good(f, e, w), NEW p \in Procs, NEW d \in Fds, NEW nonblock \in BOOLEAN
  PROVE  Good(do_fcntl(f, p, d, nonblock), e, w)
<1>1. CASE f.fd[p][d] = NIL
  BY <1>1 DEF do_fcntl
<1>2. CASE f.fd[p][d] # NIL
  <2> DEFINE x == f.fd[p][d]
             v == [f.filp[x] EXCEPT !.nonblock = nonblock]
             filp == [f.filp EXCEPT ![x] = v]
             g == [f EXCEPT !.filp = filp]
  <2>0. Files(f) /\ f \in Tables /\ x \in Filps /\ f.filp[x].count # 0
    BY <1>2, InUse DEF Good
  <2> HIDE DEF x
  <2>1. /\ v \in [mode : Modes \cup {{}}, count : Nat, pos : Nat, ino : Inodes \cup {NIL},
                  nonblock : BOOLEAN]
        /\ v.mode = f.filp[x].mode /\ v.count = f.filp[x].count
        /\ v.ino = f.filp[x].ino /\ v.pos = f.filp[x].pos
    BY <2>0, Fields
  <2>2. do_fcntl(f, p, d, nonblock) = g
    BY <1>2 DEF do_fcntl, x
  <2> HIDE DEF v
  <2>3. /\ filp \in [Filps -> [mode : Modes \cup {{}}, count : Nat, pos : Nat,
                              ino : Inodes \cup {NIL}, nonblock : BOOLEAN]]
        /\ filp[x] = v /\ \A y \in Filps : y # x => filp[y] = f.filp[y]
    BY <2>0, <2>1, Fields
  <2> HIDE DEF filp
  <2>4. g \in Tables /\ g.filp = filp /\ g.fd = f.fd /\ SameProcs(f, g) /\ g.inode = f.inode
    BY <2>0, <2>3 DEF Tables, SameProcs
  <2> HIDE DEF g
  <2>5. Shape(f, g) /\ FreeSame(f, g)
    BY <2>0, <2>1, <2>3, <2>4 DEF Shape, FreeSame
  <2>6. /\ \A y \in Filps : g.filp[y].pos = f.filp[y].pos
        /\ \A i : Uses(g, i) = Uses(f, i) /\ i_size(g, i) = i_size(f, i)
    BY <2>0, <2>1, <2>3, <2>4 DEF Uses, i_size
  <2>7. ASSUME NEW i \in Inodes, f.inode[i].num = "pipe"
        PROVE  PipeEnds(g, i) /\ (Hanging(f, i, "READ") # {} => i_size(g, i) = 0)
    <3>1. PipeEnds(f, i) /\ Flows(f, i)
      BY <2>7 DEF Good, Files, Pipes, AllFlow
    <3>2. \A y \in Uses(f, i) : y \in Filps
      BY DEF Uses
    <3>3. PipeEnds(g, i)
      BY <2>4, <2>5, <2>6, <3>1, <3>2 DEF PipeEnds, Shape
    <3> QED BY <2>6, <3>1, <3>3 DEF Flows
  <2>8. Good(g, e, w)
    BY <2>4, <2>5, <2>7, ShapeKeeps
  <2> QED BY <2>2, <2>8, SMTT(30)
<1> QED BY <1>1, <1>2

-----------------------------------------------------------------------------
(* What release() and suspend() leave *)

LEMMA ReleasedGood ==
  ASSUME NEW f, NEW g, NEW e, NEW w, NEW i, NEW c \in {"READ", "WRITE"} \cup Waits, NEW first,
         Good(f, e, w), Released(f, g, i, c, first)
  PROVE  Good(g, e, w)
<1>1. f \in Tables /\ g \in Tables /\ Files(f)
  BY DEF Good, Files, Released
<1>2. /\ Calmer(f, g)
      /\ Marks(f) => Marks(g)
      /\ Covers(f) => Covers(g)
      /\ Told(f, e, w) => Told(g, e, w)
  BY <1>1, ReleasedKeeps
<1>3. Files(g) /\ (AllFlow(f) => AllFlow(g)) /\ (Hooked(f) => Hooked(g)) /\ (Alone(f) => Alone(g))
  BY <1>1, <1>2, FilesStay, CalmFlow, CalmHooked DEF Calmer
<1> QED BY <1>2, <1>3 DEF Good, Suspending

LEMMA CoversHanging ==
  ASSUME NEW f \in Tables, Covers(f), NEW i, NEW c \in {"READ", "WRITE"} \cup Waits
  PROVE  /\ f.susp_count >= Cardinality(Hanging(f, i, c))
         /\ f.susp_count <= 0 => Hanging(f, i, c) = {}
<1> DEFINE H == HangersOf(f)
           K == Hanging(f, i, c)
<1>1. K \subseteq H /\ H \subseteq Procs
  BY HangersAre DEF HangersOf
<1> HIDE DEF K, H
<1>2. IsFiniteSet(H) /\ IsFiniteSet(K) /\ Cardinality(K) <= Cardinality(H)
  BY <1>1, Ranges, FS_Subset
<1>3. Cardinality(K) \in Nat /\ Cardinality(H) \in Nat /\ (Cardinality(K) = 0 => K = {})
  BY <1>2, FS_CardinalityType, FS_EmptySet
<1>4. f.susp_count \in Int /\ f.susp_count >= Cardinality(H)
  BY Fields DEF Covers, H
<1>5. f.susp_count >= Cardinality(K) /\ (f.susp_count <= 0 => K = {})
  BY <1>2, <1>3, <1>4
<1> QED BY <1>5 DEF K

LEMMA ReleaseAll ==
  ASSUME NEW f \in Tables, Covers(f), NEW i, NEW c \in {"READ", "WRITE"} \cup Waits
  PROVE  /\ Released(f, release(f, i, c, f.susp_count), i, c, Hanging(f, i, c))
         /\ Released(f, releaseIfCounted(f, i, c), i, c, Hanging(f, i, c))
         /\ Released(f, release(f, i, c, NR_PROCS), i, c, Hanging(f, i, c))
<1>1. f.susp_count \in Int /\ NR_PROCS \in Int
  BY Fields, FsAssumption
<1>2. Released(f, release(f, i, c, f.susp_count), i, c, Hanging(f, i, c))
  BY <1>1, CoversHanging, ReleaseDoes
<1>3. Released(f, releaseIfCounted(f, i, c), i, c, Hanging(f, i, c))
  <2>1. CASE f.susp_count > 0
    BY <1>2, <2>1 DEF releaseIfCounted
  <2>2. CASE ~ (f.susp_count > 0)
    <3>1. Hanging(f, i, c) = {}
      BY <1>1, <2>2, CoversHanging
    <3>2. Released(f, f, i, c, {})
      BY <1>1, FS_EmptySet, Fields DEF Released, SameFiles
    <3> QED BY <2>2, <3>1, <3>2 DEF releaseIfCounted
  <2> QED BY <2>1, <2>2
<1>4. Released(f, release(f, i, c, NR_PROCS), i, c, Hanging(f, i, c))
  <2>1. Hanging(f, i, c) \subseteq Procs
    BY DEF Hanging
  <2>2. Cardinality(Procs) = NR_PROCS
    BY <1>1, FsAssumption, FS_Interval DEF Procs
  <2>3. Cardinality(Hanging(f, i, c)) <= NR_PROCS
    BY <2>1, <2>2, Ranges, FS_Subset
  <2>4. NR_PROCS >= Cardinality(Hanging(f, i, c))
    <3>1. Cardinality(Hanging(f, i, c)) \in Nat
      BY <2>1, Ranges, FS_Subset, FS_CardinalityType
    <3> QED BY <1>1, <2>3, <3>1
  <2> QED BY <1>1, <2>4, ReleaseDoes
<1> QED BY <1>2, <1>3, <1>4

LEMMA AsleepKeeps ==
  ASSUME NEW f, NEW g, NEW e, NEW p \in Procs, NEW call \in Hung, Good(f, e, p),
         f.at[p] = "free" => p = e, Asleep(f, g, p, call)
  PROVE  /\ Files(g) /\ Told(g, e, NIL) /\ Marks(g) /\ Covers(g)
         /\ p \in HangersOf(g) /\ g.susp_count > 0
         /\ \A i, c : c \in {"READ", "WRITE"} \cup Waits =>
              Hanging(g, i, c) = Hanging(f, i, c) \cup
                IF call.fs_call = c /\ Filp(f, p, call.fd).ino = i THEN {p} ELSE {}
<1>0. f \in Tables /\ g \in Tables /\ Files(f) /\ Told(f, e, p) /\ Marks(f) /\ Covers(f)
  BY DEF Good, Suspending, Files, Asleep
<1>1. Files(g)
  BY <1>0, FilesStay DEF Asleep
<1>2. ~ Suspended(f, p) /\ ~ f.revived[p] /\ Suspended(g, p)
  <2>1. ~ Suspended(f, p)
    BY <1>0 DEF Told
  <2>2. ~ f.revived[p]
    BY <1>0, <2>1, Calls DEF Marks, Suspended
  <2>3. call # NoCall
    BY Calls DEF Hung, NoCall, Waits
  <2> QED BY <2>1, <2>2, <2>3 DEF Asleep, Suspended
<1>3. \A q \in Procs : q # p => (Suspended(g, q) <=> Suspended(f, q))
  BY DEF Asleep, Suspended
<1>4. Told(g, e, NIL)
  BY <1>0, <1>2, <1>3, Ranges DEF Told, Asleep, SameFiles
<1>5. Marks(g)
  <2>1. \A q \in Procs : f.revived[q] => g.hung[q].fs_call \in {"READ", "WRITE"}
    BY <1>0, <1>2 DEF Marks, Asleep
  <2> QED BY <1>0, <2>1 DEF Marks, Asleep
<1>6. Covers(g) /\ p \in HangersOf(g) /\ g.susp_count > 0
  <2> DEFINE H == HangersOf(f)
             G == HangersOf(g)
  <2>1. G = H \cup {p} /\ p \notin H /\ H \subseteq Procs
    BY <1>2, <1>3 DEF HangersOf, Asleep
  <2>2. IsFiniteSet(H)
    BY <2>1, Ranges, FS_Subset
  <2>3. f.susp_count \in Int /\ f.susp_count >= Cardinality(H) /\ g.susp_count = f.susp_count + 1
    BY <1>0, Fields DEF Covers, Asleep
  <2> HIDE DEF H, G
  <2>4. Cardinality(H) \in Nat /\ Cardinality(G) = Cardinality(H) + 1
    BY <2>1, <2>2, FS_AddElement, FS_CardinalityType
  <2>5. g.susp_count >= Cardinality(G) /\ g.susp_count > 0
    BY <2>3, <2>4
  <2>6. p \in G
    BY <2>1
  <2> QED BY <2>5, <2>6 DEF Covers, G
<1>7. ASSUME NEW i, NEW c \in {"READ", "WRITE"} \cup Waits
      PROVE  Hanging(g, i, c) = Hanging(f, i, c) \cup
                IF call.fs_call = c /\ Filp(f, p, call.fd).ino = i THEN {p} ELSE {}
  <2>1. \A q \in Procs \ {p} : q \in Hanging(g, i, c) <=> q \in Hanging(f, i, c)
    BY DEF Hanging, Asleep, SameFiles, Filp
  <2>2. p \in Hanging(g, i, c) <=> call.fs_call = c /\ Filp(f, p, call.fd).ino = i
    BY <1>2 DEF Hanging, Asleep, SameFiles, Filp
  <2>3. p \notin Hanging(f, i, c)
    BY <1>0, <1>2, HangersAre
  <2>4. Hanging(g, i, c) \subseteq Procs /\ Hanging(f, i, c) \subseteq Procs
    BY DEF Hanging
  <2> QED BY <2>1, <2>2, <2>3, <2>4
<1> QED BY <1>1, <1>4, <1>5, <1>6, <1>7

-----------------------------------------------------------------------------
(* read() *)

(* p, if dead, is the process whose death FS is to be told of *)
Served(f, e, p) == Good(f, e, p) /\ (f.at[p] = "free" => p = e)

LEMMA AloneStays ==
  ASSUME NEW f, NEW g, Alone(f), SameFiles(f, g),
         \A q \in Procs : g.hung[q].fs_call \in Waits => g.hung[q] = f.hung[q]
  PROVE  Alone(g)
<1> SUFFICES ASSUME NEW p \in Procs, g.hung[p].fs_call \in Waits
             PROVE  \A y \in Uses(g, g.filp[g.fd[p][g.hung[p].fd]].ino) :
                      {g.filp[g.fd[p][g.hung[p].fd]].mode, g.filp[y].mode} # {{"R"}, {"W"}}
  BY Zenon DEF Alone
<1>1. g.hung[p] = f.hung[p]
  OBVIOUS
<1> DEFINE x == f.fd[p][f.hung[p].fd]
<1>2. f.hung[p].fs_call \in Waits
  BY <1>1, SMTT(30)
<1>3. \A y \in Uses(f, f.filp[x].ino) : {f.filp[x].mode, f.filp[y].mode} # {{"R"}, {"W"}}
  BY <1>2, Zenon DEF Alone
<1>4. g.fd[p][g.hung[p].fd] = x /\ g.filp = f.filp /\ \A i : Uses(g, i) = Uses(f, i)
  BY <1>1 DEF SameFiles, Uses
<1> HIDE DEF x
<1> QED BY <1>3, <1>4, SMTT(30)

LEMMA NoDataGood ==
  ASSUME NEW f, NEW e, NEW p \in Procs, NEW c \in Hung, Served(f, e, p), c.fs_call = "READ",
         NEW x, NEW i, Refers(f, p, c.fd, x, i), "R" \in f.filp[x].mode,
         f.filp[x].pos >= i_size(f, i)
  PROVE  Good(NoData(f, p, c, i), e, NIL)
<1> DEFINE r == reply(f, p, {})
           s == suspend(f, p, c)
<1>0. c.fd \in Fds /\ Good(f, e, p) /\ Files(f)
  BY DEF Hung, Served, Good
<1>1. /\ f \in Tables /\ x \in Filps /\ i \in Inodes /\ x \in Uses(f, i)
      /\ Filp(f, p, c.fd) = f.filp[x] /\ f.filp[x].pos \in Nat
  <2>1. f \in Tables /\ x \in Filps /\ i \in Inodes /\ x \in Uses(f, i)
    BY <1>0, InUse DEF Refers
  <2> QED BY <2>1, Fields DEF Filp, Refers
<1>2. Good(r, e, NIL)
  <2>1. {} \in SUBSET Fds
    OBVIOUS
  <2> QED BY <1>0, <2>1, ReplyGood
<1>w. "WRITE" \in {"READ", "WRITE"} \cup Waits
  OBVIOUS
<1>3. CASE find_filp(f, i, "W") = NIL
  BY <1>2, <1>3 DEF NoData
<1>4. CASE find_filp(f, i, "W") # NIL /\ Filp(f, p, c.fd).nonblock
  <2>1. NoData(f, p, c, i) = releaseIfCounted(r, i, "WRITE")
    BY <1>4 DEF NoData
  <2>2. r \in Tables /\ Covers(r)
    BY <1>2 DEF Good, Files, Suspending
  <2>3. Released(r, releaseIfCounted(r, i, "WRITE"), i, "WRITE", Hanging(r, i, "WRITE"))
    BY <2>2, ReleaseAll
  <2> HIDE DEF r
  <2>4. Good(releaseIfCounted(r, i, "WRITE"), e, NIL)
    BY <1>2, <1>w, <2>3, ReleasedGood
  <2> QED BY <2>1, <2>4
<1>5. CASE find_filp(f, i, "W") # NIL /\ ~ Filp(f, p, c.fd).nonblock
  <2> DEFINE t == releaseIfCounted(s, i, "WRITE")
  <2>1. NoData(f, p, c, i) = t
    BY <1>5 DEF NoData
  <2>2. Asleep(f, s, p, c)
    BY <1>1, SuspendDoes
  <2> HIDE DEF s
  <2>3. /\ Files(s) /\ Told(s, e, NIL) /\ Marks(s) /\ Covers(s)
        /\ \A j, k : k \in {"READ", "WRITE"} \cup Waits =>
              Hanging(s, j, k) = Hanging(f, j, k) \cup
                IF c.fs_call = k /\ Filp(f, p, c.fd).ino = j THEN {p} ELSE {}
    BY <1>0, <2>2, AsleepKeeps DEF Served
  <2>4. s \in Tables /\ SameFiles(f, s)
    BY <2>2 DEF Asleep
  <2>5. Released(s, t, i, "WRITE", Hanging(s, i, "WRITE"))
    BY <2>3, <2>4, ReleaseAll
  <2> HIDE DEF t
  <2>6. /\ Calmer(s, t) /\ Marks(t) /\ Covers(t) /\ Told(t, e, NIL) /\ Hanging(t, i, "WRITE") = {}
    <3>1. Calmer(s, t) /\ (Marks(s) => Marks(t)) /\ (Covers(s) => Covers(t))
      BY <1>w, <2>4, <2>5, ReleasedKeeps
    <3>2. Told(s, e, NIL) => Told(t, e, NIL)
      BY <1>w, <2>4, <2>5, ReleasedKeeps
    <3>3. Hanging(t, i, "WRITE") = {}
      BY <1>w, <2>4, <2>5, ReleasedKeeps
    <3> QED BY <2>3, <3>1, <3>2, <3>3
  <2>7. t \in Tables /\ SameFiles(s, t)
    BY <2>5 DEF Released
  <2>8. Files(t)
    BY <2>3, <2>7, FilesStay, SMTT(30)
  <2>9. Hooked(s)
    <3>1. \A q \in Procs : q # p => s.hung[q] = f.hung[q]
      BY <2>2 DEF Asleep
    <3>2. Hooked(f)
      BY <1>0 DEF Good, Suspending
    <3> QED BY <2>2, <2>4, <3>1, <3>2
         DEF Hooked, Asleep, SameFiles, Filp, Suspended, Refers
  <2>10. Alone(s)
    <3>1. c.fs_call \notin Waits
      BY Calls
    <3>2. Alone(f)
      BY <1>0 DEF Good
    <3>3. \A q \in Procs : s.hung[q].fs_call \in Waits => s.hung[q] = f.hung[q]
      BY <2>2, <3>1 DEF Asleep
    <3> QED BY <2>4, <3>2, <3>3, AloneStays
  <2>11. Hooked(t) /\ Alone(t)
    BY <2>4, <2>6, <2>7, <2>9, <2>10, CalmHooked
  <2>12. AllFlow(t)
    <3> SUFFICES ASSUME NEW j \in Inodes, t.inode[j].num = "pipe" PROVE Flows(t, j)
      BY DEF AllFlow
    <3>1. f.inode[j].num = "pipe" /\ Flows(f, j) /\ PipeEnds(f, j)
      BY <1>0, <2>4, <2>7 DEF SameFiles, Good, AllFlow, Files, Pipes
    <3>2. CASE j # i
      <4>1. Hanging(s, j, "READ") = Hanging(f, j, "READ") /\ Hanging(s, j, "WRITE") = Hanging(f, j, "WRITE")
        <5>1. Filp(f, p, c.fd).ino # j
          BY <1>1, <3>2 DEF Refers
        <5>2. ASSUME NEW k \in {"READ", "WRITE"} PROVE Hanging(s, j, k) = Hanging(f, j, k)
          <6>1. Hanging(s, j, k) = Hanging(f, j, k) \cup
                  IF c.fs_call = k /\ Filp(f, p, c.fd).ino = j THEN {p} ELSE {}
            BY <2>3
          <6> QED BY <5>1, <6>1
        <5> QED BY <5>2
      <4>2. i_size(s, j) = i_size(f, j) /\ \A bit : Open(s, j, bit) = Open(f, j, bit)
        BY <2>4 DEF SameFiles, i_size, Open
      <4>3. Flows(s, j)
        <5> HIDE DEF Hanging, i_size, Open
        <5> QED BY <3>1, <4>1, <4>2 DEF Flows
      <4> QED BY <2>4, <2>6, <2>7, <4>3, CalmFlow
    <3>3. CASE j = i
      <4>1. i_size(f, i) = 0
        <5>1. x \in Uses(f, i) /\ "R" \in f.filp[x].mode
          BY <1>1
        <5>2. i_size(f, i) \in Nat
          BY <1>1, SizeType
        <5>3. f.filp[x].pos < i_size(f, i) \/ i_size(f, i) = 0
          <6>1. PipeEnds(f, i)
            BY <3>1, <3>3
          <6>2. f.filp[x].mode # {"W"}
            BY <5>1
          <6> QED BY <5>1, <6>1, <6>2 DEF PipeEnds
        <5> QED BY <1>1, <5>2, <5>3
      <4>2. Open(f, i, "W") # {}
        BY <1>1, <1>5, FoundFilp
      <4>3. i_size(t, i) = 0 /\ Open(t, i, "W") # {}
        BY <2>4, <2>7, <4>1, <4>2 DEF SameFiles, i_size, Open
      <4> HIDE DEF Hanging, i_size, Open
      <4> QED BY <2>6, <3>3, <4>3 DEF Flows
    <3> QED BY <3>2, <3>3
  <2>13. Good(t, e, NIL)
    BY <2>6, <2>8, <2>11, <2>12 DEF Good, Suspending
  <2> QED BY <2>1, <2>13
<1> QED BY <1>3, <1>4, <1>5

LEMMA PosGood ==
  ASSUME NEW f, NEW e, NEW w, Good(f, e, w), NEW x \in Filps, NEW i, i = f.filp[x].ino,
         f.filp[x].count # 0, NEW n \in Nat,
         f.inode[i].num = "pipe" => f.filp[x].mode = {"R"} /\ n < i_size(f, i)
  PROVE  Good([f EXCEPT !.filp[x].pos = n], e, w)
<1> DEFINE g == [f EXCEPT !.filp[x].pos = n]
<1>1. f \in Tables
  BY DEF Good, Files
<1>2. /\ g \in Tables /\ Shape(f, g) /\ FreeSame(f, g) /\ g.inode = f.inode
      /\ g.filp[x].pos = n /\ \A y \in Filps : y # x => g.filp[y] = f.filp[y]
  <2>1. f.filp[x].count # 0
    OBVIOUS
  <2> QED BY ONLY <1>1, <2>1, x \in Filps, n \in Nat, SetPos DEF g
<1> HIDE DEF g
<1>3. ASSUME NEW j \in Inodes, f.inode[j].num = "pipe"
      PROVE  PipeEnds(g, j) /\ (Hanging(f, j, "READ") # {} => i_size(g, j) = 0)
  <2>1. PipeEnds(f, j) /\ Flows(f, j)
    BY <1>3 DEF Good, Files, Pipes, AllFlow
  <2>2. i_size(g, j) = i_size(f, j) /\ Uses(g, j) = Uses(f, j)
    BY <1>1, <1>2, ShapeSets DEF i_size
  <2>3. \A y \in Uses(f, j) : y \in Filps /\ g.filp[y].mode = f.filp[y].mode
    BY <1>2 DEF Uses, Shape
  <2>4. \A y \in Uses(f, j) :
          \/ f.filp[y].mode = {"R"} /\ (g.filp[y].pos < i_size(f, j) \/
                                        (g.filp[y].pos = 0 /\ i_size(f, j) = 0))
          \/ f.filp[y].mode = {"W"} /\ g.filp[y].pos = i_size(f, j)
    <3> SUFFICES ASSUME NEW y \in Uses(f, j)
                 PROVE  \/ f.filp[y].mode = {"R"} /\ (g.filp[y].pos < i_size(f, j) \/
                                                      (g.filp[y].pos = 0 /\ i_size(f, j) = 0))
                        \/ f.filp[y].mode = {"W"} /\ g.filp[y].pos = i_size(f, j)
      OBVIOUS
    <3>1. CASE y = x
      BY <1>2, <1>3, <3>1 DEF Uses
    <3>2. CASE y # x
      BY <1>2, <2>1, <2>3, <3>2 DEF PipeEnds
    <3> QED BY <3>1, <3>2
  <2>5. PipeEnds(g, j)
    BY <1>2, <2>1, <2>2, <2>3, <2>4 DEF PipeEnds
  <2> QED BY <2>1, <2>2, <2>5 DEF Flows
<1>4. Good(g, e, w)
  BY <1>2, <1>3, ShapeKeeps
<1> QED BY <1>4 DEF g

LEMMA EmptiedDoes ==
  ASSUME NEW f, Files(f), NEW x \in Filps, NEW i \in Inodes, i = f.filp[x].ino,
         f.filp[x].count # 0
  PROVE  LET w == find_filp(f, i, "W")
             g == Emptied(f, x, i)
         IN  /\ g \in Tables /\ Shape(f, g) /\ FreeSame(f, g)
             /\ i_size(g, i) = 0 /\ \A j \in Inodes : j # i => g.inode[j] = f.inode[j]
             /\ x \in Uses(f, i)
             /\ w = NIL => \A y \in Uses(f, i) : "W" \notin f.filp[y].mode
             /\ w # NIL => w \in Open(f, i, "W") /\ w \in Filps /\ w \in Uses(f, i)
             /\ g.filp[x].pos = 0 /\ (w # NIL => g.filp[w].pos = 0)
             /\ \A y \in Filps : y # x /\ y # w => g.filp[y] = f.filp[y]
<1> DEFINE w == find_filp(f, i, "W")
           a == [f EXCEPT !.inode[i].data = <<>>]
           b == [a EXCEPT !.filp[x].pos = 0]
           g == IF w = NIL THEN b ELSE [b EXCEPT !.filp[w].pos = 0]
<1>1. f \in Tables /\ Slots(f) /\ InodeCounts(f)
  BY DEF Files
<1>2. Emptied(f, x, i) = g
  BY DEF Emptied
<1>3. x \in Uses(f, i) /\ f.inode[i].count # 0
  BY <1>1, UsedCounted DEF Uses
<1>4. w # NIL => w \in Open(f, i, "W") /\ w \in Filps /\ w \in Uses(f, i) /\ f.filp[w].count # 0
  <2>1. w # NIL => w \in Open(f, i, "W")
    BY <1>1, FoundFilp
  <2>2. w # NIL => f.filp[w] # FreeFilp
    BY <2>1 DEF Open, FreeFilp
  <2> HIDE DEF w
  <2> QED BY <1>1, <2>1, <2>2 DEF Open, Uses, Slots
<1>5. w = NIL => \A y \in Uses(f, i) : "W" \notin f.filp[y].mode
  BY <1>1, FoundFilp DEF Open, Uses
<1> HIDE DEF w
<1>6. /\ a \in Tables /\ Shape(f, a) /\ FreeSame(f, a) /\ a.filp = f.filp
      /\ i_size(a, i) = 0 /\ \A j \in Inodes : j # i => a.inode[j] = f.inode[j]
  <2>1. <<>> \in BoundedSeq(Procs \cup {0}, PIPE_SIZE) /\ Len(<<>>) = 0
    <3>1. <<>> \in [1 .. 0 -> Procs \cup {0}] /\ Len(<<>>) = 0
      OBVIOUS
    <3>2. 0 \in 0 .. PIPE_SIZE
      BY FsAssumption
    <3> QED BY <3>1, <3>2, DataIs
  <2> DEFINE data == <<>>
  <2>2. data \in BoundedSeq(Procs \cup {0}, PIPE_SIZE) /\ a = [f EXCEPT !.inode[i].data = data]
    BY <2>1
  <2>3. Len(data) = 0
    BY <2>1
  <2> DEFINE h == [f EXCEPT !.inode[i].data = data]
  <2> HIDE DEF data, a, b, g
  <2>4. /\ h \in Tables /\ Shape(f, h) /\ FreeSame(f, h) /\ h.filp = f.filp
        /\ i_size(h, i) = Len(data) /\ h.inode[i].data = data
        /\ \A j \in Inodes : j # i => h.inode[j] = f.inode[j]
    <3>1. data \in BoundedSeq(Procs \cup {0}, PIPE_SIZE) /\ f \in Tables /\ f.inode[i].count # 0
      BY <1>1, <1>3, <2>2
    <3> QED BY ONLY <3>1, i \in Inodes, SetData DEF h
  <2>5. a = h
    BY <2>2
  <2> HIDE DEF h
  <2> QED BY <2>3, <2>4, <2>5
<1> HIDE DEF a
<1>7. /\ b \in Tables /\ Shape(a, b) /\ FreeSame(a, b) /\ b.inode = a.inode
      /\ b.filp[x].pos = 0 /\ \A y \in Filps : y # x => b.filp[y] = a.filp[y]
  <2>1. a \in Tables
    BY <1>6
  <2>2. a.filp[x].count # 0
    BY <1>6
  <2> QED BY ONLY <2>1, <2>2, x \in Filps, 0 \in Nat, SetPos DEF b
<1> HIDE DEF b
<1>8. /\ g \in Tables /\ Shape(b, g) /\ FreeSame(b, g) /\ g.inode = b.inode
      /\ w # NIL => g.filp[w].pos = 0
      /\ \A y \in Filps : y # w => g.filp[y] = b.filp[y]
  <2>1. CASE w = NIL
    BY <1>7, <2>1, Ranges DEF Shape, SameProcs, FreeSame
  <2>2. CASE w # NIL
    <3>1. b.filp[w].count # 0
      BY <1>4, <1>6, <1>7, <2>2 DEF Shape
    <3>2. w \in Filps /\ g = [b EXCEPT !.filp[w].pos = 0]
      BY <1>4, <2>2
    <3> DEFINE h == [b EXCEPT !.filp[w].pos = 0]
    <3>3. /\ h \in Tables /\ Shape(b, h) /\ FreeSame(b, h) /\ h.inode = b.inode
          /\ h.filp[w].pos = 0 /\ \A y \in Filps : y # w => h.filp[y] = b.filp[y]
      <4>1. b \in Tables
        BY <1>7
      <4> QED BY ONLY <4>1, <3>1, <3>2, 0 \in Nat, SetPos DEF h
    <3>4. g = h
      BY <3>2
    <3> HIDE DEF g, h
    <3> QED BY <3>3, <3>4
  <2> QED BY <2>1, <2>2
<1> HIDE DEF g
<1>9. Shape(f, g)
  BY <1>6, <1>7, <1>8, ShapeTrans
<1>10. FreeSame(f, g)
  BY <1>6, <1>7, <1>8 DEF FreeSame, Shape
<1>11. i_size(g, i) = 0 /\ \A j \in Inodes : j # i => g.inode[j] = f.inode[j]
  BY <1>6, <1>7, <1>8 DEF i_size
<1>12. g.filp[x].pos = 0
  BY <1>7, <1>8, Ranges
<1>13. \A y \in Filps : y # x /\ y # w => g.filp[y] = f.filp[y]
  BY <1>6, <1>7, <1>8
<1> QED BY <1>2, <1>3, <1>4, <1>5, <1>8, <1>9, <1>10, <1>11, <1>12, <1>13 DEF w

LEMMA EmptiedGood ==
  ASSUME NEW f, NEW e, NEW u, Good(f, e, u), NEW x \in Filps, NEW i \in Inodes, i = f.filp[x].ino,
         f.filp[x].count # 0, "R" \in f.filp[x].mode
  PROVE  Good(Emptied(f, x, i), e, u)
<1> DEFINE w == find_filp(f, i, "W")
           g == Emptied(f, x, i)
<1>1. f \in Tables /\ Files(f)
  BY DEF Good, Files
<1>2. /\ g \in Tables /\ Shape(f, g) /\ FreeSame(f, g)
      /\ i_size(g, i) = 0 /\ \A j \in Inodes : j # i => g.inode[j] = f.inode[j]
      /\ x \in Uses(f, i)
      /\ w = NIL => \A y \in Uses(f, i) : "W" \notin f.filp[y].mode
      /\ w # NIL => w \in Open(f, i, "W") /\ w \in Filps /\ w \in Uses(f, i)
      /\ g.filp[x].pos = 0 /\ (w # NIL => g.filp[w].pos = 0)
      /\ \A y \in Filps : y # x /\ y # w => g.filp[y] = f.filp[y]
  BY <1>1, EmptiedDoes
<1> HIDE DEF w, g
<1>3. ASSUME NEW j \in Inodes, f.inode[j].num = "pipe"
      PROVE  PipeEnds(g, j) /\ (Hanging(f, j, "READ") # {} => i_size(g, j) = 0)
  <2>1. PipeEnds(f, j) /\ Flows(f, j)
    BY <1>3 DEF Good, Files, Pipes, AllFlow
  <2>2. Uses(g, j) = Uses(f, j)
    BY <1>1, <1>2, ShapeSets
  <2>3. \A y \in Uses(f, j) : y \in Filps /\ g.filp[y].mode = f.filp[y].mode
    BY <1>2 DEF Uses, Shape
  <2>4. CASE j = i
    <3>1. \A y \in Uses(f, j) : (f.filp[y].mode = {"R"} \/ f.filp[y].mode = {"W"}) /\ g.filp[y].pos = 0
      <4> SUFFICES ASSUME NEW y \in Uses(f, j)
                   PROVE  (f.filp[y].mode = {"R"} \/ f.filp[y].mode = {"W"}) /\ g.filp[y].pos = 0
        OBVIOUS
      <4>1. CASE f.filp[y].mode = {"R"}
        <5>1. f.filp[x].mode # {"W"}
          OBVIOUS
        <5>2. f.filp[x].mode = f.filp[y].mode
          BY <1>2, <2>1, <2>4, <4>1, <5>1 DEF PipeEnds
        <5>3. x = y
          BY <1>2, <2>1, <2>4, <5>2 DEF PipeEnds
        <5> QED BY <1>2, <4>1, <5>3
      <4>2. CASE f.filp[y].mode = {"W"}
        <5>1. w # NIL
          BY <1>2, <2>4, <4>2
        <5>2. "W" \in f.filp[w].mode /\ w \in Uses(f, j)
          BY <1>2, <2>4, <5>1 DEF Open
        <5>3. f.filp[w].mode = {"W"}
          <6>1. f.filp[w].mode # {"R"}
            BY <5>2
          <6> QED BY <2>1, <5>2, <6>1 DEF PipeEnds
        <5>4. w = y
          BY <2>1, <4>2, <5>2, <5>3 DEF PipeEnds
        <5> QED BY <1>2, <4>2, <5>1, <5>4
      <4> QED BY <2>1, <4>1, <4>2 DEF PipeEnds
    <3>2. \A y, z \in Uses(f, j) : f.filp[y].mode = f.filp[z].mode => y = z
      BY <2>1 DEF PipeEnds
    <3>3. i_size(g, j) = 0 /\ g.inode[j].i_pipe
      BY <1>2, <2>1, <2>4 DEF Shape, PipeEnds
    <3>4. PipeEnds(g, j)
      BY <2>2, <2>3, <3>1, <3>2, <3>3 DEF PipeEnds
    <3> QED BY <3>3, <3>4
  <2>5. CASE j # i
    <3>1. i_size(g, j) = i_size(f, j)
      BY <1>2, <2>5 DEF i_size
    <3>2. \A y \in Uses(f, j) : g.filp[y].pos = f.filp[y].pos
      <4> SUFFICES ASSUME NEW y \in Uses(f, j) PROVE g.filp[y].pos = f.filp[y].pos
        OBVIOUS
      <4>1. y # x /\ y # w /\ y \in Filps
        BY <1>2, <2>5, Ranges DEF Uses
      <4> QED BY <1>2, <4>1
    <3>3. PipeEnds(g, j)
      BY <1>2, <2>1, <2>2, <2>3, <3>1, <3>2 DEF PipeEnds, Shape
    <3> QED BY <2>1, <3>1, <3>3 DEF Flows
  <2> QED BY <2>4, <2>5
<1>4. Good(g, e, u)
  BY <1>2, <1>3, ShapeKeeps
<1> QED BY <1>4 DEF g

LEMMA FilpTypes ==
  ASSUME NEW f \in Tables
  PROVE  /\ \A x \in Filps : /\ f.filp[x].pos \in Nat /\ f.filp[x].count \in Nat
                             /\ f.filp[x].nonblock \in BOOLEAN
                             /\ f.filp[x].mode \in Modes \cup {{}}
                             /\ f.filp[x].ino \in Inodes \cup {NIL}
         /\ \A i \in Inodes : f.inode[i].i_pipe \in BOOLEAN /\ f.inode[i].count \in Nat
BY Fields

LEMMA Gets ==
  ASSUME NEW pos \in Nat, NEW size \in Nat, NEW n \in Nat, NEW got, got = Min({n, size - pos})
  PROVE  /\ pos + Max({got, 0}) \in Nat
         /\ pos < size /\ pos + got # size => pos + Max({got, 0}) < size
<1>1. size - pos \in Int
  OBVIOUS
<1>2. got = IF n <= size - pos THEN n ELSE size - pos
  BY <1>1, MinOf
<1>3. got \in Int
  BY <1>1, <1>2
<1>4. \A a \in Int : Max({a, 0}) = IF a >= 0 THEN a ELSE 0
  BY MaxOf
<1>5. Max({got, 0}) = IF got >= 0 THEN got ELSE 0
  BY <1>3, <1>4
<1> QED BY <1>2, <1>3, <1>5

LEMMA SizeNat == ASSUME NEW f \in Tables PROVE \A j \in Inodes : i_size(f, j) \in Nat
<1> SUFFICES ASSUME NEW j \in Inodes PROVE i_size(f, j) \in Nat
  OBVIOUS
<1>1. i_size(f, j) \in 0 .. PIPE_SIZE
  BY SizeType
<1> QED BY <1>1, FsAssumption

LEMMA ReadSome ==
  ASSUME NEW f, NEW e, NEW p \in Procs, Good(f, e, p), NEW x \in Filps, f.filp[x].count # 0,
         "R" \in f.filp[x].mode, NEW i \in Inodes, i = f.filp[x].ino, NEW k \in Nat,
         f.inode[i].i_pipe => k < i_size(f, i)
  PROVE  Good([f EXCEPT !.filp[x].pos = k], e, p)
<1>1. Files(f)
  BY DEF Good
<1>2. f.inode[i].num = "pipe" => f.filp[x].mode = {"R"} /\ k < i_size(f, i)
  <2> SUFFICES ASSUME f.inode[i].num = "pipe" PROVE f.filp[x].mode = {"R"} /\ k < i_size(f, i)
    OBVIOUS
  <2>1. PipeEnds(f, i) /\ x \in Uses(f, i)
    BY <1>1 DEF Files, Pipes, Uses
  <2>2. f.filp[x].mode # {"W"}
    OBVIOUS
  <2> QED BY <2>1, <2>2 DEF PipeEnds
<1> QED BY <1>2, PosGood

LEMMA ReadOpen ==
  ASSUME NEW f, NEW e, NEW p \in Procs, Good(f, e, p), NEW x \in Filps, f.filp[x].count # 0,
         "R" \in f.filp[x].mode, NEW i \in Inodes, i = f.filp[x].ino, NEW got, NEW k \in Nat,
         f.filp[x].pos < i_size(f, i) /\ f.filp[x].pos + got # i_size(f, i) => k < i_size(f, i),
         ~ (f.inode[i].i_pipe /\ f.filp[x].pos >= i_size(f, i))
  PROVE  Good(IF f.inode[i].i_pipe /\ f.filp[x].pos + got = i_size(f, i) THEN Emptied(f, x, i)
              ELSE [f EXCEPT !.filp[x].pos = k], e, p)
<1>1. CASE f.inode[i].i_pipe /\ f.filp[x].pos + got = i_size(f, i)
  <2>1. Good(Emptied(f, x, i), e, p)
    BY EmptiedGood
  <2> QED BY <1>1, <2>1
<1>2. CASE ~ (f.inode[i].i_pipe /\ f.filp[x].pos + got = i_size(f, i))
  <2>1. f \in Tables
    BY DEF Good, Files
  <2>2. f.filp[x].pos \in Nat
    BY <2>1, FilpTypes
  <2>s. i_size(f, i) \in Nat
    BY <2>1, SizeType
  <2>3. f.inode[i].i_pipe => k < i_size(f, i)
    BY <1>2, <2>2, <2>s
  <2>4. Good([f EXCEPT !.filp[x].pos = k], e, p)
    BY <2>3, ReadSome
  <2> QED BY <1>2, <2>4
<1> QED BY <1>1, <1>2

LEMMA ReadGood ==
  ASSUME NEW f, NEW e, NEW p \in Procs, NEW c \in Hung, Served(f, e, p), c.fs_call = "READ"
  PROVE  Good(do_read(f, p, c), e, NIL)
<1>0. c.fd \in Fds /\ c.n \in Nat /\ Good(f, e, p) /\ Files(f) /\ {} \in SUBSET Fds
  BY DEF Hung, Served, Good
<1> DEFINE x   == f.fd[p][c.fd]
           i   == f.filp[x].ino
           got == Min({c.n, i_size(f, i) - f.filp[x].pos})
           k   == f.filp[x].pos + Max({got, 0})
           h   == IF f.inode[i].i_pipe /\ f.filp[x].pos + got = i_size(f, i) THEN Emptied(f, x, i)
                ELSE [f EXCEPT !.filp[x].pos = k]
<1>d. do_read(f, p, c) =
        IF x = NIL \/ "R" \notin f.filp[x].mode THEN reply(f, p, {})
        ELSE IF f.inode[i].i_pipe /\ f.filp[x].pos >= i_size(f, i) THEN NoData(f, p, c, i)
        ELSE reply(h, p, {})
  BY DEF do_read
<1>x. f.fd[p][c.fd] = x /\ f.filp[x].ino = i
  OBVIOUS
<1> HIDE DEF x, i, got, k, h
<1>1. CASE x = NIL \/ "R" \notin f.filp[x].mode
  <2>1. do_read(f, p, c) = reply(f, p, {})
    BY <1>1, <1>d
  <2> QED BY <1>0, <2>1, ReplyGood
<1>2. CASE /\ x # NIL /\ "R" \in f.filp[x].mode
           /\ f.inode[i].i_pipe /\ f.filp[x].pos >= i_size(f, i)
  <2>1. do_read(f, p, c) = NoData(f, p, c, i)
    BY <1>2, <1>d
  <2>2. Refers(f, p, c.fd, x, i)
    BY <1>2, <1>x DEF Refers
  <2> QED BY <1>2, <2>1, <2>2, NoDataGood
<1>3. CASE /\ x # NIL /\ "R" \in f.filp[x].mode
           /\ ~ (f.inode[i].i_pipe /\ f.filp[x].pos >= i_size(f, i))
  <2>1. do_read(f, p, c) = reply(h, p, {})
    BY <1>3, <1>d, SMTT(30)
  <2>2. /\ f \in Tables /\ x \in Filps /\ f.filp[x].count # 0 /\ i \in Inodes
    BY <1>0, <1>3, <1>x, InUse
  <2>3. \A y \in Filps : f.filp[y].pos \in Nat
    BY <2>2, FilpTypes
  <2>s. \A j \in Inodes : i_size(f, j) \in Nat
    BY <2>2, SizeNat
  <2>4. \A pos, size, n \in Nat :
          LET m == Min({n, size - pos})
          IN  /\ pos + Max({m, 0}) \in Nat
              /\ pos < size /\ pos + m # size => pos + Max({m, 0}) < size
    BY Gets
  <2>5. /\ k \in Nat
        /\ f.filp[x].pos < i_size(f, i) /\ f.filp[x].pos + got # i_size(f, i) => k < i_size(f, i)
    BY <1>0, <2>2, <2>3, <2>s, <2>4 DEF got, k
  <2>6. Good(h, e, p)
    BY <1>0, <1>3, <1>x, <2>2, <2>5, ReadOpen, SMTT(30) DEF h
  <2> QED BY <1>0, <2>1, <2>6, ReplyGood
<1> QED BY <1>1, <1>2, <1>3

-----------------------------------------------------------------------------
(* write() *)

LEMMA FullGood ==
  ASSUME NEW f, NEW e, NEW p \in Procs, NEW c \in Hung, Served(f, e, p), c.fs_call = "WRITE",
         NEW x, NEW i, Refers(f, p, c.fd, x, i), "W" \in f.filp[x].mode,
         find_filp(f, i, "R") # NIL, c.n <= PIPE_SIZE,
         IsFull(f.filp[x].pos, c.n)
  PROVE  Good(suspend(f, p, c), e, NIL)
<1> DEFINE s == suspend(f, p, c)
<1>0. c.fd \in Fds /\ c.n \in Nat /\ Good(f, e, p) /\ Files(f)
  BY DEF Hung, Served, Good
<1>1. f \in Tables /\ x \in Filps /\ i \in Inodes /\ x \in Uses(f, i)
  BY <1>0, InUse DEF Refers
<1>2. Asleep(f, s, p, c)
  BY <1>1, SuspendDoes
<1> HIDE DEF s
<1>3. /\ Files(s) /\ Told(s, e, NIL) /\ Marks(s) /\ Covers(s)
      /\ \A j, k : k \in {"READ", "WRITE"} \cup Waits =>
            Hanging(s, j, k) = Hanging(f, j, k) \cup
              IF c.fs_call = k /\ Filp(f, p, c.fd).ino = j THEN {p} ELSE {}
  BY <1>0, <1>2, AsleepKeeps DEF Served
<1>4. s \in Tables /\ SameFiles(f, s)
  BY <1>2, SMTT(30) DEF Asleep
<1>5. Hooked(s)
  <2>1. \A q \in Procs : q # p => s.hung[q] = f.hung[q]
    BY <1>2 DEF Asleep
  <2>2. Hooked(f)
    BY <1>0 DEF Good, Suspending
  <2> QED BY <1>2, <1>4, <2>1, <2>2, Zenon
       DEF Hooked, Asleep, SameFiles, Filp, Suspended, Refers
<1>6. Alone(s)
  <2>1. c.fs_call \notin Waits
    BY Calls
  <2>2. Alone(f)
    BY <1>0 DEF Good
  <2>3. \A q \in Procs : s.hung[q].fs_call \in Waits => s.hung[q] = f.hung[q]
    BY <1>2, <2>1 DEF Asleep
  <2> QED BY <1>4, <2>2, <2>3, AloneStays
<1>7. AllFlow(s)
  <2> SUFFICES ASSUME NEW j \in Inodes, s.inode[j].num = "pipe" PROVE Flows(s, j)
    BY DEF AllFlow
  <2>1. f.inode[j].num = "pipe" /\ Flows(f, j) /\ PipeEnds(f, j)
    BY <1>0, <1>4 DEF SameFiles, Good, AllFlow, Files, Pipes
  <2>2. i_size(s, j) = i_size(f, j) /\ \A bit : Open(s, j, bit) = Open(f, j, bit)
    BY <1>4 DEF SameFiles, i_size, Open
  <2>3. Hanging(s, j, "READ") = Hanging(f, j, "READ")
    <3>1. Hanging(s, j, "READ") = Hanging(f, j, "READ") \cup
            IF c.fs_call = "READ" /\ Filp(f, p, c.fd).ino = j THEN {p} ELSE {}
      BY <1>3
    <3> QED BY <3>1
  <2>4. Hanging(s, j, "WRITE") = Hanging(f, j, "WRITE") \cup
          IF c.fs_call = "WRITE" /\ Filp(f, p, c.fd).ino = j THEN {p} ELSE {}
    BY <1>3
  <2>5. CASE j # i
    <3>1. Filp(f, p, c.fd).ino # j
      BY <2>5 DEF Filp, Refers
    <3>2. Hanging(s, j, "WRITE") = Hanging(f, j, "WRITE")
      BY <2>4, <3>1
    <3> HIDE DEF Hanging, i_size, Open
    <3> QED BY <2>1, <2>2, <2>3, <3>2 DEF Flows
  <2>6. CASE j = i
    <3>1. Open(f, i, "R") # {}
      BY <1>1, FoundFilp
    <3>2. i_size(f, i) # 0
      <4>1. f.filp[x].mode # {"R"}
        OBVIOUS
      <4>2. f.filp[x].pos = i_size(f, i)
        BY <1>1, <2>1, <2>6, <4>1 DEF PipeEnds
      <4> QED BY <1>0, <4>2, FsAssumption DEF IsFull
    <3>3. Hanging(f, j, "READ") = {}
      BY <2>1, <2>6, <3>2 DEF Flows
    <3> HIDE DEF Hanging, i_size, Open
    <3> QED BY <2>2, <2>3, <2>6, <3>1, <3>3 DEF Flows
  <2> QED BY <2>5, <2>6
<1>8. Good(s, e, NIL)
  BY <1>3, <1>5, <1>6, <1>7 DEF Good, Suspending
<1> QED BY <1>8 DEF s

LEMMA PutIs ==
  ASSUME NEW data \in BoundedSeq(Procs \cup {0}, PIPE_SIZE), NEW pos \in Nat, NEW n \in Nat,
         pos + n <= PIPE_SIZE, NEW p \in Procs
  PROVE  /\ Put(data, pos, n, p) \in BoundedSeq(Procs \cup {0}, PIPE_SIZE)
         /\ Len(data) = pos => Len(Put(data, pos, n, p)) = pos + n
<1>1. PICK m \in 0 .. PIPE_SIZE : data \in [1 .. m -> Procs \cup {0}] /\ Len(data) = m
  BY DataIs
<1>2. m \in Nat /\ PIPE_SIZE \in Nat /\ pos + n \in Nat
  BY FsAssumption
<1>3. Max({m, pos + n}) = IF m >= pos + n THEN m ELSE pos + n
  BY <1>2, MaxOf
<1> DEFINE new == Put(data, pos, n, p)
           k   == Max({m, pos + n})
<1>4. k \in 0 .. PIPE_SIZE /\ k \in Nat /\ (m = pos => k = pos + n)
  BY <1>2, <1>3
<1>5. new = [j \in 1 .. k |-> IF j \in pos + 1 .. pos + n THEN p
                              ELSE IF j <= m THEN data[j] ELSE 0]
  BY <1>1 DEF Put
<1> HIDE DEF k
<1>6. new \in [1 .. k -> Procs \cup {0}]
  <2> SUFFICES ASSUME NEW j \in 1 .. k
               PROVE  (IF j \in pos + 1 .. pos + n THEN p ELSE IF j <= m THEN data[j] ELSE 0)
                        \in Procs \cup {0}
    BY <1>5
  <2>1. ASSUME j <= m PROVE data[j] \in Procs \cup {0}
    <3>1. j \in 1 .. m
      BY <1>2, <1>4, <2>1
    <3> QED BY <1>1, <3>1
  <2> QED BY <2>1
<1>7. new \in Seq(Procs \cup {0}) /\ DOMAIN new = 1 .. k
  BY <1>4, <1>6, SeqDef
<1>8. Len(new) = k
  BY <1>4, <1>7, LenProperties
<1>9. new \in BoundedSeq(Procs \cup {0}, PIPE_SIZE)
  <2> HIDE DEF new
  <2> QED BY <1>4, <1>6, <1>8, DataIs
<1> QED BY <1>1, <1>4, <1>8, <1>9

(* p's n bytes are in the pipe *)
Written(f, p, x, i, pos, n) ==
  [f EXCEPT !.inode[i].data = Put(@, pos, n, p), !.filp[x].pos = pos + n]

LEMMA PutDoes ==
  ASSUME NEW f, Files(f), NEW p \in Procs, NEW x \in Filps, NEW i \in Inodes, i = f.filp[x].ino,
         f.filp[x].count # 0, NEW pos, pos = f.filp[x].pos, NEW n \in Nat, pos + n <= PIPE_SIZE,
         NEW new, new = Written(f, p, x, i, pos, n)
  PROVE  /\ new \in Tables /\ Shape(f, new) /\ FreeSame(f, new)
         /\ new.inode[i].data = Put(f.inode[i].data, pos, n, p)
         /\ i_size(f, i) = pos => i_size(new, i) = pos + n
         /\ \A j \in Inodes : j # i => new.inode[j] = f.inode[j]
         /\ x \in Uses(f, i) /\ new.filp[x].pos = pos + n
         /\ \A y \in Filps : y # x => new.filp[y] = f.filp[y]
         /\ pos \in Nat
<1> DEFINE data == Put(f.inode[i].data, pos, n, p)
           a    == [f EXCEPT !.inode[i].data = data]
           k    == pos + n
           g    == [a EXCEPT !.filp[x].pos = k]
<1>1. f \in Tables /\ Slots(f) /\ InodeCounts(f)
  BY DEF Files
<1>2. pos \in Nat /\ f.inode[i].data \in BoundedSeq(Procs \cup {0}, PIPE_SIZE)
  <2>1. pos \in Nat
    BY <1>1, FilpTypes
  <2>2. f.inode[i].data \in BoundedSeq(Procs \cup {0}, PIPE_SIZE)
    BY <1>1, Fields
  <2> QED BY <2>1, <2>2
<1>3. /\ data \in BoundedSeq(Procs \cup {0}, PIPE_SIZE)
      /\ i_size(f, i) = pos => Len(data) = pos + n
  BY <1>2, PutIs DEF i_size
<1>4. x \in Uses(f, i) /\ f.inode[i].count # 0
  BY <1>1, UsedCounted DEF Uses
<1>5. new = g
  BY <1>1 DEF Tables, Written
<1> HIDE DEF data
<1>6. /\ a \in Tables /\ Shape(f, a) /\ FreeSame(f, a) /\ a.filp = f.filp
      /\ i_size(a, i) = Len(data) /\ a.inode[i].data = data
      /\ \A j \in Inodes : j # i => a.inode[j] = f.inode[j]
  <2>1. f \in Tables
    BY <1>1
  <2>2. data \in BoundedSeq(Procs \cup {0}, PIPE_SIZE)
    BY <1>3
  <2>3. f.inode[i].count # 0
    BY <1>4
  <2> QED BY ONLY <2>1, <2>2, <2>3, i \in Inodes, SetData DEF a
<1> HIDE DEF a
<1>7. k \in Nat
  BY <1>2
<1>k. k = pos + n
  OBVIOUS
<1> HIDE DEF k
<1>8. /\ g \in Tables /\ Shape(a, g) /\ FreeSame(a, g) /\ g.inode = a.inode
      /\ g.filp[x].pos = k /\ \A y \in Filps : y # x => g.filp[y] = a.filp[y]
  <2>1. a.filp[x].count # 0
    BY <1>6
  <2>2. a \in Tables
    BY <1>6
  <2> QED BY ONLY <1>7, <2>1, <2>2, x \in Filps, SetPos DEF g
<1> HIDE DEF g
<1>9. Shape(f, g)
  BY <1>6, <1>8, ShapeTrans
<1>10. FreeSame(f, g)
  BY <1>6, <1>8 DEF FreeSame, Shape
<1>11. /\ g.inode[i].data = data /\ \A j \in Inodes : j # i => g.inode[j] = f.inode[j]
       /\ i_size(f, i) = pos => i_size(g, i) = pos + n
  <2>1. g.inode[i].data = data /\ \A j \in Inodes : j # i => g.inode[j] = f.inode[j]
    BY <1>6, <1>8
  <2>2. i_size(g, i) = Len(data)
    BY <2>1 DEF i_size
  <2> QED BY <1>3, <2>1, <2>2
<1>12. g.filp[x].pos = pos + n /\ \A y \in Filps : y # x => g.filp[y] = f.filp[y]
  BY <1>6, <1>8, <1>k
<1> QED BY <1>2, <1>4, <1>5, <1>8, <1>9, <1>10, <1>11, <1>12 DEF data

LEMMA PutGood ==
  ASSUME NEW f, NEW e, NEW u, Good(f, e, u), NEW p \in Procs, NEW x \in Filps,
         NEW i \in Inodes, i = f.filp[x].ino, f.filp[x].count # 0, "W" \in f.filp[x].mode,
         NEW pos, pos = f.filp[x].pos, NEW n \in Nat, pos + n <= PIPE_SIZE,
         pos = 0 => Hanging(f, i, "READ") = {}
  PROVE  Good(Written(f, p, x, i, pos, n), e, u)
<1> DEFINE g == Written(f, p, x, i, pos, n)
<1>1. f \in Tables /\ Files(f)
  BY DEF Good, Files
<1>2. /\ g \in Tables /\ Shape(f, g) /\ FreeSame(f, g)
      /\ g.inode[i].data = Put(f.inode[i].data, pos, n, p)
      /\ i_size(f, i) = pos => i_size(g, i) = pos + n
      /\ \A j \in Inodes : j # i => g.inode[j] = f.inode[j]
      /\ x \in Uses(f, i) /\ g.filp[x].pos = pos + n
      /\ \A y \in Filps : y # x => g.filp[y] = f.filp[y]
      /\ pos \in Nat
  BY <1>1, PutDoes
<1> HIDE DEF g
<1>3. ASSUME NEW j \in Inodes, f.inode[j].num = "pipe"
      PROVE  PipeEnds(g, j) /\ (Hanging(f, j, "READ") # {} => i_size(g, j) = 0)
  <2>1. PipeEnds(f, j) /\ Flows(f, j)
    BY <1>3 DEF Good, Files, Pipes, AllFlow
  <2>2. Uses(g, j) = Uses(f, j)
    BY <1>1, <1>2, ShapeSets
  <2>3. \A y \in Uses(f, j) : y \in Filps /\ g.filp[y].mode = f.filp[y].mode
    BY <1>2 DEF Uses, Shape
  <2>4. CASE j = i
    <3>1. f.filp[x].mode # {"R"}
      OBVIOUS
    <3>2. f.filp[x].mode = {"W"} /\ pos = i_size(f, i)
      BY <1>2, <2>1, <2>4, <3>1 DEF PipeEnds
    <3>3. i_size(g, i) = pos + n
      BY <1>2, <3>2
    <3>4. \A y \in Uses(f, j) :
            \/ f.filp[y].mode = {"R"} /\ (g.filp[y].pos < i_size(g, j) \/
                                          (g.filp[y].pos = 0 /\ i_size(g, j) = 0))
            \/ f.filp[y].mode = {"W"} /\ g.filp[y].pos = i_size(g, j)
      <4> SUFFICES ASSUME NEW y \in Uses(f, j)
                   PROVE  \/ f.filp[y].mode = {"R"} /\ (g.filp[y].pos < i_size(g, j) \/
                                                        (g.filp[y].pos = 0 /\ i_size(g, j) = 0))
                          \/ f.filp[y].mode = {"W"} /\ g.filp[y].pos = i_size(g, j)
        OBVIOUS
      <4>1. CASE y = x
        BY <1>2, <2>4, <3>2, <3>3, <4>1
      <4>2. CASE y # x
        <5>1. g.filp[y] = f.filp[y] /\ y \in Filps
          BY <1>2, <2>3, <4>2
        <5>2. f.filp[y].mode # {"W"}
          <6>1. x \in Uses(f, j) /\ f.filp[x].mode = {"W"}
            BY <1>2, <2>4, <3>2
          <6> QED BY <2>1, <4>2, <6>1 DEF PipeEnds
        <5>3. f.filp[y].mode = {"R"} /\ (f.filp[y].pos < pos \/ (f.filp[y].pos = 0 /\ pos = 0))
          BY <2>1, <2>4, <3>2, <5>2 DEF PipeEnds
        <5>4. f.filp[y].pos \in Nat
          BY <1>1, <5>1, FilpTypes
        <5>5. g.filp[y].pos < pos + n \/ (g.filp[y].pos = 0 /\ pos + n = 0)
          BY <1>2, <5>1, <5>3, <5>4
        <5> QED BY <2>4, <3>3, <5>3, <5>5
      <4> QED BY <4>1, <4>2
    <3>5. g.inode[j].i_pipe
      BY <1>2, <2>1 DEF PipeEnds, Shape
    <3>6. \A y, z \in Uses(f, j) : f.filp[y].mode = f.filp[z].mode => y = z
      BY <2>1 DEF PipeEnds
    <3>7. PipeEnds(g, j)
      BY <2>2, <2>3, <3>4, <3>5, <3>6 DEF PipeEnds
    <3>8. Hanging(f, j, "READ") = {}
      BY <2>1, <2>4, <3>2 DEF Flows
    <3> QED BY <3>7, <3>8
  <2>5. CASE j # i
    <3>1. i_size(g, j) = i_size(f, j)
      BY <1>2, <2>5 DEF i_size
    <3>2. \A y \in Uses(f, j) : g.filp[y].pos = f.filp[y].pos
      <4> SUFFICES ASSUME NEW y \in Uses(f, j) PROVE g.filp[y].pos = f.filp[y].pos
        OBVIOUS
      <4>1. y # x /\ y \in Filps
        BY <1>2, <2>5 DEF Uses
      <4> QED BY <1>2, <4>1
    <3>3. PipeEnds(g, j)
      BY <1>2, <2>1, <2>2, <2>3, <3>1, <3>2 DEF PipeEnds, Shape
    <3> QED BY <2>1, <3>1, <3>3 DEF Flows
  <2> QED BY <2>4, <2>5
<1>4. Good(g, e, u)
  BY <1>2, <1>3, ShapeKeeps
<1> QED BY <1>4 DEF g

LEMMA WriteGood ==
  ASSUME NEW f, NEW e, NEW p \in Procs, NEW c \in Hung, Served(f, e, p), c.fs_call = "WRITE"
  PROVE  Good(do_write(f, p, c), e, NIL)
<1>0. c.fd \in Fds /\ c.n \in Nat /\ Good(f, e, p) /\ Files(f) /\ {} \in SUBSET Fds
  BY DEF Hung, Served, Good
<1> DEFINE x == f.fd[p][c.fd]
           i == f.filp[x].ino
           pos == f.filp[x].pos
           g == IF pos = 0 THEN release(f, i, "READ", f.susp_count) ELSE f
           h == Written(g, p, x, i, pos, c.n)
<1>d. do_write(f, p, c) =
        IF \/ x = NIL \/ "W" \notin f.filp[x].mode \/ c.n > PIPE_SIZE \/ find_filp(f, i, "R") = NIL
        THEN reply(f, p, {})
        ELSE IF IsFull(pos, c.n)
        THEN IF f.filp[x].nonblock THEN reply(f, p, {}) ELSE suspend(f, p, c)
        ELSE reply(h, p, {})
  BY DEF do_write, Written
<1>x. f.fd[p][c.fd] = x /\ f.filp[x].ino = i /\ f.filp[x].pos = pos
  OBVIOUS
<1> HIDE DEF x, i, pos
<1>r. Good(reply(f, p, {}), e, NIL)
  BY <1>0, ReplyGood
<1>1. CASE x = NIL \/ "W" \notin f.filp[x].mode \/ c.n > PIPE_SIZE \/ find_filp(f, i, "R") = NIL
  BY <1>1, <1>d, <1>r
<1>2. CASE /\ x # NIL /\ "W" \in f.filp[x].mode /\ ~ (c.n > PIPE_SIZE)
           /\ find_filp(f, i, "R") # NIL /\ IsFull(pos, c.n)
  <2>1. do_write(f, p, c) = IF f.filp[x].nonblock THEN reply(f, p, {}) ELSE suspend(f, p, c)
    BY <1>2, <1>d
  <2>2. c.n <= PIPE_SIZE
    BY <1>0, <1>2, FsAssumption
  <2>3. Good(suspend(f, p, c), e, NIL)
    <3>1. Refers(f, p, c.fd, x, i) /\ IsFull(f.filp[x].pos, c.n)
      BY <1>2, <1>x DEF Refers
    <3> QED BY <1>2, <2>2, <3>1, FullGood
  <2> QED BY <1>r, <2>1, <2>3
<1>3. CASE /\ x # NIL /\ "W" \in f.filp[x].mode /\ ~ (c.n > PIPE_SIZE)
           /\ find_filp(f, i, "R") # NIL /\ ~ IsFull(pos, c.n)
  <2>1. do_write(f, p, c) = reply(h, p, {})
    BY <1>3, <1>d
  <2>2. f \in Tables /\ x \in Filps /\ f.filp[x].count # 0 /\ i \in Inodes
    BY <1>0, <1>3, <1>x, InUse
  <2>3. Good(g, e, p) /\ SameFiles(f, g) /\ (pos = 0 => Hanging(g, i, "READ") = {})
    <3>1. CASE pos = 0
      <4>1. "READ" \in {"READ", "WRITE"} \cup Waits
        OBVIOUS
      <4>2. Covers(f)
        BY <1>0 DEF Good, Suspending
      <4>3. Released(f, g, i, "READ", Hanging(f, i, "READ"))
        BY <2>2, <3>1, <4>1, <4>2, ReleaseAll
      <4> HIDE DEF g
      <4>4. Good(g, e, p)
        BY <1>0, <4>1, <4>3, ReleasedGood
      <4>5. Hanging(g, i, "READ") = {}
        BY <2>2, <4>1, <4>3, ReleasedKeeps
      <4> QED BY <4>3, <4>4, <4>5 DEF Released
    <3>2. CASE pos # 0
      BY <1>0, <3>2 DEF SameFiles
    <3> QED BY <3>1, <3>2
  <2> HIDE DEF g
  <2>4. pos \in Nat
    <3>1. \A y \in Filps : f.filp[y].pos \in Nat
      BY <2>2, FilpTypes
    <3> QED BY <1>x, <2>2, <3>1
  <2>5. pos + c.n <= PIPE_SIZE
    BY <1>0, <1>3, <2>4, FsAssumption DEF IsFull
  <2>6. /\ i = g.filp[x].ino /\ g.filp[x].count # 0 /\ "W" \in g.filp[x].mode
        /\ pos = g.filp[x].pos
    BY <1>3, <1>x, <2>2, <2>3 DEF SameFiles
  <2>7. Good(h, e, p)
    BY <1>0, <2>2, <2>3, <2>5, <2>6, PutGood
  <2> HIDE DEF h
  <2> QED BY <1>0, <2>1, <2>7, ReplyGood
<1> QED BY <1>1, <1>2, <1>3

-----------------------------------------------------------------------------
(* What hangs on *)

(* Who is suspended was so, and what he hangs on is still there *)
HungSame(f, g) ==
  \A q \in Procs : Suspended(g, q) =>
    /\ g.hung[q] = f.hung[q] /\ g.revived[q] = f.revived[q]
    /\ g.fd[q][f.hung[q].fd] = f.fd[q][f.hung[q].fd]
    /\ Filp(g, q, f.hung[q].fd).mode = Filp(f, q, f.hung[q].fd).mode
    /\ Filp(g, q, f.hung[q].fd).ino = Filp(f, q, f.hung[q].fd).ino

LEMMA HungKeeps ==
  ASSUME NEW f \in Tables, NEW g \in Tables, HungSame(f, g)
  PROVE  /\ Hooked(f) => Hooked(g)
         /\ \A i, c : c \in {"READ", "WRITE"} \cup Waits => Hanging(g, i, c) \subseteq Hanging(f, i, c)
         /\ HangersOf(g) \subseteq HangersOf(f)
<1>1. HangersOf(g) \subseteq HangersOf(f)
  BY DEF HangersOf, HungSame, Suspended
<1>2. Hooked(f) => Hooked(g)
  <2> SUFFICES ASSUME Hooked(f), NEW q \in Procs, Suspended(g, q)
               PROVE  /\ g.fd[q][g.hung[q].fd] # NIL
                      /\ g.hung[q].fs_call = "READ"  => "R" \in Filp(g, q, g.hung[q].fd).mode
                      /\ g.hung[q].fs_call = "WRITE" => "W" \in Filp(g, q, g.hung[q].fd).mode
    BY DEF Hooked
  <2>1. /\ g.hung[q] = f.hung[q] /\ g.fd[q][f.hung[q].fd] = f.fd[q][f.hung[q].fd]
        /\ Filp(g, q, f.hung[q].fd).mode = Filp(f, q, f.hung[q].fd).mode
    BY DEF HungSame
  <2>2. Suspended(f, q)
    BY <2>1 DEF Suspended
  <2> QED BY <2>1, <2>2 DEF Hooked
<1>3. ASSUME NEW i, NEW c \in {"READ", "WRITE"} \cup Waits, NEW q \in Hanging(g, i, c)
      PROVE  q \in Hanging(f, i, c)
  <2>1. /\ q \in Procs /\ g.hung[q].fs_call = c /\ ~ g.revived[q] /\ Suspended(g, q)
        /\ Filp(g, q, g.hung[q].fd).ino = i
    BY HangersAre DEF Hanging
  <2>2. /\ g.hung[q] = f.hung[q] /\ g.revived[q] = f.revived[q]
        /\ Filp(g, q, f.hung[q].fd).ino = Filp(f, q, f.hung[q].fd).ino
    BY <2>1 DEF HungSame
  <2> QED BY <2>1, <2>2 DEF Hanging
<1> QED BY <1>1, <1>2, <1>3

LEMMA HungFlows ==
  ASSUME NEW f \in Tables, NEW g \in Tables, HungSame(f, g), NEW i, Flows(f, i),
         Hanging(g, i, "READ") # {}  => i_size(g, i) = 0 /\ Open(g, i, "W") # {},
         Hanging(g, i, "WRITE") # {} => Open(g, i, "R") # {}
  PROVE  Flows(g, i)
<1>1. /\ Hanging(g, i, "READ") \subseteq Hanging(f, i, "READ")
      /\ Hanging(g, i, "WRITE") \subseteq Hanging(f, i, "WRITE")
  BY HungKeeps, SMTT(30)
<1> HIDE DEF Hanging, i_size, Open
<1> QED BY <1>1 DEF Flows

LEMMA HungAlone ==
  ASSUME NEW f, Files(f), Hooked(f), NEW g \in Tables, HungSame(f, g), Alone(f),
         \A i \in Inodes : \A y \in Uses(g, i) : y \in Uses(f, i) /\ g.filp[y].mode = f.filp[y].mode
  PROVE  Alone(g)
<1> SUFFICES ASSUME NEW p \in Procs, g.hung[p].fs_call \in Waits,
                    NEW y \in Uses(g, g.filp[g.fd[p][g.hung[p].fd]].ino)
             PROVE  {g.filp[g.fd[p][g.hung[p].fd]].mode, g.filp[y].mode} # {{"R"}, {"W"}}
  BY Zenon DEF Alone
<1> DEFINE x == g.fd[p][g.hung[p].fd]
<1>x. g.fd[p][g.hung[p].fd] = x /\ y \in Uses(g, g.filp[x].ino)
  OBVIOUS
<1> HIDE DEF x
<1>1. Suspended(g, p)
  BY Calls, Fields, SMTT(30) DEF Suspended
<1>2. /\ g.hung[p] = f.hung[p] /\ x = f.fd[p][f.hung[p].fd]
      /\ g.filp[x].mode = f.filp[x].mode /\ g.filp[x].ino = f.filp[x].ino
  <2>1. /\ g.hung[p] = f.hung[p] /\ g.fd[p][f.hung[p].fd] = f.fd[p][f.hung[p].fd]
        /\ Filp(g, p, f.hung[p].fd).mode = Filp(f, p, f.hung[p].fd).mode
        /\ Filp(g, p, f.hung[p].fd).ino = Filp(f, p, f.hung[p].fd).ino
    BY <1>1, ZenonT(60) DEF HungSame
  <2> QED BY <1>x, <2>1, ZenonT(60) DEF Filp
<1>3. y \in Uses(f, f.filp[x].ino) /\ g.filp[y].mode = f.filp[y].mode
  <2>1. Suspended(f, p)
    BY <1>1, <1>2, ZenonT(60) DEF Suspended
  <2>2. f.filp[f.fd[p][f.hung[p].fd]].ino \in Inodes
    BY <2>1, HungFile, ZenonT(60)
  <2>3. f.filp[x].ino \in Inodes
    BY <1>2, <2>2
  <2> QED BY <1>x, <1>2, <2>3, ZenonT(60)
<1>4. \A z \in Uses(f, f.filp[x].ino) : {f.filp[x].mode, f.filp[z].mode} # {{"R"}, {"W"}}
  <2> DEFINE h == f.fd[p][f.hung[p].fd]
  <2>1. f.hung[p].fs_call \in Waits
    BY <1>2, ZenonT(60)
  <2>2. \A z \in Uses(f, f.filp[h].ino) : {f.filp[h].mode, f.filp[z].mode} # {{"R"}, {"W"}}
    BY <2>1, ZenonT(60) DEF Alone
  <2>3. x = h
    BY <1>2
  <2> HIDE DEF h
  <2> QED BY <2>2, <2>3, SMTT(30)
<1> QED BY <1>x, <1>2, <1>3, <1>4, ZenonT(60)

(* More descriptors for the same files *)
Alike(f, g) ==
  /\ g.inode = f.inode
  /\ \A x \in Filps : /\ g.filp[x].mode = f.filp[x].mode /\ g.filp[x].pos = f.filp[x].pos
                      /\ g.filp[x].ino = f.filp[x].ino /\ g.filp[x].count >= f.filp[x].count
                      /\ f.filp[x].count = 0 => g.filp[x] = f.filp[x]
  /\ \A q \in Procs, d \in Fds : f.fd[q][d] # NIL => g.fd[q][d] = f.fd[q][d]
  /\ g.hung = f.hung /\ g.revived = f.revived
  /\ g.susp_count = f.susp_count /\ g.reviving = f.reviving

LEMMA AlikeGood ==
  ASSUME NEW f, NEW e, NEW w, Good(f, e, w), NEW g \in Tables, Alike(f, g), FilpCounts(g),
         NEW u, NEW v, Told(g, u, v)
  PROVE  Good(g, u, v)
<1>1. f \in Tables /\ Files(f) /\ Suspending(f) /\ Hooked(f) /\ Marks(f) /\ Covers(f)
  BY DEF Good, Files, Suspending
<1>2. /\ \A i : Uses(g, i) = Uses(f, i)
      /\ \A i : i_size(g, i) = i_size(f, i)
      /\ \A i, bit : Open(g, i, bit) = Open(f, i, bit)
  BY DEF Alike, Uses, i_size, Open
<1>3. Slots(g)
  <2>1. ASSUME NEW x \in Filps
        PROVE  IF g.filp[x].count = 0 THEN g.filp[x] = FreeFilp
               ELSE g.filp[x].mode \in Modes /\ g.filp[x].ino \in Inodes
    <3>1. CASE f.filp[x].count = 0
      BY <1>1, <3>1 DEF Files, Slots, Alike
    <3>2. CASE f.filp[x].count # 0
      <4>1. f.filp[x].count \in Nat /\ g.filp[x].count \in Nat /\ g.filp[x].count >= f.filp[x].count
        BY <1>1, FilpTypes DEF Alike
      <4>2. g.filp[x].count # 0
        BY <3>2, <4>1
      <4> QED BY <1>1, <3>2, <4>2 DEF Files, Slots, Alike
    <3> QED BY <3>1, <3>2
  <2>2. \A i \in Inodes : IF g.inode[i].count = 0 THEN g.inode[i] = FreeInode
                          ELSE g.inode[i].num # "none"
    BY <1>1 DEF Files, Slots, Alike
  <2> QED BY <2>1, <2>2 DEF Slots
<1>4. InodeCounts(g)
  BY <1>1, <1>2 DEF Files, InodeCounts, Alike
<1>5. Pipes(g)
  <2> SUFFICES ASSUME NEW i \in Inodes, g.inode[i].num = "pipe" PROVE PipeEnds(g, i)
    BY DEF Pipes
  <2>1. PipeEnds(f, i)
    BY <1>1 DEF Files, Pipes, Alike
  <2>2. \A y \in Uses(f, i) : g.filp[y].mode = f.filp[y].mode /\ g.filp[y].pos = f.filp[y].pos
    BY DEF Uses, Alike
  <2>3. g.inode[i].i_pipe = f.inode[i].i_pipe
    BY SMTT(30) DEF Alike
  <2> QED BY <1>2, <2>1, <2>2, <2>3 DEF PipeEnds
<1>6. HungSame(f, g)
  <2> SUFFICES ASSUME NEW q \in Procs, Suspended(g, q)
               PROVE  /\ g.hung[q] = f.hung[q] /\ g.revived[q] = f.revived[q]
                      /\ g.fd[q][f.hung[q].fd] = f.fd[q][f.hung[q].fd]
                      /\ Filp(g, q, f.hung[q].fd).mode = Filp(f, q, f.hung[q].fd).mode
                      /\ Filp(g, q, f.hung[q].fd).ino = Filp(f, q, f.hung[q].fd).ino
    BY DEF HungSame
  <2>1. Suspended(f, q)
    BY DEF Suspended, Alike
  <2>2. f.hung[q].fd \in Fds /\ f.fd[q][f.hung[q].fd] \in Filps
    BY <1>1, <2>1, HungFile, Zenon
  <2> QED BY <2>2, Ranges, Zenon DEF Alike, Filp
<1>7. Hooked(g) /\ AllFlow(g) /\ Alone(g)
  <2>1. Hooked(g)
    BY <1>1, <1>6, HungKeeps
  <2>2. Alone(g)
    <3>1. Alone(f)
      BY DEF Good
    <3>2. \A i : \A y \in Uses(g, i) : y \in Uses(f, i) /\ g.filp[y].mode = f.filp[y].mode
      BY <1>2 DEF Uses, Alike
    <3> QED BY <1>1, <1>6, <3>1, <3>2, HungAlone
  <2>3. AllFlow(g)
    <3> SUFFICES ASSUME NEW i \in Inodes, g.inode[i].num = "pipe" PROVE Flows(g, i)
      BY DEF AllFlow
    <3>1. Flows(f, i)
      BY DEF Good, AllFlow, Alike
    <3>2. /\ Hanging(g, i, "READ") \subseteq Hanging(f, i, "READ")
          /\ Hanging(g, i, "WRITE") \subseteq Hanging(f, i, "WRITE")
      BY <1>1, <1>6, HungKeeps
    <3> HIDE DEF Hanging, i_size, Open
    <3> QED BY <1>2, <3>1, <3>2 DEF Flows
  <2> QED BY <2>1, <2>2, <2>3
<1>8. Marks(g) /\ Covers(g)
  BY <1>1 DEF Marks, Covers, HangersOf, Suspended, Alike
<1> QED BY <1>3, <1>4, <1>5, <1>7, <1>8 DEF Good, Files, Suspending

-----------------------------------------------------------------------------
(* dup(), dup2() and fork() *)

LEMMA RunsServed ==
  ASSUME NEW f, NEW e, NEW p \in Procs, Good(f, e, NIL), f.at[p] = "runs"
  PROVE  Served(f, e, p) /\ Good(f, e, p) /\ ~ Suspended(f, p)
<1>1. Told(f, e, NIL)
  BY DEF Good
<1>2. p # e /\ ~ Suspended(f, p)
  BY <1>1, Ranges DEF Told
<1>3. Told(f, e, p)
  BY <1>1, <1>2, Ranges DEF Told
<1> QED BY <1>2, <1>3 DEF Good, Served

LEMMA FreeSlots ==
  ASSUME NEW f \in Tables, NEW p \in Procs
  PROVE  /\ \A S \in SUBSET FreeFds(f, p) :
              S # {} => Min(S) \in Fds /\ f.fd[p][Min(S)] = NIL /\ Min(S) \in S
         /\ \A S \in SUBSET FreeFilps(f) :
              S # {} => Min(S) \in Filps /\ f.filp[Min(S)].count = 0 /\ Min(S) \in S
<1>1. ASSUME NEW S \in SUBSET FreeFds(f, p), S # {}
      PROVE  Min(S) \in Fds /\ f.fd[p][Min(S)] = NIL /\ Min(S) \in S
  <2>1. S \in SUBSET Int /\ IsFiniteSet(S)
    BY Ranges, FS_Subset DEF FreeFds
  <2>2. Min(S) \in S
    BY <1>1, <2>1, MinIn
  <2> QED BY <2>2 DEF FreeFds
<1>2. ASSUME NEW S \in SUBSET FreeFilps(f), S # {}
      PROVE  Min(S) \in Filps /\ f.filp[Min(S)].count = 0 /\ Min(S) \in S
  <2>1. S \in SUBSET Int /\ IsFiniteSet(S)
    <3>1. S \in SUBSET Filps
      BY DEF FreeFilps
    <3>2. IsFiniteSet(S)
      BY <3>1, Ranges, FS_Subset
    <3> QED BY <3>1, <3>2, Ranges
  <2>2. Min(S) \in S
    BY <1>2, <2>1, MinIn
  <2> QED BY <2>2 DEF FreeFilps
<1> QED BY <1>1, <1>2

(* A free descriptor is for filp x, which counts one more *)
LEMMA CountsOneMore ==
  ASSUME NEW f \in Tables, FilpCounts(f), NEW p \in Procs, NEW d \in Fds, NEW x \in Filps,
         f.fd[p][d] = NIL, NEW g, g.fd = [f.fd EXCEPT ![p] = [@ EXCEPT ![d] = x]],
         g.filp[x].count = f.filp[x].count + 1,
         \A y \in Filps : y # x => g.filp[y].count = f.filp[y].count
  PROVE  FilpCounts(g)
<1>0. x # NIL
  BY Ranges
<1>1. /\ Cardinality(Refs(g, x)) = Cardinality(Refs(f, x)) + 1
      /\ \A y : y \notin {x, NIL} => Refs(g, y) = Refs(f, y)
  BY <1>0, SetFd
<1>2. ASSUME NEW y \in Filps PROVE g.filp[y].count = Cardinality(Refs(g, y))
  <2>1. CASE y = x
    BY <1>1, <2>1 DEF FilpCounts
  <2>2. CASE y # x
    <3>1. Refs(g, y) = Refs(f, y)
      BY <1>1, <2>2, Ranges
    <3> QED BY <2>2, <3>1 DEF FilpCounts
  <2> QED BY <2>1, <2>2
<1> QED BY <1>2 DEF FilpCounts

LEMMA DupPlaced ==
  ASSUME NEW f, NEW e, NEW w, Good(f, e, w), NEW p \in Procs, NEW d \in Fds, NEW b \in Fds,
         NEW x, x = f.fd[p][d], x # NIL, f.fd[p][b] = NIL
  PROVE  Good([f EXCEPT !.fd[p][b] = x, !.filp[x].count = @ + 1], e, w)
<1> DEFINE fd   == [f.fd EXCEPT ![p] = [@ EXCEPT ![b] = x]]
           v    == [f.filp[x] EXCEPT !.count = @ + 1]
           filp == [f.filp EXCEPT ![x] = v]
           g    == [f EXCEPT !.fd = fd, !.filp = filp]
<1>1. /\ f \in Tables /\ x \in Filps /\ f.filp[x].count # 0 /\ FilpCounts(f) /\ Told(f, e, w)
  BY InUse DEF Good, Files
<1>2. [f EXCEPT !.fd[p][b] = x, !.filp[x].count = @ + 1] = g
  BY <1>1 DEF Tables
<1>3. fd \in [Procs -> [Fds -> Filps \cup {NIL}]] /\ fd[p][b] = x
      /\ \A q \in Procs, k \in Fds : <<q, k>> # <<p, b>> => fd[q][k] = f.fd[q][k]
  BY <1>1, Fields
<1>4. /\ v \in [mode : Modes \cup {{}}, count : Nat, pos : Nat, ino : Inodes \cup {NIL},
                nonblock : BOOLEAN]
      /\ v.mode = f.filp[x].mode /\ v.pos = f.filp[x].pos /\ v.ino = f.filp[x].ino
      /\ v.count = f.filp[x].count + 1
  <2> HIDE DEF fd
  <2>1. f.filp[x] \in [mode : Modes \cup {{}}, count : Nat, pos : Nat, ino : Inodes \cup {NIL},
                       nonblock : BOOLEAN]
    BY <1>1, Fields
  <2> QED BY <2>1
<1> HIDE DEF v
<1>5. /\ filp \in [Filps -> [mode : Modes \cup {{}}, count : Nat, pos : Nat,
                             ino : Inodes \cup {NIL}, nonblock : BOOLEAN]]
      /\ filp[x] = v /\ \A y \in Filps : y # x => filp[y] = f.filp[y]
  BY <1>1, <1>4, Fields
<1>6. fd = [f.fd EXCEPT ![p] = [@ EXCEPT ![b] = x]]
  OBVIOUS
<1> HIDE DEF fd, filp
<1>7. g \in Tables
  BY <1>1, <1>3, <1>5 DEF Tables
<1>8. /\ g.fd = fd /\ g.filp = filp /\ g.inode = f.inode /\ g.hung = f.hung /\ g.at = f.at
      /\ g.revived = f.revived /\ g.susp_count = f.susp_count /\ g.reviving = f.reviving
  BY <1>1 DEF Tables
<1> HIDE DEF g
<1>9. FilpCounts(g)
  <2>1. g.fd = [f.fd EXCEPT ![p] = [@ EXCEPT ![b] = x]]
    BY <1>6, <1>8
  <2>2. g.filp[x].count = f.filp[x].count + 1
    BY <1>4, <1>5, <1>8
  <2>3. \A y \in Filps : y # x => g.filp[y].count = f.filp[y].count
    BY <1>5, <1>8
  <2> QED BY <1>1, <2>1, <2>2, <2>3, CountsOneMore
<1>10. Alike(f, g)
  <2>1. \A q \in Procs, k \in Fds : f.fd[q][k] # NIL => g.fd[q][k] = f.fd[q][k]
    BY <1>3, <1>8
  <2>2. \A y \in Filps : /\ g.filp[y].mode = f.filp[y].mode /\ g.filp[y].pos = f.filp[y].pos
                         /\ g.filp[y].ino = f.filp[y].ino /\ g.filp[y].count >= f.filp[y].count
                         /\ f.filp[y].count = 0 => g.filp[y] = f.filp[y]
    <3> SUFFICES ASSUME NEW y \in Filps
                 PROVE  /\ g.filp[y].mode = f.filp[y].mode /\ g.filp[y].pos = f.filp[y].pos
                        /\ g.filp[y].ino = f.filp[y].ino /\ g.filp[y].count >= f.filp[y].count
                        /\ f.filp[y].count = 0 => g.filp[y] = f.filp[y]
      OBVIOUS
    <3>1. f.filp[y].count \in Nat
      BY <1>1, FilpTypes
    <3> QED BY <1>1, <1>4, <1>5, <1>8, <3>1
  <2> QED BY <1>8, <2>1, <2>2 DEF Alike
<1>11. Told(g, e, w)
  <2>1. \A q \in Procs : f.at[q] = "free" /\ q # e => \A k \in Fds : g.fd[q][k] = NIL
    <3> SUFFICES ASSUME NEW q \in Procs, f.at[q] = "free", q # e, NEW k \in Fds
                 PROVE  g.fd[q][k] = NIL
      OBVIOUS
    <3>1. \A j \in Fds : f.fd[q][j] = NIL
      BY <1>1 DEF Told
    <3>2. q # p
      BY <3>1
    <3> QED BY <1>3, <1>8, <3>1, <3>2
  <2> QED BY <1>1, <1>8, <2>1 DEF Told, Suspended
<1>12. Good(g, e, w)
  BY <1>7, <1>9, <1>10, <1>11, AlikeGood
<1> QED BY <1>2, <1>12, SMTT(30)

LEMMA DupGood ==
  ASSUME NEW f, NEW e, NEW p \in Procs, Good(f, e, NIL), f.at[p] = "runs", NEW d \in Fds
  PROVE  Good(do_dup(f, p, d), e, NIL)
<1>0. f \in Tables /\ Good(f, e, p)
  BY RunsServed DEF Good, Files
<1>1. CASE f.fd[p][d] = NIL \/ ~ get_fd(f, p)
  BY <1>1 DEF do_dup
<1>2. CASE f.fd[p][d] # NIL /\ get_fd(f, p)
  <2> DEFINE b == Min(FreeFds(f, p))
             x == f.fd[p][d]
             h == [f EXCEPT !.fd[p][b] = x, !.filp[x].count = @ + 1]
  <2>1. do_dup(f, p, d) = reply(h, p, {b})
    BY <1>2 DEF do_dup, DupTo
  <2>2. b \in Fds /\ f.fd[p][b] = NIL
    BY <1>0, <1>2, FreeSlots DEF get_fd
  <2> HIDE DEF b
  <2>3. Good(h, e, p)
    BY <1>0, <1>2, <2>2, DupPlaced
  <2>4. {b} \in SUBSET Fds
    BY <2>2
  <2> HIDE DEF h
  <2> QED BY <2>1, <2>3, <2>4, ReplyGood
<1> QED BY <1>1, <1>2

(* fork(): every descriptor of the child is a reference more *)
LEMMA ForkGood ==
  ASSUME NEW f, NEW e, NEW p \in Procs, NEW c \in Procs, Good(f, e, NIL), f.at[p] = "runs",
         e = NIL, f.at[c] = "free"
  PROVE  Good(do_fork(f, p, c), e, NIL)
<1>0. f \in Tables /\ FilpCounts(f) /\ Slots(f) /\ Told(f, e, NIL) /\ p # c
  BY DEF Good, Files
<1>1. ~ Suspended(f, c) /\ \A d \in Fds : f.fd[c][d] = NIL
  BY <1>0, Ranges DEF Told
<1> DEFINE S(x) == {d \in Fds : f.fd[p][d] = x}
           at    == [f.at EXCEPT ![c] = "runs"]
           knows == [f.knows EXCEPT ![c] = f.knows[p]]
           fd    == [f.fd EXCEPT ![c] = f.fd[p]]
           filp  == [x \in Filps |-> [f.filp[x] EXCEPT !.count = @ + Cardinality(S(x))]]
           g     == [f EXCEPT !.at = at, !.knows = knows, !.fd = fd, !.filp = filp]
<1>2. do_fork(f, p, c) = g
  BY <1>0 DEF do_fork, Tables
<1>3. \A x : IsFiniteSet(S(x)) /\ Cardinality(S(x)) \in Nat
  <2> SUFFICES ASSUME NEW x PROVE IsFiniteSet(S(x)) /\ Cardinality(S(x)) \in Nat
    OBVIOUS
  <2>1. S(x) \in SUBSET Fds
    OBVIOUS
  <2> HIDE DEF S
  <2> QED BY <2>1, Ranges, FS_Subset, FS_CardinalityType
<1>4. at \in [Procs -> {"free", "runs", "waits"}] /\ knows \in [Procs -> SUBSET Fds]
  BY <1>0, Fields
<1>5. /\ fd \in [Procs -> [Fds -> Filps \cup {NIL}]]
      /\ fd[c] = f.fd[p] /\ \A q \in Procs : q # c => fd[q] = f.fd[q]
  BY <1>0, Fields
<1> HIDE DEF S
<1>6. \A x \in Filps : /\ filp[x].mode = f.filp[x].mode /\ filp[x].pos = f.filp[x].pos
                       /\ filp[x].ino = f.filp[x].ino
                       /\ filp[x].count = f.filp[x].count + Cardinality(S(x))
                       /\ S(x) = {} => filp[x] = f.filp[x]
  <2> SUFFICES ASSUME NEW x \in Filps
               PROVE  /\ filp[x].mode = f.filp[x].mode /\ filp[x].pos = f.filp[x].pos
                      /\ filp[x].ino = f.filp[x].ino
                      /\ filp[x].count = f.filp[x].count + Cardinality(S(x))
                      /\ S(x) = {} => filp[x] = f.filp[x]
    OBVIOUS
  <2>1. f.filp[x] \in [mode : Modes \cup {{}}, count : Nat, pos : Nat, ino : Inodes \cup {NIL},
                       nonblock : BOOLEAN]
    BY <1>0, Fields
  <2>2. S(x) = {} => Cardinality(S(x)) = 0
    BY FS_EmptySet
  <2> HIDE DEF at, knows, fd
  <2> QED BY <1>3, <2>1, <2>2
<1>7. filp \in [Filps -> [mode : Modes \cup {{}}, count : Nat, pos : Nat,
                          ino : Inodes \cup {NIL}, nonblock : BOOLEAN]]
  <2> SUFFICES ASSUME NEW x \in Filps
               PROVE  [f.filp[x] EXCEPT !.count = @ + Cardinality(S(x))]
                        \in [mode : Modes \cup {{}}, count : Nat, pos : Nat,
                             ino : Inodes \cup {NIL}, nonblock : BOOLEAN]
    OBVIOUS
  <2>1. f.filp[x] \in [mode : Modes \cup {{}}, count : Nat, pos : Nat, ino : Inodes \cup {NIL},
                       nonblock : BOOLEAN]
    BY <1>0, Fields
  <2> HIDE DEF at, knows, fd, filp
  <2> QED BY <1>3, <2>1
<1>8. /\ at[c] = "runs" /\ \A q \in Procs : q # c => at[q] = f.at[q]
  BY <1>0, Fields
<1> HIDE DEF at, knows, fd, filp
<1>9. g \in Tables
  BY <1>0, <1>4, <1>5, <1>7 DEF Tables
<1>10. /\ g.fd = fd /\ g.filp = filp /\ g.inode = f.inode /\ g.hung = f.hung /\ g.at = at
       /\ g.revived = f.revived /\ g.susp_count = f.susp_count /\ g.reviving = f.reviving
  BY <1>0 DEF Tables
<1> HIDE DEF g
<1>11. FilpCounts(g)
  <2> SUFFICES ASSUME NEW x \in Filps PROVE g.filp[x].count = Cardinality(Refs(g, x))
    BY DEF FilpCounts
  <2> DEFINE C == {c} \X S(x)
             A == Refs(f, x)
  <2>1. Refs(g, x) = A \cup C
    <3>1. ASSUME NEW q \in Procs, NEW d \in Fds
          PROVE  <<q, d>> \in Refs(g, x) <=> <<q, d>> \in A \/ <<q, d>> \in C
      <4>1. CASE q = c
        BY <1>1, <1>5, <1>10, <4>1, Ranges DEF Refs, S
      <4>2. CASE q # c
        BY <1>5, <1>10, <4>2 DEF Refs, S
      <4> QED BY <4>1, <4>2
    <3>2. Refs(g, x) \subseteq Procs \X Fds /\ A \subseteq Procs \X Fds /\ C \subseteq Procs \X Fds
      BY DEF Refs, S
    <3> HIDE DEF A, C
    <3> QED BY <3>1, <3>2
  <2>2. A \cap C = {}
    <3>1. ASSUME NEW y \in A, y \in C PROVE FALSE
      <4>1. y[1] = c /\ f.fd[y[1]][y[2]] = x /\ y[2] \in Fds
        BY <3>1 DEF Refs
      <4> QED BY <1>1, <4>1, Ranges
    <3> QED BY <3>1
  <2>3. IsFiniteSet(A) /\ IsFiniteSet(S(x)) /\ IsFiniteSet({c}) /\ Cardinality({c}) = 1
    BY <1>3, RefsFinite, FS_Singleton
  <2>4. IsFiniteSet(C) /\ Cardinality(C) = Cardinality({c}) * Cardinality(S(x))
    <3> DEFINE one == {c}
    <3> HIDE DEF one
    <3>1. IsFiniteSet(one) /\ IsFiniteSet(S(x))
      BY <2>3 DEF one
    <3>2. IsFiniteSet(one \X S(x)) /\ Cardinality(one \X S(x)) = Cardinality(one) * Cardinality(S(x))
      BY <3>1, FS_Product
    <3> QED BY <3>2 DEF one
  <2>5. Cardinality(C) = Cardinality(S(x))
    BY <1>3, <2>3, <2>4
  <2>6. Cardinality(A) = f.filp[x].count /\ g.filp[x].count = f.filp[x].count + Cardinality(S(x))
    BY <1>0, <1>6, <1>10 DEF FilpCounts
  <2> HIDE DEF A, C
  <2>7. Cardinality(A \cup C) = Cardinality(A) + Cardinality(C) - Cardinality(A \cap C)
    BY <2>3, <2>4, FS_Union
  <2>8. Cardinality(A \cap C) = 0
    BY <2>2, FS_EmptySet
  <2>9. Cardinality(A) \in Nat /\ Cardinality(C) \in Nat
    BY <2>3, <2>4, FS_CardinalityType
  <2> QED BY <2>1, <2>5, <2>6, <2>7, <2>8, <2>9
<1>12. Alike(f, g)
  <2>1. \A q \in Procs, d \in Fds : f.fd[q][d] # NIL => g.fd[q][d] = f.fd[q][d]
    BY <1>1, <1>5, <1>10
  <2>2. \A y \in Filps : /\ g.filp[y].mode = f.filp[y].mode /\ g.filp[y].pos = f.filp[y].pos
                         /\ g.filp[y].ino = f.filp[y].ino /\ g.filp[y].count >= f.filp[y].count
                         /\ f.filp[y].count = 0 => g.filp[y] = f.filp[y]
    <3> SUFFICES ASSUME NEW y \in Filps
                 PROVE  /\ g.filp[y].mode = f.filp[y].mode /\ g.filp[y].pos = f.filp[y].pos
                        /\ g.filp[y].ino = f.filp[y].ino /\ g.filp[y].count >= f.filp[y].count
                        /\ f.filp[y].count = 0 => g.filp[y] = f.filp[y]
      OBVIOUS
    <3>1. f.filp[y].count \in Nat
      BY <1>0, FilpTypes
    <3>2. f.filp[y].count = 0 => S(y) = {}
      <4>1. ASSUME NEW d \in S(y), f.filp[y].count = 0 PROVE FALSE
        <5>1. d \in Fds /\ f.fd[p][d] = y
          BY DEF S
        <5> QED BY <1>0, <4>1, <5>1, Counted
      <4> QED BY <4>1
    <3>3. g.filp[y].count >= f.filp[y].count
      BY <1>3, <1>6, <1>10, <3>1
    <3> QED BY <1>6, <1>10, <3>2, <3>3
  <2> QED BY <1>10, <2>1, <2>2 DEF Alike
<1>13. Told(g, e, NIL)
  <2> SUFFICES ASSUME NEW q \in Procs
               PROVE  /\ g.at[q] = "waits" => Suspended(g, q) \/ q = NIL
                      /\ Suspended(g, q) => (g.at[q] = "waits" \/ q = e) /\ q # NIL
                      /\ g.at[q] = "free" => q = e \/ (~ Suspended(g, q) /\ \A d \in Fds : g.fd[q][d] = NIL)
    BY <1>0 DEF Told
  <2>1. CASE q = c
    BY <1>1, <1>8, <1>10, <2>1 DEF Suspended
  <2>2. CASE q # c
    BY <1>0, <1>5, <1>8, <1>10, <2>2 DEF Told, Suspended
  <2> QED BY <2>1, <2>2
<1>14. Good(g, e, NIL)
  BY <1>9, <1>11, <1>12, <1>13, AlikeGood
<1> QED BY <1>2, <1>14

-----------------------------------------------------------------------------
(* close() *)

(* Descriptor d of p is no longer for filp x of inode i *)
Closed(f, g, p, d, x, i) ==
  /\ g \in Tables /\ SameProcs(f, g)
  /\ g.fd = [f.fd EXCEPT ![p] = [@ EXCEPT ![d] = NIL]]
  /\ \A y \in Filps : y # x => g.filp[y] = f.filp[y]
  /\ \A j \in Inodes : j # i => g.inode[j] = f.inode[j]
  /\ f.filp[x].count = 1 =>
       /\ g.filp[x] = FreeFilp
       /\ f.inode[i].count = 1 => g.inode[i] = FreeInode
       /\ f.inode[i].count # 1 => /\ g.inode[i].count = f.inode[i].count - 1
                                  /\ g.inode[i].num = f.inode[i].num
                                  /\ g.inode[i].i_pipe = f.inode[i].i_pipe
                                  /\ g.inode[i].data = f.inode[i].data
  /\ f.filp[x].count # 1 =>
       /\ g.filp[x].mode = f.filp[x].mode /\ g.filp[x].pos = f.filp[x].pos
       /\ g.filp[x].ino = f.filp[x].ino /\ g.filp[x].count = f.filp[x].count - 1
       /\ g.inode[i] = f.inode[i]

(* What close() does once the processes that hang are released *)
GiveUp(g, p, d, x, i, count) ==
  LET h == IF count = 1 THEN put_inode([g EXCEPT !.filp[x] = FreeFilp], i)
           ELSE [g EXCEPT !.filp[x].count = @ - 1]
  IN  [h EXCEPT !.fd[p][d] = NIL, !.knows[p] = @ \ {d}]

LEMMA GiveUpDoes ==
  ASSUME NEW f \in Tables, NEW p \in Procs, NEW d \in Fds, NEW x \in Filps, NEW i \in Inodes,
         f.filp[x].count # 0, f.inode[i].count # 0
  PROVE  Closed(f, GiveUp(f, p, d, x, i, f.filp[x].count), p, d, x, i)
<1> DEFINE fd    == [f.fd EXCEPT ![p] = [@ EXCEPT ![d] = NIL]]
           knows == [f.knows EXCEPT ![p] = @ \ {d}]
           v     == IF f.filp[x].count = 1 THEN FreeFilp ELSE [f.filp[x] EXCEPT !.count = @ - 1]
           u     == IF f.filp[x].count # 1 THEN f.inode[i]
                    ELSE IF f.inode[i].count = 1 THEN FreeInode
                    ELSE [f.inode[i] EXCEPT !.count = @ - 1]
           filp  == [f.filp EXCEPT ![x] = v]
           inode == [f.inode EXCEPT ![i] = u]
           g     == [f EXCEPT !.fd = fd, !.knows = knows, !.filp = filp, !.inode = inode]
<1>1. /\ f.filp[x] \in [mode : Modes \cup {{}}, count : Nat, pos : Nat, ino : Inodes \cup {NIL},
                        nonblock : BOOLEAN]
      /\ f.inode[i] \in [num : {"none", "pipe", "fifo"}, count : Nat, i_pipe : BOOLEAN,
                         data : BoundedSeq(Procs \cup {0}, PIPE_SIZE)]
  <2> HIDE DEF fd, knows, v, u, filp, inode, g
  <2> QED BY Fields
<1>2. GiveUp(f, p, d, x, i, f.filp[x].count) = g
  <2>1. CASE f.filp[x].count = 1
    <3>1. inode = [f.inode EXCEPT ![i] = IF @.count = 1 THEN FreeInode
                                         ELSE [f.inode[i] EXCEPT !.count = @ - 1]]
      BY <2>1, Fields
    <3>2. filp = [f.filp EXCEPT ![x] = FreeFilp]
      BY <2>1
    <3> HIDE DEF inode, filp
    <3> QED BY <2>1, <3>1, <3>2, Fields DEF GiveUp, put_inode, Tables
  <2>2. CASE f.filp[x].count # 1
    <3>1. inode = f.inode
      BY <2>2, Fields
    <3>2. filp = [f.filp EXCEPT ![x].count = @ - 1]
      BY <2>2
    <3> HIDE DEF inode, filp
    <3> QED BY <2>2, <3>1, <3>2 DEF GiveUp, Tables
  <2> QED BY <2>1, <2>2
<1>3. FreeFilp \in [mode : Modes \cup {{}}, count : Nat, pos : Nat, ino : Inodes \cup {NIL},
                   nonblock : BOOLEAN]
  BY DEF FreeFilp
<1>4. FreeInode \in [num : {"none", "pipe", "fifo"}, count : Nat, i_pipe : BOOLEAN,
                     data : BoundedSeq(Procs \cup {0}, PIPE_SIZE)]
  <2>1. <<>> \in [1 .. 0 -> Procs \cup {0}] /\ Len(<<>>) = 0 /\ 0 \in 0 .. PIPE_SIZE
    BY FsAssumption
  <2>2. <<>> \in BoundedSeq(Procs \cup {0}, PIPE_SIZE)
    BY <2>1, DataIs
  <2> QED BY <2>2 DEF FreeInode
<1>5. /\ v \in [mode : Modes \cup {{}}, count : Nat, pos : Nat, ino : Inodes \cup {NIL},
                nonblock : BOOLEAN]
      /\ f.filp[x].count = 1 => v = FreeFilp
      /\ f.filp[x].count # 1 => /\ v.mode = f.filp[x].mode /\ v.pos = f.filp[x].pos
                                /\ v.ino = f.filp[x].ino /\ v.count = f.filp[x].count - 1
  <2> HIDE DEF fd, knows, u
  <2>1. CASE f.filp[x].count = 1
    BY <1>3, <2>1
  <2>2. CASE f.filp[x].count # 1
    BY <1>1, <2>2
  <2> QED BY <2>1, <2>2
<1>6. /\ u \in [num : {"none", "pipe", "fifo"}, count : Nat, i_pipe : BOOLEAN,
                data : BoundedSeq(Procs \cup {0}, PIPE_SIZE)]
      /\ f.filp[x].count # 1 => u = f.inode[i]
      /\ f.filp[x].count = 1 =>
           /\ f.inode[i].count = 1 => u = FreeInode
           /\ f.inode[i].count # 1 => /\ u.count = f.inode[i].count - 1
                                      /\ u.num = f.inode[i].num
                                      /\ u.i_pipe = f.inode[i].i_pipe
                                      /\ u.data = f.inode[i].data
  <2> HIDE DEF fd, knows, v
  <2>1. CASE f.filp[x].count # 1
    BY <1>1, <2>1
  <2>2. CASE f.filp[x].count = 1 /\ f.inode[i].count = 1
    BY <1>4, <2>2
  <2>3. CASE f.filp[x].count = 1 /\ f.inode[i].count # 1
    BY <1>1, <2>3
  <2> QED BY <2>1, <2>2, <2>3
<1> HIDE DEF u, v
<1>7. /\ fd \in [Procs -> [Fds -> Filps \cup {NIL}]] /\ knows \in [Procs -> SUBSET Fds]
      /\ fd = [f.fd EXCEPT ![p] = [@ EXCEPT ![d] = NIL]]
  BY Fields
<1>8. /\ filp \in [Filps -> [mode : Modes \cup {{}}, count : Nat, pos : Nat,
                             ino : Inodes \cup {NIL}, nonblock : BOOLEAN]]
      /\ filp[x] = v /\ \A y \in Filps : y # x => filp[y] = f.filp[y]
  BY <1>5, Fields
<1>9. /\ inode \in [Inodes -> [num : {"none", "pipe", "fifo"}, count : Nat, i_pipe : BOOLEAN,
                               data : BoundedSeq(Procs \cup {0}, PIPE_SIZE)]]
      /\ inode[i] = u /\ \A j \in Inodes : j # i => inode[j] = f.inode[j]
  BY <1>6, Fields
<1> HIDE DEF fd, knows, filp, inode
<1>10. g \in Tables
  BY <1>7, <1>8, <1>9 DEF Tables
<1>11. /\ g.fd = fd /\ g.filp = filp /\ g.inode = inode /\ SameProcs(f, g)
  BY DEF Tables, SameProcs
<1> HIDE DEF g
<1>12. g.filp[x] = v /\ g.inode[i] = u
  BY <1>8, <1>9, <1>11
<1>13. /\ \A y \in Filps : y # x => g.filp[y] = f.filp[y]
       /\ \A j \in Inodes : j # i => g.inode[j] = f.inode[j]
  BY <1>8, <1>9, <1>11
<1>14. g.fd = [f.fd EXCEPT ![p] = [@ EXCEPT ![d] = NIL]]
  BY <1>7, <1>11
<1> QED BY <1>2, <1>5, <1>6, <1>10, <1>11, <1>12, <1>13, <1>14 DEF Closed

LEMMA Dropped ==
  ASSUME NEW f \in Tables, NEW g, NEW p \in Procs, NEW d \in Fds, NEW x \in Filps,
         f.fd[p][d] = x, g.fd = [f.fd EXCEPT ![p] = [@ EXCEPT ![d] = NIL]]
  PROVE  /\ Cardinality(Refs(g, x)) = Cardinality(Refs(f, x)) - 1
         /\ \A y : y \notin {x, NIL} => Refs(g, y) = Refs(f, y)
<1> DEFINE new == NIL
<1>1. new \in Filps \cup {NIL} /\ f.fd[p][d] # new
  BY Ranges
<1>2. g.fd = [f.fd EXCEPT ![p] = [@ EXCEPT ![d] = new]]
  OBVIOUS
<1> HIDE DEF new
<1>3. /\ Cardinality(Refs(g, f.fd[p][d])) = Cardinality(Refs(f, f.fd[p][d])) - 1
      /\ \A y : y \notin {new, f.fd[p][d]} => Refs(g, y) = Refs(f, y)
  BY <1>1, <1>2, SetFd
<1> QED BY <1>3 DEF new

LEMMA ClosedCounts ==
  ASSUME NEW f, Files(f), NEW g, NEW p \in Procs, NEW d \in Fds, NEW x, NEW i,
         Refers(f, p, d, x, i), Closed(f, g, p, d, x, i)
  PROVE  /\ FilpCounts(g) /\ InodeCounts(g) /\ Slots(g)
         /\ \A j \in Inodes : Uses(g, j) \subseteq Uses(f, j)
         /\ \A y \in Filps : g.filp[y].ino \in Inodes =>
              /\ g.filp[y].mode = f.filp[y].mode /\ g.filp[y].pos = f.filp[y].pos
              /\ g.filp[y].ino = f.filp[y].ino
<1>0. /\ f \in Tables /\ x \in Filps /\ f.filp[x].count # 0 /\ i \in Inodes /\ f.inode[i].count # 0
      /\ x \in Uses(f, i) /\ FilpCounts(f) /\ InodeCounts(f) /\ Slots(f) /\ g \in Tables
  <2>1. /\ f \in Tables /\ x \in Filps /\ f.filp[x].count # 0 /\ i \in Inodes
        /\ f.inode[i].count # 0 /\ x \in Uses(f, i)
    BY InUse DEF Refers
  <2>2. FilpCounts(f) /\ InodeCounts(f) /\ Slots(f)
    BY DEF Files
  <2>3. g \in Tables
    BY DEF Closed
  <2> QED BY <2>1, <2>2, <2>3
<1>1. /\ g.fd = [f.fd EXCEPT ![p] = [@ EXCEPT ![d] = NIL]]
      /\ \A y \in Filps : y # x => g.filp[y] = f.filp[y]
      /\ \A j \in Inodes : j # i => g.inode[j] = f.inode[j]
  BY DEF Closed
<1>2. /\ Cardinality(Refs(g, x)) = Cardinality(Refs(f, x)) - 1
      /\ \A y : y \notin {x, NIL} => Refs(g, y) = Refs(f, y)
  <2>1. f.fd[p][d] = x /\ x # NIL /\ g.fd = [f.fd EXCEPT ![p] = [@ EXCEPT ![d] = NIL]]
    BY <1>1 DEF Refers
  <2>2. f \in Tables /\ x \in Filps
    BY <1>0
  <2>3. Cardinality(Refs(g, x)) = Cardinality(Refs(f, x)) - 1
    BY <2>1, <2>2, Dropped
  <2>4. \A y : y \notin {x, NIL} => Refs(g, y) = Refs(f, y)
    BY <2>1, <2>2, Dropped
  <2> QED BY <2>3, <2>4
<1>3. g.filp[x].count = f.filp[x].count - 1
  <2>1. CASE f.filp[x].count = 1
    <3>1. g.filp[x] = FreeFilp
      BY <2>1 DEF Closed
    <3> QED BY <2>1, <3>1 DEF FreeFilp
  <2>2. CASE f.filp[x].count # 1
    BY <2>2 DEF Closed
  <2> QED BY <2>1, <2>2
<1>4. FilpCounts(g)
  <2> SUFFICES ASSUME NEW y \in Filps PROVE g.filp[y].count = Cardinality(Refs(g, y))
    BY DEF FilpCounts
  <2>1. CASE y = x
    BY <1>0, <1>2, <1>3, <2>1 DEF FilpCounts
  <2>2. CASE y # x
    <3>1. Refs(g, y) = Refs(f, y)
      BY <1>2, <2>2, Ranges
    <3> QED BY <1>0, <1>1, <2>2, <3>1 DEF FilpCounts
  <2> QED BY <2>1, <2>2
<1>5. CASE f.filp[x].count = 1
  <2>1. g.filp[x] = FreeFilp /\ g.filp[x].ino = NIL /\ g.filp[x].count = 0
    <3>1. g.filp[x] = FreeFilp
      BY <1>5 DEF Closed
    <3> QED BY <3>1 DEF FreeFilp
  <2>2. \A j \in Inodes : Uses(g, j) = IF j = i THEN Uses(f, i) \ {x} ELSE Uses(f, j)
    <3> SUFFICES ASSUME NEW j \in Inodes
                 PROVE  Uses(g, j) = IF j = i THEN Uses(f, i) \ {x} ELSE Uses(f, j)
      OBVIOUS
    <3>1. x \notin Uses(g, j)
      BY <2>1, Ranges DEF Uses
    <3>2. \A y \in Filps : y # x => (y \in Uses(g, j) <=> y \in Uses(f, j))
      BY <1>1 DEF Uses
    <3>3. Uses(g, j) \subseteq Filps /\ Uses(f, j) \subseteq Filps
      BY DEF Uses
    <3>4. j # i => x \notin Uses(f, j)
      BY DEF Uses, Refers
    <3> QED BY <1>0, <3>1, <3>2, <3>3, <3>4
  <2>3. IsFiniteSet(Uses(f, i))
    BY UsesFinite
  <2>4. Cardinality(Uses(g, i)) = Cardinality(Uses(f, i)) - 1
    <3> DEFINE S == Uses(f, i)
    <3>1. x \in S /\ IsFiniteSet(S) /\ Uses(g, i) = S \ {x}
      BY <1>0, <2>2, <2>3
    <3> HIDE DEF S
    <3>2. Cardinality(S \ {x}) = Cardinality(S) - 1
      BY <3>1, FS_RemoveElement
    <3>3. Cardinality(Uses(g, i)) = Cardinality(S) - 1
      BY <3>1, <3>2
    <3> QED BY <3>3 DEF S
  <2>5. f.inode[i].count = Cardinality(Uses(f, i)) /\ Cardinality(Uses(f, i)) \in Nat
    BY <1>0, <2>3, FS_CardinalityType DEF InodeCounts
  <2>6. g.inode[i].count = f.inode[i].count - 1
    <3>1. CASE f.inode[i].count = 1
      <4>1. g.inode[i] = FreeInode
        BY <1>5, <3>1 DEF Closed
      <4> QED BY <3>1, <4>1 DEF FreeInode
    <3>2. CASE f.inode[i].count # 1
      BY <1>5, <3>2 DEF Closed
    <3> QED BY <3>1, <3>2
  <2>7. InodeCounts(g)
    <3> SUFFICES ASSUME NEW j \in Inodes PROVE g.inode[j].count = Cardinality(Uses(g, j))
      BY DEF InodeCounts
    <3>1. CASE j = i
      BY <2>4, <2>5, <2>6, <3>1
    <3>2. CASE j # i
      BY <1>0, <1>1, <2>2, <3>2 DEF InodeCounts
    <3> QED BY <3>1, <3>2
  <2>8. Slots(g)
    <3>1. \A y \in Filps : IF g.filp[y].count = 0 THEN g.filp[y] = FreeFilp
                           ELSE g.filp[y].mode \in Modes /\ g.filp[y].ino \in Inodes
      BY <1>0, <1>1, <2>1 DEF Slots
    <3>2. \A j \in Inodes : IF g.inode[j].count = 0 THEN g.inode[j] = FreeInode
                            ELSE g.inode[j].num # "none"
      <4> SUFFICES ASSUME NEW j \in Inodes
                   PROVE  IF g.inode[j].count = 0 THEN g.inode[j] = FreeInode
                          ELSE g.inode[j].num # "none"
        OBVIOUS
      <4>1. CASE j # i
        BY <1>0, <1>1, <4>1 DEF Slots
      <4>2. CASE j = i /\ f.inode[i].count = 1
        <5>1. g.inode[i] = FreeInode
          BY <1>5, <4>2 DEF Closed
        <5> QED BY <4>2, <5>1 DEF FreeInode
      <4>3. CASE j = i /\ f.inode[i].count # 1
        <5>1. g.inode[i].num = f.inode[i].num
          BY <1>5, <4>3 DEF Closed
        <5>2. f.inode[i].num # "none"
          BY <1>0 DEF Slots
        <5>3. g.inode[i].count # 0
          BY <2>5, <2>6, <4>3
        <5> QED BY <4>3, <5>1, <5>2, <5>3
      <4> QED BY <4>1, <4>2, <4>3
    <3> QED BY <3>1, <3>2 DEF Slots
  <2>9. \A y \in Filps : g.filp[y].ino \in Inodes => y # x
    BY <2>1, Ranges
  <2> QED BY <1>1, <1>4, <2>2, <2>7, <2>8, <2>9
<1>6. CASE f.filp[x].count # 1
  <2>1. /\ g.filp[x].mode = f.filp[x].mode /\ g.filp[x].pos = f.filp[x].pos
        /\ g.filp[x].ino = f.filp[x].ino /\ g.inode[i] = f.inode[i]
    BY <1>6 DEF Closed
  <2>2. \A y \in Filps : /\ g.filp[y].mode = f.filp[y].mode /\ g.filp[y].pos = f.filp[y].pos
                         /\ g.filp[y].ino = f.filp[y].ino
    BY <1>1, <2>1
  <2>3. \A j : Uses(g, j) = Uses(f, j)
    BY <2>2 DEF Uses
  <2>4. \A j \in Inodes : g.inode[j] = f.inode[j]
    BY <1>1, <2>1
  <2>5. InodeCounts(g)
    BY <1>0, <2>3, <2>4 DEF InodeCounts
  <2>6. g.filp[x].count # 0
    <3>1. f.filp[x].count \in Nat
      BY <1>0, FilpTypes
    <3> QED BY <1>3, <1>6, <3>1
  <2>7. Slots(g)
    <3>1. \A y \in Filps : IF g.filp[y].count = 0 THEN g.filp[y] = FreeFilp
                           ELSE g.filp[y].mode \in Modes /\ g.filp[y].ino \in Inodes
      BY <1>0, <1>1, <2>1, <2>6 DEF Slots
    <3> QED BY <1>0, <2>4, <3>1 DEF Slots
  <2> QED BY <1>4, <1>6, <2>2, <2>3, <2>5, <2>7
<1> QED BY <1>5, <1>6

LEMMA FreeIs ==
  /\ FreeInode.num = "none" /\ FreeInode.count = 0
  /\ FreeFilp.ino = NIL /\ FreeFilp.count = 0 /\ FreeFilp.mode = {}
BY DEF FreeInode, FreeFilp

LEMMA OnlyRef ==
  ASSUME NEW f, FilpCounts(f), NEW x \in Filps, f.filp[x].count = 1,
         NEW p \in Procs, NEW d \in Fds, f.fd[p][d] = x,
         NEW q \in Procs, NEW k \in Fds, f.fd[q][k] = x
  PROVE  q = p /\ k = d
<1> DEFINE S == Refs(f, x)
<1>1. Cardinality(S) = 1 /\ IsFiniteSet(S)
  BY RefsFinite DEF FilpCounts
<1>2. <<p, d>> \in S /\ <<q, k>> \in S
  BY DEF Refs
<1> HIDE DEF S
<1>3. \E z : S = {z}
  BY <1>1, FS_Singleton
<1> QED BY <1>2, <1>3

LEMMA ClosedGood ==
  ASSUME NEW f, NEW e, NEW w, Good(f, e, w), NEW g, NEW p \in Procs, NEW d \in Fds,
         NEW x, NEW i, Refers(f, p, d, x, i), Closed(f, g, p, d, x, i),
         ~ Suspended(f, p),
         f.inode[i].num = "pipe" =>
           Hanging(f, i, IF "R" \in f.filp[x].mode THEN "WRITE" ELSE "READ") = {}
  PROVE  Good(g, e, w)
<1>0. /\ f \in Tables /\ Files(f) /\ Hooked(f) /\ Marks(f) /\ Covers(f) /\ Told(f, e, w)
      /\ Pipes(f) /\ AllFlow(f) /\ Alone(f)
  BY DEF Good, Files, Suspending
<1>1. x \in Filps /\ f.filp[x].count # 0 /\ i \in Inodes /\ x \in Uses(f, i)
  BY <1>0, InUse DEF Refers
<1>2. g \in Tables /\ SameProcs(f, g) /\ g.fd = [f.fd EXCEPT ![p] = [@ EXCEPT ![d] = NIL]]
  BY DEF Closed
<1>3. FilpCounts(g) /\ InodeCounts(g) /\ Slots(g)
  BY <1>0, ClosedCounts
<1>4. \A j \in Inodes : Uses(g, j) \subseteq Uses(f, j)
  BY <1>0, ClosedCounts
<1>5. \A j \in Inodes : \A y \in Uses(g, j) :
        y \in Filps /\ g.filp[y].mode = f.filp[y].mode /\ g.filp[y].pos = f.filp[y].pos
  <2>1. \A y \in Filps : g.filp[y].ino \in Inodes =>
           /\ g.filp[y].mode = f.filp[y].mode /\ g.filp[y].pos = f.filp[y].pos
           /\ g.filp[y].ino = f.filp[y].ino
    BY <1>0, ClosedCounts
  <2> QED BY <2>1 DEF Uses
<1>6. \A j \in Inodes : g.inode[j].num # "none" =>
         g.inode[j].num = f.inode[j].num /\ g.inode[j].i_pipe = f.inode[j].i_pipe
         /\ i_size(g, j) = i_size(f, j)
  <2> SUFFICES ASSUME NEW j \in Inodes, g.inode[j].num # "none"
               PROVE  g.inode[j].num = f.inode[j].num /\ g.inode[j].i_pipe = f.inode[j].i_pipe
                      /\ g.inode[j].data = f.inode[j].data
    BY DEF i_size
  <2>1. CASE j # i
    BY <2>1 DEF Closed
  <2>2. CASE j = i /\ f.filp[x].count # 1
    BY <2>2 DEF Closed
  <2>3. CASE j = i /\ f.filp[x].count = 1 /\ f.inode[i].count # 1
    BY <2>3 DEF Closed
  <2>4. CASE j = i /\ f.filp[x].count = 1 /\ f.inode[i].count = 1
    <3>1. g.inode[i] = FreeInode
      BY <2>4 DEF Closed
    <3>2. g.inode[i].num = "none"
      BY <3>1, FreeIs
    <3> QED BY <2>4, <3>2
  <2> QED BY <2>1, <2>2, <2>3, <2>4
<1>7. Pipes(g)
  <2> SUFFICES ASSUME NEW j \in Inodes, g.inode[j].num = "pipe" PROVE PipeEnds(g, j)
    BY DEF Pipes
  <2>1. /\ f.inode[j].num = "pipe" /\ g.inode[j].i_pipe = f.inode[j].i_pipe
        /\ i_size(g, j) = i_size(f, j)
    BY <1>6
  <2>2. PipeEnds(f, j)
    BY <1>0, <2>1 DEF Pipes
  <2>3. Uses(g, j) \subseteq Uses(f, j) /\ \A y \in Uses(g, j) : g.filp[y].mode = f.filp[y].mode
           /\ g.filp[y].pos = f.filp[y].pos
    BY <1>4, <1>5
  <2> HIDE DEF Uses
  <2> QED BY <2>1, <2>2, <2>3 DEF PipeEnds
<1>8. Files(g)
  BY <1>2, <1>3, <1>7, SMTT(30) DEF Files
<1>9. HungSame(f, g)
  <2> SUFFICES ASSUME NEW q \in Procs, Suspended(g, q)
               PROVE  /\ g.hung[q] = f.hung[q] /\ g.revived[q] = f.revived[q]
                      /\ g.fd[q][f.hung[q].fd] = f.fd[q][f.hung[q].fd]
                      /\ Filp(g, q, f.hung[q].fd).mode = Filp(f, q, f.hung[q].fd).mode
                      /\ Filp(g, q, f.hung[q].fd).ino = Filp(f, q, f.hung[q].fd).ino
    BY DEF HungSame
  <2>1. Suspended(f, q) /\ g.hung[q] = f.hung[q] /\ g.revived[q] = f.revived[q]
    BY <1>2, SMTT(30) DEF SameProcs, Suspended
  <2>2. q # p /\ f.hung[q].fd \in Fds /\ f.fd[q][f.hung[q].fd] \in Filps
    BY <1>0, <2>1, HungFile, Zenon
  <2>3. g.fd[q][f.hung[q].fd] = f.fd[q][f.hung[q].fd]
    BY <1>0, <1>2, <2>2, Fields, SMTT(30)
  <2> DEFINE y == f.fd[q][f.hung[q].fd]
             k == f.hung[q].fd
  <2>4. g.filp[y].mode = f.filp[y].mode /\ g.filp[y].ino = f.filp[y].ino
    <3>1. CASE y # x
      BY <2>2, <3>1 DEF Closed
    <3>2. CASE y = x
      <4>2. f.filp[x].count # 1
        <5>2. f.fd[q][k] = x /\ k \in Fds /\ f.fd[p][d] = x /\ FilpCounts(f)
          BY <1>0, <2>2, <3>2 DEF Files, Refers
        <5> HIDE DEF k
        <5> QED BY <1>1, <2>2, <5>2, OnlyRef
      <4> QED BY <3>2, <4>2 DEF Closed
    <3> QED BY <3>1, <3>2, ZenonT(60)
  <2>5. Filp(f, q, k) = f.filp[y] /\ Filp(g, q, k) = g.filp[y]
    BY <2>3 DEF Filp
  <2> QED BY <2>1, <2>3, <2>4, <2>5, Zenon
<1>10. Hooked(g)
  BY <1>0, <1>2, <1>9, HungKeeps
<1>11. Alone(g)
  <2>1. \A j \in Inodes : \A y \in Uses(g, j) : y \in Uses(f, j) /\ g.filp[y].mode = f.filp[y].mode
    BY <1>4, <1>5
  <2> QED BY <1>0, <1>2, <1>9, <2>1, HungAlone
<1>12. AllFlow(g)
  <2> SUFFICES ASSUME NEW j \in Inodes, g.inode[j].num = "pipe" PROVE Flows(g, j)
    BY DEF AllFlow
  <2>1. f.inode[j].num = "pipe" /\ i_size(g, j) = i_size(f, j)
    BY <1>6
  <2>2. PipeEnds(f, j) /\ Flows(f, j)
    BY <1>0, <2>1 DEF Pipes, AllFlow
  <2>3. /\ Hanging(g, j, "READ") \subseteq Hanging(f, j, "READ")
        /\ Hanging(g, j, "WRITE") \subseteq Hanging(f, j, "WRITE")
    BY <1>0, <1>2, <1>9, HungKeeps
  <2>4. \A bit : Open(f, j, bit) \ {x} \subseteq Open(g, j, bit)
    BY DEF Open, Closed
  <2>5. CASE j # i
    <3>1. \A bit : Open(f, j, bit) \subseteq Open(g, j, bit)
      <4>1. \A bit : x \notin Open(f, j, bit)
        BY <2>5 DEF Open, Refers
      <4> QED BY <2>4, <4>1
    <3> HIDE DEF Hanging, i_size, Open
    <3> QED BY <2>1, <2>2, <2>3, <3>1 DEF Flows
  <2>6. CASE j = i /\ "R" \in f.filp[x].mode
    <3>1. Hanging(g, j, "WRITE") = {}
      BY <2>1, <2>3, <2>6
    <3>2. x \notin Open(f, j, "W")
      <4>1. f.filp[x].mode # {"W"}
        BY <2>6
      <4>2. f.filp[x].mode = {"R"}
        BY <1>1, <2>2, <2>6, <4>1 DEF PipeEnds
      <4> QED BY <4>2 DEF Open
    <3>3. Open(f, j, "W") \subseteq Open(g, j, "W")
      BY <2>4, <3>2
    <3> HIDE DEF Hanging, i_size, Open
    <3> QED BY <2>1, <2>2, <2>3, <3>1, <3>3 DEF Flows
  <2>7. CASE j = i /\ "R" \notin f.filp[x].mode
    <3>1. Hanging(g, j, "READ") = {}
      BY <2>1, <2>3, <2>7
    <3>2. x \notin Open(f, j, "R")
      BY <2>7 DEF Open
    <3>3. Open(f, j, "R") \subseteq Open(g, j, "R")
      BY <2>4, <3>2
    <3> HIDE DEF Hanging, i_size, Open
    <3> QED BY <2>1, <2>2, <2>3, <3>1, <3>3 DEF Flows
  <2> QED BY <2>5, <2>6, <2>7
<1>13. Told(g, e, w)
  <2>1. \A q \in Procs : (\A k \in Fds : f.fd[q][k] = NIL) => \A k \in Fds : g.fd[q][k] = NIL
    BY <1>0, <1>2, Fields
  <2> QED BY <1>0, <1>2, <2>1 DEF Told, SameProcs, Suspended
<1>14. Marks(g) /\ Covers(g)
  BY <1>0, <1>2 DEF Marks, Covers, HangersOf, Suspended, SameProcs
<1> QED BY <1>8, <1>10, <1>11, <1>12, <1>13, <1>14 DEF Good, Suspending

LEMMA CloseIs ==
  ASSUME NEW f, NEW p, NEW d
  PROVE  do_close(f, p, d) =
           IF f.fd[p][d] = NIL THEN f
           ELSE GiveUp(IF f.inode[f.filp[f.fd[p][d]].ino].i_pipe
                       THEN release(f, f.filp[f.fd[p][d]].ino,
                                    IF "R" \in f.filp[f.fd[p][d]].mode THEN "WRITE" ELSE "READ",
                                    NR_PROCS)
                       ELSE f, p, d, f.fd[p][d], f.filp[f.fd[p][d]].ino,
                       f.filp[f.fd[p][d]].count)
BY DEF do_close, GiveUp

LEMMA CloseGood ==
  ASSUME NEW f, NEW e, NEW w, Good(f, e, w), NEW p \in Procs, NEW d \in Fds, ~ Suspended(f, p),
         NEW t, t = do_close(f, p, d)
  PROVE  /\ Good(t, e, w) /\ ~ Suspended(t, p) /\ t.at[p] = f.at[p]
         /\ t.fd[p][d] = NIL /\ \A k \in Fds : k # d => t.fd[p][k] = f.fd[p][k]
<1> DEFINE x == f.fd[p][d]
           i == f.filp[x].ino
<1>x. f.fd[p][d] = x /\ f.filp[x].ino = i
  OBVIOUS
<1> HIDE DEF x, i
<1>0. f \in Tables /\ Files(f) /\ Covers(f)
  BY DEF Good, Files, Suspending
<1> DEFINE c == IF "R" \in f.filp[x].mode THEN "WRITE" ELSE "READ"
           g == IF f.inode[i].i_pipe THEN release(f, i, c, NR_PROCS) ELSE f
<1>1. CASE x = NIL
  <2>1. t = f
    BY <1>1, <1>x DEF do_close
  <2> QED BY <1>1, <1>x, <2>1
<1>2. CASE x # NIL
  <2>1. /\ x \in Filps /\ f.filp[x].count # 0 /\ i \in Inodes /\ f.inode[i].count # 0
    BY <1>0, <1>2, <1>x, InUse
  <2>c. c \in {"READ", "WRITE"} \cup Waits
    OBVIOUS
  <2> HIDE DEF c
  <2>2. /\ Good(g, e, w) /\ SameFiles(f, g) /\ ~ Suspended(g, p) /\ g.at[p] = f.at[p]
        /\ f.inode[i].i_pipe => Hanging(g, i, c) = {}
    <3>1. CASE ~ f.inode[i].i_pipe
      BY <3>1 DEF SameFiles
    <3>2. CASE f.inode[i].i_pipe
      <4>1. Released(f, g, i, c, Hanging(f, i, c))
        BY <1>0, <2>c, <3>2, ReleaseAll
      <4> HIDE DEF g
      <4>2. Good(g, e, w)
        BY <2>c, <4>1, ReleasedGood
      <4>3. Hanging(g, i, c) = {}
        BY <1>0, <2>c, <4>1, ReleasedKeeps
      <4>4. p \notin Hanging(f, i, c)
        BY <1>0, <2>c, HangersAre
      <4>5. g.hung[p] = f.hung[p] /\ g.at[p] = f.at[p]
        BY <4>1, <4>4 DEF Released
      <4>6. SameFiles(f, g)
        BY <4>1 DEF Released
      <4> QED BY <4>2, <4>3, <4>5, <4>6 DEF Suspended
    <3> QED BY <3>1, <3>2
  <2>3. t = GiveUp(g, p, d, x, i, g.filp[x].count)
    <3>1. t = GiveUp(g, p, d, x, i, f.filp[x].count)
      BY <1>2, CloseIs DEF c, g, x, i
    <3> QED BY <2>2, <3>1 DEF SameFiles
  <2> HIDE DEF g
  <2>4. g \in Tables /\ g.filp[x].count # 0 /\ g.inode[i].count # 0
    BY <2>1, <2>2 DEF Good, Files, SameFiles
  <2>5. Closed(g, t, p, d, x, i)
    BY <2>1, <2>3, <2>4, GiveUpDoes
  <2>6. /\ Refers(g, p, d, x, i)
        /\ g.inode[i].num = "pipe" =>
             Hanging(g, i, IF "R" \in g.filp[x].mode THEN "WRITE" ELSE "READ") = {}
    <3>1. g.inode[i].num = "pipe" => f.inode[i].i_pipe
      BY <2>1, <2>2 DEF SameFiles, Good, Files, Pipes, PipeEnds
    <3>2. c = IF "R" \in g.filp[x].mode THEN "WRITE" ELSE "READ"
      BY <2>2 DEF SameFiles, c
    <3>3. Refers(g, p, d, x, i)
      BY <1>2, <1>x, <2>2 DEF SameFiles, Refers
    <3> QED BY <2>2, <3>1, <3>2, <3>3
  <2>7. Good(t, e, w)
    BY <2>2, <2>5, <2>6, ClosedGood
  <2>8. /\ t.hung = g.hung /\ t.at = g.at /\ t.fd = [g.fd EXCEPT ![p] = [@ EXCEPT ![d] = NIL]]
        /\ g.fd = f.fd
    BY <2>2, <2>5 DEF Closed, SameProcs, SameFiles
  <2>9. t.fd[p][d] = NIL /\ \A k \in Fds : k # d => t.fd[p][k] = f.fd[p][k]
    BY <1>0, <2>8, Fields
  <2> QED BY <2>2, <2>7, <2>8, <2>9 DEF Suspended
<1> QED BY <1>1, <1>2

LEMMA Dup2Good ==
  ASSUME NEW f, NEW e, NEW p \in Procs, Good(f, e, NIL), f.at[p] = "runs", NEW d \in Fds, NEW b \in Fds
  PROVE  Good(do_dup2(f, p, d, b), e, NIL)
<1>0. Good(f, e, p) /\ ~ Suspended(f, p)
  BY RunsServed
<1>1. CASE f.fd[p][d] = NIL \/ d = b
  BY <1>1 DEF do_dup2
<1>2. CASE f.fd[p][d] # NIL /\ d # b
  <2> DEFINE t == do_close(f, p, b)
             x == t.fd[p][d]
             h == [t EXCEPT !.fd[p][b] = x, !.filp[x].count = @ + 1]
  <2>1. do_dup2(f, p, d, b) = reply(h, p, {b})
    BY <1>2 DEF do_dup2, DupTo
  <2>2. /\ Good(t, e, p) /\ t.fd[p][b] = NIL
        /\ \A k \in Fds : k # b => t.fd[p][k] = f.fd[p][k]
    BY <1>0, CloseGood
  <2>3. x # NIL
    BY <1>2, <2>2
  <2> HIDE DEF t
  <2>4. Good(h, e, p)
    BY <2>2, <2>3, DupPlaced
  <2>5. {b} \in SUBSET Fds
    OBVIOUS
  <2> HIDE DEF h
  <2> QED BY <2>1, <2>4, <2>5, ReplyGood
<1> QED BY <1>1, <1>2

-----------------------------------------------------------------------------
(* Signals and deaths *)

(* Nobody but p, who is not marked, is taken off; susp_count may stay *)
LEMMA TakenOff ==
  ASSUME NEW f, NEW e, NEW w, Good(f, e, w), NEW p \in Procs, Suspended(f, p), ~ f.revived[p],
         NEW n \in Int, n >= f.susp_count - 1, NEW v, v \in {w, p},
         v = p \/ f.at[p] = "free", w \notin Procs
  PROVE  LET g == [f EXCEPT !.hung[p] = NoCall, !.susp_count = n]
         IN  Good(g, e, v) /\ ~ Suspended(g, p)
<1> DEFINE hung == [f.hung EXCEPT ![p] = NoCall]
           g    == [f EXCEPT !.hung = hung, !.susp_count = n]
<1>0. /\ f \in Tables /\ Files(f) /\ Hooked(f) /\ Marks(f) /\ Covers(f) /\ Told(f, e, w)
      /\ AllFlow(f) /\ Alone(f)
  BY DEF Good, Files, Suspending
<1>1. /\ hung \in [Procs -> Hung \cup {NoCall}] /\ hung[p] = NoCall
      /\ \A q \in Procs : q # p => hung[q] = f.hung[q]
  BY <1>0, Fields
<1> HIDE DEF hung
<1>2. g \in Tables
  BY <1>0, <1>1 DEF Tables
<1>3. /\ SameFiles(f, g) /\ g.at = f.at /\ g.revived = f.revived /\ g.reviving = f.reviving
      /\ g.hung = hung /\ g.susp_count = n
  BY <1>0 DEF SameFiles, Tables
<1> HIDE DEF g
<1>4. /\ ~ Suspended(g, p)
      /\ \A q \in Procs : q # p => g.hung[q] = f.hung[q] /\ (Suspended(g, q) <=> Suspended(f, q))
  BY <1>1, <1>3 DEF Suspended
<1>5. Calmer(f, g)
  BY <1>3, <1>4 DEF Calmer
<1>6. Files(g) /\ Hooked(g) /\ AllFlow(g) /\ Alone(g)
  BY <1>0, <1>2, <1>3, <1>5, FilesStay, CalmFlow, CalmHooked
<1>7. Marks(g)
  BY <1>0, <1>3, <1>4 DEF Marks
<1>8. Covers(g)
  <2> DEFINE H == HangersOf(f)
             G == HangersOf(g)
  <2>1. p \in H /\ H \subseteq Procs /\ G = H \ {p}
    BY <1>3, <1>4 DEF HangersOf
  <2>2. IsFiniteSet(H) /\ f.susp_count \in Int /\ f.susp_count >= Cardinality(H)
    BY <1>0, <2>1, Ranges, FS_Subset, Fields DEF Covers
  <2> HIDE DEF H, G
  <2>3. Cardinality(H \ {p}) = Cardinality(H) - 1 /\ Cardinality(H) \in Nat
    BY <2>1, <2>2, FS_RemoveElement, FS_CardinalityType
  <2>4. n >= Cardinality(G)
    BY <2>1, <2>2, <2>3
  <2> QED BY <1>3, <2>4 DEF Covers, G
<1>9. Told(g, e, v)
  <2> SUFFICES ASSUME NEW q \in Procs
               PROVE  /\ g.at[q] = "waits" => Suspended(g, q) \/ q = v
                      /\ Suspended(g, q) => (g.at[q] = "waits" \/ q = e) /\ q # v
                      /\ g.at[q] = "free" => q = e \/ (~ Suspended(g, q) /\ \A d \in Fds : g.fd[q][d] = NIL)
    BY <1>0, <1>3 DEF Told
  <2>1. CASE q = p
    BY <1>0, <1>3, <1>4, <2>1 DEF Told
  <2>2. CASE q # p
    BY <1>0, <1>3, <1>4, <2>2 DEF Told, SameFiles
  <2> QED BY <2>1, <2>2
<1>10. Good(g, e, v)
  BY <1>6, <1>7, <1>8, <1>9 DEF Good, Suspending
<1>11. [f EXCEPT !.hung[p] = NoCall, !.susp_count = n] = g
  BY <1>0 DEF Tables, g, hung
<1> QED BY <1>4, <1>10, <1>11

LEMMA UnpauseGood ==
  ASSUME NEW f, NEW e, NEW p \in Procs, Good(f, e, NIL), f.at[p] = "waits"
  PROVE  Good(do_unpause(f, p), e, NIL)
<1>1. CASE f.hung[p].fs_call \notin Waits
  BY <1>1 DEF do_unpause
<1>2. CASE f.hung[p].fs_call \in Waits
  <2> DEFINE n == f.susp_count
             g == [f EXCEPT !.hung[p] = NoCall, !.susp_count = n]
  <2>0. f \in Tables /\ Told(f, e, NIL) /\ Marks(f) /\ n \in Int /\ n >= n - 1
    BY Fields DEF Good, Files, Suspending
  <2>1. Suspended(f, p)
    BY <1>2, <2>0, Calls, Fields DEF Suspended
  <2>2. ~ f.revived[p]
    BY <1>2, <2>0, Calls DEF Marks
  <2>3. do_unpause(f, p) = reply(g, p, {})
    <3>1. [f EXCEPT !.hung[p] = NoCall] = g
      BY <2>0 DEF Tables
    <3> QED BY <1>2, <3>1 DEF do_unpause
  <2> DEFINE v == p
  <2>4. v \in {NIL, p} /\ (v = p \/ f.at[p] = "free") /\ NIL \notin Procs
    BY Ranges
  <2>5. Good(g, e, v)
    <3> HIDE DEF v, n
    <3> QED BY <2>0, <2>1, <2>2, <2>4, TakenOff DEF n
  <2>6. {} \in SUBSET Fds
    OBVIOUS
  <2> HIDE DEF g
  <2> QED BY <2>3, <2>5, <2>6, ReplyGood
<1> QED BY <1>1, <1>2

(* The closes of exit(), one descriptor after the other, exist as far as n *)
Closes(g, p, h, n) ==
  h = [d \in 0 .. n |-> IF d = 0 THEN g ELSE do_close(h[d - 1], p, d - 1)]

LEMMA ClosesExist ==
  ASSUME NEW g, NEW p, NEW n \in Nat
  PROVE  \E h : Closes(g, p, h, n)
<1> DEFINE S == {k \in 0 .. n : ~ \E h : Closes(g, p, h, k)}
<1>1. SUFFICES ASSUME n \in S PROVE FALSE
  OBVIOUS
<1>2. PICK m \in S : \A k \in S : m <= k
  <2>1. S \in SUBSET (0 .. n) /\ S # {}
    BY <1>1
  <2>2. IsFiniteSet(0 .. n) /\ 0 .. n \subseteq Int
    BY FS_Interval
  <2> HIDE DEF S
  <2>3. S \in SUBSET Int /\ IsFiniteSet(S)
    BY <2>1, <2>2, FS_Subset
  <2> QED BY <2>1, <2>3, Bottom
<1>3. m # 0
  <2> DEFINE h == [d \in 0 .. 0 |-> g]
  <2>1. h = [d \in 0 .. 0 |-> IF d = 0 THEN g ELSE do_close(h[d - 1], p, d - 1)]
    OBVIOUS
  <2>2. Closes(g, p, h, 0)
    BY <2>1 DEF Closes
  <2> HIDE DEF h
  <2>3. 0 \notin S
    BY <2>2
  <2> QED BY <2>3
<1>4. m \in Nat /\ m - 1 \in 0 .. n /\ m - 1 \notin S
  <2>1. m \in 0 .. n
    OBVIOUS
  <2> HIDE DEF S
  <2> QED BY <1>2, <1>3, <2>1
<1>5. PICK h : Closes(g, p, h, m - 1)
  BY <1>4
<1> HIDE DEF S
<1> DEFINE u == do_close(h[m - 1], p, m - 1)
           t == [d \in 0 .. m |-> IF d = m THEN u ELSE h[d]]
<1>6. \A d \in 0 .. m : t[d] = IF d = 0 THEN g ELSE do_close(t[d - 1], p, d - 1)
  <2> SUFFICES ASSUME NEW d \in 0 .. m
               PROVE  t[d] = IF d = 0 THEN g ELSE do_close(t[d - 1], p, d - 1)
    OBVIOUS
  <2>1. \A k \in 0 .. m - 1 : h[k] = IF k = 0 THEN g ELSE do_close(h[k - 1], p, k - 1)
    BY <1>5 DEF Closes
  <2>2. CASE d = m
    <3>1. t[d] = u /\ d - 1 = m - 1 /\ t[m - 1] = h[m - 1]
      BY <1>3, <1>4, <2>2
    <3> QED BY <1>3, <2>2, <3>1
  <2>3. CASE d # m /\ d # 0
    <3>1. d \in 0 .. m - 1 /\ d - 1 \in 0 .. m /\ d - 1 # m
      BY <1>4, <2>3
    <3>2. t[d] = h[d] /\ t[d - 1] = h[d - 1]
      BY <2>3, <3>1
    <3>3. h[d] = do_close(h[d - 1], p, d - 1)
      BY <2>1, <2>3, <3>1
    <3> HIDE DEF t
    <3> QED BY <2>3, <3>2, <3>3
  <2>4. CASE d = 0
    <3>1. 0 \in 0 .. m - 1 /\ 0 # m
      BY <1>3, <1>4
    <3>2. h[0] = g
      BY <2>1, <3>1
    <3> QED BY <2>4, <3>1, <3>2
  <2> QED BY <2>2, <2>3, <2>4
<1>7. Closes(g, p, t, m)
  <2>1. t = [d \in 0 .. m |-> t[d]]
    OBVIOUS
  <2> HIDE DEF t
  <2> QED BY <1>6, <2>1 DEF Closes
<1>8. m \notin S
  <2> HIDE DEF t
  <2> QED BY <1>7 DEF S
<1> QED BY <1>8

LEMMA ExitIs ==
  ASSUME NEW f, NEW p
  PROVE  \E h : /\ Closes(IF ~ Suspended(f, p) THEN f
                          ELSE [do_unpause(f, p) EXCEPT !.susp_count = @ - 1, !.hung[p] = NoCall],
                          p, h, OPEN_MAX)
                /\ do_exit(f, p) = h[OPEN_MAX]
<1> DEFINE g == IF ~ Suspended(f, p) THEN f
                ELSE [do_unpause(f, p) EXCEPT !.susp_count = @ - 1, !.hung[p] = NoCall]
           close == CHOOSE h : h = [d \in 0 .. OPEN_MAX |->
                                      IF d = 0 THEN g ELSE do_close(h[d - 1], p, d - 1)]
<1>1. do_exit(f, p) = close[OPEN_MAX]
  BY DEF do_exit
<1> HIDE DEF g
<1>2. \E h : h = [d \in 0 .. OPEN_MAX |-> IF d = 0 THEN g ELSE do_close(h[d - 1], p, d - 1)]
  <2>1. OPEN_MAX \in Nat
    BY FsAssumption
  <2>2. \E h : Closes(g, p, h, OPEN_MAX)
    BY <2>1, ClosesExist
  <2> QED BY <2>2 DEF Closes
<1>3. close = [d \in 0 .. OPEN_MAX |-> IF d = 0 THEN g ELSE do_close(close[d - 1], p, d - 1)]
  BY <1>2
<1> HIDE DEF close
<1>4. Closes(g, p, close, OPEN_MAX)
  BY <1>3 DEF Closes
<1> QED BY <1>1, <1>4 DEF g

LEMMA ClosesGood ==
  ASSUME NEW g, NEW e, NEW w, NEW p \in Procs, Good(g, e, w), ~ Suspended(g, p),
         NEW h, Closes(g, p, h, OPEN_MAX)
  PROVE  /\ Good(h[OPEN_MAX], e, w) /\ ~ Suspended(h[OPEN_MAX], p)
         /\ h[OPEN_MAX].at[p] = g.at[p] /\ \A d \in Fds : h[OPEN_MAX].fd[p][d] = NIL
<1> DEFINE Done(n) == /\ Good(h[n], e, w) /\ ~ Suspended(h[n], p) /\ h[n].at[p] = g.at[p]
                      /\ \A d \in Fds : d < n => h[n].fd[p][d] = NIL
           S == {n \in 0 .. OPEN_MAX : ~ Done(n)}
<1>0. OPEN_MAX \in Nat /\ Fds = 0 .. OPEN_MAX - 1
  BY FsAssumption DEF Fds
<1>1. \A n \in 0 .. OPEN_MAX : h[n] = IF n = 0 THEN g ELSE do_close(h[n - 1], p, n - 1)
  BY DEF Closes
<1>2. SUFFICES ASSUME S # {} PROVE FALSE
  <2>1. OPEN_MAX \in 0 .. OPEN_MAX /\ \A d \in Fds : d < OPEN_MAX
    BY <1>0
  <2>2. S = {} => Done(OPEN_MAX)
    <3> HIDE DEF Done
    <3> QED BY <2>1
  <2> QED BY <2>1, <2>2
<1>3. PICK m \in S : \A k \in S : m <= k
  <2>1. S \in SUBSET (0 .. OPEN_MAX)
    OBVIOUS
  <2>2. IsFiniteSet(0 .. OPEN_MAX) /\ 0 .. OPEN_MAX \subseteq Int
    BY <1>0, FS_Interval
  <2> HIDE DEF S
  <2>3. S \in SUBSET Int /\ IsFiniteSet(S)
    BY <2>1, <2>2, FS_Subset
  <2> QED BY <1>2, <2>3, Bottom
<1>4. m \in 0 .. OPEN_MAX /\ ~ Done(m)
  OBVIOUS
<1>5. m # 0
  <2>1. h[0] = g
    BY <1>0, <1>1
  <2>2. \A d \in Fds : ~ (d < 0)
    BY <1>0
  <2>3. Done(0)
    BY <2>1, <2>2
  <2> HIDE DEF Done
  <2> QED BY <1>4, <2>3
<1>6. m - 1 \in 0 .. OPEN_MAX /\ m - 1 \in Fds /\ m \in Nat
  BY <1>0, <1>4, <1>5
<1>7. Done(m - 1)
  <2>1. ~ (m <= m - 1)
    BY <1>6
  <2>2. m - 1 \notin S
    BY <1>3, <2>1
  <2> HIDE DEF Done
  <2> QED BY <1>6, <2>2
<1> HIDE DEF S
<1>8. h[m] = do_close(h[m - 1], p, m - 1)
  BY <1>1, <1>4, <1>5
<1>9. /\ Good(h[m], e, w) /\ ~ Suspended(h[m], p) /\ h[m].at[p] = h[m - 1].at[p]
      /\ h[m].fd[p][m - 1] = NIL
      /\ \A k \in Fds : k # m - 1 => h[m].fd[p][k] = h[m - 1].fd[p][k]
  BY <1>6, <1>7, <1>8, CloseGood
<1>10. \A d \in Fds : d < m => h[m].fd[p][d] = NIL
  <2> SUFFICES ASSUME NEW d \in Fds, d < m PROVE h[m].fd[p][d] = NIL
    OBVIOUS
  <2>1. CASE d = m - 1
    BY <1>9, <2>1
  <2>2. CASE d # m - 1
    <3>1. d < m - 1
      BY <1>0, <1>6, <2>2
    <3> QED BY <1>7, <1>9, <2>2, <3>1
  <2> QED BY <2>1, <2>2
<1>11. Done(m)
  BY <1>7, <1>9, <1>10
<1> QED BY <1>4, <1>11

(* exit() first takes back the call of the process *)
ExitFrom(f, p) == IF ~ Suspended(f, p) THEN f
                  ELSE [do_unpause(f, p) EXCEPT !.susp_count = @ - 1, !.hung[p] = NoCall]

LEMMA ExitStarts ==
  ASSUME NEW f, NEW e \in Procs, Good(f, e, NIL), f.reviving = 0
  PROVE  /\ Good(ExitFrom(f, e), e, NIL) /\ ~ Suspended(ExitFrom(f, e), e)
         /\ SameFiles(f, ExitFrom(f, e))
<1>0. f \in Tables /\ Told(f, e, NIL) /\ Marks(f) /\ f.at[e] = "free"
  BY Ranges DEF Good, Files, Suspending, Told
<1>1. CASE ~ Suspended(f, e)
  BY <1>1 DEF ExitFrom, SameFiles
<1>2. CASE Suspended(f, e)
  <2> DEFINE n == f.susp_count - 1
             t == [f EXCEPT !.hung[e] = NoCall, !.susp_count = n]
  <2>1. n \in Int /\ n >= f.susp_count - 1
    BY <1>0, Fields
  <2>2. ~ f.revived[e]
    <3> DEFINE R == {q \in Procs : f.revived[q]}
    <3>1. IsFiniteSet(R) /\ Cardinality(R) = 0
      BY <1>0, Ranges, FS_Subset DEF Marks
    <3> HIDE DEF R
    <3>2. R = {}
      BY <3>1, FS_EmptySet
    <3> QED BY <3>2 DEF R
  <2> DEFINE v == NIL
  <2>3. v \in {NIL, e} /\ f.at[e] = "free" /\ NIL \notin Procs
    BY <1>0, Ranges
  <2>4. Good(t, e, v) /\ ~ Suspended(t, e)
    <3> HIDE DEF v, n
    <3> QED BY <1>2, <2>1, <2>2, <2>3, TakenOff
  <2>5. ExitFrom(f, e) = t
    <3>1. do_unpause(f, e) = f \/ do_unpause(f, e) = [f EXCEPT !.hung[e] = NoCall]
      <4>1. [f EXCEPT !.hung[e] = NoCall].at[e] = "free"
        BY <1>0 DEF Tables
      <4> QED BY <4>1 DEF do_unpause, reply
    <3>2. [f EXCEPT !.susp_count = @ - 1, !.hung[e] = NoCall] = t
      BY <1>0 DEF Tables
    <3>3. [[f EXCEPT !.hung[e] = NoCall] EXCEPT !.susp_count = @ - 1, !.hung[e] = NoCall] = t
      BY <1>0, Fields, ZenonT(60) DEF Tables
    <3> QED BY <1>2, <3>1, <3>2, <3>3 DEF ExitFrom
  <2>6. SameFiles(f, t)
    BY <1>0 DEF Tables, SameFiles
  <2> HIDE DEF t
  <2> QED BY <2>4, <2>5, <2>6
<1> QED BY <1>1, <1>2

LEMMA ExitGood ==
  ASSUME NEW f, NEW e \in Procs, Good(f, e, NIL), f.reviving = 0
  PROVE  Good(do_exit(f, e), NIL, NIL)
<1> DEFINE g == ExitFrom(f, e)
<1>1. Good(g, e, NIL) /\ ~ Suspended(g, e)
  BY ExitStarts
<1>2. g.at[e] = "free"
  <2> HIDE DEF g
  <2> QED BY <1>1, Ranges DEF Good, Told
<1> HIDE DEF g
<1>3. PICK h : Closes(g, e, h, OPEN_MAX) /\ do_exit(f, e) = h[OPEN_MAX]
  BY ExitIs DEF g, ExitFrom
<1> DEFINE t == h[OPEN_MAX]
<1>4. Good(t, e, NIL) /\ ~ Suspended(t, e) /\ \A d \in Fds : t.fd[e][d] = NIL
  BY <1>1, <1>3, ClosesGood
<1> HIDE DEF t
<1>5. Told(t, NIL, NIL)
  BY <1>4, Ranges DEF Good, Told
<1>6. Good(t, NIL, NIL)
  BY <1>4, <1>5 DEF Good
<1> QED BY <1>3, <1>6 DEF t

LEMMA KillGood ==
  ASSUME NEW f, Good(f, NIL, NIL), NEW p \in Procs, f.at[p] # "free"
  PROVE  Good([f EXCEPT !.at[p] = "free"], p, NIL)
<1> DEFINE at == [f.at EXCEPT ![p] = "free"]
           g  == [f EXCEPT !.at = at]
<1>0. /\ f \in Tables /\ Files(f) /\ Hooked(f) /\ Marks(f) /\ Covers(f) /\ Told(f, NIL, NIL)
      /\ AllFlow(f) /\ Alone(f)
  BY DEF Good, Files, Suspending
<1>1. /\ at \in [Procs -> {"free", "runs", "waits"}] /\ at[p] = "free"
      /\ \A q \in Procs : q # p => at[q] = f.at[q]
  BY <1>0, Fields
<1> HIDE DEF at
<1>2. g \in Tables
  BY <1>0, <1>1 DEF Tables
<1>3. /\ SameFiles(f, g) /\ g.at = at /\ g.revived = f.revived /\ g.reviving = f.reviving
      /\ g.hung = f.hung /\ g.susp_count = f.susp_count
  BY <1>0 DEF SameFiles, Tables
<1> HIDE DEF g
<1>4. Calmer(f, g)
  BY <1>3 DEF Calmer, Suspended
<1>5. Files(g) /\ Hooked(g) /\ AllFlow(g) /\ Alone(g)
  BY <1>0, <1>2, <1>3, <1>4, FilesStay, CalmFlow, CalmHooked
<1>6. Marks(g) /\ Covers(g)
  BY <1>0, <1>3 DEF Marks, Covers, HangersOf, Suspended
<1>7. Told(g, p, NIL)
  <2> SUFFICES ASSUME NEW q \in Procs
               PROVE  /\ g.at[q] = "waits" => Suspended(g, q) \/ q = NIL
                      /\ Suspended(g, q) => (g.at[q] = "waits" \/ q = p) /\ q # NIL
                      /\ g.at[q] = "free" => q = p \/ (~ Suspended(g, q) /\ \A d \in Fds : g.fd[q][d] = NIL)
    BY <1>1, <1>3 DEF Told
  <2>1. CASE q = p
    BY <1>0, <1>1, <1>3, <2>1, Ranges
  <2>2. CASE q # p
    BY <1>0, <1>1, <1>3, <2>2, Ranges, ZenonT(60) DEF Told, Suspended, SameFiles
  <2> QED BY <2>1, <2>2
<1>8. Good(g, p, NIL)
  BY <1>5, <1>6, <1>7 DEF Good, Suspending
<1>9. [f EXCEPT !.at[p] = "free"] = g
  BY <1>0 DEF Tables, g, at
<1> QED BY <1>8, <1>9

(* The call of the first who is revived is taken back from the table *)
LEMMA RetryServed ==
  ASSUME NEW f, NEW e, Good(f, e, NIL), f.reviving # 0,
         NEW p, p = Min({q \in Procs : f.revived[q]})
  PROVE  /\ p \in Procs /\ f.hung[p] \in Hung /\ f.hung[p].fs_call \in {"READ", "WRITE"}
         /\ Served([f EXCEPT !.hung[p] = NoCall, !.revived[p] = FALSE, !.reviving = @ - 1], e, p)
<1> DEFINE R       == {q \in Procs : f.revived[q]}
           hung    == [f.hung EXCEPT ![p] = NoCall]
           revived == [f.revived EXCEPT ![p] = FALSE]
           n       == f.reviving - 1
           g       == [f EXCEPT !.hung = hung, !.revived = revived, !.reviving = n]
<1>0. /\ f \in Tables /\ Files(f) /\ Hooked(f) /\ Marks(f) /\ Covers(f) /\ Told(f, e, NIL)
      /\ AllFlow(f) /\ Alone(f)
  BY DEF Good, Files, Suspending
<1>1. p \in R
  <2>1. R \in SUBSET Procs
    OBVIOUS
  <2>i. R \in SUBSET Int /\ IsFiniteSet(R)
    <3> HIDE DEF R, hung, revived, g
    <3>1. IsFiniteSet(R)
      BY <2>1, Ranges, FS_Subset
    <3>2. Procs \subseteq Int
      BY Ranges
    <3> QED BY <2>1, <3>1, <3>2
  <2>2. R # {}
    <3>1. Cardinality(R) # 0
      BY <1>0 DEF Marks
    <3> HIDE DEF R
    <3> QED BY <3>1, FS_EmptySet
  <2>3. p = Min(R)
    OBVIOUS
  <2> HIDE DEF R
  <2> QED BY <2>i, <2>2, <2>3, MinIn
<1>2. p \in Procs /\ f.revived[p] /\ f.hung[p].fs_call \in {"READ", "WRITE"}
  BY <1>0, <1>1 DEF Marks
<1>3. f.hung[p] \in Hung /\ Suspended(f, p)
  <2>1. f.hung[p] \in Hung \cup {NoCall}
    BY <1>0, <1>2, Fields
  <2> QED BY <1>2, <2>1, Calls DEF Suspended
<1>4. /\ hung \in [Procs -> Hung \cup {NoCall}] /\ hung[p] = NoCall
      /\ \A q \in Procs : q # p => hung[q] = f.hung[q]
  BY <1>0, <1>2, Fields
<1>5. /\ revived \in [Procs -> BOOLEAN] /\ ~ revived[p]
      /\ \A q \in Procs : q # p => revived[q] = f.revived[q]
  BY <1>0, <1>2, Fields
<1>6. n \in Int /\ f.reviving \in Int
  BY <1>0, Fields
<1>7. [f EXCEPT !.hung[p] = NoCall, !.revived[p] = FALSE, !.reviving = @ - 1] = g
  BY <1>0 DEF Tables
<1> HIDE DEF hung, revived
<1>8. g \in Tables
  BY <1>0, <1>4, <1>5, <1>6 DEF Tables
<1>9. /\ SameFiles(f, g) /\ g.at = f.at /\ g.revived = revived /\ g.reviving = f.reviving - 1
      /\ g.hung = hung /\ g.susp_count = f.susp_count
  BY <1>0 DEF SameFiles, Tables
<1> HIDE DEF g
<1>10. /\ ~ Suspended(g, p)
       /\ \A q \in Procs : q # p => /\ g.hung[q] = f.hung[q] /\ (Suspended(g, q) <=> Suspended(f, q))
                                    /\ g.revived[q] = f.revived[q]
  BY <1>4, <1>5, <1>9 DEF Suspended
<1>11. Calmer(f, g)
  BY <1>9, <1>10 DEF Calmer
<1>12. Files(g) /\ Hooked(g) /\ AllFlow(g) /\ Alone(g)
  BY <1>0, <1>8, <1>9, <1>11, FilesStay, CalmFlow, CalmHooked
<1>13. Marks(g)
  <2> DEFINE G == {q \in Procs : g.revived[q]}
  <2>1. G = R \ {p}
    BY <1>2, <1>5, <1>9, <1>10
  <2>2. IsFiniteSet(R) /\ f.reviving = Cardinality(R)
    BY <1>0, Ranges, FS_Subset DEF Marks
  <2>3. \A q \in Procs : g.revived[q] => g.hung[q].fs_call \in {"READ", "WRITE"}
    BY <1>0, <1>5, <1>9, <1>10 DEF Marks
  <2> HIDE DEF R, G
  <2>4. Cardinality(R \ {p}) = Cardinality(R) - 1
    BY <1>1, <2>2, FS_RemoveElement
  <2>5. g.reviving = Cardinality(G)
    BY <1>9, <2>1, <2>2, <2>4
  <2> QED BY <2>3, <2>5 DEF Marks, G
<1>14. Covers(g)
  <2>1. HangersOf(g) = HangersOf(f)
    BY <1>2, <1>10 DEF HangersOf
  <2> QED BY <1>0, <1>9, <2>1 DEF Covers
<1>15. Told(g, e, p) /\ (g.at[p] = "free" => p = e)
  <2>1. \A q \in Procs : q # p => /\ Suspended(g, q) <=> Suspended(f, q)
                                  /\ g.at[q] = f.at[q] /\ g.fd[q] = f.fd[q]
    BY <1>9, <1>10 DEF SameFiles
  <2>2. f.at[p] = "free" => p = e
    BY <1>0, <1>2, <1>3 DEF Told
  <2>3. e \in Procs \cup {NIL} /\ (e # NIL => g.at[e] = "free") /\ g.at = f.at
    BY <1>0, <1>9 DEF Told
  <2> SUFFICES ASSUME NEW q \in Procs
               PROVE  /\ g.at[q] = "waits" => Suspended(g, q) \/ q = p
                      /\ Suspended(g, q) => (g.at[q] = "waits" \/ q = e) /\ q # p
                      /\ g.at[q] = "free" => q = e \/ (~ Suspended(g, q) /\ \A d \in Fds : g.fd[q][d] = NIL)
    BY <2>2, <2>3 DEF Told
  <2>4. CASE q = p
    BY <1>10, <2>2, <2>3, <2>4
  <2>5. CASE q # p
    BY <1>0, <2>1, <2>5, Ranges DEF Told
  <2> QED BY <2>4, <2>5
<1>16. Served(g, e, p)
  BY <1>12, <1>13, <1>14, <1>15 DEF Good, Suspending, Served
<1> QED BY <1>2, <1>3, <1>7, <1>16

-----------------------------------------------------------------------------
(* open() and pipe() *)

(* Descriptor d of p is for filp x, which is for inode i *)
Claimed(f, g, p, d, x, i) ==
  /\ g \in Tables /\ SameProcs(f, g)
  /\ g.fd = [f.fd EXCEPT ![p] = [@ EXCEPT ![d] = x]]
  /\ \A y \in Filps : y # x => g.filp[y] = f.filp[y]
  /\ g.filp[x].count = 1 /\ g.filp[x].mode \in Modes /\ g.filp[x].ino = i
  /\ \A j \in Inodes : j # i => g.inode[j] = f.inode[j]
  /\ g.inode[i].count = f.inode[i].count + 1 /\ g.inode[i].num # "none"

INode == [num : {"none", "pipe", "fifo"}, count : Nat, i_pipe : BOOLEAN,
          data : BoundedSeq(Procs \cup {0}, PIPE_SIZE)]

(* The forms of the updates *)
At(inode, i, v)    == [inode EXCEPT ![i] = v]
Piped(v, u)        == [v EXCEPT !.i_pipe = u]
SetInode(f, i, v)  == [f EXCEPT !.inode[i] = v]
SetPiped(f, i, u)  == [f EXCEPT !.inode[i].i_pipe = u]

LEMMA ClaimDoes ==
  ASSUME NEW f \in Tables, NEW p \in Procs, NEW d \in Fds, NEW x \in Filps, NEW mode \in Modes,
         NEW i \in Inodes, NEW nonblock \in BOOLEAN, NEW ino \in INode,
         ino.count = f.inode[i].count + 1, ino.num # "none",
         NEW g, g = ClaimFd(SetInode(f, i, ino), p, d, x, mode, i, nonblock)
  PROVE  /\ Claimed(f, g, p, d, x, i) /\ g.inode[i] = ino
         /\ g.filp[x].mode = mode /\ g.filp[x].pos = 0
<1> DEFINE fd    == [f.fd EXCEPT ![p] = [@ EXCEPT ![d] = x]]
           v     == [mode |-> mode, count |-> 1, pos |-> 0, ino |-> i, nonblock |-> nonblock]
           filp  == [f.filp EXCEPT ![x] = v]
           inode == [f.inode EXCEPT ![i] = ino]
           t     == [f EXCEPT !.fd = fd, !.filp = filp, !.inode = inode]
<1>1. g = t
  BY DEF ClaimFd, SetInode, Tables
<1>2. /\ fd \in [Procs -> [Fds -> Filps \cup {NIL}]]
      /\ fd = [f.fd EXCEPT ![p] = [@ EXCEPT ![d] = x]]
  BY Fields
<1>3. /\ v \in [mode : Modes \cup {{}}, count : Nat, pos : Nat, ino : Inodes \cup {NIL},
                nonblock : BOOLEAN]
      /\ v.mode = mode /\ v.count = 1 /\ v.pos = 0 /\ v.ino = i
  OBVIOUS
<1> HIDE DEF v
<1>4. /\ filp \in [Filps -> [mode : Modes \cup {{}}, count : Nat, pos : Nat,
                             ino : Inodes \cup {NIL}, nonblock : BOOLEAN]]
      /\ filp[x] = v /\ \A y \in Filps : y # x => filp[y] = f.filp[y]
  BY <1>3, Fields
<1>5. /\ inode \in [Inodes -> [num : {"none", "pipe", "fifo"}, count : Nat, i_pipe : BOOLEAN,
                               data : BoundedSeq(Procs \cup {0}, PIPE_SIZE)]]
      /\ inode[i] = ino /\ \A j \in Inodes : j # i => inode[j] = f.inode[j]
  BY Fields DEF INode
<1> HIDE DEF fd, filp, inode
<1>6. t \in Tables
  BY <1>2, <1>4, <1>5 DEF Tables
<1>7. t.fd = fd /\ t.filp = filp /\ t.inode = inode /\ SameProcs(f, t)
  BY DEF Tables, SameProcs
<1> HIDE DEF t
<1>8. t.filp[x] = v /\ t.inode[i] = ino
  BY <1>4, <1>5, <1>7
<1>9. /\ \A y \in Filps : y # x => t.filp[y] = f.filp[y]
      /\ \A j \in Inodes : j # i => t.inode[j] = f.inode[j]
  BY <1>4, <1>5, <1>7
<1>10. t.fd = [f.fd EXCEPT ![p] = [@ EXCEPT ![d] = x]]
  BY <1>2, <1>7
<1>11. /\ t.filp[x].mode = mode /\ t.filp[x].count = 1 /\ t.filp[x].pos = 0 /\ t.filp[x].ino = i
  BY <1>3, <1>8
<1>12. Claimed(f, t, p, d, x, i)
  BY <1>6, <1>7, <1>8, <1>9, <1>10, <1>11 DEF Claimed
<1> QED BY <1>1, <1>8, <1>11, <1>12

LEMMA ClaimedFiles ==
  ASSUME NEW f, Files(f), NEW g, NEW p \in Procs, NEW d \in Fds, f.fd[p][d] = NIL,
         NEW x \in Filps, f.filp[x].count = 0, NEW i \in Inodes, Claimed(f, g, p, d, x, i),
         g.inode[i].num = "pipe" => PipeEnds(g, i)
  PROVE  /\ Files(g) /\ Uses(g, i) = Uses(f, i) \cup {x}
         /\ \A j \in Inodes : j # i => Uses(g, j) = Uses(f, j)
<1>0. /\ f \in Tables /\ FilpCounts(f) /\ InodeCounts(f) /\ Slots(f) /\ Pipes(f) /\ g \in Tables
  BY DEF Files, Claimed
<1>1. /\ g.fd = [f.fd EXCEPT ![p] = [@ EXCEPT ![d] = x]]
      /\ \A y \in Filps : y # x => g.filp[y] = f.filp[y]
      /\ g.filp[x].count = 1 /\ g.filp[x].mode \in Modes /\ g.filp[x].ino = i
  BY DEF Claimed
<1>i. /\ \A j \in Inodes : j # i => g.inode[j] = f.inode[j]
      /\ g.inode[i].count = f.inode[i].count + 1 /\ g.inode[i].num # "none"
  BY DEF Claimed
<1>2. f.filp[x].ino = NIL
  <2>1. f.filp[x] = FreeFilp
    BY <1>0 DEF Slots
  <2> QED BY <2>1, FreeIs
<1>3. FilpCounts(g)
  <2>1. g.filp[x].count = f.filp[x].count + 1
    BY <1>1
  <2>2. \A y \in Filps : y # x => g.filp[y].count = f.filp[y].count
    BY <1>1
  <2> QED BY <1>0, <1>1, <2>1, <2>2, CountsOneMore
<1>4. \A j \in Inodes : Uses(g, j) = Uses(f, j) \cup IF j = i THEN {x} ELSE {}
  <2> SUFFICES ASSUME NEW j \in Inodes
               PROVE  Uses(g, j) = Uses(f, j) \cup IF j = i THEN {x} ELSE {}
    OBVIOUS
  <2>1. x \in Uses(g, j) <=> j = i
    BY <1>1 DEF Uses
  <2>2. x \notin Uses(f, j)
    BY <1>2, Ranges DEF Uses
  <2>3. \A y \in Filps : y # x => (y \in Uses(g, j) <=> y \in Uses(f, j))
    BY <1>1 DEF Uses
  <2>4. Uses(g, j) \subseteq Filps /\ Uses(f, j) \subseteq Filps
    BY DEF Uses
  <2> HIDE DEF Uses
  <2> QED BY <2>1, <2>2, <2>3, <2>4
<1>5. InodeCounts(g)
  <2> SUFFICES ASSUME NEW j \in Inodes PROVE g.inode[j].count = Cardinality(Uses(g, j))
    BY DEF InodeCounts
  <2>1. CASE j = i
    <3> DEFINE S == Uses(f, i)
    <3>1. x \notin S /\ IsFiniteSet(S) /\ Uses(g, i) = S \cup {x}
      <4>1. x \notin S
        BY <1>2, Ranges DEF Uses
      <4>2. IsFiniteSet(S)
        BY UsesFinite
      <4>3. Uses(g, i) = S \cup {x}
        BY <1>4
      <4> QED BY <4>1, <4>2, <4>3
    <3>2. f.inode[i].count = Cardinality(S)
      BY <1>0 DEF InodeCounts
    <3> HIDE DEF S
    <3>3. Cardinality(S \cup {x}) = Cardinality(S) + 1
      BY <3>1, FS_AddElement
    <3>4. Cardinality(Uses(g, i)) = Cardinality(S) + 1
      BY <3>1, <3>3
    <3> QED BY <1>i, <2>1, <3>2, <3>4
  <2>2. CASE j # i
    <3>1. Uses(g, j) = Uses(f, j)
      BY <1>4, <2>2
    <3> QED BY <1>0, <1>i, <2>2, <3>1 DEF InodeCounts
  <2> QED BY <2>1, <2>2
<1>6. Slots(g)
  <2>1. \A y \in Filps : IF g.filp[y].count = 0 THEN g.filp[y] = FreeFilp
                         ELSE g.filp[y].mode \in Modes /\ g.filp[y].ino \in Inodes
    BY <1>0, <1>1 DEF Slots
  <2>2. g.inode[i].count # 0
    <3>1. f.inode[i].count \in Nat
      BY <1>0, FilpTypes
    <3> QED BY <1>i, <3>1
  <2>3. \A j \in Inodes : IF g.inode[j].count = 0 THEN g.inode[j] = FreeInode
                          ELSE g.inode[j].num # "none"
    BY <1>0, <1>i, <2>2 DEF Slots
  <2> QED BY <2>1, <2>3 DEF Slots
<1>7. Pipes(g)
  <2> SUFFICES ASSUME NEW j \in Inodes, g.inode[j].num = "pipe", j # i PROVE PipeEnds(g, j)
    BY DEF Pipes
  <2>1. g.inode[j] = f.inode[j] /\ Uses(g, j) = Uses(f, j)
    BY <1>i, <1>4
  <2>2. PipeEnds(f, j) /\ i_size(g, j) = i_size(f, j)
    BY <1>0, <2>1 DEF Pipes, i_size
  <2>3. \A y \in Uses(f, j) : g.filp[y] = f.filp[y]
    <3>1. \A y \in Uses(f, j) : y # x /\ y \in Filps
      BY <1>2, Ranges DEF Uses
    <3> QED BY <1>1, <3>1
  <2> QED BY <2>1, <2>2, <2>3 DEF PipeEnds
<1> QED BY <1>0, <1>3, <1>4, <1>5, <1>6, <1>7 DEF Files

(* Who waits in open() of inode i does not wait for somebody with this mode *)
Apart(f, i, mode) ==
  \A q \in Procs : f.hung[q].fs_call \in Waits /\ Filp(f, q, f.hung[q].fd).ino = i =>
    {Filp(f, q, f.hung[q].fd).mode, mode} # {{"R"}, {"W"}}

LEMMA ClaimedGood ==
  ASSUME NEW f, NEW e, NEW w, Good(f, e, w), NEW g, NEW p \in Procs, NEW d \in Fds,
         f.fd[p][d] = NIL, f.at[p] = "free" => p = e,
         NEW x \in Filps, f.filp[x].count = 0, NEW i \in Inodes, Claimed(f, g, p, d, x, i),
         g.inode[i].num = "pipe" =>
           PipeEnds(g, i) /\ Hanging(f, i, "READ") = {} /\ Hanging(f, i, "WRITE") = {},
         Apart(f, i, g.filp[x].mode)
  PROVE  Good(g, e, w)
<1>0. /\ Files(f) /\ Told(f, e, w) /\ Marks(f) /\ Covers(f) /\ Hooked(f) /\ AllFlow(f) /\ Alone(f)
      /\ f \in Tables /\ g \in Tables
  BY DEF Good, Suspending, Files, Claimed
<1>1. /\ g.fd = [f.fd EXCEPT ![p] = [@ EXCEPT ![d] = x]]
      /\ \A y \in Filps : y # x => g.filp[y] = f.filp[y]
      /\ \A j \in Inodes : j # i => g.inode[j] = f.inode[j]
  BY DEF Claimed
<1>2. /\ g.at = f.at /\ g.hung = f.hung /\ g.revived = f.revived
      /\ g.susp_count = f.susp_count /\ g.reviving = f.reviving
  BY DEF Claimed, SameProcs
<1>3. Files(g)
  <2>1. g.inode[i].num = "pipe" => PipeEnds(g, i)
    OBVIOUS
  <2>2. Files(f) /\ Claimed(f, g, p, d, x, i)
    BY <1>0
  <2> QED BY <2>1, <2>2, ClaimedFiles
<1>4. \A q \in Procs : Suspended(g, q) <=> Suspended(f, q)
  BY <1>2 DEF Suspended
<1>5. \A q \in Procs, k \in Fds : <<q, k>> # <<p, d>> => g.fd[q][k] = f.fd[q][k]
  BY <1>0, <1>1, Fields
<1>6. HungSame(f, g)
  <2> SUFFICES ASSUME NEW q \in Procs, Suspended(g, q)
               PROVE  /\ g.hung[q] = f.hung[q] /\ g.revived[q] = f.revived[q]
                      /\ g.fd[q][f.hung[q].fd] = f.fd[q][f.hung[q].fd]
                      /\ Filp(g, q, f.hung[q].fd).mode = Filp(f, q, f.hung[q].fd).mode
                      /\ Filp(g, q, f.hung[q].fd).ino = Filp(f, q, f.hung[q].fd).ino
    BY SMTT(30) DEF HungSame
  <2>1. /\ f.hung[q].fd \in Fds /\ f.fd[q][f.hung[q].fd] \in Filps
        /\ f.filp[f.fd[q][f.hung[q].fd]].count # 0
    BY <1>0, <1>4, HungFile, Zenon
  <2>2. f.fd[q][f.hung[q].fd] # NIL /\ f.fd[q][f.hung[q].fd] # x
    BY <2>1, Ranges
  <2>3. g.fd[q][f.hung[q].fd] = f.fd[q][f.hung[q].fd]
    BY <1>5, <2>1, <2>2, SMTT(30)
  <2>4. g.filp[f.fd[q][f.hung[q].fd]] = f.filp[f.fd[q][f.hung[q].fd]]
    BY <1>1, <2>1, <2>2
  <2> QED BY <1>2, <2>3, <2>4 DEF Filp
<1>7. Hooked(g) /\ \A j, c : c \in {"READ", "WRITE"} \cup Waits => Hanging(g, j, c) \subseteq Hanging(f, j, c)
  BY <1>0, <1>6, HungKeeps
<1>8. HangersOf(g) = HangersOf(f)
  BY <1>2, <1>4 DEF HangersOf
<1>9. Marks(g) /\ Covers(g)
  BY <1>0, <1>2, <1>8 DEF Marks, Covers
<1>10. Told(g, e, w)
  <2>1. \A q \in Procs : f.at[q] = "free" /\ q # e => \A k \in Fds : g.fd[q][k] = f.fd[q][k]
    BY <1>5
  <2> QED BY <1>0, <1>2, <1>4, <2>1 DEF Told
<1>11. AllFlow(g)
  <2> SUFFICES ASSUME NEW j \in Inodes, g.inode[j].num = "pipe" PROVE Flows(g, j)
    BY DEF AllFlow
  <2>r. Hanging(g, j, "READ") \subseteq Hanging(f, j, "READ")
    BY <1>7
  <2>w. Hanging(g, j, "WRITE") \subseteq Hanging(f, j, "WRITE")
    <3>1. "WRITE" \in {"READ", "WRITE"} \cup Waits
      OBVIOUS
    <3> QED BY <1>7, <3>1
  <2>1. CASE j = i
    <3>1. Hanging(g, i, "READ") = {} /\ Hanging(g, i, "WRITE") = {}
      BY <2>1, <2>r, <2>w
    <3> QED BY <2>1, <3>1 DEF Flows
  <2>2. CASE j # i
    <3>1. g.inode[j] = f.inode[j] /\ i_size(g, j) = i_size(f, j) /\ Flows(f, j)
      BY <1>0, <1>1, <2>2 DEF AllFlow, i_size
    <3>2. \A bit : Open(f, j, bit) \subseteq Open(g, j, bit)
      <4> SUFFICES ASSUME NEW bit, NEW y \in Open(f, j, bit) PROVE y \in Open(g, j, bit)
        OBVIOUS
      <4>1. y \in Filps /\ f.filp[y].ino = j /\ bit \in f.filp[y].mode
        BY DEF Open
      <4>2. y # x
        <5>1. y \in Uses(f, j)
          BY <4>1 DEF Uses
        <5>2. f.filp[x] = FreeFilp
          BY <1>0 DEF Files, Slots
        <5> QED BY <4>1, <5>2, FreeIs, Ranges
      <4> QED BY <1>1, <4>1, <4>2 DEF Open
    <3>3. Hanging(g, j, "READ") # {} => i_size(g, j) = 0 /\ Open(g, j, "W") # {}
      BY <2>r, <3>1, <3>2 DEF Flows
    <3>4. Hanging(g, j, "WRITE") # {} => Open(g, j, "R") # {}
      BY <2>w, <3>1, <3>2, SMTT(30) DEF Flows
    <3> QED BY <1>0, <1>6, <3>1, <3>3, <3>4, HungFlows
  <2> QED BY <2>1, <2>2
<1>12. Alone(g)
  <2> SUFFICES ASSUME NEW q \in Procs, g.hung[q].fs_call \in Waits,
                      NEW y \in Uses(g, g.filp[g.fd[q][g.hung[q].fd]].ino)
               PROVE  {g.filp[g.fd[q][g.hung[q].fd]].mode, g.filp[y].mode} # {{"R"}, {"W"}}
    BY Zenon DEF Alone
  <2> DEFINE z == f.fd[q][f.hung[q].fd]
             j == f.filp[z].ino
  <2>1. Suspended(g, q)
    BY <1>0, Calls, Fields, SMTT(30) DEF Suspended
  <2>2. /\ g.fd[q][g.hung[q].fd] = z /\ g.filp[z].ino = j /\ g.filp[z].mode = f.filp[z].mode
        /\ f.hung[q].fs_call \in Waits
    BY <1>6, <2>1, ZenonT(60) DEF HungSame, Filp
  <2>3. j \in Inodes
    BY <1>0, <1>4, <2>1, HungFile, ZenonT(60)
  <2>4. \A u \in Uses(f, j) : {f.filp[z].mode, f.filp[u].mode} # {{"R"}, {"W"}}
    BY <1>0, <2>2, Zenon DEF Alone
  <2>5. Filp(f, q, f.hung[q].fd) = f.filp[z]
    BY SMTT(30) DEF Filp
  <2>6. j = i => {f.filp[z].mode, g.filp[x].mode} # {{"R"}, {"W"}}
    BY <2>2, <2>5, Zenon DEF Apart
  <2> HIDE DEF z, j
  <2>7. y \in Uses(g, j)
    BY <2>2
  <2>8. CASE y = x
    <3>1. g.filp[x].ino = j
      BY <2>7, <2>8 DEF Uses
    <3>2. g.filp[x].ino = i
      BY DEF Claimed
    <3> QED BY <2>2, <2>6, <2>8, <3>1, <3>2
  <2>9. CASE y # x
    <3>1. y \in Uses(f, j) /\ y \in Filps
      BY <1>1, <2>7, <2>9 DEF Uses
    <3>2. g.filp[y] = f.filp[y]
      BY <1>1, <2>9, <3>1
    <3> QED BY <2>2, <2>4, <3>1, <3>2
  <2> QED BY <2>8, <2>9, ZenonT(60)
<1> QED BY <1>3, <1>7, <1>9, <1>10, <1>11, <1>12 DEF Good, Suspending

(* What is done for processes has nothing to do with the inodes *)
With(f, inode) == [f EXCEPT !.inode = inode]

LEMMA WithIs ==
  ASSUME NEW f \in Tables, NEW inode \in [Inodes -> INode]
  PROVE  /\ With(f, inode) \in Tables /\ With(f, inode).inode = inode
         /\ SameProcs(f, With(f, inode))
         /\ With(f, inode).fd = f.fd /\ With(f, inode).filp = f.filp
         /\ \A i, c : Hanging(With(f, inode), i, c) = Hanging(f, i, c)
         /\ Covers(f) => Covers(With(f, inode))
<1> DEFINE g == With(f, inode)
<1>1. g \in Tables
  BY DEF With, Tables, INode
<1>2. /\ g.inode = inode /\ g.fd = f.fd /\ g.filp = f.filp /\ SameProcs(f, g)
  BY DEF With, Tables, SameProcs
<1> HIDE DEF g
<1>3. \A i, c : Hanging(g, i, c) = Hanging(f, i, c)
  BY <1>2 DEF Hanging, SameProcs, Filp
<1>4. Covers(f) => Covers(g)
  BY <1>2 DEF Covers, HangersOf, SameProcs, Suspended
<1> QED BY <1>1, <1>2, <1>3, <1>4 DEF g

LEMMA WithBack ==
  ASSUME NEW f \in Tables, NEW inode \in [Inodes -> INode]
  PROVE  With(With(f, inode), f.inode) = f
BY DEF With, Tables

LEMMA WithReplied ==
  ASSUME NEW f \in Tables, NEW g, NEW p \in Procs, Replied(f, g, p),
         NEW inode \in [Inodes -> INode]
  PROVE  Replied(With(f, inode), With(g, inode), p)
<1>1. /\ With(g, inode) \in Tables /\ SameProcs(g, With(g, inode))
      /\ With(g, inode).inode = inode
      /\ With(g, inode).fd = g.fd /\ With(g, inode).filp = g.filp
  BY WithIs DEF Replied
<1>2. /\ SameProcs(f, With(f, inode)) /\ With(f, inode).inode = inode
      /\ With(f, inode).fd = f.fd /\ With(f, inode).filp = f.filp
  BY WithIs
<1> HIDE DEF With
<1> QED BY <1>1, <1>2 DEF Replied, SameProcs, SameFiles

LEMMA WithReleased ==
  ASSUME NEW f \in Tables, NEW g, NEW i, NEW c \in {"READ", "WRITE"} \cup Waits, NEW first,
         Released(f, g, i, c, first), NEW inode \in [Inodes -> INode]
  PROVE  Released(With(f, inode), With(g, inode), i, c, first)
<1>1. /\ With(g, inode) \in Tables /\ SameProcs(g, With(g, inode))
      /\ With(g, inode).inode = inode
      /\ With(g, inode).fd = g.fd /\ With(g, inode).filp = g.filp
  BY WithIs DEF Released
<1>2. /\ SameProcs(f, With(f, inode)) /\ With(f, inode).inode = inode
      /\ With(f, inode).fd = f.fd /\ With(f, inode).filp = f.filp
      /\ Hanging(With(f, inode), i, c) = Hanging(f, i, c)
  BY WithIs
<1> DEFINE u == With(f, inode)
           v == With(g, inode)
<1> HIDE DEF u, v, Hanging, Waits
<1>3. /\ v \in Tables /\ SameProcs(g, v) /\ v.inode = inode /\ v.fd = g.fd /\ v.filp = g.filp
      /\ SameProcs(f, u) /\ u.inode = inode /\ u.fd = f.fd /\ u.filp = f.filp
      /\ Hanging(u, i, c) = Hanging(f, i, c)
  BY <1>1, <1>2 DEF u, v
<1>4. Released(u, v, i, c, first)
  BY <1>3 DEF Released, SameProcs, SameFiles
<1> QED BY <1>4 DEF u, v

(* Both kinds of open() that wait on inode i are released *)
OpensGone(f, e, p, i, inode, h) ==
  /\ h \in Tables /\ h.inode = inode /\ SameFiles(f, With(h, f.inode))
  /\ Good(With(h, f.inode), e, NIL) /\ h.at[p] = "runs"
  /\ Hanging(With(h, f.inode), i, "OPEN") = {} /\ Hanging(With(h, f.inode), i, "CREAT") = {}

LEMMA OpensReleased ==
  ASSUME NEW f, NEW e, NEW p \in Procs, Good(f, e, NIL), f.at[p] = "runs", NEW i,
         NEW inode \in [Inodes -> INode], NEW new \in SUBSET Fds,
         NEW h, h = reply(releaseIfCounted(releaseIfCounted(With(f, inode), i, "OPEN"), i, "CREAT"),
                          p, new)
  PROVE  OpensGone(f, e, p, i, inode, h)
<1> DEFINE k  == With(f, inode)
           k1 == releaseIfCounted(k, i, "OPEN")
           k2 == releaseIfCounted(k1, i, "CREAT")
           b1 == With(k1, f.inode)
           b2 == With(k2, f.inode)
           b  == With(h, f.inode)
           c  == "CREAT"
           o  == "OPEN"
<1>0. f \in Tables /\ Good(f, e, p) /\ Covers(f) /\ ~ Suspended(f, p)
      /\ f.inode \in [Inodes -> INode]
  BY RunsServed, Fields DEF Good, Files, Suspending, INode
<1>1. k \in Tables /\ Covers(k) /\ k.inode = inode
  BY <1>0, WithIs
<1>2. With(k, f.inode) = f
  BY <1>0, WithBack
<1>3. c \in {"READ", "WRITE"} \cup Waits /\ o \in {"READ", "WRITE"} \cup Waits
  BY DEF Waits
<1>4. h = reply(k2, p, new)
  OBVIOUS
<1>5. k1 = releaseIfCounted(k, i, o) /\ k2 = releaseIfCounted(k1, i, c)
  OBVIOUS
<1>6. b1 = With(k1, f.inode) /\ b2 = With(k2, f.inode) /\ b = With(h, f.inode)
  OBVIOUS
<1> HIDE DEF k, k1, k2, b1, b2, b, c, o
<1>7. Released(k, k1, i, o, Hanging(k, i, o))
  BY <1>1, <1>3, <1>5, ReleaseAll
<1>8. k1 \in Tables /\ k1.inode = inode /\ Covers(k1)
  <2>1. k1 \in Tables /\ k1.inode = inode
    BY <1>1, <1>7 DEF Released, SameFiles
  <2>2. Covers(k) => Covers(k1)
    BY <1>1, <1>3, <1>7, ReleasedKeeps
  <2> QED BY <1>1, <2>1, <2>2
<1>9. Released(k1, k2, i, c, Hanging(k1, i, c))
  BY <1>3, <1>5, <1>8, ReleaseAll
<1>10. k2 \in Tables /\ k2.inode = inode
  BY <1>8, <1>9 DEF Released, SameFiles
<1>11. Replied(k2, h, p)
  BY <1>4, <1>10, ReplyDoes
<1>12. h \in Tables /\ h.inode = inode
  BY <1>10, <1>11 DEF Replied, SameFiles
<1>13. Released(f, b1, i, o, Hanging(k, i, o))
  BY <1>0, <1>1, <1>2, <1>3, <1>6, <1>7, WithReleased
<1>14. Released(b1, b2, i, c, Hanging(k1, i, c))
  BY <1>0, <1>3, <1>6, <1>8, <1>9, WithReleased
<1>15. Replied(b2, b, p)
  BY <1>0, <1>6, <1>10, <1>11, WithReplied
<1>16. Good(b1, e, p)
  BY <1>0, <1>3, <1>13, ReleasedGood
<1>17. Good(b2, e, p)
  BY <1>3, <1>14, <1>16, ReleasedGood
<1>18. Good(b, e, NIL)
  BY <1>15, <1>17, RepliedGood
<1>19. SameFiles(f, b)
  BY <1>13, <1>14, <1>15 DEF Released, Replied, SameFiles
<1>20. b1 \in Tables /\ b2 \in Tables /\ b \in Tables
  BY <1>13, <1>14, <1>15 DEF Released, Replied
<1>21. Hanging(k, i, o) = Hanging(f, i, o) /\ Hanging(k1, i, c) = Hanging(b1, i, c)
  <2>1. \A j, cc : Hanging(b1, j, cc) = Hanging(k1, j, cc)
    BY <1>0, <1>6, <1>8, WithIs
  <2>2. \A j, cc : Hanging(k, j, cc) = Hanging(f, j, cc)
    BY <1>0, WithIs DEF k
  <2> QED BY <2>1, <2>2
<1>22. Hanging(b1, i, o) = {} /\ Calmer(f, b1)
       /\ ~ Suspended(b1, p) /\ b1.at[p] = "runs"
  <2>1. Released(f, b1, i, o, Hanging(f, i, o))
    BY <1>13, <1>21
  <2> QED BY <1>0, <1>3, <2>1, ReleasedKeeps
<1>23. Hanging(b2, i, c) = {} /\ Calmer(b1, b2)
       /\ ~ Suspended(b2, p) /\ b2.at[p] = "runs"
  <2>1. Released(b1, b2, i, c, Hanging(b1, i, c))
    BY <1>14, <1>21
  <2> QED BY <1>3, <1>20, <1>22, <2>1, ReleasedKeeps
<1>24. Calmer(b2, b)
  BY <1>15 DEF Replied, Calmer, Suspended
<1>25. Hanging(b, i, c) = {}
  <2>1. Hanging(b, i, c) \subseteq Hanging(b2, i, c)
    BY <1>3, <1>20, <1>24, Fewer
  <2> QED BY <1>23, <2>1
<1>26. Hanging(b, i, o) = {}
  <2>1. Hanging(b, i, o) \subseteq Hanging(b2, i, o)
    BY <1>3, <1>20, <1>24, Fewer
  <2>2. Hanging(b2, i, o) \subseteq Hanging(b1, i, o)
    BY <1>3, <1>20, <1>23, Fewer
  <2> QED BY <1>22, <2>1, <2>2
<1>27. h.at[p] = "runs"
  <2>1. b.at[p] = "runs"
    BY <1>15, <1>23 DEF Replied
  <2>2. SameProcs(h, b)
    BY <1>0, <1>6, <1>12, WithIs
  <2> QED BY <2>1, <2>2 DEF SameProcs
<1> QED BY <1>6, <1>12, <1>18, <1>19, <1>25, <1>26, <1>27 DEF c, o, OpensGone

LEMMA FifoClaimed ==
  ASSUME NEW f, NEW e, NEW w, Good(f, e, w), NEW p \in Procs, f.at[p] = "runs",
         NEW d \in Fds, f.fd[p][d] = NIL, NEW x \in Filps, f.filp[x].count = 0,
         NEW mode \in Modes, NEW i \in Inodes, NEW nonblock \in BOOLEAN, NEW ino \in INode,
         ino.count = f.inode[i].count + 1, ino.num = "fifo",
         Apart(f, i, mode),
         NEW g, g = ClaimFd(SetInode(f, i, ino), p, d, x, mode, i, nonblock)
  PROVE  Good(g, e, w) /\ Claimed(f, g, p, d, x, i) /\ g.filp[x].mode = mode
<1>0. f \in Tables /\ ino.num # "none" /\ f.at[p] # "free"
  BY DEF Good, Files
<1>1. Claimed(f, g, p, d, x, i) /\ g.inode[i] = ino /\ g.filp[x].mode = mode
  BY <1>0, ClaimDoes
<1>2. g.inode[i].num # "pipe"
  BY <1>1
<1>3. Apart(f, i, g.filp[x].mode)
  BY <1>1
<1>4. Good(g, e, w)
  <2>1. g.inode[i].num = "pipe" =>
          PipeEnds(g, i) /\ Hanging(f, i, "READ") = {} /\ Hanging(f, i, "WRITE") = {}
    BY <1>2
  <2>2. f.at[p] = "free" => p = e
    BY <1>0
  <2>3. Claimed(f, g, p, d, x, i)
    BY <1>1
  <2> QED BY <1>3, <2>1, <2>2, <2>3, ClaimedGood
<1> QED BY <1>1, <1>4

(* An open() that waits has its descriptor *)
LEMMA OpenAsleep ==
  ASSUME NEW f, NEW e, NEW p \in Procs, Good(f, e, p), f.at[p] = "runs",
         NEW call \in Hung, call.fs_call \in Waits, NEW x \in Filps, f.fd[p][call.fd] = x,
         NEW i, i = f.filp[x].ino,
         \A y \in Uses(f, i) : {f.filp[x].mode, f.filp[y].mode} # {{"R"}, {"W"}},
         NEW g, Asleep(f, g, p, call)
  PROVE  Good(g, e, NIL)
<1>0. /\ f \in Tables /\ Hooked(f) /\ AllFlow(f) /\ Alone(f) /\ g \in Tables /\ SameFiles(f, g)
      /\ g.hung[p] = call /\ \A q \in Procs : q # p => g.hung[q] = f.hung[q]
      /\ g.revived = f.revived /\ x # NIL
  BY Ranges DEF Good, Files, Suspending, Asleep
<1>1. /\ Files(g) /\ Told(g, e, NIL) /\ Marks(g) /\ Covers(g)
  BY AsleepKeeps
<1>2. call.fs_call # "READ" /\ call.fs_call # "WRITE"
  BY Calls
<1>3. Hooked(g)
  <2> SUFFICES ASSUME NEW q \in Procs, Suspended(g, q)
               PROVE  /\ g.fd[q][g.hung[q].fd] # NIL
                      /\ g.hung[q].fs_call = "READ"  => "R" \in Filp(g, q, g.hung[q].fd).mode
                      /\ g.hung[q].fs_call = "WRITE" => "W" \in Filp(g, q, g.hung[q].fd).mode
    BY DEF Hooked
  <2>1. CASE q = p
    BY <1>0, <1>2, <2>1, SMTT(30) DEF SameFiles
  <2>2. CASE q # p
    BY <1>0, <2>2 DEF SameFiles, Hooked, Suspended, Filp
  <2> QED BY <2>1, <2>2
<1>4. AllFlow(g)
  <2> SUFFICES ASSUME NEW j \in Inodes, g.inode[j].num = "pipe" PROVE Flows(g, j)
    BY DEF AllFlow
  <2>1. Flows(f, j)
    BY <1>0 DEF SameFiles, AllFlow
  <2>2. \A q \in Procs : g.hung[q].fs_call \in {"READ", "WRITE"} => g.hung[q] = f.hung[q]
    BY <1>0, <1>2, SMTT(30)
  <2>3. Hanging(g, j, "READ") \subseteq Hanging(f, j, "READ")
    BY <1>0, <2>2, ZenonT(60) DEF Hanging, SameFiles, Filp
  <2>4. Hanging(g, j, "WRITE") \subseteq Hanging(f, j, "WRITE")
    BY <1>0, <2>2, ZenonT(60) DEF Hanging, SameFiles, Filp
  <2>5. i_size(g, j) = i_size(f, j) /\ \A bit : Open(g, j, bit) = Open(f, j, bit)
    BY <1>0 DEF SameFiles, i_size, Open
  <2> HIDE DEF Hanging, i_size, Open
  <2> QED BY <2>1, <2>3, <2>4, <2>5 DEF Flows
<1>5. Alone(g)
  <2> SUFFICES ASSUME NEW q \in Procs, g.hung[q].fs_call \in Waits,
                      NEW y \in Uses(g, g.filp[g.fd[q][g.hung[q].fd]].ino)
               PROVE  {g.filp[g.fd[q][g.hung[q].fd]].mode, g.filp[y].mode} # {{"R"}, {"W"}}
    BY Zenon DEF Alone
  <2>0. \A j : Uses(g, j) = Uses(f, j)
    BY <1>0 DEF SameFiles, Uses
  <2>1. CASE q = p
    <3>1. g.fd[q][g.hung[q].fd] = x /\ g.filp = f.filp
      BY <1>0, <2>1 DEF SameFiles
    <3>2. y \in Uses(f, i)
      BY <2>0, <3>1
    <3> QED BY <3>1, <3>2
  <2>2. CASE q # p
    <3> DEFINE k == f.fd[q][f.hung[q].fd]
    <3>1. g.fd[q][g.hung[q].fd] = k /\ g.filp = f.filp /\ f.hung[q].fs_call \in Waits
      BY <1>0, <2>2 DEF SameFiles
    <3>2. \A u \in Uses(f, f.filp[k].ino) : {f.filp[k].mode, f.filp[u].mode} # {{"R"}, {"W"}}
      BY <1>0, <3>1, Zenon DEF Alone
    <3> HIDE DEF k
    <3>3. y \in Uses(f, f.filp[k].ino)
      BY <2>0, <3>1
    <3> QED BY <3>1, <3>2, <3>3
  <2> QED BY <2>1, <2>2, ZenonT(60)
<1> QED BY <1>1, <1>3, <1>4, <1>5 DEF Good, Suspending

LEMMA OpenAlike ==
  ASSUME NEW f \in Tables, NEW h \in Tables, NEW i \in Inodes, NEW v \in INode,
         h.inode = At(f.inode, i, v), NEW u \in BOOLEAN,
         NEW ino, ino = Piped(v, u),
         NEW s, s = SetPiped(h, i, u)
  PROVE  s = SetInode(With(h, f.inode), i, ino)
<1> USE DEF At, Piped, SetInode, SetPiped
<1> DEFINE I == [f.inode EXCEPT ![i] = ino]
           J == [h.inode EXCEPT ![i].i_pipe = u]
<1>1. I = J
  BY Fields DEF INode
<1>2. [h EXCEPT !.inode[i].i_pipe = u] = [h EXCEPT !.inode = J]
  BY DEF Tables
<1>3. [With(h, f.inode) EXCEPT !.inode[i] = ino] = [h EXCEPT !.inode = I]
  BY DEF Tables, With
<1> QED BY <1>1, <1>2, <1>3

LEMMA OpenSleeps ==
  ASSUME NEW f \in Tables, NEW p \in Procs, f.at[p] = "runs", NEW call, NEW i \in Inodes,
         NEW v \in INode, NEW u \in BOOLEAN, NEW ino, ino = Piped(v, u),
         NEW d \in Fds, NEW x \in Filps, NEW mode, NEW nonblock,
         NEW t, t = suspend(With(f, At(f.inode, i, v)), p, call)
  PROVE  ClaimFd(SetPiped(t, i, u), p, d, x, mode, i, nonblock)
           = suspend(ClaimFd(SetInode(f, i, ino), p, d, x, mode, i, nonblock), p, call)
<1> USE DEF At, Piped, SetInode, SetPiped
<1> DEFINE I == [f.inode EXCEPT ![i] = ino]
           J == [[f.inode EXCEPT ![i] = v] EXCEPT ![i].i_pipe = u]
           at == [f.at EXCEPT ![p] = "waits"]
           hung == [f.hung EXCEPT ![p] = call]
           n  == f.susp_count + 1
           fd == [f.fd EXCEPT ![p][d] = x]
           filp == [f.filp EXCEPT ![x] = [mode |-> mode, count |-> 1, pos |-> 0, ino |-> i,
                                          nonblock |-> nonblock]]
           final(K) == [f EXCEPT !.at = at, !.hung = hung, !.susp_count = n, !.fd = fd,
                                 !.filp = filp, !.inode = K]
<1>1. I = J
  BY Fields DEF INode
<1>2. at = [f.at EXCEPT ![p] = IF @ = "free" THEN @ ELSE "waits"]
  BY Fields
<1> HIDE DEF I
<1>3. t = [f EXCEPT !.at = at, !.hung = hung, !.susp_count = n,
                    !.inode = [f.inode EXCEPT ![i] = v]]
  <2> HIDE DEF at
  <2> QED BY <1>2 DEF suspend, With, Tables
<1> HIDE DEF at, hung, n
<1>4. ClaimFd([t EXCEPT !.inode[i].i_pipe = u], p, d, x, mode, i, nonblock) = final(J)
  BY <1>3 DEF ClaimFd, Tables
<1>5. ClaimFd([f EXCEPT !.inode[i] = ino], p, d, x, mode, i, nonblock)
        = [f EXCEPT !.fd = fd, !.filp = filp, !.inode = I]
  BY DEF ClaimFd, Tables, I
<1> HIDE DEF fd, filp
<1>6. suspend([f EXCEPT !.fd = fd, !.filp = filp, !.inode = I], p, call) = final(I)
  BY <1>2 DEF suspend, Tables, hung, n
<1> QED BY <1>1, <1>4, <1>5, <1>6

(* Which inode, which slots *)
LEMMA OpenSlots ==
  ASSUME NEW f \in Tables, NEW p \in Procs, get_fd(f, p), NEW in, NEW i,
         in = {j \in Inodes : f.inode[j].num = "fifo"},
         i = IF in = {} THEN Max(FreeInodes(f)) ELSE Min(in), in # {} \/ FreeInodes(f) # {}
  PROVE  /\ i \in Inodes
         /\ Min(FreeFds(f, p)) \in Fds /\ f.fd[p][Min(FreeFds(f, p))] = NIL
         /\ Min(FreeFilps(f)) \in Filps /\ f.filp[Min(FreeFilps(f))].count = 0
<1>1. i \in Inodes
  <2>1. in \in SUBSET Inodes /\ FreeInodes(f) \in SUBSET Inodes
    BY DEF FreeInodes
  <2>2. \A S \in SUBSET Inodes : IsFiniteSet(S) /\ S \in SUBSET Int
    <3> SUFFICES ASSUME NEW S \in SUBSET Inodes PROVE IsFiniteSet(S) /\ S \in SUBSET Int
      OBVIOUS
    <3>1. IsFiniteSet(S)
      BY Ranges, FS_Subset
    <3>2. S \in SUBSET Nat
      BY Ranges
    <3> QED BY <3>1, <3>2
  <2>3. CASE in = {}
    <3>1. Max(FreeInodes(f)) \in FreeInodes(f)
      BY <2>1, <2>2, <2>3, MaxIn
    <3> QED BY <2>1, <2>3, <3>1
  <2>4. CASE in # {}
    <3>1. Min(in) \in in
      BY <2>1, <2>2, <2>4, MinIn
    <3> QED BY <2>1, <2>4, <3>1
  <2> QED BY <2>3, <2>4
<1>2. FreeFds(f, p) # {} /\ FreeFilps(f) # {}
  BY DEF get_fd
<1> QED BY <1>1, <1>2, FreeSlots

LEMMA Couple ==
  ASSUME NEW a, NEW b, NEW r, NEW w, {a, b} = {r, w}
  PROVE  (b = r /\ a = w) \/ (b = w /\ a = r)
<1>1. (a = r \/ a = w) /\ (b = r \/ b = w) /\ (r = a \/ r = b) /\ (w = a \/ w = b)
  OBVIOUS
<1>2. CASE a = r
  <2>1. w = a \/ w = b
    BY <1>1
  <2>2. w = a => b = w
    BY <1>1, <1>2
  <2>3. b = w
    BY <2>1, <2>2
  <2> QED BY <1>2, <2>3
<1>3. CASE a = w
  <2>1. r = a \/ r = b
    BY <1>1
  <2>2. r = a => b = r
    BY <1>1, <1>3
  <2>3. b = r
    BY <2>1, <2>2
  <2> QED BY <1>3, <2>3
<1> QED BY <1>1, <1>2, <1>3

(* No filp of inode i is the other end *)
NoPeer(f, i, mode) ==
  \A y \in Filps : f.filp[y].ino = i => {f.filp[y].mode, mode} # {{"R"}, {"W"}}

LEMMA PeerIs ==
  ASSUME NEW f \in Tables, NEW i, NEW mode \in Modes,
         NEW peer, peer = find_filp(f, i, IF "W" \in mode THEN "R" ELSE "W"), peer = NIL
  PROVE  NoPeer(f, i, mode)
<1> SUFFICES ASSUME NEW y \in Filps, f.filp[y].ino = i,
                    {f.filp[y].mode, mode} = {{"R"}, {"W"}}
             PROVE  FALSE
  BY DEF NoPeer
<1>1. (mode = {"R"} /\ f.filp[y].mode = {"W"}) \/ (mode = {"W"} /\ f.filp[y].mode = {"R"})
  <2> DEFINE r == {"R"}
             w == {"W"}
             m == f.filp[y].mode
  <2>1. {m, mode} = {r, w}
    OBVIOUS
  <2> HIDE DEF r, w, m
  <2>2. (mode = r /\ m = w) \/ (mode = w /\ m = r)
    <3> DEFINE A == m
               B == mode
    <3> HIDE DEF A, B
    <3>1. {A, B} = {r, w}
      BY <2>1 DEF A, B
    <3>2. (B = r /\ A = w) \/ (B = w /\ A = r)
      BY <3>1, Couple
    <3> QED BY <3>2 DEF A, B
  <2> QED BY <2>2 DEF r, w, m
<1> DEFINE bit == IF "W" \in mode THEN "R" ELSE "W"
<1>2. bit \in f.filp[y].mode
  BY <1>1
<1> HIDE DEF bit
<1>3. Open(f, i, bit) = {}
  BY FoundFilp DEF bit
<1> QED BY <1>2, <1>3 DEF Open

LEMMA PeerApart ==
  ASSUME NEW f, Files(f), Hooked(f), NEW i, NEW mode,
         NoPeer(f, i, mode)
  PROVE  Apart(f, i, mode)
<1> SUFFICES ASSUME NEW q \in Procs, f.hung[q].fs_call \in Waits, Filp(f, q, f.hung[q].fd).ino = i
             PROVE  {Filp(f, q, f.hung[q].fd).mode, mode} # {{"R"}, {"W"}}
  BY DEF Apart
<1>1. Suspended(f, q)
  BY Calls, Fields, SMTT(30) DEF Suspended, Files
<1>2. f.fd[q][f.hung[q].fd] \in Filps
  BY <1>1, HungFile, Zenon
<1> QED BY <1>2 DEF Filp, NoPeer
(* p is about to open inode i, with descriptor d and filp x *)
Opens(f, p, i, d, x, v) ==
  /\ i \in Inodes /\ d \in Fds /\ f.fd[p][d] = NIL /\ x \in Filps /\ f.filp[x].count = 0
  /\ v \in INode /\ v.num = "fifo" /\ v.count = f.inode[i].count + 1

LEMMA PipeFlag ==
  ASSUME NEW v \in INode, v.num = "fifo", NEW u \in BOOLEAN,
         NEW ino, ino = Piped(v, u)
  PROVE  ino \in INode /\ ino.num = "fifo" /\ ino.count = v.count
BY DEF INode, Piped

LEMMA OpenDone ==
  ASSUME NEW f \in Tables, NEW e, NEW p \in Procs, NEW i, NEW d, NEW x, NEW v, Opens(f, p, i, d, x, v),
         NEW mode \in Modes, NEW nonblock \in BOOLEAN, NEW u \in BOOLEAN,
         NEW t \in Tables, t.inode = At(f.inode, i, v), NEW b, b = With(t, f.inode),
         SameFiles(f, b), Good(b, e, NIL), b.at[p] = "runs", Apart(b, i, mode),
         NEW g, g = ClaimFd(SetPiped(t, i, u), p, d, x, mode, i, nonblock)
  PROVE  Good(g, e, NIL)
<1> DEFINE ino == Piped(v, u)
           s   == SetPiped(t, i, u)
           w   == NIL
<1>1. /\ i \in Inodes /\ d \in Fds /\ f.fd[p][d] = NIL /\ x \in Filps /\ f.filp[x].count = 0
      /\ v \in INode /\ v.num = "fifo" /\ v.count = f.inode[i].count + 1
  BY DEF Opens
<1>2. ino = Piped(v, u) /\ s = SetPiped(t, i, u)
  OBVIOUS
<1>g. g = ClaimFd(s, p, d, x, mode, i, nonblock)
  OBVIOUS
<1>w. Good(b, e, w)
  OBVIOUS
<1> HIDE DEF ino, w, s
<1>3. s = SetInode(b, i, ino)
  <2>1. s = SetInode(With(t, f.inode), i, ino)
    BY <1>1, <1>2, OpenAlike
  <2> QED BY <2>1
<1>4. /\ b.fd[p][d] = NIL /\ b.filp[x].count = 0 /\ b.inode[i] = f.inode[i]
  BY <1>1 DEF SameFiles
<1>5. ino \in INode /\ ino.num = "fifo" /\ ino.count = v.count
  BY <1>1, <1>2, PipeFlag
<1>6. ino.count = b.inode[i].count + 1
  BY <1>1, <1>4, <1>5
<1>7. g = ClaimFd(SetInode(b, i, ino), p, d, x, mode, i, nonblock)
  BY <1>g, <1>3
<1>8. i \in Inodes /\ d \in Fds /\ x \in Filps
  BY <1>1
<1>9. Good(g, e, w)
  BY <1>w, <1>4, <1>5, <1>6, <1>7, <1>8, FifoClaimed
<1> QED BY <1>9 DEF w

OpenEnds(f, e, i, v, t, g) == Good(g, e, NIL) /\ t.inode = At(f.inode, i, v)

OpensReply(k, p, i, d) ==
  reply(releaseIfCounted(releaseIfCounted(k, i, "OPEN"), i, "CREAT"), p, {d})

(* The other end is open: all that wait for it go on *)
LEMMA OpenMeets ==
  ASSUME NEW f, NEW e, NEW p \in Procs, Good(f, e, NIL), f.at[p] = "runs",
         NEW i, NEW d, NEW x, NEW v, Opens(f, p, i, d, x, v),
         NEW mode \in Modes, NEW nonblock \in BOOLEAN, NEW u \in BOOLEAN,
         NEW k, k = With(f, At(f.inode, i, v)),
         NEW t, t = OpensReply(k, p, i, d),
         NEW g, g = ClaimFd(SetPiped(t, i, u), p, d, x, mode, i, nonblock)
  PROVE  OpenEnds(f, e, i, v, t, g)
<1> DEFINE b   == With(t, f.inode)
           I   == At(f.inode, i, v)
           new == {d}
<1>0. f \in Tables /\ f.inode \in [Inodes -> INode]
  BY Fields DEF Good, Files, INode
<1>1. I \in [Inodes -> INode] /\ new \in SUBSET Fds
  BY <1>0 DEF Opens, At
<1>2. t = reply(releaseIfCounted(releaseIfCounted(With(f, I), i, "OPEN"), i, "CREAT"), p, new)
  BY DEF OpensReply
<1>i. b = With(t, f.inode) /\ I = At(f.inode, i, v)
  OBVIOUS
<1> HIDE DEF b, I, new
<1>p. OpensGone(f, e, p, i, I, t)
  BY <1>1, <1>2, OpensReleased
<1>3. t \in Tables /\ t.inode = I /\ SameFiles(f, With(t, f.inode))
  BY <1>p DEF OpensGone
<1>4. Good(With(t, f.inode), e, NIL) /\ t.at[p] = "runs"
  BY <1>p DEF OpensGone
<1>5. Hanging(With(t, f.inode), i, "OPEN") = {} /\ Hanging(With(t, f.inode), i, "CREAT") = {}
  BY <1>p DEF OpensGone
<1>6. Hanging(b, i, "OPEN") = {} /\ Hanging(b, i, "CREAT") = {}
  BY <1>i, <1>5
<1>7. SameFiles(f, b) /\ Good(b, e, NIL)
  BY <1>i, <1>3, <1>4
<1>8. b.at[p] = "runs"
  <2>1. SameProcs(t, With(t, f.inode))
    BY <1>0, <1>3, WithIs
  <2> QED BY <1>i, <1>4, <2>1 DEF SameProcs
<1>9. Apart(b, i, mode)
  <2> SUFFICES ASSUME NEW q \in Procs, b.hung[q].fs_call \in Waits,
                      Filp(b, q, b.hung[q].fd).ino = i
               PROVE  FALSE
    BY DEF Apart
  <2>1. ~ b.revived[q]
    <3>1. b.revived[q] => b.hung[q].fs_call \in {"READ", "WRITE"}
      BY <1>7 DEF Good, Suspending, Marks
    <3> QED BY <3>1, Calls
  <2>2. q \in Hanging(b, i, "OPEN") \/ q \in Hanging(b, i, "CREAT")
    BY <2>1 DEF Hanging, Waits
  <2> QED BY <1>6, <2>2
<1>10. t.inode = At(f.inode, i, v)
  BY <1>i, <1>3
<1>11. Good(g, e, NIL)
  BY <1>0, <1>i, <1>3, <1>7, <1>8, <1>9, <1>10, OpenDone
<1> QED BY <1>10, <1>11 DEF OpenEnds

(* O_NONBLOCK *)
LEMMA OpenGoesOn ==
  ASSUME NEW f, NEW e, NEW p \in Procs, Good(f, e, NIL), f.at[p] = "runs",
         NEW i, NEW d, NEW x, NEW v, Opens(f, p, i, d, x, v),
         NEW mode \in Modes, NEW nonblock \in BOOLEAN, NEW u \in BOOLEAN, Apart(f, i, mode),
         NEW k, k = With(f, At(f.inode, i, v)), NEW t, t = reply(k, p, {d}),
         NEW g, g = ClaimFd(SetPiped(t, i, u), p, d, x, mode, i, nonblock)
  PROVE  OpenEnds(f, e, i, v, t, g)
<1> DEFINE b   == With(t, f.inode)
           I   == At(f.inode, i, v)
           new == {d}
<1>0. f \in Tables /\ f.inode \in [Inodes -> INode] /\ Good(f, e, p)
  BY RunsServed, Fields DEF Good, Files, INode
<1>1. I \in [Inodes -> INode] /\ new \in SUBSET Fds
  BY <1>0 DEF Opens, At
<1>2. t = reply(k, p, new) /\ b = With(t, f.inode) /\ I = At(f.inode, i, v) /\ k = With(f, I)
  OBVIOUS
<1> HIDE DEF b, I, new
<1>3. k \in Tables /\ k.inode = I /\ With(k, f.inode) = f
  BY <1>0, <1>1, <1>2, WithIs, WithBack
<1>4. Replied(k, t, p)
  BY <1>1, <1>2, <1>3, ReplyDoes
<1>5. Replied(f, b, p)
  <2>1. Replied(With(k, f.inode), With(t, f.inode), p)
    BY <1>0, <1>3, <1>4, WithReplied
  <2> QED BY <1>2, <1>3, <2>1
<1>6. Good(b, e, NIL)
  BY <1>0, <1>5, RepliedGood
<1>7. t \in Tables /\ t.inode = I /\ SameFiles(f, b) /\ b.at[p] = "runs" /\ b.hung = f.hung
  BY <1>3, <1>4, <1>5 DEF Replied, SameFiles
<1>8. t.inode = At(f.inode, i, v)
  BY <1>2, <1>7, SMTT(30)
<1>9. Apart(b, i, mode)
  BY <1>7 DEF Apart, SameFiles, Filp
<1>10. Good(g, e, NIL)
  BY <1>0, <1>2, <1>6, <1>7, <1>8, <1>9, OpenDone
<1> QED BY <1>8, <1>10 DEF OpenEnds

OpenCall(call, d) == call \in Hung /\ call.fs_call \in Waits /\ call.fd = d

(* The other end is not open: p waits, with its descriptor claimed *)
LEMMA OpenStays ==
  ASSUME NEW f, NEW e, NEW p \in Procs, Good(f, e, NIL), f.at[p] = "runs",
         NEW i, NEW d, NEW x, NEW v, Opens(f, p, i, d, x, v),
         NEW mode \in Modes, NEW nonblock \in BOOLEAN, NEW u \in BOOLEAN,
         NoPeer(f, i, mode),
         NEW call, OpenCall(call, d),
         NEW k, k = With(f, At(f.inode, i, v)), NEW t, t = suspend(k, p, call),
         NEW g, g = ClaimFd(SetPiped(t, i, u), p, d, x, mode, i, nonblock)
  PROVE  OpenEnds(f, e, i, v, t, g)
<1> DEFINE ino == Piped(v, u)
           c == ClaimFd(SetInode(f, i, ino), p, d, x, mode, i, nonblock)
           I == At(f.inode, i, v)
<1>0. /\ f \in Tables /\ f.inode \in [Inodes -> INode] /\ Good(f, e, p)
      /\ Files(f) /\ Hooked(f)
  BY RunsServed, Fields DEF Good, Files, Suspending, INode
<1>c. call \in Hung /\ call.fs_call \in Waits /\ call.fd = d
  BY DEF OpenCall
<1>1. /\ i \in Inodes /\ d \in Fds /\ f.fd[p][d] = NIL /\ x \in Filps /\ f.filp[x].count = 0
      /\ v \in INode /\ v.num = "fifo" /\ v.count = f.inode[i].count + 1
  BY DEF Opens
<1>2. I \in [Inodes -> INode]
  BY <1>0, <1>1 DEF At
<1>3. /\ ino = Piped(v, u) /\ c = ClaimFd(SetInode(f, i, ino), p, d, x, mode, i, nonblock)
      /\ k = With(f, I) /\ I = At(f.inode, i, v) /\ t = suspend(With(f, At(f.inode, i, v)), p, call)
  OBVIOUS
<1> HIDE DEF ino, c, I
<1>4. ino \in INode /\ ino.num = "fifo" /\ ino.count = v.count
  BY <1>1, <1>3, PipeFlag
<1>5. Apart(f, i, mode)
  BY <1>0, PeerApart
<1>6. ino.count = f.inode[i].count + 1
  BY <1>1, <1>4
<1>7. Good(c, e, p)
  BY <1>0, <1>1, <1>3, <1>4, <1>5, <1>6, FifoClaimed
<1>8. Claimed(f, c, p, d, x, i) /\ c.filp[x].mode = mode
  BY <1>0, <1>1, <1>3, <1>4, <1>5, <1>6, FifoClaimed
<1>9. g = suspend(c, p, call)
  <2>1. ClaimFd(SetPiped(t, i, u), p, d, x, mode, i, nonblock)
          = suspend(ClaimFd(SetInode(f, i, ino), p, d, x, mode, i, nonblock), p, call)
    BY <1>0, <1>1, <1>3, OpenSleeps
  <2> QED BY <1>3, <2>1
<1>10. c \in Tables /\ c.at[p] = "runs"
  BY <1>8 DEF Claimed, SameProcs
<1>11. Asleep(c, g, p, call)
  BY <1>c, <1>9, <1>10, SuspendDoes
<1>12. c.fd[p][call.fd] = x /\ i = c.filp[x].ino
  BY <1>c, <1>0, <1>1, <1>8, Fields DEF Claimed
<1>13. \A y \in Uses(c, i) : {c.filp[x].mode, c.filp[y].mode} # {{"R"}, {"W"}}
  <2> SUFFICES ASSUME NEW y \in Uses(c, i)
               PROVE  {c.filp[x].mode, c.filp[y].mode} # {{"R"}, {"W"}}
    OBVIOUS
  <2>1. CASE y = x
    <3> DEFINE m == c.filp[x].mode
               R == {"R"}
               W == {"W"}
    <3>1. R # W
      OBVIOUS
    <3> HIDE DEF m, R, W
    <3>2. {m, m} # {R, W}
      <4> SUFFICES ASSUME {m, m} = {R, W} PROVE FALSE
        OBVIOUS
      <4>1. R \in {m, m} /\ W \in {m, m}
        OBVIOUS
      <4> QED BY <3>1, <4>1
    <3> QED BY <2>1, <3>2 DEF m, R, W
  <2>2. CASE y # x
    <3>1. y \in Filps /\ c.filp[y] = f.filp[y] /\ f.filp[y].ino = i
      BY <1>8, <2>2 DEF Claimed, Uses
    <3>2. {f.filp[y].mode, mode} # {{"R"}, {"W"}}
      BY <3>1 DEF NoPeer
    <3> QED BY <1>8, <3>1, <3>2
  <2> QED BY <2>1, <2>2
<1>14. Good(g, e, NIL)
  BY <1>c, <1>1, <1>7, <1>10, <1>11, <1>12, <1>13, OpenAsleep
<1>15. t.inode = At(f.inode, i, v)
  <2>1. k \in Tables /\ k.inode = I
    BY <1>0, <1>2, <1>3, WithIs
  <2>2. Asleep(k, t, p, call)
    BY <1>c, <2>1, SuspendDoes
  <2> QED BY <1>3, <2>1, <2>2 DEF Asleep, SameFiles
<1> QED BY <1>14, <1>15 DEF OpenEnds

Fifo(f, i) == [f.inode[i] EXCEPT !.num = "fifo", !.count = @ + 1]

LEMMA FifoIs ==
  ASSUME NEW f \in Tables, NEW i \in Inodes
  PROVE  /\ Fifo(f, i) \in INode /\ Fifo(f, i).num = "fifo"
         /\ Fifo(f, i).count = f.inode[i].count + 1 /\ Fifo(f, i).i_pipe = f.inode[i].i_pipe
         /\ [f EXCEPT !.inode[i].num = "fifo", !.inode[i].count = @ + 1] = With(f, At(f.inode, i, Fifo(f, i)))
<1> DEFINE v == Fifo(f, i)
<1>1. f.inode[i] \in INode /\ f.inode \in [Inodes -> INode]
  BY Fields DEF INode
<1>2. v \in INode /\ v.num = "fifo" /\ v.count = f.inode[i].count + 1 /\ v.i_pipe = f.inode[i].i_pipe
  <2> DEFINE w == v
             a == f.inode[i]
  <2> DEFINE b == [a EXCEPT !.num = "fifo"]
  <2>1. a \in INode /\ w = [b EXCEPT !.count = @ + 1]
    BY <1>1 DEF Fifo
  <2> HIDE DEF w, a
  <2>2. b \in INode /\ b.num = "fifo" /\ b.count = a.count /\ b.i_pipe = a.i_pipe
    BY <2>1 DEF INode
  <2> HIDE DEF b
  <2>3. w \in INode /\ w.num = b.num /\ w.count = b.count + 1 /\ w.i_pipe = b.i_pipe
    BY <2>1, <2>2 DEF INode
  <2>4. w \in INode /\ w.num = "fifo" /\ w.count = a.count + 1 /\ w.i_pipe = a.i_pipe
    BY <2>2, <2>3
  <2> QED BY <2>4 DEF w, a
<1> DEFINE I == [f.inode EXCEPT ![i].num = "fifo"]
           J == [I EXCEPT ![i].count = @ + 1]
<1>3. J = [f.inode EXCEPT ![i] = v]
  <2>1. I[i] = [f.inode[i] EXCEPT !.num = "fifo"]
    BY <1>1
  <2>2. [I[i] EXCEPT !.count = @ + 1] = v
    BY <1>1, <2>1 DEF INode, Fifo
  <2>3. J = [I EXCEPT ![i] = v]
    BY <2>2
  <2>4. [I EXCEPT ![i] = v] = [f.inode EXCEPT ![i] = v]
    <3> HIDE DEF INode
    <3> QED BY <1>1, <1>2
  <2> QED BY <2>3, <2>4
<1>4. [f EXCEPT !.inode[i].num = "fifo", !.inode[i].count = @ + 1] = [f EXCEPT !.inode = J]
  BY DEF Tables
<1> HIDE DEF J
<1>5. [f EXCEPT !.inode = J] = With(f, At(f.inode, i, v))
  BY <1>3 DEF With, At
<1> QED BY <1>2, <1>4, <1>5

LEMMA OpenGood ==
  ASSUME NEW f, NEW e, NEW p \in Procs, Good(f, e, NIL), f.at[p] = "runs",
         NEW c \in [fs_call : Waits, mode : Modes, nonblock : BOOLEAN]
  PROVE  Good(do_open(f, p, c), e, NIL)
<1> DEFINE in   == {j \in Inodes : f.inode[j].num = "fifo"}
           i    == IF in = {} THEN Max(FreeInodes(f)) ELSE Min(in)
           d    == Min(FreeFds(f, p))
           x    == Min(FreeFilps(f))
           g0   == [f EXCEPT !.inode[i].num = "fifo", !.inode[i].count = @ + 1]
           peer == find_filp(f, i, IF "W" \in c.mode THEN "R" ELSE "W")
           call == [fs_call |-> c.fs_call, fd |-> d, n |-> 0]
           h    == IF peer # NIL
                   THEN reply(releaseIfCounted(releaseIfCounted(g0, i, "OPEN"), i, "CREAT"), p, {d})
                   ELSE IF c.nonblock THEN reply(g0, p, {d})
                   ELSE suspend(g0, p, call)
           fails == \/ ~ get_fd(f, p) \/ (in = {} /\ FreeInodes(f) = {})
                    \/ (peer = NIL /\ c.nonblock /\ "W" \in c.mode)
           G    == ClaimFd([h EXCEPT !.inode[i].i_pipe = @ \/ peer # NIL \/ ~ c.nonblock],
                           p, d, x, c.mode, i, c.nonblock)
           u    == f.inode[i].i_pipe \/ peer # NIL \/ ~ c.nonblock
           v    == Fifo(f, i)
           mode == c.mode
           nonblock == c.nonblock
<1>0. f \in Tables /\ Files(f) /\ Hooked(f) /\ Good(f, e, p)
  BY RunsServed DEF Good, Files, Suspending
<1>1. do_open(f, p, c) = IF fails THEN reply(f, p, {}) ELSE G
  BY DEF do_open
<1>2. CASE fails
  <2>1. do_open(f, p, c) = reply(f, p, {})
    BY <1>1, <1>2, Zenon
  <2>2. {} \in SUBSET Fds
    OBVIOUS
  <2> QED BY <1>0, <2>1, <2>2, ReplyGood, SMTT(30)
<1>3. CASE ~ fails
  <2>0. get_fd(f, p) /\ (in # {} \/ FreeInodes(f) # {})
        /\ ~ (peer = NIL /\ nonblock /\ "W" \in mode)
    BY <1>3, SMTT(30)
  <2>1. do_open(f, p, c) = G
    BY <1>1, <1>3, Zenon
  <2>2. /\ G = ClaimFd([h EXCEPT !.inode[i].i_pipe = @ \/ peer # NIL \/ ~ nonblock],
                       p, d, x, mode, i, nonblock)
        /\ u = (f.inode[i].i_pipe \/ peer # NIL \/ ~ nonblock)
        /\ call = [fs_call |-> c.fs_call, fd |-> d, n |-> 0]
        /\ peer = find_filp(f, i, IF "W" \in mode THEN "R" ELSE "W")
    OBVIOUS
  <2>3. h = IF peer # NIL
            THEN reply(releaseIfCounted(releaseIfCounted(g0, i, "OPEN"), i, "CREAT"), p, {d})
            ELSE IF nonblock THEN reply(g0, p, {d}) ELSE suspend(g0, p, call)
    OBVIOUS
  <2>4. mode \in Modes /\ nonblock \in BOOLEAN /\ c.fs_call \in Waits
    OBVIOUS
  <2> DEFINE k == g0
  <2>5. /\ in = {j \in Inodes : f.inode[j].num = "fifo"}
        /\ i = IF in = {} THEN Max(FreeInodes(f)) ELSE Min(in)
        /\ d = Min(FreeFds(f, p)) /\ x = Min(FreeFilps(f))
    OBVIOUS
  <2>v. v = Fifo(f, i)
    OBVIOUS
  <2>6. k = [f EXCEPT !.inode[i].num = "fifo", !.inode[i].count = @ + 1]
    OBVIOUS
  <2>7. /\ k = g0
    OBVIOUS
  <2> HIDE DEF fails, in, i, d, x, g0, peer, call, h, G, u, v, mode, nonblock
  <2> HIDE DEF k
  <2>8. i \in Inodes
    BY <1>0, <2>0, <2>5, OpenSlots
  <2>9. d \in Fds /\ f.fd[p][d] = NIL /\ x \in Filps /\ f.filp[x].count = 0
    <3>1. FreeFds(f, p) # {} /\ FreeFilps(f) # {}
      BY <2>0 DEF get_fd
    <3> QED BY <1>0, <2>5, <3>1, FreeSlots
  <2>10. /\ v \in INode /\ v.num = "fifo" /\ v.count = f.inode[i].count + 1
         /\ v.i_pipe = f.inode[i].i_pipe
    BY <1>0, <2>v, <2>8, FifoIs
  <2>k. k = With(f, At(f.inode, i, v))
    <3>1. [f EXCEPT !.inode[i].num = "fifo", !.inode[i].count = @ + 1] = With(f, At(f.inode, i, Fifo(f, i)))
      BY <1>0, <2>8, FifoIs
    <3> QED BY <2>6, <2>v, <3>1
  <2>11. Opens(f, p, i, d, x, v)
    BY <2>8, <2>9, <2>10 DEF Opens
  <2>12. u \in BOOLEAN
    BY <2>2
  <2> DEFINE s == ClaimFd(SetPiped(h, i, u), p, d, x, mode, i, nonblock)
  <2>13. s = ClaimFd(SetPiped(h, i, u), p, d, x, mode, i, nonblock)
    OBVIOUS
  <2> HIDE DEF s
  <2>14. OpenEnds(f, e, i, v, h, s)
    <3>1. CASE peer # NIL
      <4>1. h = OpensReply(k, p, i, d)
        BY <2>3, <2>7, <3>1 DEF OpensReply
      <4>2. k = With(f, At(f.inode, i, v))
        BY <2>k
      <4> QED BY <2>4, <2>11, <2>12, <2>13, <4>1, <4>2, OpenMeets
    <3>2. CASE peer = NIL
      <4>1. NoPeer(f, i, mode)
        BY <1>0, <2>2, <2>4, <3>2, PeerIs
      <4>2. k = With(f, At(f.inode, i, v))
        BY <2>k
      <4>3. CASE nonblock
        <5>1. h = reply(k, p, {d})
          BY <2>3, <2>7, <3>2, <4>3
        <5>2. Apart(f, i, mode)
          BY <1>0, <4>1, PeerApart
        <5> QED BY <2>4, <2>11, <2>12, <2>13, <4>2, <5>1, <5>2, OpenGoesOn, ZenonT(60)
      <4>4. CASE ~ nonblock
        <5>1. h = suspend(k, p, call)
          BY <2>3, <2>7, <3>2, <4>4
        <5>2. OpenCall(call, d)
          BY <2>2, <2>4, <2>9 DEF Hung, Waits, OpenCall
        <5> QED BY <2>4, <2>11, <2>12, <2>13, <4>1, <4>2, <5>1, <5>2, OpenStays
      <4> QED BY <4>3, <4>4
    <3> QED BY <3>1, <3>2
  <2>15. G = s
    <3>1. h.inode[i].i_pipe = f.inode[i].i_pipe
      <4>1. f.inode \in [Inodes -> INode]
        BY <1>0, Fields DEF INode
      <4> QED BY <2>8, <2>10, <2>14, <4>1 DEF At, OpenEnds
    <3>2. (h.inode[i].i_pipe \/ peer # NIL \/ ~ nonblock) = u
      BY <2>2, <3>1
    <3>3. [h EXCEPT !.inode[i].i_pipe = @ \/ peer # NIL \/ ~ nonblock] = SetPiped(h, i, u)
      BY <3>2 DEF SetPiped
    <3> QED BY <2>2, <2>13, <3>3
  <2> QED BY <2>1, <2>14, <2>15 DEF OpenEnds
<1> QED BY <1>2, <1>3

(* Nobody hangs on inode i, and it is open for reading if mode is to write *)
Fresh(f, i, mode) ==
  /\ \A q \in Procs : Suspended(f, q) => Filp(f, q, f.hung[q].fd).ino # i
  /\ \A y, z \in Uses(f, i) : y = z /\ f.filp[y].mode = {"R"} /\ f.filp[y].pos = 0 /\ mode = {"W"}

EmptyPipe(ino) == ino \in INode /\ ino.num = "pipe" /\ ino.i_pipe = TRUE /\ ino.data = <<>>

LEMMA FreshQuiet ==
  ASSUME NEW f \in Tables, NEW i, NEW mode, Fresh(f, i, mode)
  PROVE  /\ \A c : c \in {"READ", "WRITE"} \cup Waits => Hanging(f, i, c) = {}
         /\ Apart(f, i, mode)
<1>1. \A q \in Procs : f.hung[q].fs_call \in {"READ", "WRITE"} \cup Waits => Suspended(f, q)
  BY Calls, Fields DEF Suspended
<1>2. \A c : c \in {"READ", "WRITE"} \cup Waits => Hanging(f, i, c) = {}
  BY <1>1 DEF Hanging, Fresh
<1>3. Apart(f, i, mode)
  <2>1. \A q \in Procs : f.hung[q].fs_call \in Waits => Filp(f, q, f.hung[q].fd).ino # i
    BY <1>1 DEF Fresh
  <2> QED BY <2>1 DEF Apart
<1> QED BY <1>2, <1>3

(* What pipe() does for one end *)
PipeEnd(f, g, e, p, d, x, i, mode, ino) ==
  /\ Good(g, e, p) /\ Claimed(f, g, p, d, x, i) /\ g.inode[i] = ino
  /\ g.filp[x].mode = mode /\ g.filp[x].pos = 0
  /\ \A q \in Procs : Suspended(g, q) => Filp(g, q, g.hung[q].fd).ino # i
  /\ Uses(g, i) = Uses(f, i) \cup {x}

LEMMA PipeEndClaimed ==
  ASSUME NEW f, NEW e, NEW p \in Procs, Good(f, e, p), f.at[p] = "runs",
         NEW d \in Fds, f.fd[p][d] = NIL, NEW x \in Filps, f.filp[x].count = 0,
         NEW i \in Inodes, NEW mode, mode \in {{"R"}, {"W"}}, Fresh(f, i, mode),
         NEW ino, EmptyPipe(ino), ino.count = f.inode[i].count + 1,
         NEW no \in BOOLEAN, NEW g, g = ClaimFd(SetInode(f, i, ino), p, d, x, mode, i, no)
  PROVE  PipeEnd(f, g, e, p, d, x, i, mode, ino)
<1>0. /\ f \in Tables /\ Files(f) /\ Hooked(f)
      /\ ino \in INode /\ ino.num = "pipe" /\ ino.i_pipe = TRUE /\ ino.data = <<>>
      /\ ino.num # "none" /\ mode \in Modes
  BY DEF Good, Files, Suspending, EmptyPipe, Modes
<1>1. Claimed(f, g, p, d, x, i) /\ g.inode[i] = ino
  BY <1>0, ClaimDoes
<1>2. g.filp[x].mode = mode /\ g.filp[x].pos = 0
  BY <1>0, ClaimDoes
<1>3. f.filp[x].ino = NIL
  <2>1. f.filp[x] = FreeFilp
    BY <1>0 DEF Files, Slots
  <2> QED BY <2>1, FreeIs
<1>4. \A y \in Filps : y # x => g.filp[y] = f.filp[y]
  BY <1>1 DEF Claimed
<1>5. Uses(g, i) = Uses(f, i) \cup {x}
  <2>1. \A y \in Filps : y # x => (y \in Uses(g, i) <=> y \in Uses(f, i))
    BY <1>4 DEF Uses
  <2>2. x \in Uses(g, i) /\ Uses(g, i) \subseteq Filps /\ Uses(f, i) \subseteq Filps
    BY <1>1 DEF Uses, Claimed
  <2> HIDE DEF Uses
  <2> QED BY <2>1, <2>2
<1>6. PipeEnds(g, i)
  <2>1. i_size(g, i) = 0
    BY <1>0, <1>1 DEF i_size
  <2>2. \A y \in Uses(f, i) : /\ g.filp[y] = f.filp[y] /\ f.filp[y].mode = {"R"} /\ f.filp[y].pos = 0
                              /\ mode = {"W"}
    <3>1. \A y \in Uses(f, i) : y \in Filps /\ y # x
      BY <1>3, Ranges DEF Uses
    <3> QED BY <1>4, <3>1 DEF Fresh
  <2>3. \A y \in Uses(g, i) :
          \/ g.filp[y].mode = {"R"} /\ (g.filp[y].pos < i_size(g, i) \/
                                        (g.filp[y].pos = 0 /\ i_size(g, i) = 0))
          \/ g.filp[y].mode = {"W"} /\ g.filp[y].pos = i_size(g, i)
    BY <1>2, <1>5, <2>1, <2>2
  <2>4. \A y, z \in Uses(g, i) : g.filp[y].mode = g.filp[z].mode => y = z
    <3> SUFFICES ASSUME NEW y \in Uses(g, i), NEW z \in Uses(g, i), y # z
                 PROVE  g.filp[y].mode # g.filp[z].mode
      OBVIOUS
    <3> DEFINE R == {"R"}
               W == {"W"}
    <3>1. R # W
      OBVIOUS
    <3>2. \A b \in Uses(f, i) : g.filp[b].mode = R /\ mode = W
      BY <2>2
    <3> HIDE DEF R, W
    <3>3. CASE y = x
      BY <1>2, <1>5, <3>1, <3>2, <3>3
    <3>4. CASE z = x
      BY <1>2, <1>5, <3>1, <3>2, <3>4
    <3>5. CASE y # x /\ z # x
      BY <1>5, <3>5 DEF Fresh
    <3> QED BY <3>3, <3>4, <3>5
  <2> QED BY <1>0, <1>1, <2>3, <2>4 DEF PipeEnds
<1>7. Good(g, e, p)
  <2>1. \A c : c \in {"READ", "WRITE"} \cup Waits => Hanging(f, i, c) = {}
    BY <1>0, FreshQuiet
  <2>2. Hanging(f, i, "READ") = {}
    BY <2>1
  <2>3. Hanging(f, i, "WRITE") = {}
    <3>1. "WRITE" \in {"READ", "WRITE"} \cup Waits
      OBVIOUS
    <3> QED BY <2>1, <3>1
  <2>4. g.inode[i].num = "pipe" =>
          PipeEnds(g, i) /\ Hanging(f, i, "READ") = {} /\ Hanging(f, i, "WRITE") = {}
    BY <1>6, <2>2, <2>3
  <2>5. Apart(f, i, g.filp[x].mode)
    BY <1>0, <1>2, FreshQuiet
  <2>6. f.at[p] = "free" => p = e
    OBVIOUS
  <2>7. Claimed(f, g, p, d, x, i)
    BY <1>1, SMTT(30)
  <2> QED BY <2>4, <2>5, <2>6, <2>7, ClaimedGood
<1>8. \A q \in Procs : Suspended(g, q) => Filp(g, q, g.hung[q].fd).ino # i
  <2> SUFFICES ASSUME NEW q \in Procs, Suspended(g, q) PROVE Filp(g, q, g.hung[q].fd).ino # i
    OBVIOUS
  <2>1. g.hung[q] = f.hung[q] /\ Suspended(f, q)
    BY <1>1, SMTT(30) DEF Claimed, SameProcs, Suspended
  <2>2. /\ f.hung[q].fd \in Fds /\ f.fd[q][f.hung[q].fd] \in Filps
        /\ f.filp[f.fd[q][f.hung[q].fd]].count # 0
    BY <1>0, <2>1, HungFile, Zenon
  <2>3. g.fd[q][f.hung[q].fd] = f.fd[q][f.hung[q].fd]
    <3>1. f.fd[q][f.hung[q].fd] # NIL
      BY <2>2, Ranges
    <3>2. g.fd = [f.fd EXCEPT ![p] = [@ EXCEPT ![d] = x]]
      BY <1>1 DEF Claimed
    <3>3. <<q, f.hung[q].fd>> # <<p, d>>
      BY <3>1, SMTT(30)
    <3> QED BY <1>0, <2>2, <3>2, <3>3, Fields
  <2>4. g.filp[f.fd[q][f.hung[q].fd]] = f.filp[f.fd[q][f.hung[q].fd]]
    BY <1>4, <2>2
  <2>5. Filp(f, q, f.hung[q].fd).ino # i
    BY <2>1 DEF Fresh
  <2> QED BY <2>1, <2>3, <2>4, <2>5 DEF Filp
<1> QED BY <1>1, <1>2, <1>5, <1>7, <1>8 DEF PipeEnd

LEMMA EmptyIs ==
  ASSUME NEW n \in Nat, NEW ino,
         ino = [num |-> "pipe", count |-> n, i_pipe |-> TRUE, data |-> <<>>]
  PROVE  EmptyPipe(ino) /\ ino.count = n
<1>1. <<>> \in [1 .. 0 -> Procs \cup {0}] /\ Len(<<>>) = 0 /\ 0 \in 0 .. PIPE_SIZE
  BY FsAssumption
<1>2. <<>> \in BoundedSeq(Procs \cup {0}, PIPE_SIZE)
  BY <1>1, DataIs
<1> QED BY <1>2 DEF EmptyPipe, INode

LEMMA PipeTables ==
  ASSUME NEW f \in Tables, NEW p \in Procs, NEW d0, NEW x0, NEW d1, NEW x1, NEW i \in Inodes,
         NEW u, NEW v, NEW R, NEW W, NEW no
  PROVE  SetInode(ClaimFd(ClaimFd(f, p, d0, x0, R, i, no), p, d1, x1, W, i, no), i, v)
         = ClaimFd(SetInode(ClaimFd(SetInode(f, i, u), p, d0, x0, R, i, no), i, v),
                   p, d1, x1, W, i, no)
<1> DEFINE w(mode) == [mode |-> mode, count |-> 1, pos |-> 0, ino |-> i, nonblock |-> no]
           fd   == [[f.fd EXCEPT ![p][d0] = x0] EXCEPT ![p][d1] = x1]
           filp == [[f.filp EXCEPT ![x0] = w(R)] EXCEPT ![x1] = w(W)]
           I    == [f.inode EXCEPT ![i] = v]
           J    == [[f.inode EXCEPT ![i] = u] EXCEPT ![i] = v]
           t(K) == [f EXCEPT !.fd = fd, !.filp = filp, !.inode = K]
<1>1. I = J
  BY Fields
<1>2. SetInode(ClaimFd(ClaimFd(f, p, d0, x0, R, i, no), p, d1, x1, W, i, no), i, v) = t(I)
  <2> HIDE DEF w
  <2> QED BY DEF ClaimFd, SetInode, Tables, w
<1>3. ClaimFd(SetInode(ClaimFd(SetInode(f, i, u), p, d0, x0, R, i, no), i, v),
              p, d1, x1, W, i, no) = t(J)
  BY ZenonT(60) DEF ClaimFd, SetInode, Tables
<1> HIDE DEF I, J, t
<1> QED BY <1>1, <1>2, <1>3

(* The slots that pipe() takes *)
LEMMA PipeSlots ==
  ASSUME NEW f \in Tables, NEW p \in Procs,
         ~ (Cardinality(FreeFds(f, p)) < 2), ~ (Cardinality(FreeFilps(f)) < 2),
         FreeInodes(f) # {},
         NEW d0, d0 = Min(FreeFds(f, p)), NEW d1, d1 = Min(FreeFds(f, p) \ {d0}),
         NEW x0, x0 = Min(FreeFilps(f)), NEW x1, x1 = Min(FreeFilps(f) \ {x0}),
         NEW i, i = Max(FreeInodes(f))
  PROVE  /\ i \in Inodes /\ f.inode[i].count = 0
         /\ d0 \in Fds /\ f.fd[p][d0] = NIL /\ d1 \in Fds /\ f.fd[p][d1] = NIL /\ d1 # d0
         /\ x0 \in Filps /\ f.filp[x0].count = 0 /\ x1 \in Filps /\ f.filp[x1].count = 0
         /\ x1 # x0
<1>1. i \in Inodes /\ f.inode[i].count = 0
  <2>1. FreeInodes(f) \in SUBSET Inodes
    BY DEF FreeInodes
  <2> DEFINE S == FreeInodes(f)
  <2>2. S \in SUBSET Inodes /\ S # {} /\ i = Max(S)
    BY <2>1
  <2> HIDE DEF S
  <2>m. IsFiniteSet(S) /\ S \in SUBSET Int /\ Max(S) \in S
    <3>1. IsFiniteSet(S)
      BY <2>2, Ranges, FS_Subset
    <3>2. \A y \in S : y \in Nat
      BY <2>2, Ranges
    <3>3. S \in SUBSET Int
      BY <3>2
    <3> QED BY <2>2, <3>1, <3>3, MaxIn
  <2>3. i \in FreeInodes(f)
    BY <2>2, <2>m DEF S
  <2> QED BY <2>3 DEF FreeInodes
<1>2. \A S, y : IsFiniteSet(S) /\ ~ (Cardinality(S) < 2) => S # {} /\ S \ {y} # {}
  <2> SUFFICES ASSUME NEW S, NEW y, IsFiniteSet(S), ~ (Cardinality(S) < 2)
               PROVE  S # {} /\ S \ {y} # {}
    OBVIOUS
  <2>1. Cardinality({}) = 0 /\ Cardinality({y}) = 1
    BY FS_EmptySet, FS_Singleton
  <2> DEFINE one == {y}
  <2> HIDE DEF one
  <2>2. S # {} /\ S # one
    <3>1. Cardinality(one) = 1
      BY <2>1 DEF one
    <3>2. Cardinality(S) # 0 /\ Cardinality(S) # 1
      OBVIOUS
    <3> QED BY <2>1, <3>1, <3>2, Zenon
  <2> QED BY <2>2 DEF one
<1>3. FreeFds(f, p) \in SUBSET Fds /\ FreeFilps(f) \in SUBSET Filps
  BY DEF FreeFds, FreeFilps
<1>4. IsFiniteSet(FreeFds(f, p)) /\ IsFiniteSet(FreeFilps(f))
  BY <1>3, Ranges, FS_Subset
<1>5. FreeFds(f, p) # {} /\ FreeFilps(f) # {}
  BY <1>2, <1>4
<1>6. d0 \in Fds /\ f.fd[p][d0] = NIL /\ x0 \in Filps /\ f.filp[x0].count = 0
  BY <1>5, FreeSlots
<1>7. FreeFds(f, p) \ {d0} # {} /\ FreeFilps(f) \ {x0} # {}
  BY <1>2, <1>4
<1>8. d1 \in Fds /\ f.fd[p][d1] = NIL /\ d1 \in FreeFds(f, p) \ {d0}
  <2> DEFINE S == FreeFds(f, p) \ {d0}
  <2>1. S \in SUBSET FreeFds(f, p) /\ S # {} /\ d1 = Min(S)
    BY <1>7
  <2> HIDE DEF S
  <2>2. Min(S) \in Fds /\ f.fd[p][Min(S)] = NIL /\ Min(S) \in S
    BY <2>1, FreeSlots
  <2> QED BY <2>1, <2>2 DEF S
<1>9. x1 \in Filps /\ f.filp[x1].count = 0 /\ x1 \in FreeFilps(f) \ {x0}
  <2> DEFINE S == FreeFilps(f) \ {x0}
  <2>1. S \in SUBSET FreeFilps(f) /\ S # {} /\ x1 = Min(S)
    BY <1>7
  <2> HIDE DEF S
  <2>2. Min(S) \in Filps /\ f.filp[Min(S)].count = 0 /\ Min(S) \in S
    BY <2>1, FreeSlots
  <2> QED BY <2>1, <2>2 DEF S
<1>10. d1 # d0 /\ x1 # x0
  BY <1>8, <1>9
<1> QED BY <1>1, <1>6, <1>8, <1>9, <1>10

LEMMA PipeGood ==
  ASSUME NEW f, NEW e, NEW p \in Procs, Good(f, e, NIL), f.at[p] = "runs"
  PROVE  Good(do_pipe(f, p), e, NIL)
<1> DEFINE d0 == Min(FreeFds(f, p))
           x0 == Min(FreeFilps(f))
           d1 == Min(FreeFds(f, p) \ {d0})
           x1 == Min(FreeFilps(f) \ {x0})
           i  == Max(FreeInodes(f))
           v  == [num |-> "pipe", count |-> 2, i_pipe |-> TRUE, data |-> <<>>]
           u  == [num |-> "pipe", count |-> 1, i_pipe |-> TRUE, data |-> <<>>]
           fails == \/ Cardinality(FreeFds(f, p)) < 2 \/ Cardinality(FreeFilps(f)) < 2
                    \/ FreeInodes(f) = {}
           G  == [ClaimFd(ClaimFd(f, p, d0, x0, {"R"}, i, FALSE), p, d1, x1, {"W"}, i, FALSE)
                    EXCEPT !.inode[i] = v]
           R  == {"R"}
           W  == {"W"}
           no == FALSE
           f1 == ClaimFd(SetInode(f, i, u), p, d0, x0, R, i, no)
           f2 == ClaimFd(SetInode(f1, i, v), p, d1, x1, W, i, no)
<1>0. f \in Tables /\ Files(f) /\ Hooked(f) /\ Good(f, e, p) /\ InodeCounts(f)
  BY RunsServed DEF Good, Files, Suspending
<1>1. do_pipe(f, p) = IF fails THEN f ELSE reply(G, p, {d0, d1})
  BY DEF do_pipe
<1>2. CASE fails
  BY <1>1, <1>2
<1>3. CASE ~ fails
  <2>0. ~ (Cardinality(FreeFds(f, p)) < 2) /\ ~ (Cardinality(FreeFilps(f)) < 2) /\ FreeInodes(f) # {}
    BY <1>3
  <2>1. do_pipe(f, p) = reply(G, p, {d0, d1})
    BY <1>1, <1>3
  <2> HIDE DEF fails
  <2>s. /\ d0 = Min(FreeFds(f, p)) /\ d1 = Min(FreeFds(f, p) \ {d0})
        /\ x0 = Min(FreeFilps(f)) /\ x1 = Min(FreeFilps(f) \ {x0}) /\ i = Max(FreeInodes(f))
    OBVIOUS
  <2> HIDE DEF d0, x0, d1, x1, i
  <2>2. /\ i \in Inodes /\ f.inode[i].count = 0
        /\ d0 \in Fds /\ f.fd[p][d0] = NIL /\ d1 \in Fds /\ f.fd[p][d1] = NIL /\ d1 # d0
        /\ x0 \in Filps /\ f.filp[x0].count = 0 /\ x1 \in Filps /\ f.filp[x1].count = 0
        /\ x1 # x0
    BY <1>0, <2>0, <2>s, PipeSlots
  <2>12. EmptyPipe(u) /\ u.count = 1 /\ EmptyPipe(v) /\ v.count = 2
    BY EmptyIs
  <2>14. f1 = ClaimFd(SetInode(f, i, u), p, d0, x0, R, i, no) /\ no \in BOOLEAN
         /\ f2 = ClaimFd(SetInode(f1, i, v), p, d1, x1, W, i, no)
         /\ R \in {{"R"}, {"W"}} /\ W \in {{"R"}, {"W"}} /\ R = {"R"} /\ W = {"W"}
    OBVIOUS
  <2>g. G = SetInode(ClaimFd(ClaimFd(f, p, d0, x0, R, i, no), p, d1, x1, W, i, no), i, v)
    BY DEF SetInode
  <2> HIDE DEF u, v, R, W, no, f1, f2, G
  <2>13. G = f2
    <3>1. SetInode(ClaimFd(ClaimFd(f, p, d0, x0, R, i, no), p, d1, x1, W, i, no), i, v)
            = ClaimFd(SetInode(ClaimFd(SetInode(f, i, u), p, d0, x0, R, i, no), i, v),
                      p, d1, x1, W, i, no)
      BY <1>0, <2>2, PipeTables
    <3> QED BY <2>g, <2>14, <3>1
  <2>15. Uses(f, i) = {}
    <3> SUFFICES ASSUME NEW y \in Uses(f, i) PROVE FALSE
      OBVIOUS
    <3>1. y \in Filps /\ f.filp[y].ino = i
      BY DEF Uses
    <3> QED BY <1>0, <2>2, <3>1, UsedCounted
  <2>16. Fresh(f, i, R)
    <3>1. \A q \in Procs : Suspended(f, q) => Filp(f, q, f.hung[q].fd).ino # i
      <4> SUFFICES ASSUME NEW q \in Procs, Suspended(f, q) PROVE Filp(f, q, f.hung[q].fd).ino # i
        BY SMTT(30)
      <4>1. f.inode[f.filp[f.fd[q][f.hung[q].fd]].ino].count # 0
        BY <1>0, HungFile, Zenon
      <4> QED BY <2>2, <4>1, Zenon DEF Filp
    <3> QED BY <2>15, <3>1, SMTT(30) DEF Fresh
  <2>17. PipeEnd(f, f1, e, p, d0, x0, i, R, u)
    <3>1. u.count = f.inode[i].count + 1 /\ EmptyPipe(u)
      BY <2>2, <2>12
    <3> QED BY <1>0, <2>2, <2>14, <2>16, <3>1, PipeEndClaimed
  <2>18. Good(f1, e, p) /\ Claimed(f, f1, p, d0, x0, i) /\ f1.inode[i] = u
         /\ f1.filp[x0].mode = R /\ f1.filp[x0].pos = 0 /\ Uses(f1, i) = {x0}
         /\ \A q \in Procs : Suspended(f1, q) => Filp(f1, q, f1.hung[q].fd).ino # i
    BY <2>15, <2>17 DEF PipeEnd
  <2>19. Fresh(f1, i, W)
    BY <2>14, <2>18 DEF Fresh
  <2>20. f1.at[p] = "runs" /\ f1.fd[p][d1] = NIL /\ f1.filp[x1].count = 0
    <3>1. f1.at[p] = "runs"
      BY <2>18 DEF Claimed, SameProcs
    <3>2. f1.fd = [f.fd EXCEPT ![p] = [@ EXCEPT ![d0] = x0]]
      BY <2>18 DEF Claimed
    <3>3. f1.filp[x1] = f.filp[x1]
      BY <2>2, <2>18 DEF Claimed
    <3> QED BY <1>0, <2>2, <3>1, <3>2, <3>3, Fields
  <2>21. PipeEnd(f1, f2, e, p, d1, x1, i, W, v)
    <3>1. v.count = f1.inode[i].count + 1 /\ EmptyPipe(v)
      BY <2>12, <2>18
    <3>2. d1 \in Fds /\ x1 \in Filps /\ Good(f1, e, p)
      BY <2>2, <2>18
    <3> QED BY <2>2, <2>14, <2>19, <2>20, <3>1, <3>2, PipeEndClaimed
  <2>22. Good(G, e, p)
    BY <2>13, <2>21 DEF PipeEnd
  <2>23. {d0, d1} \in SUBSET Fds
    BY <2>2
  <2> QED BY <2>1, <2>22, <2>23, ReplyGood
<1> QED BY <1>2, <1>3

-----------------------------------------------------------------------------
(* The invariant *)

LEMMA InitGood == Init => IInv
<1> SUFFICES ASSUME Init PROVE IInv
  OBVIOUS
<1>1. /\ fs.at = [p \in Procs |-> IF p = 1 THEN "runs" ELSE "free"]
      /\ fs.knows = [p \in Procs |-> {}]
      /\ fs.hung = [p \in Procs |-> NoCall] /\ fs.revived = [p \in Procs |-> FALSE]
      /\ fs.fd = [p \in Procs |-> [d \in Fds |-> NIL]] /\ fs.filp = [x \in Filps |-> FreeFilp]
      /\ fs.inode = [i \in Inodes |-> FreeInode] /\ fs.susp_count = 0 /\ fs.reviving = 0
  BY DEF Init
<1>2. exiting = NIL /\ may \in Mixes
  BY DEF Init
<1>3. FreeFilp \in [mode : Modes \cup {{}}, count : Nat, pos : Nat, ino : Inodes \cup {NIL},
                    nonblock : BOOLEAN]
  BY DEF FreeFilp
<1>4. FreeInode \in [num : {"none", "pipe", "fifo"}, count : Nat, i_pipe : BOOLEAN,
                     data : BoundedSeq(Procs \cup {0}, PIPE_SIZE)]
  <2>1. <<>> \in [1 .. 0 -> Procs \cup {0}] /\ Len(<<>>) = 0 /\ 0 \in 0 .. PIPE_SIZE
    BY FsAssumption
  <2>2. <<>> \in BoundedSeq(Procs \cup {0}, PIPE_SIZE)
    BY <2>1, DataIs
  <2> QED BY <2>2 DEF FreeInode
<1>5. fs \in Tables
  <2> DEFINE at      == [p \in Procs |-> IF p = 1 THEN "runs" ELSE "free"]
             knows   == [p \in Procs |-> {}]
             hung    == [p \in Procs |-> NoCall]
             revived == [p \in Procs |-> FALSE]
             fd      == [p \in Procs |-> [d \in Fds |-> NIL]]
             filp    == [x \in Filps |-> FreeFilp]
             inode   == [i \in Inodes |-> FreeInode]
  <2>1. at \in [Procs -> {"free", "runs", "waits"}] /\ knows \in [Procs -> SUBSET Fds]
    OBVIOUS
  <2>2. hung \in [Procs -> Hung \cup {NoCall}] /\ revived \in [Procs -> BOOLEAN]
    OBVIOUS
  <2>3. fd \in [Procs -> [Fds -> Filps \cup {NIL}]]
    OBVIOUS
  <2>4. filp \in [Filps -> [mode : Modes \cup {{}}, count : Nat, pos : Nat,
                            ino : Inodes \cup {NIL}, nonblock : BOOLEAN]]
    BY <1>3
  <2>5. inode \in [Inodes -> [num : {"none", "pipe", "fifo"}, count : Nat, i_pipe : BOOLEAN,
                              data : BoundedSeq(Procs \cup {0}, PIPE_SIZE)]]
    BY <1>4
  <2>6. fs = [at |-> at, knows |-> knows, hung |-> hung, revived |-> revived, fd |-> fd,
              filp |-> filp, inode |-> inode, susp_count |-> 0, reviving |-> 0]
    BY DEF Init
  <2>7. 0 \in Int
    OBVIOUS
  <2> HIDE DEF at, knows, hung, revived, fd, filp, inode
  <2> DEFINE t == [at |-> at, knows |-> knows, hung |-> hung, revived |-> revived, fd |-> fd,
                   filp |-> filp, inode |-> inode, susp_count |-> 0, reviving |-> 0]
  <2>8. t \in Tables
    <3> DEFINE A == [Procs -> {"free", "runs", "waits"}]
               K == [Procs -> SUBSET Fds]
               H == [Procs -> Hung \cup {NoCall}]
               V == [Procs -> BOOLEAN]
               D == [Procs -> [Fds -> Filps \cup {NIL}]]
               F == [Filps -> [mode : Modes \cup {{}}, count : Nat, pos : Nat,
                               ino : Inodes \cup {NIL}, nonblock : BOOLEAN]]
               N == [Inodes -> [num : {"none", "pipe", "fifo"}, count : Nat, i_pipe : BOOLEAN,
                                data : BoundedSeq(Procs \cup {0}, PIPE_SIZE)]]
    <3>1. at \in A /\ knows \in K /\ hung \in H /\ revived \in V /\ fd \in D
          /\ filp \in F /\ inode \in N
      BY <2>1, <2>2, <2>3, <2>4, <2>5
    <3>2. Tables = [at : A, knows : K, hung : H, revived : V, fd : D, filp : F, inode : N,
                    susp_count : Int, reviving : Int]
      BY DEF Tables
    <3> HIDE DEF A, K, H, V, D, F, N
    <3> QED BY <3>1, <3>2, <2>7, SMTT(30)
  <2> QED BY <2>6, <2>8
<1>6. \A p \in Procs : ~ Suspended(fs, p) /\ ~ fs.revived[p] /\ fs.hung[p].fs_call = "none"
  BY <1>1, Calls DEF Suspended
<1>7. (\A x \in Filps : fs.filp[x] = FreeFilp) /\ \A i \in Inodes : fs.inode[i] = FreeInode
  BY <1>1
<1>8. \A p \in Procs, d \in Fds : fs.fd[p][d] = NIL
  BY <1>1
<1>9. Cardinality({}) = 0
  BY FS_EmptySet
<1>10. FilpCounts(fs)
  <2> SUFFICES ASSUME NEW x \in Filps PROVE fs.filp[x].count = Cardinality(Refs(fs, x))
    BY DEF FilpCounts
  <2>1. Refs(fs, x) = {}
    BY <1>8, Ranges DEF Refs
  <2> QED BY <1>7, <1>9, <2>1, FreeIs
<1>11. \A i \in Inodes : Uses(fs, i) = {}
  <2> SUFFICES ASSUME NEW i \in Inodes, NEW x \in Uses(fs, i) PROVE FALSE
    OBVIOUS
  <2>1. x \in Filps /\ fs.filp[x].ino = i
    BY DEF Uses
  <2> QED BY <1>7, <2>1, FreeIs, Ranges
<1>12. InodeCounts(fs)
  BY <1>7, <1>9, <1>11, FreeIs DEF InodeCounts
<1>13. Slots(fs)
  BY <1>7, FreeIs DEF Slots
<1>14. Pipes(fs) /\ AllFlow(fs)
  BY <1>7, FreeIs DEF Pipes, AllFlow
<1>15. Files(fs)
  BY <1>5, <1>10, <1>12, <1>13, <1>14 DEF Files
<1>16. Told(fs, exiting, NIL)
  <2>1. \A p \in Procs : fs.at[p] # "waits"
    BY <1>1
  <2> QED BY <1>2, <1>6, <1>8, <2>1 DEF Told
<1>17. Marks(fs) /\ Covers(fs) /\ Hooked(fs)
  <2>1. {p \in Procs : fs.revived[p]} = {} /\ HangersOf(fs) = {}
    BY <1>6 DEF HangersOf
  <2>2. Marks(fs)
    BY <1>1, <1>6, <1>9, <2>1 DEF Marks
  <2>3. Covers(fs)
    BY <1>1, <1>9, <2>1 DEF Covers
  <2>4. Hooked(fs)
    BY <1>6 DEF Hooked
  <2> QED BY <2>2, <2>3, <2>4
<1>18. Alone(fs)
  <2>1. \A p \in Procs : fs.hung[p].fs_call \notin Waits
    BY <1>6, Calls
  <2> QED BY <2>1, Zenon DEF Alone
<1> QED BY <1>2, <1>14, <1>15, <1>16, <1>17, <1>18 DEF IInv, Good, Suspending

LEMMA MixIs ==
  ASSUME NEW m \in Mixes
  PROVE  /\ \A c \in m.read : c \in Hung /\ c.fs_call = "READ"
         /\ \A c \in m.write : c \in Hung /\ c.fs_call = "WRITE"
         /\ m.open \subseteq [fs_call : Waits, mode : Modes, nonblock : BOOLEAN]
         /\ m.procs \subseteq Procs
<1>1. m \in Mix
  BY MixAssumption
<1>2. /\ m.read \subseteq [fs_call : {"READ"}, fd : Fds, n : Nat]
      /\ m.write \subseteq [fs_call : {"WRITE"}, fd : Fds, n : Nat]
      /\ m.open \subseteq [fs_call : Waits, mode : Modes, nonblock : BOOLEAN]
      /\ m.procs \subseteq Procs
  BY <1>1 DEF Mix
<1>3. \A c \in m.read : c \in Hung /\ c.fs_call = "READ"
  BY <1>2 DEF Hung
<1>4. \A c \in m.write : c \in Hung /\ c.fs_call = "WRITE"
  BY <1>2 DEF Hung
<1> QED BY <1>2, <1>3, <1>4

(* Whatever a program, MM or FS itself does *)
LEMMA NextGood == IInv /\ Next => IInv'
<1> SUFFICES ASSUME IInv, Next PROVE IInv'
  OBVIOUS
<1> DEFINE f == fs
           e == exiting
<1>0. Good(f, e, NIL) /\ may \in Mixes /\ f = fs /\ e = exiting /\ f \in Tables
  BY DEF IInv, Good, Files
<1> SUFFICES Good(fs, exiting, NIL)' /\ may' \in Mixes
  BY DEF IInv
<1> HIDE DEF f, e
<1>k. \A p \in Procs : f.knows[p] \subseteq Fds
  BY <1>0, Fields
<1>1. ASSUME NEW p \in Procs, Read(p) PROVE Good(fs, exiting, NIL)' /\ may' \in Mixes
  <2>1. PICK c \in may.read : fs' = do_read(f, p, c)
    BY <1>0, <1>1 DEF Read
  <2>2. f.at[p] = "runs" /\ exiting' = e /\ may' = may
    BY <1>0, <1>1 DEF Read, Runs
  <2>3. c \in Hung /\ c.fs_call = "READ"
    BY <1>0, MixIs
  <2>4. Served(f, e, p)
    BY <1>0, <2>2, RunsServed
  <2>5. Good(do_read(f, p, c), e, NIL)
    BY <2>3, <2>4, ReadGood
  <2> QED BY <1>0, <2>1, <2>2, <2>5
<1>2. ASSUME NEW p \in Procs, Write(p) PROVE Good(fs, exiting, NIL)' /\ may' \in Mixes
  <2>1. PICK c \in may.write : fs' = do_write(f, p, c)
    BY <1>0, <1>2 DEF Write
  <2>2. f.at[p] = "runs" /\ exiting' = e /\ may' = may
    BY <1>0, <1>2 DEF Write, Runs
  <2>3. c \in Hung /\ c.fs_call = "WRITE"
    BY <1>0, MixIs
  <2>4. Served(f, e, p)
    BY <1>0, <2>2, RunsServed
  <2>5. Good(do_write(f, p, c), e, NIL)
    BY <2>3, <2>4, WriteGood
  <2> QED BY <1>0, <2>1, <2>2, <2>5
<1>3. ASSUME NEW p \in Procs, Pipe(p) PROVE Good(fs, exiting, NIL)' /\ may' \in Mixes
  <2>1. f.at[p] = "runs" /\ fs' = do_pipe(f, p) /\ exiting' = e /\ may' = may
    BY <1>0, <1>3 DEF Pipe, Runs
  <2>2. Good(do_pipe(f, p), e, NIL)
    BY <1>0, <2>1, PipeGood
  <2> QED BY <1>0, <2>1, <2>2
<1>4. ASSUME NEW p \in Procs, OpenFifo(p) PROVE Good(fs, exiting, NIL)' /\ may' \in Mixes
  <2>1. PICK c \in may.open : fs' = do_open(f, p, c)
    BY <1>0, <1>4 DEF OpenFifo
  <2>2. f.at[p] = "runs" /\ exiting' = e /\ may' = may
    BY <1>0, <1>4 DEF OpenFifo, Runs
  <2>3. c \in [fs_call : Waits, mode : Modes, nonblock : BOOLEAN]
    BY <1>0, MixIs
  <2>4. Good(do_open(f, p, c), e, NIL)
    BY <1>0, <2>2, <2>3, OpenGood
  <2> QED BY <1>0, <2>1, <2>2, <2>4
<1>5. ASSUME NEW p \in Procs, Close(p) PROVE Good(fs, exiting, NIL)' /\ may' \in Mixes
  <2>1. PICK d \in f.knows[p] : fs' = do_close(f, p, d)
    BY <1>0, <1>5 DEF Close
  <2>2. f.at[p] = "runs" /\ exiting' = e /\ may' = may
    BY <1>0, <1>5 DEF Close, Runs
  <2>3. ~ Suspended(f, p) /\ d \in Fds
    BY <1>0, <1>k, <2>2, RunsServed
  <2> DEFINE w == NIL
  <2>4. Good(f, e, w)
    BY <1>0
  <2> HIDE DEF w
  <2>5. Good(do_close(f, p, d), e, w)
    BY <2>3, <2>4, CloseGood
  <2> QED BY <1>0, <2>1, <2>2, <2>5 DEF w
<1>6. ASSUME NEW p \in Procs, Dup(p) PROVE Good(fs, exiting, NIL)' /\ may' \in Mixes
  <2>1. PICK d \in f.knows[p] : fs' = do_dup(f, p, d) \/ \E d2 \in Fds : fs' = do_dup2(f, p, d, d2)
    BY <1>0, <1>6 DEF Dup
  <2>2. f.at[p] = "runs" /\ exiting' = e /\ may' = may
    BY <1>0, <1>6 DEF Dup, Runs
  <2>3. d \in Fds
    BY <1>k
  <2>4. CASE fs' = do_dup(f, p, d)
    <3>1. Good(do_dup(f, p, d), e, NIL)
      BY <1>0, <2>2, <2>3, DupGood
    <3> QED BY <1>0, <2>2, <2>4, <3>1
  <2>5. ASSUME NEW d2 \in Fds, fs' = do_dup2(f, p, d, d2)
        PROVE  Good(fs, exiting, NIL)' /\ may' \in Mixes
    <3>1. Good(do_dup2(f, p, d, d2), e, NIL)
      BY <1>0, <2>2, <2>3, Dup2Good
    <3> QED BY <1>0, <2>2, <2>5, <3>1
  <2> QED BY <2>1, <2>4, <2>5
<1>7. ASSUME NEW p \in Procs, SetFlags(p) PROVE Good(fs, exiting, NIL)' /\ may' \in Mixes
  <2>1. PICK d \in f.knows[p], no \in BOOLEAN : fs' = do_fcntl(f, p, d, no)
    BY <1>0, <1>7 DEF SetFlags
  <2>2. exiting' = e /\ may' = may /\ d \in Fds
    BY <1>0, <1>k, <1>7 DEF SetFlags
  <2> DEFINE w == NIL
  <2>3. Good(f, e, w)
    BY <1>0
  <2> HIDE DEF w
  <2>4. Good(do_fcntl(f, p, d, no), e, w)
    BY <2>2, <2>3, FcntlGood
  <2> QED BY <1>0, <2>1, <2>2, <2>4 DEF w
<1>8. ASSUME NEW p \in Procs, Fork(p) PROVE Good(fs, exiting, NIL)' /\ may' \in Mixes
  <2>1. PICK c \in may.procs : f.at[c] = "free" /\ fs' = do_fork(f, p, c)
    BY <1>0, <1>8 DEF Fork
  <2>2. f.at[p] = "runs" /\ e = NIL /\ exiting' = e /\ may' = may
    BY <1>0, <1>8 DEF Fork, Runs
  <2>3. c \in Procs
    BY <1>0, MixIs
  <2>4. Good(do_fork(f, p, c), e, NIL)
    BY <1>0, <2>1, <2>2, <2>3, ForkGood
  <2> QED BY <1>0, <2>1, <2>2, <2>4
<1>9. ASSUME NEW p \in Procs, Kill(p) PROVE Good(fs, exiting, NIL)' /\ may' \in Mixes
  <2>1. /\ f.at[p] # "free" /\ e = NIL /\ fs' = [f EXCEPT !.at[p] = "free"] /\ exiting' = p
        /\ may' = may
    BY <1>0, <1>9 DEF Kill
  <2>2. Good(f, NIL, NIL)
    BY <1>0, <2>1
  <2>3. Good([f EXCEPT !.at[p] = "free"], p, NIL)
    BY <2>1, <2>2, KillGood
  <2> QED BY <1>0, <2>1, <2>3
<1>10. ASSUME NEW p \in Procs, Unpause(p) PROVE Good(fs, exiting, NIL)' /\ may' \in Mixes
  <2>1. f.at[p] = "waits" /\ fs' = do_unpause(f, p) /\ exiting' = e /\ may' = may
    BY <1>0, <1>10 DEF Unpause
  <2>2. Good(do_unpause(f, p), e, NIL)
    BY <1>0, <2>1, UnpauseGood
  <2> QED BY <1>0, <2>1, <2>2
<1>11. ASSUME Exit PROVE Good(fs, exiting, NIL)' /\ may' \in Mixes
  <2>1. e # NIL /\ f.reviving = 0 /\ fs' = do_exit(f, e) /\ exiting' = NIL /\ may' = may
    BY <1>0, <1>11 DEF Exit, TakesWork
  <2>2. e \in Procs
    BY <1>0, <2>1 DEF Good, Told
  <2>3. Good(do_exit(f, e), NIL, NIL)
    BY <1>0, <2>1, <2>2, ExitGood
  <2> QED BY <1>0, <2>1, <2>3
<1>12. ASSUME Revived PROVE Good(fs, exiting, NIL)' /\ may' \in Mixes
  <2> DEFINE p == Min({q \in Procs : f.revived[q]})
             c == f.hung[p]
             g == [f EXCEPT !.hung[p] = NoCall, !.revived[p] = FALSE, !.reviving = @ - 1]
  <2>1. /\ f.reviving # 0 /\ exiting' = e /\ may' = may
        /\ fs' = IF c.fs_call = "READ" THEN do_read(g, p, c) ELSE do_write(g, p, c)
    BY <1>0, <1>12 DEF Revived
  <2>2. p \in Procs /\ c \in Hung /\ c.fs_call \in {"READ", "WRITE"} /\ Served(g, e, p)
    <3> DEFINE r == p
    <3>1. r = Min({q \in Procs : f.revived[q]})
      OBVIOUS
    <3> HIDE DEF r
    <3>2. /\ r \in Procs /\ f.hung[r] \in Hung /\ f.hung[r].fs_call \in {"READ", "WRITE"}
          /\ Served([f EXCEPT !.hung[r] = NoCall, !.revived[r] = FALSE, !.reviving = @ - 1], e, r)
      BY <1>0, <2>1, <3>1, RetryServed, ZenonT(60)
    <3> QED BY <3>2 DEF r
  <2> HIDE DEF p, c, g
  <2>3. CASE c.fs_call = "READ"
    <3>1. Good(do_read(g, p, c), e, NIL)
      BY <2>2, <2>3, ReadGood
    <3> QED BY <1>0, <2>1, <2>3, <3>1
  <2>4. CASE c.fs_call = "WRITE"
    <3>1. Good(do_write(g, p, c), e, NIL)
      BY <2>2, <2>4, WriteGood
    <3> QED BY <1>0, <2>1, <2>4, <3>1
  <2> QED BY <2>2, <2>3, <2>4
<1> QED BY <1>1, <1>2, <1>3, <1>4, <1>5, <1>6, <1>7, <1>8, <1>9, <1>10, <1>11, <1>12 DEF Next

LEMMA StutterGood == IInv /\ UNCHANGED vars => IInv'
<1> SUFFICES ASSUME IInv, UNCHANGED vars PROVE IInv'
  OBVIOUS
<1>1. fs' = fs /\ exiting' = exiting /\ may' = may
  BY DEF vars
<1>2. Good(fs, exiting, NIL) /\ may \in Mixes
  BY DEF IInv
<1>3. Good(fs, exiting, NIL)' /\ may' \in Mixes
  BY <1>1, <1>2
<1> QED BY <1>3 DEF IInv

LEMMA Inductive == Spec => []IInv
<1>1. IInv /\ [Next]_vars => IInv'
  BY NextGood, StutterGood
<1> QED BY <1>1, InitGood, PTL DEF Spec

-----------------------------------------------------------------------------
(* The theorems *)

(***************************************************************************)
(* Over every order of open(), pipe(), dup(), dup2(), fcntl(), fork(),     *)
(* close(), exit() and death by a signal, the count of a filp is the       *)
(* number of descriptors that refer to it, and the count of an inode the   *)
(* number of filps (get_filp(), put_inode(), do_close(), do_fork() and     *)
(* do_exit() in fs): none is freed while it is in use and none leaks.      *)
(***************************************************************************)
THEOREM CountsRight == Spec => []Counts
<1>1. IInv => Counts
  <2> SUFFICES ASSUME IInv PROVE Counts
    OBVIOUS
  <2>1. FilpCounts(fs) /\ InodeCounts(fs)
    BY DEF IInv, Good, Files
  <2>2. \A x \in Filps : fs.filp[x].count = Cardinality({pd \in Procs \X Fds :
                                                          fs.fd[pd[1]][pd[2]] = x})
    BY <2>1 DEF FilpCounts, Refs
  <2>3. \A i \in Inodes : fs.inode[i].count = Cardinality({x \in Filps : fs.filp[x].ino = i})
    BY <2>1 DEF InodeCounts, Uses
  <2> QED BY <2>2, <2>3 DEF Counts
<1> QED BY <1>1, Inductive, PTL

(***************************************************************************)
(* FS holds a process's call exactly while its program waits for it;       *)
(* reviving is the number of processes marked, so that get_work() never    *)
(* panics "get_work couldn't revive anyone"; and susp_count is never below *)
(* the number that hang, so that release() with this count leaves nobody   *)
(* behind: over suspend(), revive(), release(), do_unpause(), do_exit()    *)
(* and the retries (fs/pipe.c, fs/main.c).                                 *)
(***************************************************************************)
THEOREM SuspensionRight == Spec => []Suspension
<1>1. IInv => Suspension
  <2> SUFFICES ASSUME IInv PROVE Suspension
    OBVIOUS
  <2>1. /\ fs \in Tables /\ may \in Mixes /\ Told(fs, exiting, NIL)
        /\ Marks(fs) /\ Covers(fs)
    BY DEF IInv, Good, Files, Suspending
  <2>2. TypeOK
    BY <2>1 DEF TypeOK, Told
  <2>3. RevivingCounts
    BY <2>1 DEF RevivingCounts, Marks
  <2>4. SuspCovers
    BY <2>1 DEF SuspCovers, Covers, Hangers, HangersOf
  <2>5. WaitsForFs
    <3> SUFFICES ASSUME NEW p \in Procs
                 PROVE  /\ fs.at[p] = "waits" => Suspended(fs, p)
                        /\ Suspended(fs, p) => fs.at[p] = "waits" \/ p = exiting
      BY DEF WaitsForFs
    <3>1. p # NIL
      BY DEF Procs, NIL
    <3> QED BY <2>1, <3>1 DEF Told
  <2> QED BY <2>2, <2>3, <2>4, <2>5 DEF Suspension
<1> QED BY <1>1, Inductive, PTL

(***************************************************************************)
(* Nobody hangs for what has come already: a reader hangs only while its   *)
(* pipe is empty and somebody may write to it, a writer only while         *)
(* somebody may read, never both; and nobody waits in open() for one end   *)
(* of a named pipe while the other end is open (pipe_check(), release(),   *)
(* do_close() in fs, and pipe_open() in fs/open.c).                        *)
(***************************************************************************)
THEOREM NobodyStrandedRight == Spec => []NobodyStranded
<1>1. IInv => NobodyStranded
  <2> SUFFICES ASSUME IInv PROVE NobodyStranded
    OBVIOUS
  <2>1. Files(fs) /\ Hooked(fs) /\ AllFlow(fs) /\ Alone(fs)
    BY DEF IInv, Good, Suspending
  <2>2. NoStandoff
    <3> SUFFICES ASSUME NEW i \in Inodes, fs.inode[i].num = "pipe"
                 PROVE  /\ Hangs(i, "READ")  => i_size(fs, i) = 0 /\ Open(fs, i, "W") # {}
                        /\ Hangs(i, "WRITE") => Open(fs, i, "R") # {}
                        /\ ~ (Hangs(i, "READ") /\ Hangs(i, "WRITE"))
      BY DEF NoStandoff
    <3>1. Flows(fs, i)
      BY <2>1 DEF AllFlow
    <3> QED BY <3>1 DEF Flows, Hangs
  <2>3. OpenWaits
    <3> SUFFICES ASSUME NEW p \in Procs, NEW q \in Procs, NEW d \in Fds,
                        fs.hung[p].fs_call \in Waits, fs.fd[q][d] # NIL,
                        Filp(fs, q, d).ino = Filp(fs, p, fs.hung[p].fd).ino
                 PROVE  \/ Filp(fs, q, d).mode \cup Filp(fs, p, fs.hung[p].fd).mode # {"R", "W"}
                        \/ {"R", "W"} \in {Filp(fs, q, d).mode, Filp(fs, p, fs.hung[p].fd).mode}
      BY DEF OpenWaits
    <3> DEFINE k == fs.hung[p].fd
               x == fs.fd[p][k]
               y == fs.fd[q][d]
    <3>1. Suspended(fs, p)
      BY Calls DEF Suspended
    <3>2. k \in Fds /\ x \in Filps
      BY <2>1, <3>1, HungFile, Zenon
    <3>3. x # NIL
      BY <3>2, SMTT(30) DEF Filps, NIL
    <3>4. fs.filp[x].mode \in Modes
      BY <2>1, <3>2, <3>3, InUse, ZenonT(60)
    <3>5. fs.filp[y].mode \in Modes /\ y \in Uses(fs, fs.filp[y].ino)
      BY <2>1, InUse
    <3>6. fs.filp[y].ino = fs.filp[x].ino
      BY SMTT(30) DEF Filp
    <3>7. \A z \in Uses(fs, fs.filp[x].ino) :
            {fs.filp[x].mode, fs.filp[z].mode} # {{"R"}, {"W"}}
      BY <2>1, Zenon DEF Alone
    <3>8. Filp(fs, q, d) = fs.filp[y] /\ Filp(fs, p, k) = fs.filp[x]
      BY DEF Filp
    <3> HIDE DEF k, x, y
    <3>9. {fs.filp[x].mode, fs.filp[y].mode} # {{"R"}, {"W"}}
      BY <3>5, <3>6, <3>7
    <3>10. \A m, n \in Modes : {m, n} # {{"R"}, {"W"}} =>
             n \cup m # {"R", "W"} \/ {"R", "W"} \in {n, m}
      BY DEF Modes
    <3> QED BY <3>4, <3>5, <3>8, <3>9, <3>10 DEF k
  <2> QED BY <2>2, <2>3 DEF NobodyStranded
<1> QED BY <1>1, Inductive, PTL

=============================================================================
