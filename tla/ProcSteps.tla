------------------------------ MODULE ProcSteps ------------------------------
(***************************************************************************)
(* What the routines of the kernel leave alone: who lives, the places of   *)
(* the fork families, and the messages.  From it: families have one owner, *)
(* a process that a driver uses is not moved, MM is told of every signal,  *)
(* and messages and interrupts reach whom they are for.                    *)
(***************************************************************************)
EXTENDS ProcSafety

(* A set of numbers of processes has a first one. *)
LEMMA FirstThere ==
  ASSUME NEW S \in SUBSET Procs, S # {}
  PROVE  First(S) # {} /\ (CHOOSE p \in First(S) : TRUE) \in S
<1> DEFINE Below(n) == {i \in S : i < n}
           T == {Below(n) : n \in S}
<1>1. S \in SUBSET Int
  BY Numbers
<1>2. T # {} /\ T \subseteq FiniteSubsetsOf(S)
  <2>1. ASSUME NEW n \in S PROVE Below(n) \in FiniteSubsetsOf(S)
    <3>1. Below(n) \subseteq S
      OBVIOUS
    <3>2. IsFiniteSet(S)
      BY FiniteSets
    <3>3. IsFiniteSet(Below(n))
      BY <3>1, <3>2, FS_Subset
    <3> QED BY <3>1, <3>3 DEF FiniteSubsetsOf
  <2> QED BY <2>1
<1>3. PICK x \in T : \A y \in T : <<y, x>> \notin StrictSubsetOrdering(S)
  <2>1. IsWellFoundedOn(StrictSubsetOrdering(S), FiniteSubsetsOf(S))
    BY FS_StrictSubsetOrderingWellFounded
  <2> QED BY <1>2, <2>1, WFMin
<1>4. PICK m \in S : x = Below(m)
  OBVIOUS
<1>5. ASSUME NEW n \in S, n < m PROVE FALSE
  <2>1. Below(n) \in T /\ Below(n) \subseteq Below(m)
    <3>1. \A i \in S : i < n => i < m
      BY <1>1, <1>5
    <3> QED BY <3>1
  <2>2. n \in Below(m) /\ n \notin Below(n)
    BY <1>1, <1>5
  <2>3. <<Below(n), Below(m)>> \in StrictSubsetOrdering(S)
    BY <2>1, <2>2 DEF StrictSubsetOrdering
  <2> QED BY <1>3, <1>4, <2>1, <2>3
<1>6. m \in First(S)
  BY <1>1, <1>5 DEF First
<1> QED BY <1>6, FirstIn

-----------------------------------------------------------------------------
(* The routines that change who is ready *)

(* Everything but p_flags and the ready queues *)
FlagsOnly(x, y) ==
  /\ y.getfrom = x.getfrom /\ y.callerq = x.callerq
  /\ y.mess = x.mess /\ y.intBlocked = x.intBlocked
  /\ y.pending = x.pending /\ y.pendcount = x.pendcount /\ y.sigProcs = x.sigProcs
  /\ y.img = x.img /\ y.shadow = x.shadow /\ y.physio = x.physio
  /\ y.panic = x.panic

LEMMA BlockOnly ==
  ASSUME NEW x \in Kernel, NEW p \in Procs, NEW F \in SUBSET Flag
  PROVE  LET y == Block(x, p, F)
         IN  /\ y \in Kernel /\ FlagsOnly(x, y)
             /\ \A r \in Procs : y.flags[r] = IF r = p THEN x.flags[p] \cup F ELSE x.flags[r]
<1> DEFINE a == IF x.flags[p] = {} THEN unready(x, p) ELSE x
           G == a.flags[p] \cup F
           y == [a EXCEPT !.flags[p] = G]
<1>1. a \in Kernel /\ SameTable(x, a)
  <2>1. SameTable(x, x)
    BY DEF SameTable
  <2> QED BY <2>1, UnreadyType, UnreadySame
<1>2. Block(x, p, F) = y
  BY DEF Block
<1> HIDE DEF a
<1>3. G \in FlagSets
  BY <1>1 DEF Kernel, FlagSets
<1> HIDE DEF G
<1>4. /\ y \in Kernel /\ FlagsOnly(a, y)
      /\ \A r \in Procs : y.flags[r] = IF r = p THEN G ELSE a.flags[r]
  BY <1>1, <1>3 DEF Kernel, FlagSets, FlagsOnly
<1> HIDE DEF y
<1> QED BY <1>1, <1>2, <1>4 DEF SameTable, FlagsOnly, G

LEMMA UnblockOnly ==
  ASSUME NEW x \in Kernel, NEW p \in Procs, NEW F \in SUBSET Flag
  PROVE  LET y == Unblock(x, p, F)
         IN  /\ y \in Kernel /\ FlagsOnly(x, y)
             /\ y.flags = [x.flags EXCEPT ![p] = x.flags[p] \ F]
<1> DEFINE G == x.flags[p] \ F
           z == [x EXCEPT !.flags[p] = G]
           y == IF z.flags[p] = {} THEN ready(z, p) ELSE z
<1>1. G \in FlagSets
  BY DEF Kernel, FlagSets
<1> HIDE DEF G
<1>2. /\ z \in Kernel /\ FlagsOnly(x, z)
      /\ z.flags = [x.flags EXCEPT ![p] = G]
  BY <1>1 DEF Kernel, FlagSets, FlagsOnly
<1>3. Unblock(x, p, F) = y
  BY DEF Unblock, G
<1> HIDE DEF z
<1>4. y \in Kernel /\ SameTable(z, y)
  <2>1. SameTable(z, z)
    BY DEF SameTable
  <2> QED BY <1>2, <2>1, ReadyType, ReadySame
<1> HIDE DEF y
<1> QED BY <1>2, <1>3, <1>4 DEF SameTable, FlagsOnly, G

(* Nobody is moved, and who waits for FS while a driver uses him goes on. *)
WaitsForFs(x, u) ==
  /\ "RECEIVING" \in x.flags[u] /\ "SENDING" \notin x.flags[u]
  /\ x.getfrom[u] = FS_PROC_NR

Unmoved(x, y) ==
  /\ y.img = x.img /\ y.shadow = x.shadow /\ y.physio = x.physio
  /\ y.panic = x.panic
  /\ \A r \in Procs : "P_SLOT_FREE" \in y.flags[r] <=> "P_SLOT_FREE" \in x.flags[r]
  /\ \A u \in Users \cap x.physio : WaitsForFs(x, u) => WaitsForFs(y, u)

-----------------------------------------------------------------------------
(* The routines that pass messages *)

(* The signal books, the places in memory and the uses by drivers *)
Apart(x, y) ==
  /\ y.pending = x.pending /\ y.pendcount = x.pendcount /\ y.sigProcs = x.sigProcs
  /\ y.img = x.img /\ y.shadow = x.shadow /\ y.physio = x.physio
  /\ y.panic = x.panic

(* d, which waited, has got the message of p. *)
Handed(x, y, p, d) ==
  /\ Accepts(x, d, p) /\ Apart(x, y)
  /\ y.getfrom = x.getfrom /\ y.callerq = x.callerq /\ y.intBlocked = x.intBlocked
  /\ \A r \in Procs : /\ y.flags[r] = IF r = d THEN x.flags[d] \ {"RECEIVING"} ELSE x.flags[r]
                      /\ y.mess[r] = IF r = d THEN [m_source |-> p, m_type |-> x.mess[p].m_type]
                                              ELSE x.mess[r]

(* p has got in line to send to d. *)
InLine(x, y, p, d) ==
  /\ Apart(x, y)
  /\ y.getfrom = x.getfrom /\ y.mess = x.mess /\ y.intBlocked = x.intBlocked
  /\ \A r \in Procs : /\ y.flags[r] = IF r = p THEN x.flags[p] \cup {"SENDING"} ELSE x.flags[r]
                      /\ y.callerq[r] = IF r = d THEN Append(x.callerq[d], p) ELSE x.callerq[r]

(* p has taken the message of s, which was in line. *)
Took(x, y, p, s) ==
  /\ Apart(x, y)
  /\ y.getfrom = x.getfrom /\ y.intBlocked = x.intBlocked
  /\ \A r \in Procs : /\ y.flags[r] = IF r = s THEN x.flags[s] \ {"SENDING"} ELSE x.flags[r]
                      /\ y.callerq[r] = IF r = p THEN Dequeue(x.callerq[p], s) ELSE x.callerq[r]
                      /\ y.mess[r] = IF r = p THEN [m_source |-> s, m_type |-> x.mess[s].m_type]
                                              ELSE x.mess[r]

HardInt == [m_source |-> HARDWARE, m_type |-> "HARD_INT"]

(* p has got its interrupt. *)
Interrupted(x, y, p) ==
  /\ Apart(x, y)
  /\ y.getfrom = x.getfrom /\ y.callerq = x.callerq /\ y.intBlocked = x.intBlocked \ {p}
  /\ \A r \in Procs : /\ y.flags[r] = IF r = p THEN x.flags[p] \ {"RECEIVING"} ELSE x.flags[r]
                      /\ y.mess[r] = IF r = p THEN HardInt ELSE x.mess[r]

(* p has begun to wait for a message from src. *)
Waiting(x, y, p, src) ==
  /\ Apart(x, y)
  /\ y.mess = x.mess /\ y.callerq = x.callerq /\ y.intBlocked = x.intBlocked
  /\ \A r \in Procs : /\ y.flags[r] = IF r = p THEN x.flags[p] \cup {"RECEIVING"} ELSE x.flags[r]
                      /\ y.getfrom[r] = IF r = p THEN src ELSE x.getfrom[r]

LEMMA HandedBy ==
  ASSUME NEW x \in Kernel, NEW p \in Procs, NEW d \in Procs, Accepts(x, d, p)
  PROVE  LET y == Unblock(cp_mess(x, p, d), d, {"RECEIVING"})
         IN  y \in Kernel /\ Handed(x, y, p, d)
<1> DEFINE m == [m_source |-> p, m_type |-> x.mess[p].m_type]
           a == cp_mess(x, p, d)
           y == Unblock(a, d, {"RECEIVING"})
<1>1. m \in Message
  BY DEF Kernel, Message
<1>2. a = [x EXCEPT !.mess[d] = m]
  BY DEF cp_mess
<1> HIDE DEF m, a
<1>3. /\ a \in Kernel /\ Apart(x, a) /\ a.flags = x.flags
      /\ a.getfrom = x.getfrom /\ a.callerq = x.callerq /\ a.intBlocked = x.intBlocked
      /\ \A r \in Procs : a.mess[r] = IF r = d THEN m ELSE x.mess[r]
  BY <1>1, <1>2 DEF Kernel, Apart
<1>4. /\ y \in Kernel /\ FlagsOnly(a, y)
      /\ \A r \in Procs : y.flags[r] = IF r = d THEN a.flags[d] \ {"RECEIVING"} ELSE a.flags[r]
  <2> DEFINE F == {"RECEIVING"}
             z == Unblock(a, d, F)
  <2>1. F \in SUBSET Flag
    BY DEF Flag
  <2>2. y = z
    BY DEF F
  <2> HIDE DEF F, y
  <2>3. /\ z \in Kernel /\ FlagsOnly(a, z)
        /\ z.flags = [a.flags EXCEPT ![d] = a.flags[d] \ F]
    BY <1>3, <2>1, UnblockOnly
  <2> QED BY <1>3, <2>2, <2>3 DEF F, Kernel
<1> HIDE DEF y
<1>5. Handed(x, y, p, d)
  BY <1>3, <1>4 DEF FlagsOnly, Handed, Apart, m
<1> QED BY <1>4, <1>5 DEF a, y

LEMMA SendOnly ==
  ASSUME NEW x \in Kernel, NEW p \in Procs, NEW d \in Procs
  PROVE  LET y == mini_send(x, p, d)
         IN  /\ y \in Kernel
             /\ y = x \/ Handed(x, y, p, d) \/ InLine(x, y, p, d)
             /\ SendResult(x, p, d) = "OK" /\ Accepts(x, d, p) => Handed(x, y, p, d)
             /\ SendResult(x, p, d) = "OK" => "P_SLOT_FREE" \notin x.flags[d]
<1> DEFINE a == Block(x, p, {"SENDING"})
           y == [a EXCEPT !.callerq[d] = Append(a.callerq[d], p)]
<1>1. ASSUME SendResult(x, p, d) = "OK", ~Accepts(x, d, p)
      PROVE  mini_send(x, p, d) = y /\ y \in Kernel /\ InLine(x, y, p, d)
  <2>1. mini_send(x, p, d) = y
    BY <1>1 DEF mini_send
  <2>2. {"SENDING"} \in SUBSET Flag
    BY DEF Flag
  <2>3. /\ a \in Kernel /\ FlagsOnly(x, a)
        /\ \A r \in Procs : a.flags[r] = IF r = p THEN x.flags[p] \cup {"SENDING"} ELSE x.flags[r]
    BY <2>2, BlockOnly
  <2> HIDE DEF a
  <2> DEFINE q == Append(a.callerq[d], p)
  <2>4. q \in Seq(Procs)
    BY <2>3, AppendProperties DEF Kernel
  <2> HIDE DEF q
  <2>5. /\ y \in Kernel /\ Apart(a, y) /\ y.flags = a.flags
        /\ y.getfrom = a.getfrom /\ y.mess = a.mess /\ y.intBlocked = a.intBlocked
        /\ \A r \in Procs : y.callerq[r] = IF r = d THEN q ELSE a.callerq[r]
    BY <2>3, <2>4 DEF Kernel, Apart, q
  <2> HIDE DEF y
  <2>6. InLine(x, y, p, d)
    BY <2>3, <2>5 DEF FlagsOnly, InLine, Apart, q
  <2> QED BY <2>1, <2>5, <2>6
<1>2. ASSUME SendResult(x, p, d) = "OK", Accepts(x, d, p)
      PROVE  mini_send(x, p, d) \in Kernel /\ Handed(x, mini_send(x, p, d), p, d)
  BY <1>2, HandedBy DEF mini_send
<1>3. SendResult(x, p, d) # "OK" => mini_send(x, p, d) = x
  BY DEF mini_send
<1>4. SendResult(x, p, d) = "OK" => "P_SLOT_FREE" \notin x.flags[d]
  BY DEF SendResult
<1> QED BY <1>1, <1>2, <1>3, <1>4

LEMMA InterruptOnly ==
  ASSUME NEW x \in Kernel, NEW t \in Procs
  PROVE  LET y == interrupt(x, t)
         IN  \/ Accepts(x, t, HARDWARE) /\ Interrupted(x, y, t)
             \/ y = [x EXCEPT !.intBlocked = @ \cup {t}]
<1> DEFINE G == x.flags[t] \ {"RECEIVING"}
           B == x.intBlocked \ {t}
           q == Append(x.rdy[TASK_Q], t)
           y == [x EXCEPT !.mess[t] = HardInt, !.flags[t] = G, !.intBlocked = B, !.rdy[TASK_Q] = q]
<1>1. G \in FlagSets
  BY DEF Kernel, FlagSets
<1>2. Accepts(x, t, HARDWARE) => interrupt(x, t) = y
  BY DEF interrupt, HardInt
<1> HIDE DEF G, q, B
<1>3. Interrupted(x, y, t)
  BY <1>1 DEF Interrupted, Kernel, Apart, FlagSets, G, B
<1> QED BY <1>2, <1>3 DEF interrupt

LEMMA TakeOnly ==
  ASSUME NEW x \in Kernel, NEW p \in Procs, NEW s \in Procs
  PROVE  LET k1 == cp_mess(x, s, p)
             k2 == [k1 EXCEPT !.callerq[p] = Dequeue(@, s)]
             y  == Unblock(k2, s, {"SENDING"})
         IN  y \in Kernel /\ Took(x, y, p, s)
<1> DEFINE m == [m_source |-> s, m_type |-> x.mess[s].m_type]
           q == Dequeue(x.callerq[p], s)
           a == [x EXCEPT !.mess[p] = m, !.callerq[p] = q]
           k1 == cp_mess(x, s, p)
           k2 == [k1 EXCEPT !.callerq[p] = Dequeue(@, s)]
           y == Unblock(k2, s, {"SENDING"})
<1>1. m \in Message /\ q \in Seq(Procs)
  BY DequeueType DEF Kernel, Message
<1>2. k2 = a
  BY DEF cp_mess
<1> HIDE DEF m, q, k2
<1>3. /\ a \in Kernel /\ Apart(x, a) /\ a.flags = x.flags
      /\ a.getfrom = x.getfrom /\ a.intBlocked = x.intBlocked
      /\ \A r \in Procs : /\ a.mess[r] = IF r = p THEN m ELSE x.mess[r]
                          /\ a.callerq[r] = IF r = p THEN q ELSE x.callerq[r]
  BY <1>1 DEF Kernel, Apart
<1> HIDE DEF a
<1>4. /\ y \in Kernel /\ FlagsOnly(a, y)
      /\ \A r \in Procs : y.flags[r] = IF r = s THEN a.flags[s] \ {"SENDING"} ELSE a.flags[r]
  <2> DEFINE F == {"SENDING"}
             z == Unblock(a, s, F)
  <2>1. F \in SUBSET Flag
    BY DEF Flag
  <2>2. y = z
    BY <1>2 DEF F
  <2> HIDE DEF F, y
  <2>3. /\ z \in Kernel /\ FlagsOnly(a, z)
        /\ z.flags = [a.flags EXCEPT ![s] = a.flags[s] \ F]
    BY <1>3, <2>1, UnblockOnly
  <2> QED BY <1>3, <2>2, <2>3 DEF F, Kernel
<1> HIDE DEF y
<1>5. Took(x, y, p, s)
  BY <1>3, <1>4 DEF FlagsOnly, Took, Apart, m, q
<1> QED BY <1>4, <1>5 DEF k2, y

LEMMA WaitOnly ==
  ASSUME NEW x \in Kernel, NEW p \in Procs, NEW src \in Procs \cup {ANY}
  PROVE  LET y == Block([x EXCEPT !.getfrom[p] = src], p, {"RECEIVING"})
         IN  y \in Kernel /\ Waiting(x, y, p, src)
<1> DEFINE a == [x EXCEPT !.getfrom[p] = src]
           y == Block(a, p, {"RECEIVING"})
<1>1. /\ a \in Kernel /\ Apart(x, a) /\ a.flags = x.flags
      /\ a.mess = x.mess /\ a.callerq = x.callerq /\ a.intBlocked = x.intBlocked
      /\ \A r \in Procs : a.getfrom[r] = IF r = p THEN src ELSE x.getfrom[r]
  BY DEF Kernel, Apart
<1> HIDE DEF a
<1>2. {"RECEIVING"} \in SUBSET Flag
  BY DEF Flag
<1>3. /\ y \in Kernel /\ FlagsOnly(a, y)
      /\ \A r \in Procs : y.flags[r] = IF r = p THEN a.flags[p] \cup {"RECEIVING"} ELSE a.flags[r]
  BY <1>1, <1>2, BlockOnly
<1> HIDE DEF y
<1>4. Waiting(x, y, p, src)
  BY <1>1, <1>3 DEF FlagsOnly, Waiting, Apart
<1> QED BY <1>3, <1>4 DEF a, y

(* The kernel's message for MM is built in the buffer that SYSTASK has too. *)
Informed(x, y) ==
  /\ y.img = x.img /\ y.shadow = x.shadow /\ y.physio = x.physio
  /\ y.panic = x.panic
  /\ y.getfrom = x.getfrom /\ y.callerq = x.callerq /\ y.intBlocked = x.intBlocked
  /\ \A r \in Procs :
       /\ \A f \in {"P_SLOT_FREE", "SENDING", "RECEIVING", "P_STOP"} :
            f \in y.flags[r] <=> f \in x.flags[r] /\ ~(r = MM_PROC_NR /\ f = "RECEIVING")
       /\ r \in {SYSTASK, HARDWARE} => y.mess[r] = [x.mess[r] EXCEPT !.m_type = "KSIG"]
       /\ r = MM_PROC_NR => y.mess[r] = [m_source |-> HARDWARE, m_type |-> "KSIG"]
       /\ r \notin {SYSTASK, HARDWARE, MM_PROC_NR} => y.mess[r] = x.mess[r]

LEMMA SigDoneOnly ==
  ASSUME NEW x \in Kernel, NEW p \in Procs
  PROVE  LET y == SigDone(x, p)
         IN  /\ y \in Kernel /\ y.getfrom = x.getfrom /\ y.callerq = x.callerq
             /\ y.intBlocked = x.intBlocked /\ y.mess = x.mess /\ y.sigProcs = x.sigProcs
             /\ y.img = x.img /\ y.shadow = x.shadow /\ y.physio = x.physio
             /\ y.panic = x.panic
             /\ \A r \in Procs : y.flags[r] \in {x.flags[r], x.flags[r] \ {"SIG_PENDING"}}
<1> DEFINE n == x.pendcount[p] - 1
           z == [x EXCEPT !.pendcount[p] = n]
           F == {"SIG_PENDING"}
           w == Unblock(z, p, F)
<1>1. CASE x.pendcount[p] = 0
  BY <1>1 DEF SigDone
<1>2. CASE x.pendcount[p] # 0
  <2>1. n \in Nat
    BY <1>2 DEF Kernel
  <2>2. SigDone(x, p) = IF z.pendcount[p] = 0 THEN w ELSE z
    BY <1>2 DEF SigDone
  <2> HIDE DEF n
  <2>3. /\ z \in Kernel /\ z.flags = x.flags /\ z.getfrom = x.getfrom /\ z.callerq = x.callerq
        /\ z.intBlocked = x.intBlocked /\ z.mess = x.mess /\ z.sigProcs = x.sigProcs
        /\ z.img = x.img /\ z.shadow = x.shadow /\ z.physio = x.physio /\ z.panic = x.panic
    BY <2>1 DEF Kernel
  <2>4. F \in SUBSET Flag
    BY DEF Flag
  <2> HIDE DEF z, F
  <2>5. w \in Kernel /\ FlagsOnly(z, w) /\ w.flags = [z.flags EXCEPT ![p] = z.flags[p] \ F]
    BY <2>3, <2>4, UnblockOnly
  <2> HIDE DEF w
  <2>6. \A r \in Procs : w.flags[r] = IF r = p THEN x.flags[r] \ F ELSE x.flags[r]
    <3>1. x.flags \in [Procs -> SUBSET Flag] /\ w.flags = [x.flags EXCEPT ![p] = x.flags[p] \ F]
      BY <2>3, <2>5 DEF Kernel
    <3> QED BY <3>1
  <2>7. \A r \in Procs : w.flags[r] \in {x.flags[r], x.flags[r] \ {"SIG_PENDING"}}
    BY <2>6 DEF F
  <2> QED BY <2>2, <2>3, <2>5, <2>7 DEF FlagsOnly
<1> QED BY <1>1, <1>2

LEMMA InformOnly ==
  ASSUME NEW x \in Kernel, Accepts(x, MM_PROC_NR, HARDWARE), "P_SLOT_FREE" \notin x.flags[MM_PROC_NR]
  PROVE  /\ SigPendingProcs(x) = {} => inform(x) = x
         /\ SigPendingProcs(x) # {} => Informed(x, inform(x))
<1> DEFINE F == First(SigPendingProcs(x))
           p == CHOOSE p \in F : TRUE
           a == Ksig(x)
           c == mini_send(a, HARDWARE, MM_PROC_NR)
           d == Told(c, p)
           e == IF x.pending[p] = {SIGSTKFLT} THEN SigDone(d, p) ELSE d
<1>1. MM_PROC_NR \in Procs /\ HARDWARE \in Procs /\ SigPendingProcs(x) \in SUBSET Procs
  BY Numbers DEF SigPendingProcs
<1>2. SigPendingProcs(x) = {} => inform(x) = x
  BY DEF inform, First
<1> SUFFICES ASSUME SigPendingProcs(x) # {} PROVE Informed(x, inform(x))
  BY <1>2
<1>3. F # {} /\ p \in Procs
  BY <1>1, FirstThere
<1>4. inform(x) = pick_proc(e)
  BY <1>3 DEF inform
<1> HIDE DEF F, p
<1>5. /\ a \in Kernel /\ a.flags = x.flags /\ a.getfrom = x.getfrom /\ a.callerq = x.callerq
      /\ a.intBlocked = x.intBlocked
      /\ a.img = x.img /\ a.shadow = x.shadow /\ a.physio = x.physio /\ a.panic = x.panic
      /\ \A r \in Procs : a.mess[r] = IF r \in {SYSTASK, HARDWARE}
                                      THEN [x.mess[r] EXCEPT !.m_type = "KSIG"] ELSE x.mess[r]
  <2>1. a \in Kernel
    BY KsigType
  <2> QED BY <2>1 DEF Ksig, Kernel
<1> HIDE DEF a
<1>6. Handed(a, c, HARDWARE, MM_PROC_NR) /\ c \in Kernel
  <2>1. ~isuserp(HARDWARE)
    BY DEF isuserp, HARDWARE, LOW_USER
  <2>2. SendResult(a, HARDWARE, MM_PROC_NR) = "OK" /\ Accepts(a, MM_PROC_NR, HARDWARE)
    BY <1>5, <2>1 DEF SendResult, Accepts
  <2> QED BY <1>1, <1>5, <2>2, SendOnly
<1> HIDE DEF c
<1>7. /\ d \in Kernel /\ d.getfrom = c.getfrom /\ d.callerq = c.callerq
      /\ d.intBlocked = c.intBlocked /\ d.mess = c.mess
      /\ d.img = c.img /\ d.shadow = c.shadow /\ d.physio = c.physio /\ d.panic = c.panic
      /\ \A r \in Procs : d.flags[r] = IF r = p THEN c.flags[r] \ {"PENDING"} ELSE c.flags[r]
  <2> DEFINE G == c.flags[p] \ {"PENDING"}
             P == [c EXCEPT !.pending[p] = {}, !.flags[p] = G]
  <2>0. d = P
    BY DEF Told
  <2>1. G \in FlagSets /\ d = P
    BY <1>3, <1>6, <2>0 DEF Kernel, FlagSets
  <2> HIDE DEF G, d
  <2>2. /\ P \in Kernel /\ P.getfrom = c.getfrom /\ P.callerq = c.callerq
        /\ P.intBlocked = c.intBlocked /\ P.mess = c.mess
        /\ P.img = c.img /\ P.shadow = c.shadow /\ P.physio = c.physio /\ P.panic = c.panic
        /\ \A r \in Procs : P.flags[r] = IF r = p THEN G ELSE c.flags[r]
    BY <1>3, <1>6, <2>1 DEF Kernel, FlagSets
  <2> QED BY <2>1, <2>2 DEF G
<1> HIDE DEF d
<1>8. /\ e \in Kernel /\ e.getfrom = d.getfrom /\ e.callerq = d.callerq
      /\ e.intBlocked = d.intBlocked /\ e.mess = d.mess
      /\ e.img = d.img /\ e.shadow = d.shadow /\ e.physio = d.physio /\ e.panic = d.panic
      /\ \A r \in Procs : e.flags[r] \in {d.flags[r], d.flags[r] \ {"SIG_PENDING"}}
  <2> DEFINE S == SigDone(d, p)
  <2>1. /\ S \in Kernel /\ S.getfrom = d.getfrom /\ S.callerq = d.callerq
        /\ S.intBlocked = d.intBlocked /\ S.mess = d.mess
        /\ S.img = d.img /\ S.shadow = d.shadow /\ S.physio = d.physio /\ S.panic = d.panic
        /\ \A r \in Procs : S.flags[r] \in {d.flags[r], d.flags[r] \ {"SIG_PENDING"}}
    BY <1>3, <1>7, SigDoneOnly
  <2>2. e = S \/ e = d
    OBVIOUS
  <2> HIDE DEF S, e
  <2>3. CASE e = S
    BY <2>1, <2>3
  <2>4. CASE e = d
    BY <1>7, <2>4
  <2> QED BY <2>2, <2>3, <2>4
<1> HIDE DEF e
<1>9. SameTable(e, pick_proc(e))
  BY <1>8, PickSame
<1> DEFINE y == pick_proc(e)
<1>10. /\ y.getfrom = x.getfrom /\ y.callerq = x.callerq /\ y.intBlocked = x.intBlocked
       /\ y.img = x.img /\ y.shadow = x.shadow /\ y.physio = x.physio /\ y.panic = x.panic
       /\ y.mess = c.mess /\ y.flags = e.flags
  BY <1>5, <1>6, <1>7, <1>8, <1>9 DEF SameTable, Handed, Apart
<1> HIDE DEF y
<1>11. ASSUME NEW r \in Procs, NEW f \in {"P_SLOT_FREE", "SENDING", "RECEIVING", "P_STOP"}
       PROVE  f \in y.flags[r] <=> f \in x.flags[r] /\ ~(r = MM_PROC_NR /\ f = "RECEIVING")
  <2>1. f \in c.flags[r] <=> f \in x.flags[r] /\ ~(r = MM_PROC_NR /\ f = "RECEIVING")
    BY <1>5, <1>6 DEF Handed
  <2>2. f \in d.flags[r] <=> f \in c.flags[r]
    BY <1>7
  <2>3. f \in e.flags[r] <=> f \in d.flags[r]
    BY <1>8
  <2> QED BY <1>10, <2>1, <2>2, <2>3
<1>12. ASSUME NEW r \in Procs
       PROVE  /\ r \in {SYSTASK, HARDWARE} => y.mess[r] = [x.mess[r] EXCEPT !.m_type = "KSIG"]
              /\ r = MM_PROC_NR => y.mess[r] = [m_source |-> HARDWARE, m_type |-> "KSIG"]
              /\ r \notin {SYSTASK, HARDWARE, MM_PROC_NR} => y.mess[r] = x.mess[r]
  <2>1. MM_PROC_NR \notin {SYSTASK, HARDWARE}
    BY DEF MM_PROC_NR, SYSTASK, HARDWARE
  <2>2. a.mess[HARDWARE].m_type = "KSIG"
    BY <1>1, <1>5 DEF Kernel, Message
  <2>3. c.mess[r] = IF r = MM_PROC_NR THEN [m_source |-> HARDWARE, m_type |-> "KSIG"] ELSE a.mess[r]
    BY <1>6, <2>2 DEF Handed
  <2> QED BY <1>5, <1>10, <2>1, <2>3
<1>13. Informed(x, y)
  BY <1>10, <1>11, <1>12 DEF Informed
<1> QED BY <1>4, <1>13 DEF y

LEMMA RecOnly ==
  ASSUME NEW x \in Kernel, NEW p \in Procs, NEW src \in Procs \cup {ANY}
  PROVE  LET y == mini_rec(x, p, src)
         IN  \/ /\ "SENDING" \notin x.flags[p]
                /\ \E s \in Procs : /\ InQueue(x.callerq[p], s) /\ src \in {ANY, s}
                                    /\ Took(x, y, p, s)
             \/ /\ p \in x.intBlocked /\ src \in {ANY, HARDWARE}
                /\ y = [x EXCEPT !.intBlocked = @ \ {p}, !.mess[p] = HardInt]
             \/ y = Await(x, p, src)
<1> DEFINE q == x.callerq[p]
           s == IF src = ANY THEN Head(q) ELSE src
           k1 == cp_mess(x, s, p)
           k2 == [k1 EXCEPT !.callerq[p] = Dequeue(@, s)]
           w == Unblock(k2, s, {"SENDING"})
<1>1. ASSUME "SENDING" \notin x.flags[p], q # <<>>, src = ANY \/ InQueue(q, src)
      PROVE  InQueue(q, s) /\ s \in Procs /\ src \in {ANY, s} /\ Took(x, w, p, s)
  <2>1. q \in Seq(Procs)
    BY DEF Kernel
  <2>2. InQueue(q, s) /\ s \in Procs /\ src \in {ANY, s}
    BY <1>1, <2>1, HeadIn, InQueueType
  <2> QED BY <2>2, TakeOnly
<1>2. \/ /\ "SENDING" \notin x.flags[p] /\ q # <<>> /\ (src = ANY \/ InQueue(q, src))
         /\ mini_rec(x, p, src) = w
      \/ /\ p \in x.intBlocked /\ src \in {ANY, HARDWARE}
         /\ mini_rec(x, p, src) = [x EXCEPT !.intBlocked = @ \ {p}, !.mess[p] = HardInt]
      \/ mini_rec(x, p, src) = Await(x, p, src)
  BY DEF mini_rec, HardInt
<1> HIDE DEF w, s
<1> QED BY <1>1, <1>2

LEMMA AwaitDoes ==
  ASSUME NEW x, Kept(x), NEW p \in Live, NEW src \in Procs \cup {ANY}, MayReceive(x, p, src)
  PROVE  \/ /\ ~(x.sigProcs > 0 /\ p = MM_PROC_NR /\ src = ANY)
            /\ Waiting(x, Await(x, p, src), p, src)
         \/ /\ p = MM_PROC_NR /\ src = ANY
            /\ \E z \in Kernel : Waiting(x, z, p, src) /\ Informed(z, Await(x, p, src))
<1> DEFINE w == Block([x EXCEPT !.getfrom[p] = src], p, {"RECEIVING"})
<1>1. x \in Kernel /\ p \in Procs
  BY LiveProcs DEF Kept
<1>2. w \in Kernel /\ Waiting(x, w, p, src)
  BY <1>1, WaitOnly
<1>3. Await(x, p, src) = IF w.sigProcs > 0 /\ p = MM_PROC_NR /\ src = ANY THEN inform(w) ELSE w
  BY DEF Await
<1> HIDE DEF w
<1>4. w.sigProcs = x.sigProcs
  BY <1>2 DEF Waiting, Apart
<1>5. ASSUME x.sigProcs > 0, p = MM_PROC_NR, src = ANY PROVE Informed(w, inform(w))
  <2>1. Accepts(w, MM_PROC_NR, HARDWARE) /\ "P_SLOT_FREE" \notin w.flags[MM_PROC_NR]
    <3>1. w.flags[p] = x.flags[p] \cup {"RECEIVING"} /\ w.getfrom[p] = ANY
      BY <1>1, <1>2, <1>5 DEF Waiting
    <3>2. "SENDING" \notin x.flags[p] /\ "P_SLOT_FREE" \notin x.flags[p]
      BY <1>5 DEF MayReceive
    <3> QED BY <1>5, <3>1, <3>2 DEF Accepts
  <2>2. SigPendingProcs(w) # {}
    <3>1. PICK r \in Procs : x.pending[r] # {}
      <4>1. Cardinality({i \in Procs : x.pending[i] # {}}) # 0
        BY <1>5 DEF Kept, TableKept, Books
      <4>2. {i \in Procs : x.pending[i] # {}} # {}
        BY <4>1, FS_EmptySet
      <4> QED BY <4>2
    <3>2. r \in Users /\ "PENDING" \in x.flags[r]
      BY <3>1 DEF Kept, TableKept, Books, With
    <3>3. "PENDING" \in w.flags[r]
      BY <1>2, <3>1, <3>2 DEF Waiting
    <3> QED BY <3>2, <3>3 DEF SigPendingProcs
  <2> QED BY <1>2, <2>1, <2>2, InformOnly
<1>6. CASE x.sigProcs > 0 /\ p = MM_PROC_NR /\ src = ANY
  BY <1>2, <1>3, <1>4, <1>5, <1>6
<1>7. CASE ~(x.sigProcs > 0 /\ p = MM_PROC_NR /\ src = ANY)
  BY <1>2, <1>3, <1>4, <1>7
<1> QED BY <1>6, <1>7

(* What mini_rec does for p, which runs or has just got in line *)
Received(x, y, p, src) ==
  \/ \E s \in Procs : /\ InQueue(x.callerq[p], s) /\ src \in {ANY, s}
                      /\ Took(x, y, p, s)
  \/ /\ p \in x.intBlocked /\ src \in {ANY, HARDWARE}
     /\ y = [x EXCEPT !.intBlocked = @ \ {p}, !.mess[p] = HardInt]
  \/ ~(x.sigProcs > 0 /\ p = MM_PROC_NR /\ src = ANY) /\ Waiting(x, y, p, src)
  \/ /\ p = MM_PROC_NR /\ src = ANY
     /\ \E z \in Kernel : Waiting(x, z, p, src) /\ Informed(z, y)

LEMMA RecDoes ==
  ASSUME NEW x, Kept(x), NEW p \in Live, NEW src \in Procs \cup {ANY}, MayReceive(x, p, src)
  PROVE  Received(x, mini_rec(x, p, src), p, src)
<1> DEFINE y == mini_rec(x, p, src)
<1> SUFFICES Received(x, y, p, src)
  OBVIOUS
<1>1. x \in Kernel /\ p \in Procs
  BY LiveProcs DEF Kept
<1>2. \/ \E s \in Procs : InQueue(x.callerq[p], s) /\ src \in {ANY, s} /\ Took(x, y, p, s)
      \/ /\ p \in x.intBlocked /\ src \in {ANY, HARDWARE}
         /\ y = [x EXCEPT !.intBlocked = @ \ {p}, !.mess[p] = HardInt]
      \/ y = Await(x, p, src)
  BY <1>1, RecOnly
<1> HIDE DEF y
<1>3. CASE y = Await(x, p, src)
  <2> DEFINE w == Await(x, p, src)
  <2>1. \/ ~(x.sigProcs > 0 /\ p = MM_PROC_NR /\ src = ANY) /\ Waiting(x, w, p, src)
        \/ /\ p = MM_PROC_NR /\ src = ANY
           /\ \E z \in Kernel : Waiting(x, z, p, src) /\ Informed(z, w)
    BY AwaitDoes
  <2> HIDE DEF w
  <2>2. Received(x, w, p, src)
    BY <2>1 DEF Received
  <2> QED BY <1>3, <2>2 DEF w
<1>4. ASSUME NEW s \in Procs, InQueue(x.callerq[p], s), src \in {ANY, s}, Took(x, y, p, s)
      PROVE  Received(x, y, p, src)
  BY <1>4 DEF Received
<1>5. CASE /\ p \in x.intBlocked /\ src \in {ANY, HARDWARE}
           /\ y = [x EXCEPT !.intBlocked = @ \ {p}, !.mess[p] = HardInt]
  BY <1>5 DEF Received
<1> QED BY <1>2, <1>3, <1>4, <1>5

(* The sources and destinations of a call that are let in by the rules *)
MayDo(x, f, d) ==
  \/ f = "RECEIVE"
  \/ d \in Tasks \cup Servers /\ d # x.cur
  \/ f = "SEND" /\ d \in Live /\ (Accepts(x, d, x.cur) \/ "P_SLOT_FREE" \in x.flags[d])

(* What sys_call does for p: a has p's message in the buffer, b is sent. *)
Called(x, y, a, p, f, d) ==
  /\ Kept(a) /\ Unmoved(x, a)
  /\ \E b :
       /\ Kept(b)
       /\ b = a \/ (d \in Procs /\ Handed(a, b, p, d)) \/ (d \in Procs /\ InLine(a, b, p, d))
       /\ f = "RECEIVE" => b = a
       /\ \/ y = b
          \/ /\ f # "RECEIVE" => d \in Tasks \cup Servers
             /\ MayReceive(b, p, d) /\ Received(b, y, p, d)

LEMMA SysCallDoes ==
  ASSUME NEW x, Kept(x), x.cur \in Live, NEW f \in Functions, NEW d \in Procs \cup {ANY},
         NEW m \in Message, MayDo(x, f, d)
  PROVE  Called(x, sys_call(x, f, d, m), [x EXCEPT !.mess[x.cur] = m], x.cur, f, d)
<1> DEFINE p == x.cur
           a == [x EXCEPT !.mess[p] = m]
           b == mini_send(a, p, d)
           y == sys_call(x, f, d, m)
<1> SUFFICES Called(x, y, a, p, f, d)
  OBVIOUS
<1>1. x \in Kernel /\ p \in Procs /\ x.flags[p] = {}
  <2>1. p # IDLE
    BY Hardware
  <2> QED BY <2>1, CurRuns, LiveProcs DEF Kept, RunSet
<1>2. /\ a \in Kernel /\ SameFields(x, a) /\ Unmoved(x, a)
      /\ a.rdy = x.rdy /\ a.cur = x.cur /\ a.shadow = x.shadow
  BY <1>1 DEF Kernel, SameFields, Unmoved, WaitsForFs
<1>3. \/ y = a
      \/ f = "RECEIVE" /\ y = mini_rec(a, p, d)
      \/ f # "RECEIVE" /\ y = b
      \/ f = "BOTH" /\ y = mini_rec(b, p, d)
  BY DEF sys_call, Functions
<1> HIDE DEF a, y
<1>4. Kept(a) /\ a.flags = x.flags /\ a.getfrom = x.getfrom
  BY <1>2, OtherKept DEF SameFields
<1>5. ASSUME f = "RECEIVE" PROVE MayReceive(a, p, d) /\ Received(a, mini_rec(a, p, d), p, d)
  <2>1. MayReceive(a, p, d)
    BY <1>1, <1>4 DEF MayReceive
  <2> QED BY <1>4, <2>1, RecDoes
<1>6. ASSUME f # "RECEIVE"
      PROVE  Kept(b) /\ d \in Procs /\ (b = a \/ Handed(a, b, p, d) \/ InLine(a, b, p, d))
  <2>1. d \in Live /\ d \in Procs
    BY <1>6, LiveProcs DEF Live, MayDo
  <2>2. \/ d \notin Users /\ d # p
        \/ Accepts(a, d, p)
        \/ "P_SLOT_FREE" \in a.flags[d]
    <3>1. \A r \in Tasks \cup Servers : r \notin Users
      BY TasksAssumption DEF Servers, Users, MM_PROC_NR, FS_PROC_NR, LOW_USER
    <3> QED BY <1>4, <1>6, <3>1 DEF Accepts, MayDo
  <2>3. Kept(b)
    BY <1>1, <1>4, <2>1, <2>2, SendKept
  <2> QED BY <1>1, <1>2, <2>1, <2>3, SendOnly
<1>7. ASSUME f = "BOTH"
      PROVE  d \in Tasks \cup Servers /\ MayReceive(b, p, d) /\ Received(b, mini_rec(b, p, d), p, d)
  <2>1. d \in Tasks \cup Servers /\ d \in Live /\ d # p /\ d \notin Users /\ d # ANY
    <3>1. \A r \in Tasks \cup Servers : r \notin Users /\ r # ANY /\ r \in Live
      BY TasksAssumption, Hardware, Numbers
         DEF Servers, Users, Live, MM_PROC_NR, FS_PROC_NR, LOW_USER
    <3> QED BY <1>7, <3>1 DEF MayDo
  <2>2. b.flags[p] \subseteq {"SENDING"}
    BY <1>1, <1>4, <2>1, SenderFlags
  <2>3. Kept(b)
    BY <1>6, <1>7
  <2> HIDE DEF b
  <2>4. MayReceive(b, p, d)
    BY <2>1, <2>2 DEF MayReceive
  <2> QED BY <2>1, <2>3, <2>4, RecDoes
<1> HIDE DEF b
<1>8. CASE y = a
  BY <1>2, <1>4, <1>8 DEF Called
<1>9. CASE f = "RECEIVE" /\ y = mini_rec(a, p, d)
  BY <1>2, <1>4, <1>5, <1>9 DEF Called
<1>10. CASE f # "RECEIVE" /\ y = b
  BY <1>2, <1>4, <1>6, <1>10 DEF Called
<1>11. CASE f = "BOTH" /\ y = mini_rec(b, p, d)
  <2>1. f # "RECEIVE"
    BY <1>11
  <2> QED BY <1>2, <1>4, <1>6, <1>7, <1>11, <2>1 DEF Called
<1> QED BY <1>3, <1>8, <1>9, <1>10, <1>11

-----------------------------------------------------------------------------
(* No routine that passes messages moves anybody. *)

LEMMA UnmovedTwice ==
  ASSUME NEW x, NEW y, NEW z, Unmoved(x, y), Unmoved(y, z) PROVE Unmoved(x, z)
BY DEF Unmoved

LEMMA UnmovedSame == ASSUME NEW x, NEW y, SameTable(x, y) PROVE Unmoved(x, y)
BY DEF SameTable, Unmoved, WaitsForFs

LEMMA UnmovedHanded ==
  ASSUME NEW x, NEW y, NEW p, NEW d \in Procs, Handed(x, y, p, d),
         p = FS_PROC_NR => d \notin Users \cap x.physio
  PROVE  Unmoved(x, y)
<1>1. \A r \in Procs : "P_SLOT_FREE" \in y.flags[r] <=> "P_SLOT_FREE" \in x.flags[r]
  BY DEF Handed
<1>2. ASSUME NEW u \in Users \cap x.physio, WaitsForFs(x, u) PROVE WaitsForFs(y, u)
  <2>1. u # d
    <3>1. FS_PROC_NR # ANY
      BY ProcsAssumption DEF FS_PROC_NR, ANY
    <3> QED BY <1>2, <3>1 DEF Handed, Accepts, WaitsForFs
  <2>2. u \in Procs
    BY Numbers
  <2> QED BY <1>2, <2>1, <2>2 DEF Handed, WaitsForFs
<1> QED BY <1>1, <1>2 DEF Unmoved, Handed, Apart

LEMMA UnmovedInLine ==
  ASSUME NEW x, NEW y, NEW p \in Procs, NEW d, InLine(x, y, p, d), x.flags[p] = {}
  PROVE  Unmoved(x, y)
<1>1. \A r \in Procs : "P_SLOT_FREE" \in y.flags[r] <=> "P_SLOT_FREE" \in x.flags[r]
  BY DEF InLine
<1>2. ASSUME NEW u \in Users \cap x.physio, WaitsForFs(x, u) PROVE WaitsForFs(y, u)
  <2>1. u # p /\ u \in Procs
    BY <1>2, Numbers DEF WaitsForFs
  <2> QED BY <1>2, <2>1 DEF InLine, WaitsForFs
<1> QED BY <1>1, <1>2 DEF Unmoved, InLine, Apart

LEMMA UnmovedTook ==
  ASSUME NEW x, NEW y, NEW p, NEW s \in Procs, Took(x, y, p, s), "SENDING" \in x.flags[s]
  PROVE  Unmoved(x, y)
<1>1. \A r \in Procs : "P_SLOT_FREE" \in y.flags[r] <=> "P_SLOT_FREE" \in x.flags[r]
  BY DEF Took
<1>2. ASSUME NEW u \in Users \cap x.physio, WaitsForFs(x, u) PROVE WaitsForFs(y, u)
  <2>1. u # s /\ u \in Procs
    BY <1>2, Numbers DEF WaitsForFs
  <2> QED BY <1>2, <2>1 DEF Took, WaitsForFs
<1> QED BY <1>1, <1>2 DEF Unmoved, Took, Apart

LEMMA UnmovedInterrupted ==
  ASSUME NEW x, NEW y, NEW t \in Procs \ Users, Interrupted(x, y, t)
  PROVE  Unmoved(x, y)
<1>1. \A r \in Procs : "P_SLOT_FREE" \in y.flags[r] <=> "P_SLOT_FREE" \in x.flags[r]
  BY DEF Interrupted
<1>2. ASSUME NEW u \in Users \cap x.physio, WaitsForFs(x, u) PROVE WaitsForFs(y, u)
  BY <1>2, Numbers DEF Interrupted, WaitsForFs
<1> QED BY <1>1, <1>2 DEF Unmoved, Interrupted, Apart

LEMMA UnmovedWaiting ==
  ASSUME NEW x, NEW y, NEW p \in Procs, NEW src, Waiting(x, y, p, src),
         "RECEIVING" \notin x.flags[p]
  PROVE  Unmoved(x, y)
<1>1. \A r \in Procs : "P_SLOT_FREE" \in y.flags[r] <=> "P_SLOT_FREE" \in x.flags[r]
  BY DEF Waiting
<1>2. ASSUME NEW u \in Users \cap x.physio, WaitsForFs(x, u) PROVE WaitsForFs(y, u)
  <2>1. u # p /\ u \in Procs
    BY <1>2, Numbers DEF WaitsForFs
  <2> QED BY <1>2, <2>1 DEF Waiting, WaitsForFs
<1> QED BY <1>1, <1>2 DEF Unmoved, Waiting, Apart

LEMMA UnmovedInformed ==
  ASSUME NEW x, NEW y, Informed(x, y) PROVE Unmoved(x, y)
<1>1. \A r \in Procs : "P_SLOT_FREE" \in y.flags[r] <=> "P_SLOT_FREE" \in x.flags[r]
  BY DEF Informed
<1>2. ASSUME NEW u \in Users \cap x.physio, WaitsForFs(x, u) PROVE WaitsForFs(y, u)
  <2>1. u # MM_PROC_NR /\ u \in Procs
    BY Numbers DEF MM_PROC_NR, Users, LOW_USER
  <2> QED BY <1>2, <2>1 DEF Informed, WaitsForFs
<1> QED BY <1>1, <1>2 DEF Unmoved, Informed

LEMMA UnmovedReceived ==
  ASSUME NEW x, Kept(x), NEW y, NEW p \in Procs, NEW src, MayReceive(x, p, src),
         Received(x, y, p, src)
  PROVE  Unmoved(x, y)
<1>1. x \in Kernel /\ "RECEIVING" \notin x.flags[p]
  BY DEF Kept, MayReceive
<1>2. ASSUME NEW s \in Procs, InQueue(x.callerq[p], s), Took(x, y, p, s) PROVE Unmoved(x, y)
  <2>1. "SENDING" \in x.flags[s]
    BY <1>2 DEF Kept, TableKept, Sends, With
  <2> QED BY <1>2, <2>1, UnmovedTook
<1>3. ASSUME y = [x EXCEPT !.intBlocked = @ \ {p}, !.mess[p] = HardInt] PROVE Unmoved(x, y)
  BY <1>1, <1>3 DEF Unmoved, Kernel, WaitsForFs
<1>4. ASSUME NEW z, Waiting(x, z, p, src), Informed(z, y) PROVE Unmoved(x, y)
  BY <1>1, <1>4, UnmovedWaiting, UnmovedInformed, UnmovedTwice
<1>5. ASSUME Waiting(x, y, p, src) PROVE Unmoved(x, y)
  BY <1>1, <1>5, UnmovedWaiting
<1> QED BY <1>2, <1>3, <1>4, <1>5 DEF Received

LEMMA UnmovedSysCall ==
  ASSUME NEW x, Kept(x), x.cur \in Live, NEW f \in Functions, NEW d \in Procs \cup {ANY},
         NEW m \in Message, MayDo(x, f, d),
         f # "RECEIVE" /\ x.cur = FS_PROC_NR => d \notin Users \cap x.physio
  PROVE  Unmoved(x, sys_call(x, f, d, m))
<1> DEFINE p == x.cur
           a == [x EXCEPT !.mess[p] = m]
           y == sys_call(x, f, d, m)
<1>0. Called(x, y, a, p, f, d) /\ p \in Procs
  BY SysCallDoes, LiveProcs
<1>3. a.flags[p] = {} /\ a.physio = x.physio
  <2>1. p # IDLE
    BY Hardware
  <2>2. x \in Kernel /\ x.flags[p] = {}
    BY <2>1, CurRuns DEF Kept, RunSet
  <2> QED BY <2>2 DEF Kernel
<1> HIDE DEF a, y
<1>1. Kept(a) /\ Unmoved(x, a) /\ p \in Procs
  BY <1>0 DEF Called
<1>2. PICK b : /\ Kept(b)
               /\ b = a \/ (d \in Procs /\ Handed(a, b, p, d)) \/ (d \in Procs /\ InLine(a, b, p, d))
               /\ f = "RECEIVE" => b = a
               /\ y = b \/ (MayReceive(b, p, d) /\ Received(b, y, p, d))
  BY <1>0 DEF Called
<1>4. Unmoved(a, b)
  <2>1. Unmoved(a, a)
    BY DEF Unmoved
  <2> QED BY <1>1, <1>2, <1>3, <2>1, UnmovedHanded, UnmovedInLine
<1>5. y = b \/ Unmoved(b, y)
  BY <1>1, <1>2, UnmovedReceived
<1> QED BY <1>1, <1>4, <1>5, UnmovedTwice DEF y

-----------------------------------------------------------------------------
(* Signals *)

(* Signals of p are on record, nothing else is changed. *)
Raised(x, y) ==
  /\ y.getfrom = x.getfrom /\ y.callerq = x.callerq
  /\ y.mess = x.mess /\ y.intBlocked = x.intBlocked
  /\ y.img = x.img /\ y.shadow = x.shadow /\ y.physio = x.physio
  /\ y.panic = x.panic
  /\ \A r \in Procs : \A f \in {"P_SLOT_FREE", "SENDING", "RECEIVING", "P_STOP"} :
       f \in y.flags[r] <=> f \in x.flags[r]

MmWaits(x) == "RECEIVING" \in x.flags[MM_PROC_NR] /\ x.getfrom[MM_PROC_NR] = ANY

LEMMA UnmovedRaised == ASSUME NEW x, NEW y, Raised(x, y) PROVE Unmoved(x, y)
<1>1. \A u \in Users : u \in Procs
  BY Numbers
<1> QED BY <1>1 DEF Raised, Unmoved, WaitsForFs

LEMMA CauseSigDoes ==
  ASSUME NEW x, Kept(x), NEW p \in Users, NEW sig \in Sigs, "P_SLOT_FREE" \notin x.flags[p]
  PROVE  LET y == cause_sig(x, p, sig)
         IN  \E z \in Kernel :
               /\ Raised(x, z)
               /\ \/ MmWaits(z) /\ Informed(z, y)
                  \/ z = y /\ (~MmWaits(y) \/ y.sigProcs = x.sigProcs)
<1> DEFINE P == x.pending[p] \cup {sig}
           n == x.pendcount[p] + 1
           F == {"PENDING", "SIG_PENDING"}
           a == [x EXCEPT !.pending[p] = P, !.pendcount[p] = n]
           b == Block(a, p, F)
           c == [b EXCEPT !.sigProcs = b.sigProcs + 1]
           y == cause_sig(x, p, sig)
           Does(z) == /\ z \in Kernel /\ Raised(x, z)
                      /\ \/ MmWaits(z) /\ Informed(z, y)
                         \/ z = y /\ (~MmWaits(y) \/ y.sigProcs = x.sigProcs)
<1> SUFFICES \E z : Does(z)
  OBVIOUS
<1>1. x \in Kernel /\ p \in Procs
  BY Numbers DEF Kept
<1>2. P \in SUBSET Sigs /\ n \in Nat
  BY <1>1 DEF Kernel
<1>3. \/ y = x
      \/ y = a
      \/ ~MmWaits(c) /\ y = c
      \/ MmWaits(c) /\ y = inform(c)
  BY DEF cause_sig, MmWaits
<1> HIDE DEF P, n, y
<1>4. a \in Kernel /\ Raised(x, a) /\ a.flags = x.flags /\ a.sigProcs = x.sigProcs
  BY <1>1, <1>2 DEF Kernel, Raised
<1> HIDE DEF a
<1>5. F \in SUBSET Flag
  BY DEF Flag
<1>6. /\ b \in Kernel /\ FlagsOnly(a, b)
      /\ \A r \in Procs : b.flags[r] = IF r = p THEN a.flags[p] \cup F ELSE a.flags[r]
  BY <1>1, <1>4, <1>5, BlockOnly
<1> HIDE DEF b
<1>7. /\ c \in Kernel /\ c.flags = b.flags /\ c.getfrom = b.getfrom /\ c.callerq = b.callerq
      /\ c.mess = b.mess /\ c.intBlocked = b.intBlocked
      /\ c.img = b.img /\ c.shadow = b.shadow /\ c.physio = b.physio /\ c.panic = b.panic
  <2> DEFINE s == b.sigProcs + 1
  <2>1. s \in Int
    BY <1>6 DEF Kernel
  <2> HIDE DEF s
  <2>2. LET d == [b EXCEPT !.sigProcs = s]
        IN  /\ d \in Kernel /\ d.flags = b.flags /\ d.getfrom = b.getfrom /\ d.callerq = b.callerq
            /\ d.mess = b.mess /\ d.intBlocked = b.intBlocked
            /\ d.img = b.img /\ d.shadow = b.shadow /\ d.physio = b.physio /\ d.panic = b.panic
    BY <1>6, <2>1 DEF Kernel
  <2> QED BY <2>2 DEF s
<1> HIDE DEF c
<1>8. Raised(x, c)
  <2>1. ASSUME NEW r \in Procs, NEW f \in {"P_SLOT_FREE", "SENDING", "RECEIVING", "P_STOP"}
        PROVE  f \in c.flags[r] <=> f \in x.flags[r]
    BY <1>4, <1>6, <1>7
  <2> QED BY <1>4, <1>6, <1>7, <2>1 DEF Raised, FlagsOnly
<1>9. CASE y = x
  <2>1. Raised(x, x)
    BY DEF Raised
  <2> QED BY <1>1, <1>9, <2>1
<1>10. CASE y = a
  BY <1>4, <1>10
<1>11. CASE ~MmWaits(c) /\ y = c
  BY <1>7, <1>8, <1>11
<1>12. CASE MmWaits(c) /\ y = inform(c)
  <2>1. c.flags[p] = x.flags[p] \cup F
    BY <1>1, <1>4, <1>6, <1>7
  <2>2. SigPendingProcs(c) # {}
    BY <2>1 DEF SigPendingProcs
  <2>3. Accepts(c, MM_PROC_NR, HARDWARE) /\ "P_SLOT_FREE" \notin c.flags[MM_PROC_NR]
    <3>1. MM_PROC_NR \in Procs /\ MM_PROC_NR \in Servers
      BY Numbers DEF Servers
    <3>2. "RECEIVING" \in x.flags[MM_PROC_NR] /\ x.getfrom[MM_PROC_NR] = ANY
      BY <1>8, <1>12, <3>1 DEF Raised, MmWaits
    <3>3. "SENDING" \notin x.flags[MM_PROC_NR] /\ "P_SLOT_FREE" \notin x.flags[MM_PROC_NR]
      BY <3>1, <3>2 DEF Kept, TableKept, FlagsKept
    <3> QED BY <1>8, <1>12, <3>1, <3>3 DEF Raised, MmWaits, Accepts
  <2>4. Informed(c, y)
    BY <1>7, <1>12, <2>2, <2>3, InformOnly
  <2> QED BY <1>7, <1>8, <1>12, <2>4
<1> HIDE DEF Does
<1> QED BY <1>3, <1>9, <1>10, <1>11, <1>12

LEMMA UnmovedCauseSig ==
  ASSUME NEW x, Kept(x), NEW p \in Users, NEW sig \in Sigs, "P_SLOT_FREE" \notin x.flags[p]
  PROVE  Unmoved(x, cause_sig(x, p, sig))
<1> DEFINE y == cause_sig(x, p, sig)
<1>1. PICK z \in Kernel : Raised(x, z) /\ (Informed(z, y) \/ z = y)
  BY CauseSigDoes
<1> HIDE DEF y
<1>2. Unmoved(x, y)
  BY <1>1, UnmovedRaised, UnmovedInformed, UnmovedTwice
<1> QED BY <1>2 DEF y

-----------------------------------------------------------------------------
(* Steps of SYSTASK *)

(* The rest of a step of SYSTASK puts the reply in m. *)
Replied(x, y) ==
  /\ y.flags = x.flags /\ y.getfrom = x.getfrom /\ y.callerq = x.callerq
  /\ y.intBlocked = x.intBlocked /\ y.sigProcs = x.sigProcs /\ y.pending = x.pending
  /\ y.img = x.img /\ y.shadow = x.shadow /\ y.physio = x.physio
  /\ y.panic = x.panic
  /\ \A r \in Procs : r # SYSTASK => y.mess[r] = x.mess[r]

LEMMA ServeDoes ==
  ASSUME NEW s, NEW c, NEW y, Kept(y), Serve(s, c, y)
  PROVE  Replied(y, k') /\ Unmoved(y, k') /\ k.cur = SYSTASK /\ k.panic = "none" /\ unholding' = unholding
<1> DEFINE z == [y EXCEPT !.mess[SYSTASK].m_type = "reply"]
<1>1. Replied(y, z)
  BY DEF Kept, Kernel, Replied
<1>2. k' = z /\ k.cur = SYSTASK /\ k.panic = "none" /\ unholding' = unholding
  BY DEF Serve, Work, Running
<1> HIDE DEF z
<1>3. Unmoved(y, z)
  BY <1>1 DEF Replied, Unmoved, WaitsForFs
<1> QED BY <1>1, <1>2, <1>3

-----------------------------------------------------------------------------
(* Places in memory *)

Owners(x, i) == {v \in Users : /\ "P_SLOT_FREE" \notin x.flags[v] /\ x.img[v] = i
                               /\ v \notin x.shadow}

Owned(x, i) == \E v : Owners(x, i) = {v}

FamilyKept(x) == \A u \in Users : "P_SLOT_FREE" \notin x.flags[u] => Owned(x, x.img[u])

(* A driver uses the memory of users only while they wait for FS. *)
UsersOfDrivers(x) ==
  /\ x.physio \subseteq Users
  /\ \A u \in x.physio : "P_SLOT_FREE" \notin x.flags[u] => WaitsForFs(x, u)

PlacesRight(x) ==
  /\ UsersOfDrivers(x)
  /\ x.panic = "none" => FamilyKept(x)
  /\ x.panic \in {"none", "cannot handle physio shadows"}

(* Who is used by a driver is not moved. *)
Fixed(x, y) ==
  \A u \in x.physio \cap y.physio :
    "P_SLOT_FREE" \notin y.flags[u] => (u \in x.shadow <=> u \in y.shadow)

LEMMA UsersAre == \A u \in Users : u \in Procs /\ u \in Live /\ u \notin Servers /\ u \notin Tasks
BY Numbers, TasksAssumption DEF Live, Users, Servers, MM_PROC_NR, FS_PROC_NR, LOW_USER

LEMMA PlacesUnmoved ==
  ASSUME NEW x, NEW y, PlacesRight(x), Unmoved(x, y)
  PROVE  PlacesRight(y) /\ Fixed(x, y)
<1>1. \A u \in Users : "P_SLOT_FREE" \in y.flags[u] <=> "P_SLOT_FREE" \in x.flags[u]
  BY UsersAre DEF Unmoved
<1>2. \A i : Owners(y, i) = Owners(x, i)
  BY <1>1 DEF Unmoved, Owners
<1>3. FamilyKept(x) => FamilyKept(y)
  BY <1>1, <1>2 DEF Unmoved, FamilyKept, Owned
<1>4. UsersOfDrivers(y)
  BY <1>1 DEF Unmoved, UsersOfDrivers, PlacesRight
<1>5. Fixed(x, y)
  BY DEF Unmoved, Fixed
<1> QED BY <1>3, <1>4, <1>5 DEF Unmoved, PlacesRight

LEMMA PlacesTwice ==
  ASSUME NEW x, NEW y, NEW z, PlacesRight(y), Fixed(x, y), Unmoved(y, z)
  PROVE  PlacesRight(z) /\ Fixed(x, z)
<1>1. PlacesRight(z)
  BY PlacesUnmoved
<1>2. \A u \in y.physio : "P_SLOT_FREE" \in z.flags[u] <=> "P_SLOT_FREE" \in y.flags[u]
  BY UsersAre DEF Unmoved, PlacesRight, UsersOfDrivers
<1>3. Fixed(x, z)
  BY <1>2 DEF Unmoved, Fixed
<1> QED BY <1>1, <1>3

(* rmshadow takes p, or a shadow of his family, out of the shadows. *)
Demoted(x, y, p) ==
  /\ y.flags = x.flags /\ y.getfrom = x.getfrom /\ y.callerq = x.callerq
  /\ y.mess = x.mess /\ y.intBlocked = x.intBlocked
  /\ y.img = x.img /\ y.physio = x.physio
  /\ \/ p \in x.shadow /\ y.shadow = x.shadow \ {p} /\ y.panic = x.panic
     \/ p \notin x.shadow /\ Family(x, p) = {} /\ y.shadow = x.shadow /\ y.panic = x.panic
     \/ \E q \in Family(x, p) :
          /\ p \notin x.shadow
          /\ \/ q \notin x.shadow /\ y.panic = "no shadow?" /\ y.shadow = x.shadow
             \/ y.panic = "cannot handle physio shadows" /\ y.shadow = x.shadow
             \/ q \notin x.physio /\ y.shadow = x.shadow \ {q} /\ y.panic = x.panic

LEMMA RmshadowDoes ==
  ASSUME NEW x \in Kernel, NEW p \in Users
  PROVE  Demoted(x, rmshadow(x, p), p)
<1> DEFINE F == First(Family(x, p))
           q == CHOOSE q \in F : TRUE
           a == IF x.flags[q] = {} THEN unready(x, q) ELSE x
           b == [a EXCEPT !.shadow = a.shadow \ {q}]
           c == IF x.flags[q] = {} THEN ready(b, q) ELSE b
           y == rmshadow(x, p)
<1> SUFFICES Demoted(x, y, p)
  OBVIOUS
<1>1. Family(x, p) \in SUBSET Procs
  BY FamilyType
<1>2. Family(x, p) # {} => F # {} /\ q \in Family(x, p)
  BY <1>1, FirstThere
<1>3. Family(x, p) = {} => F = {}
  BY DEF First
<1>4. /\ p \in x.shadow => y = [x EXCEPT !.shadow = @ \ {p}]
      /\ p \notin x.shadow /\ F = {} => y = x
      /\ p \notin x.shadow /\ F # {} =>
           \/ q \notin x.shadow /\ y = [x EXCEPT !.panic = "no shadow?"]
           \/ y = [x EXCEPT !.panic = "cannot handle physio shadows"]
           \/ q \notin x.physio /\ y = c
  BY DEF rmshadow
<1> HIDE DEF y, F, q
<1>5. CASE p \in x.shadow
  <2>1. y = [x EXCEPT !.shadow = @ \ {p}]
    BY <1>4, <1>5
  <2>2. /\ y.flags = x.flags /\ y.getfrom = x.getfrom /\ y.callerq = x.callerq
        /\ y.mess = x.mess /\ y.intBlocked = x.intBlocked
        /\ y.img = x.img /\ y.physio = x.physio
        /\ y.shadow = x.shadow \ {p} /\ y.panic = x.panic
    BY <2>1 DEF Kernel
  <2> QED BY <1>5, <2>2 DEF Demoted
<1>6. CASE p \notin x.shadow /\ Family(x, p) = {}
  <2>1. y = x
    BY <1>3, <1>4, <1>6
  <2> QED BY <1>6, <2>1 DEF Demoted
<1>7. CASE p \notin x.shadow /\ Family(x, p) # {}
  <2>1. q \in Family(x, p) /\ q \in Procs
    BY <1>1, <1>2, <1>7
  <2> DEFINE Same(w) == /\ w.flags = x.flags /\ w.getfrom = x.getfrom /\ w.callerq = x.callerq
                        /\ w.mess = x.mess /\ w.intBlocked = x.intBlocked
                        /\ w.img = x.img /\ w.physio = x.physio
  <2>2. CASE q \notin x.shadow /\ y = [x EXCEPT !.panic = "no shadow?"]
    <3>1. Same(y) /\ y.shadow = x.shadow /\ y.panic = "no shadow?"
      BY <2>2 DEF Kernel
    <3> QED BY <1>7, <2>1, <2>2, <3>1 DEF Demoted
  <2>3. CASE y = [x EXCEPT !.panic = "cannot handle physio shadows"]
    <3>1. Same(y) /\ y.shadow = x.shadow /\ y.panic = "cannot handle physio shadows"
      BY <2>3 DEF Kernel
    <3> QED BY <1>7, <2>1, <3>1 DEF Demoted
  <2>4. CASE q \notin x.physio /\ y = c
    <3>1. a \in Kernel /\ SameTable(x, a)
      <4>1. SameTable(x, x)
        BY DEF SameTable
      <4> QED BY <2>1, <4>1, UnreadyType, UnreadySame
    <3> HIDE DEF a
    <3>2. b \in Kernel /\ Same(b) /\ b.shadow = x.shadow \ {q} /\ b.panic = x.panic
      BY <3>1 DEF Kernel, SameTable
    <3> HIDE DEF b
    <3>3. SameTable(b, c)
      <4>1. SameTable(b, b)
        BY DEF SameTable
      <4> QED BY <2>1, <3>2, <4>1, ReadySame
    <3> HIDE DEF c
    <3>4. Same(y) /\ y.shadow = x.shadow \ {q} /\ y.panic = x.panic
      BY <2>4, <3>2, <3>3 DEF SameTable
    <3> QED BY <1>7, <2>1, <2>4, <3>4 DEF Demoted
  <2> QED BY <1>2, <1>4, <1>7, <2>2, <2>3, <2>4
<1> QED BY <1>5, <1>6, <1>7

(* Who owns place i when u has left and z has the shadows *)
OwnersBut(x, z, u, i) ==
  {r \in Users \ {u} : "P_SLOT_FREE" \notin x.flags[r] /\ x.img[r] = i /\ r \notin z.shadow}
OwnedBut(x, z, u, i) == \E w : OwnersBut(x, z, u, i) = {w}

(* Without u every other family still has its owner. *)
LEMMA DemotedOwners ==
  ASSUME NEW x, NEW z, FamilyKept(x), x.panic = "none", NEW u \in Users,
         "P_SLOT_FREE" \notin x.flags[u], Demoted(x, z, u)
  PROVE  /\ z.panic \in {"none", "cannot handle physio shadows"}
         /\ z.panic = "none" =>
              \A v \in Users \ {u} : "P_SLOT_FREE" \notin x.flags[v] =>
                OwnedBut(x, z, u, x.img[v])
<1> DEFINE Other(i) == OwnersBut(x, z, u, i)
<1>1. z.panic \in {"none", "cannot handle physio shadows"}
  <2>1. ASSUME NEW q \in Family(x, u), u \notin x.shadow PROVE q \in x.shadow
    <3>1. PICK w : Owners(x, x.img[u]) = {w}
      BY DEF FamilyKept, Owned
    <3>2. u \in Owners(x, x.img[u])
      BY <2>1 DEF Owners
    <3>3. q \in Users /\ q # u /\ "P_SLOT_FREE" \notin x.flags[q] /\ x.img[q] = x.img[u]
      BY DEF Family
    <3>4. q \notin x.shadow => q \in Owners(x, x.img[u])
      BY <3>3 DEF Owners
    <3> QED BY <3>1, <3>2, <3>3, <3>4
  <2> QED BY <2>1 DEF Demoted
<1>2. ASSUME NEW v \in Users \ {u}, "P_SLOT_FREE" \notin x.flags[v], z.panic = "none"
      PROVE  \E w : Other(x.img[v]) = {w}
  <2> DEFINE i == x.img[v]
  <2>1. PICK w : Owners(x, i) = {w}
    BY <1>2 DEF FamilyKept, Owned
  <2>2. CASE i # x.img[u]
    <3>1. \A r \in Users : x.img[r] = i => (r \in z.shadow <=> r \in x.shadow) /\ r # u
      BY <2>2 DEF Demoted, Family
    <3>2. Other(i) = Owners(x, i)
      BY <3>1 DEF Owners, OwnersBut
    <3> QED BY <2>1, <3>2
  <2>3. CASE i = x.img[u] /\ u \in x.shadow
    <3>1. z.shadow = x.shadow \ {u}
      BY <2>3 DEF Demoted
    <3>2. Other(i) = Owners(x, i)
      BY <2>3, <3>1 DEF Owners, OwnersBut
    <3> QED BY <2>1, <3>2
  <2>4. CASE i = x.img[u] /\ u \notin x.shadow
    <3>1. u \in Owners(x, i)
      BY <2>4 DEF Owners
    <3>2. v \in Family(x, u)
      BY <1>2, <2>4 DEF Family
    <3>3. PICK q \in Family(x, u) : z.shadow = x.shadow \ {q}
      BY <1>2, <2>4, <3>2 DEF Demoted
    <3>4. q \in Users \ {u} /\ "P_SLOT_FREE" \notin x.flags[q] /\ x.img[q] = i
      BY <2>4, <3>3 DEF Family
    <3>5. q \in Other(i)
      BY <3>3, <3>4 DEF OwnersBut
    <3>6. ASSUME NEW r \in Other(i), r # q PROVE FALSE
      <4>1. r \in Owners(x, i) /\ r # u
        BY <3>3, <3>6 DEF Owners, OwnersBut
      <4> QED BY <2>1, <3>1, <4>1
    <3>7. Other(i) = {q}
      BY <3>5, <3>6
    <3> QED BY <3>7
  <2> QED BY <2>2, <2>3, <2>4
<1> QED BY <1>1, <1>2 DEF OwnedBut

(* c has left: his slot is free. *)
Gone(x, y, c) ==
  /\ y.getfrom = x.getfrom /\ y.mess = x.mess /\ y.intBlocked = x.intBlocked
  /\ \A r \in Procs : /\ y.flags[r] = IF r = c THEN {"P_SLOT_FREE"} ELSE x.flags[r]
                      /\ y.callerq[r] \in {x.callerq[r], Dequeue(x.callerq[r], c)}

LEMMA XitDoes ==
  ASSUME NEW x \in Kernel, NEW c \in Users
  PROVE  /\ Gone(x, do_xit(x, c), c)
         /\ \E z : /\ Demoted(x, z, c)
                  /\ do_xit(x, c).img = z.img /\ do_xit(x, c).physio = z.physio
                  /\ do_xit(x, c).shadow = z.shadow /\ do_xit(x, c).panic = z.panic
<1> DEFINE a == IF x.flags[c] = {} THEN unready(x, c) ELSE x
           z == rmshadow(a, c)
           b == IF "SENDING" \in z.flags[c] THEN Unlink(z, c) ELSE z
           s == IF "PENDING" \in b.flags[c] THEN b.sigProcs - 1 ELSE b.sigProcs
           y == do_xit(x, c)
<1> SUFFICES /\ Gone(x, y, c)
             /\ \E w : /\ Demoted(x, w, c)
                      /\ y.img = w.img /\ y.physio = w.physio
                      /\ y.shadow = w.shadow /\ y.panic = w.panic
  OBVIOUS
<1>1. c \in Procs
  BY UsersAre
<1>2. a \in Kernel /\ SameTable(x, a)
  <2>1. SameTable(x, x)
    BY DEF SameTable
  <2> QED BY <1>1, <2>1, UnreadyType, UnreadySame
<1>3. y = Free(b, c)
  BY DEF do_xit
<1> HIDE DEF a
<1>4. z \in Kernel /\ Demoted(a, z, c)
  BY <1>1, <1>2, RmshadowDoes, RmshadowType
<1> HIDE DEF z, y
<1>5. Demoted(x, z, c)
  <2>1. Family(a, c) = Family(x, c)
    BY <1>2 DEF SameTable, Family
  <2> QED BY <1>2, <1>4, <2>1 DEF SameTable, Demoted
<1>6. /\ b \in Kernel /\ b.flags = z.flags /\ b.getfrom = z.getfrom
      /\ b.mess = z.mess /\ b.intBlocked = z.intBlocked
      /\ b.img = z.img /\ b.shadow = z.shadow /\ b.physio = z.physio /\ b.panic = z.panic
      /\ \A r \in Procs : b.callerq[r] \in {z.callerq[r], Dequeue(z.callerq[r], c)}
  <2> DEFINE Q == [r \in Procs |-> Dequeue(z.callerq[r], c)]
             w == [z EXCEPT !.callerq = Q]
  <2>1. Q \in [Procs -> Seq(Procs)]
    BY <1>4, DequeueType DEF Kernel
  <2>2. Unlink(z, c) = w
    BY DEF Unlink
  <2>3. \A r \in Procs : Q[r] = Dequeue(z.callerq[r], c)
    OBVIOUS
  <2> HIDE DEF Q
  <2>4. /\ w \in Kernel /\ w.flags = z.flags /\ w.getfrom = z.getfrom
        /\ w.mess = z.mess /\ w.intBlocked = z.intBlocked
        /\ w.img = z.img /\ w.shadow = z.shadow /\ w.physio = z.physio /\ w.panic = z.panic
        /\ w.callerq = Q
    BY <1>4, <2>1 DEF Kernel
  <2> HIDE DEF w
  <2> QED BY <1>4, <2>2, <2>3, <2>4
<1> HIDE DEF b
<1>7. /\ y.getfrom = b.getfrom /\ y.mess = b.mess /\ y.intBlocked = b.intBlocked
      /\ y.callerq = b.callerq
      /\ y.img = b.img /\ y.shadow = b.shadow /\ y.physio = b.physio /\ y.panic = b.panic
      /\ \A r \in Procs : y.flags[r] = IF r = c THEN {"P_SLOT_FREE"} ELSE b.flags[r]
  <2>1. y = [b EXCEPT !.sigProcs = s, !.pending[c] = {}, !.pendcount[c] = 0,
                      !.flags[c] = {"P_SLOT_FREE"}]
    BY <1>3 DEF Free
  <2> HIDE DEF s
  <2> QED BY <1>1, <1>6, <2>1 DEF Kernel
<1>8. Gone(x, y, c)
  BY ZenonT(40), <1>5, <1>6, <1>7 DEF Gone, Demoted
<1> QED BY <1>5, <1>6, <1>7, <1>8

LEMMA XitPlaces ==
  ASSUME NEW x \in Kernel, PlacesRight(x), x.panic = "none", NEW c \in Users,
         "P_SLOT_FREE" \notin x.flags[c]
  PROVE  PlacesRight(do_xit(x, c)) /\ Fixed(x, do_xit(x, c))
<1> DEFINE y == do_xit(x, c)
<1>1. Gone(x, y, c)
  BY XitDoes
<1>2. PICK z : /\ Demoted(x, z, c)
               /\ y.img = z.img /\ y.physio = z.physio /\ y.shadow = z.shadow /\ y.panic = z.panic
  BY XitDoes
<1> HIDE DEF y
<1>3. \A r \in Users : y.flags[r] = IF r = c THEN {"P_SLOT_FREE"} ELSE x.flags[r]
  BY <1>1, UsersAre DEF Gone
<1>4. y.img = x.img /\ y.physio = x.physio
  BY <1>2 DEF Demoted
<1>5. FamilyKept(x)
  BY DEF PlacesRight
<1>6. y.panic = "none" => FamilyKept(y)
  <2> SUFFICES ASSUME y.panic = "none", NEW v \in Users, "P_SLOT_FREE" \notin y.flags[v]
               PROVE  Owned(y, y.img[v])
    BY DEF FamilyKept
  <2>1. v # c /\ "P_SLOT_FREE" \notin x.flags[v]
    BY <1>3
  <2>0. z.panic = "none"
    BY <1>2
  <2>2. OwnedBut(x, z, c, x.img[v])
    BY <1>2, <1>5, <2>0, <2>1, DemotedOwners
  <2>3. Owners(y, y.img[v]) = OwnersBut(x, z, c, x.img[v])
    BY <1>2, <1>3, <1>4 DEF Owners, OwnersBut
  <2> QED BY <2>2, <2>3 DEF Owned, OwnedBut
<1>7. y.panic \in {"none", "cannot handle physio shadows"}
  BY <1>2, <1>5, DemotedOwners
<1>8. UsersOfDrivers(y)
  BY <1>1, <1>3, <1>4 DEF PlacesRight, UsersOfDrivers, WaitsForFs, Gone
<1>9. Fixed(x, y)
  <2>1. ASSUME NEW r \in x.physio, "P_SLOT_FREE" \notin y.flags[r]
        PROVE  r \in x.shadow <=> r \in y.shadow
    <3>1. r \in Users /\ r # c
      BY <1>3, <2>1 DEF PlacesRight, UsersOfDrivers
    <3> QED BY <1>2, <2>1, <3>1 DEF Demoted
  <2> QED BY <2>1 DEF Fixed
<1> QED BY <1>6, <1>7, <1>8, <1>9 DEF PlacesRight, y

LEMMA FreshPlaces ==
  ASSUME NEW x \in Kernel, PlacesRight(x), x.panic = "none", NEW u \in Users,
         "P_SLOT_FREE" \notin x.flags[u], u \notin x.physio, NEW i \in Users,
         \A v \in Users : "P_SLOT_FREE" \notin x.flags[v] => x.img[v] # i
  PROVE  PlacesRight(do_fresh(x, u, i)) /\ Fixed(x, do_fresh(x, u, i))
<1> DEFINE z == rmshadow(x, u)
           y == do_fresh(x, u, i)
<1>1. z \in Kernel /\ Demoted(x, z, u)
  BY UsersAre, RmshadowType, RmshadowDoes
<1>2. y = [z EXCEPT !.img[u] = i]
  BY DEF do_fresh
<1> HIDE DEF z, y
<1>3. /\ y.flags = x.flags /\ y.getfrom = x.getfrom /\ y.physio = x.physio
      /\ y.shadow = z.shadow /\ y.panic = z.panic
      /\ \A v \in Users : y.img[v] = IF v = u THEN i ELSE x.img[v]
  BY <1>1, <1>2, UsersAre DEF Kernel, Demoted
<1>4. FamilyKept(x)
  BY DEF PlacesRight
<1>5. ASSUME y.panic = "none", NEW v \in Users, "P_SLOT_FREE" \notin y.flags[v]
      PROVE  Owned(y, y.img[v])
  <2>1. CASE v = u
    <3>1. u \notin y.shadow
      BY <1>1, <1>3 DEF Demoted
    <3>2. Owners(y, i) = {u}
      BY <1>3, <3>1 DEF Owners
    <3> QED BY <1>3, <2>1, <3>2 DEF Owned
  <2>2. CASE v # u
    <3>1. z.panic = "none"
      BY <1>3, <1>5
    <3>3. OwnedBut(x, z, u, x.img[v])
      BY <1>1, <1>3, <1>4, <1>5, <2>2, <3>1, DemotedOwners
    <3>4. Owners(y, y.img[v]) = OwnersBut(x, z, u, x.img[v])
      BY <1>3, <1>5, <2>2 DEF Owners, OwnersBut
    <3> QED BY <3>3, <3>4 DEF Owned, OwnedBut
  <2> QED BY <2>1, <2>2
<1>6. y.panic \in {"none", "cannot handle physio shadows"}
  BY <1>1, <1>3, <1>4, DemotedOwners
<1>7. UsersOfDrivers(y)
  BY <1>3 DEF PlacesRight, UsersOfDrivers, WaitsForFs
<1>8. Fixed(x, y)
  BY <1>1, <1>3 DEF Fixed, Demoted
<1> QED BY <1>5, <1>6, <1>7, <1>8 DEF PlacesRight, FamilyKept, y

(* The child runs in the parent's place, or is a shadow as he is. *)
Forked(x, y, u, c) ==
  /\ y.mess = [x.mess EXCEPT ![c] = x.mess[u]]
  /\ y.callerq = [x.callerq EXCEPT ![c] = x.callerq[u]]
  /\ y.intBlocked = x.intBlocked /\ y.panic = x.panic
  /\ y.pending = [x.pending EXCEPT ![c] = {}] /\ y.sigProcs = x.sigProcs
  /\ y.shadow = (IF u \in x.shadow THEN x.shadow \cup {c} ELSE x.shadow \ {c}) \cup {u}
  /\ y.physio = IF u \in x.physio THEN x.physio \cup {c} ELSE x.physio \ {c}
  /\ \A r \in Procs :
       /\ y.flags[r] = IF r = c THEN x.flags[u] \ {"PENDING", "SIG_PENDING", "P_STOP"}
                                ELSE x.flags[r]
       /\ y.getfrom[r] = IF r = c THEN x.getfrom[u] ELSE x.getfrom[r]
       /\ y.img[r] = IF r = c THEN x.img[u] ELSE x.img[r]

LEMMA ForkDoes ==
  ASSUME NEW x \in Kernel, NEW u \in Procs, NEW c \in Procs
  PROVE  Forked(x, do_fork(x, u, c), u, c)
<1> DEFINE y  == do_fork(x, u, c)
           fl == x.flags[u] \ {"PENDING", "SIG_PENDING", "P_STOP"}
           S  == (IF u \in x.shadow THEN x.shadow \cup {c} ELSE x.shadow \ {c}) \cup {u}
           P  == IF u \in x.physio THEN x.physio \cup {c} ELSE x.physio \ {c}
<1>1. /\ y.flags = [x.flags EXCEPT ![c] = fl]
      /\ y.getfrom = [x.getfrom EXCEPT ![c] = x.getfrom[u]]
      /\ y.img = [x.img EXCEPT ![c] = x.img[u]]
      /\ y.mess = [x.mess EXCEPT ![c] = x.mess[u]]
      /\ y.callerq = [x.callerq EXCEPT ![c] = x.callerq[u]]
      /\ y.pending = [x.pending EXCEPT ![c] = {}]
      /\ y.intBlocked = x.intBlocked /\ y.panic = x.panic /\ y.sigProcs = x.sigProcs
      /\ y.physio = P /\ y.shadow = S
  <2> HIDE DEF fl
  <2> QED BY DEF do_fork, mkshadow, Kernel, fl
<1> HIDE DEF y
<1>2. \A r \in Procs :
        /\ y.flags[r] = IF r = c THEN fl ELSE x.flags[r]
        /\ y.getfrom[r] = IF r = c THEN x.getfrom[u] ELSE x.getfrom[r]
        /\ y.img[r] = IF r = c THEN x.img[u] ELSE x.img[r]
  <2> HIDE DEF fl
  <2> QED BY <1>1 DEF Kernel
<1> QED BY <1>1, <1>2 DEF Forked, y

LEMMA ForkPlaces ==
  ASSUME NEW x \in Kernel, PlacesRight(x), NEW u \in Users, NEW c \in Users,
         "P_SLOT_FREE" \notin x.flags[u], "P_SLOT_FREE" \in x.flags[c], u \notin x.physio
  PROVE  PlacesRight(do_fork(x, u, c)) /\ Fixed(x, do_fork(x, u, c))
<1> DEFINE y == do_fork(x, u, c)
<1>1. Forked(x, y, u, c)
  BY UsersAre, ForkDoes
<1> HIDE DEF y
<1>2. /\ \A v \in Users : /\ "P_SLOT_FREE" \notin y.flags[v] <=> v = c \/ "P_SLOT_FREE" \notin x.flags[v]
                          /\ y.img[v] = IF v = c THEN x.img[u] ELSE x.img[v]
      /\ y.physio = x.physio \ {c} /\ y.panic = x.panic
      /\ y.shadow = (IF u \in x.shadow THEN x.shadow \cup {c} ELSE x.shadow \ {c}) \cup {u}
  BY <1>1, UsersAre DEF Forked
<1>3. ASSUME FamilyKept(x), NEW v \in Users, "P_SLOT_FREE" \notin y.flags[v]
      PROVE  Owned(y, y.img[v])
  <2>1. PICK t \in Users : "P_SLOT_FREE" \notin x.flags[t] /\ x.img[t] = y.img[v]
    BY <1>2, <1>3
  <2>2. PICK w : Owners(x, x.img[t]) = {w}
    BY <1>3, <2>1 DEF FamilyKept, Owned
  <2>3. CASE x.img[t] # x.img[u]
    <3>1. Owners(y, x.img[t]) = Owners(x, x.img[t])
      BY <1>2, <2>3 DEF Owners
    <3> QED BY <2>1, <2>2, <3>1 DEF Owned
  <2>4. CASE x.img[t] = x.img[u] /\ u \in x.shadow
    <3>1. Owners(y, x.img[t]) = Owners(x, x.img[t])
      BY <1>2, <2>4 DEF Owners
    <3> QED BY <2>1, <2>2, <3>1 DEF Owned
  <2>5. CASE x.img[t] = x.img[u] /\ u \notin x.shadow
    <3>1. u \in Owners(x, x.img[t])
      BY <2>5 DEF Owners
    <3>2. \A r \in Users : "P_SLOT_FREE" \notin x.flags[r] /\ x.img[r] = x.img[u] /\ r # u => r \in x.shadow
      BY <2>2, <2>5, <3>1 DEF Owners
    <3>3. Owners(y, x.img[t]) = {c}
      BY <1>2, <2>5, <3>2 DEF Owners
    <3> QED BY <2>1, <3>3 DEF Owned
  <2> QED BY <2>3, <2>4, <2>5
<1>4. UsersOfDrivers(y)
  <2>1. ASSUME NEW r \in y.physio, "P_SLOT_FREE" \notin y.flags[r] PROVE WaitsForFs(y, r)
    <3>1. r \in x.physio /\ r # c /\ r \in Users /\ r \in Procs
      BY <1>2, UsersAre DEF PlacesRight, UsersOfDrivers
    <3>2. WaitsForFs(x, r)
      BY <1>2, <2>1, <3>1 DEF PlacesRight, UsersOfDrivers
    <3> QED BY <1>1, <3>1, <3>2 DEF Forked, WaitsForFs
  <2> QED BY <1>2, <2>1 DEF PlacesRight, UsersOfDrivers
<1>5. Fixed(x, y)
  BY <1>2 DEF Fixed
<1> QED BY <1>2, <1>3, <1>4, <1>5 DEF PlacesRight, FamilyKept, y

(* Shadow p is the owner of the place from now on, and q is a shadow. *)
Flips(x, y, p, q) ==
  /\ y.flags = x.flags /\ y.getfrom = x.getfrom /\ y.callerq = x.callerq
  /\ y.mess = x.mess /\ y.intBlocked = x.intBlocked
  /\ y.pending = x.pending /\ y.sigProcs = x.sigProcs
  /\ y.img = x.img /\ y.physio = x.physio /\ y.panic = x.panic
  /\ y.shadow = (x.shadow \ {p}) \cup {q}

LEMMA FlippedDoes ==
  ASSUME NEW x \in Kernel, NEW p \in Procs, NEW q \in Procs
  PROVE  Flips(x, Flipped(x, p, q), p, q)
<1> DEFINE a == unready(x, p)
           b == IF x.flags[q] = {} THEN unready(a, q) ELSE a
           c == [b EXCEPT !.shadow = (b.shadow \ {p}) \cup {q}]
           d == ready(c, p)
           e == IF x.flags[q] = {} THEN ready(d, q) ELSE d
<1>1. Flipped(x, p, q) = e
  BY DEF Flipped
<1>2. a \in Kernel /\ SameTable(x, a)
  BY UnreadyType, UnreadySame
<1> HIDE DEF a
<1>3. b \in Kernel /\ SameTable(x, b)
  BY <1>2, UnreadyType, UnreadySame DEF SameTable
<1> HIDE DEF b
<1>4. c \in Kernel /\ Flips(b, c, p, q)
  BY <1>3 DEF Kernel, Flips
<1> HIDE DEF c
<1>5. d \in Kernel /\ SameTable(c, d)
  BY <1>4, ReadyType, ReadySame
<1> HIDE DEF d
<1>6. SameTable(c, e)
  BY <1>5, ReadySame DEF SameTable
<1> HIDE DEF e
<1>7. Flips(x, e, p, q)
  BY <1>3, <1>4, <1>6 DEF SameTable, Flips
<1> QED BY <1>1, <1>7

LEMMA UnshadowDoes ==
  ASSUME NEW x \in Kernel, PlacesRight(x), x.panic = "none", NEW p \in Users,
         "P_SLOT_FREE" \notin x.flags[p], p \in x.shadow
  PROVE  \/ unshadow(x, p) = x
         \/ \E q \in Family(x, p) : /\ q \notin x.shadow /\ p \notin x.physio /\ q \notin x.physio
                                    /\ Flips(x, unshadow(x, p), p, q)
<1> DEFINE S == {q \in Family(x, p) : q \notin x.shadow}
           F == First(S)
           q == CHOOSE q \in F : TRUE
<1>1. PICK w : Owners(x, x.img[p]) = {w}
  BY DEF PlacesRight, FamilyKept, Owned
<1>2. w \in S
  BY <1>1 DEF Owners, Family
<1>3. F # {} /\ q \in S
  <2>1. S \in SUBSET Procs
    BY FamilyType
  <2> QED BY <1>2, <2>1, FirstThere
<1>4. \/ unshadow(x, p) = x
      \/ p \notin x.physio /\ q \notin x.physio /\ unshadow(x, p) = Flipped(x, p, q)
  <2> HIDE DEF q
  <2>1. F # {}
    BY <1>3
  <2> HIDE DEF F
  <2> QED BY <2>1 DEF unshadow, F, q, mayFlip
<1>5. q \in Family(x, p) /\ q \notin x.shadow /\ q \in Procs /\ p \in Procs
  BY <1>3, UsersAre DEF Family
<1> HIDE DEF q
<1> QED BY <1>4, <1>5, FlippedDoes

LEMMA FlipPlaces ==
  ASSUME NEW x \in Kernel, PlacesRight(x), x.panic = "none", NEW p \in Users,
         "P_SLOT_FREE" \notin x.flags[p], p \in x.shadow
  PROVE  PlacesRight(unshadow(x, p)) /\ Fixed(x, unshadow(x, p))
<1> DEFINE y == unshadow(x, p)
<1>1. \/ y = x
      \/ \E q \in Family(x, p) : /\ q \notin x.shadow /\ p \notin x.physio /\ q \notin x.physio
                                 /\ Flips(x, y, p, q)
  BY UnshadowDoes
<1> HIDE DEF y
<1>2. ASSUME NEW q \in Family(x, p), q \notin x.shadow, p \notin x.physio, q \notin x.physio,
             Flips(x, y, p, q)
      PROVE  PlacesRight(y) /\ Fixed(x, y)
  <2>1. /\ y.flags = x.flags /\ y.getfrom = x.getfrom /\ y.img = x.img /\ y.physio = x.physio
        /\ y.panic = x.panic /\ y.shadow = (x.shadow \ {p}) \cup {q}
    BY <1>2 DEF Flips
  <2>2. q \in Users /\ q # p /\ "P_SLOT_FREE" \notin x.flags[q] /\ x.img[q] = x.img[p]
    BY DEF Family
  <2>3. ASSUME NEW v \in Users, "P_SLOT_FREE" \notin y.flags[v] PROVE Owned(y, y.img[v])
    <3>1. PICK w : Owners(x, x.img[v]) = {w}
      BY <2>1, <2>3 DEF PlacesRight, FamilyKept, Owned
    <3>2. CASE x.img[v] = x.img[p]
      <4>1. q \in Owners(x, x.img[v])
        BY <1>2, <2>2, <3>2 DEF Owners
      <4>2. \A r \in Users : "P_SLOT_FREE" \notin x.flags[r] /\ x.img[r] = x.img[p] /\ r # q => r \in x.shadow
        BY <3>1, <3>2, <4>1 DEF Owners
      <4>3. Owners(y, y.img[v]) = {p}
        BY <2>1, <2>2, <3>2, <4>2 DEF Owners
      <4> QED BY <4>3 DEF Owned
    <3>3. CASE x.img[v] # x.img[p]
      <4>1. Owners(y, y.img[v]) = Owners(x, x.img[v])
        BY <2>1, <2>2, <3>3 DEF Owners
      <4> QED BY <3>1, <4>1 DEF Owned
    <3> QED BY <3>2, <3>3
  <2>4. UsersOfDrivers(y)
    BY <2>1 DEF PlacesRight, UsersOfDrivers, WaitsForFs
  <2>5. Fixed(x, y)
    BY <1>2, <2>1 DEF Fixed
  <2> QED BY <2>1, <2>3, <2>4, <2>5 DEF PlacesRight, FamilyKept
<1>3. ASSUME y = x PROVE PlacesRight(y) /\ Fixed(x, y)
  BY <1>3 DEF Fixed
<1> QED BY <1>1, <1>2, <1>3 DEF y

-----------------------------------------------------------------------------
(* Every step *)

StepPlaced == PlacesRight(k') /\ Fixed(k, k')

LEMMA SysPlaces == ASSUME TypeOK, Kept(k), PlacesRight(k), Sys PROVE StepPlaced
<1>1. k \in Kernel /\ k.cur \in Procs
  BY DEF TypeOK, Kernel
<1>2. NoMess \in Message /\ Request \in Message /\ Reply \in Message
  BY <1>1 DEF NoMess, Request, Reply, Message, MTypes
<1>3. ASSUME NEW c \in MayCall, Call(c) PROVE Unmoved(k, k')
  <2> DEFINE m == IF c[1] = "RECEIVE" THEN NoMess ELSE Request
  <2>1. c[1] \in Functions /\ k.cur \in Live /\ c[3] \in Procs \cup {ANY}
    BY <1>3, CallsAssumption DEF Call
  <2>2. c[1] = "RECEIVE" \/ (c[3] \in Tasks \cup Servers /\ c[3] # k.cur)
    BY <1>3, CallsAssumption DEF Call
  <2>3. m \in Message
    BY <1>2
  <2>4. k' = sys_call(k, c[1], c[3], m)
    BY <1>3 DEF Call, Trap, restart
  <2> HIDE DEF m
  <2>5. c[1] # "RECEIVE" => c[3] \notin Users
    BY <2>2, UsersAre
  <2>6. MayDo(k, c[1], c[3])
    BY <2>2 DEF MayDo
  <2> QED BY <2>1, <2>3, <2>4, <2>5, <2>6, UnmovedSysCall
<1>4. ASSUME NEW p \in Live, Answer(p) PROVE Unmoved(k, k')
  <2>1. k.cur \in Live /\ p \in Procs \cup {ANY} /\ "SEND" \in Functions
    BY <1>4, LiveProcs DEF Answer, Live, Functions
  <2>2. MayDo(k, "SEND", p)
    BY <1>4 DEF Answer, MayDo
  <2>3. k.cur = FS_PROC_NR => p \notin Users \cap k.physio
    BY <1>4 DEF Answer
  <2>4. k' = sys_call(k, "SEND", p, Reply)
    BY <1>4 DEF Answer, Trap, restart
  <2> QED BY <1>2, <2>1, <2>2, <2>3, <2>4, UnmovedSysCall
<1> QED BY <1>3, <1>4, PlacesUnmoved DEF Sys, StepPlaced

LEMMA UnmovedInterrupt ==
  ASSUME NEW x \in Kernel, NEW t \in Tasks
  PROVE  Unmoved(x, interrupt(x, t)) /\ Unmoved(x, pick_proc(interrupt(x, t)))
<1> DEFINE y == interrupt(x, t)
<1>1. t \in Procs \ Users
  BY UsersAre, LiveProcs DEF Live
<1>2. y \in Kernel /\ (Interrupted(x, y, t) \/ y = [x EXCEPT !.intBlocked = @ \cup {t}])
  BY <1>1, InterruptOnly, InterruptType
<1> HIDE DEF y
<1>3. Unmoved(x, y)
  <2>1. ASSUME y = [x EXCEPT !.intBlocked = @ \cup {t}] PROVE Unmoved(x, y)
    BY <2>1 DEF Kernel, Unmoved, WaitsForFs
  <2> QED BY <1>1, <1>2, <2>1, UnmovedInterrupted
<1>4. Unmoved(x, pick_proc(y))
  BY <1>2, <1>3, PickSame, UnmovedSame, UnmovedTwice
<1> QED BY <1>3, <1>4 DEF y

LEMMA UnmovedIrq ==
  ASSUME TypeOK, NEW t \in Tasks, Irq(t) \/ IrqNested(t) \/ unhold
  PROVE  Unmoved(k, k')
<1>1. Unmoved(k, k)
  BY DEF Unmoved
<1>2. CASE Irq(t) \/ IrqNested(t)
  <2>1. k' = k \/ k' = interrupt(k, t) \/ k' = pick_proc(interrupt(k, t))
    BY <1>2 DEF Irq, IrqNested, hold, restart
  <2> QED BY <1>1, <2>1, UnmovedInterrupt DEF TypeOK
<1>3. CASE unhold
  <2>1. unholding \in Tasks /\ k' = interrupt(k, unholding)
    BY <1>3 DEF TypeOK, unhold
  <2> QED BY <2>1, UnmovedInterrupt DEF TypeOK
<1> QED BY <1>2, <1>3

(* What SYSTASK does before it puts the reply in m *)
LEMMA ServedPlaces ==
  ASSUME NEW s, NEW c, NEW y, Kept(y), Serve(s, c, y), PlacesRight(y), Fixed(k, y)
  PROVE  StepPlaced
BY ServeDoes, PlacesTwice DEF StepPlaced

LEMMA ServedUnmoved ==
  ASSUME NEW s, NEW c, NEW y, Kept(y), Serve(s, c, y), PlacesRight(k), Unmoved(k, y)
  PROVE  StepPlaced
BY ServedPlaces, PlacesUnmoved

LEMMA SignalPlaces ==
  ASSUME TypeOK, Kept(k), PlacesRight(k), NEW u \in Users, NEW sig \in Sigs,
         (\E t \in Tasks : CauseSig(t, u, sig)) \/ do_kill(u, sig)
  PROVE  StepPlaced
<1>1. "P_SLOT_FREE" \notin k.flags[u]
  BY DEF CauseSig, do_kill, Alive
<1>2. Kept(cause_sig(k, u, sig)) /\ Unmoved(k, cause_sig(k, u, sig))
  BY <1>1, CauseSigKept, UnmovedCauseSig
<1>3. CASE \E t \in Tasks : CauseSig(t, u, sig)
  BY <1>2, <1>3, PlacesUnmoved DEF CauseSig, Work, StepPlaced
<1>4. CASE do_kill(u, sig)
  BY <1>2, <1>4, ServedUnmoved DEF do_kill
<1> QED BY <1>3, <1>4

LEMMA TrapPlaces ==
  ASSUME TypeOK, Kept(k), PlacesRight(k), NEW sig \in Sigs, trap(sig) PROVE StepPlaced
<1>1. k.cur \in Users /\ k' = cause_sig(k, k.cur, sig)
  BY DEF trap, Trap, restart
<1>2. k.cur # IDLE
  BY <1>1, Hardware DEF Live
<1>3. k.flags[k.cur] = {}
  BY <1>2, CurRuns DEF Kept, RunSet
<1> QED BY <1>1, <1>3, UnmovedCauseSig, PlacesUnmoved DEF StepPlaced

LEMMA SignalledPlaces ==
  ASSUME TypeOK, Kept(k), PlacesRight(k), NEW u \in Users, do_sig(u) PROVE StepPlaced
<1> DEFINE y == SigDone(k, u)
<1>1. k.pendcount[u] = 0 \/ k.pendcount[u] > Cardinality(k.pending[u])
  BY Idle DEF do_sig, Alive
<1>2. Kept(y)
  BY <1>1, SigDoneKept
<1>3. /\ y.getfrom = k.getfrom
      /\ y.img = k.img /\ y.shadow = k.shadow /\ y.physio = k.physio /\ y.panic = k.panic
      /\ \A r \in Procs : y.flags[r] \in {k.flags[r], k.flags[r] \ {"SIG_PENDING"}}
  BY UsersAre, SigDoneOnly DEF TypeOK
<1>4. Serve("signal", MM_PROC_NR, y)
  BY DEF do_sig
<1> HIDE DEF y
<1>5. \A r \in Procs : \A f \in {"P_SLOT_FREE", "RECEIVING", "SENDING"} :
        f \in y.flags[r] <=> f \in k.flags[r]
  BY <1>3
<1>6. Unmoved(k, y)
  BY <1>3, <1>5, UsersAre DEF Unmoved, WaitsForFs
<1> QED BY <1>2, <1>4, <1>6, ServedUnmoved

LEMMA TracePlaces ==
  ASSUME TypeOK, Kept(k), PlacesRight(k), NEW u \in Users, Stop(u) \/ Resume(u)
  PROVE  StepPlaced
<1>1. CASE Stop(u)
  <2> DEFINE a == unready(k, u)
             y == TraceStop(k, u)
  <2>1. Kept(y)
    BY <1>1, StopKept DEF Stop, Alive
  <2>2. a \in Kernel /\ SameTable(k, a)
    <3>1. SameTable(k, k)
      BY DEF SameTable
    <3> QED BY <3>1, UsersAre, UnreadyType, UnreadySame DEF TypeOK
  <2>3. y = [a EXCEPT !.flags[u] = @ \cup {"P_STOP"}]
    BY DEF TraceStop
  <2> HIDE DEF a
  <2>4. Unmoved(a, y)
    BY <2>2, <2>3 DEF Kernel, Unmoved, WaitsForFs
  <2> HIDE DEF y
  <2>5. Unmoved(k, y)
    BY <2>2, <2>4, UnmovedSame, UnmovedTwice
  <2>6. Serve("trace", MM_PROC_NR, y)
    BY <1>1 DEF Stop, y
  <2> QED BY <2>1, <2>5, <2>6, ServedUnmoved
<1>2. CASE Resume(u)
  <2> DEFINE F == {"P_STOP"}
             y == Unblock(k, u, F)
  <2>1. Kept(y)
    BY <1>2, ResumeKept DEF Resume, TraceResume
  <2>2. Serve("trace", MM_PROC_NR, y)
    BY <1>2 DEF Resume, TraceResume
  <2>3. F \in SUBSET Flag
    BY DEF Flag
  <2> HIDE DEF F
  <2>4. FlagsOnly(k, y) /\ y.flags = [k.flags EXCEPT ![u] = k.flags[u] \ F]
    BY <2>3, UsersAre, UnblockOnly DEF TypeOK
  <2> HIDE DEF y
  <2>5. \A r \in Procs : \A f \in {"P_SLOT_FREE", "RECEIVING", "SENDING"} :
          f \in y.flags[r] <=> f \in k.flags[r]
    BY <2>4 DEF F, TypeOK, Kernel
  <2>6. Unmoved(k, y)
    BY <2>4, <2>5, UsersAre DEF Unmoved, FlagsOnly, WaitsForFs
  <2> QED BY <2>1, <2>2, <2>6, ServedUnmoved
<1> QED BY <1>1, <1>2

LEMMA LifePlaces ==
  ASSUME TypeOK, Kept(k), PlacesRight(k), NEW u \in Users,
         Exec(u) \/ Fresh(u) \/ Xit(u) \/ (\E c \in Users : Fork(u, c))
  PROVE  StepPlaced
<1>0. k \in Kernel
  BY DEF TypeOK
<1>1. ASSUME WaitsFor(u, MM_PROC_NR)
      PROVE  "P_SLOT_FREE" \notin k.flags[u] /\ u \notin k.physio
  <2>1. "RECEIVING" \in k.flags[u] /\ k.getfrom[u] = MM_PROC_NR
    BY <1>1 DEF WaitsFor, Accepts
  <2>2. "P_SLOT_FREE" \notin k.flags[u]
    BY <2>1 DEF Kept, TableKept, FlagsKept
  <2>3. MM_PROC_NR # FS_PROC_NR
    BY DEF MM_PROC_NR, FS_PROC_NR
  <2>4. u \in k.physio => WaitsForFs(k, u)
    BY <2>2 DEF PlacesRight, UsersOfDrivers
  <2> QED BY <2>1, <2>2, <2>3, <2>4 DEF WaitsForFs
<1>2. CASE Exec(u)
  <2> DEFINE F == {"RECEIVING"}
             y == Unblock(k, u, F)
  <2>1. "RECEIVING" \in k.flags[u] /\ u \in Live /\ u \notin k.physio
    BY <1>1, <1>2 DEF Exec, WaitsFor, Accepts, Live
  <2>2. Kept(y)
    BY <2>1, WakeKept
  <2>3. Serve("exec", MM_PROC_NR, y)
    BY <1>2 DEF Exec, do_exec
  <2>4. F \in SUBSET Flag
    BY DEF Flag
  <2> HIDE DEF F
  <2>5. FlagsOnly(k, y) /\ y.flags = [k.flags EXCEPT ![u] = k.flags[u] \ F]
    BY <1>0, <2>4, UsersAre, UnblockOnly
  <2> HIDE DEF y
  <2>6. \A r \in Procs : /\ "P_SLOT_FREE" \in y.flags[r] <=> "P_SLOT_FREE" \in k.flags[r]
                         /\ r # u => y.flags[r] = k.flags[r]
    BY <1>0, <2>5 DEF F, Kernel
  <2>7. Unmoved(k, y)
    BY <2>1, <2>5, <2>6, UsersAre DEF Unmoved, FlagsOnly, WaitsForFs
  <2> QED BY <2>2, <2>3, <2>7, ServedUnmoved
<1>3. CASE Fresh(u)
  <2>1. PICK i \in FreeImages : Serve("shadow", MM_PROC_NR, do_fresh(k, u, i))
    BY <1>3 DEF Fresh
  <2>2. i \in Users /\ \A v \in Users : "P_SLOT_FREE" \notin k.flags[v] => k.img[v] # i
    BY DEF FreeImages, Alive
  <2>3. k.flags[u] # {} /\ k.panic = "none"
    BY <1>3, <2>1 DEF Fresh, WaitsFor, Accepts, Serve, Work, Running
  <2>4. Kept(do_fresh(k, u, i))
    BY <2>2, <2>3, FreshKept
  <2>5. PlacesRight(do_fresh(k, u, i)) /\ Fixed(k, do_fresh(k, u, i))
    BY <1>0, <1>1, <1>3, <2>2, <2>3, FreshPlaces DEF Fresh
  <2> QED BY <2>1, <2>4, <2>5, ServedPlaces
<1>4. CASE Xit(u)
  <2>1. k.panic = "none" /\ "P_SLOT_FREE" \notin k.flags[u] /\ Serve("life", MM_PROC_NR, do_xit(k, u))
    BY <1>4 DEF Xit, Alive, Serve, Work, Running
  <2>2. Kept(do_xit(k, u))
    BY XitKept
  <2>3. PlacesRight(do_xit(k, u)) /\ Fixed(k, do_xit(k, u))
    BY <1>0, <2>1, XitPlaces
  <2> QED BY <2>1, <2>2, <2>3, ServedPlaces
<1>5. ASSUME NEW c \in Users, Fork(u, c) PROVE StepPlaced
  <2>1. /\ "RECEIVING" \in k.flags[u] /\ "SENDING" \notin k.flags[u]
        /\ "P_SLOT_FREE" \in k.flags[c] /\ Serve("life", MM_PROC_NR, do_fork(k, u, c))
    BY <1>5 DEF Fork, WaitsFor, Accepts, Alive
  <2>2. Kept(do_fork(k, u, c))
    BY <2>1, ForkKept
  <2>3. PlacesRight(do_fork(k, u, c)) /\ Fixed(k, do_fork(k, u, c))
    BY <1>0, <1>1, <1>5, <2>1, ForkPlaces DEF Fork
  <2> QED BY <2>1, <2>2, <2>3, ServedPlaces
<1> QED BY <1>2, <1>3, <1>4, <1>5

(* The head of the queue of shadows *)
LEMMA FlipHead ==
  ASSUME TypeOK, Kept(k), Flip
  PROVE  \E p \in Users : /\ p \in RunSet(k) /\ p \in k.shadow /\ k.panic = "none"
                          /\ k' = unshadow(k, p) /\ unholding' = unholding
<1> DEFINE p == Head(k.rdy[SHADOW_Q])
<1>1. SHADOW_Q \in Queues /\ k.rdy[SHADOW_Q] \in Seq(Procs) /\ k.rdy[SHADOW_Q] # <<>>
  BY DEF Flip, Queues, TASK_Q, SHADOW_Q, TypeOK, Kernel
<1>2. InQueue(k.rdy[SHADOW_Q], p) /\ p \in Procs
  BY <1>1, HeadIn, HeadTailProperties
<1>3. k' = unshadow(k, p) /\ k.panic = "none" /\ unholding' = unholding
  BY DEF Flip, Work, Running
<1> HIDE DEF p
<1>4. p \in RunSet(k) /\ Queue(k, p) = SHADOW_Q
  BY <1>1, <1>2 DEF Kept, Runs, Placed
<1>5. ~(p < 0) /\ isuserp(p) /\ p \in k.shadow
  BY <1>4 DEF Queue, TASK_Q, SERVER_Q, USER_Q, SHADOW_Q
<1>6. p \in Users
  <2>1. p \in Live
    BY <1>4 DEF RunSet
  <2>2. ~(p < 0) /\ p >= LOW_USER
    BY <1>5 DEF isuserp
  <2> QED BY <2>1, <2>2, TasksAssumption DEF Live, Servers, LOW_USER, MM_PROC_NR, FS_PROC_NR
<1> QED BY <1>3, <1>4, <1>5, <1>6

LEMMA TickPlaces ==
  ASSUME TypeOK, Kept(k), PlacesRight(k), Quantum \/ Flip \/ lock_pick_proc
  PROVE  StepPlaced
<1>0. k \in Kernel
  BY DEF TypeOK
<1>1. CASE Quantum
  <2>1. SameTable(k, sched(k))
    BY SchedKeeps DEF Kept
  <2> QED BY <1>1, <2>1, UnmovedSame, PlacesUnmoved DEF Quantum, Work, StepPlaced
<1>2. CASE Flip
  <2>1. PICK p \in Users : p \in RunSet(k) /\ p \in k.shadow /\ k.panic = "none" /\ k' = unshadow(k, p)
    BY <1>2, FlipHead
  <2>2. "P_SLOT_FREE" \notin k.flags[p]
    BY <2>1 DEF RunSet
  <2> QED BY <1>0, <2>1, <2>2, FlipPlaces DEF StepPlaced
<1>3. CASE lock_pick_proc
  BY <1>0, <1>3, PickSame, UnmovedSame, PlacesUnmoved DEF lock_pick_proc, Work, StepPlaced
<1> QED BY <1>1, <1>2, <1>3

LEMMA PhysioPlaces ==
  ASSUME TypeOK, Kept(k), PlacesRight(k), NEW u \in Users, NEW t \in Tasks, Physio(t, u)
  PROVE  StepPlaced
<1>1. k \in Kernel /\ WaitsForFs(k, u)
  BY DEF TypeOK, Physio, WaitsFor, Accepts, WaitsForFs
<1>2. /\ k'.flags = k.flags /\ k'.getfrom = k.getfrom /\ k'.img = k.img
      /\ k'.shadow = k.shadow /\ k'.panic = k.panic /\ k'.physio \subseteq k.physio \cup {u}
  <2> DEFINE P == IF u \in k.physio THEN k.physio \ {u} ELSE k.physio \cup {u}
  <2>1. k' = [k EXCEPT !.physio = P]
    BY DEF Physio, Work
  <2>2. P \subseteq k.physio \cup {u}
    OBVIOUS
  <2> HIDE DEF P
  <2> QED BY <1>1, <2>1, <2>2 DEF Kernel
<1>3. UsersOfDrivers(k')
  BY <1>1, <1>2 DEF PlacesRight, UsersOfDrivers, WaitsForFs
<1>4. FamilyKept(k) => FamilyKept(k')
  <2>1. \A i : Owners(k', i) = Owners(k, i)
    BY <1>2 DEF Owners
  <2> QED BY <1>2, <2>1 DEF FamilyKept, Owned
<1> QED BY <1>2, <1>3, <1>4 DEF StepPlaced, PlacesRight, Fixed

LEMMA StepPlaces == TypeOK /\ Kept(k) /\ PlacesRight(k) /\ [Next]_vars => StepPlaced
<1> SUFFICES ASSUME TypeOK, Kept(k), PlacesRight(k), [Next]_vars PROVE StepPlaced
  OBVIOUS
<1>0. k' = k => StepPlaced
  BY DEF StepPlaced, Fixed
<1>1. CASE Sys
  BY <1>1, SysPlaces
<1>2. ASSUME NEW sig \in Sigs, trap(sig) PROVE StepPlaced
  BY <1>2, TrapPlaces
<1>3. CASE Kernel_Work
  <2>1. CASE lock_
    BY <1>0, <2>1 DEF lock_
  <2>2. CASE Quantum \/ Flip \/ lock_pick_proc
    BY <2>2, TickPlaces
  <2>3. ASSUME NEW u \in Users, NEW sig \in Sigs,
               (\E t \in Tasks : CauseSig(t, u, sig)) \/ do_kill(u, sig)
        PROVE  StepPlaced
    BY <2>3, SignalPlaces
  <2>4. ASSUME NEW u \in Users, do_sig(u) PROVE StepPlaced
    BY <2>4, SignalledPlaces
  <2>5. ASSUME NEW u \in Users,
               Exec(u) \/ Fresh(u) \/ Xit(u) \/ (\E c \in Users : Fork(u, c))
        PROVE  StepPlaced
    BY <2>5, LifePlaces
  <2>6. ASSUME NEW u \in Users, Stop(u) \/ Resume(u) PROVE StepPlaced
    BY <2>6, TracePlaces
  <2>7. ASSUME NEW u \in Users, NEW t \in Tasks, Physio(t, u) PROVE StepPlaced
    BY <2>7, PhysioPlaces
  <2> QED BY <1>3, <2>1, <2>2, <2>3, <2>4, <2>5, <2>6, <2>7 DEF Kernel_Work
<1>4. ASSUME NEW t \in IrqTasks, Irq(t) \/ IrqNested(t) PROVE StepPlaced
  BY <1>4, CallsAssumption, UnmovedIrq, PlacesUnmoved DEF StepPlaced
<1>5. CASE unhold
  <2>1. SYSTASK \in Tasks
    BY TasksAssumption
  <2> QED BY <1>5, <2>1, UnmovedIrq, PlacesUnmoved DEF StepPlaced
<1>6. CASE UNCHANGED vars
  BY <1>0, <1>6 DEF vars
<1> QED BY <1>1, <1>2, <1>3, <1>4, <1>5, <1>6 DEF Next, Step

LEMMA InitPlaces == Init => PlacesRight(k)
<1> SUFFICES ASSUME Init PROVE PlacesRight(k)
  OBVIOUS
<1>1. PICK tasks : k = Boot(tasks)
  BY DEF Init
<1>2. /\ k.flags = [p \in Procs |-> IF p > LOW_USER THEN {"P_SLOT_FREE"} ELSE {}]
      /\ k.img = [p \in Procs |-> LOW_USER]
      /\ k.shadow = {} /\ k.physio = {} /\ k.panic = "none"
  BY <1>1 DEF Boot, pick_proc
<1>3. \A u \in Users : "P_SLOT_FREE" \notin k.flags[u] <=> u = LOW_USER
  <2>1. \A u \in Users : u > LOW_USER <=> u # LOW_USER
    BY ProcsAssumption DEF Users, LOW_USER
  <2> QED BY <1>2, <2>1, UsersAre
<1>4. LOW_USER \in Users
  BY ProcsAssumption DEF Users, LOW_USER
<1>5. Owners(k, LOW_USER) = {LOW_USER}
  BY <1>2, <1>3, <1>4, UsersAre DEF Owners
<1>6. FamilyKept(k)
  BY <1>2, <1>3, <1>5, UsersAre DEF FamilyKept, Owned
<1> QED BY <1>2, <1>6 DEF PlacesRight, UsersOfDrivers

LEMMA AlwaysPlaced == Spec => []PlacesRight(k)
<1>1. Init => PlacesRight(k)
  BY InitPlaces
<1>2. TypeOK /\ Kept(k) /\ PlacesRight(k) /\ [Next]_vars => PlacesRight(k)'
  BY StepPlaces DEF StepPlaced
<1> QED BY <1>1, <1>2, TypeCorrect, AlwaysKept, PTL DEF Spec

(***************************************************************************)
(* The live processes of a fork family share a place in memory and exactly *)
(* one of them is no shadow, whoever forks, execs, exits or is flipped;    *)
(* rmshadow() never misses a shadow to hand the place to and unshadow()    *)
(* never an owner to flip with (kernel/stshadow.c): the one panic left is  *)
(* that for a shadow a driver uses.                                        *)
(***************************************************************************)
THEOREM FamiliesPlaced == Spec => []FamilyPlaced
<1>1. PlacesRight(k) => FamilyPlaced
  <2> SUFFICES ASSUME PlacesRight(k) PROVE FamilyPlaced
    OBVIOUS
  <2>1. ASSUME k.panic = "none", NEW u \in Users, Alive(u)
        PROVE  Cardinality({v \in Users : /\ Alive(v) /\ k.img[v] = k.img[u]
                                          /\ v \notin k.shadow}) = 1
    <3>1. PICK w : Owners(k, k.img[u]) = {w}
      BY <2>1 DEF PlacesRight, FamilyKept, Owned, Alive
    <3>2. {v \in Users : /\ Alive(v) /\ k.img[v] = k.img[u] /\ v \notin k.shadow} = {w}
      BY <3>1 DEF Owners, Alive
    <3>3. Cardinality({w}) = 1
      BY FS_Singleton
    <3> QED BY <3>2, <3>3
  <2>2. OneOwner
    BY <2>1 DEF OneOwner
  <2>3. NoPanic
    BY DEF PlacesRight, NoPanic
  <2> QED BY <2>2, <2>3 DEF FamilyPlaced
<1> QED BY <1>1, AlwaysPlaced, PTL

(***************************************************************************)
(* No step moves a process between the family's place and a shadow while a *)
(* driver uses its memory: it waits for FS then, so that it can neither    *)
(* fork nor exec, and unshadow() and rmshadow() (kernel/stshadow.c) look   *)
(* at p_physio.                                                            *)
(***************************************************************************)
THEOREM PhysioNotMoved == Spec => PhysioFixed
<1>1. TypeOK /\ Kept(k) /\ PlacesRight(k) /\ [Next]_vars =>
        [\A u \in k.physio \cap k'.physio :
           "P_SLOT_FREE" \notin k'.flags[u] => (u \in k.shadow <=> u \in k'.shadow)]_vars
  BY StepPlaces DEF StepPlaced, Fixed
<1> QED BY <1>1, TypeCorrect, AlwaysKept, AlwaysPlaced, PTL DEF Spec, PhysioFixed

-----------------------------------------------------------------------------
(* MM does not wait for work while signals pend. *)

MmTold(x) ==
  "RECEIVING" \in x.flags[MM_PROC_NR] =>
    /\ x.getfrom[MM_PROC_NR] # HARDWARE
    /\ x.getfrom[MM_PROC_NR] = ANY => x.sigProcs = 0

(* If MM waits in y, it has waited in x, for the same, and no signal is new. *)
NothingNew(x, y) ==
  "RECEIVING" \in y.flags[MM_PROC_NR] =>
    /\ "RECEIVING" \in x.flags[MM_PROC_NR] /\ y.getfrom[MM_PROC_NR] = x.getfrom[MM_PROC_NR]
    /\ y.sigProcs = x.sigProcs

LEMMA MmIs == MM_PROC_NR \in Procs /\ MM_PROC_NR \notin Users /\ MM_PROC_NR \notin Tasks
BY Numbers, TasksAssumption DEF MM_PROC_NR, Users, LOW_USER

LEMMA ToldStill ==
  ASSUME NEW x, NEW y, MmTold(x), NothingNew(x, y) PROVE MmTold(y)
BY DEF MmTold, NothingNew

LEMMA ToldInformed ==
  ASSUME NEW x, NEW y, Informed(x, y) PROVE "RECEIVING" \notin y.flags[MM_PROC_NR]
BY MmIs DEF Informed

LEMMA ToldSame == ASSUME NEW x, NEW y, SameFields(x, y), MmTold(x) PROVE MmTold(y)
BY DEF SameFields, MmTold

(* sig_procs is 0 exactly if nobody has PENDING. *)
LEMMA NonePend ==
  ASSUME NEW x, Kept(x)
  PROVE  /\ x.sigProcs \in Nat
         /\ x.sigProcs = 0 <=> \A u \in Users : "PENDING" \notin x.flags[u]
         /\ x.sigProcs = 0 => \A u \in Users : x.pending[u] = {}
<1> DEFINE S == {p \in Procs : x.pending[p] # {}}
<1>1. /\ x.sigProcs = Cardinality(S)
      /\ \A p \in Procs \ Users : x.pending[p] = {}
      /\ \A u \in Users : "PENDING" \in x.flags[u] <=> x.pending[u] # {}
  BY UsersAre DEF Kept, TableKept, Books, With
<1>2. IsFiniteSet(S) /\ Cardinality(S) \in Nat
  <2>1. S \subseteq Procs
    OBVIOUS
  <2> QED BY <2>1, FiniteSets
<1>3. Cardinality(S) = 0 <=> S = {}
  BY <1>2, FS_EmptySet
<1>4. S = {} <=> \A u \in Users : x.pending[u] = {}
  BY <1>1, UsersAre
<1> QED BY <1>1, <1>2, <1>3, <1>4

LEMMA ToldReceived ==
  ASSUME NEW x, Kept(x), MmTold(x), NEW p \in Procs, NEW src, src # HARDWARE \/ p # MM_PROC_NR,
         NEW y, Received(x, y, p, src)
  PROVE  MmTold(y)
<1>1. ASSUME NEW s \in Procs, Took(x, y, p, s) PROVE MmTold(y)
  <2>1. NothingNew(x, y)
    BY <1>1, MmIs DEF Took, Apart, NothingNew
  <2> QED BY <2>1, ToldStill
<1>2. ASSUME y = [x EXCEPT !.intBlocked = @ \ {p}, !.mess[p] = HardInt] PROVE MmTold(y)
  <2>1. NothingNew(x, y)
    BY <1>2 DEF Kept, Kernel, NothingNew
  <2> QED BY <2>1, ToldStill
<1>3. ASSUME ~(x.sigProcs > 0 /\ p = MM_PROC_NR /\ src = ANY), Waiting(x, y, p, src) PROVE MmTold(y)
  <2>1. CASE p = MM_PROC_NR
    <3>1. y.getfrom[MM_PROC_NR] = src /\ y.sigProcs = x.sigProcs
      BY <1>3, <2>1, MmIs DEF Waiting, Apart
    <3>2. src = ANY => x.sigProcs = 0
      BY <1>3, <2>1, NonePend
    <3> QED BY <2>1, <3>1, <3>2 DEF MmTold
  <2>2. CASE p # MM_PROC_NR
    <3>1. NothingNew(x, y)
      BY <1>3, <2>2, MmIs DEF Waiting, Apart, NothingNew
    <3> QED BY <3>1, ToldStill
  <2> QED BY <2>1, <2>2
<1>4. ASSUME NEW z, Informed(z, y) PROVE MmTold(y)
  BY <1>4, ToldInformed DEF MmTold
<1> QED BY <1>1, <1>2, <1>3, <1>4 DEF Received

LEMMA ToldSysCall ==
  ASSUME NEW x, Kept(x), MmTold(x), x.cur \in Live, NEW f \in Functions, NEW d \in Procs \cup {ANY},
         NEW m \in Message, MayDo(x, f, d), d # HARDWARE \/ x.cur # MM_PROC_NR
  PROVE  MmTold(sys_call(x, f, d, m))
<1> DEFINE p == x.cur
           a == [x EXCEPT !.mess[p] = m]
           y == sys_call(x, f, d, m)
<1>1. Called(x, y, a, p, f, d) /\ p \in Procs
  BY SysCallDoes, LiveProcs
<1>2. MmTold(a)
  <2>1. NothingNew(x, a)
    BY DEF Kept, Kernel, NothingNew
  <2> QED BY <2>1, ToldStill
<1> HIDE DEF a, y
<1>3. PICK b : /\ Kept(b)
               /\ b = a \/ (d \in Procs /\ Handed(a, b, p, d)) \/ (d \in Procs /\ InLine(a, b, p, d))
               /\ y = b \/ Received(b, y, p, d)
  BY <1>1 DEF Called
<1>4. MmTold(b)
  <2>1. ASSUME d \in Procs, Handed(a, b, p, d) PROVE NothingNew(a, b)
    BY <2>1, MmIs DEF Handed, Apart, NothingNew
  <2>2. ASSUME d \in Procs, InLine(a, b, p, d) PROVE NothingNew(a, b)
    BY <2>2, MmIs DEF InLine, Apart, NothingNew
  <2> QED BY <1>2, <1>3, <2>1, <2>2, ToldStill
<1>5. MmTold(y)
  BY <1>1, <1>3, <1>4, ToldReceived
<1> QED BY <1>5 DEF y

LEMMA ToldCauseSig ==
  ASSUME NEW x, Kept(x), MmTold(x), NEW p \in Users, NEW sig \in Sigs, "P_SLOT_FREE" \notin x.flags[p]
  PROVE  MmTold(cause_sig(x, p, sig))
<1> DEFINE y == cause_sig(x, p, sig)
<1>1. PICK z : /\ Raised(x, z)
               /\ \/ MmWaits(z) /\ Informed(z, y)
                  \/ z = y /\ (~MmWaits(y) \/ y.sigProcs = x.sigProcs)
  BY CauseSigDoes
<1> HIDE DEF y
<1>2. ASSUME Informed(z, y) PROVE MmTold(y)
  BY <1>2, ToldInformed DEF MmTold
<1>3. ASSUME z = y, ~MmWaits(y) \/ y.sigProcs = x.sigProcs PROVE MmTold(y)
  <2>1. /\ y.getfrom = x.getfrom
        /\ "RECEIVING" \in y.flags[MM_PROC_NR] <=> "RECEIVING" \in x.flags[MM_PROC_NR]
    BY <1>1, <1>3, MmIs DEF Raised
  <2> QED BY <1>3, <2>1 DEF MmTold, MmWaits
<1>4. MmTold(y)
  BY <1>1, <1>2, <1>3
<1> QED BY <1>4 DEF y

LEMMA ToldServed ==
  ASSUME NEW s, NEW c, NEW y, Kept(y), Serve(s, c, y), MmTold(y) PROVE MmTold(k')
BY ServeDoes, ToldStill DEF Replied, NothingNew

LEMMA ToldSys == ASSUME TypeOK, Kept(k), MmTold(k), Sys PROVE MmTold(k')
<1>1. k \in Kernel /\ k.cur \in Procs
  BY DEF TypeOK, Kernel
<1>2. NoMess \in Message /\ Request \in Message /\ Reply \in Message
  BY <1>1 DEF NoMess, Request, Reply, Message, MTypes
<1>3. ASSUME NEW c \in MayCall, Call(c) PROVE MmTold(k')
  <2> DEFINE m == IF c[1] = "RECEIVE" THEN NoMess ELSE Request
  <2>1. c[1] \in Functions /\ k.cur \in Live /\ c[3] \in Procs \cup {ANY} /\ c[2] = k.cur
    BY <1>3, CallsAssumption DEF Call
  <2>2. c[1] = "RECEIVE" \/ (c[3] \in Tasks \cup Servers /\ c[3] # k.cur)
    BY <1>3, CallsAssumption DEF Call
  <2>3. m \in Message
    BY <1>2
  <2>4. k' = sys_call(k, c[1], c[3], m)
    BY <1>3 DEF Call, Trap, restart
  <2> HIDE DEF m
  <2>5. MayDo(k, c[1], c[3])
    BY <2>2 DEF MayDo
  <2>6. c[3] # HARDWARE \/ k.cur # MM_PROC_NR
    BY <2>1, CallsAssumption, MmIs
  <2> QED BY <2>1, <2>3, <2>4, <2>5, <2>6, ToldSysCall
<1>4. ASSUME NEW p \in Live, Answer(p) PROVE MmTold(k')
  <2>1. k.cur \in Live /\ p \in Procs \cup {ANY} /\ "SEND" \in Functions /\ p # HARDWARE
    BY <1>4, LiveProcs, Hardware DEF Answer, Live, Functions
  <2>2. MayDo(k, "SEND", p)
    BY <1>4 DEF Answer, MayDo
  <2>3. k' = sys_call(k, "SEND", p, Reply)
    BY <1>4 DEF Answer, Trap, restart
  <2> QED BY <1>2, <2>1, <2>2, <2>3, ToldSysCall
<1> QED BY <1>3, <1>4 DEF Sys

LEMMA ToldIrq ==
  ASSUME TypeOK, MmTold(k), NEW t \in Tasks, Irq(t) \/ IrqNested(t) \/ unhold
  PROVE  MmTold(k')
<1>1. ASSUME NEW r \in Tasks
      PROVE  MmTold(interrupt(k, r)) /\ MmTold(pick_proc(interrupt(k, r)))
  <2> DEFINE y == interrupt(k, r)
  <2>1. r \in Procs /\ r # MM_PROC_NR
    BY LiveProcs, MmIs DEF Live
  <2>2. y \in Kernel /\ (Interrupted(k, y, r) \/ y = [k EXCEPT !.intBlocked = @ \cup {r}])
    BY <2>1, InterruptOnly, InterruptType DEF TypeOK
  <2> HIDE DEF y
  <2>3. ASSUME Interrupted(k, y, r) PROVE NothingNew(k, y)
    BY <2>1, <2>3, MmIs DEF Interrupted, Apart, NothingNew
  <2>4. ASSUME y = [k EXCEPT !.intBlocked = @ \cup {r}] PROVE NothingNew(k, y)
    BY <2>4 DEF TypeOK, Kernel, NothingNew
  <2>5. MmTold(y)
    BY <2>2, <2>3, <2>4, ToldStill
  <2>6. MmTold(pick_proc(y))
    BY <2>2, <2>5, PickSame, TableFields, ToldSame
  <2> QED BY <2>5, <2>6 DEF y
<1>2. CASE Irq(t) \/ IrqNested(t)
  <2>1. k' = k \/ k' = interrupt(k, t) \/ k' = pick_proc(interrupt(k, t))
    BY <1>2 DEF Irq, IrqNested, hold, restart
  <2> QED BY <1>1, <2>1
<1>3. CASE unhold
  <2>1. unholding \in Tasks /\ k' = interrupt(k, unholding)
    BY <1>3 DEF TypeOK, unhold
  <2> QED BY <1>1, <2>1
<1> QED BY <1>2, <1>3

LEMMA ToldLife ==
  ASSUME TypeOK, Kept(k), MmTold(k), NEW u \in Users,
         Exec(u) \/ Fresh(u) \/ Xit(u) \/ (\E c \in Users : Fork(u, c))
  PROVE  MmTold(k')
<1>0. k \in Kernel /\ u \in Procs /\ u # MM_PROC_NR
  BY MmIs, UsersAre DEF TypeOK
<1>1. CASE Exec(u)
  <2> DEFINE F == {"RECEIVING"}
             y == Unblock(k, u, F)
  <2>1. "RECEIVING" \in k.flags[u] /\ u \in Live
    BY <1>1 DEF Exec, WaitsFor, Accepts, Live
  <2>2. Kept(y)
    BY <2>1, WakeKept
  <2>3. Serve("exec", MM_PROC_NR, y)
    BY <1>1 DEF Exec, do_exec
  <2>4. F \in SUBSET Flag
    BY DEF Flag
  <2> HIDE DEF F
  <2>5. FlagsOnly(k, y) /\ y.flags = [k.flags EXCEPT ![u] = k.flags[u] \ F]
    BY <1>0, <2>4, UnblockOnly
  <2> HIDE DEF y
  <2>6. y.flags[MM_PROC_NR] = k.flags[MM_PROC_NR]
    BY <1>0, <2>5, MmIs DEF Kernel
  <2>7. MmTold(y)
    BY <2>5, <2>6 DEF FlagsOnly, MmTold
  <2> QED BY <2>2, <2>3, <2>7, ToldServed
<1>2. CASE Fresh(u)
  <2>1. PICK i \in FreeImages : Serve("shadow", MM_PROC_NR, do_fresh(k, u, i))
    BY <1>2 DEF Fresh
  <2> DEFINE a == rmshadow(k, u)
             y == do_fresh(k, u, i)
  <2>2. i \in Users /\ k.flags[u] # {}
    BY <1>2 DEF FreeImages, Fresh, WaitsFor, Accepts
  <2>3. Kept(y)
    BY <2>2, FreshKept
  <2>4. a \in Kernel /\ SameFields(k, a)
    <3>1. RunSet(k) \ {u} = RunSet(k)
      BY <2>2 DEF RunSet
    <3> QED BY <1>0, <3>1, RmshadowKeeps DEF Kept
  <2>5. y = [a EXCEPT !.img[u] = i]
    BY DEF do_fresh
  <2> HIDE DEF a
  <2>6. SameFields(k, y)
    BY <2>4, <2>5 DEF SameFields, Kernel
  <2> HIDE DEF y
  <2> QED BY <2>1, <2>3, <2>6, ToldSame, ToldServed DEF y
<1>3. CASE Xit(u)
  <2> DEFINE y == do_xit(k, u)
  <2>1. Kept(y) /\ Gone(k, y, u)
    BY <1>0, XitKept, XitDoes
  <2>2. Serve("life", MM_PROC_NR, y)
    BY <1>3 DEF Xit
  <2> HIDE DEF y
  <2>3. y.flags[MM_PROC_NR] = k.flags[MM_PROC_NR] /\ y.getfrom = k.getfrom
    BY <1>0, <2>1, MmIs DEF Gone
  <2>4. \A v \in Users : "PENDING" \in y.flags[v] => "PENDING" \in k.flags[v]
    BY <2>1, UsersAre DEF Gone
  <2>5. k.sigProcs = 0 => y.sigProcs = 0
    BY <2>1, <2>4, NonePend
  <2>6. MmTold(y)
    BY <2>3, <2>5 DEF MmTold
  <2> QED BY <2>1, <2>2, <2>6, ToldServed
<1>4. ASSUME NEW c \in Users, Fork(u, c) PROVE MmTold(k')
  <2> DEFINE y == do_fork(k, u, c)
  <2>1. /\ "RECEIVING" \in k.flags[u] /\ "SENDING" \notin k.flags[u]
        /\ "P_SLOT_FREE" \in k.flags[c] /\ Serve("life", MM_PROC_NR, y)
    BY <1>4 DEF Fork, WaitsFor, Accepts, Alive
  <2>2. Kept(y)
    BY <2>1, ForkKept
  <2>3. Forked(k, y, u, c)
    BY <1>0, UsersAre, ForkDoes
  <2> HIDE DEF y
  <2>4. c # MM_PROC_NR
    BY MmIs
  <2>5. NothingNew(k, y)
    BY <2>3, <2>4, MmIs DEF Forked, NothingNew
  <2> QED BY <2>1, <2>2, <2>5, ToldStill, ToldServed
<1> QED BY <1>1, <1>2, <1>3, <1>4

LEMMA ToldSignal ==
  ASSUME TypeOK, Kept(k), MmTold(k), NEW u \in Users,
         \/ \E sig \in Sigs : (\E t \in Tasks : CauseSig(t, u, sig)) \/ do_kill(u, sig)
         \/ do_sig(u)
  PROVE  MmTold(k')
<1>1. ASSUME NEW sig \in Sigs, (\E t \in Tasks : CauseSig(t, u, sig)) \/ do_kill(u, sig)
      PROVE  MmTold(k')
  <2>1. "P_SLOT_FREE" \notin k.flags[u]
    BY <1>1 DEF CauseSig, do_kill, Alive
  <2>2. Kept(cause_sig(k, u, sig)) /\ MmTold(cause_sig(k, u, sig))
    BY <2>1, CauseSigKept, ToldCauseSig
  <2>3. CASE \E t \in Tasks : CauseSig(t, u, sig)
    BY <2>2, <2>3 DEF CauseSig, Work
  <2>4. CASE do_kill(u, sig)
    BY <2>2, <2>4, ToldServed DEF do_kill
  <2> QED BY <1>1, <2>3, <2>4
<1>2. CASE do_sig(u)
  <2> DEFINE y == SigDone(k, u)
  <2>1. k.pendcount[u] = 0 \/ k.pendcount[u] > Cardinality(k.pending[u])
    BY <1>2, Idle DEF do_sig, Alive
  <2>2. Kept(y) /\ Serve("signal", MM_PROC_NR, y)
    BY <1>2, <2>1, SigDoneKept DEF do_sig
  <2>3. /\ y.getfrom = k.getfrom /\ y.sigProcs = k.sigProcs
        /\ \A r \in Procs : y.flags[r] \in {k.flags[r], k.flags[r] \ {"SIG_PENDING"}}
    BY UsersAre, SigDoneOnly DEF TypeOK
  <2> HIDE DEF y
  <2>4. NothingNew(k, y)
    BY <2>3, MmIs DEF NothingNew
  <2> QED BY <2>2, <2>4, ToldStill, ToldServed
<1> QED BY <1>1, <1>2

LEMMA ToldTrace ==
  ASSUME TypeOK, Kept(k), MmTold(k), NEW u \in Users, Stop(u) \/ Resume(u) PROVE MmTold(k')
<1>0. k \in Kernel /\ u \in Procs /\ u # MM_PROC_NR
  BY MmIs, UsersAre DEF TypeOK
<1>1. CASE Stop(u)
  <2> DEFINE a == unready(k, u)
             y == TraceStop(k, u)
  <2>1. Kept(y)
    BY <1>1, StopKept DEF Stop, Alive
  <2>2. a \in Kernel /\ SameTable(k, a)
    <3>1. SameTable(k, k)
      BY DEF SameTable
    <3> QED BY <1>0, <3>1, UnreadyType, UnreadySame
  <2>3. y = [a EXCEPT !.flags[u] = @ \cup {"P_STOP"}]
    BY DEF TraceStop
  <2> HIDE DEF a
  <2>4. NothingNew(k, y)
    BY <1>0, <2>2, <2>3 DEF Kernel, SameTable, NothingNew
  <2> HIDE DEF y
  <2>5. Serve("trace", MM_PROC_NR, y)
    BY <1>1 DEF Stop, y
  <2> QED BY <2>1, <2>4, <2>5, ToldStill, ToldServed
<1>2. CASE Resume(u)
  <2> DEFINE F == {"P_STOP"}
             y == Unblock(k, u, F)
  <2>1. Kept(y) /\ Serve("trace", MM_PROC_NR, y)
    BY <1>2, ResumeKept DEF Resume, TraceResume
  <2>2. F \in SUBSET Flag
    BY DEF Flag
  <2> HIDE DEF F
  <2>3. FlagsOnly(k, y) /\ y.flags = [k.flags EXCEPT ![u] = k.flags[u] \ F]
    BY <1>0, <2>2, UnblockOnly
  <2> HIDE DEF y
  <2>4. y.flags[MM_PROC_NR] = k.flags[MM_PROC_NR]
    BY <1>0, <2>3, MmIs DEF Kernel
  <2>5. NothingNew(k, y)
    BY <2>3, <2>4 DEF FlagsOnly, NothingNew
  <2> QED BY <2>1, <2>5, ToldStill, ToldServed
<1> QED BY <1>1, <1>2

LEMMA ToldTick ==
  ASSUME TypeOK, Kept(k), PlacesRight(k), MmTold(k),
         \/ Quantum \/ Flip \/ lock_pick_proc
         \/ \E u \in Users, t \in Tasks : Physio(t, u)
  PROVE  MmTold(k')
<1>0. k \in Kernel
  BY DEF TypeOK
<1>1. CASE Quantum
  <2>1. SameTable(k, sched(k))
    BY SchedKeeps DEF Kept
  <2> QED BY <1>1, <2>1, TableFields, ToldSame DEF Quantum, Work
<1>2. CASE Flip
  <2>1. PICK p \in Users : p \in RunSet(k) /\ p \in k.shadow /\ k.panic = "none" /\ k' = unshadow(k, p)
    BY <1>2, FlipHead
  <2>2. "P_SLOT_FREE" \notin k.flags[p]
    BY <2>1 DEF RunSet
  <2>3. k' = k \/ \E q : Flips(k, k', p, q)
    BY <1>0, <2>1, <2>2, UnshadowDoes
  <2>4. NothingNew(k, k')
    BY <2>3 DEF Flips, NothingNew
  <2> QED BY <2>4, ToldStill
<1>3. CASE lock_pick_proc
  BY <1>0, <1>3, PickSame, TableFields, ToldSame DEF lock_pick_proc, Work
<1>4. ASSUME NEW u \in Users, NEW t \in Tasks, Physio(t, u) PROVE MmTold(k')
  <2> DEFINE P == IF u \in k.physio THEN k.physio \ {u} ELSE k.physio \cup {u}
  <2>1. k' = [k EXCEPT !.physio = P]
    BY <1>4 DEF Physio, Work
  <2> HIDE DEF P
  <2>2. SameFields(k, k')
    BY <1>0, <2>1 DEF Kernel, SameFields
  <2> QED BY <2>2, ToldSame
<1> QED BY <1>1, <1>2, <1>3, <1>4

LEMMA StepTold == TypeOK /\ Kept(k) /\ PlacesRight(k) /\ MmTold(k) /\ [Next]_vars => MmTold(k')
<1> SUFFICES ASSUME TypeOK, Kept(k), PlacesRight(k), MmTold(k), [Next]_vars PROVE MmTold(k')
  OBVIOUS
<1>1. CASE Sys
  BY <1>1, ToldSys
<1>2. ASSUME NEW sig \in Sigs, trap(sig) PROVE MmTold(k')
  <2>1. k.cur \in Users /\ k' = cause_sig(k, k.cur, sig)
    BY <1>2 DEF trap, Trap, restart
  <2>2. k.cur # IDLE
    BY <2>1, Hardware DEF Live
  <2>3. k.flags[k.cur] = {}
    BY <2>2, CurRuns DEF Kept, RunSet
  <2> QED BY <2>1, <2>3, ToldCauseSig
<1>3. CASE Kernel_Work
  <2>1. CASE lock_
    BY <2>1 DEF lock_
  <2>2. CASE \/ Quantum \/ Flip \/ lock_pick_proc
             \/ \E u \in Users, t \in Tasks : Physio(t, u)
    BY <2>2, ToldTick
  <2>3. ASSUME NEW u \in Users,
               \/ \E sig \in Sigs : (\E t \in Tasks : CauseSig(t, u, sig)) \/ do_kill(u, sig)
               \/ do_sig(u)
        PROVE  MmTold(k')
    BY <2>3, ToldSignal
  <2>4. ASSUME NEW u \in Users,
               Exec(u) \/ Fresh(u) \/ Xit(u) \/ (\E c \in Users : Fork(u, c))
        PROVE  MmTold(k')
    BY <2>4, ToldLife
  <2>5. ASSUME NEW u \in Users, Stop(u) \/ Resume(u) PROVE MmTold(k')
    BY <2>5, ToldTrace
  <2> QED BY <1>3, <2>1, <2>2, <2>3, <2>4, <2>5 DEF Kernel_Work
<1>4. ASSUME NEW t \in IrqTasks, Irq(t) \/ IrqNested(t) PROVE MmTold(k')
  BY <1>4, CallsAssumption, ToldIrq
<1>5. CASE unhold
  <2>1. SYSTASK \in Tasks
    BY TasksAssumption
  <2> QED BY <1>5, <2>1, ToldIrq
<1>6. CASE UNCHANGED vars
  BY <1>6 DEF vars
<1> QED BY <1>1, <1>2, <1>3, <1>4, <1>5, <1>6 DEF Next, Step

(***************************************************************************)
(* MM never waits for work while a process has signals it was not told of: *)
(* cause_sig() calls inform() when MM waits, and the end of mini_rec()     *)
(* does when MM begins to (kernel/proc.c:276, kernel/system.c), also when  *)
(* the process with the signals forks, execs, is traced or exits.          *)
(***************************************************************************)
THEOREM SignalsTold == Spec => []NoSignalForgotten
<1>1. Init => MmTold(k)
  <2> SUFFICES ASSUME Init PROVE MmTold(k)
    OBVIOUS
  <2>1. PICK tasks : k = Boot(tasks)
    BY DEF Init
  <2>2. k.flags = [p \in Procs |-> IF p > LOW_USER THEN {"P_SLOT_FREE"} ELSE {}]
    BY <2>1 DEF Boot, pick_proc
  <2> QED BY <2>2, MmIs DEF MmTold
<1>2. TypeOK /\ Kept(k) /\ PlacesRight(k) /\ MmTold(k) /\ [Next]_vars => MmTold(k)'
  BY StepTold
<1>3. Kept(k) /\ MmTold(k) => NoSignalForgotten
  <2> SUFFICES ASSUME Kept(k), MmTold(k), Accepts(k, MM_PROC_NR, HARDWARE)
               PROVE  \A u \in Users : k.pending[u] = {}
    BY DEF NoSignalForgotten
  <2>1. k.sigProcs = 0
    BY DEF Accepts, MmTold
  <2> QED BY <2>1, NonePend
<1> QED BY <1>1, <1>2, <1>3, TypeCorrect, AlwaysKept, AlwaysPlaced, PTL DEF Spec

-----------------------------------------------------------------------------
(* Messages and interrupts reach whom they are for. *)

(* Whoever is released from waiting has got a message he wanted, if any. *)
Wanted(x, y) ==
  \A r \in Live :
    \/ "RECEIVING" \notin x.flags[r] \/ "RECEIVING" \in y.flags[r] \/ "P_SLOT_FREE" \in y.flags[r]
    \/ y.mess[r] = x.mess[r]
    \/ x.getfrom[r] \in {ANY, y.mess[r].m_source}

(* Whoever has left the queue of d has been heard, or is gone. *)
Heard(x, y) ==
  \A p, d \in Live :
    InQueue(x.callerq[d], p) /\ ~InQueue(y.callerq[d], p) =>
      \/ y.mess[d] = [m_source |-> p, m_type |-> x.mess[p].m_type]
      \/ "P_SLOT_FREE" \in y.flags[p]

(* An interrupt that is no longer on record has been delivered. *)
Recorded(x, y) ==
  \A t \in Tasks : t \in x.intBlocked => t \in y.intBlocked \/ y.mess[t] = HardInt

Arrived(x, y) == Wanted(x, y) /\ Heard(x, y) /\ Recorded(x, y)

(* Nobody gets a message, or only somebody who does not wait for one. *)
Silent(x, y) ==
  /\ y.callerq = x.callerq /\ y.intBlocked = x.intBlocked
  /\ \A r \in Live : y.mess[r] = x.mess[r] \/ "RECEIVING" \notin x.flags[r]

LEMMA SilentArrived == ASSUME NEW x, NEW y, Silent(x, y) PROVE Arrived(x, y)
BY DEF Silent, Arrived, Wanted, Heard, Recorded

LEMMA ArrivedInterrupted ==
  ASSUME NEW x \in Kernel, NEW t \in Tasks, NEW y, Interrupted(x, y, t), Accepts(x, t, HARDWARE)
  PROVE  Arrived(x, y)
<1>1. t \in Procs /\ \A r \in Tasks : r \in Procs
  BY LiveProcs DEF Live
<1>2. Wanted(x, y)
  <2>1. y.mess[t].m_source = HARDWARE /\ x.getfrom[t] \in {ANY, HARDWARE}
    BY <1>1 DEF Interrupted, HardInt, Accepts
  <2> QED BY <2>1, LiveProcs DEF Wanted, Interrupted
<1>3. Heard(x, y)
  BY DEF Heard, Interrupted
<1>4. Recorded(x, y)
  BY <1>1 DEF Recorded, Interrupted
<1> QED BY <1>2, <1>3, <1>4 DEF Arrived

LEMMA ArrivedInterrupt ==
  ASSUME NEW x \in Kernel, NEW t \in Tasks
  PROVE  LET y == interrupt(x, t)
         IN  /\ Arrived(x, y) /\ Arrived(x, pick_proc(y))
             /\ t \in y.intBlocked \/ y.mess[t] = HardInt
<1> DEFINE y == interrupt(x, t)
<1>1. t \in Procs
  BY LiveProcs DEF Live
<1>2. /\ y \in Kernel
      /\ \/ Accepts(x, t, HARDWARE) /\ Interrupted(x, y, t)
         \/ y = [x EXCEPT !.intBlocked = @ \cup {t}]
  BY <1>1, InterruptOnly, InterruptType
<1> HIDE DEF y
<1>3. CASE Accepts(x, t, HARDWARE) /\ Interrupted(x, y, t)
  <2>1. Arrived(x, y) /\ y.mess[t] = HardInt
    BY <1>1, <1>3, ArrivedInterrupted DEF Interrupted
  <2> DEFINE w == pick_proc(y)
  <2>2. SameTable(y, w)
    BY <1>2, PickSame
  <2> HIDE DEF w
  <2>3. Interrupted(x, w, t)
    BY <1>3, <2>2 DEF Interrupted, Apart, SameTable
  <2> QED BY <1>3, <2>1, <2>3, ArrivedInterrupted DEF w, y
<1>4. CASE y = [x EXCEPT !.intBlocked = @ \cup {t}]
  <2>1. y.callerq = x.callerq /\ y.mess = x.mess /\ y.intBlocked = x.intBlocked \cup {t}
    BY <1>4 DEF Kernel
  <2>2. SameTable(y, pick_proc(y))
    BY <1>2, PickSame
  <2>3. Arrived(x, y) /\ Arrived(x, pick_proc(y))
    BY <2>1, <2>2 DEF SameTable, Arrived, Wanted, Heard, Recorded
  <2> QED BY <2>1, <2>3 DEF y
<1> QED BY <1>2, <1>3, <1>4

(* What the send of a call does to those who wait and those in line *)
Sent(x, y) ==
  /\ y.intBlocked = x.intBlocked
  /\ \A r, q \in Procs : InQueue(x.callerq[r], q) => InQueue(y.callerq[r], q)
  /\ \A q \in Procs : "SENDING" \in x.flags[q] => y.mess[q] = x.mess[q]
  /\ \A r \in Procs : "RECEIVING" \in x.flags[r] =>
        \/ "RECEIVING" \in y.flags[r] /\ y.mess[r] = x.mess[r] /\ y.getfrom[r] = x.getfrom[r]
        \/ x.getfrom[r] \in {ANY, y.mess[r].m_source}

LEMMA SentBy ==
  ASSUME NEW x \in Kernel, NEW p \in Procs, NEW d, NEW y,
         y = x \/ (d \in Procs /\ Handed(x, y, p, d)) \/ (d \in Procs /\ InLine(x, y, p, d))
  PROVE  Sent(x, y)
<1>1. ASSUME d \in Procs, Handed(x, y, p, d) PROVE Sent(x, y)
  <2>1. \A r, q \in Procs : InQueue(x.callerq[r], q) => InQueue(y.callerq[r], q)
    BY <1>1 DEF Handed
  <2>2. \A q \in Procs : "SENDING" \in x.flags[q] => y.mess[q] = x.mess[q]
    BY <1>1 DEF Handed, Accepts
  <2>3. ASSUME NEW r \in Procs, "RECEIVING" \in x.flags[r]
        PROVE  \/ /\ "RECEIVING" \in y.flags[r] /\ y.mess[r] = x.mess[r]
                  /\ y.getfrom[r] = x.getfrom[r]
               \/ x.getfrom[r] \in {ANY, y.mess[r].m_source}
    BY <1>1, <2>3 DEF Handed, Accepts
  <2>4. y.intBlocked = x.intBlocked
    BY <1>1 DEF Handed
  <2> QED BY <2>1, <2>2, <2>3, <2>4 DEF Sent
<1>2. ASSUME d \in Procs, InLine(x, y, p, d) PROVE Sent(x, y)
  <2>1. ASSUME NEW r \in Procs, NEW q \in Procs, InQueue(x.callerq[r], q)
        PROVE  InQueue(y.callerq[r], q)
    <3>1. x.callerq[r] \in Seq(Procs)
      BY DEF Kernel
    <3>2. InQueue(Append(x.callerq[r], p), q)
      BY <2>1, <3>1, AppendProperties DEF InQueue
    <3> QED BY <1>2, <2>1, <3>2 DEF InLine
  <2>2. /\ y.intBlocked = x.intBlocked /\ y.mess = x.mess /\ y.getfrom = x.getfrom
        /\ \A r \in Procs : x.flags[r] \subseteq y.flags[r]
    BY <1>2 DEF InLine
  <2> QED BY <2>1, <2>2 DEF Sent
<1>3. y = x => Sent(x, y)
  BY DEF Sent
<1> QED BY <1>1, <1>2, <1>3

(* What the receive of a call by p does to the others *)
Taken(x, y, p) ==
  /\ \A r \in Live : r # p =>
       /\ "RECEIVING" \in x.flags[r] => "RECEIVING" \in y.flags[r]
       /\ y.mess[r].m_source = x.mess[r].m_source
  /\ \A s, d \in Procs :
       InQueue(x.callerq[d], s) /\ ~InQueue(y.callerq[d], s) =>
         y.mess[d] = [m_source |-> s, m_type |-> x.mess[s].m_type]
  /\ Recorded(x, y)

LEMMA TakenBy ==
  ASSUME NEW x, Kept(x), NEW p \in Procs, NEW src, NEW y, Received(x, y, p, src)
  PROVE  Taken(x, y, p)
<1>0. x \in Kernel /\ \A r \in Live : r \in Procs
  BY LiveProcs DEF Kept
<1>1. ASSUME NEW s \in Procs, Took(x, y, p, s) PROVE Taken(x, y, p)
  <2>1. x.callerq[p] \in Seq(Procs) /\ NoDuplicates(x.callerq[p])
    BY DEF Kept, TableKept, Sends, Kernel
  <2>2. \A r : InQueue(Dequeue(x.callerq[p], s), r) <=> InQueue(x.callerq[p], r) /\ r # s
    BY <2>1, DequeueKeeps
  <2>3. \A t, d \in Procs : InQueue(x.callerq[d], t) /\ ~InQueue(y.callerq[d], t) => d = p /\ t = s
    BY <1>1, <2>2 DEF Took
  <2>4. \A r \in Procs : r # p =>
          y.mess[r] = x.mess[r] /\ ("RECEIVING" \in x.flags[r] => "RECEIVING" \in y.flags[r])
    BY <1>1 DEF Took
  <2>5. y.mess[p] = [m_source |-> s, m_type |-> x.mess[s].m_type] /\ y.intBlocked = x.intBlocked
    BY <1>1 DEF Took
  <2> QED BY <1>0, <2>3, <2>4, <2>5 DEF Taken, Recorded
<1>2. ASSUME y = [x EXCEPT !.intBlocked = @ \ {p}, !.mess[p] = HardInt] PROVE Taken(x, y, p)
  <2>1. /\ y.flags = x.flags /\ y.callerq = x.callerq /\ y.intBlocked = x.intBlocked \ {p}
        /\ \A r \in Procs : y.mess[r] = IF r = p THEN HardInt ELSE x.mess[r]
    BY <1>0, <1>2 DEF Kernel
  <2> QED BY <1>0, <2>1 DEF Taken, Recorded
<1>3. ASSUME NEW z, Waiting(x, z, p, src)
      PROVE  /\ \A r \in Procs : "RECEIVING" \in x.flags[r] => "RECEIVING" \in z.flags[r]
             /\ z.mess = x.mess /\ z.callerq = x.callerq /\ z.intBlocked = x.intBlocked
  BY <1>3 DEF Waiting
<1>4. ASSUME Waiting(x, y, p, src) PROVE Taken(x, y, p)
  BY <1>0, <1>3, <1>4 DEF Taken, Recorded
<1>5. ASSUME p = MM_PROC_NR, NEW z \in Kernel, Waiting(x, z, p, src), Informed(z, y)
      PROVE  Taken(x, y, p)
  <2>1. /\ \A r \in Procs : "RECEIVING" \in x.flags[r] => "RECEIVING" \in z.flags[r]
        /\ z.mess = x.mess /\ z.callerq = x.callerq /\ z.intBlocked = x.intBlocked
    BY <1>3, <1>5
  <2>2. y.callerq = x.callerq /\ y.intBlocked = x.intBlocked
    BY <1>5, <2>1 DEF Informed
  <2>3. ASSUME NEW r \in Procs, r # p
        PROVE  /\ "RECEIVING" \in x.flags[r] => "RECEIVING" \in y.flags[r]
               /\ y.mess[r].m_source = x.mess[r].m_source
    <3>1. "RECEIVING" \in x.flags[r] => "RECEIVING" \in y.flags[r]
      BY <1>5, <2>1, <2>3 DEF Informed
    <3>2. y.mess[r] = [x.mess[r] EXCEPT !.m_type = "KSIG"] \/ y.mess[r] = x.mess[r]
      BY <1>5, <2>1, <2>3 DEF Informed
    <3>3. x.mess[r] \in Message
      BY <1>0 DEF Kernel
    <3> QED BY <3>1, <3>2, <3>3 DEF Message
  <2> QED BY <1>0, <2>2, <2>3 DEF Taken, Recorded
<1> QED BY <1>1, <1>2, <1>4, <1>5 DEF Received

(* What sys_call does for the process that runs *)
LEMMA ArrivedSysCall ==
  ASSUME NEW x, Kept(x), x.cur \in Live, NEW f \in Functions, NEW d \in Procs \cup {ANY},
         NEW m \in Message, MayDo(x, f, d)
  PROVE  Arrived(x, sys_call(x, f, d, m))
<1> DEFINE p == x.cur
           a == [x EXCEPT !.mess[p] = m]
           y == sys_call(x, f, d, m)
<1>1. Called(x, y, a, p, f, d) /\ p \in Procs
  BY SysCallDoes, LiveProcs
<1>2. x \in Kernel /\ x.flags[p] = {}
  <2>1. p # IDLE
    BY Hardware
  <2> QED BY <2>1, CurRuns DEF Kept, RunSet
<1>3. /\ a.flags = x.flags /\ a.getfrom = x.getfrom /\ a.callerq = x.callerq
      /\ a.intBlocked = x.intBlocked /\ \A r \in Procs : r # p => a.mess[r] = x.mess[r]
  BY <1>2 DEF Kernel
<1> HIDE DEF a, y
<1>4. PICK b : /\ Kept(b)
               /\ b = a \/ (d \in Procs /\ Handed(a, b, p, d)) \/ (d \in Procs /\ InLine(a, b, p, d))
               /\ y = b \/ Received(b, y, p, d)
  BY <1>1 DEF Called
<1>5. Sent(a, b) /\ b \in Kernel
  <2>1. a \in Kernel
    BY <1>1 DEF Called, Kept
  <2> QED BY <1>1, <1>4, <2>1, SentBy DEF Kept
<1>6. y = b \/ Taken(b, y, p)
  BY <1>1, <1>4, TakenBy
<1>7. Wanted(x, y)
  <2> SUFFICES ASSUME NEW r \in Live, "RECEIVING" \in x.flags[r]
               PROVE  \/ "RECEIVING" \in y.flags[r] \/ x.getfrom[r] \in {ANY, y.mess[r].m_source}
    BY DEF Wanted
  <2>1. r \in Procs /\ r # p
    BY <1>2, LiveProcs
  <2>2. "RECEIVING" \in b.flags[r] \/ x.getfrom[r] \in {ANY, b.mess[r].m_source}
    BY <1>3, <1>5, <2>1 DEF Sent
  <2> QED BY <1>6, <2>1, <2>2 DEF Taken
<1>8. Heard(x, y)
  <2> SUFFICES ASSUME NEW s \in Live, NEW e \in Live,
                      InQueue(x.callerq[e], s), ~InQueue(y.callerq[e], s)
               PROVE  y.mess[e] = [m_source |-> s, m_type |-> x.mess[s].m_type]
    BY DEF Heard
  <2>1. s \in Procs /\ e \in Procs
    BY LiveProcs
  <2>2. "SENDING" \in x.flags[s] /\ s # p
    BY <1>2, <2>1 DEF Kept, TableKept, Sends, With
  <2>3. b.mess[s] = x.mess[s] /\ InQueue(b.callerq[e], s)
    BY <1>3, <1>5, <2>1, <2>2 DEF Sent
  <2> QED BY <1>6, <2>1, <2>3 DEF Taken
<1>9. Recorded(x, y)
  BY <1>3, <1>5, <1>6 DEF Sent, Taken, Recorded
<1> QED BY <1>7, <1>8, <1>9 DEF Arrived, y

LEMMA ArrivedCauseSig ==
  ASSUME NEW x, Kept(x), NEW p \in Users, NEW sig \in Sigs, "P_SLOT_FREE" \notin x.flags[p]
  PROVE  LET y == cause_sig(x, p, sig)
         IN  Arrived(x, y) /\ y.callerq = x.callerq /\ y.intBlocked = x.intBlocked
<1> DEFINE y == cause_sig(x, p, sig)
<1>0. x \in Kernel /\ \A r \in Live : r \in Procs
  BY LiveProcs DEF Kept
<1>1. PICK z \in Kernel : Raised(x, z) /\ (z = y \/ (MmWaits(z) /\ Informed(z, y)))
  BY CauseSigDoes
<1> HIDE DEF y
<1>2. /\ z.callerq = x.callerq /\ z.mess = x.mess /\ z.getfrom = x.getfrom
      /\ z.intBlocked = x.intBlocked
      /\ \A r \in Procs : "RECEIVING" \in z.flags[r] <=> "RECEIVING" \in x.flags[r]
  BY <1>1 DEF Raised
<1>3. ASSUME z = y PROVE Silent(x, y)
  BY <1>2, <1>3 DEF Silent
<1>4. ASSUME MmWaits(z), Informed(z, y)
      PROVE  Arrived(x, y) /\ y.callerq = x.callerq /\ y.intBlocked = x.intBlocked
  <2>1. y.callerq = x.callerq /\ y.intBlocked = x.intBlocked
    BY <1>2, <1>4 DEF Informed
  <2>2. ASSUME NEW r \in Live, "RECEIVING" \in x.flags[r], r # MM_PROC_NR
        PROVE  "RECEIVING" \in y.flags[r]
    BY <1>0, <1>2, <1>4, <2>2 DEF Informed
  <2>3. x.getfrom[MM_PROC_NR] = ANY
    BY <1>2, <1>4 DEF MmWaits
  <2>4. Wanted(x, y)
    BY <2>2, <2>3 DEF Wanted
  <2> QED BY <2>1, <2>4 DEF Arrived, Heard, Recorded
<1>5. Arrived(x, y) /\ y.callerq = x.callerq /\ y.intBlocked = x.intBlocked
  BY <1>1, <1>3, <1>4, SilentArrived DEF Silent
<1> QED BY <1>5 DEF y

(* What SYSTASK does: whoever leaves a queue is gone. *)
LEMMA ArrivedServed ==
  ASSUME Kept(k), NEW s, NEW c, NEW y, Kept(y), Serve(s, c, y), Wanted(k, y),
         y.intBlocked = k.intBlocked,
         \A p, d \in Live : InQueue(k.callerq[d], p) /\ ~InQueue(y.callerq[d], p) =>
                              "P_SLOT_FREE" \in y.flags[p]
  PROVE  Arrived(k, k')
<1>1. Replied(y, k') /\ k.cur = SYSTASK
  BY ServeDoes
<1>2. k.flags[SYSTASK] = {}
  <2>1. SYSTASK # IDLE
    BY DEF SYSTASK, IDLE
  <2> QED BY <1>1, <2>1, CurRuns DEF Kept, RunSet
<1>3. Wanted(k, k')
  <2> SUFFICES ASSUME NEW r \in Live, "RECEIVING" \in k.flags[r]
               PROVE  \/ "RECEIVING" \in k'.flags[r] \/ "P_SLOT_FREE" \in k'.flags[r]
                      \/ k'.mess[r] = k.mess[r]
                      \/ k.getfrom[r] \in {ANY, k'.mess[r].m_source}
    BY DEF Wanted
  <2>1. r # SYSTASK /\ r \in Procs
    BY <1>2, LiveProcs
  <2> QED BY <1>1, <2>1 DEF Replied, Wanted
<1> QED BY <1>1, <1>3 DEF Replied, Arrived, Heard, Recorded

LEMMA SilentServed ==
  ASSUME Kept(k), NEW s, NEW c, NEW y, Kept(y), Serve(s, c, y), Silent(k, y)
  PROVE  Arrived(k, k')
<1>1. Wanted(k, y)
  BY SilentArrived DEF Arrived
<1> QED BY <1>1, ArrivedServed DEF Silent

LEMMA ArrivedSys == ASSUME TypeOK, Kept(k), Sys PROVE Arrived(k, k')
<1>1. k \in Kernel /\ k.cur \in Procs
  BY DEF TypeOK, Kernel
<1>2. NoMess \in Message /\ Request \in Message /\ Reply \in Message
  BY <1>1 DEF NoMess, Request, Reply, Message, MTypes
<1>3. ASSUME NEW c \in MayCall, Call(c) PROVE Arrived(k, k')
  <2> DEFINE m == IF c[1] = "RECEIVE" THEN NoMess ELSE Request
  <2>1. c[1] \in Functions /\ k.cur \in Live /\ c[3] \in Procs \cup {ANY}
    BY <1>3, CallsAssumption DEF Call
  <2>2. MayDo(k, c[1], c[3])
    BY <1>3, CallsAssumption DEF Call, MayDo
  <2>3. m \in Message
    BY <1>2
  <2>4. k' = sys_call(k, c[1], c[3], m)
    BY <1>3 DEF Call, Trap, restart
  <2> HIDE DEF m
  <2> QED BY <2>1, <2>2, <2>3, <2>4, ArrivedSysCall
<1>4. ASSUME NEW p \in Live, Answer(p) PROVE Arrived(k, k')
  <2>1. k.cur \in Live /\ p \in Procs \cup {ANY} /\ "SEND" \in Functions
    BY <1>4, LiveProcs DEF Answer, Live, Functions
  <2>2. MayDo(k, "SEND", p)
    BY <1>4 DEF Answer, MayDo
  <2>3. k' = sys_call(k, "SEND", p, Reply)
    BY <1>4 DEF Answer, Trap, restart
  <2> QED BY <1>2, <2>1, <2>2, <2>3, ArrivedSysCall
<1> QED BY <1>3, <1>4 DEF Sys

LEMMA ArrivedLife ==
  ASSUME TypeOK, Kept(k), NEW u \in Users,
         Exec(u) \/ Fresh(u) \/ Xit(u) \/ (\E c \in Users : Fork(u, c))
  PROVE  Arrived(k, k')
<1>0. k \in Kernel /\ u \in Procs /\ \A r \in Live : r \in Procs
  BY UsersAre, LiveProcs DEF TypeOK
<1>1. CASE Exec(u)
  <2> DEFINE F == {"RECEIVING"}
             y == Unblock(k, u, F)
  <2>1. "RECEIVING" \in k.flags[u] /\ u \in Live
    BY <1>1 DEF Exec, WaitsFor, Accepts, Live
  <2>2. Kept(y)
    BY <2>1, WakeKept
  <2>3. Serve("exec", MM_PROC_NR, y)
    BY <1>1 DEF Exec, do_exec
  <2>4. F \in SUBSET Flag
    BY DEF Flag
  <2> HIDE DEF F
  <2>5. FlagsOnly(k, y)
    BY <1>0, <2>4, UnblockOnly
  <2> HIDE DEF y
  <2>6. Silent(k, y)
    BY <2>5 DEF FlagsOnly, Silent
  <2> QED BY <2>2, <2>3, <2>6, SilentServed
<1>2. CASE Fresh(u)
  <2>1. PICK i \in FreeImages : Serve("shadow", MM_PROC_NR, do_fresh(k, u, i))
    BY <1>2 DEF Fresh
  <2> DEFINE a == rmshadow(k, u)
             y == do_fresh(k, u, i)
  <2>2. i \in Users /\ k.flags[u] # {}
    BY <1>2 DEF FreeImages, Fresh, WaitsFor, Accepts
  <2>3. Kept(y)
    BY <2>2, FreshKept
  <2>4. a \in Kernel /\ Demoted(k, a, u)
    BY <1>0, RmshadowDoes, RmshadowType
  <2>5. y = [a EXCEPT !.img[u] = i]
    BY DEF do_fresh
  <2> HIDE DEF a
  <2>6. Silent(k, y)
    BY <2>4, <2>5 DEF Demoted, Silent, Kernel
  <2> HIDE DEF y
  <2> QED BY <2>1, <2>3, <2>6, SilentServed DEF y
<1>3. CASE Xit(u)
  <2> DEFINE y == do_xit(k, u)
  <2>1. Kept(y) /\ Gone(k, y, u)
    BY <1>0, XitKept, XitDoes
  <2>2. Serve("life", MM_PROC_NR, y)
    BY <1>3 DEF Xit
  <2> HIDE DEF y
  <2>3. Wanted(k, y) /\ y.intBlocked = k.intBlocked
    BY <2>1 DEF Gone, Wanted
  <2>4. ASSUME NEW p \in Live, NEW d \in Live, InQueue(k.callerq[d], p), ~InQueue(y.callerq[d], p)
        PROVE  "P_SLOT_FREE" \in y.flags[p]
    <3>1. k.callerq[d] \in Seq(Procs) /\ NoDuplicates(k.callerq[d])
      BY <1>0 DEF Kept, TableKept, Sends, Kernel
    <3>2. \A r : InQueue(Dequeue(k.callerq[d], u), r) <=> InQueue(k.callerq[d], r) /\ r # u
      BY <3>1, DequeueKeeps
    <3>3. p = u
      BY <1>0, <2>1, <2>4, <3>2 DEF Gone
    <3> QED BY <1>0, <2>1, <3>3 DEF Gone
  <2> QED BY <2>1, <2>2, <2>3, <2>4, ArrivedServed
<1>4. ASSUME NEW c \in Users, Fork(u, c) PROVE Arrived(k, k')
  <2> DEFINE y == do_fork(k, u, c)
  <2>1. /\ "RECEIVING" \in k.flags[u] /\ "SENDING" \notin k.flags[u]
        /\ "P_SLOT_FREE" \in k.flags[c] /\ Serve("life", MM_PROC_NR, y)
    BY <1>4 DEF Fork, WaitsFor, Accepts, Alive
  <2>2. Kept(y)
    BY <2>1, ForkKept
  <2>3. Forked(k, y, u, c)
    BY <1>0, UsersAre, ForkDoes
  <2> HIDE DEF y
  <2>4. k.callerq[u] = <<>> /\ k.callerq[c] = <<>> /\ k.flags[c] = {"P_SLOT_FREE"}
    BY <2>1, Idle DEF Kept, TableKept, Sends
  <2>5. y.callerq = k.callerq /\ y.intBlocked = k.intBlocked
    BY <1>0, <2>3, <2>4 DEF Forked, Kernel
  <2>6. \A r \in Procs : r # c => y.mess[r] = k.mess[r]
    BY <1>0, <2>3 DEF Forked, Kernel
  <2>7. Silent(k, y)
    BY <1>0, <2>4, <2>5, <2>6 DEF Silent
  <2> QED BY <2>1, <2>2, <2>7, SilentServed
<1> QED BY <1>1, <1>2, <1>3, <1>4

LEMMA ArrivedSignal ==
  ASSUME TypeOK, Kept(k), NEW u \in Users,
         \/ \E sig \in Sigs : (\E t \in Tasks : CauseSig(t, u, sig)) \/ do_kill(u, sig)
         \/ do_sig(u)
  PROVE  Arrived(k, k')
<1>1. ASSUME NEW sig \in Sigs, (\E t \in Tasks : CauseSig(t, u, sig)) \/ do_kill(u, sig)
      PROVE  Arrived(k, k')
  <2> DEFINE y == cause_sig(k, u, sig)
  <2>1. "P_SLOT_FREE" \notin k.flags[u]
    BY <1>1 DEF CauseSig, do_kill, Alive
  <2>2. Kept(y) /\ Arrived(k, y) /\ y.callerq = k.callerq /\ y.intBlocked = k.intBlocked
    BY <2>1, CauseSigKept, ArrivedCauseSig
  <2> HIDE DEF y
  <2>3. CASE \E t \in Tasks : CauseSig(t, u, sig)
    BY <2>2, <2>3 DEF CauseSig, Work, y
  <2>4. CASE do_kill(u, sig)
    <3>1. PICK c : Serve("kill", c, y)
      BY <2>4 DEF do_kill, y
    <3> QED BY <2>2, <3>1, ArrivedServed DEF Arrived
  <2> QED BY <1>1, <2>3, <2>4
<1>2. CASE do_sig(u)
  <2> DEFINE y == SigDone(k, u)
  <2>1. k.pendcount[u] = 0 \/ k.pendcount[u] > Cardinality(k.pending[u])
    BY <1>2, Idle DEF do_sig, Alive
  <2>2. Kept(y) /\ Serve("signal", MM_PROC_NR, y)
    BY <1>2, <2>1, SigDoneKept DEF do_sig
  <2>3. y.callerq = k.callerq /\ y.intBlocked = k.intBlocked /\ y.mess = k.mess
    BY UsersAre, SigDoneOnly DEF TypeOK
  <2> HIDE DEF y
  <2>4. Silent(k, y)
    BY <2>3 DEF Silent
  <2> QED BY <2>2, <2>4, SilentServed
<1> QED BY <1>1, <1>2

LEMMA ArrivedTrace ==
  ASSUME TypeOK, Kept(k), NEW u \in Users, Stop(u) \/ Resume(u) PROVE Arrived(k, k')
<1>0. k \in Kernel /\ u \in Procs
  BY UsersAre DEF TypeOK
<1>1. CASE Stop(u)
  <2> DEFINE a == unready(k, u)
             y == TraceStop(k, u)
  <2>1. Kept(y)
    BY <1>1, StopKept DEF Stop, Alive
  <2>2. a \in Kernel /\ SameTable(k, a)
    <3>1. SameTable(k, k)
      BY DEF SameTable
    <3> QED BY <1>0, <3>1, UnreadyType, UnreadySame
  <2>3. y = [a EXCEPT !.flags[u] = @ \cup {"P_STOP"}]
    BY DEF TraceStop
  <2> HIDE DEF a
  <2>4. Silent(k, y)
    BY <2>2, <2>3 DEF Kernel, SameTable, Silent
  <2> HIDE DEF y
  <2>5. Serve("trace", MM_PROC_NR, y)
    BY <1>1 DEF Stop, y
  <2> QED BY <2>1, <2>4, <2>5, SilentServed
<1>2. CASE Resume(u)
  <2> DEFINE F == {"P_STOP"}
             y == Unblock(k, u, F)
  <2>1. Kept(y) /\ Serve("trace", MM_PROC_NR, y)
    BY <1>2, ResumeKept DEF Resume, TraceResume
  <2>2. F \in SUBSET Flag
    BY DEF Flag
  <2> HIDE DEF F
  <2>3. FlagsOnly(k, y)
    BY <1>0, <2>2, UnblockOnly
  <2> HIDE DEF y
  <2>4. Silent(k, y)
    BY <2>3 DEF FlagsOnly, Silent
  <2> QED BY <2>1, <2>4, SilentServed
<1> QED BY <1>1, <1>2

LEMMA ArrivedTick ==
  ASSUME TypeOK, Kept(k), PlacesRight(k),
         \/ Quantum \/ Flip \/ lock_pick_proc
         \/ \E u \in Users, t \in Tasks : Physio(t, u)
  PROVE  Arrived(k, k')
<1>0. k \in Kernel
  BY DEF TypeOK
<1>1. CASE Quantum
  <2>1. SameTable(k, sched(k))
    BY SchedKeeps DEF Kept
  <2>2. Silent(k, k')
    BY <1>1, <2>1 DEF Quantum, Work, SameTable, Silent
  <2> QED BY <2>2, SilentArrived
<1>2. CASE Flip
  <2>1. PICK p \in Users : p \in RunSet(k) /\ p \in k.shadow /\ k.panic = "none" /\ k' = unshadow(k, p)
    BY <1>2, FlipHead
  <2>2. "P_SLOT_FREE" \notin k.flags[p]
    BY <2>1 DEF RunSet
  <2>3. k' = k \/ \E q : Flips(k, k', p, q)
    BY <1>0, <2>1, <2>2, UnshadowDoes
  <2>4. Silent(k, k')
    BY <2>3 DEF Flips, Silent
  <2> QED BY <2>4, SilentArrived
<1>3. CASE lock_pick_proc
  <2>1. SameTable(k, k')
    BY <1>0, <1>3, PickSame DEF lock_pick_proc, Work
  <2>2. Silent(k, k')
    BY <2>1 DEF SameTable, Silent
  <2> QED BY <2>2, SilentArrived
<1>4. ASSUME NEW u \in Users, NEW t \in Tasks, Physio(t, u) PROVE Arrived(k, k')
  <2> DEFINE P == IF u \in k.physio THEN k.physio \ {u} ELSE k.physio \cup {u}
  <2>1. k' = [k EXCEPT !.physio = P]
    BY <1>4 DEF Physio, Work
  <2> HIDE DEF P
  <2>2. Silent(k, k')
    BY <1>0, <2>1 DEF Kernel, Silent
  <2> QED BY <2>2, SilentArrived
<1> QED BY <1>1, <1>2, <1>3, <1>4

(* The interrupt that unhold() had in hand *)
Unheld ==
  \A t \in Tasks : unholding = t /\ unholding' # t => t \in k'.intBlocked \/ k'.mess[t] = HardInt

LEMMA NotUnheld ==
  ASSUME unholding = NIL_PROC \/ unholding' = unholding PROVE Unheld
<1>1. NIL_PROC \notin Tasks
  BY Numbers, TasksAssumption, ProcsAssumption DEF NIL_PROC, ANY
<1> QED BY <1>1 DEF Unheld

LEMMA ArrivedIrq ==
  ASSUME TypeOK, NEW t \in Tasks, Irq(t) \/ IrqNested(t)
  PROVE  Arrived(k, k') /\ Unheld
<1>1. Arrived(k, k)
  BY SilentArrived DEF Silent
<1>2. k' = k \/ k' = interrupt(k, t) \/ k' = pick_proc(interrupt(k, t))
  BY DEF Irq, IrqNested, hold, restart
<1>3. unholding = NIL_PROC \/ unholding' = unholding
  BY DEF Irq, IrqNested, hold, Running
<1> QED BY <1>1, <1>2, <1>3, ArrivedInterrupt, NotUnheld DEF TypeOK

LEMMA ArrivedUnhold == ASSUME TypeOK, unhold PROVE Arrived(k, k') /\ Unheld
<1>1. unholding \in Tasks /\ k' = interrupt(k, unholding) /\ k \in Kernel
  BY DEF TypeOK, unhold
<1>2. Arrived(k, k') /\ (unholding \in k'.intBlocked \/ k'.mess[unholding] = HardInt)
  BY <1>1, ArrivedInterrupt
<1> QED BY <1>2 DEF Unheld

LEMMA StepArrived == TypeOK /\ Kept(k) /\ PlacesRight(k) /\ [Next]_vars => Arrived(k, k') /\ Unheld
<1> SUFFICES ASSUME TypeOK, Kept(k), PlacesRight(k), [Next]_vars PROVE Arrived(k, k') /\ Unheld
  OBVIOUS
<1>0. Arrived(k, k)
  BY SilentArrived DEF Silent
<1>1. CASE Sys
  <2>1. unholding = NIL_PROC
    BY <1>1 DEF Sys, Call, Answer, Trap, Running
  <2> QED BY <1>1, <2>1, ArrivedSys, NotUnheld
<1>2. ASSUME NEW sig \in Sigs, trap(sig) PROVE Arrived(k, k') /\ Unheld
  <2>1. k.cur \in Users /\ k' = cause_sig(k, k.cur, sig) /\ unholding = NIL_PROC
    BY <1>2 DEF trap, Trap, restart, Running
  <2>2. k.cur # IDLE
    BY <2>1, Hardware DEF Live
  <2>3. k.flags[k.cur] = {}
    BY <2>2, CurRuns DEF Kept, RunSet
  <2> QED BY <2>1, <2>3, ArrivedCauseSig, NotUnheld
<1>3. CASE Kernel_Work
  <2>0. unholding = NIL_PROC
    BY <1>3 DEF Kernel_Work, lock_, lock_pick_proc, Quantum, Flip, CauseSig, do_kill, do_sig,
                Exec, Fresh, Xit, Stop, Resume, Fork, Physio, Serve, Work, Running
  <2>1. ASSUME lock_ PROVE Arrived(k, k')
    <3>1. k' = k
      BY <2>1 DEF lock_
    <3> QED BY <1>0, <3>1
  <2>2. ASSUME \/ Quantum \/ Flip \/ lock_pick_proc
               \/ \E u \in Users, t \in Tasks : Physio(t, u)
        PROVE  Arrived(k, k')
    BY <2>2, ArrivedTick
  <2>3. ASSUME NEW u \in Users,
               \/ \E sig \in Sigs : (\E t \in Tasks : CauseSig(t, u, sig)) \/ do_kill(u, sig)
               \/ do_sig(u)
        PROVE  Arrived(k, k')
    BY <2>3, ArrivedSignal
  <2>4. ASSUME NEW u \in Users,
               Exec(u) \/ Fresh(u) \/ Xit(u) \/ (\E c \in Users : Fork(u, c))
        PROVE  Arrived(k, k')
    BY <2>4, ArrivedLife
  <2>5. ASSUME NEW u \in Users, Stop(u) \/ Resume(u) PROVE Arrived(k, k')
    BY <2>5, ArrivedTrace
  <2>6. Arrived(k, k')
    BY <1>3, <2>1, <2>2, <2>3, <2>4, <2>5 DEF Kernel_Work
  <2> QED BY <2>0, <2>6, NotUnheld
<1>4. ASSUME NEW t \in IrqTasks, Irq(t) \/ IrqNested(t) PROVE Arrived(k, k') /\ Unheld
  BY <1>4, CallsAssumption, ArrivedIrq
<1>5. CASE unhold
  BY <1>5, ArrivedUnhold
<1>6. CASE UNCHANGED vars
  BY <1>0, <1>6, NotUnheld DEF vars
<1> QED BY <1>1, <1>2, <1>3, <1>4, <1>5, <1>6 DEF Next, Step

(***************************************************************************)
(* Whoever waits for one source gets its message from there; whoever is    *)
(* released from a send has been heard, unless he exits; an interrupt that *)
(* found its task busy stays on record until the task has its message:     *)
(* mini_send(), mini_rec(), interrupt(), unhold() (kernel/proc.c), and     *)
(* inform(), do_fork() and do_xit(), which touch the same fields           *)
(* (kernel/system.c).                                                      *)
(***************************************************************************)
THEOREM MessagesDelivered == Spec => Delivered
<1> DEFINE Only == \A p \in Live :
                     (/\ "RECEIVING" \in k.flags[p]
                      /\ {"RECEIVING", "P_SLOT_FREE"} \cap k'.flags[p] = {}
                      /\ k'.mess[p] # k.mess[p])
                     => k.getfrom[p] \in {ANY, k'.mess[p].m_source}
           Lost == \A p, d \in Live :
                     InQueue(k.callerq[d], p) /\ ~InQueue(k'.callerq[d], p) =>
                       \/ k'.mess[d] = [m_source |-> p, m_type |-> k.mess[p].m_type]
                       \/ "P_SLOT_FREE" \in k'.flags[p]
           Ints == \A t \in Tasks :
                     \/ t \in k.intBlocked /\ t \notin k'.intBlocked
                     \/ unholding = t /\ unholding' # t /\ t \notin k'.intBlocked
                     => k'.mess[t] = [m_source |-> HARDWARE, m_type |-> "HARD_INT"]
<1>1. TypeOK /\ Kept(k) /\ PlacesRight(k) /\ [Next]_vars => Only /\ Lost /\ Ints
  <2> SUFFICES ASSUME TypeOK, Kept(k), PlacesRight(k), [Next]_vars PROVE Only /\ Lost /\ Ints
    OBVIOUS
  <2>1. Wanted(k, k') /\ Heard(k, k') /\ Recorded(k, k') /\ Unheld
    BY StepArrived DEF Arrived
  <2>2. Only
    BY <2>1 DEF Wanted
  <2>3. Lost
    BY <2>1 DEF Heard
  <2>4. Ints
    BY <2>1 DEF Recorded, Unheld, HardInt
  <2> QED BY <2>2, <2>3, <2>4
<1>2. Spec => [][Only]_vars /\ [][Lost]_vars /\ [][Ints]_vars
  <2> HIDE DEF Only, Lost, Ints
  <2> QED BY <1>1, TypeCorrect, AlwaysKept, AlwaysPlaced, PTL DEF Spec
<1> QED BY <1>2 DEF Delivered, OnlyWanted, NoMessageLost, InterruptKept

=============================================================================
