-------------------------------- MODULE Alloc --------------------------------
(***************************************************************************)
(* The hole list of the memory manager (mm/alloc.c) as fork, exec and exit *)
(* use it (mm/forkexit.c, mm/exec.c) and as do_brk2 (mm/main.c) sets it up *)
(* on the ST, whose memory is one chunk that starts at address 0.          *)
(*                                                                         *)
(* The list that hole_head leads to is a sequence, and the list of unused  *)
(* table entries is the number of them.  A pointer into the hole list is   *)
(* an index.  Sizes and addresses are in clicks.                           *)
(***************************************************************************)
EXTENDS Integers, SequencesExt

CONSTANTS NR_HOLES,   \* entries of the hole table
          NR_PROCS,   \* slots of the process table
          TOTAL,      \* clicks of memory
          MINIX,      \* clicks of kernel, MM, FS and INIT, at address 0
          RAM,        \* clicks of the RAM disk
          MaxSize     \* the largest image of a program

(* do_brk2() stops the system if too little is left for programs *)
ASSUME MemoryAssumption ==
  /\ MINIX \in Nat \ {0} /\ RAM \in Nat \ {0} /\ MaxSize \in Nat
  /\ TOTAL \in Nat /\ TOTAL > MINIX + RAM
ASSUME TableAssumption ==
  NR_PROCS \in Nat /\ NR_HOLES \in Nat /\ NR_PROCS > 3 /\ NR_HOLES >= NR_PROCS - 1

NO_MEM == 0           \* alloc_mem() has failed; also the address of the system

VARIABLES h,          \* the hole table: list, unused slots, panic
          images,     \* the images of programs, which the kernel's maps hold
          result      \* what the last call of a program returned

vars == <<h, images, result>>

Panics == {"none", "Hole table full", "inconsistent system memory base",
           "not enough memory for RAM disk", "MM hole list is inconsistent"}

Hole(b, n) == [base |-> b, len |-> n]
End(o)     == o.base + o.len
Extent(o)  == o.base .. End(o) - 1

-----------------------------------------------------------------------------
(* mm/alloc.c *)

del_slot(t, i) == [t EXCEPT !.list = RemoveAt(@, i), !.slots = @ + 1]

LastFit(t, n) == SelectLastInSeq(t.list, LAMBDA o : o.len >= n) \* mutant of FirstFit

(* The first hole of at least n clicks; 0 if there is none *)
FirstFit(t, n) == SelectInSeq(t.list, LAMBDA o : o.len >= n)

AllocResult(t, n) ==
  IF FirstFit(t, n) = 0 THEN NO_MEM ELSE t.list[FirstFit(t, n)].base

alloc_mem(t, n) ==
  LET i == FirstFit(t, n)
      rest == Hole(t.list[i].base + n, t.list[i].len - n)
  IN  IF i = 0 THEN t
      ELSE IF rest.len # 0 THEN [t EXCEPT !.list[i] = rest]
      ELSE del_slot(t, i)

Abuts(t, i) == i < Len(t.list) /\ End(t.list[i]) = t.list[i + 1].base

(* Hole i takes its successor if they abut *)
Absorb(t, i) ==
  IF Abuts(t, i)
  THEN del_slot([t EXCEPT !.list[i].len = @ + t.list[i + 1].len], i + 1)
  ELSE t

mergeOne(t, i) == Absorb(t, i)                             \* mutant of merge

merge(t, i) == Absorb(Absorb(t, i), IF Abuts(t, i) THEN i ELSE i + 1)

(* Where the walk along the list stops: at the first hole not below base *)
Above(t, base) ==
  LET i == SelectInSeq(t.list, LAMBDA o : base <= o.base)
  IN  IF i = 0 THEN Len(t.list) + 1 ELSE i

Insert(t, i, o) == [t EXCEPT !.list = InsertAt(@, i, o), !.slots = @ - 1]

free_mem(t, o) ==
  IF t.slots = 0 THEN [t EXCEPT !.panic = "Hole table full"]
  ELSE LET i == Above(t, o.base)
       IN  merge(Insert(t, i, o), IF i = 1 THEN 1 ELSE i - 1)

mem_left(t) == FoldSeq(LAMBDA o, n : o.len + n, 0, t.list)  \* mutant of max_hole

max_hole(t) == Max({0} \cup {t.list[i].len : i \in DOMAIN t.list})

-----------------------------------------------------------------------------
(* mem_init(), then do_brk2() before any program runs: INIT starts with a  *)
(* sync(), which FS answers when it has told MM of the RAM disk.           *)
Empty == [list |-> <<>>, slots |-> NR_HOLES, panic |-> "none"]

mem_init == free_mem(Empty, Hole(0, TOTAL))

do_brk2 ==
  LET t == alloc_mem(mem_init, MINIX)
  IN  IF AllocResult(mem_init, MINIX) # 0
      THEN [t EXCEPT !.panic = "inconsistent system memory base"]
      ELSE IF AllocResult(t, RAM) = NO_MEM
      THEN [t EXCEPT !.panic = "not enough memory for RAM disk"]
      ELSE alloc_mem(t, RAM)

Init == /\ h = do_brk2
        /\ images = {}
        /\ result = "OK"

(* A program forks; the image of the child has n clicks.  MM, FS and INIT  *)
(* have no image of their own here.                                        *)
do_fork(n) ==
  /\ Cardinality(images) < NR_PROCS - 3
  /\ h' = alloc_mem(h, n)
  /\ IF AllocResult(h, n) = NO_MEM
     THEN result' = "EAGAIN" /\ UNCHANGED images
     ELSE /\ images' = images \cup {Hole(AllocResult(h, n), n)}
          /\ result' = "OK"

(* A program whose image is o executes a file that needs n clicks: o is    *)
(* given back by the kernel (sys_fresh) when the new image is set up.      *)
new_mem(n, o) ==
  IF n > max_hole(h)
  THEN result' = "EAGAIN" /\ UNCHANGED <<h, images>>
  ELSE IF AllocResult(h, n) = NO_MEM
  THEN /\ h' = [h EXCEPT !.panic = "MM hole list is inconsistent"]
       /\ UNCHANGED <<images, result>>
  ELSE /\ h' = free_mem(alloc_mem(h, n), o)
       /\ images' = (images \ {o}) \cup {Hole(AllocResult(h, n), n)}
       /\ result' = "OK"

(* The program whose image is o exits or is killed *)
mm_exit(o) ==
  /\ h' = free_mem(h, o)
  /\ images' = images \ {o}
  /\ result' = "OK"

Next == /\ h.panic = "none"
        /\ \/ \E n \in 1 .. MaxSize : do_fork(n)
           \/ \E o \in images : mm_exit(o) \/ \E n \in 1 .. MaxSize : new_mem(n, o)

Spec == Init /\ [][Next]_vars

-----------------------------------------------------------------------------
(* Properties *)

FreeClicks(t) == UNION {Extent(t.list[i]) : i \in DOMAIN t.list}

(* What is not empty and within memory *)
Holes == {o \in [base : 0 .. TOTAL - 1, len : 1 .. TOTAL] : End(o) <= TOTAL}

(* The table is a list of real holes, and the images are real blocks *)
TypeOK == /\ h \in [list : Seq(Holes), slots : 0 .. NR_HOLES,
                    panic : Panics]
          /\ images \subseteq Holes
          /\ result \in {"OK", "EAGAIN"}

(* Holes are sorted by address, and two holes never abut or overlap: what  *)
(* merge() is for.  A request could fail with enough memory free if they   *)
(* did.                                                                    *)
Coalesced == \A i \in DOMAIN h.list : \A j \in DOMAIN h.list :
               i < j => End(h.list[i]) < h.list[j].base

(* Every click that the system does not keep is in a hole or in one image, *)
(* never in two of them: no memory is lost and none is given out twice.    *)
Partition ==
  /\ FreeClicks(h) \cup UNION {Extent(o) : o \in images} = MINIX + RAM .. TOTAL - 1
  /\ \A o \in images : Extent(o) \cap FreeClicks(h) = {}
  /\ \A o \in images : \A p \in images : o = p \/ Extent(o) \cap Extent(p) = {}

(* No panic of this code is reached: free_mem() finds an unused entry of   *)
(* the hole table, although it needs one even if it will merge; alloc_mem()*)
(* finds the hole that max_hole() has promised, and the memory at address  *)
(* 0 for the system.                                                       *)
NoPanic == h.panic = "none"

(* Entries of the hole table are neither lost nor used twice *)
SlotsKept == Len(h.list) + h.slots = NR_HOLES

(* What every routine of mm/alloc.c leaves behind: a list that is sorted   *)
(* and merged, holds each free click once, and has its entries back        *)
HolesKept == TypeOK /\ Coalesced /\ Partition /\ SlotsKept

(* The hole list does what is promised of the memory (module Memory): the  *)
(* lowest room is used, and a request fails only if there is no room.      *)
Promise == INSTANCE Memory WITH free <- FreeClicks(h), SYSTEM <- MINIX + RAM
PromiseKept == Promise!MemSpec
=============================================================================
