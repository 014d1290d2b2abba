------------------------------- MODULE Memory -------------------------------
(***************************************************************************)
(* What mm/alloc.c promises to fork, exec and exit: an image is put at the *)
(* lowest address that has room for it; it is refused only if no address   *)
(* has; what is given back is free again.  Nothing is said of holes: the   *)
(* hole list of module Alloc implements this.                              *)
(***************************************************************************)
EXTENDS Integers

CONSTANTS TOTAL,      \* clicks of memory, numbered from 0
          SYSTEM,     \* clicks at address 0 that the system keeps
          MaxSize     \* the largest image of a program

VARIABLES free,       \* the clicks that are not in use
          images,     \* the images of programs, as blocks of memory
          result      \* of the last call

memvars == <<free, images, result>>

Clicks      == 0 .. TOTAL - 1
Size        == 1 .. MaxSize
Block(b, n) == [base |-> b, len |-> n]
Extent(o)   == o.base .. o.base + o.len - 1
Room(n)     == {b \in Clicks : b .. b + n - 1 \subseteq free}

MemInit == /\ free = SYSTEM .. TOTAL - 1
           /\ images = {}
           /\ result = "OK"

(* The lowest room for n clicks is used and the images in old are freed *)
Place(n, old) ==
  \E b \in Room(n) :
    /\ \A c \in Room(n) : b <= c
    /\ free' = (free \ Extent(Block(b, n))) \cup UNION {Extent(o) : o \in old}
    /\ images' = (images \ old) \cup {Block(b, n)}
    /\ result' = "OK"

Refuse(n) == /\ Room(n) = {}
             /\ result' = "EAGAIN"
             /\ UNCHANGED <<free, images>>

Release(o) == /\ free' = free \cup Extent(o)
              /\ images' = images \ {o}
              /\ result' = "OK"

MemNext == \/ \E n \in Size : Place(n, {}) \/ Refuse(n)
           \/ \E o \in images : Release(o) \/ \E n \in Size : Place(n, {o})

MemSpec == MemInit /\ [][MemNext]_memvars
=============================================================================
