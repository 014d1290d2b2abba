-------------------------------- MODULE Stream --------------------------------
(***************************************************************************)
(* What a pipe promises to those who read and write it (fs/pipe.c,         *)
(* fs/read.c): a bounded stream of bytes.                                  *)
(***************************************************************************)
EXTENDS Naturals, Sequences

CONSTANTS Bytes, Capacity

VARIABLES q,             \* the bytes written and not yet read
          reading       \* there is a reader

vars == <<q, reading>>

Init == q = <<>> /\ ~ reading

(* The pipe is made *)
Open == /\ ~ reading /\ reading'
        /\ UNCHANGED q

(* A write() is atomic: all its bytes are appended, if there is a reader *)
AppendAll(b) == /\ reading
                /\ \E n \in 1 .. Capacity - Len(q) : q' = q \o [k \in 1 .. n |-> b]
                /\ UNCHANGED reading

(* A read() takes bytes from the front *)
Take == /\ reading
        /\ \E n \in 1 .. Len(q) : q' = SubSeq(q, n + 1, Len(q))
        /\ UNCHANGED reading

(* The last reader is gone, and what was not read with it *)
Close == /\ reading /\ ~ reading'
         /\ q' = <<>>

Next == Open \/ Take \/ Close \/ \E b \in Bytes : AppendAll(b)
Spec == Init /\ [][Next]_vars
=============================================================================
