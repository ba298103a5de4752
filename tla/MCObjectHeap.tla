---------------------------- MODULE MCObjectHeap ----------------------------
(***************************************************************************)
(* ObjectHeap with two threads that play the same part, two buckets of two *)
(* slots and a bucket array that grows by one.                             *)
(***************************************************************************)
EXTENDS ObjectHeap, TLC

ThreadSymmetry == Permutations(Threads)

(* VA_INVALID_ID, and the first IDs of the heaps numbered before and after *)
(* this one.                                                               *)
OtherHeapIds == {-1, id_offset - IdSpan, id_offset + IdSpan}
=============================================================================
