---------------------------- MODULE AbstractHeap ----------------------------
(***************************************************************************)
(* What object_heap.h promises to the nine kinds of VA objects kept in a   *)
(* heap: a set of live IDs.  Allocation returns an ID nobody else holds,   *)
(* lookup returns an object exactly when its ID is live, iteration returns *)
(* the live objects in increasing order of ID.  Free lists, buckets and    *)
(* expansion are invisible.  ObjectHeap implements this module.            *)
(***************************************************************************)
EXTENDS Integers

CONSTANTS
  Threads,    (* threads that call the driver                              *)
  Ids,        (* IDs the heap may ever hand out                            *)
  Queries,    (* IDs a caller may look up: handed out, stale or foreign    *)
  Null        (* the NULL pointer, and the -1 of a failed allocation       *)

VARIABLES
  live,       (* IDs of the allocated objects                              *)
  call        (* last call and what it returned                            *)

vars == <<live, call>>

Returns(t, op, arg, res) ==
  call' = [by |-> t, op |-> op, arg |-> arg, res |-> res]

Init ==
  /\ live = {}
  /\ call = [by |-> Null, op |-> "none", arg |-> Null, res |-> Null]

Allocate(t) ==
  \/ \E id \in Ids \ live :
       /\ live' = live \cup {id}
       /\ Returns(t, "allocate", Null, id)
  \/ /\ Returns(t, "allocate", Null, Null)
     /\ UNCHANGED live

Lookup(t) ==
  \E id \in Queries :
    /\ Returns(t, "lookup", id, IF id \in live THEN id ELSE Null)
    /\ UNCHANGED live

(***************************************************************************)
(* One step of an iteration that last returned after (or has just begun).  *)
(***************************************************************************)
Iterate(t) ==
  \E after \in Ids \cup {Null} :
    LET rest == {id \in live : after = Null \/ id > after}
    IN  /\ \/ /\ rest = {}
              /\ Returns(t, "next", after, Null)
           \/ \E id \in rest :
                /\ \A other \in rest : id <= other
                /\ Returns(t, "next", after, id)
        /\ UNCHANGED live

Free(t) ==
  \E id \in live :
    /\ live' = live \ {id}
    /\ Returns(t, "free", id, Null)

Next == \E t \in Threads : Allocate(t) \/ Lookup(t) \/ Iterate(t) \/ Free(t)

Spec == Init /\ [][Next]_vars
=============================================================================
