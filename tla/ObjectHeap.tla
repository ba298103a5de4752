----------------------------- MODULE ObjectHeap -----------------------------
(***************************************************************************)
(* object_heap.c: the allocator behind every VA object ID.  Objects live   *)
(* in buckets of heap_increment slots that are never given back before     *)
(* object_heap_destroy; free slots form a LIFO list threaded through the   *)
(* next_free field of the objects themselves.  Every operation runs under  *)
(* the heap mutex, so one operation is one step; iterations and the        *)
(* destruction of the heap at vaTerminate take several.                    *)
(***************************************************************************)
EXTENDS Integers, FiniteSets

CONSTANTS
  Threads,        (* threads that call the driver                          *)
  heap_increment, (* slots per bucket (16 in the code)                     *)
  BucketStep,     (* growth of the bucket array (8 in the code)            *)
  MaxObjects,     (* memory bound: the heap never grows beyond it          *)
  id_offset,      (* VDPAU_xxx_ID_OFFSET, the tag of this heap's IDs       *)
  ForeignIds      (* IDs callers pass that this heap never handed out      *)

LAST_FREE == -1
ALLOCATED == -2
Null      == -1   (* NULL pointer, failed allocation, VA_INVALID_ID        *)
DONE      == -2   (* no iteration in progress                              *)

(* OBJECT_HEAP_ID_MASK + 1: the slots an ID can tell apart.                *)
IdSpan == 16777216

ASSUME HeapAssumption ==
  /\ heap_increment \in Nat \ {0}
  /\ BucketStep \in Nat \ {0}
  /\ MaxObjects \in Nat /\ heap_increment <= MaxObjects /\ MaxObjects < IdSpan
  /\ id_offset \in Nat /\ id_offset % IdSpan = 0
  /\ ForeignIds \subseteq Int

VARIABLES
  heap_size,      (* slots in the buckets allocated so far                 *)
  num_buckets,    (* capacity of the bucket array                          *)
  next_free,      (* head of the free list                                 *)
  slots,          (* next_free field of every object                       *)
  iter,           (* object_heap_iterator of each thread                   *)
  phase,          (* run, drain (vaTerminate), gone (destroyed), aborted   *)
  held,           (* history: slots each thread allocated and not freed    *)
  due,            (* history: slots an iteration still has to return       *)
  call            (* history: the last call and its result                 *)

heapVars == <<heap_size, num_buckets, next_free, slots>>
vars == <<heapVars, iter, phase, held, due, call>>

Slots   == 0..(heap_size - 1)
InUse   == {s \in Slots : slots[s] = ALLOCATED}
Unused  == {s \in Slots : slots[s] # ALLOCATED}
Id(s)   == s + id_offset

(***************************************************************************)
(* id & OBJECT_HEAP_ID_MASK, for an ID that passed the range check: its    *)
(* high bits are exactly id_offset.                                        *)
(***************************************************************************)
SlotOf(id) == id - id_offset

NoCall == [by |-> Null, op |-> "none", arg |-> Null, res |-> Null]

Returns(t, op, arg, res) ==
  call' = [by |-> t, op |-> op, arg |-> arg, res |-> res]

-----------------------------------------------------------------------------
(***************************************************************************)
(* object_heap_expand: a new bucket whose slots are chained in increasing  *)
(* order in front of the old list.                                         *)
(***************************************************************************)
GrownSize == heap_size + heap_increment

GrownBucketsLate ==              (* mutant: off by one in the test         *)
  IF GrownSize \div heap_increment - 1 > num_buckets
  THEN num_buckets + BucketStep
  ELSE num_buckets

GrownBuckets ==
  IF GrownSize \div heap_increment - 1 >= num_buckets
  THEN num_buckets + BucketStep
  ELSE num_buckets

GrownSlotsShort ==               (* mutant: the chain ends one slot early  *)
  [s \in 0..(GrownSize - 1) |->
     IF s < heap_size THEN slots[s]
     ELSE IF s + 2 < GrownSize THEN s + 1
     ELSE next_free]

GrownSlots ==
  [s \in 0..(GrownSize - 1) |->
     IF s < heap_size THEN slots[s]
     ELSE IF s + 1 < GrownSize THEN s + 1
     ELSE next_free]

(***************************************************************************)
(* object_heap_init: an empty heap expanded once.                          *)
(***************************************************************************)
FreshSlots ==
  [s \in 0..(heap_increment - 1) |->
     IF s + 1 < heap_increment THEN s + 1 ELSE LAST_FREE]

Init ==
  /\ heap_size = heap_increment
  /\ num_buckets = BucketStep
  /\ next_free = 0
  /\ slots = FreshSlots
  /\ iter = [t \in Threads |-> DONE]
  /\ phase = "run"
  /\ held = [t \in Threads |-> {}]
  /\ due = [t \in Threads |-> {}]
  /\ call = NoCall

-----------------------------------------------------------------------------
(***************************************************************************)
(* The end of object_heap_allocate_unlocked: unlink the head of the list   *)
(* kept in chain.                                                          *)
(***************************************************************************)
TakeHeadTwice(t, head, chain) == (* mutant: the head stays on the list     *)
  /\ next_free' = head
  /\ slots' = [chain EXCEPT ![head] = ALLOCATED]
  /\ held' = [held EXCEPT ![t] = @ \cup {head}]
  /\ Returns(t, "allocate", Null, Id(head))
  /\ UNCHANGED <<iter, phase, due>>

TakeHead(t, head, chain) ==
  /\ next_free' = chain[head]
  /\ slots' = [chain EXCEPT ![head] = ALLOCATED]
  /\ held' = [held EXCEPT ![t] = @ \cup {head}]
  /\ Returns(t, "allocate", Null, Id(head))
  /\ UNCHANGED <<iter, phase, due>>

AllocateFromList(t) ==
  /\ phase = "run"
  /\ next_free # LAST_FREE
  /\ IF next_free >= 0
     THEN TakeHead(t, next_free, slots)
     ELSE /\ phase' = "aborted"    (* ASSERT(heap->next_free >= 0)         *)
          /\ UNCHANGED <<next_free, slots, iter, held, due, call>>
  /\ UNCHANGED <<heap_size, num_buckets>>

AllocateAndExpand(t) ==
  /\ phase = "run"
  /\ next_free = LAST_FREE
  /\ GrownSize <= MaxObjects
  /\ heap_size' = GrownSize
  /\ num_buckets' = GrownBuckets
  /\ TakeHead(t, heap_size, GrownSlots)

(***************************************************************************)
(* malloc or realloc fails.  When only the bucket itself cannot be         *)
(* allocated the array has already grown.                                  *)
(***************************************************************************)
AllocateFails(t) ==
  /\ phase = "run"
  /\ next_free = LAST_FREE
  /\ num_buckets' \in {num_buckets, GrownBuckets}
  /\ Returns(t, "allocate", Null, Null)
  /\ UNCHANGED <<heap_size, next_free, slots, iter, phase, held, due>>

-----------------------------------------------------------------------------
(***************************************************************************)
(* object_heap_lookup.  The range check lets through the ID one past the   *)
(* last slot, whose bucket does not exist: what is read there is           *)
(* arbitrary, so the call returns NULL or a pointer to no object.          *)
(***************************************************************************)
OutOfRange(id) == id < id_offset \/ id > heap_size + id_offset

LookupResultsStale(id) ==        (* mutant: freed objects are found        *)
  IF OutOfRange(id) THEN {Null} ELSE {id}

LookupResults(id) ==
  IF OutOfRange(id) THEN {Null}
  ELSE IF SlotOf(id) \notin Slots THEN {Null, id}
  ELSE IF slots[SlotOf(id)] # ALLOCATED THEN {Null}
  ELSE {id}

Lookup(t) ==
  /\ phase = "run"
  /\ \E id \in {Id(s) : s \in Slots} \cup ForeignIds :
       \E res \in LookupResults(id) : Returns(t, "lookup", id, res)
  /\ UNCHANGED <<heapVars, iter, phase, held, due>>

-----------------------------------------------------------------------------
(***************************************************************************)
(* object_heap_free_unlocked on a slot that passed its ASSERT, and the     *)
(* histories that forget the slot.                                         *)
(***************************************************************************)
Release(t, s) ==
  /\ slots' = [slots EXCEPT ![s] = next_free]
  /\ next_free' = SlotOf(Id(s))
  /\ held' = [u \in Threads |-> held[u] \ {s}]
  /\ due' = [u \in Threads |-> due[u] \ {s}]
  /\ Returns(t, "free", Id(s), Null)

(***************************************************************************)
(* Callers free the objects they allocated.                                *)
(***************************************************************************)
Free(t) ==
  /\ phase = "run"
  /\ \E s \in held[t] :
       IF slots[s] = ALLOCATED
       THEN /\ Release(t, s)
            /\ UNCHANGED phase
       ELSE /\ phase' = "aborted"
            /\ UNCHANGED <<slots, next_free, held, due, call>>
  /\ UNCHANGED <<heap_size, num_buckets, iter>>

-----------------------------------------------------------------------------
(***************************************************************************)
(* object_heap_first and object_heap_next: other threads allocate and free *)
(* between two calls.                                                      *)
(***************************************************************************)
IsAnyInUse(s, i) ==              (* mutant: slots in between are skipped   *)
  /\ s \in Slots
  /\ s > i
  /\ slots[s] = ALLOCATED

IsNextInUse(s, i) ==
  /\ s \in Slots
  /\ s > i
  /\ slots[s] = ALLOCATED
  /\ \A u \in Slots : i < u /\ u < s => slots[u] # ALLOCATED

NoneInUseTwoAfter(i) ==          (* mutant: the next slot is not examined  *)
  \A u \in Slots : u > i + 1 => slots[u] # ALLOCATED

NoneInUseAfter(i) == \A u \in Slots : u > i => slots[u] # ALLOCATED

LastReturned(i) == IF i = -1 THEN Null ELSE Id(i)

StepIterator(t, i, rest) ==
  \/ \E s \in Slots :
       /\ IsNextInUse(s, i)
       /\ iter' = [iter EXCEPT ![t] = s]
       /\ due' = [due EXCEPT ![t] = rest \ {s}]
       /\ Returns(t, "next", LastReturned(i), Id(s))
  \/ /\ NoneInUseAfter(i)
     /\ iter' = [iter EXCEPT ![t] = DONE]
     /\ due' = [due EXCEPT ![t] = rest]
     /\ Returns(t, "next", LastReturned(i), Null)

First(t) ==
  /\ phase = "run"
  /\ iter[t] = DONE
  /\ StepIterator(t, -1, InUse)
  /\ UNCHANGED <<heapVars, phase, held>>

Iterate(t) ==
  /\ phase = "run"
  /\ iter[t] # DONE
  /\ StepIterator(t, iter[t], due[t])
  /\ UNCHANGED <<heapVars, phase, held>>

-----------------------------------------------------------------------------
(***************************************************************************)
(* destroy_heap, called by vaTerminate when no other call is in progress:  *)
(* iterate over the objects, freeing each one, then object_heap_destroy.   *)
(***************************************************************************)
Terminate(t) ==
  /\ phase = "run"
  /\ \A u \in Threads : iter[u] = DONE
  /\ phase' = "drain"
  /\ iter' = [iter EXCEPT ![t] = -1]
  /\ UNCHANGED <<heapVars, held, due, call>>

Drain(t) ==
  /\ phase = "drain"
  /\ iter[t] # DONE
  /\ \E s \in Slots :
       /\ IsNextInUse(s, iter[t])
       /\ iter' = [iter EXCEPT ![t] = s]
       /\ Release(t, s)
  /\ UNCHANGED <<heap_size, num_buckets, phase>>

(***************************************************************************)
(* object_heap_destroy aborts unless the heap is empty.  The capacity of   *)
(* the bucket array is not reset.                                          *)
(***************************************************************************)
Destroy(t) ==
  /\ phase = "drain"
  /\ iter[t] # DONE
  /\ NoneInUseAfter(iter[t])
  /\ iter' = [iter EXCEPT ![t] = DONE]
  /\ IF InUse = {}
     THEN /\ phase' = "gone"
          /\ heap_size' = 0
          /\ next_free' = LAST_FREE
          /\ slots' = [s \in {} |-> LAST_FREE]
     ELSE /\ phase' = "aborted"
          /\ UNCHANGED <<heap_size, next_free, slots>>
  /\ UNCHANGED <<num_buckets, held, due, call>>

(***************************************************************************)
(* vaInitialize after vaTerminate: object_heap_init on new driver data.    *)
(***************************************************************************)
Initialize ==
  /\ phase = "gone"
  /\ heap_size' = heap_increment
  /\ num_buckets' = BucketStep
  /\ next_free' = 0
  /\ slots' = FreshSlots
  /\ phase' = "run"
  /\ UNCHANGED <<iter, held, due, call>>

-----------------------------------------------------------------------------
Next ==
  \/ \E t \in Threads :
       \/ AllocateFromList(t)
       \/ AllocateAndExpand(t)
       \/ AllocateFails(t)
       \/ Lookup(t)
       \/ Free(t)
       \/ First(t)
       \/ Iterate(t)
       \/ Terminate(t)
       \/ Drain(t)
       \/ Destroy(t)
  \/ Initialize

Spec == Init /\ [][Next]_vars

-----------------------------------------------------------------------------
Calls ==
  [by : Threads \cup {Null}, arg : Int, res : Int,
   op : {"none", "allocate", "lookup", "next", "free"}]

(* Types of the fields and of the histories.                               *)
TypeOK ==
  /\ heap_size \in Nat /\ heap_size <= MaxObjects
  /\ num_buckets \in Nat
  /\ next_free \in Slots \cup {LAST_FREE}
  /\ slots \in [Slots -> Slots \cup {LAST_FREE, ALLOCATED}]
  /\ iter \in [Threads -> Slots \cup {-1, DONE}]
  /\ phase \in {"run", "drain", "gone", "aborted"}
  /\ held \in [Threads -> SUBSET Slots]
  /\ due \in [Threads -> SUBSET Slots]
  /\ call \in Calls

(* The free list hangs together: its head and the successor of each of its *)
(* slots are free, no two free slots share a successor, no slot precedes   *)
(* the head.  This is what object_heap_allocate relies on when it trusts   *)
(* next_free, and the part of the inductive invariant about the list.      *)
FreeListInv ==
  /\ next_free \in Unused \cup {LAST_FREE}
  /\ \A s \in Unused : slots[s] \in Unused \cup {LAST_FREE}
  /\ \A s, u \in Unused : slots[s] = slots[u] => s = u
  /\ \A s \in Unused : slots[s] # next_free

(* Following the list from next_free visits every free slot and ends: no   *)
(* sequence of allocations, frees and expansions loses a slot of the heap  *)
(* or closes the list into a cycle.                                        *)
FreeListComplete ==
  LET nth[k \in 0..heap_size] ==
        IF k = 0 THEN next_free
        ELSE IF nth[k - 1] \in Slots THEN slots[nth[k - 1]]
        ELSE LAST_FREE
  IN  {nth[k] : k \in 0..heap_size} = Unused \cup {LAST_FREE}

(* object_heap_allocate never returns an object somebody still holds, and  *)
(* an object in use is held by exactly one caller: two calls with the same *)
(* ID always mean the same object between its creation and destruction.    *)
SoleHolder ==
  /\ \A t \in Threads : held[t] \subseteq InUse
  /\ \A s \in InUse : \E t \in Threads : s \in held[t]
  /\ \A t, u \in Threads : t # u => held[t] \cap held[u] = {}

(* None of the three ASSERTs of object_heap.c fails, whatever is still     *)
(* allocated when vaTerminate empties the heap.                            *)
NeverAborts == phase # "aborted"

(* Every slot of the heap lies in a bucket the array has room for, also    *)
(* after an expansion that failed half way.                                *)
BucketsCoverHeap == heap_size <= num_buckets * heap_increment

(* An object that stays allocated during a whole iteration is returned by  *)
(* it, whatever other threads allocate and free between its steps.         *)
WalkMissesNothing ==
  \A t \in Threads :
    IF iter[t] = DONE
    THEN due[t] = {}
    ELSE \A s \in due[t] : s > iter[t]

(* vaTerminate drains the heap alone: one iteration is in progress, every  *)
(* slot behind it is free, and once it is over the heap is empty.          *)
DrainInv ==
  /\ phase = "drain" =>
       /\ \A t, u \in Threads : iter[t] # DONE /\ iter[u] # DONE => t = u
       /\ \A t \in Threads : iter[t] # DONE =>
            /\ due[t] = {}
            /\ \A s \in Slots : s <= iter[t] => slots[s] # ALLOCATED
  /\ phase = "gone" => heap_size = 0 /\ \A t \in Threads : iter[t] = DONE

(* What an iteration still has to return is allocated.                     *)
DueInv == \A t \in Threads : due[t] \subseteq InUse

(* The inductive invariant: what the theorems of ObjectHeapProofs rest on. *)
HeapInv ==
  /\ TypeOK
  /\ FreeListInv
  /\ SoleHolder
  /\ NeverAborts
  /\ WalkMissesNothing
  /\ DueInv
  /\ DrainInv

(* The heap is whole after every operation, in particular after expansions *)
(* that fail half way: no slot is lost from the free list, which ends, and *)
(* each slot has its bucket, with all that HeapInv says.                   *)
HeapIsWhole == HeapInv /\ FreeListComplete /\ BucketsCoverHeap

(* The heap behaves like a set of live IDs: the refinement of AbstractHeap *)
(* by the IDs of the slots in use.                                         *)
Heap == INSTANCE AbstractHeap WITH
  Ids     <- {s + id_offset : s \in 0..(MaxObjects - 1)},
  Queries <- {s + id_offset : s \in 0..(MaxObjects - 1)} \cup ForeignIds,
  live    <- {Id(s) : s \in InUse}

ImplementsAbstractHeap == Heap!Spec
=============================================================================
