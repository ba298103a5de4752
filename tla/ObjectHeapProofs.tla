-------------------------- MODULE ObjectHeapProofs --------------------------
(***************************************************************************)
(* Theorems about ObjectHeap, for every number of threads, every bucket    *)
(* size and every memory bound, and about the life of the driver that      *)
(* makes the heaps and destroys them (Driver).                             *)
(***************************************************************************)
EXTENDS ObjectHeap, Driver, FiniteSetTheorems, SequenceTheorems, NaturalsInduction,
        WellFoundedInduction, TLAPS

USE HeapAssumption DEF Null, DONE, LAST_FREE, ALLOCATED

(***************************************************************************)
(* The initial heap: one bucket, all its slots chained.                    *)
(***************************************************************************)
LEMMA InitHolds == Init => HeapInv
<1> SUFFICES ASSUME Init PROVE HeapInv
  OBVIOUS
<1> USE DEF Init, Slots, FreshSlots, InUse, Unused
<1>1. TypeOK
  BY DEF TypeOK, Calls, NoCall
<1>2. FreeListInv
  BY DEF FreeListInv
<1>3. SoleHolder
  BY DEF SoleHolder
<1>4. NeverAborts /\ WalkMissesNothing /\ DueInv /\ DrainInv
  BY DEF NeverAborts, WalkMissesNothing, DueInv, DrainInv
<1> QED
  BY <1>1, <1>2, <1>3, <1>4 DEF HeapInv

(***************************************************************************)
(* Taking the head of a well-formed list, as it is or after an expansion.  *)
(***************************************************************************)
LEMMA AllocateFromListStep ==
  ASSUME HeapInv, NEW t \in Threads, AllocateFromList(t)
  PROVE  HeapInv'
<1> USE DEF HeapInv, Slots, InUse, Unused
<1>1. /\ next_free \in Slots
      /\ slots[next_free] # ALLOCATED
      /\ TakeHead(t, next_free, slots)
      /\ UNCHANGED <<heap_size, num_buckets>>
  BY DEF AllocateFromList, TypeOK, FreeListInv
<1> USE <1>1 DEF TakeHead
<1>2. TypeOK'
  BY DEF TypeOK, Calls, Returns, Id
<1>3. FreeListInv'
  BY DEF FreeListInv, TypeOK
<1>4. SoleHolder'
  BY DEF SoleHolder, TypeOK
<1>5. NeverAborts' /\ WalkMissesNothing' /\ DueInv'
  BY DEF NeverAborts, WalkMissesNothing, DueInv, TypeOK
<1>6. DrainInv'
  BY DEF DrainInv, AllocateFromList
<1> QED
  BY <1>2, <1>3, <1>4, <1>5, <1>6

(***************************************************************************)
(* The expanded heap is well formed before its head is taken: the new      *)
(* slots lead, in order, to the old list.                                  *)
(***************************************************************************)
LEMMA AllocateAndExpandStep ==
  ASSUME HeapInv, NEW t \in Threads, AllocateAndExpand(t)
  PROVE  HeapInv'
<1> USE DEF HeapInv, Slots, InUse, Unused
<1>1. /\ next_free = LAST_FREE
      /\ heap_size \in Nat
      /\ heap_size' = heap_size + heap_increment
      /\ heap_size' <= MaxObjects
      /\ num_buckets' \in Nat
      /\ TakeHead(t, heap_size, GrownSlots)
  <2>1. num_buckets' \in Nat
    BY DEF AllocateAndExpand, TypeOK, GrownBuckets
  <2> QED
    BY <2>1 DEF AllocateAndExpand, TypeOK, GrownSize
<1>2. /\ GrownSlots \in [Slots' -> Slots' \cup {LAST_FREE, ALLOCATED}]
      /\ \A s \in Slots : GrownSlots[s] = slots[s]
      /\ \A s \in Slots' \ Slots :
           GrownSlots[s] = IF s + 1 < heap_size' THEN s + 1 ELSE LAST_FREE
  <2>1. GrownSlots = [s \in Slots' |->
                        IF s < heap_size THEN slots[s]
                        ELSE IF s + 1 < heap_size' THEN s + 1 ELSE LAST_FREE]
    BY <1>1 DEF GrownSlots, GrownSize
  <2>2. \A s \in Slots' :
          (IF s < heap_size THEN slots[s]
           ELSE IF s + 1 < heap_size' THEN s + 1 ELSE LAST_FREE)
            \in Slots' \cup {LAST_FREE, ALLOCATED}
    BY <1>1 DEF TypeOK
  <2>3. GrownSlots \in [Slots' -> Slots' \cup {LAST_FREE, ALLOCATED}]
    BY ONLY <2>1, <2>2
  <2>4. \A s \in Slots : s \in Slots' /\ s < heap_size
    BY <1>1
  <2>5. \A s \in Slots' \ Slots : ~(s < heap_size)
    BY <1>1
  <2> QED
    BY ONLY <2>1, <2>3, <2>4, <2>5
<1> HIDE DEF GrownSlots
<1> USE <1>1, <1>2 DEF TakeHead
<1>3. TypeOK'
  BY DEF TypeOK, Calls, Returns, Id
<1>4. FreeListInv'
  (*************************************************************************)
  (* The list was empty, so no old slot leads to LAST_FREE: the new slots  *)
  (* and the old ones share no successor.                                  *)
  (*************************************************************************)
  <2>1. /\ next_free' = GrownSlots[heap_size]
        /\ slots' = [GrownSlots EXCEPT ![heap_size] = ALLOCATED]
        /\ heap_size \in Slots' \ Slots
    BY DEF Slots
  <2>2. next_free' = IF heap_size + 1 < heap_size' THEN heap_size + 1 ELSE LAST_FREE
    BY <2>1
  <2>3. \A s \in Unused : s \in Unused' /\ slots'[s] = slots[s] /\ slots[s] \in Unused
    BY <2>1 DEF FreeListInv, TypeOK
  <2> DEFINE New == (heap_size + 1)..(heap_size' - 1)
  <2>4. \A s \in New :
          /\ s \in Unused'
          /\ slots'[s] = IF s + 1 < heap_size' THEN s + 1 ELSE LAST_FREE
    BY <2>1
  <2>5. \A s \in Unused' : s \in Unused \/ s \in New
    BY <2>1, <2>3, <2>4
  <2>6. /\ heap_size \in Nat /\ heap_size' \in Nat /\ heap_size < heap_size'
        /\ \A s \in Unused : s \in Nat /\ s < heap_size
        /\ \A s \in New : s \in Nat /\ s > heap_size /\ s < heap_size'
        /\ \A s \in New : s + 1 < heap_size' => s + 1 \in New
        /\ heap_size + 1 < heap_size' => heap_size + 1 \in New
    OBVIOUS
  <2> HIDE DEF New, Unused
  <2>7. next_free' \in Unused' \cup {LAST_FREE}
    BY ONLY <2>2, <2>4, <2>6
  <2>8. ASSUME NEW s \in Unused'
        PROVE  slots'[s] \in Unused' \cup {LAST_FREE} /\ slots'[s] # next_free'
    <3>1. CASE s \in Unused
      <4>1. slots'[s] \in Unused' /\ slots'[s] \in Nat /\ slots'[s] < heap_size
        BY ONLY <2>3, <2>6, <3>1
      <4> QED
        BY ONLY <2>2, <2>6, <4>1 DEF LAST_FREE
    <3>2. CASE s \in New
      BY ONLY <2>2, <2>4, <2>6, <3>2 DEF LAST_FREE
    <3> QED
      BY <2>5, <3>1, <3>2
  <2>9. ASSUME NEW s \in Unused', NEW u \in Unused', slots'[s] = slots'[u]
        PROVE  s = u
    <3>1. CASE s \in Unused /\ u \in Unused
      BY <2>3, <2>9, <3>1 DEF FreeListInv
    <3>2. CASE s \in New /\ u \in New
      BY ONLY <2>4, <2>6, <2>9, <3>2 DEF LAST_FREE
    <3>3. ASSUME NEW v \in Unused, NEW w \in New PROVE slots'[v] # slots'[w]
      <4>1. slots'[v] \in Nat /\ slots'[v] < heap_size
        BY ONLY <2>3, <2>6
      <4> QED
        BY ONLY <2>4, <2>6, <4>1 DEF LAST_FREE
    <3> QED
      BY <2>5, <2>9, <3>1, <3>2, <3>3
  <2> QED
    BY <2>7, <2>8, <2>9 DEF FreeListInv
<1>5. SoleHolder'
  BY DEF SoleHolder, TypeOK
<1>6. NeverAborts' /\ WalkMissesNothing' /\ DueInv'
  BY DEF NeverAborts, WalkMissesNothing, DueInv, TypeOK
<1>7. DrainInv'
  BY DEF DrainInv, AllocateAndExpand
<1> QED
  BY <1>3, <1>4, <1>5, <1>6, <1>7

(***************************************************************************)
(* Freeing an object somebody holds pushes its slot on the list.  The two  *)
(* steps that free, Free and Drain, share this lemma.                      *)
(***************************************************************************)
LEMMA ReleaseKeepsList ==
  ASSUME TypeOK, FreeListInv, SoleHolder,
         NEW t \in Threads, NEW s \in InUse, Release(t, s),
         UNCHANGED <<heap_size, num_buckets>>
  PROVE  /\ next_free' \in Slots' \cup {LAST_FREE}
         /\ slots' \in [Slots' -> Slots' \cup {LAST_FREE, ALLOCATED}]
         /\ held' \in [Threads -> SUBSET Slots']
         /\ due' \in [Threads -> SUBSET Slots']
         /\ call' \in Calls
         /\ FreeListInv'
         /\ SoleHolder'
<1> USE DEF Slots, InUse, Unused, TypeOK
<1>1. next_free' = s
  BY DEF Release, SlotOf, Id
<1>2. /\ slots' = [slots EXCEPT ![s] = next_free]
      /\ held' = [u \in Threads |-> held[u] \ {s}]
      /\ due' = [u \in Threads |-> due[u] \ {s}]
  BY DEF Release
<1>3. FreeListInv'
  BY <1>1, <1>2 DEF FreeListInv
<1>4. SoleHolder'
  BY <1>1, <1>2 DEF SoleHolder
<1>5. call' \in Calls
  BY DEF Release, Returns, Id, Calls
<1> QED
  BY <1>1, <1>2, <1>3, <1>4, <1>5

(* object_heap_free keeps the invariant.                                   *)
LEMMA FreeStep ==
  ASSUME HeapInv, NEW t \in Threads, Free(t)
  PROVE  HeapInv'
<1> USE DEF HeapInv
<1>1. PICK s \in held[t] :
        IF slots[s] = ALLOCATED
        THEN Release(t, s) /\ UNCHANGED phase
        ELSE phase' = "aborted" /\ UNCHANGED <<slots, next_free, held, due, call>>
  BY DEF Free
<1>2. s \in InUse
  BY DEF SoleHolder
<1>3. /\ Release(t, s)
      /\ phase = "run"
      /\ UNCHANGED <<heap_size, num_buckets, iter, phase>>
  BY <1>1, <1>2 DEF Free, InUse
<1>4. TypeOK' /\ FreeListInv' /\ SoleHolder'
  BY <1>2, <1>3, ReleaseKeepsList DEF TypeOK, Slots
<1>5. NeverAborts' /\ DrainInv'
  BY <1>3 DEF NeverAborts, DrainInv
<1>6. WalkMissesNothing' /\ DueInv'
  BY <1>3 DEF WalkMissesNothing, DueInv, Release, TypeOK, InUse, Slots
<1> QED
  BY <1>4, <1>5, <1>6

(***************************************************************************)
(* One step of an iteration.                                               *)
(***************************************************************************)
LEMMA IteratorStep ==
  ASSUME HeapInv, NEW t \in Threads, First(t) \/ Iterate(t)
  PROVE  HeapInv'
<1> USE DEF HeapInv, Slots
<1>1. UNCHANGED <<heapVars, phase, held>> /\ phase = "run"
  BY DEF First, Iterate
<1>2. PICK i \in Slots \cup {-1}, rest \in SUBSET Slots :
        /\ StepIterator(t, i, rest)
        /\ rest \subseteq InUse
        /\ \A s \in rest : s > i
  <2>1. CASE First(t)
    BY <2>1 DEF First, InUse
  <2>2. CASE Iterate(t)
    BY <2>2 DEF Iterate, TypeOK, WalkMissesNothing, DueInv
  <2> QED
    BY <2>1, <2>2
<1>3. TypeOK'
  <2>1. iter' \in [Threads -> Slots \cup {-1, DONE}] /\ due' \in [Threads -> SUBSET Slots]
    <3>1. PICK j \in Slots \cup {-1, DONE}, d \in SUBSET Slots :
            iter' = [iter EXCEPT ![t] = j] /\ due' = [due EXCEPT ![t] = d]
      <4>1. CASE \E s \in Slots : /\ iter' = [iter EXCEPT ![t] = s]
                                   /\ due' = [due EXCEPT ![t] = rest \ {s}]
        BY <4>1
      <4>2. CASE /\ iter' = [iter EXCEPT ![t] = DONE]
                 /\ due' = [due EXCEPT ![t] = rest]
        BY <4>2
      <4> QED
        BY <1>2, <4>1, <4>2 DEF StepIterator
    <3> QED
      BY <3>1 DEF TypeOK
  <2>2. PICK r \in Int : Returns(t, "next", LastReturned(i), r)
    <3>1. \A s \in Slots : Id(s) \in Int
      BY DEF TypeOK, Id
    <3> QED
      BY <1>2, <3>1 DEF StepIterator
  <2>3. LastReturned(i) \in Int
    BY <1>2 DEF TypeOK, LastReturned, Id
  <2>4. call' \in Calls
    BY <2>2, <2>3 DEF Returns, Calls
  <2> QED
    BY <1>1, <2>1, <2>4 DEF TypeOK, heapVars
<1>4. FreeListInv' /\ SoleHolder'
  BY <1>1 DEF FreeListInv, SoleHolder, Unused, InUse, heapVars
<1>5. NeverAborts' /\ DrainInv'
  BY <1>1 DEF NeverAborts, DrainInv
<1>6. WalkMissesNothing' /\ DueInv'
  <2>1. due' = [due EXCEPT ![t] = due'[t]] /\ iter' = [iter EXCEPT ![t] = iter'[t]]
    BY <1>2 DEF StepIterator, TypeOK
  <2>2. /\ due'[t] \subseteq InUse
        /\ IF iter'[t] = DONE THEN due'[t] = {} ELSE \A s \in due'[t] : s > iter'[t]
    <3>1. CASE /\ NoneInUseAfter(i)
               /\ iter' = [iter EXCEPT ![t] = DONE]
               /\ due' = [due EXCEPT ![t] = rest]
      BY <1>2, <3>1 DEF NoneInUseAfter, InUse, TypeOK
    <3>2. CASE \E s \in Slots : /\ IsNextInUse(s, i)
                                 /\ iter' = [iter EXCEPT ![t] = s]
                                 /\ due' = [due EXCEPT ![t] = rest \ {s}]
      <4>1. PICK s \in Slots : /\ IsNextInUse(s, i)
                               /\ iter' = [iter EXCEPT ![t] = s]
                               /\ due' = [due EXCEPT ![t] = rest \ {s}]
        BY <3>2
      <4>2. iter'[t] = s /\ due'[t] = rest \ {s}
        BY <4>1 DEF TypeOK
      <4>3. \A u \in rest \ {s} : u > s
        BY <1>2, <4>1 DEF IsNextInUse, InUse, TypeOK
      <4>4. s # DONE
        BY DEF TypeOK
      <4>5. rest \ {s} \subseteq InUse
        BY <1>2
      <4> QED
        BY ONLY <4>2, <4>3, <4>4, <4>5
    <3> QED
      BY <1>2, <3>1, <3>2 DEF StepIterator
  <2> QED
    BY <1>1, <2>1, <2>2 DEF WalkMissesNothing, DueInv, InUse, TypeOK, heapVars
<1> QED
  BY <1>3, <1>4, <1>5, <1>6

(***************************************************************************)
(* vaTerminate: the start of the drain, one object of it, its end.         *)
(***************************************************************************)
LEMMA TerminateStep ==
  ASSUME HeapInv, NEW t \in Threads, Terminate(t)
  PROVE  HeapInv'
<1> USE DEF HeapInv, Terminate, heapVars, Slots
<1>1. TypeOK'
  BY DEF TypeOK
<1>2. FreeListInv' /\ SoleHolder' /\ DueInv'
  BY DEF FreeListInv, SoleHolder, DueInv, Unused, InUse
<1>3. NeverAborts' /\ WalkMissesNothing'
  BY DEF NeverAborts, WalkMissesNothing, TypeOK
<1>4. DrainInv'
  BY DEF DrainInv, WalkMissesNothing, TypeOK
<1> QED
  BY <1>1, <1>2, <1>3, <1>4

(* A round of destroy_heap keeps it.                                       *)
LEMMA DrainStep ==
  ASSUME HeapInv, NEW t \in Threads, Drain(t)
  PROVE  HeapInv'
<1> USE DEF HeapInv
<1>1. PICK s \in Slots :
        /\ IsNextInUse(s, iter[t])
        /\ iter' = [iter EXCEPT ![t] = s]
        /\ Release(t, s)
  BY DEF Drain
<1>2. /\ phase = "drain"
      /\ iter[t] # DONE
      /\ UNCHANGED <<heap_size, num_buckets, phase>>
      /\ s \in InUse
  BY <1>1 DEF Drain, IsNextInUse, InUse
<1>3. TypeOK' /\ FreeListInv' /\ SoleHolder'
  BY <1>1, <1>2, ReleaseKeepsList DEF TypeOK, Slots
<1>4. due' = [u \in Threads |-> due[u] \ {s}]
  BY <1>1 DEF Release
<1>5. NeverAborts' /\ WalkMissesNothing'
  BY <1>1, <1>2, <1>4 DEF NeverAborts, WalkMissesNothing, DrainInv, TypeOK
<1>6. DueInv'
  BY <1>1, <1>2, <1>4 DEF DueInv, Release, InUse, Slots, TypeOK
<1>7. DrainInv'
  <2>1. \A u \in Threads : iter'[u] # DONE => u = t
    BY <1>1, <1>2 DEF DrainInv, TypeOK
  <2>2. \A u \in Slots : u <= s => slots'[u] # ALLOCATED
    <3>1. slots' = [slots EXCEPT ![s] = next_free]
      BY <1>1 DEF Release
    <3>2. \A u \in Slots : u < s => slots[u] # ALLOCATED
      BY <1>1, <1>2 DEF DrainInv, IsNextInUse, TypeOK, Slots
    <3>3. next_free # ALLOCATED
      BY DEF TypeOK, Slots
    <3> QED
      BY <3>1, <3>2, <3>3 DEF TypeOK, Slots
  <2>3. due'[t] = {}
    BY <1>2, <1>4 DEF DrainInv
  <2> QED
    BY <1>1, <1>2, <2>1, <2>2, <2>3 DEF DrainInv, TypeOK, Slots
<1> QED
  BY <1>3, <1>5, <1>6, <1>7

(* object_heap_destroy finds nothing in use.                               *)
LEMMA DestroyStep ==
  ASSUME HeapInv, NEW t \in Threads, Destroy(t)
  PROVE  HeapInv'
<1> USE DEF HeapInv
<1>1. InUse = {}
  BY DEF Destroy, DrainInv, NoneInUseAfter, InUse, Slots, TypeOK
<1>2. /\ phase' = "gone"
      /\ heap_size' = 0
      /\ next_free' = LAST_FREE
      /\ slots' = [s \in {} |-> LAST_FREE]
      /\ iter' = [iter EXCEPT ![t] = DONE]
      /\ UNCHANGED <<num_buckets, held, due, call>>
  BY <1>1 DEF Destroy
<1>3. Slots' = {} /\ Unused' = {} /\ InUse' = {}
  BY <1>2 DEF Slots, Unused, InUse
<1>4. \A u \in Threads : held[u] = {} /\ due[u] = {} /\ iter'[u] = DONE
  BY <1>1, <1>2 DEF SoleHolder, DueInv, DrainInv, Destroy, TypeOK
<1>5. TypeOK'
  BY <1>2, <1>3, <1>4 DEF TypeOK
<1>6. FreeListInv' /\ SoleHolder'
  BY <1>2, <1>3, <1>4 DEF FreeListInv, SoleHolder
<1>7. NeverAborts' /\ WalkMissesNothing' /\ DueInv' /\ DrainInv'
  BY <1>2, <1>4 DEF NeverAborts, WalkMissesNothing, DueInv, DrainInv
<1> QED
  BY <1>5, <1>6, <1>7

(* A heap that is initialized again is as good as new.                     *)
LEMMA InitializeStep ==
  ASSUME HeapInv, Initialize
  PROVE  HeapInv'
<1> USE DEF HeapInv, Initialize, FreshSlots
<1>1. heap_size = 0 /\ Slots = {} /\ InUse = {}
  BY DEF DrainInv, Slots, InUse
<1>2. \A u \in Threads : held[u] = {} /\ due[u] = {} /\ iter[u] = DONE
  BY <1>1 DEF SoleHolder, DueInv, DrainInv
<1> USE DEF Slots, InUse, Unused
<1>3. TypeOK'
  BY <1>1, <1>2 DEF TypeOK
<1>4. FreeListInv'
  BY DEF FreeListInv
<1>5. SoleHolder'
  BY <1>2 DEF SoleHolder
<1>6. NeverAborts' /\ WalkMissesNothing' /\ DueInv' /\ DrainInv'
  BY <1>2 DEF NeverAborts, WalkMissesNothing, DueInv, DrainInv
<1> QED
  BY <1>3, <1>4, <1>5, <1>6

(***************************************************************************)
(* A failed allocation, a lookup and a stuttering step leave the list, the *)
(* histories and the iterators alone.                                      *)
(***************************************************************************)
LEMMA QuietStep ==
  ASSUME HeapInv,
         UNCHANGED <<heap_size, next_free, slots, iter, phase, held, due>>,
         num_buckets' \in Nat, call' \in Calls
  PROVE  HeapInv'
BY DEF HeapInv, TypeOK, FreeListInv, SoleHolder, NeverAborts,
       WalkMissesNothing, DueInv, DrainInv, Slots, InUse, Unused

(***************************************************************************)
(* HeapInv holds throughout: every operation of object_heap.c, in any      *)
(* order and by any number of threads, leaves the free list well formed.   *)
(***************************************************************************)
THEOREM HeapInvariant == Spec => []HeapInv
<1>1. HeapInv /\ [Next]_vars => HeapInv'
  <2> SUFFICES ASSUME HeapInv, [Next]_vars
               PROVE  HeapInv'
    OBVIOUS
  <2>1. ASSUME NEW t \in Threads, AllocateFails(t) PROVE HeapInv'
    <3>1. num_buckets' \in Nat
      BY <2>1 DEF AllocateFails, GrownBuckets, HeapInv, TypeOK
    <3>2. call' \in Calls
      BY <2>1 DEF AllocateFails, Returns, Calls
    <3> QED
      BY <2>1, <3>1, <3>2, QuietStep DEF AllocateFails
  <2>2. ASSUME NEW t \in Threads, Lookup(t) PROVE HeapInv'
    <3>1. PICK id \in {Id(s) : s \in Slots} \cup ForeignIds :
            \E res \in LookupResults(id) : Returns(t, "lookup", id, res)
      BY <2>2 DEF Lookup
    <3>2. id \in Int
      <4>1. \A s \in Slots : Id(s) \in Int
        BY DEF Id, Slots, HeapInv, TypeOK
      <4>2. ForeignIds \subseteq Int
        OBVIOUS
      <4> QED
        BY ONLY <4>1, <4>2, id \in {Id(s) : s \in Slots} \cup ForeignIds
    <3>3. LookupResults(id) \subseteq Int
      BY <3>2 DEF LookupResults
    <3>4. call' \in Calls
      BY <3>1, <3>2, <3>3 DEF Returns, Calls
    <3> QED
      BY <2>2, <3>4, QuietStep DEF Lookup, heapVars, HeapInv, TypeOK
  <2>3. CASE UNCHANGED vars
    BY <2>3, QuietStep DEF vars, heapVars, HeapInv, TypeOK
  <2> QED
    BY <2>1, <2>2, <2>3, AllocateFromListStep, AllocateAndExpandStep, FreeStep,
       IteratorStep, TerminateStep, DrainStep, DestroyStep, InitializeStep
    DEF Next
<1> QED
  BY InitHolds, <1>1, PTL DEF Spec

(***************************************************************************)
(* The parts of HeapInv that users of the heap rely on.                    *)
(***************************************************************************)

(* Every field of the heap keeps its type.                                 *)
THEOREM TypeCorrect == Spec => []TypeOK
BY HeapInvariant, PTL DEF HeapInv

(* next_free always heads a list of distinct free slots                    *)
(* (object_heap_allocate, object_heap_free, object_heap_expand).           *)
THEOREM FreeListSafe == Spec => []FreeListInv
BY HeapInvariant, PTL DEF HeapInv

(* No two callers ever hold the same object, for any number of threads     *)
(* and any interleaving of object_heap_allocate and object_heap_free.      *)
THEOREM AllocationExclusive == Spec => []SoleHolder
BY HeapInvariant, PTL DEF HeapInv

(* No ASSERT of object_heap.c fails while callers free what they hold, and *)
(* destroy_heap leaves nothing for object_heap_destroy to trip over.       *)
THEOREM NoAssertionFails == Spec => []NeverAborts
BY HeapInvariant, PTL DEF HeapInv

(* An iteration returns every object allocated during all of it.           *)
THEOREM IterationComplete == Spec => []WalkMissesNothing
BY HeapInvariant, PTL DEF HeapInv

-----------------------------------------------------------------------------
(***************************************************************************)
(* The free list as a whole: p visits, from the head and along the links,  *)
(* each free slot once in n steps, and ends.                               *)
(***************************************************************************)
Chain(n, p, head, links, free) ==
  /\ p[0] = head /\ p[n] = LAST_FREE
  /\ \A k \in 0..(n - 1) : p[k] \in free /\ p[k + 1] = links[p[k]]
  /\ \A j, k \in 0..(n - 1) : p[j] = p[k] => j = k
  /\ \A s \in free : \E k \in 0..(n - 1) : p[k] = s

Chained(head, links, free) ==
  \E n \in Nat : \E p \in [0..n -> Int] : Chain(n, p, head, links, free)
ChainInv == Chained(next_free, slots, Unused)

(* Slots that are chained in increasing order.                             *)
LEMMA ChainOfBucket ==
  ASSUME NEW a \in Nat, NEW b \in Nat, a < b, NEW links,
         \A s \in a..(b - 1) : links[s] = IF s + 1 < b THEN s + 1 ELSE LAST_FREE
  PROVE  Chained(a, links, a..(b - 1))
<1> DEFINE n == b - a
           p == [k \in 0..n |-> IF k < n THEN a + k ELSE LAST_FREE]
<1>1. n \in Nat /\ p \in [0..n -> Int] /\ p[0] = a /\ p[n] = LAST_FREE
  OBVIOUS
<1>2. \A k \in 0..(n - 1) : p[k] = a + k /\ a + k \in a..(b - 1)
  OBVIOUS
<1>3. ASSUME NEW k \in 0..(n - 1) PROVE p[k + 1] = links[p[k]]
  <2>1. p[k] = a + k /\ a + k \in a..(b - 1)
    BY <1>2
  <2>2. p[k + 1] = IF k + 1 < n THEN a + (k + 1) ELSE LAST_FREE
    OBVIOUS
  <2>3. links[a + k] = IF a + k + 1 < b THEN a + k + 1 ELSE LAST_FREE
    BY <2>1
  <2> QED
    BY <2>1, <2>2, <2>3
<1>4. \A s \in a..(b - 1) : s - a \in 0..(n - 1) /\ p[s - a] = s
  OBVIOUS
<1>5. \A j, k \in 0..(n - 1) : p[j] = p[k] => j = k
  BY <1>2
<1> HIDE DEF n, p
<1>6. \A k \in 0..(n - 1) : p[k] \in a..(b - 1) /\ p[k + 1] = links[p[k]]
  BY <1>2, <1>3
<1>7. \A s \in a..(b - 1) : \E k \in 0..(n - 1) : p[k] = s
  BY <1>4
<1>8. Chain(n, p, a, links, a..(b - 1))
  BY <1>1, <1>5, <1>6, <1>7 DEF Chain
<1> QED
  BY <1>1, <1>8 DEF Chained

(* The head is taken off.                                                  *)
LEMMA ChainWithoutHead ==
  ASSUME NEW D, NEW links \in [D -> Int], NEW free \in SUBSET D,
         NEW head \in free, head # LAST_FREE, Chained(head, links, free)
  PROVE  Chained(links[head], [links EXCEPT ![head] = ALLOCATED], free \ {head})
<1> PICK n \in Nat : \E p \in [0..n -> Int] : Chain(n, p, head, links, free)
  BY DEF Chained
<1> PICK p \in [0..n -> Int] : Chain(n, p, head, links, free)
  OBVIOUS
<1> DEFINE m == n - 1
           q == [k \in 0..m |-> p[k + 1]]
           rest == [links EXCEPT ![head] = ALLOCATED]
<1>1. n # 0
  BY DEF Chain
<1>2. m \in Nat /\ q \in [0..m -> Int] /\ \A k \in 0..m : q[k] = p[k + 1]
  BY <1>1
<1>3. 0 \in 0..(n - 1) /\ \A k \in 0..(m - 1) : k + 1 \in 0..(n - 1) /\ k + 1 # 0
  BY <1>1
<1>4. q[0] = links[head] /\ q[m] = LAST_FREE
  BY <1>1, <1>2, <1>3 DEF Chain
<1>5. \A k \in 0..(m - 1) : q[k] = p[k + 1] /\ p[k + 1] \in free /\ p[k + 1] # head
  <2> SUFFICES ASSUME NEW k \in 0..(m - 1)
               PROVE  q[k] = p[k + 1] /\ p[k + 1] \in free /\ p[k + 1] # head
    OBVIOUS
  <2> PICK j \in 0..(n - 1) : j = k + 1 /\ j # 0
    BY <1>3
  <2>1. q[k] = p[k + 1]
    BY <1>2
  <2> HIDE DEF m, q
  <2>2. p[j] \in free /\ (p[j] = p[0] => j = 0) /\ p[0] = head
    BY <1>3 DEF Chain
  <2> QED
    BY <2>1, <2>2
<1>6. \A s \in free \ {head} : rest[s] = links[s]
  OBVIOUS
<1>7. \A k \in 0..(m - 1) : q[k + 1] = rest[q[k]]
  <2> SUFFICES ASSUME NEW k \in 0..(m - 1) PROVE q[k + 1] = rest[q[k]]
    OBVIOUS
  <2>1. q[k + 1] = p[(k + 1) + 1]
    BY <1>2
  <2>2. p[(k + 1) + 1] = links[p[k + 1]]
    BY <1>3 DEF Chain
  <2> QED
    BY <1>5, <1>6, <2>1, <2>2
<1>8. \A j, k \in 0..(m - 1) : q[j] = q[k] => j = k
  <2> SUFFICES ASSUME NEW j \in 0..(m - 1), NEW k \in 0..(m - 1), q[j] = q[k] PROVE j = k
    OBVIOUS
  <2>1. p[j + 1] = p[k + 1] /\ j + 1 \in 0..(n - 1) /\ k + 1 \in 0..(n - 1)
    BY <1>3, <1>5
  <2> HIDE DEF m, q
  <2>2. j + 1 = k + 1
    BY <2>1 DEF Chain
  <2> QED
    BY <2>2
<1>9. ASSUME NEW s \in free \ {head} PROVE \E k \in 0..(m - 1) : q[k] = s
  <2> PICK k \in 0..(n - 1) : p[k] = s
    BY DEF Chain
  <2>1. k # 0
    BY DEF Chain
  <2>2. k - 1 \in 0..(m - 1) /\ (k - 1) + 1 = k
    BY <2>1
  <2> QED
    BY <1>5, <2>2
<1> HIDE DEF m, q, rest
<1>10. \A k \in 0..(m - 1) : q[k] \in free \ {head}
  BY <1>5
<1>11. Chain(m, q, links[head], rest, free \ {head})
  BY <1>4, <1>7, <1>8, <1>9, <1>10 DEF Chain
<1> QED
  BY <1>2, <1>11 DEF rest, Chained

(* Of a new bucket the first slot is taken.                                *)
LEMMA ChainOfRest ==
  ASSUME NEW a \in Nat, NEW b \in Nat, a < b, NEW links \in [0..(b - 1) -> Int],
         \A s \in a..(b - 1) : links[s] = IF s + 1 < b THEN s + 1 ELSE LAST_FREE
  PROVE  Chained(links[a], [links EXCEPT ![a] = ALLOCATED], (a..(b - 1)) \ {a})
<1> DEFINE new == a..(b - 1)
           D == 0..(b - 1)
<1>1. new \in SUBSET D /\ a \in new /\ a # LAST_FREE
  OBVIOUS
<1>2. Chained(a, links, new)
  BY ChainOfBucket
<1>3. links \in [D -> Int]
  OBVIOUS
<1> HIDE DEF new, D
<1>4. Chained(links[a], [links EXCEPT ![a] = ALLOCATED], new \ {a})
  BY <1>1, <1>2, <1>3, ChainWithoutHead
<1> QED
  BY <1>4 DEF new

(* A slot is put in front.                                                 *)
LEMMA ChainWithHead ==
  ASSUME NEW D \in SUBSET Int, NEW links \in [D -> Int], NEW free \in SUBSET D,
         NEW head, NEW s \in D \ free, Chained(head, links, free)
  PROVE  Chained(s, [links EXCEPT ![s] = head], free \cup {s})
<1> PICK n \in Nat : \E p \in [0..n -> Int] : Chain(n, p, head, links, free)
  BY DEF Chained
<1> PICK p \in [0..n -> Int] : Chain(n, p, head, links, free)
  OBVIOUS
<1> DEFINE m == n + 1
           q == [k \in 0..m |-> IF k = 0 THEN s ELSE p[k - 1]]
           more == [links EXCEPT ![s] = head]
<1>1. m \in Nat /\ q \in [0..m -> Int] /\ q[0] = s /\ \A k \in 1..m : q[k] = p[k - 1]
  OBVIOUS
<1>2. more[s] = head /\ \A u \in free : more[u] = links[u] /\ u # s
  OBVIOUS
<1>3. \A k \in 1..(m - 1) : k - 1 \in 0..(n - 1) /\ q[k] = p[k - 1] /\ q[k] \in free
  <2>1. \A k \in 1..(m - 1) : k - 1 \in 0..(n - 1) /\ k \in 1..m
    OBVIOUS
  <2>2. \A k \in 0..(n - 1) : p[k] \in free
    BY DEF Chain
  <2> HIDE DEF m, q, more
  <2> QED
    BY <1>1, <2>1, <2>2
<1>4. q[m] = LAST_FREE
  BY <1>1 DEF Chain
<1>5. \A k \in 0..(m - 1) : k = 0 \/ k \in 1..(m - 1)
  OBVIOUS
<1>6. \A k \in 0..(m - 1) : q[k] \in free \cup {s} /\ q[k + 1] = more[q[k]]
  <2> SUFFICES ASSUME NEW k \in 0..(m - 1)
               PROVE  q[k] \in free \cup {s} /\ q[k + 1] = more[q[k]]
    OBVIOUS
  <2>1. q[k + 1] = p[k]
    BY <1>1
  <2>2. CASE k = 0
    BY <1>1, <1>2, <2>1, <2>2 DEF Chain
  <2>3. CASE k \in 1..(m - 1)
    <3>1. p[(k - 1) + 1] = links[p[k - 1]] /\ p[k - 1] \in free /\ q[k] = p[k - 1]
      BY <1>3, <2>3 DEF Chain
    <3>2. (k - 1) + 1 = k
      BY <2>3
    <3> HIDE DEF m, q, more
    <3> QED
      BY <1>2, <2>1, <3>1, <3>2
  <2> QED
    BY <1>5, <2>2, <2>3
<1>7. \A j, k \in 0..(m - 1) : q[j] = q[k] => j = k
  <2> SUFFICES ASSUME NEW j \in 0..(m - 1), NEW k \in 0..(m - 1), q[j] = q[k] PROVE j = k
    OBVIOUS
  <2>1. CASE j \in 1..(m - 1) /\ k \in 1..(m - 1)
    <3>1. p[j - 1] = p[k - 1] /\ j - 1 \in 0..(n - 1) /\ k - 1 \in 0..(n - 1)
      BY <1>3, <2>1
    <3> HIDE DEF m, q, more
    <3>2. j - 1 = k - 1
      BY <3>1 DEF Chain
    <3> QED
      BY <2>1, <3>2
  <2>2. \A i \in 1..(m - 1) : q[i] # s
    BY <1>2, <1>3
  <2> HIDE DEF m, q, more
  <2> QED
    BY <1>1, <1>5, <2>1, <2>2
<1>8. \A u \in free \cup {s} : \E k \in 0..(m - 1) : q[k] = u
  <2>1. ASSUME NEW u \in free PROVE \E k \in 0..(m - 1) : q[k] = u
    <3> PICK k \in 0..(n - 1) : p[k] = u
      BY DEF Chain
    <3>1. k + 1 \in 0..(m - 1) /\ k + 1 \in 1..m /\ (k + 1) - 1 = k
      OBVIOUS
    <3>2. q[k + 1] = u
      BY <1>1, <3>1
    <3> QED
      BY <3>1, <3>2
  <2>2. 0 \in 0..(m - 1)
    OBVIOUS
  <2> HIDE DEF m, q
  <2> QED
    BY <1>1, <2>1, <2>2
<1> HIDE DEF m, q, more
<1>9. Chain(m, q, s, more, free \cup {s})
  BY <1>1, <1>4, <1>6, <1>7, <1>8 DEF Chain
<1> QED
  BY <1>1, <1>9 DEF more, Chained

(* The empty list.                                                         *)
LEMMA NoChain ==
  ASSUME NEW links
  PROVE  Chained(LAST_FREE, links, {})
<1> DEFINE p == [k \in 0..0 |-> LAST_FREE]
<1>1. p \in [0..0 -> Int] /\ p[0] = LAST_FREE /\ 0..(0 - 1) = {}
  OBVIOUS
<1> HIDE DEF p
<1>2. Chain(0, p, LAST_FREE, links, {})
  BY <1>1 DEF Chain
<1>3. \E q \in [0..0 -> Int] : Chain(0, q, LAST_FREE, links, {})
  BY <1>1, <1>2
<1> QED
  BY <1>3, 0 \in Nat DEF Chained

(* A heap of one bucket.                                                   *)
LEMMA FreshChain ==
  ASSUME TypeOK', heap_size' = heap_increment, next_free' = 0, slots' = FreshSlots
  PROVE  ChainInv'
<1>1. \A s \in 0..(heap_increment - 1) :
        slots'[s] = IF s + 1 < heap_increment THEN s + 1 ELSE LAST_FREE
  BY DEF FreshSlots
<1>2. Unused' = 0..(heap_increment - 1)
  BY <1>1 DEF Unused, Slots
<1> PICK links : links = slots'
  OBVIOUS
<1>3. Chained(0, links, 0..(heap_increment - 1))
  BY <1>1, ChainOfBucket
<1> QED
  BY <1>2, <1>3 DEF ChainInv

(* object_heap_allocate takes the head.                                    *)
LEMMA AllocateKeepsChain ==
  ASSUME HeapInv, ChainInv, NEW t \in Threads, AllocateFromList(t)
  PROVE  ChainInv'
<1>1. TypeOK /\ FreeListInv
  BY DEF HeapInv
<1>2. /\ next_free \in Unused /\ next_free # LAST_FREE
      /\ heap_size' = heap_size /\ next_free' = slots[next_free]
      /\ slots' = [slots EXCEPT ![next_free] = ALLOCATED]
  BY <1>1 DEF AllocateFromList, TakeHead, TypeOK, FreeListInv, Slots
<1>3. Unused' = Unused \ {next_free}
  BY <1>1, <1>2 DEF Unused, Slots, TypeOK, FreeListInv
<1>4. slots \in [Slots -> Int] /\ Unused \in SUBSET Slots
  BY <1>1 DEF TypeOK, Slots, Unused
<1>5. Chained(slots[next_free], [slots EXCEPT ![next_free] = ALLOCATED], Unused \ {next_free})
  BY <1>2, <1>4, ChainWithoutHead DEF ChainInv
<1> QED
  BY <1>2, <1>3, <1>5 DEF ChainInv

(* object_heap_expand chains a bucket when no slot is left.                *)
LEMMA ExpandKeepsChain ==
  ASSUME HeapInv, ChainInv, NEW t \in Threads, AllocateAndExpand(t)
  PROVE  ChainInv'
<1>1. TypeOK /\ next_free = LAST_FREE
  BY DEF HeapInv, AllocateAndExpand
<1>2. Unused = {}
  <2> PICK n \in Nat : \E p \in [0..n -> Int] : Chain(n, p, next_free, slots, Unused)
    BY DEF ChainInv, Chained
  <2> PICK p \in [0..n -> Int] : Chain(n, p, next_free, slots, Unused)
    OBVIOUS
  <2>1. n = 0
    <3>1. LAST_FREE \notin Unused
      BY DEF Unused, Slots
    <3> QED
      BY <1>1, <3>1 DEF Chain
  <2>2. 0..(n - 1) = {}
    BY <2>1
  <2> QED
    BY <2>2 DEF Chain
<1> PICK a \in Nat : a = heap_size
  BY <1>1 DEF TypeOK
<1> PICK b \in Nat : b = GrownSize
  BY <1>1 DEF TypeOK, GrownSize
<1> PICK links : links = GrownSlots
  OBVIOUS
<1>3. /\ a < b /\ heap_size' = b /\ next_free' = links[a]
      /\ slots' = [links EXCEPT ![a] = ALLOCATED]
  BY DEF AllocateAndExpand, TakeHead, GrownSize
<1>4. /\ links = [s \in 0..(b - 1) |-> IF s < a THEN slots[s]
                                         ELSE IF s + 1 < b THEN s + 1 ELSE next_free]
  BY DEF GrownSlots
<1>5. \A s \in a..(b - 1) : links[s] = IF s + 1 < b THEN s + 1 ELSE LAST_FREE
  BY <1>1, <1>4
<1>6. links \in [0..(b - 1) -> Int]
  <2>1. \A s \in 0..(b - 1) : s < a => slots[s] \in Int
    BY <1>1 DEF TypeOK, Slots
  <2>2. \A s \in 0..(b - 1) : (IF s < a THEN slots[s]
                                 ELSE IF s + 1 < b THEN s + 1 ELSE next_free) \in Int
    BY <1>1, <2>1
  <2> QED
    BY <1>4, <2>2
<1>7. Unused' = (a..(b - 1)) \ {a}
  <2>1. \A s \in 0..(a - 1) : slots[s] = ALLOCATED
    BY <1>2 DEF Unused, Slots
  <2>2. \A s \in 0..(b - 1) : slots'[s] = IF s = a THEN ALLOCATED ELSE links[s]
    BY <1>3, <1>6
  <2>3. \A s \in 0..(a - 1) : s \in 0..(b - 1) /\ s # a /\ links[s] = ALLOCATED
    BY <1>3, <1>4, <2>1
  <2>4. \A s \in a..(b - 1) : s \in 0..(b - 1) /\ links[s] # ALLOCATED
    BY <1>5
  <2>5. \A s \in 0..(b - 1) : s \in 0..(a - 1) \/ s \in a..(b - 1)
    OBVIOUS
  <2>6. Unused' = {s \in 0..(b - 1) : slots'[s] # ALLOCATED}
    BY <1>3 DEF Unused, Slots
  <2> QED
    BY <2>2, <2>3, <2>4, <2>5, <2>6
<1>8. Chained(links[a], [links EXCEPT ![a] = ALLOCATED], (a..(b - 1)) \ {a})
  BY <1>3, <1>5, <1>6, ChainOfRest
<1> QED
  BY <1>3, <1>7, <1>8 DEF ChainInv

(* object_heap_free puts a slot in front.                                  *)
LEMMA ReleaseKeepsChain ==
  ASSUME TypeOK, ChainInv, NEW t \in Threads, NEW s \in Slots, slots[s] = ALLOCATED,
         Release(t, s), heap_size' = heap_size
  PROVE  ChainInv'
<1>1. /\ slots' = [slots EXCEPT ![s] = next_free] /\ next_free' = s
      /\ s \notin Unused /\ next_free # ALLOCATED
  BY DEF Release, SlotOf, Id, TypeOK, Slots, Unused
<1>2. Unused' = Unused \cup {s}
  BY <1>1 DEF Unused, Slots, TypeOK
<1>3. Slots \in SUBSET Int /\ slots \in [Slots -> Int] /\ Unused \in SUBSET Slots
  BY DEF TypeOK, Slots, Unused
<1>4. Chained(s, [slots EXCEPT ![s] = next_free], Unused \cup {s})
  BY <1>1, <1>3, ChainWithHead DEF ChainInv
<1> QED
  BY <1>1, <1>2, <1>4 DEF ChainInv

(* Every step keeps the list whole.                                        *)
LEMMA ChainHolds == HeapInv /\ HeapInv' /\ ChainInv /\ [Next]_vars => ChainInv'
<1> SUFFICES ASSUME HeapInv, HeapInv', ChainInv, [Next]_vars PROVE ChainInv'
  OBVIOUS
<1>1. TypeOK /\ TypeOK'
  BY DEF HeapInv
<1>2. ASSUME UNCHANGED <<heap_size, next_free, slots>> PROVE ChainInv'
  BY <1>2 DEF ChainInv, Unused, Slots
<1>3. ASSUME NEW t \in Threads, AllocateFromList(t) \/ AllocateAndExpand(t) PROVE ChainInv'
  BY <1>3, AllocateKeepsChain, ExpandKeepsChain
<1>4. ASSUME NEW t \in Threads, Free(t) PROVE ChainInv'
  <2> PICK s \in held[t] :
        IF slots[s] = ALLOCATED THEN Release(t, s) /\ UNCHANGED phase
        ELSE phase' = "aborted" /\ UNCHANGED <<slots, next_free, held, due, call>>
    BY <1>4 DEF Free
  <2>1. heap_size' = heap_size /\ s \in InUse
    BY <1>4 DEF Free, HeapInv, SoleHolder
  <2>2. s \in Slots /\ slots[s] = ALLOCATED /\ Release(t, s)
    BY <2>1 DEF InUse
  <2> QED
    BY <1>1, <2>1, <2>2, ReleaseKeepsChain
<1>5. ASSUME NEW t \in Threads, Drain(t) PROVE ChainInv'
  <2> PICK s \in Slots : IsNextInUse(s, iter[t]) /\ Release(t, s)
    BY <1>5 DEF Drain
  <2>1. slots[s] = ALLOCATED /\ heap_size' = heap_size
    BY <1>5 DEF Drain, IsNextInUse
  <2> QED
    BY <1>1, <2>1, ReleaseKeepsChain
<1>6. ASSUME NEW t \in Threads, Destroy(t) PROVE ChainInv'
  <2>1. CASE UNCHANGED <<heap_size, next_free, slots>>
    BY <1>2, <2>1
  <2>2. CASE heap_size' = 0 /\ next_free' = LAST_FREE
    <3>1. Unused' = {}
      BY <2>2 DEF Unused, Slots
    <3> PICK links : links = slots'
      OBVIOUS
    <3>2. Chained(LAST_FREE, links, {})
      BY NoChain
    <3> QED
      BY <2>2, <3>1, <3>2 DEF ChainInv
  <2> QED
    BY <1>6, <2>1, <2>2 DEF Destroy
<1>7. ASSUME Initialize PROVE ChainInv'
  BY <1>1, <1>7, FreshChain DEF Initialize
<1>8. ASSUME NEW t \in Threads,
             AllocateFails(t) \/ Lookup(t) \/ First(t) \/ Iterate(t) \/ Terminate(t)
      PROVE  ChainInv'
  BY <1>2, <1>8 DEF AllocateFails, Lookup, First, Iterate, Terminate, heapVars
<1> QED
  BY <1>2, <1>3, <1>4, <1>5, <1>6, <1>7, <1>8 DEF Next, vars, heapVars

(* What holds first and after each further step holds after all of them.   *)
LEMMA AllSteps ==
  ASSUME NEW n \in Nat, NEW S, 0 \in S, \A k \in 1..n : k - 1 \in S => k \in S
  PROVE  0..n \subseteq S
<1> DEFINE T == (0..n) \ S
           R == OpToRel(<, Nat)
<1> SUFFICES ASSUME T # {} PROVE FALSE
  OBVIOUS
<1>0. T \subseteq Nat
  OBVIOUS
<1>1. IsWellFoundedOn(R, Nat)
  BY NatLessThanWellFounded
<1>2. \A x, y \in Nat : x < y => <<x, y>> \in R
  BY DEF OpToRel
<1> HIDE DEF R
<1> PICK k \in T : \A j \in T : ~ (<<j, k>> \in R)
  <2> HIDE DEF T
  <2> QED
    BY <1>0, <1>1, WFMin
<1>3. \A j \in T : ~(j < k)
  BY <1>0, <1>2
<1>4. k \in 1..n /\ k - 1 \in 0..n /\ k - 1 < k
  OBVIOUS
<1>5. k - 1 \in S
  BY <1>3, <1>4
<1> QED
  BY <1>4, <1>5

(* A list that visits each free slot once is no longer than the heap, so   *)
(* following it for as many steps as the heap has slots visits them all.   *)
LEMMA ChainCompletes == TypeOK /\ ChainInv => FreeListComplete
<1> SUFFICES ASSUME TypeOK, ChainInv PROVE FreeListComplete
  OBVIOUS
<1> DEFINE N == 0..heap_size
           nth[k \in N] ==
             IF k = 0 THEN next_free
             ELSE IF nth[k - 1] \in Slots THEN slots[nth[k - 1]] ELSE LAST_FREE
<1> PICK n \in Nat : \E p \in [0..n -> Int] : Chain(n, p, next_free, slots, Unused)
  BY DEF ChainInv, Chained
<1> PICK p \in [0..n -> Int] : Chain(n, p, next_free, slots, Unused)
  OBVIOUS
<1>1. n <= heap_size
  <2> DEFINE q == [k \in 0..(n - 1) |-> p[k]]
  <2>1. q \in Injection(0..(n - 1), Slots)
    <3>1. \A k \in 0..(n - 1) : p[k] \in Slots
      BY DEF Chain, Unused
    <3>2. \A j, k \in 0..(n - 1) : p[j] = p[k] => j = k
      BY DEF Chain
    <3>3. q \in [0..(n - 1) -> Slots] /\ DOMAIN q = 0..(n - 1)
      BY <3>1
    <3> QED
      BY <3>2, <3>3 DEF Injection, IsInjective
  <2>2. IsFiniteSet(Slots) /\ Cardinality(Slots) = heap_size
    BY FS_Interval DEF Slots, TypeOK
  <2>3. Cardinality(0..(n - 1)) = n
    BY FS_Interval
  <2> HIDE DEF q
  <2> QED
    BY <2>1, <2>2, <2>3, FS_Injection
<1> DEFINE w == [k \in N |-> IF k <= n THEN p[k] ELSE LAST_FREE]
           Step(g) == [k \in N |-> IF k = 0 THEN next_free
                                   ELSE IF g[k - 1] \in Slots THEN slots[g[k - 1]] ELSE LAST_FREE]
<1>2. LAST_FREE \notin Slots /\ heap_size \in Nat /\ Unused \subseteq Slots
  BY DEF Slots, TypeOK, Unused
<1>3. w = Step(w)
  <2> SUFFICES ASSUME NEW k \in N PROVE w[k] = Step(w)[k]
    OBVIOUS
  <2>1. CASE k = 0
    BY <2>1 DEF Chain
  <2>2. CASE k \in 1..n
    <3>1. k - 1 \in N /\ k - 1 <= n /\ k - 1 \in 0..(n - 1) /\ (k - 1) + 1 = k
      BY <1>1, <1>2, <2>2
    <3>2. p[k - 1] \in Unused /\ p[(k - 1) + 1] = slots[p[k - 1]]
      BY <3>1 DEF Chain
    <3>3. w[k - 1] = p[k - 1] /\ w[k] = p[k]
      BY <2>2, <3>1
    <3>4. k # 0 /\ p[k - 1] \in Slots /\ p[k] = slots[p[k - 1]]
      BY <1>2, <2>2, <3>1, <3>2
    <3> QED
      BY <3>3, <3>4
  <2>3. CASE k > n
    <3>1. k - 1 \in N /\ k # 0 /\ (k - 1 = n \/ k - 1 > n)
      BY <1>2, <2>3
    <3>2. p[n] = LAST_FREE
      BY DEF Chain
    <3>3. w[k - 1] = (IF k - 1 <= n THEN p[k - 1] ELSE LAST_FREE)
      BY <3>1
    <3>4. w[k - 1] = LAST_FREE
      <4>1. CASE k - 1 = n
        BY <3>2, <3>3, <4>1
      <4>2. CASE k - 1 > n
        BY <1>2, <3>1, <3>3, <4>2
      <4> QED
        BY <3>1, <4>1, <4>2
    <3>5. w[k] = LAST_FREE
      BY <1>2, <2>3
    <3> QED
      BY <1>2, <3>1, <3>4, <3>5
  <2> QED
    BY <1>2, <2>1, <2>2, <2>3
<1>4. nth = Step(nth)
  <2>1. nth = CHOOSE g : g = Step(g)
    OBVIOUS
  <2> HIDE DEF nth, w, Step
  <2> QED
    BY <1>3, <2>1
<1>5. \A k \in N : nth[k] = w[k]
  <2> DEFINE S == {k \in N : nth[k] = w[k]}
  <2> HIDE DEF nth, w
  <2>1. \A k \in N : nth[k] = Step(nth)[k] /\ w[k] = Step(w)[k]
    BY <1>3, <1>4
  <2>2. 0 \in S
    BY <1>2, <2>1
  <2>3. ASSUME NEW k \in 1..heap_size, k - 1 \in S PROVE k \in S
    <3>1. k \in N /\ k # 0 /\ nth[k - 1] = w[k - 1]
      BY <2>3, <1>2
    <3>2. nth[k] = (IF nth[k - 1] \in Slots THEN slots[nth[k - 1]] ELSE LAST_FREE)
      BY <2>1, <3>1
    <3>3. w[k] = (IF w[k - 1] \in Slots THEN slots[w[k - 1]] ELSE LAST_FREE)
      BY <2>1, <3>1
    <3> QED
      BY <3>1, <3>2, <3>3
  <2> HIDE DEF S
  <2>4. 0..heap_size \subseteq S
    BY <1>2, <2>2, <2>3, AllSteps
  <2> QED
    BY <2>4 DEF S
<1>6. {w[k] : k \in N} = Unused \cup {LAST_FREE}
  <2>1. \A k \in N : w[k] \in Unused \cup {LAST_FREE}
    <3> SUFFICES ASSUME NEW k \in N PROVE w[k] \in Unused \cup {LAST_FREE}
      OBVIOUS
    <3>1. k \in 0..(n - 1) \/ k = n \/ k > n
      BY <1>2
    <3> QED
      BY <3>1 DEF Chain
  <2>2. ASSUME NEW s \in Unused PROVE \E k \in N : w[k] = s
    <3> PICK k \in 0..(n - 1) : p[k] = s
      BY DEF Chain
    <3>1. k \in N /\ w[k] = s
      BY <1>1, <1>2
    <3> HIDE DEF w
    <3> QED
      BY <3>1
  <2>3. n \in N /\ w[n] = LAST_FREE
    BY <1>1, <1>2 DEF Chain
  <2> HIDE DEF w, N
  <2> QED
    BY <2>1, <2>2, <2>3
<1>7. {nth[k] : k \in N} = Unused \cup {LAST_FREE}
  <2> HIDE DEF nth, w
  <2> QED
    BY <1>5, <1>6
<1> QED
  BY <1>7 DEF FreeListComplete

(* Following next_free visits every free slot and ends: no sequence of     *)
(* allocations, frees and expansions loses a slot of the heap or closes    *)
(* the list into a cycle, however large the heap is.                       *)
THEOREM FreeListWhole == Spec => []FreeListComplete
<1>1. Init => ChainInv
  <2> SUFFICES ASSUME Init PROVE ChainInv
    OBVIOUS
  <2>1. \A s \in 0..(heap_increment - 1) :
          slots[s] = IF s + 1 < heap_increment THEN s + 1 ELSE LAST_FREE
    BY DEF Init, FreshSlots
  <2>2. Unused = 0..(heap_increment - 1) /\ next_free = 0
    BY <2>1 DEF Init, Unused, Slots
  <2>3. Chained(0, slots, 0..(heap_increment - 1))
    BY <2>1, ChainOfBucket
  <2> QED
    BY <2>2, <2>3 DEF ChainInv
<1>2. HeapInv => TypeOK
  BY DEF HeapInv
<1> QED
  BY <1>1, <1>2, ChainHolds, ChainCompletes, HeapInvariant, PTL DEF Spec

-----------------------------------------------------------------------------
(***************************************************************************)
(* The array of buckets.  That it covers the heap is not inductive: the    *)
(* test of object_heap_expand rounds, and is right because the heap always *)
(* consists of whole buckets.                                              *)
(***************************************************************************)
WholeBuckets ==
  \E k \in Nat : heap_size = k * heap_increment /\ k <= num_buckets

(* Whole buckets are counted exactly.                                      *)
LEMMA CountedExactly ==
  ASSUME NEW k \in Nat
  PROVE  (k * heap_increment) \div heap_increment = k
<1> DEFINE n == k * heap_increment
           q == n \div heap_increment
<1>1. n \in Nat /\ q \in Int /\ q * heap_increment <= n /\ n < (q + 1) * heap_increment
  OBVIOUS
<1>2. heap_increment \in Nat \ {0}
  OBVIOUS
<1> HIDE DEF q
<1>3. q * heap_increment <= k * heap_increment /\ k * heap_increment < (q + 1) * heap_increment
  BY <1>1
<1>4. q <= k
  BY <1>1, <1>2, <1>3
<1>5. k < q + 1
  BY <1>1, <1>2, <1>3
<1> QED
  BY <1>1, <1>4, <1>5 DEF q

(* A heap that grows by a bucket finds room for it in the array.           *)
LEMMA GrowthCovered ==
  ASSUME TypeOK, WholeBuckets
  PROVE  /\ GrownBuckets \in Nat /\ GrownBuckets >= num_buckets
         /\ \E k \in Nat : GrownSize = k * heap_increment /\ k <= GrownBuckets
<1> PICK k \in Nat : heap_size = k * heap_increment /\ k <= num_buckets
  BY DEF WholeBuckets
<1>1. num_buckets \in Nat /\ BucketStep \in Nat \ {0} /\ heap_increment \in Nat \ {0}
  BY DEF TypeOK
<1>2. GrownSize = (k + 1) * heap_increment
  BY <1>1 DEF GrownSize
<1>3. GrownSize \div heap_increment = k + 1
  BY <1>2, CountedExactly
<1>4. GrownBuckets = IF k >= num_buckets THEN num_buckets + BucketStep ELSE num_buckets
  BY <1>1, <1>3 DEF GrownBuckets
<1>5. k + 1 \in Nat /\ k + 1 <= GrownBuckets
  BY <1>1, <1>4
<1> QED
  BY <1>1, <1>2, <1>4, <1>5

(* The array of buckets has an entry for each bucket of the heap, also     *)
(* after an expansion that failed half way (object_heap_expand).           *)
THEOREM BucketsSuffice == Spec => []BucketsCoverHeap
<1>1. Init => WholeBuckets
  <2> SUFFICES ASSUME Init PROVE WholeBuckets
    OBVIOUS
  <2>1. heap_size = 1 * heap_increment /\ 1 <= num_buckets
    BY DEF Init
  <2> QED
    BY <2>1 DEF WholeBuckets
<1>2. HeapInv /\ WholeBuckets /\ [Next]_vars => WholeBuckets'
  <2> SUFFICES ASSUME HeapInv, WholeBuckets, [Next]_vars PROVE WholeBuckets'
    OBVIOUS
  <2>1. TypeOK
    BY DEF HeapInv
  <2> PICK k \in Nat : heap_size = k * heap_increment /\ k <= num_buckets
    BY DEF WholeBuckets
  <2>2. ASSUME UNCHANGED <<heap_size, num_buckets>> PROVE WholeBuckets'
    BY <2>2 DEF WholeBuckets
  <2>3. ASSUME NEW t \in Threads, AllocateAndExpand(t) PROVE WholeBuckets'
    BY <2>1, <2>3, GrowthCovered DEF AllocateAndExpand, WholeBuckets
  <2>4. ASSUME NEW t \in Threads, AllocateFails(t) PROVE WholeBuckets'
    <3>1. heap_size' = heap_size /\ num_buckets' \in Nat /\ num_buckets' >= num_buckets
      BY <2>1, <2>4, GrowthCovered DEF AllocateFails, TypeOK
    <3>2. k <= num_buckets'
      BY <2>1, <3>1 DEF TypeOK
    <3> QED
      BY <3>1, <3>2 DEF WholeBuckets
  <2>5. ASSUME NEW t \in Threads, Destroy(t) PROVE WholeBuckets'
    <3>1. num_buckets' = num_buckets /\ (heap_size' = 0 \/ heap_size' = heap_size)
      BY <2>5 DEF Destroy
    <3>2. CASE heap_size' = 0
      <4>1. heap_size' = 0 * heap_increment /\ 0 <= num_buckets'
        BY <2>1, <3>1, <3>2 DEF TypeOK
      <4> QED
        BY <4>1 DEF WholeBuckets
    <3> QED
      BY <2>2, <3>1, <3>2
  <2>6. ASSUME Initialize PROVE WholeBuckets'
    <3>1. heap_size' = 1 * heap_increment /\ 1 <= num_buckets'
      BY <2>6 DEF Initialize
    <3> QED
      BY <3>1 DEF WholeBuckets
  <2>7. ASSUME NEW t \in Threads,
               \/ AllocateFromList(t) \/ Lookup(t) \/ Free(t) \/ First(t) \/ Iterate(t)
               \/ Terminate(t) \/ Drain(t)
        PROVE  WholeBuckets'
    BY <2>2, <2>7 DEF AllocateFromList, Lookup, Free, First, Iterate, Terminate, Drain, heapVars
  <2> QED
    BY <2>2, <2>3, <2>4, <2>5, <2>6, <2>7 DEF Next, vars, heapVars
<1>3. TypeOK /\ WholeBuckets => BucketsCoverHeap
  <2> SUFFICES ASSUME TypeOK, NEW k \in Nat, heap_size = k * heap_increment, k <= num_buckets
               PROVE  heap_size <= num_buckets * heap_increment
    BY DEF WholeBuckets, BucketsCoverHeap
  <2>1. num_buckets \in Nat /\ heap_increment \in Nat
    BY DEF TypeOK
  <2> QED
    BY <2>1
<1>4. HeapInv => TypeOK
  BY DEF HeapInv
<1> QED
  BY <1>1, <1>2, <1>3, <1>4, HeapInvariant, PTL DEF Spec

(* The free list, the buckets and the ownership of a heap of any size are  *)
(* whole after any interleaving of its operations.                         *)
THEOREM HeapStaysWhole == Spec => []HeapIsWhole
BY HeapInvariant, FreeListWhole, BucketsSuffice, PTL DEF HeapIsWhole

-----------------------------------------------------------------------------
(***************************************************************************)
(* The IDs of the slots in use, the state of AbstractHeap.                 *)
(***************************************************************************)
LiveIds == {Id(s) : s \in InUse}
AllIds == {s + id_offset : s \in 0..(MaxObjects - 1)}

(* IDs name slots one to one.                                              *)
LEMMA LiveIdsFacts ==
  ASSUME HeapInv
  PROVE  /\ InUse \subseteq Slots
         /\ Slots \subseteq 0..(MaxObjects - 1)
         /\ \A s \in Slots : Id(s) \in AllIds /\ Id(s) # Null
         /\ \A s \in Slots : Id(s) \in LiveIds <=> s \in InUse
         /\ LiveIds \subseteq AllIds
<1>1. InUse \subseteq Slots /\ Slots \subseteq 0..(MaxObjects - 1)
  BY DEF HeapInv, TypeOK, InUse, Slots
<1>2. \A s \in Slots : Id(s) \in AllIds /\ Id(s) # Null
  BY <1>1 DEF Id, AllIds, Slots
<1>3. \A s, u \in Slots : Id(s) = Id(u) => s = u
  BY <1>1 DEF Id, Slots
<1>4. \A s \in Slots : Id(s) \in LiveIds <=> s \in InUse
  BY <1>1, <1>3 DEF LiveIds
<1> QED
  BY <1>1, <1>2, <1>4 DEF LiveIds

(***************************************************************************)
(* Lookups of IDs of this heap and of the other heaps are those of the     *)
(* abstract heap, as long as nobody asks for the ID right after the last   *)
(* slot of a heap, which object_heap_lookup lets through.                  *)
(***************************************************************************)
NeverPastTheEnd ==
  \A id \in ForeignIds : id < id_offset \/ id > id_offset + MaxObjects

(* Lookups answer as the abstract heap does.                               *)
LEMMA LookupRefines ==
  ASSUME HeapInv, NeverPastTheEnd, NEW t \in Threads, Lookup(t)
  PROVE  /\ \E id \in AllIds \cup ForeignIds :
              Returns(t, "lookup", id, IF id \in LiveIds THEN id ELSE Null)
         /\ LiveIds' = LiveIds
<1>1. LiveIds' = LiveIds
  BY DEF Lookup, heapVars, LiveIds, InUse, Slots
<1>2. PICK id \in {Id(s) : s \in Slots} \cup ForeignIds :
        \E res \in LookupResults(id) : Returns(t, "lookup", id, res)
  BY DEF Lookup
<1>3. CASE \E s \in Slots : id = Id(s)
  <2>1. PICK s \in Slots : id = Id(s)
    BY <1>3
  <2>2. SlotOf(id) = s /\ ~OutOfRange(id)
    BY <2>1 DEF SlotOf, Id, OutOfRange, Slots, HeapInv, TypeOK
  <2>3. LookupResults(id) = {IF id \in LiveIds THEN id ELSE Null}
    BY <2>1, <2>2, LiveIdsFacts DEF LookupResults, InUse
  <2> QED
    BY <1>1, <1>2, <2>1, <2>3, LiveIdsFacts
<1>4. CASE id \in ForeignIds
  <2>1. OutOfRange(id)
    BY <1>4 DEF NeverPastTheEnd, OutOfRange, HeapInv, TypeOK
  <2>2. id \notin LiveIds
    BY <1>4 DEF NeverPastTheEnd, LiveIds, InUse, Slots, Id, HeapInv, TypeOK
  <2> QED
    BY <1>1, <1>2, <1>4, <2>1, <2>2 DEF LookupResults
<1> QED
  BY <1>2, <1>3, <1>4

(***************************************************************************)
(* An iteration returns the least live ID beyond the last one.             *)
(***************************************************************************)
LEMMA IterateRefines ==
  ASSUME HeapInv, NEW t \in Threads, First(t) \/ Iterate(t)
  PROVE  Heap!Iterate(t)
<1>1. UNCHANGED heapVars
  BY DEF First, Iterate
<1>2. PICK i \in Slots \cup {-1}, rest \in SUBSET Slots : StepIterator(t, i, rest)
  <2>1. InUse \in SUBSET Slots /\ due[t] \in SUBSET Slots
    BY DEF HeapInv, TypeOK, InUse
  <2>2. iter[t] # DONE => iter[t] \in Slots \cup {-1}
    BY DEF HeapInv, TypeOK
  <2> QED
    BY <2>1, <2>2 DEF First, Iterate
<1>3. LiveIds' = LiveIds
  BY <1>1 DEF heapVars, LiveIds, InUse, Slots
<1> DEFINE after == LastReturned(i)
           beyond == {id \in LiveIds : after = Null \/ id > after}
<1>4. after \in AllIds \cup {Null}
  BY LiveIdsFacts DEF LastReturned
<1>5. \A s \in InUse : Id(s) \in beyond <=> s > i
  <2>1. i = -1 => after = Null
    BY DEF LastReturned
  <2>2. i # -1 => after = Id(i) /\ after # Null /\ i \in Slots
    BY LiveIdsFacts DEF LastReturned
  <2>3. \A s, u \in Slots : Id(s) > Id(u) <=> s > u
    BY LiveIdsFacts DEF Id
  <2>4. \A s \in Slots : s > -1
    BY LiveIdsFacts
  <2> QED
    BY <2>1, <2>2, <2>3, <2>4, LiveIdsFacts
<1>6. \A id \in beyond : \E s \in InUse : id = Id(s)
  BY DEF LiveIds
<1>7. CASE NoneInUseAfter(i) /\ Returns(t, "next", LastReturned(i), Null)
  <2>1. beyond = {}
    BY <1>5, <1>6, <1>7, LiveIdsFacts DEF NoneInUseAfter, InUse
  <2> QED
    BY <1>3, <1>4, <1>7, <2>1 DEF Heap!Iterate, Heap!Returns, Returns, LiveIds, AllIds
<1>8. CASE \E s \in Slots : IsNextInUse(s, i) /\ Returns(t, "next", LastReturned(i), Id(s))
  <2>1. PICK s \in Slots : IsNextInUse(s, i) /\ Returns(t, "next", LastReturned(i), Id(s))
    BY <1>8
  <2>2. s \in InUse /\ Id(s) \in beyond
    BY <1>5, <2>1 DEF IsNextInUse, InUse
  <2>3. \A u \in InUse : u > i => s <= u
    BY <2>1, LiveIdsFacts DEF IsNextInUse, InUse
  <2>4. \A u \in InUse : u > i => Id(s) <= Id(u)
    BY <2>3, LiveIdsFacts DEF Id
  <2>5. \A other \in beyond : Id(s) <= other
    BY <1>5, <1>6, <2>4
  <2>6. Returns(t, "next", after, Id(s))
    BY <2>1
  <2> HIDE DEF after
  <2> QED
    BY <1>3, <1>4, <2>2, <2>5, <2>6 DEF Heap!Iterate, Heap!Returns, Returns, LiveIds, AllIds
<1> QED
  BY <1>2, <1>7, <1>8 DEF StepIterator

(***************************************************************************)
(* Allocation adds an ID that was not live; release removes one.           *)
(***************************************************************************)
LEMMA AllocateRefines ==
  ASSUME HeapInv, HeapInv', NEW t \in Threads,
         AllocateFromList(t) \/ AllocateAndExpand(t)
  PROVE  Heap!Allocate(t)
<1>1. PICK head \in Slots' :
        /\ head \notin InUse
        /\ InUse' = InUse \cup {head}
        /\ Returns(t, "allocate", Null, Id(head))
  <2>1. CASE AllocateFromList(t)
    <3>1. /\ next_free \in Unused
          /\ TakeHead(t, next_free, slots)
          /\ UNCHANGED heap_size
      BY <2>1 DEF AllocateFromList, HeapInv, TypeOK, FreeListInv, Slots
    <3> QED
      BY <3>1 DEF TakeHead, InUse, Unused, Slots, HeapInv, TypeOK
  <2>2. CASE AllocateAndExpand(t)
    <3>1. /\ heap_size' = heap_size + heap_increment
          /\ heap_size \in Nat
          /\ slots' = [GrownSlots EXCEPT ![heap_size] = ALLOCATED]
          /\ Returns(t, "allocate", Null, Id(heap_size))
          /\ next_free = LAST_FREE
      BY <2>2 DEF AllocateAndExpand, TakeHead, GrownSize, HeapInv, TypeOK
    <3>2. heap_size \in Slots' /\ heap_size \notin InUse /\ Slots \subseteq Slots'
      BY <3>1 DEF Slots, InUse
    <3>3. \A s \in Slots' : slots'[s] = IF s = heap_size THEN ALLOCATED
                                        ELSE IF s \in Slots THEN slots[s]
                                        ELSE IF s + 1 < heap_size' THEN s + 1
                                        ELSE LAST_FREE
      BY <3>1, <3>2 DEF GrownSlots, GrownSize, Slots
    <3>4. InUse' = InUse \cup {heap_size}
      BY <3>1, <3>2, <3>3 DEF InUse, Slots
    <3> QED
      BY <3>1, <3>2, <3>4
  <2> QED
    BY <2>1, <2>2
<1>2. Id(head) \in AllIds
  BY <1>1 DEF HeapInv, TypeOK, Slots, Id, AllIds
<1>3. Id(head) \notin LiveIds
  BY <1>1 DEF HeapInv, TypeOK, Slots, Id, LiveIds, InUse
<1>4. LiveIds' = LiveIds \cup {Id(head)}
  BY <1>1 DEF LiveIds
<1> QED
  BY <1>1, <1>2, <1>3, <1>4 DEF Heap!Allocate, Heap!Returns, Returns, LiveIds, AllIds

(* Freeing takes one ID out of the live ones.                              *)
LEMMA ReleaseRefines ==
  ASSUME HeapInv, NEW t \in Threads, NEW s \in InUse, Release(t, s), UNCHANGED heap_size
  PROVE  Heap!Free(t)
<1>1. InUse' = InUse \ {s}
  <2>1. slots' = [slots EXCEPT ![s] = next_free] /\ next_free # ALLOCATED
    BY DEF Release, HeapInv, TypeOK, Slots
  <2> QED
    BY <2>1 DEF InUse, Slots, HeapInv, TypeOK
<1>2. \A u \in InUse : Id(u) = Id(s) => u = s
  BY LiveIdsFacts DEF Id
<1>3. Id(s) \in LiveIds /\ LiveIds' = LiveIds \ {Id(s)}
  BY <1>1, <1>2 DEF LiveIds
<1> QED
  BY <1>3 DEF Heap!Free, Heap!Returns, Returns, Release, LiveIds

(***************************************************************************)
(* The heap implements the set of live IDs: for callers that never ask for *)
(* the ID one past the end, free list, buckets and expansion do not show.  *)
(***************************************************************************)
THEOREM Refinement ==
  ASSUME NeverPastTheEnd
  PROVE  Spec => ImplementsAbstractHeap
<1>1. Init => Heap!Init
  <2> SUFFICES ASSUME Init PROVE Heap!Init
    OBVIOUS
  <2>1. InUse = {}
    BY DEF Init, InUse, Slots, FreshSlots
  <2> QED
    BY <2>1 DEF Init, NoCall, Heap!Init
<1>2. HeapInv /\ HeapInv' /\ [Next]_vars => [Heap!Next]_Heap!vars
  <2> SUFFICES ASSUME HeapInv, HeapInv', [Next]_vars
               PROVE  [Heap!Next]_Heap!vars
    OBVIOUS
  <2>1. ASSUME NEW t \in Threads, AllocateFromList(t) \/ AllocateAndExpand(t)
        PROVE  Heap!Next
    BY <2>1, AllocateRefines DEF Heap!Next
  <2>2. ASSUME NEW t \in Threads, AllocateFails(t) PROVE Heap!Next
    BY <2>2 DEF AllocateFails, Heap!Next, Heap!Allocate, Heap!Returns, Returns, InUse, Slots
  <2>3. ASSUME NEW t \in Threads, Lookup(t) PROVE Heap!Next
    <3>1. Heap!Lookup(t)
      BY <2>3, LookupRefines DEF Heap!Lookup, Heap!Returns, Returns, LiveIds, AllIds
    <3> QED
      BY <3>1 DEF Heap!Next
  <2>4. ASSUME NEW t \in Threads, Free(t) PROVE Heap!Next
    <3>1. PICK s \in held[t] : slots[s] = ALLOCATED => Release(t, s)
      BY <2>4 DEF Free
    <3>2. s \in InUse /\ Release(t, s) /\ UNCHANGED heap_size
      BY <2>4, <3>1 DEF Free, HeapInv, SoleHolder, InUse
    <3> QED
      BY <3>2, ReleaseRefines DEF Heap!Next
  <2>5. ASSUME NEW t \in Threads, First(t) \/ Iterate(t) PROVE Heap!Next
    BY <2>5, IterateRefines DEF Heap!Next
  <2>6. ASSUME NEW t \in Threads, Terminate(t) PROVE UNCHANGED Heap!vars
    BY <2>6 DEF Terminate, heapVars, Heap!vars, InUse, Slots
  <2>7. ASSUME NEW t \in Threads, Drain(t) PROVE Heap!Next
    <3>1. PICK s \in InUse : Release(t, s) /\ UNCHANGED heap_size
      BY <2>7 DEF Drain, IsNextInUse, InUse
    <3> QED
      BY <3>1, ReleaseRefines DEF Heap!Next
  <2>8. ASSUME NEW t \in Threads, Destroy(t) PROVE UNCHANGED Heap!vars
    <3>1. InUse = {} /\ UNCHANGED call
      BY <2>8 DEF Destroy, HeapInv, DrainInv, NoneInUseAfter, InUse, Slots, TypeOK
    <3>2. InUse' = {}
      BY <2>8, <3>1 DEF Destroy, InUse, Slots
    <3> QED
      BY <3>1, <3>2 DEF Heap!vars
  <2>9. CASE Initialize
    <3>1. InUse = {} /\ InUse' = {} /\ UNCHANGED call
      BY <2>9 DEF Initialize, HeapInv, DrainInv, InUse, Slots, FreshSlots
    <3> QED
      BY <3>1 DEF Heap!vars
  <2>10. CASE UNCHANGED vars
    BY <2>10 DEF vars, heapVars, Heap!vars, InUse, Slots
  <2> QED
    BY <2>1, <2>2, <2>3, <2>4, <2>5, <2>6, <2>7, <2>8, <2>9, <2>10 DEF Next
<1> QED
  BY <1>1, <1>2, HeapInvariant, PTL DEF Spec, ImplementsAbstractHeap, Heap!Spec

-----------------------------------------------------------------------------
(***************************************************************************)
(* The life of one driver instance (Driver), which owns nine such heaps:   *)
(* for any table of functions, any of them failing, any number of objects  *)
(* and configs and any limit on their attributes.                          *)
(***************************************************************************)
HIDE HeapAssumption DEF Null, DONE, LAST_FREE, ALLOCATED

(* The nine heaps are created in one order and destroyed in another one.   *)
LEMMA HeapNames ==
  /\ Heaps = {"config", "context", "surface", "buffer", "output", "image",
              "subpicture", "mixer", "glx_surface"}
  /\ Len(Created) = 9 /\ DOMAIN Created = 1..9
  /\ Len(Destroyed) = 9 /\ DOMAIN Destroyed = 1..9
  /\ \A i \in 1..9 : Created[i] \in Heaps /\ Destroyed[i] \in Heaps
  /\ \A h \in Heaps : \E i \in 1..9 : Created[i] = h
  /\ \A h \in Heaps : \E i \in 1..9 : Destroyed[i] = h
<1>1. /\ Len(Created) = 9 /\ DOMAIN Created = 1..9
      /\ Len(Destroyed) = 9 /\ DOMAIN Destroyed = 1..9
  BY DEF Created, Destroyed
<1>2. /\ Created[1] = "config" /\ Created[2] = "context"
      /\ Created[3] = "surface" /\ Created[4] = "buffer"
      /\ Created[5] = "output" /\ Created[6] = "image"
      /\ Created[7] = "subpicture" /\ Created[8] = "mixer"
      /\ Created[9] = "glx_surface"
  BY DEF Created
<1>3. /\ Destroyed[1] = "buffer" /\ Destroyed[2] = "image"
      /\ Destroyed[3] = "subpicture" /\ Destroyed[4] = "output"
      /\ Destroyed[5] = "surface" /\ Destroyed[6] = "context"
      /\ Destroyed[7] = "config" /\ Destroyed[8] = "mixer"
      /\ Destroyed[9] = "glx_surface"
  BY DEF Destroyed
<1>4. \A i \in 1..9 : \/ i = 1 \/ i = 2 \/ i = 3 \/ i = 4 \/ i = 5
                      \/ i = 6 \/ i = 7 \/ i = 8 \/ i = 9
  OBVIOUS
<1>5. Heaps = {Created[i] : i \in 1..9}
  BY <1>1 DEF Heaps, Range
<1>6. Heaps = {"config", "context", "surface", "buffer", "output", "image",
               "subpicture", "mixer", "glx_surface"}
  BY ONLY <1>2, <1>4, <1>5
<1>7. \A i \in 1..9 : Created[i] \in Heaps /\ Destroyed[i] \in Heaps
  BY ONLY <1>2, <1>3, <1>4, <1>6
<1>8. \A h \in Heaps : \E i \in 1..9 : Created[i] = h
  BY ONLY <1>5
<1>9. \A h \in Heaps : \E i \in 1..9 : Destroyed[i] = h
  BY ONLY <1>3, <1>6
<1> QED
  BY <1>1, <1>6, <1>7, <1>8, <1>9

(***************************************************************************)
(* The loop of vdpau_CreateConfig.                                         *)
(***************************************************************************)
(* The list of a config after k attributes, none of which came without     *)
(* room: the default, then those that had room.                            *)
Room(k) == IF k < VDPAU_MAX_CONFIG_ATTRIBUTES THEN k ELSE VDPAU_MAX_CONFIG_ATTRIBUTES - 1

Kept(list, k) == [i \in 1..(Room(k) + 1) |-> IF i = 1 THEN Default ELSE list[i - 1]]

(* A function on 1..n is a sequence of length n.                           *)
LEMMA ListOf ==
  ASSUME NEW S, NEW n \in Nat, NEW q \in [1..n -> S]
  PROVE  q \in Seq(S) /\ Len(q) = n
  OBVIOUS

(* One turn of the loop: the next attribute is kept while there is room.   *)
LEMMA TurnKeeps ==
  ASSUME VDPAU_MAX_CONFIG_ATTRIBUTES \in Nat \ {0}, NEW S, Default \in S,
         NEW list \in Seq(S), NEW k \in 1..Len(list)
  PROVE  Updated(Kept(list, k - 1), list[k]) = Kept(list, k)
<1> DEFINE q == Kept(list, k - 1)
           r == Kept(list, k)
<1>1. /\ k - 1 \in Nat /\ k \in Nat /\ Room(k - 1) \in Nat /\ Room(k) \in Nat
      /\ Room(k - 1) <= k - 1 /\ Room(k) <= k
      /\ Room(k - 1) + 1 < VDPAU_MAX_CONFIG_ATTRIBUTES => Room(k - 1) = k - 1 /\ Room(k) = k
      /\ ~(Room(k - 1) + 1 < VDPAU_MAX_CONFIG_ATTRIBUTES) => Room(k - 1) = Room(k)
  BY DEF Room
<1> HIDE DEF Room
<1>2. \A i \in 1..Len(list) : list[i] \in S
  OBVIOUS
<1>3. q \in [1..(Room(k - 1) + 1) -> S] /\ r \in [1..(Room(k) + 1) -> S]
  BY <1>1, <1>2 DEF Kept
<1> HIDE DEF q, r
<1>4. /\ q \in Seq(S) /\ Len(q) = Room(k - 1) + 1
      /\ r \in Seq(S) /\ Len(r) = Room(k) + 1
  <2> DEFINE m == Room(k - 1) + 1
             n == Room(k) + 1
  <2>1. m \in Nat /\ n \in Nat /\ q \in [1..m -> S] /\ r \in [1..n -> S]
    BY <1>1, <1>3
  <2> HIDE DEF m, n
  <2>2. q \in Seq(S) /\ Len(q) = m
    BY ONLY <2>1, ListOf
  <2>3. r \in Seq(S) /\ Len(r) = n
    BY ONLY <2>1, ListOf
  <2> QED
    BY <2>2, <2>3 DEF m, n
<1>5. CASE Room(k - 1) + 1 < VDPAU_MAX_CONFIG_ATTRIBUTES
  <2> DEFINE a == Append(q, list[k])
  <2>1. list[k] \in S
    BY <1>2
  <2>2. /\ a \in Seq(S) /\ Len(a) = Len(q) + 1
        /\ \A i \in 1..Len(q) : a[i] = q[i]
        /\ a[Len(q) + 1] = list[k]
    BY <1>4, <2>1
  <2> HIDE DEF a
  <2>3. Len(q) = k /\ Len(r) = k + 1
    BY <1>1, <1>4, <1>5
  <2>4. \A i \in 1..k : q[i] = r[i]
    BY <1>1, <1>5 DEF q, r, Kept
  <2>5. r[k + 1] = list[k]
    BY <1>1, <1>5 DEF r, Kept
  <2>6. \A i \in 1..(k + 1) : a[i] = r[i]
    BY <1>1, <2>2, <2>3, <2>4, <2>5
  <2>7. a = r
    BY <1>1, <1>4, <2>2, <2>3, <2>6, SeqEqual
  <2>8. Updated(q, list[k]) = a
    BY <1>4, <1>5 DEF Updated, HasRoom, a
  <2> QED
    BY <2>7, <2>8 DEF q, r
<1>6. CASE ~(Room(k - 1) + 1 < VDPAU_MAX_CONFIG_ATTRIBUTES)
  <2>1. q = r
    BY <1>1, <1>6 DEF q, r, Kept
  <2>2. Updated(q, list[k]) = q
    BY <1>4, <1>6 DEF Updated, HasRoom
  <2> QED
    BY <2>1, <2>2 DEF q, r
<1> QED
  BY <1>5, <1>6

(* The whole loop.                                                         *)
LEMMA LoopKeeps ==
  ASSUME VDPAU_MAX_CONFIG_ATTRIBUTES \in Nat \ {0}, NEW S, Default \in S,
         NEW list \in Seq(S)
  PROVE  Attributes(list) = Kept(list, Len(list))
<1> DEFINE N == 0..Len(list)
           After(g) == [n \in N |->
             IF n = 0 THEN <<Default>> ELSE Updated(g[n - 1], list[n])]
           f == CHOOSE g : g = After(g)
           w == [n \in N |-> Kept(list, n)]
<1>1. Len(list) \in Nat
  OBVIOUS
<1>2. Kept(list, 0) = <<Default>>
  <2>1. Room(0) = 0
    BY DEF Room
  <2>2. Kept(list, 0) = [i \in 1..1 |-> Default]
    BY <2>1 DEF Kept
  <2> QED
    BY <2>2
<1>3. w = After(w)
  <2>1. ASSUME NEW n \in N, n # 0
        PROVE  Kept(list, n) = Updated(w[n - 1], list[n])
    <3>1. n \in 1..Len(list) /\ n - 1 \in N
      BY <1>1, <2>1
    <3>2. w[n - 1] = Kept(list, n - 1)
      BY <3>1
    <3> QED
      BY <3>1, <3>2, TurnKeeps
  <2>2. \A n \in N : Kept(list, n) =
          IF n = 0 THEN <<Default>> ELSE Updated(w[n - 1], list[n])
    BY <1>2, <2>1
  <2> QED
    BY ONLY <2>2
<1>4. f = After(f)
  <2> HIDE DEF w, After
  <2> QED
    BY <1>3
<1>5. Attributes(list) = f[Len(list)]
  BY DEF Attributes
<1> HIDE DEF f
<1>6. /\ f[0] = <<Default>>
      /\ \A n \in 1..Len(list) : f[n] = Updated(f[n - 1], list[n])
  BY <1>1, <1>4
<1> DEFINE Same == {n \in N : f[n] = Kept(list, n)}
<1>7. 0 \in Same
  BY <1>1, <1>2, <1>6
<1>8. ASSUME NEW n \in 1..Len(list), n - 1 \in Same
      PROVE  n \in Same
  <2>1. f[n] = Updated(Kept(list, n - 1), list[n])
    BY <1>6, <1>8
  <2> QED
    BY <1>1, <2>1, TurnKeeps
<1> HIDE DEF Same
<1>9. N \subseteq Same
  BY <1>1, <1>7, <1>8, AllSteps
<1> QED
  BY <1>1, <1>5, <1>9 DEF Same

(* A config whose list had room for all attributes has the default and     *)
(* then all of them.                                                       *)
LEMMA ConfigOf ==
  ASSUME DriverConstants, NEW list \in BoundedSeq(Attribs, MaxList),
         Len(Attributes(list)) = Len(list) + 1
  PROVE  /\ list \in Seq(Attribs)
         /\ Attributes(list) = <<Default>> \o list
         /\ Attributes(list)
              \in BoundedSeq(Attribs \cup {Default}, VDPAU_MAX_CONFIG_ATTRIBUTES)
<1> DEFINE S == Attribs \cup {Default}
           M == VDPAU_MAX_CONFIG_ATTRIBUTES
           n == Len(list)
           r == Attributes(list)
<1>1. M \in Nat \ {0}
  BY DEF DriverConstants
<1>2. PICK m \in 0..MaxList : list \in [1..m -> Attribs]
  BY DEF BoundedSeq, SeqOf
<1>3. list \in Seq(Attribs) /\ list \in [1..m -> S] /\ m \in Nat
  BY <1>2, ListOf DEF DriverConstants
<1>4. list \in Seq(S) /\ n = m
  BY ONLY <1>3, ListOf
<1> HIDE DEF S, M, n, r
<1>5. Default \in S
  BY DEF S
<1>6. r = Kept(list, n) /\ Len(r) = n + 1
  BY <1>1, <1>4, <1>5, LoopKeeps DEF M, n, r
<1>7. Room(n) \in Nat /\ (Room(n) = n => n < M)
  BY <1>1, <1>3, <1>4 DEF Room, M
<1>8. \A i \in 1..n : list[i] \in S
  BY <1>3, <1>4
<1> DEFINE l == Room(n) + 1
<1>9. r \in [1..l -> S] /\ l \in Nat
  <2>1. \A i \in 1..l : i # 1 => i - 1 \in 1..n
    BY <1>3, <1>4, <1>1 DEF Room, M
  <2> QED
    BY <1>5, <1>6, <1>7, <1>8, <2>1 DEF Kept
<1>10. r \in Seq(S) /\ l = n + 1 /\ Room(n) = n
  <2>1. r \in Seq(S) /\ Len(r) = l
    <3> HIDE DEF l
    <3> QED
      BY ONLY <1>9, ListOf
  <2> QED
    BY <1>3, <1>4, <1>6, <1>7, <2>1
<1>11. r \in BoundedSeq(S, M)
  <2>1. l \in 0..M
    BY <1>1, <1>3, <1>4, <1>7, <1>10
  <2> HIDE DEF l
  <2> QED
    BY <1>9, <2>1 DEF BoundedSeq, SeqOf
<1>12. r = <<Default>> \o list
  <2> DEFINE d == <<Default>>
             c == d \o list
  <2>1. d \in Seq(S) /\ Len(d) = 1 /\ d[1] = Default
    BY <1>5
  <2> HIDE DEF d
  <2>2. /\ c \in Seq(S) /\ Len(c) = 1 + n
        /\ \A i \in 1..(1 + n) : c[i] = IF i <= 1 THEN d[i] ELSE list[i - 1]
    <3>1. /\ c \in Seq(S) /\ Len(c) = Len(d) + Len(list)
          /\ \A i \in 1..(Len(d) + Len(list)) :
               c[i] = IF i <= Len(d) THEN d[i] ELSE list[i - Len(d)]
      BY ONLY <1>4, <2>1, ConcatProperties
    <3> QED
      BY <2>1, <3>1 DEF n
  <2> HIDE DEF c
  <2>3. \A i \in 1..(n + 1) : r[i] = IF i = 1 THEN Default ELSE list[i - 1]
    BY <1>6, <1>10 DEF Kept
  <2>4. Len(r) = Len(c) /\ \A i \in 1..Len(r) : r[i] = c[i]
    BY <1>3, <1>4, <1>6, <2>1, <2>2, <2>3
  <2>5. r = c
    BY ONLY <1>10, <2>2, <2>4, SeqEqual
  <2> QED
    BY <2>5 DEF c, d
<1> QED
  BY <1>3, <1>11, <1>12 DEF r, S, M

-----------------------------------------------------------------------------
(***************************************************************************)
(* One driver instance, from vaInitialize to the end of vaTerminate.       *)
(***************************************************************************)
(* No driver yet.                                                          *)
LEMMA LifeInit == DriverConstants /\ DriverInit => DriverInv
<1> SUFFICES ASSUME DriverConstants, DriverInit PROVE DriverInv
  OBVIOUS
<1> USE DEF DriverInit, DriverConstants
<1>1. SetupTyped
  <2>1. Len(Procs) \in Nat
    OBVIOUS
  <2> QED
    BY <2>1 DEF SetupTyped
<1>2. SetupInv
  BY <1>1 DEF SetupInv, LoopInv, DeviceInv, Running, NeverFaults
<1>3. HeapsInv
  BY HeapNames DEF HeapsInv, Opening, Closing
<1>4. ConfigsInv
  BY <1>1 DEF ConfigsInv, DriverTypeOK, ObjectsTyped
<1> QED
  BY <1>2, <1>3, <1>4 DEF DriverInv

(* The configs stay complete where no step touches a heap or a config.     *)
LEMMA ObjectsUntouched ==
  ASSUME ConfigsInv, UNCHANGED <<heap, owned, config>>, SetupTyped'
  PROVE  ConfigsInv'
BY DEF ConfigsInv, DriverTypeOK, ObjectsTyped

(* A step that may fail does or does not.                                  *)
LEMMA OutcomeCases ==
  ASSUME NEW w, NEW ok \in Outcomes(w)
  PROVE  ok = TRUE \/ (ok = FALSE /\ w \in Failing)
BY DEF Outcomes

(* vaInitialize up to the device: the X connection.                        *)
LEMMA InitializeLife ==
  ASSUME DriverConstants, DriverInv,
         BeginInitialize \/ OpenDisplay \/ CreateDevice
  PROVE  DriverInv'
<1> USE DEF DriverInv
<1>1. /\ UNCHANGED <<heap, owned, config>>
      /\ ~faulted'
      /\ \/ /\ stage = "off" /\ stage' \in {"open", "drain"}
            /\ UNCHANGED <<vdp_dpy, vdp_device, loaded>>
         \/ /\ stage = "open" /\ stage' = "device"
            /\ vdp_dpy' \in {"own", "shared"} /\ UNCHANGED <<vdp_device, loaded>>
         \/ /\ stage = "device" /\ UNCHANGED <<vdp_dpy, loaded>>
            /\ \/ stage' = "gate" /\ vdp_device' = "live"
               \/ stage' = "drain" /\ vdp_device' = "invalid"
      /\ stage' \in {"gate", "drain"} => turn' = 1
  <2> USE DEF In, GoTo, Fails, setupVars, objectVars
  <2>1. CASE BeginInitialize
    <3>1. PICK display \in Outcomes("display") :
            IF display THEN GoTo("open", 0) ELSE Fails
      BY <2>1 DEF BeginInitialize
    <3>2. display = TRUE \/ display = FALSE
      BY OutcomeCases
    <3> QED
      BY <2>1, <3>1, <3>2 DEF BeginInitialize
  <2>2. CASE OpenDisplay
    <3>1. PICK own \in Outcomes("open") : vdp_dpy' = IF own THEN "own" ELSE "shared"
      BY <2>2 DEF OpenDisplay
    <3>2. vdp_dpy' \in {"own", "shared"}
      BY <3>1
    <3> QED
      BY <2>2, <3>2 DEF OpenDisplay
  <2>3. CASE CreateDevice
    <3>1. PICK ok \in Outcomes("device") :
            /\ vdp_device' = IF ok THEN "live" ELSE "invalid"
            /\ IF ok THEN GoTo("gate", 1) ELSE Fails
      BY <2>3 DEF CreateDevice
    <3>2. ok = TRUE \/ ok = FALSE
      BY OutcomeCases
    <3> QED
      BY <2>3, <3>1, <3>2 DEF CreateDevice
  <2> QED
    BY <2>1, <2>2, <2>3
<1>2. SetupInv'
  BY <1>1, HeapNames DEF SetupInv, SetupTyped, LoopInv, DeviceInv,
     NeverFaults, Running, DriverConstants
<1>3. HeapsInv'
  BY <1>1, HeapNames DEF HeapsInv, Opening, Closing
<1> QED
  BY <1>1, <1>2, <1>3, ObjectsUntouched DEF SetupInv

(* Which functions VDPAU gave: none before the first, device_destroy from  *)
(* then on.  A call through the table is safe while all is there, and      *)
(* while there is no function.                                             *)
LEMMA FunctionsLoaded ==
  ASSUME DriverConstants, loaded \in 0..Len(Procs)
  PROVE  /\ loaded > 0 => IsLoaded("device_destroy")
         /\ \A proc : loaded = 0 => ~IsLoaded(proc)
         /\ \A proc : vdp_device = "live" /\ vdp_dpy # "none" => ~CallFaults(proc)
         /\ \A proc : loaded = 0 => ~CallFaults(proc)
<1> DEFINE q == SubSeq(Procs, 1, loaded)
<1>1. \A i \in 1..loaded : Procs[i] \in STRING
  BY DEF DriverConstants
<1>2. loaded \in Int /\ loaded >= 0
  OBVIOUS
<1>3. Len(q) = loaded /\ DOMAIN q = 1..loaded /\ \A i \in 1..loaded : q[i] = Procs[i]
  <2>1. /\ q \in Seq(STRING) /\ Len(q) = IF 1 <= loaded THEN loaded - 1 + 1 ELSE 0
        /\ \A i \in 1..(loaded - 1 + 1) : q[i] = Procs[1 + i - 1]
    BY <1>1, <1>2, SubSeqProperties
  <2> HIDE DEF q
  <2>2. Len(q) = loaded /\ DOMAIN q = 1..Len(q)
    BY <1>2, <2>1
  <2>3. ASSUME NEW i \in 1..loaded PROVE q[i] = Procs[i]
    <3>1. loaded - 1 + 1 = loaded /\ 1 + i - 1 = i
      BY <1>2
    <3> QED
      BY <2>1, <3>1
  <2> QED
    BY <2>2, <2>3
<1> HIDE DEF q
<1>4. \A proc : IsLoaded(proc) <=> \E i \in 1..loaded : Procs[i] = proc
  BY <1>3 DEF IsLoaded, Range, q
<1>5. \A proc : CallFaults(proc) <=>
        IsLoaded(proc) /\ (vdp_device # "live" \/ vdp_dpy = "none")
  BY DEF CallFaults, IsLoaded
<1>6. loaded > 0 => IsLoaded("device_destroy")
  BY <1>2, <1>4 DEF DriverConstants
<1>7. \A proc : loaded = 0 => ~IsLoaded(proc)
  BY <1>4
<1> QED
  BY <1>5, <1>6, <1>7

(* vdpau_gate_init and what follows it: the functions one by one.          *)
LEMMA GateLife ==
  ASSUME DriverConstants, DriverInv, GateInit \/ CheckVersion
  PROVE  DriverInv'
<1> USE DEF DriverInv
<1>1. /\ UNCHANGED <<heap, owned, config, vdp_dpy, vdp_device>>
      /\ \/ /\ stage = "gate" /\ faulted' = faulted /\ loaded' = turn
            /\ IF turn < Len(Procs) THEN stage' = "gate" /\ turn' = turn + 1
               ELSE stage' = "version"
         \/ /\ stage = "gate" /\ stage' = "drain" /\ turn' = 1
            /\ UNCHANGED <<faulted, loaded>> /\ Procs[turn] \in Failing
         \/ /\ stage = "version" /\ UNCHANGED loaded
            /\ stage' \in {"heaps", "drain"} /\ turn' = 1
            /\ faulted' = (CallFaults("get_api_version")
                             \/ CallFaults("get_information_string"))
  <2> USE DEF In, GoTo, Fails, setupVars, objectVars
  <2>1. CASE GateInit
    <3>1. PICK ok \in Outcomes(Procs[turn]) :
            IF ok THEN /\ loaded' = turn
                       /\ IF turn < Len(Procs) THEN GoTo("gate", turn + 1)
                          ELSE GoTo("version", 0)
            ELSE Fails /\ UNCHANGED loaded
      BY <2>1 DEF GateInit
    <3>2. ok = TRUE \/ (ok = FALSE /\ Procs[turn] \in Failing)
      BY OutcomeCases
    <3>3. stage = "gate" /\ UNCHANGED <<heap, owned, config, vdp_dpy, vdp_device, faulted>>
      BY <2>1 DEF GateInit
    <3> QED
      BY <3>1, <3>2, <3>3
  <2>2. CASE CheckVersion
    <3>1. PICK ok \in Outcomes("version") :
            IF ok THEN GoTo("heaps", 1) ELSE Fails
      BY <2>2 DEF CheckVersion
    <3>2. ok = TRUE \/ ok = FALSE
      BY OutcomeCases
    <3>3. /\ stage = "version"
          /\ UNCHANGED <<heap, owned, config, vdp_dpy, vdp_device, loaded>>
          /\ faulted' = (CallFaults("get_api_version")
                           \/ CallFaults("get_information_string"))
      BY <2>2 DEF CheckVersion
    <3> QED
      BY <3>1, <3>2, <3>3
  <2> QED
    BY <2>1, <2>2
<1>2. Len(Procs) \in Nat /\ DOMAIN Procs = 1..Len(Procs) /\ Procs[1] = "device_destroy"
  BY DEF DriverConstants
<1>3. loaded \in 0..Len(Procs) /\ (stage = "gate" => turn \in 1..Len(Procs))
  BY <1>2 DEF SetupInv, SetupTyped, LoopInv
<1>4. ~faulted'
  <2>1. \A proc : stage = "version" => ~CallFaults(proc)
    BY <1>3, FunctionsLoaded DEF SetupInv, DeviceInv, Running, Complete
  <2>2. ~faulted
    BY DEF SetupInv, NeverFaults
  <2> QED
    BY <1>1, <2>1, <2>2
<1>5. SetupTyped'
  BY <1>1, <1>2, <1>3 DEF SetupInv, SetupTyped
<1>6. LoopInv'
  BY <1>1, <1>2, <1>3, HeapNames DEF LoopInv
<1>7. DeviceInv'
  <2>1. /\ vdp_dpy' # "none" /\ vdp_device' = "live"
        /\ stage = "gate" => loaded = turn - 1
        /\ stage = "version" => loaded = Len(Procs)
    BY <1>1 DEF SetupInv, DeviceInv, Running, Complete
  <2>2. stage' = "drain" => loaded' > 0 \/ "device_destroy" \in Failing
    <3>1. CASE stage = "gate"
      <4>1. CASE turn = 1
        BY <1>1, <1>2, <3>1, <4>1
      <4>2. CASE turn # 1
        BY <1>1, <1>2, <1>3, <2>1, <3>1, <4>2
      <4> QED
        BY <4>1, <4>2
    <3>2. CASE stage = "version"
      <4>1. Len(Procs) > 0
        BY DEF DriverConstants
      <4> QED
        BY <1>1, <2>1, <3>2, <4>1
    <3> QED
      BY <1>1, <3>1, <3>2
  <2>3. stage' = "gate" => loaded' = turn' - 1
    BY <1>1, <1>3
  <2>4. stage' \in {"version", "heaps"} => loaded' = Len(Procs)
    <3>1. stage' \in {"version", "heaps"} =>
            \/ stage = "gate" /\ loaded' = turn /\ ~(turn < Len(Procs))
            \/ stage = "version" /\ loaded' = loaded
      BY <1>1
    <3>2. stage = "gate" /\ ~(turn < Len(Procs)) => turn = Len(Procs)
      BY <1>2, <1>3
    <3> QED
      BY <2>1, <3>1, <3>2
  <2>5. stage' \in {"gate", "version", "heaps", "drain"}
    BY <1>1
  <2> QED
    BY <2>1, <2>2, <2>3, <2>4, <2>5 DEF DeviceInv, Running, Complete
<1>8. HeapsInv'
  BY <1>1, HeapNames DEF HeapsInv, Opening, Closing
<1> QED
  BY <1>1, <1>4, <1>5, <1>6, <1>7, <1>8, ObjectsUntouched
     DEF SetupInv, NeverFaults

(* The heaps, one after the other.                                         *)
LEMMA CreateHeapLife ==
  ASSUME DriverConstants, DriverInv, CreateHeap
  PROVE  DriverInv'
<1> USE DEF DriverInv
<1> DEFINE h == Created[turn]
<1>1. /\ stage = "heaps"
      /\ UNCHANGED <<vdp_dpy, vdp_device, loaded, owned, config, faulted>>
      /\ \/ /\ heap' = [heap EXCEPT ![h] = 0]
            /\ IF turn < 9 THEN stage' = "heaps" /\ turn' = turn + 1
               ELSE stage' = "vtable"
         \/ UNCHANGED heap /\ stage' = "drain" /\ turn' = 1
  <2> USE DEF In, GoTo, Fails, setupVars
  <2>1. PICK ok \in Outcomes("heap") :
          IF ok THEN /\ heap' = [heap EXCEPT ![h] = 0]
                     /\ IF turn < Len(Created) THEN GoTo("heaps", turn + 1)
                        ELSE GoTo("vtable", 0)
          ELSE Fails /\ UNCHANGED heap
    BY DEF CreateHeap
  <2>2. ok = TRUE \/ ok = FALSE
    BY OutcomeCases
  <2>3. /\ stage = "heaps"
        /\ UNCHANGED <<vdp_dpy, vdp_device, loaded, owned, config, faulted>>
    BY DEF CreateHeap
  <2> QED
    BY <2>1, <2>2, <2>3, HeapNames
<1>2. turn \in 1..9 /\ h \in Heaps
  BY <1>1, HeapNames DEF SetupInv, LoopInv
<1>3. SetupInv'
  <2>1. SetupTyped'
    BY <1>1 DEF SetupInv, SetupTyped
  <2>2. LoopInv'
    BY <1>1, <1>2, HeapNames DEF LoopInv
  <2>3. Len(Procs) > 0
    BY DEF DriverConstants
  <2>4. DeviceInv'
    BY <1>1, <2>3 DEF SetupInv, DeviceInv, Running, Complete
  <2> QED
    BY <1>1, <2>1, <2>2, <2>4 DEF SetupInv, NeverFaults
<1> HIDE DEF h
<1>4. /\ heap \in [Heaps -> 0..ObjectsPerHeap \cup {NONE}]
      /\ owned \in [Heaps -> 0..ObjectsPerHeap] /\ ObjectsPerHeap \in Nat
  BY DEF ConfigsInv, DriverTypeOK, ObjectsTyped, DriverConstants
<1>5. heap' \in [Heaps -> 0..ObjectsPerHeap \cup {NONE}]
  BY <1>1, <1>2, <1>4
<1>6. HeapsInv'
  <2>1. /\ \A g \in Heaps : heap[g] \in {NONE, 0} /\ owned[g] = 0
        /\ \A i \in 1..9 : i < turn => heap[Created[i]] = 0
    BY <1>1, HeapNames DEF HeapsInv
  <2>2. \A g \in Heaps : heap'[g] \in {NONE, 0} /\ owned'[g] = 0
    BY <1>1, <1>2, <1>4, <2>1
  <2>3. \A i \in 1..9 : stage' # "drain" /\ i < turn + 1 => heap'[Created[i]] = 0
    <3> SUFFICES ASSUME NEW i \in 1..9, stage' # "drain", i < turn + 1
                 PROVE  heap'[Created[i]] = 0
      OBVIOUS
    <3>1. Created[i] \in Heaps
      BY HeapNames
    <3>2. CASE i = turn
      BY <1>1, <1>2, <1>4, <3>1, <3>2 DEF h
    <3>3. CASE i < turn
      BY <1>1, <1>2, <1>4, <2>1, <3>1, <3>3
    <3> QED
      BY <1>2, <3>2, <3>3
  <2>4. stage' = "vtable" => \A g \in Heaps : heap'[g] = 0
    <3> SUFFICES ASSUME stage' = "vtable", NEW g \in Heaps PROVE heap'[g] = 0
      OBVIOUS
    <3>1. PICK i \in 1..9 : Created[i] = g
      BY HeapNames
    <3>2. turn = 9
      BY <1>1, <1>2
    <3> QED
      BY <2>3, <3>1, <3>2
  <2>5. stage' \in {"heaps", "vtable", "drain"}
        /\ (stage' = "heaps" => turn' = turn + 1) /\ (stage' = "drain" => turn' = 1)
    BY <1>1
  <2> QED
    BY <2>2, <2>3, <2>4, <2>5, HeapNames DEF HeapsInv, Opening, Closing
<1>7. ConfigsInv'
  BY <1>1, <1>3, <1>5 DEF ConfigsInv, DriverTypeOK, ObjectsTyped, SetupInv
<1> QED
  BY <1>3, <1>6, <1>7

(* Nothing is left of the driver data.                                     *)
LEMMA ForgottenLife ==
  ASSUME DriverConstants, DriverInv, Forgotten, UNCHANGED faulted
  PROVE  DriverInv'
<1> USE DEF DriverInv
<1>1. /\ stage' = "off" /\ vdp_dpy' = "none" /\ vdp_device' = "zero" /\ loaded' = 0
      /\ heap' = [h \in Heaps |-> NONE] /\ owned' = [h \in Heaps |-> 0]
      /\ config' = [c \in ConfigIDs |-> NONE]
  BY DEF Forgotten, GoTo
<1>2. Len(Procs) \in Nat /\ ObjectsPerHeap \in Nat
  BY DEF DriverConstants
<1>3. SetupTyped'
  BY <1>1, <1>2 DEF SetupTyped
<1>4. SetupInv'
  BY <1>1, <1>3 DEF SetupInv, LoopInv, DeviceInv, Running, NeverFaults
<1>5. HeapsInv'
  BY <1>1, HeapNames DEF HeapsInv, Opening, Closing
<1>6. ConfigsInv'
  BY <1>1, <1>2, <1>3 DEF ConfigsInv, DriverTypeOK, ObjectsTyped
<1> QED
  BY <1>4, <1>5, <1>6

(* The table of GLX functions, and the end of vaTerminate.                 *)
LEMMA VTableLife ==
  ASSUME DriverConstants, DriverInv, GetVTableGLX \/ FreeDriver
  PROVE  DriverInv'
<1>1. CASE FreeDriver
  BY <1>1, ForgottenLife DEF FreeDriver
<1>2. CASE GetVTableGLX
  <2>1. PICK ok \in Outcomes("vtable") :
          IF ok THEN /\ GoTo("ready", 0)
                     /\ UNCHANGED <<setupVars, objectVars, lost>>
          ELSE Forgotten
    BY <1>2 DEF GetVTableGLX
  <2>2. ok = TRUE \/ ok = FALSE
    BY OutcomeCases
  <2>3. stage = "vtable" /\ UNCHANGED faulted
    BY <1>2 DEF GetVTableGLX, In
  <2>4. CASE ok = FALSE
    BY <2>1, <2>3, <2>4, ForgottenLife
  <2>5. CASE ok = TRUE
    <3>1. /\ stage' = "ready"
          /\ UNCHANGED <<vdp_dpy, vdp_device, loaded, heap, owned, config, faulted>>
      BY <2>1, <2>3, <2>5 DEF GoTo, setupVars, objectVars
    <3>2. SetupInv'
      BY <2>3, <3>1 DEF DriverInv, SetupInv, SetupTyped, LoopInv,
         DeviceInv, Running, Complete, NeverFaults
    <3>3. HeapsInv'
      <4>1. /\ \A h \in Heaps : heap'[h] = 0 /\ owned'[h] = 0
            /\ \A h \in Heaps : owned'[h] > 0 => h \in Used
        BY <2>3, <3>1 DEF DriverInv, HeapsInv
      <4>2. ObjectsPerHeap \in Nat
        BY DEF DriverConstants
      <4> QED
        BY <3>1, <4>1, <4>2 DEF HeapsInv, Opening, Closing
    <3> QED
      BY <3>1, <3>2, <3>3, ObjectsUntouched DEF DriverInv, SetupInv
  <2> QED
    BY <2>2, <2>4, <2>5
<1> QED
  BY <1>1, <1>2

(* Objects are made and destroyed while the driver is complete.            *)
LEMMA ObjectLife ==
  ASSUME DriverConstants, DriverInv,
         NEW h \in Used, CreateObject(h) \/ DestroyObject(h)
  PROVE  DriverInv'
<1> USE DEF DriverInv
<1>1. /\ stage = "ready"
      /\ UNCHANGED <<stage, turn, vdp_dpy, vdp_device, loaded, config, faulted>>
      /\ \/ /\ heap[h] < ObjectsPerHeap
            /\ heap' = [heap EXCEPT ![h] = heap[h] + 1]
            /\ owned' = [owned EXCEPT ![h] = owned[h] + 1]
         \/ /\ heap[h] > 0
            /\ heap' = [heap EXCEPT ![h] = heap[h] - 1]
            /\ owned' = [owned EXCEPT ![h] = owned[h] - 1]
  BY DEF CreateObject, DestroyObject, In, setupVars
<1>2. h \in Heaps /\ ObjectsPerHeap \in Nat
  BY DEF DriverConstants
<1>3. /\ heap \in [Heaps -> 0..ObjectsPerHeap \cup {NONE}]
      /\ owned \in [Heaps -> 0..ObjectsPerHeap]
  BY DEF ConfigsInv, DriverTypeOK, ObjectsTyped
<1>4. /\ \A g \in Heaps : heap[g] \in 0..ObjectsPerHeap /\ owned[g] = heap[g]
      /\ \A g \in Heaps : owned[g] > 0 => g \in Used
  BY <1>1 DEF HeapsInv
<1>5. /\ heap' \in [Heaps -> 0..ObjectsPerHeap \cup {NONE}]
      /\ owned' \in [Heaps -> 0..ObjectsPerHeap]
      /\ \A g \in Heaps : heap'[g] \in 0..ObjectsPerHeap /\ owned'[g] = heap'[g]
      /\ \A g \in Heaps : owned'[g] > 0 => g \in Used
  <2>1. PICK n \in 0..ObjectsPerHeap :
          heap' = [heap EXCEPT ![h] = n] /\ owned' = [owned EXCEPT ![h] = n]
    BY <1>1, <1>2, <1>4
  <2> QED
    BY <1>2, <1>3, <1>4, <2>1
<1>6. SetupInv'
  BY <1>1 DEF SetupInv, SetupTyped, LoopInv, DeviceInv, Running,
     Complete, NeverFaults
<1>7. HeapsInv'
  BY <1>1, <1>5 DEF HeapsInv, Opening, Closing
<1>8. ConfigsInv'
  BY <1>1, <1>5, <1>6 DEF ConfigsInv, DriverTypeOK, ObjectsTyped, SetupInv
<1> QED
  BY <1>6, <1>7, <1>8

(* A config is complete or not there.                                      *)
LEMMA ConfigLife ==
  ASSUME DriverConstants, DriverInv, NEW c \in ConfigIDs,
         \/ \E list \in BoundedSeq(Attribs, MaxList) : CreateConfig(c, list)
         \/ DestroyConfig(c)
  PROVE  DriverInv'
<1> USE DEF DriverInv
<1> DEFINE Config == [attrs : BoundedSeq(Attribs \cup {Default}, VDPAU_MAX_CONFIG_ATTRIBUTES),
                      passed : Seq(Attribs)]
<1>1. /\ stage = "ready"
      /\ UNCHANGED <<stage, turn, vdp_dpy, vdp_device, loaded, heap, owned, faulted>>
  BY DEF CreateConfig, DestroyConfig, In, setupVars
<1>2. PICK value \in {NONE} \cup Config :
        /\ config' = [config EXCEPT ![c] = value]
        /\ value # NONE => value.attrs = <<Default>> \o value.passed
  <2>1. CASE DestroyConfig(c)
    BY <2>1 DEF DestroyConfig
  <2>2. ASSUME NEW list \in BoundedSeq(Attribs, MaxList), CreateConfig(c, list)
        PROVE  \E value \in {NONE} \cup Config :
                 /\ config' = [config EXCEPT ![c] = value]
                 /\ value # NONE => value.attrs = <<Default>> \o value.passed
    <3> DEFINE attrs == Attributes(list)
    <3>1. config' = [config EXCEPT ![c] = IF Len(attrs) = Len(list) + 1
                       THEN [attrs |-> attrs, passed |-> list] ELSE NONE]
      <4> DEFINE new == [attrs |-> attrs, passed |-> list]
      <4>1. config' = [config EXCEPT ![c] = IF Len(new.attrs) = Len(list) + 1
                         THEN new ELSE Failed(new)]
        BY <2>2 DEF CreateConfig
      <4>2. new.attrs = attrs
        OBVIOUS
      <4> QED
        BY <4>1, <4>2 DEF Failed
    <3>2. CASE Len(attrs) = Len(list) + 1
      <4>1. /\ list \in Seq(Attribs) /\ attrs = <<Default>> \o list
            /\ attrs \in BoundedSeq(Attribs \cup {Default}, VDPAU_MAX_CONFIG_ATTRIBUTES)
        BY <3>2, ConfigOf
      <4> DEFINE new == [attrs |-> attrs, passed |-> list]
      <4>2. new \in Config /\ new.attrs = <<Default>> \o new.passed
        BY <4>1
      <4>3. config' = [config EXCEPT ![c] = new]
        BY <3>1, <3>2
      <4> HIDE DEF new, Config
      <4> QED
        BY <4>2, <4>3
    <3>3. CASE ~(Len(attrs) = Len(list) + 1)
      BY <3>1, <3>3
    <3> QED
      BY <3>2, <3>3
  <2> QED
    BY <2>1, <2>2
<1>3. SetupInv'
  BY <1>1 DEF SetupInv, SetupTyped, LoopInv, DeviceInv, Running,
     Complete, NeverFaults
<1>4. HeapsInv'
  BY <1>1 DEF HeapsInv, Opening, Closing
<1>5. ConfigsInv'
  <2>1. config \in [ConfigIDs -> {NONE} \cup Config]
    BY DEF ConfigsInv, DriverTypeOK, ObjectsTyped
  <2>2. \A d \in ConfigIDs : config[d] # NONE =>
          config[d].attrs = <<Default>> \o config[d].passed
    BY DEF ConfigsInv, Given
  <2> HIDE DEF Config
  <2>3. /\ config' \in [ConfigIDs -> {NONE} \cup Config]
        /\ \A d \in ConfigIDs : config'[d] = IF d = c THEN value ELSE config[d]
    BY <1>2, <2>1
  <2>4. \A d \in ConfigIDs : config'[d] # NONE =>
          config'[d].attrs = <<Default>> \o config'[d].passed
    BY <1>2, <2>2, <2>3
  <2>5. DriverTypeOK'
    BY <1>1, <1>3, <2>3 DEF ConfigsInv, DriverTypeOK, ObjectsTyped,
       SetupInv, Config
  <2> QED
    BY <2>4, <2>5 DEF ConfigsInv, Given
<1> QED
  BY <1>3, <1>4, <1>5

(* vaTerminate begins; the device is destroyed; the display is closed.     *)
LEMMA TerminateLife ==
  ASSUME DriverConstants, DriverInv,
         BeginTerminate \/ DestroyDevice \/ CloseDisplay
  PROVE  DriverInv'
<1> USE DEF DriverInv
<1>1. /\ UNCHANGED <<loaded, heap, owned, config>>
      /\ \/ /\ stage = "ready" /\ stage' = "drain" /\ turn' = 1
            /\ UNCHANGED <<vdp_dpy, vdp_device, faulted>>
         \/ /\ stage = "destroy_device" /\ stage' = "close"
            /\ vdp_device' = "invalid" /\ UNCHANGED vdp_dpy
            /\ faulted' = (vdp_device # "invalid" /\ CallFaults("device_destroy"))
         \/ /\ stage = "close" /\ stage' = "free"
            /\ vdp_dpy' = IF vdp_dpy = "own" THEN "none" ELSE vdp_dpy
            /\ UNCHANGED <<vdp_device, faulted>>
  BY DEF BeginTerminate, DestroyDevice, CloseDisplay, In, GoTo,
         setupVars, objectVars, Closes
<1>2. loaded \in 0..Len(Procs) /\ Len(Procs) > 0
  BY DEF SetupInv, SetupTyped, DriverConstants
<1>3. ~faulted'
  <2>1. stage = "destroy_device" => ~CallFaults("device_destroy")
    BY <1>2, FunctionsLoaded DEF SetupInv, DeviceInv
  <2>2. ~faulted
    BY DEF SetupInv, NeverFaults
  <2> QED
    BY <1>1, <2>1, <2>2
<1>4. SetupTyped'
  BY <1>1 DEF SetupInv, SetupTyped
<1>5. LoopInv'
  BY <1>1, HeapNames DEF LoopInv
<1>6. DeviceInv'
  BY <1>1, <1>2 DEF SetupInv, DeviceInv, Running, Complete
<1>7. HeapsInv'
  <2>1. CASE stage = "ready"
    <3>1. Complete'
      BY <1>1, <2>1 DEF SetupInv, DeviceInv, Running, Complete
    <3>2. \A h \in Heaps : owned[h] > 0 => h \in Used
      BY DEF HeapsInv
    <3>3. stage' = "drain" /\ turn' = 1 /\ UNCHANGED <<heap, owned>>
      BY <1>1, <2>1
    <3> QED
      BY <3>1, <3>2, <3>3, HeapNames DEF HeapsInv, Opening, Closing
  <2>2. CASE stage # "ready"
    <3>1. /\ stage \in {"destroy_device", "close"} /\ stage' \in {"close", "free"}
          /\ UNCHANGED <<heap, owned>>
      BY <1>1, <2>2
    <3> QED
      BY <3>1 DEF HeapsInv, Opening, Closing
  <2> QED
    BY <2>1, <2>2
<1> QED
  BY <1>1, <1>3, <1>4, <1>5, <1>6, <1>7, ObjectsUntouched DEF SetupInv, NeverFaults

(* The heaps are drained, one after the other: a mixer can only be there   *)
(* if the device and its functions still are.                              *)
LEMMA DestroyHeapLife ==
  ASSUME DriverConstants, DriverInv, DestroyHeap
  PROVE  DriverInv'
<1> USE DEF DriverInv
<1> DEFINE h == Destroyed[turn]
<1>1. /\ stage = "drain"
      /\ UNCHANGED <<vdp_dpy, vdp_device, loaded>>
      /\ heap' = [heap EXCEPT ![h] = NONE]
      /\ owned' = [owned EXCEPT ![h] = Released(h)]
      /\ config' = IF h = "config" THEN [c \in ConfigIDs |-> NONE] ELSE config
      /\ faulted' = (/\ h = "mixer" /\ heap[h] \notin {NONE, 0}
                     /\ CallFaults("video_mixer_destroy"))
      /\ IF turn < 9 THEN stage' = "drain" /\ turn' = turn + 1
         ELSE stage' = "destroy_device"
  <2>1. /\ stage = "drain"
        /\ UNCHANGED <<vdp_dpy, vdp_device, loaded>>
        /\ heap' = [heap EXCEPT ![h] = NONE]
        /\ owned' = [owned EXCEPT ![h] = Released(h)]
        /\ config' = IF h = "config" THEN [c \in ConfigIDs |-> NONE] ELSE config
    BY DEF DestroyHeap, In, setupVars
  <2>2. faulted' = (/\ h = "mixer" /\ heap[h] \notin {NONE, 0}
                    /\ CallFaults("video_mixer_destroy"))
    BY ZenonT(30) DEF DestroyHeap
  <2>3. IF turn < 9 THEN stage' = "drain" /\ turn' = turn + 1
        ELSE stage' = "destroy_device"
    <3>1. IF turn < Len(Destroyed) THEN GoTo("drain", turn + 1)
          ELSE GoTo("destroy_device", 0)
      BY DEF DestroyHeap
    <3> QED
      BY <3>1, HeapNames DEF GoTo
  <2> QED
    BY <2>1, <2>2, <2>3
<1>2. turn \in 1..9 /\ h \in Heaps
  BY <1>1, HeapNames DEF SetupInv, LoopInv
<1> HIDE DEF h
<1>3. /\ heap \in [Heaps -> 0..ObjectsPerHeap \cup {NONE}]
      /\ owned \in [Heaps -> 0..ObjectsPerHeap] /\ ObjectsPerHeap \in Nat
  BY DEF ConfigsInv, DriverTypeOK, ObjectsTyped, DriverConstants
<1>4. PICK n \in 0..ObjectsPerHeap :
        /\ owned' = [owned EXCEPT ![h] = n]
        /\ n > 0 => owned[h] > 0
        /\ h \in {"buffer", "mixer"} => n = 0
  <2> DEFINE n == Released(h)
  <2>1. /\ n \in 0..ObjectsPerHeap /\ (n > 0 => owned[h] > 0)
        /\ (h \in {"buffer", "mixer"} => n = 0)
    BY <1>2, <1>3 DEF Released
  <2>2. owned' = [owned EXCEPT ![h] = n]
    BY <1>1
  <2> HIDE DEF n
  <2> QED
    BY <2>1, <2>2
<1>5. /\ heap' \in [Heaps -> 0..ObjectsPerHeap \cup {NONE}]
      /\ owned' \in [Heaps -> 0..ObjectsPerHeap]
  BY <1>1, <1>2, <1>3, <1>4
<1>6. \A g \in Heaps : heap[g] \in {NONE, 0} \/ Complete
  BY <1>1 DEF HeapsInv
<1>7. ~faulted'
  <2>1. heap[h] \in {NONE, 0} \/ ~CallFaults("video_mixer_destroy")
    <3>1. loaded \in 0..Len(Procs)
      BY DEF SetupInv, SetupTyped
    <3> QED
      BY <1>2, <1>6, <3>1, FunctionsLoaded DEF Complete
  <2> QED
    BY <1>1, <2>1
<1>8. SetupInv'
  <2>1. SetupTyped'
    BY <1>1 DEF SetupInv, SetupTyped
  <2>2. LoopInv'
    BY <1>1, <1>2, HeapNames DEF LoopInv
  <2>3. DeviceInv'
    BY <1>1 DEF SetupInv, DeviceInv, Running, Complete
  <2> QED
    BY <1>7, <2>1, <2>2, <2>3 DEF SetupInv, NeverFaults
<1>9. HeapsInv'
  <2>1. \A g \in Heaps : owned'[g] > 0 => g \in Used
    <3>1. \A g \in Heaps : owned[g] > 0 => g \in Used
      BY DEF HeapsInv
    <3> QED
      BY <1>2, <1>3, <1>4, <3>1
  <2>2. \A g \in Heaps : heap'[g] \in {NONE, 0} \/ Complete'
    BY <1>1, <1>2, <1>3, <1>6 DEF Complete
  <2>3. \A i \in 1..9 : i < turn + 1 =>
          /\ heap'[Destroyed[i]] = NONE
          /\ Destroyed[i] \in {"buffer", "mixer"} => owned'[Destroyed[i]] = 0
    <3> SUFFICES ASSUME NEW i \in 1..9, i < turn + 1, NEW g, g = Destroyed[i]
                 PROVE  heap'[g] = NONE /\ (g \in {"buffer", "mixer"} => owned'[g] = 0)
      OBVIOUS
    <3>1. g \in Heaps
      BY HeapNames
    <3>2. g = h \/ (heap[g] = NONE /\ (g \in {"buffer", "mixer"} => owned[g] = 0))
      BY <1>1, <1>2, HeapNames DEF HeapsInv, h
    <3> QED
      BY <1>1, <1>3, <1>4, <3>1, <3>2
  <2>4. stage' = "destroy_device" =>
          /\ \A g \in Heaps : heap'[g] = NONE
          /\ owned'["buffer"] = 0 /\ owned'["mixer"] = 0
    <3> SUFFICES ASSUME stage' = "destroy_device"
                 PROVE  /\ \A g \in Heaps : heap'[g] = NONE
                        /\ owned'["buffer"] = 0 /\ owned'["mixer"] = 0
      OBVIOUS
    <3>1. turn = 9
      BY <1>1, <1>2
    <3>2. \A i \in 1..9 : i < turn + 1
      BY <3>1
    <3>3. \A g \in Heaps : /\ heap'[g] = NONE
                           /\ g \in {"buffer", "mixer"} => owned'[g] = 0
      BY <2>3, <3>2, HeapNames
    <3>4. "buffer" \in Heaps /\ "mixer" \in Heaps
      BY HeapNames
    <3> QED
      BY <3>3, <3>4
  <2>5. \/ stage' = "drain" /\ turn' = turn + 1
        \/ stage' = "destroy_device"
    BY <1>1
  <2> QED
    BY <2>1, <2>2, <2>3, <2>4, <2>5, HeapNames DEF HeapsInv, Opening, Closing
<1>10. ConfigsInv'
  <2>1. DriverTypeOK'
    BY <1>1, <1>5, <1>8 DEF ConfigsInv, DriverTypeOK, ObjectsTyped, SetupInv
  <2>2. \A c \in ConfigIDs : config'[c] # NONE =>
          config'[c].attrs = <<Default>> \o config'[c].passed
    BY <1>1 DEF ConfigsInv, Given
  <2> QED
    BY <2>1, <2>2 DEF ConfigsInv, Given
<1> QED
  BY <1>8, <1>9, <1>10

(* Every step of the driver keeps the invariant.                           *)
LEMMA LifeStep ==
  DriverConstants /\ DriverInv /\ [DriverNext]_driverVars => DriverInv'
<1> SUFFICES ASSUME DriverConstants, DriverInv, [DriverNext]_driverVars
             PROVE  DriverInv'
  OBVIOUS
<1>1. ASSUME BeginInitialize \/ OpenDisplay \/ CreateDevice PROVE DriverInv'
  BY <1>1, InitializeLife
<1>2. ASSUME GateInit \/ CheckVersion PROVE DriverInv'
  BY <1>2, GateLife
<1>3. ASSUME CreateHeap PROVE DriverInv'
  BY <1>3, CreateHeapLife
<1>4. ASSUME GetVTableGLX \/ FreeDriver PROVE DriverInv'
  BY <1>4, VTableLife
<1>5. ASSUME NEW h \in Used, CreateObject(h) \/ DestroyObject(h)
      PROVE  DriverInv'
  BY <1>5, ObjectLife
<1>6. ASSUME NEW c \in ConfigIDs,
             \/ \E list \in BoundedSeq(Attribs, MaxList) : CreateConfig(c, list)
             \/ DestroyConfig(c)
      PROVE  DriverInv'
  BY <1>6, ConfigLife
<1>7. ASSUME BeginTerminate \/ DestroyDevice \/ CloseDisplay PROVE DriverInv'
  BY <1>7, TerminateLife
<1>8. ASSUME DestroyHeap PROVE DriverInv'
  BY <1>8, DestroyHeapLife
<1>9. ASSUME UNCHANGED driverVars PROVE DriverInv'
  <2>1. UNCHANGED <<stage, turn, vdp_dpy, vdp_device, loaded, heap, owned, config,
                    faulted>>
    BY <1>9 DEF driverVars, setupVars, objectVars
  <2>2. SetupInv'
    BY <2>1 DEF DriverInv, SetupInv, SetupTyped, LoopInv, DeviceInv,
       Complete, NeverFaults
  <2>3. HeapsInv'
    BY <2>1 DEF DriverInv, HeapsInv, Complete
  <2> QED
    BY <2>1, <2>2, <2>3, ObjectsUntouched DEF DriverInv, SetupInv
<1> QED
  BY <1>1, <1>2, <1>3, <1>4, <1>5, <1>6, <1>7, <1>8, <1>9 DEF DriverNext

(* The inductive invariant of the driver's life: at each step of           *)
(* vaInitialize and vaTerminate, what is set up so far, which heaps are    *)
(* there and what their objects own.                                       *)
THEOREM DriverInvariant == DriverSpec => []DriverInv
<1>1. DriverInit => DriverInv
  BY LifeInit, DriverAssumption
<1>2. DriverInv /\ [DriverNext]_driverVars => DriverInv'
  BY LifeStep, DriverAssumption
<1> QED
  BY <1>1, <1>2, PTL DEF DriverSpec

(* No function VDPAU did not give is called and no dead device is used, at *)
(* whatever step vaInitialize fails and whatever functions VDPAU lacks.    *)
THEOREM DriverNeverFaults == DriverSpec => []NeverFaults
<1>1. DriverInv => NeverFaults
  BY DEF DriverInv, SetupInv
<1> QED
  BY <1>1, DriverInvariant, PTL

(* The list of a config is the default and then all attributes it was      *)
(* created with, in order, for any limit and any list: what the loop of    *)
(* vdpau_CreateConfig computes.                                            *)
THEOREM ConfigsAreExact == DriverSpec => []ConfigsInv
<1>1. DriverInv => ConfigsInv
  BY DEF DriverInv
<1> QED
  BY <1>1, DriverInvariant, PTL

(* A list that is all that was given has the last value of each type.      *)
LEMMA LastIsGiven ==
  ASSUME NEW list
  PROVE  LastGiven(list) \subseteq Range(list)
BY DEF LastGiven, Range

(* A config has the last value given for each type, the default's unless   *)
(* it is replaced, and none that was not given; one whose list does not    *)
(* fit is not there.                                                       *)
THEOREM ConfigsAreComplete == DriverSpec => []ConfigsComplete
<1>1. ASSUME ConfigsInv
      PROVE  ConfigsComplete
  <2>1. ASSUME NEW c \in ConfigIDs, config[c] # NONE
        PROVE  /\ LastGiven(Given(config[c])) \subseteq Range(config[c].attrs)
               /\ Range(config[c].attrs) \subseteq Range(Given(config[c]))
    <3>1. config[c].attrs = Given(config[c])
      BY <1>1, <2>1 DEF ConfigsInv
    <3> QED
      BY <3>1, LastIsGiven
  <2> QED
    BY <1>1, <2>1 DEF ConfigsInv, ConfigsComplete
<1> QED
  BY <1>1, ConfigsAreExact, PTL

(* What the end of a driver, or a failed vaInitialize, adds to what is     *)
(* lost: only what objects of a heap without a callback owned.             *)
LEMMA ReleaseStep ==
  ASSUME DriverConstants, "device_destroy" \notin Failing, "vtable" \notin Failing,
         DriverInv, NothingLeftBehind, [DriverNext]_driverVars
  PROVE  NothingLeftBehind'
<1> USE DEF DriverInv, NothingLeftBehind
<1>1. CASE FreeDriver
  <2>1. stage = "free" /\ lost' = lost \cup Unreleased /\ UNCHANGED shared_open
    BY <1>1 DEF FreeDriver, Forgotten, In
  <2>2. vdp_device = "invalid" /\ vdp_dpy # "own"
    BY <2>1 DEF SetupInv, DeviceInv
  <2>3. \A h \in Heaps : heap[h] = NONE /\ (owned[h] > 0 => h \in Used \ {"buffer", "mixer"})
    BY <2>1 DEF HeapsInv, Closing
  <2>4. Unreleased \subseteq Used \ {"buffer", "mixer"}
    BY <2>2, <2>3 DEF Unreleased
  <2> QED
    BY <2>1, <2>4
<1>2. CASE GetVTableGLX
  <2>1. PICK ok \in Outcomes("vtable") :
          IF ok THEN /\ GoTo("ready", 0)
                     /\ UNCHANGED <<setupVars, objectVars, lost>>
          ELSE Forgotten
    BY <1>2 DEF GetVTableGLX
  <2>2. ok = TRUE
    BY OutcomeCases
  <2> QED
    BY <1>2, <2>1, <2>2 DEF GetVTableGLX
<1>3. CASE DestroyDevice
  <2>1. /\ stage = "destroy_device" /\ UNCHANGED shared_open
        /\ lost' = IF vdp_device = "live" /\ ~IsLoaded("device_destroy")
                   THEN lost \cup {"device"} ELSE lost
    BY <1>3 DEF DestroyDevice, In
  <2>2. vdp_device = "live" => IsLoaded("device_destroy")
    BY <2>1, FunctionsLoaded DEF SetupInv, SetupTyped, DeviceInv
  <2> QED
    BY <2>1, <2>2
<1>4. CASE CloseDisplay
  BY <1>4 DEF CloseDisplay, Closes
<1>5. ASSUME UNCHANGED <<lost, shared_open>> PROVE NothingLeftBehind'
  BY <1>5
<1>6. ASSUME \/ BeginInitialize \/ OpenDisplay \/ CreateDevice \/ GateInit
             \/ CheckVersion \/ CreateHeap \/ BeginTerminate \/ DestroyHeap
      PROVE  UNCHANGED <<lost, shared_open>>
  BY <1>6 DEF BeginInitialize, OpenDisplay, CreateDevice, GateInit,
     CheckVersion, CreateHeap, BeginTerminate, DestroyHeap
<1>7. ASSUME NEW h, CreateObject(h) \/ DestroyObject(h)
      PROVE  UNCHANGED <<lost, shared_open>>
  BY <1>7 DEF CreateObject, DestroyObject
<1>8. ASSUME NEW c, NEW list, CreateConfig(c, list) PROVE UNCHANGED <<lost, shared_open>>
  BY <1>8 DEF CreateConfig
<1>9. ASSUME NEW c, DestroyConfig(c) PROVE UNCHANGED <<lost, shared_open>>
  BY <1>9 DEF DestroyConfig
<1>10. ASSUME UNCHANGED driverVars PROVE UNCHANGED <<lost, shared_open>>
  BY <1>10 DEF driverVars
<1> QED
  BY <1>1, <1>2, <1>3, <1>4, <1>5, <1>6, <1>7, <1>8, <1>9, <1>10 DEF DriverNext

(* Wherever vaInitialize fails and after vaTerminate, the X connection of  *)
(* the driver is closed and the application's is not, the device is gone,  *)
(* and so are all heaps, with what their buffers and mixers own; provided  *)
(* VDPAU has device_destroy and there is memory for the GLX functions.     *)
THEOREM DriverLeavesNothing ==
  ASSUME "device_destroy" \notin Failing, "vtable" \notin Failing
  PROVE  DriverSpec => []NothingLeftBehind
<1>1. DriverInit => NothingLeftBehind
  BY DEF DriverInit, NothingLeftBehind
<1>2. DriverInv /\ NothingLeftBehind /\ [DriverNext]_driverVars
        => NothingLeftBehind'
  BY ReleaseStep, DriverAssumption
<1> QED
  BY <1>1, <1>2, DriverInvariant, PTL DEF DriverSpec

(* Whatever step vaTerminate is reached from, the device is destroyed      *)
(* after all heaps and before the driver's X connection is closed.         *)
THEOREM DriverTeardownOrder ==
  ASSUME "vtable" \notin Failing
  PROVE  DriverSpec => TeardownOrder
<1> DEFINE Ordered ==
      /\ (vdp_device = "live" /\ vdp_device' # "live") =>
           \A h \in Heaps : heap[h] = NONE
      /\ (vdp_dpy = "own" /\ vdp_dpy' # "own") => vdp_device # "live"
<1>1. DriverInv /\ [DriverNext]_driverVars => [Ordered]_driverVars
  <2> SUFFICES ASSUME DriverInv, [DriverNext]_driverVars PROVE [Ordered]_driverVars
    OBVIOUS
  <2>1. CASE DestroyDevice
    <3>1. stage = "destroy_device" /\ UNCHANGED vdp_dpy
      BY <2>1 DEF DestroyDevice, In
    <3>2. \A h \in Heaps : heap[h] = NONE
      BY <3>1 DEF DriverInv, HeapsInv, Closing
    <3> QED
      BY <3>1, <3>2
  <2>2. CASE CloseDisplay \/ FreeDriver
    <3>1. stage \in {"close", "free"}
      BY <2>2 DEF CloseDisplay, FreeDriver, In
    <3>2. vdp_device # "live"
      BY <3>1 DEF DriverInv, SetupInv, DeviceInv
    <3> QED
      BY <3>2
  <2>3. CASE OpenDisplay \/ CreateDevice
    <3>1. stage \in {"open", "device"}
      BY <2>3 DEF OpenDisplay, CreateDevice, In
    <3>2. vdp_device = "zero"
      BY <3>1 DEF DriverInv, SetupInv, DeviceInv
    <3> QED
      BY <3>2
  <2>4. CASE GetVTableGLX
    <3>1. PICK ok \in Outcomes("vtable") :
            IF ok THEN /\ GoTo("ready", 0)
                       /\ UNCHANGED <<setupVars, objectVars, lost>>
            ELSE Forgotten
      BY <2>4 DEF GetVTableGLX
    <3>2. ok = TRUE
      BY OutcomeCases
    <3> QED
      BY <3>1, <3>2 DEF setupVars
  <2>5. ASSUME UNCHANGED <<vdp_dpy, vdp_device>> PROVE Ordered
    BY <2>5
  <2>6. ASSUME BeginInitialize \/ GateInit \/ CheckVersion \/ CreateHeap
               \/ BeginTerminate \/ DestroyHeap
        PROVE  UNCHANGED <<vdp_dpy, vdp_device>>
    BY <2>6 DEF BeginInitialize, GateInit, CheckVersion, CreateHeap,
       BeginTerminate, DestroyHeap, setupVars
  <2>7. ASSUME NEW h, CreateObject(h) \/ DestroyObject(h)
        PROVE  UNCHANGED <<vdp_dpy, vdp_device>>
    BY <2>7 DEF CreateObject, DestroyObject, setupVars
  <2>8. ASSUME NEW c, NEW list, CreateConfig(c, list) \/ DestroyConfig(c)
        PROVE  UNCHANGED <<vdp_dpy, vdp_device>>
    BY <2>8 DEF CreateConfig, DestroyConfig, setupVars
  <2>9. ASSUME NEW c, DestroyConfig(c) PROVE UNCHANGED <<vdp_dpy, vdp_device>>
    BY <2>9 DEF DestroyConfig, setupVars
  <2> QED
    BY <2>1, <2>2, <2>3, <2>4, <2>5, <2>6, <2>7, <2>8, <2>9 DEF DriverNext
<1> QED
  BY <1>1, DriverInvariant, PTL DEF DriverSpec, TeardownOrder
=============================================================================
