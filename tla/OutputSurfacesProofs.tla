-------------------------- MODULE OutputSurfacesProofs --------------------------
(***************************************************************************)
(* Theorems about OutputSurfaces, for any number of surfaces, drawables    *)
(* and output surfaces.  That a drawable has one output surface holds for  *)
(* any number of threads, although another thread may fill in or free      *)
(* objects while this one walks over the heap.                             *)
(***************************************************************************)
EXTENDS OutputSurfaces, FiniteSetTheorems, SequenceTheorems, WellFoundedInduction,
        TLAPS

(* What is used of the constants throughout.                               *)
LEMMA Constants ==
  /\ HeapSize \in Nat /\ MaxLost \in Nat /\ NONE \notin Seq(OutputIds)
  /\ UserOf \in [Drawables -> Threads]
BY OutputAssumption

USE Constants DEF OutputIds

Putting == {"search", "ref", "allocate", "create", "append", "use"}
Tasks == [surface : Surfaces, drawable : Drawables \cup {NONE}, output : OutputIds \cup {0}]
Fields == [refcount : Int, drawable : Drawables \cup {NONE}, flip_queue : BOOLEAN]

(* Types; another thread may count a reference down to less than nothing.  *)
Typed ==
  /\ in_use \subseteq OutputIds
  /\ out \in [OutputIds -> Fields]
  /\ outputs \in [Surfaces -> Seq(OutputIds) \cup {NONE}]
  /\ freed \subseteq Surfaces /\ user \in [Surfaces -> Threads \cup {NONE}]
  /\ pc \in [Threads -> Labels]
  /\ job \in [Threads -> Tasks \cup {NONE}]
  /\ lost \in [OutputIds -> 0..MaxLost] /\ fault \in {"none", "assert", "null"}

(* A thread works on its own surfaces and puts on its own drawables.       *)
WorksOnOwn(t) ==
  /\ job[t] \in Tasks
  /\ IsSurface(job[t].surface) /\ user[job[t].surface] = t
  /\ pc[t] \in Putting => job[t].drawable \in Drawables /\ UserOf[job[t].drawable] = t
  /\ pc[t] \notin {"search", "allocate", "unref"} => job[t].output \in OutputIds
Working == \A t \in Threads : pc[t] # "idle" => WorksOnOwn(t)

(* The walk has not passed an output surface of its drawable, and at its   *)
(* end there is none.                                                      *)
Fits(t, o) == Initialised(o) /\ out[o].drawable = job[t].drawable
NonePassed ==
  \A t \in Threads, o \in OutputIds :
    Fits(t, o) => /\ pc[t] = "search" => job[t].output < o
                  /\ pc[t] \notin {"allocate", "create"}

(* The inductive invariant.                                                *)
WalkInv == Typed /\ Working /\ NonePassed /\ OneOutputPerDrawable

(***************************************************************************)
(* Initially there is no output surface.                                   *)
(***************************************************************************)
LEMMA WalkInit == Init => WalkInv
<1> SUFFICES ASSUME Init PROVE WalkInv
  OBVIOUS
<1>1. /\ outputs \in [Surfaces -> Seq(OutputIds) \cup {NONE}]
      /\ out \in [OutputIds -> Fields] /\ lost \in [OutputIds -> 0..MaxLost]
  BY DEF Init, Fields
<1>2. Typed
  BY <1>1 DEF Init, Typed, Labels
<1>3. Working /\ NonePassed /\ OneOutputPerDrawable
  BY DEF Init, Working, NonePassed, OneOutputPerDrawable, Fits, Initialised
<1> QED
  BY <1>2, <1>3 DEF WalkInv

(* Assignments to a field of an output surface.                            *)
LEMMA FieldsKept ==
  ASSUME out \in [OutputIds -> Fields], NEW o \in OutputIds
  PROVE  /\ [out EXCEPT ![o].refcount = @ + 1] \in [OutputIds -> Fields]
         /\ [out EXCEPT ![o].refcount = @ - 1] \in [OutputIds -> Fields]
         /\ [out EXCEPT ![o].flip_queue = FALSE] \in [OutputIds -> Fields]
<1>1. out[o] \in Fields
  OBVIOUS
<1>2. \A r \in Fields : /\ [r EXCEPT !.refcount = @ + 1] \in Fields
                       /\ [r EXCEPT !.refcount = @ - 1] \in Fields
  BY DEF Fields
<1>3. \A r \in Fields : [r EXCEPT !.flip_queue = FALSE] \in Fields
  BY DEF Fields
<1> QED
  BY <1>1, <1>2, <1>3

(***************************************************************************)
(* Every step keeps types, and each thread to what is its own.             *)
(***************************************************************************)
LEMMA TypedStep ==
  ASSUME Typed, Working, [Next]_vars
  PROVE  Typed' /\ Working'
<1> USE DEF Typed, Working, WorksOnOwn
<1>1. ASSUME NEW t \in Threads, NEW s \in Surfaces, CreateSurface(t, s)
      PROVE  Typed' /\ Working'
  BY <1>1 DEF CreateSurface, objectVars, IsSurface, Idle
<1>2. ASSUME NEW t \in Threads, NEW s \in Surfaces, DestroySurface(t, s)
      PROVE  Typed' /\ Working'
  BY <1>2 DEF DestroySurface, objectVars, IsSurface, Idle, GoTo, Labels, Tasks, Putting
<1>3. ASSUME NEW t \in Threads, NEW s \in Surfaces, NEW d \in Drawables, PutSurface(t, s, d)
      PROVE  Typed' /\ Working'
  BY <1>3 DEF PutSurface, objectVars, IsSurface, Idle, GoTo, Labels, Tasks, Putting, Looked, Range
<1>4. ASSUME NEW t \in Threads, Search(t) PROVE Typed' /\ Working'
  <2>1. /\ pc[t] = "search" /\ job[t] \in Tasks
        /\ UNCHANGED <<in_use, out, outputs, freed, user, lost, fault>>
    BY <1>4 DEF Search, At, objectVars
  <2>2. CASE GoTo(t, "allocate") /\ UNCHANGED job
    BY <2>1, <2>2 DEF GoTo, Labels, Putting, IsSurface
  <2>3. CASE \E o \in OutputIds : Has(t, o) /\ (GoTo(t, "ref") \/ GoTo(t, "search"))
    <3> PICK o \in OutputIds : Has(t, o) /\ (GoTo(t, "ref") \/ GoTo(t, "search"))
      BY <2>3
    <3>1. /\ job' \in [Threads -> Tasks \cup {NONE}] /\ job'[t] \in Tasks
          /\ job'[t].surface = job[t].surface /\ job'[t].drawable = job[t].drawable
          /\ job'[t].output = o /\ \A u \in Threads : u # t => job'[u] = job[u]
      BY <2>1 DEF Has, Tasks
    <3>2. /\ pc' \in [Threads -> Labels] /\ pc'[t] \in {"ref", "search"}
          /\ \A u \in Threads : u # t => pc'[u] = pc[u]
      BY DEF GoTo, Labels
    <3>3. Typed'
      BY <2>1, <3>1, <3>2
    <3>4. WorksOnOwn(t)'
      BY <2>1, <3>1, <3>2 DEF Putting, IsSurface
    <3>5. \A u \in Threads : u # t /\ pc'[u] # "idle" => WorksOnOwn(u)'
      BY <2>1, <3>1, <3>2 DEF IsSurface
    <3> QED
      BY <3>3, <3>4, <3>5
  <2> QED
    BY <1>4, <2>2, <2>3 DEF Search, Following
<1>5. ASSUME NEW t \in Threads, Ref(t) PROVE Typed' /\ Working'
  <2>1. /\ pc[t] = "ref" /\ job[t] \in Tasks /\ job[t].output \in OutputIds
        /\ UNCHANGED <<in_use, outputs, user, job, lost, freed, fault>>
        /\ pc' = [pc EXCEPT ![t] = "append"]
    BY <1>5 DEF Ref, At, GoTo
  <2>2. out' \in [OutputIds -> Fields]
    BY <1>5, <2>1, FieldsKept DEF Ref, RefCount
  <2> QED
    BY <2>1, <2>2 DEF Labels, Putting, IsSurface
<1>6. ASSUME NEW t \in Threads, Allocate(t) PROVE Typed' /\ Working'
  <2> PICK o \in OutputIds \ in_use : in_use' = in_use \cup {o} /\ Has(t, o)
    BY <1>6 DEF Allocate
  <2>1. /\ pc[t] = "allocate" /\ job[t] \in Tasks
        /\ UNCHANGED <<out, outputs, user, lost, freed, fault>>
        /\ pc' = [pc EXCEPT ![t] = "create"]
    BY <1>6 DEF Allocate, At, GoTo
  <2>2. /\ job' \in [Threads -> Tasks \cup {NONE}] /\ job'[t] \in Tasks
        /\ job'[t].surface = job[t].surface /\ job'[t].drawable = job[t].drawable
        /\ job'[t].output = o /\ \A u \in Threads : u # t => job'[u] = job[u]
    BY <2>1 DEF Has, Tasks
  <2>3. Typed'
    BY <2>1, <2>2 DEF Labels
  <2>4. Working'
    BY <2>1, <2>2 DEF Putting, IsSurface
  <2> QED
    BY <2>3, <2>4
<1>7. ASSUME NEW t \in Threads, AllocateFails(t) PROVE Typed' /\ Working'
  BY <1>7 DEF AllocateFails, At, Return, GoTo, objectVars, Labels, IsSurface
<1>8. ASSUME NEW t \in Threads, Create(t) PROVE Typed' /\ Working'
  BY <1>8 DEF Create, At, GoTo, Labels, Tasks, Fields, Putting, IsSurface
<1>9. ASSUME NEW t \in Threads, CreateFails(t) PROVE Typed' /\ Working'
  <2>1. /\ pc[t] = "create" /\ job[t] \in Tasks /\ job[t].output \in OutputIds
        /\ UNCHANGED <<outputs, user, lost, freed, fault>> /\ in_use' \subseteq in_use
        /\ pc' = [pc EXCEPT ![t] = "idle"] /\ job' = [job EXCEPT ![t] = NONE]
    BY <1>9 DEF CreateFails, Freed, At, Return, GoTo
  <2>2. out' \in [OutputIds -> Fields]
    BY <1>9, <2>1 DEF CreateFails, Tasks, Fields
  <2> QED
    BY <2>1, <2>2 DEF Labels, Putting, IsSurface
<1>10. ASSUME NEW t \in Threads, Append1(t) PROVE Typed' /\ Working'
  <2> DEFINE s == job[t].surface
  <2>1. /\ pc[t] = "append" /\ job[t] \in Tasks /\ job[t].output \in OutputIds
        /\ UNCHANGED <<in_use, out, user, job, lost, freed, fault>>
        /\ pc' = [pc EXCEPT ![t] = "use"]
        /\ outputs' = [outputs EXCEPT ![s] = Append(@, job[t].output)]
    BY <1>10 DEF Append1, At, GoTo, objectVars
  <2>2. s \in Surfaces /\ outputs[s] \in Seq(OutputIds)
    <3>1. s \in Surfaces /\ IsSurface(s)
      BY <2>1 DEF Tasks
    <3> QED
      BY <3>1 DEF IsSurface
  <2>3. Append(outputs[s], job[t].output) \in Seq(OutputIds)
    BY <2>1, <2>2
  <2>4. outputs' \in [Surfaces -> Seq(OutputIds) \cup {NONE}]
        /\ \A x \in Surfaces : IsSurface(x) => IsSurface(x)'
    BY <2>1, <2>2, <2>3 DEF IsSurface
  <2> QED
    BY <2>1, <2>4 DEF Labels, Putting, Tasks
<1>11. ASSUME NEW t \in Threads, AppendFails(t) PROVE Typed' /\ Working'
  <2> DEFINE s == job[t].surface
  <2>1. /\ pc[t] = "append" /\ job[t] \in Tasks /\ s \in Surfaces
        /\ UNCHANGED <<in_use, out, user, fault>>
        /\ pc' = [pc EXCEPT ![t] = "idle"] /\ job' = [job EXCEPT ![t] = NONE]
        /\ outputs' = [outputs EXCEPT ![s] = <<>>]
        /\ freed' = IF outputs[s] = <<>> THEN freed ELSE freed \cup {s}
    BY <1>11 DEF AppendFails, At, Return, GoTo, objectVars, Tasks
  <2>2. lost' \in [OutputIds -> 0..MaxLost]
    <3>1. /\ lost' = [o \in OutputIds |-> IF o \in Dropped(t) THEN lost[o] + 1 ELSE lost[o]]
          /\ \A o \in Dropped(t) : lost[o] < MaxLost
      BY <1>11 DEF AppendFails
    <3>2. lost \in [OutputIds -> 0..MaxLost]
      OBVIOUS
    <3>3. \A o \in OutputIds : lost[o] \in 0..MaxLost
      BY <3>2
    <3>4. \A o \in OutputIds :
            (IF o \in Dropped(t) THEN lost[o] + 1 ELSE lost[o]) \in 0..MaxLost
      BY ONLY <3>1, <3>3, Constants
    <3> QED
      BY ONLY <3>1, <3>4
  <2>3. freed' \subseteq Surfaces
    BY <2>1
  <2>4. outputs' \in [Surfaces -> Seq(OutputIds) \cup {NONE}]
        /\ \A x \in Surfaces : IsSurface(x) => IsSurface(x)'
    <3>1. <<>> \in Seq(OutputIds) /\ <<>> # NONE
      <4>1. <<>> \in Seq(OutputIds)
        OBVIOUS
      <4> QED
        BY <4>1, Constants
    <3>2. /\ outputs \in [Surfaces -> Seq(OutputIds) \cup {NONE}] /\ s \in Surfaces
          /\ outputs' = [outputs EXCEPT ![s] = <<>>]
      BY <2>1
    <3>3. /\ outputs' \in [Surfaces -> Seq(OutputIds) \cup {NONE}]
          /\ \A x \in Surfaces : outputs'[x] = IF x = s THEN <<>> ELSE outputs[x]
      BY ONLY <3>1, <3>2
    <3> QED
      BY <3>1, <3>3 DEF IsSurface
  <2> QED
    BY <2>1, <2>2, <2>3, <2>4 DEF Labels, Putting, Tasks
<1>12. ASSUME NEW t \in Threads, Use(t) PROVE Typed' /\ Working'
  BY <1>12 DEF Use, At, Return, GoTo, objectVars, Labels, Tasks, Fields, Putting, IsSurface
<1>13. ASSUME NEW t \in Threads, Unref(t) PROVE Typed' /\ Working'
  <2> DEFINE s == job[t].surface
  <2>1. /\ pc[t] = "unref" /\ job[t] \in Tasks /\ UNCHANGED <<in_use, lost, freed, fault>>
        /\ s \in Surfaces /\ outputs[s] \in Seq(OutputIds) /\ user[s] = t
    BY <1>13 DEF Unref, At, IsSurface, Tasks
  <2>2. CASE outputs[s] = <<>>
    <3>1. /\ outputs' = [outputs EXCEPT ![s] = NONE] /\ user' = [user EXCEPT ![s] = NONE]
          /\ pc' = [pc EXCEPT ![t] = "idle"] /\ job' = [job EXCEPT ![t] = NONE]
          /\ UNCHANGED out
      BY <1>13, <2>2 DEF Unref, Return, GoTo
    <3>2. \A u \in Threads : u # t /\ pc[u] # "idle" => job[u].surface # s
      BY <2>1
    <3> QED
      BY <2>1, <3>1, <3>2 DEF Labels, Tasks, IsSurface
  <2>3. CASE outputs[s] # <<>>
    <3> DEFINE o == Head(outputs[s])
    <3>1. /\ out' = [out EXCEPT ![o].refcount = @ - 1]
          /\ outputs' = [outputs EXCEPT ![s] = Tail(@)]
          /\ job' = [job EXCEPT ![t].output = o]
          /\ pc' = [pc EXCEPT ![t] = "destroy"] /\ UNCHANGED user
      BY <1>13, <2>3 DEF Unref, GoTo, Has
    <3>2. o \in OutputIds /\ Tail(outputs[s]) \in Seq(OutputIds)
      BY <2>1, <2>3, HeadTailProperties
    <3> HIDE DEF o
    <3>3. out' \in [OutputIds -> Fields]
      BY <3>1, <3>2, FieldsKept
    <3>4. outputs' \in [Surfaces -> Seq(OutputIds) \cup {NONE}]
          /\ \A x \in Surfaces : IsSurface(x) => IsSurface(x)'
      BY <2>1, <3>1, <3>2 DEF IsSurface
    <3>5. /\ job' \in [Threads -> Tasks \cup {NONE}] /\ job'[t] \in Tasks
          /\ job'[t].surface = s /\ job'[t].drawable = job[t].drawable
          /\ job'[t].output = o /\ \A u \in Threads : u # t => job'[u] = job[u]
      BY <2>1, <3>1, <3>2 DEF Tasks
    <3>6. /\ pc' \in [Threads -> Labels] /\ pc'[t] = "destroy"
          /\ \A u \in Threads : u # t => pc'[u] = pc[u]
      BY <3>1 DEF Labels
    <3>7. Typed'
      BY <2>1, <3>1, <3>3, <3>4, <3>5, <3>6
    <3>8. WorksOnOwn(t)'
      BY <2>1, <3>1, <3>2, <3>4, <3>5, <3>6 DEF Putting
    <3>9. \A u \in Threads : u # t /\ pc'[u] # "idle" => WorksOnOwn(u)'
      BY <3>1, <3>4, <3>5, <3>6 DEF Tasks
    <3> QED
      BY <3>7, <3>8, <3>9
  <2> QED
    BY <2>2, <2>3
<1>14. ASSUME NEW t \in Threads, Destroy(t) PROVE Typed' /\ Working'
  <2>1. /\ pc[t] = "destroy" /\ job[t] \in Tasks /\ job[t].output \in OutputIds
        /\ UNCHANGED <<outputs, freed, user, job, lost>> /\ in_use' \subseteq in_use
        /\ pc' = [pc EXCEPT ![t] = "unref"]
    BY <1>14 DEF Destroy, At, GoTo, objectVars
  <2>2. out' \in [OutputIds -> Fields]
    <3>1. \/ out' = [out EXCEPT ![job[t].output].flip_queue = FALSE]
          \/ out' = out
      BY <1>14 DEF Destroy, objectVars
    <3>2. CASE out' = [out EXCEPT ![job[t].output].flip_queue = FALSE]
      BY <2>1, <3>2, FieldsKept
    <3>3. CASE out' = out
      BY <3>3
    <3> QED
      BY <3>1, <3>2, <3>3
  <2>3. fault' \in {"none", "assert", "null"}
    BY <1>14 DEF Destroy
  <2> QED
    BY <2>1, <2>2, <2>3 DEF Labels, Putting, IsSurface
<1>15. ASSUME NEW t \in Threads, NEW s \in Surfaces, TouchFreed(t, s)
      PROVE  Typed' /\ Working'
  BY <1>15 DEF TouchFreed, objectVars, IsSurface
<1>16. CASE UNCHANGED vars
  BY <1>16 DEF vars, objectVars, IsSurface
<1> QED
  BY <1>1, <1>2, <1>3, <1>4, <1>5, <1>6, <1>7, <1>8, <1>9, <1>10, <1>11, <1>12, <1>13, <1>14,
     <1>15, <1>16 DEF Next, Step

(***************************************************************************)
(* Steps that initialise no output surface and rename none.                *)
(***************************************************************************)
Unpassed(t) ==
  \A o \in OutputIds :
    Fits(t, o) => /\ pc[t] = "search" => job[t].output < o
                  /\ pc[t] \notin {"allocate", "create"}
Quiet(t) ==
  /\ \A o \in OutputIds : Initialised(o)' =>
       Initialised(o) /\ out'[o].drawable = out[o].drawable
  /\ \A u \in Threads : u # t => pc'[u] = pc[u] /\ job'[u] = job[u]

(* Steps that initialise no output surface keep all that was seen.         *)
LEMMA NothingInitialised ==
  ASSUME WalkInv, Typed', Working', NEW t \in Threads, Quiet(t), Unpassed(t)'
  PROVE  WalkInv'
<1>1. OneOutputPerDrawable'
  BY DEF Quiet, WalkInv, OneOutputPerDrawable
<1>2. NonePassed'
  <2> SUFFICES ASSUME NEW u \in Threads, u # t, NEW o \in OutputIds, Fits(u, o)'
               PROVE  /\ pc'[u] = "search" => job'[u].output < o
                      /\ pc'[u] \notin {"allocate", "create"}
    BY DEF NonePassed, Unpassed
  <2>1. Fits(u, o)
    BY DEF Fits, Quiet
  <2> QED
    BY <2>1 DEF WalkInv, NonePassed, Quiet
<1> QED
  BY <1>1, <1>2 DEF WalkInv

(***************************************************************************)
(* The step that initialises one: the thread has seen the whole heap since *)
(* another thread could make one for this drawable, which none does.       *)
(***************************************************************************)
LEMMA CreateKeepsWalk ==
  ASSUME WalkInv, Typed', Working', NEW t \in Threads, Create(t)
  PROVE  WalkInv'
<1> DEFINE p == job[t].output
           d == job[t].drawable
<1>1. /\ pc[t] = "create" /\ p \in OutputIds /\ UNCHANGED <<in_use, job>>
      /\ out' = [out EXCEPT ![p] = [refcount |-> 1, drawable |-> d, flip_queue |-> TRUE]]
      /\ pc' = [pc EXCEPT ![t] = "append"] /\ d \in Drawables /\ UserOf[d] = t
  BY DEF Create, At, GoTo, WalkInv, Working, WorksOnOwn, Putting
<1>2. /\ pc'[t] = "append" /\ \A u \in Threads : u # t => pc'[u] = pc[u]
      /\ out'[p].drawable = d /\ \A o \in OutputIds : o # p => out'[o] = out[o]
  BY <1>1 DEF WalkInv, Typed
<1>3. \A o \in OutputIds : o # p /\ Initialised(o)' => Initialised(o)
  BY <1>1, <1>2 DEF Initialised
<1>4. \A o \in OutputIds : Initialised(o) => out[o].drawable # d
  BY <1>1 DEF WalkInv, NonePassed, Fits
<1>5. OneOutputPerDrawable'
  BY <1>2, <1>3, <1>4 DEF WalkInv, OneOutputPerDrawable
<1>6. NonePassed'
  <2> SUFFICES ASSUME NEW u \in Threads, u # t, NEW o \in OutputIds, Fits(u, o)',
                      pc'[u] \in {"search", "allocate", "create"}
               PROVE  /\ pc'[u] = "search" => job'[u].output < o
                      /\ pc'[u] \notin {"allocate", "create"}
    BY <1>2 DEF NonePassed
  <2>1. UserOf[job[u].drawable] = u
    BY <1>1, <1>2 DEF WalkInv, Working, WorksOnOwn, Putting
  <2>2. o # p
    BY <1>1, <1>2, <2>1 DEF Fits
  <2>3. Fits(u, o)
    BY <1>1, <1>2, <1>3, <2>2 DEF Fits
  <2> QED
    BY <1>1, <1>2, <2>3 DEF WalkInv, NonePassed
<1> QED
  BY <1>5, <1>6 DEF WalkInv

(***************************************************************************)
(* object_heap_next returns an object as long as one is left.              *)
(***************************************************************************)
LEMMA LeastExists ==
  ASSUME NEW T, T \subseteq Nat, T # {}
  PROVE  \E x \in T : \A y \in T : x <= y
<1> DEFINE R == OpToRel(<, Nat)
<1>1. IsWellFoundedOn(R, Nat)
  BY NatLessThanWellFounded
<1>2. \A x, y \in Nat : x < y => <<x, y>> \in R
  BY DEF OpToRel
<1> HIDE DEF R
<1>3. PICK x \in T : \A y \in T : ~ (<<y, x>> \in R)
  BY <1>1, WFMin
<1>4. \A y \in T : ~(y < x)
  BY <1>2, <1>3
<1>5. \A y \in T : x <= y
  BY <1>4
<1> QED
  BY <1>5

(* And so does the walk, after the object it is at.                        *)
LEMMA FollowingExists ==
  ASSUME in_use \subseteq OutputIds, NEW o \in OutputIds \cup {0}, NEW q \in in_use, o < q
  PROVE  Following(o) # {}
<1> DEFINE later == {p \in in_use : p > o}
<1>1. in_use \subseteq Nat /\ o \in Nat
  OBVIOUS
<1>2. later \subseteq Nat
  BY <1>1
<1>3. q \in later
  BY <1>1
<1>4. PICK p \in later : \A y \in later : p <= y
  <2> HIDE DEF later
  <2> QED
    BY <1>2, <1>3, LeastExists
<1> QED
  BY <1>4 DEF Following

(***************************************************************************)
(* A step of the walk passes no output surface of the drawable.            *)
(***************************************************************************)
LEMMA SearchKeepsWalk ==
  ASSUME WalkInv, Typed', Working', NEW t \in Threads, Search(t)
  PROVE  WalkInv'
<1>1. /\ pc[t] = "search" /\ job[t] \in Tasks
      /\ UNCHANGED <<in_use, out>>
  BY DEF Search, At, objectVars, WalkInv, Working, WorksOnOwn
<1>2. /\ pc'[t] # "create" /\ \A u \in Threads : u # t => pc'[u] = pc[u] /\ job'[u] = job[u]
  BY DEF Search, GoTo, Has, WalkInv, Typed
<1>3. \A o \in OutputIds : Initialised(o)' => Initialised(o)
  BY <1>1, <1>2 DEF Initialised
<1>4. ASSUME NEW q \in OutputIds, Fits(t, q)'
      PROVE  /\ pc'[t] = "search" => job'[t].output < q
             /\ pc'[t] \notin {"allocate", "create"}
  <2>1. CASE Following(job[t].output) = {}
    <3>1. pc'[t] = "allocate" /\ UNCHANGED job
      BY <2>1 DEF Search, GoTo, WalkInv, Typed
    <3>2. Fits(t, q) /\ q \in in_use
      BY <1>1, <1>3, <1>4, <3>1 DEF Fits, Initialised
    <3>3. job[t].output < q
      BY <1>1, <3>2 DEF WalkInv, NonePassed
    <3> QED
      BY <1>1, <2>1, <3>2, <3>3, FollowingExists DEF WalkInv, Typed, Tasks
  <2>2. CASE Following(job[t].output) # {}
    <3> PICK o \in Following(job[t].output) :
          /\ Has(t, o)
          /\ GoTo(t, IF out[o].drawable = job[t].drawable THEN "ref" ELSE "search")
      BY <2>2 DEF Search
    <3>1. job'[t].output = o /\ job'[t].drawable = job[t].drawable
      BY <1>1 DEF Has, Tasks, WalkInv, Typed
    <3>2. pc'[t] = IF out[o].drawable = job[t].drawable THEN "ref" ELSE "search"
      BY DEF GoTo, WalkInv, Typed
    <3>3. Fits(t, q) /\ q \in in_use
      BY <1>1, <1>3, <1>4, <3>1 DEF Fits, Initialised
    <3>4. job[t].output < q
      BY <1>1, <3>3 DEF WalkInv, NonePassed
    <3>5. o <= q /\ (pc'[t] = "search" => o # q)
      BY <3>2, <3>3, <3>4 DEF Following, Fits
    <3>6. o \in OutputIds
      BY DEF Following, WalkInv, Typed
    <3> QED
      BY <3>1, <3>2, <3>5, <3>6
  <2> QED
    BY <2>1, <2>2
<1>5. Quiet(t) /\ Unpassed(t)'
  BY <1>1, <1>2, <1>3, <1>4 DEF Quiet, Unpassed
<1> QED
  BY <1>5, NothingInitialised

(***************************************************************************)
(* Every step preserves the invariant of the walk.                         *)
(***************************************************************************)
LEMMA WalkStep ==
  ASSUME WalkInv, [Next]_vars
  PROVE  WalkInv'
<1>1. WalkInv /\ Typed /\ Working /\ Typed' /\ Working'
  BY TypedStep DEF WalkInv
<1>2. ASSUME NEW t \in Threads, NEW s \in Surfaces, CreateSurface(t, s) PROVE WalkInv'
  <2>1. Quiet(t) /\ pc'[t] \notin {"search", "allocate", "create"}
    BY <1>2, <1>1 DEF Quiet, Initialised, Typed, Working, WorksOnOwn, Tasks,
       CreateSurface, objectVars, Idle
  <2> QED
    BY <1>1, <2>1, NothingInitialised DEF Unpassed
<1>3. ASSUME NEW t \in Threads, NEW s \in Surfaces, DestroySurface(t, s) PROVE WalkInv'
  <2>1. Quiet(t) /\ pc'[t] \notin {"search", "allocate", "create"}
    BY <1>3, <1>1 DEF Quiet, Initialised, Typed, Working, WorksOnOwn, Tasks,
       DestroySurface, objectVars, GoTo, Idle
  <2> QED
    BY <1>1, <2>1, NothingInitialised DEF Unpassed
<1>4. ASSUME NEW t \in Threads, NEW s \in Surfaces, NEW d \in Drawables, PutSurface(t, s, d)
      PROVE  WalkInv'
  <2>1. Quiet(t) /\ pc'[t] \in {"search", "use"}
    BY <1>4, <1>1 DEF Quiet, Initialised, Typed, PutSurface, objectVars, GoTo, Idle
  <2>2. pc'[t] = "search" => job'[t].output = 0
    BY <1>4, <1>1 DEF Typed, PutSurface, GoTo, Looked
  <2> QED
    BY <1>1, <2>1, <2>2, NothingInitialised DEF Unpassed
<1>5. ASSUME NEW t \in Threads, Ref(t) PROVE WalkInv'
  <2>1. Quiet(t) /\ pc'[t] \notin {"search", "allocate", "create"}
    BY <1>5, <1>1 DEF Quiet, Initialised, Typed, Working, WorksOnOwn, Tasks,
       Ref, At, GoTo, Fields
  <2> QED
    BY <1>1, <2>1, NothingInitialised DEF Unpassed
<1>6. ASSUME NEW t \in Threads, Allocate(t) PROVE WalkInv'
  <2> PICK o \in OutputIds \ in_use : in_use' = in_use \cup {o} /\ Has(t, o)
    BY <1>6 DEF Allocate
  <2>1. /\ pc[t] = "allocate" /\ pc' = [pc EXCEPT ![t] = "create"] /\ UNCHANGED out
        /\ job[t] \in Tasks
    BY <1>6, <1>1 DEF Allocate, At, GoTo, Working, WorksOnOwn
  <2>2. /\ pc'[t] = "create" /\ job'[t].output = o /\ job'[t].drawable = job[t].drawable
        /\ \A u \in Threads : u # t => pc'[u] = pc[u] /\ job'[u] = job[u]
    BY <1>1, <2>1 DEF Typed, Has, Tasks
  <2>3. \A x \in OutputIds : Initialised(x)' => Initialised(x)
    BY <2>1, <2>2 DEF Initialised
  <2>4. Quiet(t)
    BY <2>1, <2>2, <2>3 DEF Quiet
  <2>5. Unpassed(t)'
    BY <1>1, <2>1, <2>2, <2>3 DEF Unpassed, Fits, WalkInv, NonePassed
  <2> QED
    BY <1>1, <2>4, <2>5, NothingInitialised
<1>7. ASSUME NEW t \in Threads, AllocateFails(t) PROVE WalkInv'
  <2>1. Quiet(t) /\ pc'[t] \notin {"search", "allocate", "create"}
    BY <1>7, <1>1 DEF Quiet, Initialised, Typed, Working, WorksOnOwn, Tasks,
       AllocateFails, At, Return, GoTo, objectVars
  <2> QED
    BY <1>1, <2>1, NothingInitialised DEF Unpassed
<1>8. ASSUME NEW t \in Threads, CreateFails(t) PROVE WalkInv'
  <2> DEFINE p == job[t].output
  <2>1. /\ pc[t] = "create" /\ p \in OutputIds /\ in_use' = in_use \ {p}
        /\ \A o \in OutputIds \ {p} : out'[o] = out[o]
    BY <1>1, <1>8 DEF CreateFails, Freed, At, Typed, Working, WorksOnOwn
  <2>2. /\ pc'[t] = "idle"
        /\ \A u \in Threads : u # t => pc'[u] = pc[u] /\ job'[u] = job[u]
    BY <1>1, <1>8 DEF CreateFails, Return, GoTo, Typed
  <2>3. \A o \in OutputIds : Initialised(o)' => o # p /\ Initialised(o)
    BY <2>1, <2>2 DEF Initialised
  <2>4. Quiet(t)
    BY <2>1, <2>2, <2>3 DEF Quiet
  <2> QED
    BY <1>1, <2>2, <2>4, NothingInitialised DEF Unpassed
<1>9. ASSUME NEW t \in Threads, Append1(t) PROVE WalkInv'
  <2>1. Quiet(t) /\ pc'[t] \notin {"search", "allocate", "create"}
    BY <1>9, <1>1 DEF Quiet, Initialised, Typed, Working, WorksOnOwn, Tasks,
       Append1, At, GoTo, objectVars
  <2> QED
    BY <1>1, <2>1, NothingInitialised DEF Unpassed
<1>10. ASSUME NEW t \in Threads, AppendFails(t) PROVE WalkInv'
  <2>1. Quiet(t) /\ pc'[t] \notin {"search", "allocate", "create"}
    BY <1>10, <1>1 DEF Quiet, Initialised, Typed, Working, WorksOnOwn, Tasks,
       AppendFails, At, Return, GoTo, objectVars
  <2> QED
    BY <1>1, <2>1, NothingInitialised DEF Unpassed
<1>11. ASSUME NEW t \in Threads, Use(t) PROVE WalkInv'
  <2>1. Quiet(t) /\ pc'[t] \notin {"search", "allocate", "create"}
    BY <1>11, <1>1 DEF Quiet, Initialised, Typed, Working, WorksOnOwn, Tasks,
       Use, At, Return, GoTo, objectVars
  <2> QED
    BY <1>1, <2>1, NothingInitialised DEF Unpassed
<1>12. ASSUME NEW t \in Threads, Unref(t) PROVE WalkInv'
  <2>1. /\ pc[t] = "unref" /\ job[t] \in Tasks /\ UNCHANGED in_use
        /\ \A o \in OutputIds : out'[o].drawable = out[o].drawable
    <3>1. pc[t] = "unref" /\ job[t] \in Tasks /\ UNCHANGED in_use
      BY <1>1, <1>12 DEF Unref, At, Working, WorksOnOwn
    <3>2. \/ UNCHANGED out
          \/ out' = [out EXCEPT ![Head(outputs[job[t].surface])].refcount = @ - 1]
      BY <1>12 DEF Unref
    <3>3. \A h, o \in OutputIds : [out EXCEPT ![h].refcount = @ - 1][o].drawable = out[o].drawable
      BY <1>1 DEF Typed, Fields
    <3>4. Head(outputs[job[t].surface]) \in OutputIds \/ UNCHANGED out
      <4>1. CASE outputs[job[t].surface] = <<>>
        BY <1>12, <4>1 DEF Unref
      <4>2. CASE outputs[job[t].surface] # <<>>
        <5>1. job[t].surface \in Surfaces /\ IsSurface(job[t].surface)
          BY <1>1, <3>1 DEF Working, WorksOnOwn, Tasks
        <5>2. outputs[job[t].surface] \in Seq(OutputIds)
          BY <1>1, <5>1 DEF Typed, IsSurface
        <5> QED
          BY <4>2, <5>2, HeadTailProperties
      <4> QED
        BY <4>1, <4>2
    <3> QED
      BY <3>1, <3>2, <3>3, <3>4
  <2>2. /\ pc'[t] \in {"idle", "destroy"}
        /\ \A u \in Threads : u # t => pc'[u] = pc[u] /\ job'[u] = job[u]
    BY <1>1, <1>12 DEF Unref, Typed, Return, GoTo, Has
  <2>3. \A o \in OutputIds : Initialised(o)' => Initialised(o)
    BY <2>1, <2>2 DEF Initialised
  <2>4. Quiet(t) /\ pc'[t] \notin {"search", "allocate", "create"}
    BY <2>1, <2>2, <2>3 DEF Quiet
  <2> QED
    BY <1>1, <2>4, NothingInitialised DEF Unpassed
<1>13. ASSUME NEW t \in Threads, Destroy(t) PROVE WalkInv'
  <2>1. Quiet(t) /\ pc'[t] \notin {"search", "allocate", "create"}
    BY <1>13, <1>1 DEF Quiet, Initialised, Typed, Working, WorksOnOwn, Tasks,
       Destroy, At, GoTo, objectVars, Fields
  <2> QED
    BY <1>1, <2>1, NothingInitialised DEF Unpassed
<1>14. ASSUME NEW t \in Threads, NEW s \in Surfaces, TouchFreed(t, s) PROVE WalkInv'
  BY <1>1, <1>14 DEF WalkInv, NonePassed, OneOutputPerDrawable, Initialised, Fits,
     TouchFreed, objectVars
<1>15. CASE UNCHANGED vars
  BY <1>1, <1>15 DEF WalkInv, NonePassed, OneOutputPerDrawable, Initialised, Fits, vars, objectVars
<1> QED
  BY <1>1, <1>2, <1>3, <1>4, <1>5, <1>6, <1>7, <1>8, <1>9, <1>10, <1>11, <1>12, <1>13, <1>14, <1>15,
     SearchKeepsWalk, CreateKeepsWalk DEF Next, Step
-----------------------------------------------------------------------------
(***************************************************************************)
(* What a thread on its walk over the heap may rely on, although others    *)
(* fill in and free objects meanwhile.                                     *)
(***************************************************************************)
THEOREM WalkIsComplete == Spec => []WalkInv
<1>1. Init => WalkInv
  BY WalkInit
<1>2. WalkInv /\ [Next]_vars => WalkInv'
  BY WalkStep
<1> QED
  BY <1>1, <1>2, PTL DEF Spec

(***************************************************************************)
(* A drawable never gets a second output surface, for any number of        *)
(* threads as long as one thread puts on it.                               *)
(***************************************************************************)
THEOREM OneOutput == Spec => []OneOutputPerDrawable
<1>1. WalkInv => OneOutputPerDrawable
  BY DEF WalkInv
<1> QED
  BY <1>1, WalkIsComplete, PTL
-----------------------------------------------------------------------------
(***************************************************************************)
(* The references to output surfaces, for one thread: nothing in the       *)
(* driver makes counting atomic, so calls have to follow each other.       *)
(***************************************************************************)
Serialised == \A t, u \in Threads : t = u

(* The references to an output surface.                                    *)
Refs(o) == Cardinality(Referring(o)) + Cardinality(Acquired(o)) + lost[o]

(* No surface refers to an output surface twice.                           *)
Distinct ==
  \A s \in Surfaces : IsSurface(s) =>
    \A i, j \in 1..Len(outputs[s]) : outputs[s][i] = outputs[s][j] => i = j

(* An output surface counts its references, and lives as long as it has    *)
(* one or is about to be destroyed.                                        *)
Counted(o) ==
  /\ out[o].refcount >= 0
  /\ Refs(o) > 0 => o \in in_use
  /\ Initialised(o) => /\ out[o].refcount = Refs(o) /\ out[o].flip_queue
                       /\ Refs(o) = 0 => Condemned(o)

(* What the thread knows of the output surface it works on.                *)
AtWork(t) ==
  LET o == job[t].output
      q == outputs[job[t].surface]
  IN  /\ pc[t] \in {"search", "allocate", "ref"} =>
           \A i \in 1..Len(q) : out[q[i]].drawable # job[t].drawable
      /\ pc[t] \in {"create", "append"} => \A i \in 1..Len(q) : q[i] # o
      /\ pc[t] = "create" => Refs(o) = 0
      /\ pc[t] \in {"ref", "append", "use"} => out[o].drawable = job[t].drawable
      /\ pc[t] \in {"ref", "create", "append", "use", "destroy"} => o \in in_use

(* The inductive invariant.                                                *)
CountInv ==
  /\ Typed /\ Working /\ Distinct /\ fault # "assert"
  /\ \A o \in OutputIds : Counted(o)
  /\ \A t \in Threads : AtWork(t)

(***************************************************************************)
(* Cardinalities: of sets of surfaces, and of sets of the one thread.      *)
(***************************************************************************)
LEMMA OneThread ==
  ASSUME Serialised, NEW t \in Threads, NEW T, T \subseteq Threads
  PROVE  Cardinality(T) = IF t \in T THEN 1 ELSE 0
<1>1. CASE t \in T
  <2>1. T = {t}
    BY <1>1 DEF Serialised
  <2> QED
    BY <2>1, FS_Singleton
<1>2. CASE t \notin T
  <2>1. T = {}
    BY <1>2 DEF Serialised
  <2> QED
    BY <2>1, FS_EmptySet
<1> QED
  BY <1>1, <1>2

(* Surfaces are finitely many, so those that refer can be counted.         *)
LEMMA SomeSurfaces ==
  ASSUME NEW T, T \subseteq Surfaces
  PROVE  IsFiniteSet(T) /\ Cardinality(T) \in Nat
BY OutputAssumption, FS_Subset, FS_CardinalityType

Holds(t, o) == pc[t] = "append" /\ job[t].output = o

(* The references now and after a step, with the call's own as 0 or 1.     *)
LEMMA RefsOfOne ==
  ASSUME Serialised, NEW t \in Threads, NEW o
  PROVE  /\ Refs(o) = Cardinality(Referring(o)) + (IF Holds(t, o) THEN 1 ELSE 0) + lost[o]
         /\ Refs(o)' = Cardinality(Referring(o)') + (IF Holds(t, o)' THEN 1 ELSE 0) + lost'[o]
         /\ Cardinality(Referring(o)) \in Nat /\ Cardinality(Referring(o)') \in Nat
         /\ IsFiniteSet(Referring(o)) /\ IsFiniteSet(Referring(o)')
<1>1. /\ Acquired(o) \subseteq Threads /\ (t \in Acquired(o) <=> Holds(t, o))
      /\ Acquired(o)' \subseteq Threads /\ (t \in Acquired(o)' <=> Holds(t, o)')
  BY DEF Acquired, Holds
<1>2. /\ Cardinality(Acquired(o)) = IF Holds(t, o) THEN 1 ELSE 0
      /\ Cardinality(Acquired(o)') = IF Holds(t, o)' THEN 1 ELSE 0
  BY <1>1, OneThread
<1>3. Referring(o) \subseteq Surfaces /\ Referring(o)' \subseteq Surfaces
  BY DEF Referring
<1>4. /\ Cardinality(Referring(o)) \in Nat /\ Cardinality(Referring(o)') \in Nat
      /\ IsFiniteSet(Referring(o)) /\ IsFiniteSet(Referring(o)')
  BY <1>3, SomeSurfaces
<1> QED
  BY <1>2, <1>4 DEF Refs

(* Without a reference, no surface refers.                                 *)
LEMMA RefsIsNat ==
  ASSUME Serialised, Typed, NEW t \in Threads, NEW o \in OutputIds
  PROVE  Refs(o) \in Nat /\ (Refs(o) = 0 => Referring(o) = {})
<1>1. lost[o] \in Nat
  BY DEF Typed
<1>2. Cardinality(Referring(o)) = 0 => Referring(o) = {}
  BY RefsOfOne, FS_EmptySet
<1> QED
  BY <1>1, <1>2, RefsOfOne

(* The references of a surface, by position.                               *)
LEMMA ReferringIs ==
  ASSUME Typed, NEW s \in Surfaces, IsSurface(s), NEW o
  PROVE  s \in Referring(o) <=> \E i \in 1..Len(outputs[s]) : outputs[s][i] = o
<1>1. outputs[s] \in Seq(OutputIds)
  BY DEF Typed, IsSurface
<1>2. DOMAIN outputs[s] = 1..Len(outputs[s])
  BY <1>1
<1> QED
  BY <1>2 DEF Referring, Range

(***************************************************************************)
(* Initially there are no output surfaces.                                 *)
(***************************************************************************)
LEMMA CountInit == Serialised /\ Init => CountInv
<1> SUFFICES ASSUME Serialised, Init PROVE CountInv
  OBVIOUS
<1>1. Typed /\ Working
  BY WalkInit DEF WalkInv
<1>2. Distinct /\ fault # "assert" /\ \A t \in Threads : AtWork(t)
  BY DEF Init, Distinct, IsSurface, AtWork
<1>3. ASSUME NEW o \in OutputIds PROVE Counted(o)
  <2>1. Referring(o) = {} /\ Acquired(o) = {} /\ lost[o] = 0 /\ out[o].refcount = 0
    BY DEF Init, Referring, Acquired, IsSurface
  <2>2. Refs(o) = 0
    BY <2>1, FS_EmptySet DEF Refs
  <2> QED
    BY <2>1, <2>2 DEF Counted, Initialised, Init
<1> QED
  BY <1>1, <1>2, <1>3 DEF CountInv

(***************************************************************************)
(* Steps that do not touch references.                                     *)
(***************************************************************************)
LEMMA CountFrame ==
  ASSUME Serialised, CountInv, NEW t \in Threads,
         UNCHANGED <<in_use, out, lost>>,
         \A o \in OutputIds : Referring(o)' = Referring(o),
         pc[t] \notin {"create", "append", "destroy"}, pc'[t] \notin {"create", "append"}
  PROVE  \A o \in OutputIds : Counted(o)'
<1> SUFFICES ASSUME NEW o \in OutputIds PROVE Counted(o)'
  OBVIOUS
<1>1. Refs(o)' = Refs(o)
  BY RefsOfOne DEF Holds
<1>2. Initialised(o)' <=> Initialised(o)
  BY DEF Initialised, Serialised
<1>3. ~Condemned(o)
  BY DEF Condemned, Serialised
<1> QED
  BY <1>1, <1>2, <1>3 DEF Counted, CountInv

(* What one thread has to show in the next state.                          *)
LEMMA Together ==
  ASSUME Serialised, Typed', Working', NEW t \in Threads, AtWork(t)', Distinct', fault' # "assert",
         \A o \in OutputIds : Counted(o)'
  PROVE  CountInv'
BY DEF Serialised, CountInv

(* Where outputs is the same, so is what it says of references.            *)
LEMMA OutputsFrame ==
  ASSUME UNCHANGED outputs
  PROVE  (Distinct => Distinct') /\ \A o : Referring(o)' = Referring(o)
BY DEF Distinct, IsSurface, Referring

(***************************************************************************)
(* vaCreateSurfaces, and the beginnings of vaDestroySurfaces and           *)
(* vaPutSurface.                                                           *)
(***************************************************************************)
LEMMA CallsCount ==
  ASSUME Serialised, CountInv, Typed', Working', NEW t \in Threads, NEW s \in Surfaces,
         \/ CreateSurface(t, s) \/ DestroySurface(t, s)
         \/ \E d \in Drawables : PutSurface(t, s, d)
  PROVE  CountInv'
<1> USE DEF CountInv
<1>1. CASE CreateSurface(t, s)
  <2>1. /\ UNCHANGED <<in_use, out, lost, pc, job, fault>> /\ pc[t] = "idle"
        /\ outputs[s] = NONE /\ outputs' = [outputs EXCEPT ![s] = <<>>]
    BY <1>1 DEF CreateSurface, objectVars, Idle, IsSurface
  <2>2. outputs'[s] = <<>> /\ \A x \in Surfaces : x # s => outputs'[x] = outputs[x]
    BY <2>1 DEF Typed
  <2>3. \A o \in OutputIds : Referring(o)' = Referring(o)
    BY <2>1, <2>2 DEF Referring, Range, IsSurface
  <2>4. Distinct'
    BY <2>2 DEF Distinct, IsSurface
  <2>5. AtWork(t)'
    BY <2>1 DEF AtWork
  <2> QED
    BY <2>1, <2>3, <2>4, <2>5, CountFrame, Together
<1>2. CASE DestroySurface(t, s)
  <2>1. /\ UNCHANGED <<in_use, out, lost, outputs, fault>>
        /\ pc[t] = "idle" /\ pc'[t] = "unref"
    BY <1>2 DEF DestroySurface, objectVars, Idle, GoTo, Typed
  <2>2. AtWork(t)'
    BY <2>1 DEF AtWork
  <2> QED
    BY <2>1, <2>2, OutputsFrame, CountFrame, Together
<1>3. ASSUME NEW d \in Drawables, PutSurface(t, s, d) PROVE CountInv'
  <2> PICK o \in IF Looked(s, d) = {} THEN {0} ELSE Looked(s, d) :
        /\ job' = [job EXCEPT ![t] = [surface |-> s, drawable |-> d, output |-> o]]
        /\ GoTo(t, IF o = 0 THEN "search" ELSE "use")
    BY <1>3 DEF PutSurface
  <2>1. /\ UNCHANGED <<in_use, out, lost, outputs, fault>>
        /\ pc[t] = "idle" /\ pc'[t] = (IF o = 0 THEN "search" ELSE "use")
        /\ job'[t] = [surface |-> s, drawable |-> d, output |-> o]
        /\ IsSurface(s)
    BY <1>3 DEF PutSurface, objectVars, Idle, GoTo, Typed
  <2>2. outputs[s] \in Seq(OutputIds) /\ DOMAIN outputs[s] = 1..Len(outputs[s])
    BY <2>1 DEF Typed, IsSurface
  <2>3. CASE Looked(s, d) = {}
    <3>1. pc'[t] = "search"
      BY <2>1, <2>3
    <3>2. \A i \in 1..Len(outputs[s]) : out[outputs[s][i]].drawable # d
      BY <2>2, <2>3 DEF Looked, Range
    <3>3. AtWork(t)'
      BY <2>1, <3>1, <3>2 DEF AtWork
    <3> QED
      BY <2>1, <3>1, <3>3, OutputsFrame, CountFrame, Together
  <2>4. CASE Looked(s, d) # {}
    <3>1. o \in Range(outputs[s]) /\ out[o].drawable = d
      BY <2>4 DEF Looked
    <3>2. o \in OutputIds /\ o # 0 /\ s \in Referring(o)
      <4>1. PICK i \in 1..Len(outputs[s]) : outputs[s][i] = o
        BY <2>2, <3>1 DEF Range
      <4>2. o \in OutputIds
        BY <2>2, <4>1, ElementOfSeq
      <4>3. Typed /\ IsSurface(s)
        BY <2>1
      <4>4. s \in Referring(o)
        BY <4>1, <4>3, ReferringIs
      <4> QED
        BY <4>2, <4>4
    <3>3. o \in in_use
      BY <3>2, RefsIsNat DEF Counted
    <3>4. pc'[t] = "use" /\ AtWork(t)'
      BY <2>1, <3>1, <3>2, <3>3 DEF AtWork
    <3> QED
      BY <2>1, <3>4, OutputsFrame, CountFrame, Together
  <2> QED
    BY <2>3, <2>4
<1> QED
  BY <1>1, <1>2, <1>3

(***************************************************************************)
(* output_surface_ensure up to the reference.                              *)
(***************************************************************************)
LEMMA SearchCounts ==
  ASSUME Serialised, CountInv, Typed', Working', NEW t \in Threads, Search(t)
  PROVE  CountInv'
<1> USE DEF CountInv
<1>1. /\ UNCHANGED <<in_use, out, lost, outputs, fault>>
      /\ pc[t] = "search" /\ job[t] \in Tasks
  BY DEF Search, At, objectVars, Working, WorksOnOwn
<1>2. /\ pc'[t] \in {"search", "allocate", "ref"}
      /\ job'[t].surface = job[t].surface /\ job'[t].drawable = job[t].drawable
      /\ pc'[t] = "ref" => /\ job'[t].output \in in_use
                           /\ out[job'[t].output].drawable = job[t].drawable
  <2>1. CASE Following(job[t].output) = {}
    BY <1>1, <2>1 DEF Search, GoTo, Typed
  <2>2. CASE Following(job[t].output) # {}
    <3> PICK o \in Following(job[t].output) :
          /\ Has(t, o)
          /\ GoTo(t, IF out[o].drawable = job[t].drawable THEN "ref" ELSE "search")
      BY <2>2 DEF Search
    <3>1. job'[t].output = o /\ job'[t].drawable = job[t].drawable
          /\ job'[t].surface = job[t].surface
      BY <1>1 DEF Has, Tasks, Typed
    <3>2. pc'[t] = IF out[o].drawable = job[t].drawable THEN "ref" ELSE "search"
      BY DEF GoTo, Typed
    <3> QED
      BY <3>1, <3>2 DEF Following
  <2> QED
    BY <2>1, <2>2
<1>3. AtWork(t)'
  BY <1>1, <1>2 DEF AtWork
<1> QED
  BY <1>1, <1>2, <1>3, OutputsFrame, CountFrame, Together

(* The reference of an output surface that was found is counted.           *)
LEMMA RefCounts ==
  ASSUME Serialised, CountInv, Typed', Working', NEW t \in Threads, Ref(t)
  PROVE  CountInv'
<1> USE DEF CountInv
<1> DEFINE p == job[t].output
<1>1. /\ UNCHANGED <<in_use, lost, outputs, job, fault>> /\ p \in OutputIds
      /\ pc[t] = "ref" /\ pc'[t] = "append"
      /\ out' = [out EXCEPT ![p].refcount = @ + 1]
  BY DEF Ref, RefCount, At, GoTo, Typed, Working, WorksOnOwn
<1>2. /\ \A o \in OutputIds : out'[o].drawable = out[o].drawable
                              /\ out'[o].flip_queue = out[o].flip_queue
      /\ out'[p].refcount = out[p].refcount + 1 /\ out[p].refcount \in Int
      /\ \A o \in OutputIds : o # p => out'[o] = out[o]
  BY <1>1 DEF Typed, Fields
<1>3. p \in in_use /\ \A i \in 1..Len(outputs[job[t].surface]) : outputs[job[t].surface][i] # p
  BY <1>1 DEF AtWork
<1>4. AtWork(t)'
  <2>1. out[p].drawable = job[t].drawable
    BY <1>1 DEF AtWork
  <2> QED
    BY <1>1, <1>2, <1>3, <2>1 DEF AtWork
<1>5. ASSUME NEW o \in OutputIds PROVE Counted(o)'
  <2>1. Refs(o)' = Refs(o) + (IF o = p THEN 1 ELSE 0) /\ Refs(o) \in Nat
    <3>1. /\ Referring(o)' = Referring(o) /\ lost'[o] = lost[o] /\ lost[o] \in Nat
          /\ ~Holds(t, o) /\ (Holds(t, o)' <=> o = p)
      BY <1>1, OutputsFrame DEF Holds, Typed
    <3>2. /\ Refs(o) = Cardinality(Referring(o)) + lost[o]
          /\ Refs(o)' = Cardinality(Referring(o)) + (IF o = p THEN 1 ELSE 0) + lost[o]
          /\ Cardinality(Referring(o)) \in Nat /\ lost[o] \in Nat
      <4> HIDE DEF CountInv, p
      <4> QED
        BY <3>1, RefsOfOne
    <3> QED
      BY ONLY <3>2
  <2>2. /\ Initialised(o)' <=> o \in in_use
        /\ Initialised(o) <=> o \in in_use
        /\ ~Condemned(o)
    BY <1>1 DEF Initialised, Condemned, Serialised
  <2> QED
    BY <1>1, <1>2, <1>3, <2>1, <2>2 DEF Counted
<1> QED
  BY <1>1, <1>4, <1>5, OutputsFrame, Together

(***************************************************************************)
(* output_surface_create: until it is filled in, an object has no          *)
(* reference.                                                              *)
(***************************************************************************)
LEMMA AllocateCounts ==
  ASSUME Serialised, CountInv, Typed', Working', NEW t \in Threads,
         Allocate(t) \/ AllocateFails(t)
  PROVE  CountInv'
<1> USE DEF CountInv
<1>1. CASE AllocateFails(t)
  <2>1. /\ UNCHANGED <<in_use, out, lost, outputs, fault>>
        /\ pc[t] = "allocate" /\ pc'[t] = "idle"
    BY <1>1 DEF AllocateFails, At, Return, GoTo, objectVars, Typed
  <2>2. AtWork(t)'
    BY <2>1 DEF AtWork
  <2> QED
    BY <2>1, <2>2, OutputsFrame, CountFrame, Together
<1>2. CASE Allocate(t)
  <2> PICK p \in OutputIds \ in_use : in_use' = in_use \cup {p} /\ Has(t, p)
    BY <1>2 DEF Allocate
  <2>1. /\ UNCHANGED <<out, lost, outputs, fault>>
        /\ pc[t] = "allocate" /\ pc'[t] = "create" /\ job[t] \in Tasks
    BY <1>2 DEF Allocate, At, GoTo, Typed, Working, WorksOnOwn
  <2>2. job'[t].output = p /\ job'[t].surface = job[t].surface
    BY <2>1 DEF Has, Tasks, Typed
  <2>3. \A o \in OutputIds : Refs(o)' = Refs(o) /\ Refs(o) \in Nat
    BY <2>1, RefsOfOne, RefsIsNat, OutputsFrame DEF Holds
  <2>4. Refs(p) = 0 /\ Referring(p) = {}
    BY <2>3, RefsIsNat DEF Counted
  <2>5. AtWork(t)'
    <3>1. job[t].surface \in Surfaces /\ IsSurface(job[t].surface)
      BY <2>1 DEF Working, WorksOnOwn, Tasks
    <3>2. \A i \in 1..Len(outputs[job[t].surface]) : outputs[job[t].surface][i] # p
      BY <2>4, <3>1, ReferringIs
    <3> QED
      BY <2>1, <2>2, <2>3, <2>4, <3>2 DEF AtWork
  <2>6. ASSUME NEW o \in OutputIds PROVE Counted(o)'
    <3>1. Initialised(o)' => o # p /\ Initialised(o) /\ ~Condemned(o)
      BY <2>1, <2>2 DEF Initialised, Condemned, Serialised
    <3> QED
      BY <2>1, <2>3, <3>1 DEF Counted
  <2> QED
    BY <2>1, <2>5, <2>6, OutputsFrame, Together
<1> QED
  BY <1>1, <1>2

(* The first reference is the one of the call that made it.                *)
LEMMA CreateCounts ==
  ASSUME Serialised, CountInv, Typed', Working', NEW t \in Threads, Create(t)
  PROVE  CountInv'
<1> USE DEF CountInv
<1> DEFINE p == job[t].output
<1>1. /\ UNCHANGED <<in_use, lost, outputs, job, fault>> /\ p \in OutputIds
      /\ pc[t] = "create" /\ pc'[t] = "append"
      /\ out' = [out EXCEPT ![p] =
                   [refcount |-> 1, drawable |-> job[t].drawable, flip_queue |-> TRUE]]
  BY DEF Create, At, GoTo, Typed, Working, WorksOnOwn
<1>2. /\ out'[p] = [refcount |-> 1, drawable |-> job[t].drawable, flip_queue |-> TRUE]
      /\ \A o \in OutputIds : o # p => out'[o] = out[o]
  BY <1>1 DEF Typed
<1>3. /\ p \in in_use /\ Refs(p) = 0
      /\ \A i \in 1..Len(outputs[job[t].surface]) : outputs[job[t].surface][i] # p
  BY <1>1 DEF AtWork
<1>4. AtWork(t)'
  BY <1>1, <1>2, <1>3 DEF AtWork
<1>5. ASSUME NEW o \in OutputIds PROVE Counted(o)'
  <2>1. Refs(o)' = Refs(o) + (IF o = p THEN 1 ELSE 0) /\ Refs(o) \in Nat
    <3>1. /\ Referring(o)' = Referring(o) /\ lost'[o] = lost[o] /\ lost[o] \in Nat
          /\ ~Holds(t, o) /\ (Holds(t, o)' <=> o = p)
      BY <1>1, OutputsFrame DEF Holds, Typed
    <3>2. /\ Refs(o) = Cardinality(Referring(o)) + lost[o]
          /\ Refs(o)' = Cardinality(Referring(o)) + (IF o = p THEN 1 ELSE 0) + lost[o]
          /\ Cardinality(Referring(o)) \in Nat /\ lost[o] \in Nat
      <4> HIDE DEF CountInv, p
      <4> QED
        BY <3>1, RefsOfOne
    <3> QED
      BY ONLY <3>2
  <2>2. /\ Initialised(o)' => o \in in_use
        /\ o # p => (Initialised(o) <=> o \in in_use)
        /\ ~Condemned(o)
    BY <1>1 DEF Initialised, Condemned, Serialised
  <2> QED
    BY <1>1, <1>2, <1>3, <2>1, <2>2 DEF Counted
<1> QED
  BY <1>1, <1>4, <1>5, OutputsFrame, Together

(* An object that could not be filled in has no reference either.          *)
LEMMA CreateFailsCounts ==
  ASSUME Serialised, CountInv, Typed', Working', NEW t \in Threads, CreateFails(t)
  PROVE  CountInv'
<1> USE DEF CountInv
<1> DEFINE p == job[t].output
<1>1. /\ UNCHANGED <<lost, outputs, fault>> /\ p \in OutputIds
      /\ pc[t] = "create" /\ pc'[t] = "idle" /\ in_use' = in_use \ {p}
      /\ out'[p].refcount = 1 /\ \A o \in OutputIds : o # p => out'[o] = out[o]
  BY DEF CreateFails, Freed, At, Return, GoTo, Typed, Working, WorksOnOwn
<1>2. Refs(p) = 0
  BY <1>1 DEF AtWork
<1>3. AtWork(t)'
  BY <1>1 DEF AtWork
<1>4. ASSUME NEW o \in OutputIds PROVE Counted(o)'
  <2>1. Refs(o)' = Refs(o)
    BY <1>1, RefsOfOne, OutputsFrame DEF Holds
  <2>2. /\ Initialised(o)' => o # p /\ Initialised(o)
        /\ ~Condemned(o)
    BY <1>1 DEF Initialised, Condemned, Serialised
  <2> QED
    BY <1>1, <1>2, <2>1, <2>2 DEF Counted
<1> QED
  BY <1>1, <1>3, <1>4, OutputsFrame, Together

(* The positions of a sequence to which one element is appended.           *)
LEMMA LastOne == \A n \in Nat : \A i \in 1..(n + 1) : i \in 1..n \/ i = n + 1
OBVIOUS

(* A surface that is given an output surface refers to it as well.         *)
LEMMA AppendRefers ==
  ASSUME Typed, NEW s \in Surfaces, IsSurface(s), NEW p \in OutputIds,
         outputs' = [outputs EXCEPT ![s] = Append(@, p)]
  PROVE  \A o, x : x \in Referring(o)' <=> (x \in Referring(o) \/ (x = s /\ o = p))
<1> PICK q : q = outputs[s]
  OBVIOUS
<1>1. q \in Seq(OutputIds)
  BY DEF Typed, IsSurface
<1>2. /\ outputs'[s] = Append(q, p)
      /\ \A x \in Surfaces : x # s => outputs'[x] = outputs[x]
  BY DEF Typed
<1> PICK z : z = Append(q, p)
  OBVIOUS
<1>3. /\ outputs'[s] = z /\ z \in Seq(OutputIds) /\ Len(z) = Len(q) + 1
      /\ z[Len(q) + 1] = p
      /\ \A i \in 1..Len(q) : z[i] = q[i]
      /\ Len(q) \in Nat
  BY <1>1, <1>2, AppendProperties
<1>4. IsSurface(s)'
  BY <1>3 DEF IsSurface
<1>5. \A o : (s \in Referring(o)') <=> \E i \in 1..Len(outputs'[s]) : outputs'[s][i] = o
  <2>1. DOMAIN z = 1..Len(z)
    BY <1>3, LenProperties
  <2> QED
    BY <1>3, <1>4, <2>1 DEF Referring, Range
<1>6. \A o : (s \in Referring(o)') <=> (s \in Referring(o) \/ o = p)
  <2>1. \A o : s \in Referring(o) <=> \E i \in 1..Len(q) : q[i] = o
    BY ReferringIs
  <2>2. \A o : (\E i \in 1..(Len(q) + 1) : z[i] = o)
               <=> ((\E i \in 1..Len(q) : q[i] = o) \/ o = p)
    <3>1. \A i \in 1..(Len(q) + 1) : i \in 1..Len(q) \/ i = Len(q) + 1
      BY <1>3, LastOne
    <3>2. \A i \in 1..Len(q) : i \in 1..(Len(q) + 1)
      BY <1>3
    <3>3. Len(q) + 1 \in 1..(Len(q) + 1)
      BY <1>3
    <3> QED
      BY <1>3, <3>1, <3>2, <3>3
  <2>3. outputs'[s] = z /\ Len(outputs'[s]) = Len(q) + 1
    BY <1>3
  <2> QED
    BY <1>5, <2>1, <2>2, <2>3
<1>7. \A o, x : x # s => (x \in Referring(o)' <=> x \in Referring(o))
  BY <1>2 DEF Referring, IsSurface
<1> QED
  BY <1>6, <1>7

(***************************************************************************)
(* The reference passes from the call to the surface, or is lost.          *)
(***************************************************************************)
LEMMA AppendCounts ==
  ASSUME Serialised, CountInv, Typed', Working', NEW t \in Threads, Append1(t)
  PROVE  CountInv'
<1> USE DEF CountInv
<1>0. job[t].output \in OutputIds /\ job[t].surface \in Surfaces
  BY DEF Append1, At, Working, WorksOnOwn, Tasks
<1> PICK p \in OutputIds, s \in Surfaces : p = job[t].output /\ s = job[t].surface
  BY <1>0
<1> PICK q : q = outputs[s]
  OBVIOUS
<1>1. /\ UNCHANGED <<in_use, out, lost, job, fault>> /\ p \in OutputIds
      /\ s \in Surfaces /\ IsSurface(s)
      /\ pc[t] = "append" /\ pc'[t] = "use"
      /\ outputs' = [outputs EXCEPT ![s] = Append(q, p)]
  BY DEF Append1, At, GoTo, objectVars, Typed, Working, WorksOnOwn, Tasks
<1>2. q \in Seq(OutputIds)
  BY <1>1 DEF Typed, IsSurface
<1>3. /\ p \in in_use /\ out[p].drawable = job[t].drawable
      /\ \A i \in 1..Len(q) : q[i] # p
  BY <1>1 DEF AtWork
<1>4. /\ outputs'[s] = Append(q, p)
      /\ \A x \in Surfaces : x # s => outputs'[x] = outputs[x]
  BY <1>1 DEF Typed
<1> PICK z : z = Append(q, p)
  OBVIOUS
<1>5. /\ outputs'[s] = z /\ z \in Seq(OutputIds) /\ Len(z) = Len(q) + 1
      /\ z[Len(q) + 1] = p
      /\ \A i \in 1..Len(q) : z[i] = q[i]
      /\ Len(q) \in Nat
  BY <1>2, <1>4, AppendProperties
<1>6. AtWork(t)'
  BY <1>1, <1>3 DEF AtWork
<1>7. Distinct'
  <2>1. \A i, j \in 1..Len(q) : q[i] = q[j] => i = j
    BY <1>1 DEF Distinct
  <2>2. \A i, j \in 1..(Len(q) + 1) : z[i] = z[j] => i = j
    <3>1. \A i \in 1..(Len(q) + 1) : i \in 1..Len(q) \/ i = Len(q) + 1
      BY <1>5, LastOne
    <3> QED
      BY <1>3, <1>5, <2>1, <3>1
  <2>3. \A i, j \in 1..Len(outputs'[s]) : outputs'[s][i] = outputs'[s][j] => i = j
    <3>1. outputs'[s] = z /\ Len(outputs'[s]) = Len(q) + 1
      BY <1>4, <1>5
    <3> QED
      BY <2>2, <3>1
  <2>4. \A x \in Surfaces : x # s /\ outputs'[x] # NONE =>
          \A i, j \in 1..Len(outputs'[x]) : outputs'[x][i] = outputs'[x][j] => i = j
    BY <1>4 DEF Distinct, IsSurface
  <2> QED
    BY <2>3, <2>4 DEF Distinct, IsSurface
<1>8. /\ s \notin Referring(p) /\ Referring(p)' = Referring(p) \cup {s}
      /\ \A o \in OutputIds : o # p => Referring(o)' = Referring(o)
  <2>1. Typed /\ IsSurface(s) /\ outputs' = [outputs EXCEPT ![s] = Append(@, p)]
    BY <1>1
  <2>2. s \notin Referring(p)
    <3>1. s \in Referring(p) <=> \E i \in 1..Len(outputs[s]) : outputs[s][i] = p
      <4> HIDE DEF CountInv
      <4> QED
        BY <2>1, ReferringIs
    <3> QED
      BY <1>3, <3>1
  <2>3. \A o, x : x \in Referring(o)' <=> (x \in Referring(o) \/ (x = s /\ o = p))
    <3> HIDE DEF CountInv
    <3> QED
      BY <2>1, AppendRefers
  <2>4. Referring(p)' = Referring(p) \cup {s}
    BY <2>3
  <2>5. ASSUME NEW o \in OutputIds, o # p PROVE Referring(o)' = Referring(o)
    <3>1. \A x : x \in Referring(o)' <=> x \in Referring(o)
      BY <2>5, <2>3
    <3> QED
      BY <3>1
  <2> QED
    BY <2>2, <2>4, <2>5
<1>9. ASSUME NEW o \in OutputIds PROVE Counted(o)'
  <2>1. Refs(o)' = Refs(o)
    <3>1. ~Holds(t, o)' /\ (Holds(t, o) <=> o = p) /\ lost'[o] = lost[o]
      BY <1>1 DEF Holds
    <3>2. Cardinality(Referring(o)') = Cardinality(Referring(o)) + (IF o = p THEN 1 ELSE 0)
      <4>1. CASE o = p
        <5>1. IsFiniteSet(Referring(p))
          BY RefsOfOne
        <5>2. Cardinality(Referring(p) \cup {s}) = Cardinality(Referring(p)) + 1
          BY <1>8, <5>1, FS_AddElement
        <5> QED
          BY <1>8, <4>1, <5>2
      <4>2. CASE o # p
        <5>1. Cardinality(Referring(o)) \in Nat
          BY RefsOfOne
        <5> QED
          BY <1>8, <4>2, <5>1
      <4> QED
        BY <4>1, <4>2
    <3>3. lost[o] \in Nat
      BY DEF Typed
    <3> QED
      BY <3>1, <3>2, <3>3, RefsOfOne
  <2>2. (Initialised(o)' <=> Initialised(o)) /\ ~Condemned(o)
    BY <1>1 DEF Initialised, Condemned, Serialised
  <2> QED
    BY <1>1, <2>1, <2>2 DEF Counted
<1> QED
  BY <1>1, <1>6, <1>7, <1>9, Together

(* A surface whose array could not grow refers to nothing any more.        *)
LEMMA FreedRefers ==
  ASSUME Typed, NEW s \in Surfaces, IsSurface(s), outputs' = [outputs EXCEPT ![s] = <<>>]
  PROVE  \A o, x : x \in Referring(o)' <=> (x \in Referring(o) /\ x # s)
<1>1. outputs'[s] = <<>> /\ \A x \in Surfaces : x # s => outputs'[x] = outputs[x]
  BY DEF Typed
<1>2. \A o : s \notin Referring(o)'
  BY <1>1 DEF Referring, Range
<1>3. \A o, x : x # s => (x \in Referring(o)' <=> x \in Referring(o))
  BY <1>1 DEF Referring, IsSurface
<1> QED
  BY <1>2, <1>3

(* What the failure changes: the references of the array and of the call   *)
(* are lost.                                                               *)
LEMMA FailureLoses ==
  ASSUME Typed, Working, NEW t \in Threads, AppendFails(t)
  PROVE  \E p \in OutputIds, s \in Surfaces :
           /\ p = job[t].output /\ s = job[t].surface /\ IsSurface(s)
           /\ pc[t] = "append" /\ pc'[t] = "idle" /\ UNCHANGED <<in_use, out, fault>>
           /\ outputs' = [outputs EXCEPT ![s] = <<>>]
           /\ \A o \in OutputIds :
                lost'[o] = IF o = p \/ s \in Referring(o) THEN lost[o] + 1 ELSE lost[o]
           /\ \A o, x : x \in Referring(o)' <=> (x \in Referring(o) /\ x # s)
<1>1. /\ job[t].output \in OutputIds /\ job[t].surface \in Surfaces
      /\ IsSurface(job[t].surface) /\ pc[t] = "append" /\ pc'[t] = "idle"
      /\ UNCHANGED <<in_use, out, fault>>
      /\ outputs' = [outputs EXCEPT ![job[t].surface] = <<>>]
      /\ lost' = [o \in OutputIds |-> IF o \in Dropped(t) THEN lost[o] + 1 ELSE lost[o]]
  BY DEF AppendFails, At, Return, GoTo, objectVars, Typed, Working, WorksOnOwn, Tasks
<1> PICK p \in OutputIds, s \in Surfaces : p = job[t].output /\ s = job[t].surface
  BY <1>1
<1>2. \A o \in OutputIds : o \in Dropped(t) <=> (o = p \/ s \in Referring(o))
  BY <1>1 DEF Dropped, Referring
<1>3. \A o, x : x \in Referring(o)' <=> (x \in Referring(o) /\ x # s)
  BY <1>1, FreedRefers
<1>4. \A o \in OutputIds :
        lost'[o] = IF o = p \/ s \in Referring(o) THEN lost[o] + 1 ELSE lost[o]
  BY <1>1, <1>2
<1> QED
  BY <1>1, <1>3, <1>4

(* Without memory for the array, its references are lost but counted.      *)
LEMMA AppendFailsCounts ==
  ASSUME Serialised, CountInv, Typed', Working', NEW t \in Threads, AppendFails(t)
  PROVE  CountInv'
<1>0. Typed /\ Working
  BY DEF CountInv
<1> PICK p \in OutputIds, s \in Surfaces :
      /\ p = job[t].output /\ s = job[t].surface /\ IsSurface(s)
      /\ pc[t] = "append" /\ pc'[t] = "idle" /\ UNCHANGED <<in_use, out, fault>>
      /\ outputs' = [outputs EXCEPT ![s] = <<>>]
      /\ \A o \in OutputIds :
           lost'[o] = IF o = p \/ s \in Referring(o) THEN lost[o] + 1 ELSE lost[o]
      /\ \A o, x : x \in Referring(o)' <=> (x \in Referring(o) /\ x # s)
  BY <1>0, FailureLoses
<1>1. AtWork(t)'
  BY DEF AtWork
<1>2. Distinct'
  <2>1. outputs'[s] = <<>> /\ \A x \in Surfaces : x # s => outputs'[x] = outputs[x]
    BY <1>0 DEF Typed
  <2> QED
    BY <2>1 DEF CountInv, Distinct, IsSurface
<1>3. s \notin Referring(p)
  <2>1. \A i \in 1..Len(outputs[s]) : outputs[s][i] # p
    BY DEF CountInv, AtWork
  <2> QED
    BY <1>0, <2>1, ReferringIs
<1>4. ASSUME NEW o \in OutputIds PROVE Counted(o)'
  <2>1. Refs(o)' = Refs(o)
    <3>1. /\ lost[o] \in Nat /\ ~Holds(t, o)' /\ (Holds(t, o) <=> o = p)
          /\ lost'[o] = IF o = p \/ s \in Referring(o) THEN lost[o] + 1 ELSE lost[o]
      BY <1>0 DEF Holds, Typed
    <3>2. /\ Refs(o) = Cardinality(Referring(o)) + (IF o = p THEN 1 ELSE 0) + lost[o]
          /\ Refs(o)' = Cardinality(Referring(o)') + lost'[o]
          /\ Cardinality(Referring(o)) \in Nat /\ Cardinality(Referring(o)') \in Nat
          /\ IsFiniteSet(Referring(o))
      <4>1. lost'[o] \in Nat
        BY <3>1
      <4> QED
        BY <3>1, <4>1, RefsOfOne
    <3>3. CASE s \in Referring(o)
      <4>1. Referring(o)' = Referring(o) \ {s}
        <5>1. \A x : x \in Referring(o)' <=> x \in Referring(o) \ {s}
          OBVIOUS
        <5> QED
          BY <5>1
      <4>2. Cardinality(Referring(o) \ {s}) = Cardinality(Referring(o)) - 1
        BY <3>2, <3>3, FS_RemoveElement
      <4>3. o # p
        BY <1>3, <3>3
      <4> QED
        BY <3>1, <3>2, <3>3, <4>1, <4>2, <4>3
    <3>4. CASE s \notin Referring(o)
      <4>1. Referring(o)' = Referring(o)
        <5>1. \A x : x \in Referring(o)' <=> x \in Referring(o)
          BY <3>4
        <5> QED
          BY <5>1
      <4> QED
        BY <3>1, <3>2, <3>4, <4>1
    <3> QED
      BY <3>3, <3>4
  <2>2. (Initialised(o)' <=> Initialised(o)) /\ ~Condemned(o)
    BY DEF Initialised, Condemned, Serialised
  <2> QED
    BY <2>1, <2>2 DEF CountInv, Counted
<1>5. fault' # "assert"
  BY DEF CountInv
<1> QED
  BY <1>1, <1>2, <1>4, <1>5, Together

(* Presenting leaves references alone.                                     *)
LEMMA UseCounts ==
  ASSUME Serialised, CountInv, Typed', Working', NEW t \in Threads, Use(t)
  PROVE  CountInv'
<1> USE DEF CountInv
<1> DEFINE p == job[t].output
<1>1. /\ UNCHANGED <<in_use, out, lost, outputs>> /\ p \in OutputIds
      /\ pc[t] = "use" /\ pc'[t] = "idle"
      /\ fault' = IF out[p].drawable = job[t].drawable /\ out[p].flip_queue
                  THEN fault ELSE "assert"
  BY DEF Use, At, Return, GoTo, objectVars, Typed, Working, WorksOnOwn
<1>2. p \in in_use /\ out[p].drawable = job[t].drawable
  BY <1>1 DEF AtWork
<1>3. Initialised(p)
  BY <1>1, <1>2 DEF Initialised, Serialised
<1>4. fault' # "assert"
  <2>1. out[p].flip_queue
    BY <1>1, <1>3 DEF Counted
  <2> QED
    BY <1>1, <1>2, <2>1
<1>5. AtWork(t)'
  BY <1>1 DEF AtWork
<1> QED
  BY <1>1, <1>4, <1>5, OutputsFrame, CountFrame, Together

(* A surface that gives up the first of its output surfaces refers to the  *)
(* others only.                                                            *)
LEMMA TailRefers ==
  ASSUME Typed, Distinct, NEW s \in Surfaces, IsSurface(s), outputs[s] # <<>>,
         outputs' = [outputs EXCEPT ![s] = Tail(@)]
  PROVE  /\ Head(outputs[s]) \in OutputIds /\ s \in Referring(Head(outputs[s]))
         /\ \A o, x : x \in Referring(o)'
                     <=> (x \in Referring(o) /\ ~(x = s /\ o = Head(outputs[s])))
<1> PICK q : q = outputs[s]
  OBVIOUS
<1> PICK h : h = Head(q)
  OBVIOUS
<1>1. q \in Seq(OutputIds) /\ q # <<>>
  BY DEF Typed, IsSurface
<1>2. /\ h \in OutputIds /\ Tail(q) \in Seq(OutputIds) /\ Len(Tail(q)) = Len(q) - 1
      /\ \A i \in 1..Len(Tail(q)) : Tail(q)[i] = q[i + 1]
      /\ h = q[1] /\ Len(q) \in Nat \ {0}
  <2>1. h = q[1] /\ Len(q) \in Nat
    BY <1>1
  <2>2. Len(q) # 0
    BY <1>1, EmptySeq
  <2>3. /\ h \in OutputIds /\ Tail(q) \in Seq(OutputIds) /\ Len(Tail(q)) = Len(q) - 1
        /\ \A i \in 1..Len(Tail(q)) : Tail(q)[i] = q[i + 1]
    BY <1>1, HeadTailProperties
  <2> QED
    BY <2>1, <2>2, <2>3
<1>3. outputs'[s] = Tail(q) /\ \A x \in Surfaces : x # s => outputs'[x] = outputs[x]
  BY DEF Typed
<1>4. \A i, j \in 1..Len(q) : q[i] = q[j] => i = j
  BY DEF Distinct
<1>5. \A o : s \in Referring(o) <=> \E i \in 1..Len(q) : q[i] = o
  BY ReferringIs
<1>6. \A o : s \in Referring(o)' <=> \E i \in 1..Len(Tail(q)) : Tail(q)[i] = o
  <2>1. outputs'[s] # NONE /\ DOMAIN Tail(q) = 1..Len(Tail(q))
    <3>1. Tail(q) # NONE
      BY <1>2, Constants
    <3>2. DOMAIN Tail(q) = 1..Len(Tail(q))
      BY <1>2, LenProperties
    <3> QED
      BY <1>3, <3>1, <3>2
  <2> QED
    BY <1>3, <2>1 DEF Referring, Range, IsSurface
<1>7. \A o : (\E i \in 1..Len(q) : q[i] = o)
             <=> ((\E i \in 1..Len(Tail(q)) : Tail(q)[i] = o) \/ o = h)
  <2>1. \A i \in 1..Len(q) : i = 1 \/ (i - 1 \in 1..Len(Tail(q)) /\ Tail(q)[i - 1] = q[i])
    BY <1>2
  <2>2. \A i \in 1..Len(Tail(q)) : i + 1 \in 1..Len(q) /\ Tail(q)[i] = q[i + 1]
    BY <1>2
  <2>3. 1 \in 1..Len(q) /\ q[1] = h
    BY <1>2
  <2> QED
    BY <2>1, <2>2, <2>3
<1>8. \A i \in 1..Len(Tail(q)) : Tail(q)[i] # h
  <2> SUFFICES ASSUME NEW i \in 1..Len(Tail(q)), Tail(q)[i] = h PROVE FALSE
    OBVIOUS
  <2>1. i + 1 \in 1..Len(q) /\ 1 \in 1..Len(q) /\ q[i + 1] = q[1] /\ i + 1 # 1
    BY <1>2
  <2> QED
    BY <1>4, <2>1
<1>9. \A o : s \in Referring(o)' <=> (s \in Referring(o) /\ o # h)
  BY <1>5, <1>6, <1>7, <1>8
<1>10. \A o, x : x # s => (x \in Referring(o)' <=> x \in Referring(o))
  BY <1>3 DEF Referring, IsSurface
<1>11. s \in Referring(h)
  BY <1>5, <1>7
<1> QED
  BY <1>2, <1>9, <1>10, <1>11

(***************************************************************************)
(* vaDestroySurfaces gives back one reference after the other.             *)
(***************************************************************************)
LEMMA UnrefCounts ==
  ASSUME Serialised, CountInv, Typed', Working', NEW t \in Threads, Unref(t)
  PROVE  CountInv'
<1> USE DEF CountInv
<1>0. job[t].surface \in Surfaces /\ IsSurface(job[t].surface) /\ pc[t] = "unref"
  BY DEF Unref, At, Working, WorksOnOwn, Tasks
<1> PICK s \in Surfaces : s = job[t].surface
  BY <1>0
<1> PICK q : q = outputs[s]
  OBVIOUS
<1>1. q \in Seq(OutputIds) /\ UNCHANGED <<in_use, lost, fault>>
  BY <1>0 DEF Unref, Typed, IsSurface
<1>2. CASE q = <<>>
  <2>1. /\ UNCHANGED out /\ pc'[t] = "idle" /\ outputs' = [outputs EXCEPT ![s] = NONE]
    BY <1>0, <1>2 DEF Unref, Return, GoTo, Typed
  <2>2. outputs'[s] = NONE /\ \A x \in Surfaces : x # s => outputs'[x] = outputs[x]
    BY <2>1 DEF Typed
  <2>3. \A o \in OutputIds : Referring(o)' = Referring(o)
    <3>1. \A o : s \notin Referring(o)
      <4>1. Len(outputs[s]) = 0
        BY <1>2
      <4>2. \A o : s \in Referring(o) <=> \E i \in 1..Len(outputs[s]) : outputs[s][i] = o
        BY <1>0, ReferringIs
      <4> QED
        BY <4>1, <4>2
    <3>2. \A o, x : x \in Referring(o)' <=> x \in Referring(o)
      BY <2>2, <3>1 DEF Referring, IsSurface
    <3> SUFFICES ASSUME NEW o \in OutputIds PROVE Referring(o)' = Referring(o)
      OBVIOUS
    <3>3. \A x : x \in Referring(o)' <=> x \in Referring(o)
      BY <3>2
    <3> QED
      BY <3>3
  <2>4. Distinct'
    BY <2>2 DEF Distinct, IsSurface
  <2>5. AtWork(t)'
    BY <2>1 DEF AtWork
  <2> QED
    BY <1>0, <1>1, <2>1, <2>3, <2>4, <2>5, CountFrame, Together
<1>3. CASE q # <<>>
  <2> PICK h : h = Head(q)
    OBVIOUS
  <2>1. /\ h \in OutputIds /\ Tail(q) \in Seq(OutputIds) /\ Len(Tail(q)) = Len(q) - 1
        /\ \A i \in 1..Len(Tail(q)) : Tail(q)[i] = q[i + 1]
        /\ h = q[1] /\ Len(q) \in Nat \ {0}
    <3>1. h = q[1] /\ Len(q) \in Nat
      BY <1>1, <1>3
    <3>2. Len(q) # 0
      BY <1>1, <1>3, EmptySeq
    <3>3. /\ h \in OutputIds /\ Tail(q) \in Seq(OutputIds) /\ Len(Tail(q)) = Len(q) - 1
          /\ \A i \in 1..Len(Tail(q)) : Tail(q)[i] = q[i + 1]
      BY <1>1, <1>3, HeadTailProperties
    <3> QED
      BY <3>1, <3>2, <3>3
  <2>2. /\ out' = [out EXCEPT ![h].refcount = @ - 1] /\ pc'[t] = "destroy"
        /\ outputs' = [outputs EXCEPT ![s] = Tail(q)] /\ job'[t].output = h
    <3>1. /\ out' = [out EXCEPT ![h].refcount = @ - 1]
          /\ outputs' = [outputs EXCEPT ![s] = Tail(@)]
          /\ Has(t, h) /\ GoTo(t, "destroy")
      BY <1>3 DEF Unref
    <3>2. job[t] \in Tasks
      BY <1>0 DEF Working, WorksOnOwn
    <3> QED
      BY <3>1, <3>2 DEF Has, GoTo, Typed, Tasks
  <2>3. outputs'[s] = Tail(q) /\ \A x \in Surfaces : x # s => outputs'[x] = outputs[x]
    BY <2>2 DEF Typed
  <2>4. /\ \A o \in OutputIds : o # h => out'[o] = out[o]
        /\ out'[h].refcount = out[h].refcount - 1 /\ out[h].refcount \in Int
        /\ out'[h].flip_queue = out[h].flip_queue
    BY <2>1, <2>2 DEF Typed, Fields
  <2>5. \A i, j \in 1..Len(q) : q[i] = q[j] => i = j
    BY <1>0 DEF Distinct
  <2>6. Distinct'
    <3>1. \A i, j \in 1..Len(Tail(q)) : Tail(q)[i] = Tail(q)[j] => i = j
      <4> SUFFICES ASSUME NEW i \in 1..Len(Tail(q)), NEW j \in 1..Len(Tail(q)),
                          Tail(q)[i] = Tail(q)[j]
                   PROVE  i = j
        OBVIOUS
      <4>1. i + 1 \in 1..Len(q) /\ j + 1 \in 1..Len(q) /\ q[i + 1] = q[j + 1]
        BY <2>1
      <4>2. i + 1 = j + 1
        BY <2>5, <4>1
      <4> QED
        BY <2>1, <4>2
    <3>2. \A x \in Surfaces : x # s /\ outputs'[x] # NONE =>
            \A i, j \in 1..Len(outputs'[x]) : outputs'[x][i] = outputs'[x][j] => i = j
      BY <2>3 DEF Distinct, IsSurface
    <3>3. \A i, j \in 1..Len(outputs'[s]) : outputs'[s][i] = outputs'[s][j] => i = j
      <4>1. outputs'[s] = Tail(q)
        BY <2>3
      <4> QED
        BY ONLY <4>1, <3>1, Zenon
    <3> QED
      BY <3>2, <3>3 DEF Distinct, IsSurface
  <2>7. /\ s \in Referring(h) /\ Referring(h)' = Referring(h) \ {s}
        /\ \A o \in OutputIds : o # h => Referring(o)' = Referring(o)
    <3>1. /\ s \in Referring(h)
          /\ \A o, x : x \in Referring(o)' <=> (x \in Referring(o) /\ ~(x = s /\ o = h))
      BY <1>0, <1>3, <2>2, TailRefers
    <3>2. \A x : x \in Referring(h)' <=> x \in Referring(h) \ {s}
      BY <3>1
    <3>3. ASSUME NEW o \in OutputIds, o # h PROVE Referring(o)' = Referring(o)
      <4>1. \A x : x \in Referring(o)' <=> x \in Referring(o)
        BY <3>1, <3>3
      <4> QED
        BY <4>1
    <3> QED
      BY <3>1, <3>2, <3>3
  <2>8. Initialised(h) /\ Refs(h) \in Nat \ {0} /\ h \in in_use
    <3>1. Refs(h) \in Nat \ {0}
      BY <2>1, <2>7, RefsIsNat
    <3>2. h \in in_use
      BY <2>1, <3>1 DEF Counted
    <3> QED
      BY <1>0, <3>1, <3>2 DEF Initialised, Serialised
  <2>9. AtWork(t)'
    BY <1>1, <2>2, <2>8 DEF AtWork
  <2>10. ASSUME NEW o \in OutputIds PROVE Counted(o)'
    <3>1. Refs(o)' = Refs(o) - (IF o = h THEN 1 ELSE 0) /\ Refs(o) \in Nat
      <4>1. ~Holds(t, o)' /\ ~Holds(t, o) /\ lost'[o] = lost[o] /\ lost[o] \in Nat
        BY <1>0, <1>1, <2>2 DEF Holds, Typed
      <4>4. /\ Refs(o) = Cardinality(Referring(o)) + lost[o]
            /\ Refs(o)' = Cardinality(Referring(o)') + lost[o]
            /\ lost[o] \in Nat /\ Cardinality(Referring(o)) \in Nat
        BY <4>1, RefsOfOne
      <4>2. CASE o = h
        <5>1. IsFiniteSet(Referring(h)) /\ Cardinality(Referring(h)) \in Nat
          BY RefsOfOne
        <5>2. Cardinality(Referring(h) \ {s}) = Cardinality(Referring(h)) - 1
          BY <2>7, <5>1, FS_RemoveElement
        <5>3. Cardinality(Referring(o)') = Cardinality(Referring(o)) - 1
          BY <2>7, <4>2, <5>2
        <5> QED
          BY <4>2, <4>4, <5>1, <5>3
      <4>3. CASE o # h
        BY <2>7, <4>3, <4>4
      <4> QED
        BY <4>2, <4>3
    <3>2. /\ Initialised(o)' <=> Initialised(o)
          /\ ~Condemned(o) /\ (Condemned(o)' <=> o = h)
      BY <1>0, <1>1, <2>2 DEF Initialised, Condemned, Serialised
    <3>3. Counted(o) /\ Counted(h)
      BY <2>1
    <3> QED
      BY <1>1, <2>4, <2>8, <3>1, <3>2, <3>3 DEF Counted
  <2> QED
    BY <1>1, <2>6, <2>9, <2>10, Together
<1> QED
  BY <1>2, <1>3

(* The object is freed when nothing refers to it any more.                 *)
LEMMA DestroyCounts ==
  ASSUME Serialised, CountInv, Typed', Working', NEW t \in Threads, Destroy(t)
  PROVE  CountInv'
<1> USE DEF CountInv
<1>0. job[t].output \in OutputIds /\ pc[t] = "destroy" /\ pc'[t] = "unref"
  BY DEF Destroy, At, GoTo, Typed, Working, WorksOnOwn
<1> PICK p \in OutputIds : p = job[t].output
  BY <1>0
<1>1. UNCHANGED <<outputs, job, lost>> /\ p \in in_use
  BY <1>0 DEF Destroy, AtWork
<1>2. \A o \in OutputIds : Refs(o)' = Refs(o) /\ Refs(o) \in Nat
  BY <1>0, <1>1, RefsOfOne, RefsIsNat, OutputsFrame DEF Holds
<1>3. /\ \A o \in OutputIds : Initialised(o) <=> o \in in_use
      /\ \A o \in OutputIds : Initialised(o)' <=> o \in in_use'
      /\ \A o \in OutputIds : Condemned(o) => o = p
  BY <1>0 DEF Initialised, Condemned, Serialised
<1>4. AtWork(t)'
  BY <1>0 DEF AtWork
<1>5. CASE out[p].refcount = 0
  <2>1. /\ in_use' = in_use \ {p} /\ fault' # "assert"
        /\ out' = [out EXCEPT ![p].flip_queue = FALSE]
    BY <1>1, <1>5 DEF Destroy, IsLast
  <2>2. /\ \A o \in OutputIds : o # p => out'[o] = out[o]
        /\ out'[p].refcount = out[p].refcount
    BY <2>1 DEF Typed, Fields
  <2>3. Refs(p) = 0
    BY <1>1, <1>3, <1>5 DEF Counted
  <2>4. ASSUME NEW o \in OutputIds PROVE Counted(o)'
    BY <1>2, <1>3, <2>1, <2>2, <2>3 DEF Counted
  <2> QED
    BY <1>1, <1>4, <2>1, <2>4, OutputsFrame, Together
<1>6. CASE out[p].refcount # 0
  <2>1. UNCHANGED <<in_use, out, fault>>
    BY <1>6 DEF Destroy, IsLast, objectVars
  <2>2. Refs(p) # 0
    BY <1>1, <1>3, <1>6 DEF Counted
  <2>3. ASSUME NEW o \in OutputIds PROVE Counted(o)'
    BY <1>2, <1>3, <2>1, <2>2 DEF Counted
  <2> QED
    BY <1>1, <1>4, <2>1, <2>3, OutputsFrame, Together
<1> QED
  BY <1>5, <1>6

(* Steps that change neither objects nor calls.                            *)
LEMMA NothingCounts ==
  ASSUME CountInv, Typed', Working', fault' # "assert",
         UNCHANGED <<in_use, out, outputs, pc, job, lost>>
  PROVE  CountInv'
<1>1. \A o : Acquired(o)' = Acquired(o) /\ Referring(o)' = Referring(o)
  BY OutputsFrame DEF Acquired
<1>2. \A o : Refs(o)' = Refs(o)
  BY <1>1 DEF Refs
<1>3. ASSUME NEW o \in OutputIds PROVE Counted(o)'
  BY <1>2 DEF CountInv, Counted, Initialised, Condemned
<1>4. ASSUME NEW t \in Threads PROVE AtWork(t)'
  BY <1>2 DEF CountInv, AtWork
<1> QED
  BY <1>3, <1>4, OutputsFrame DEF CountInv

(***************************************************************************)
(* Every step preserves the invariant.                                     *)
(***************************************************************************)
LEMMA CountStep ==
  ASSUME Serialised, CountInv, [Next]_vars
  PROVE  CountInv'
<1>1. Typed' /\ Working'
  BY TypedStep DEF CountInv
<1>2. CASE UNCHANGED vars
  <2>1. UNCHANGED <<in_use, out, outputs, pc, job, lost>> /\ fault' # "assert"
    BY <1>2 DEF vars, objectVars, CountInv
  <2> QED
    BY <1>1, <2>1, NothingCounts
<1>3. ASSUME NEW t \in Threads, Step(t) PROVE CountInv'
  BY <1>1, <1>3, SearchCounts, RefCounts, AllocateCounts, CreateCounts, CreateFailsCounts,
     AppendCounts, AppendFailsCounts, UseCounts, UnrefCounts, DestroyCounts DEF Step
<1>4. ASSUME NEW t \in Threads, NEW s \in Surfaces,
             \/ CreateSurface(t, s) \/ DestroySurface(t, s)
             \/ \E d \in Drawables : PutSurface(t, s, d)
      PROVE  CountInv'
  BY <1>1, <1>4, CallsCount
<1>5. ASSUME NEW t \in Threads, NEW s \in Surfaces, TouchFreed(t, s) PROVE CountInv'
  <2>1. UNCHANGED <<in_use, out, outputs, pc, job, lost>> /\ fault' # "assert"
    BY <1>5 DEF TouchFreed, objectVars
  <2> QED
    BY <1>1, <2>1, NothingCounts
<1> QED
  BY <1>2, <1>3, <1>4, <1>5 DEF Next
-----------------------------------------------------------------------------
(***************************************************************************)
(* The inductive invariant of the references.                              *)
(***************************************************************************)
THEOREM ReferencesInvariant ==
  ASSUME Serialised PROVE Spec => []CountInv
<1>1. Init => CountInv
  BY CountInit
<1>2. CountInv /\ [Next]_vars => CountInv'
  BY CountStep
<1> QED
  BY <1>1, <1>2, PTL DEF Spec

(***************************************************************************)
(* An output surface counts the surfaces that refer to it, and is freed    *)
(* when the last gives it up and not before, on all error paths of         *)
(* vaPutSurface: for any number of surfaces and drawables.                 *)
(***************************************************************************)
THEOREM ReferencesAreCounted ==
  ASSUME Serialised PROVE Spec => []ReferencesCounted
<1>1. CountInv => ReferencesCounted
  <2> SUFFICES ASSUME CountInv PROVE ReferencesCounted
    OBVIOUS
  <2>1. \A o \in OutputIds : Counted(o)
    BY DEF CountInv
  <2>2. out \in [OutputIds -> [refcount : Nat, drawable : Drawables \cup {NONE},
                              flip_queue : BOOLEAN]]
    BY <2>1 DEF CountInv, Typed, Fields, Counted
  <2>3. TypeOK
    BY <2>2 DEF CountInv, Typed, TypeOK, Tasks
  <2> QED
    BY <2>1, <2>3 DEF ReferencesCounted, Counted, Refs
<1> QED
  BY <1>1, ReferencesInvariant, PTL

(***************************************************************************)
(* An array is only NULL, and NULL only followed, after references were    *)
(* lost with an array that could not grow.                                 *)
(***************************************************************************)
Excused == (freed # {} \/ fault = "null") => \E o \in OutputIds : lost[o] > 0

(* Every step keeps it: lost references stay lost.                         *)
LEMMA ExcusedStep ==
  ASSUME Typed, Working, Excused, [Next]_vars
  PROVE  Excused'
<1>1. ASSUME freed' = freed, lost' = lost, fault' = fault \/ fault' = "assert"
      PROVE  Excused'
  BY <1>1 DEF Excused
<1>2. ASSUME NEW t \in Threads, NEW s \in Surfaces,
             \/ CreateSurface(t, s) \/ DestroySurface(t, s)
             \/ \E d \in Drawables : PutSurface(t, s, d)
      PROVE  Excused'
  BY <1>1, <1>2 DEF CreateSurface, DestroySurface, PutSurface
<1>3. ASSUME NEW t \in Threads, NEW s \in Surfaces, TouchFreed(t, s) PROVE Excused'
  BY <1>3 DEF TouchFreed, Excused
<1>4. ASSUME NEW t \in Threads, AppendFails(t) PROVE Excused'
  <2> PICK p \in OutputIds, s \in Surfaces :
        /\ p = job[t].output
        /\ \A o \in OutputIds :
             lost'[o] = IF o = p \/ s \in Referring(o) THEN lost[o] + 1 ELSE lost[o]
    BY <1>4, FailureLoses
  <2>1. lost[p] \in Nat /\ lost'[p] = lost[p] + 1
    BY DEF Typed
  <2> QED
    BY <2>1 DEF Excused
<1>5. ASSUME NEW t \in Threads, Search(t) \/ Ref(t) \/ Allocate(t) \/ AllocateFails(t)
             \/ Create(t) \/ CreateFails(t) \/ Append1(t) \/ Unref(t)
      PROVE  Excused'
  BY <1>1, <1>5 DEF Search, Ref, Allocate, AllocateFails, Create, CreateFails, Append1, Unref
<1>6. ASSUME NEW t \in Threads, Use(t) \/ Destroy(t) PROVE Excused'
  <2>1. freed' = freed /\ lost' = lost
    BY <1>6 DEF Use, Destroy
  <2>2. fault' = fault \/ fault' = "assert"
    BY <1>6 DEF Use, Destroy
  <2> QED
    BY <1>1, <2>1, <2>2
<1>7. CASE UNCHANGED vars
  BY <1>1, <1>7 DEF vars
<1> QED
  BY <1>2, <1>3, <1>4, <1>5, <1>6, <1>7 DEF Next, Step

(***************************************************************************)
(* What vaPutSurface found or made is of its drawable and can be presented *)
(* (vdpau_video_x11.c:726-728), no output surface is freed twice, and NULL *)
(* is followed only where references were lost with an array that could    *)
(* not grow.                                                               *)
(***************************************************************************)
THEOREM NoAssertionFails ==
  ASSUME Serialised PROVE Spec => []NeverAborts
<1>1. Init => Excused
  BY DEF Init, Excused
<1>2. CountInv /\ Excused /\ [Next]_vars => Excused'
  BY ExcusedStep DEF CountInv
<1>3. CountInv /\ Excused => NeverAborts
  BY DEF CountInv, Excused, NeverAborts
<1> QED
  BY <1>1, <1>2, <1>3, ReferencesInvariant, PTL DEF Spec
-----------------------------------------------------------------------------
(***************************************************************************)
(* Surfaces share the output surface of a drawable as SharedObjects says.  *)
(* First, who uses an output surface, and that it counts them.             *)
(***************************************************************************)
Uses(r, o) ==
  \/ r[1] = "surface" /\ r[2] \in Referring(o)
  \/ r[1] = "call" /\ Holds(r[2], o)
  \/ r[1] = "lost" /\ lost[o] > 0

(* What a user refers to, now and after a step.                            *)
LEMMA UsesAre ==
  ASSUME Typed, Working, Typed', Working', NEW r \in Referrers
  PROVE  /\ UsesOf(r) = {o \in OutputIds : Uses(r, o)}
         /\ UsesOf(r)' = {o \in OutputIds : Uses(r, o)'}
<1>1. CASE r[1] = "surface" /\ r[2] \in Surfaces
  <2>1. /\ IsSurface(r[2]) => Range(outputs[r[2]]) \subseteq OutputIds
        /\ IsSurface(r[2])' => Range(outputs'[r[2]]) \subseteq OutputIds
    BY <1>1, RangeOfSeq DEF Typed, IsSurface
  <2> QED
    BY <1>1, <2>1 DEF UsesOf, Uses, Referring, IsSurface
<1>2. CASE r[1] = "call" /\ r[2] \in Threads
  <2>1. /\ pc[r[2]] = "append" => job[r[2]].output \in OutputIds
        /\ pc'[r[2]] = "append" => job'[r[2]].output \in OutputIds
    BY <1>2 DEF Working, WorksOnOwn
  <2> QED
    BY <1>2, <2>1 DEF UsesOf, Uses, Holds
<1>3. CASE r[1] = "lost"
  BY <1>3 DEF UsesOf, Uses
<1> QED
  BY <1>1, <1>2, <1>3 DEF Referrers

(* An output surface has a reference if somebody uses it.                  *)
LEMMA UsersAre ==
  ASSUME Serialised, Typed, Typed', NEW t \in Threads, NEW o \in OutputIds
  PROVE  /\ Refs(o) \in Nat /\ Refs(o)' \in Nat
         /\ Refs(o) > 0 <=> \E r \in Referrers : Uses(r, o)
         /\ Refs(o)' > 0 <=> \E r \in Referrers : Uses(r, o)'
<1>1. /\ (\E r \in Referrers : Uses(r, o))
           <=> (Referring(o) # {} \/ Holds(t, o) \/ lost[o] > 0)
      /\ (\E r \in Referrers : Uses(r, o)')
           <=> (Referring(o)' # {} \/ Holds(t, o)' \/ lost'[o] > 0)
  <2>1. /\ \A s \in Surfaces : <<"surface", s>> \in Referrers
        /\ <<"call", t>> \in Referrers /\ <<"lost", NONE>> \in Referrers
        /\ Referring(o) \subseteq Surfaces /\ Referring(o)' \subseteq Surfaces
    BY DEF Referrers, Referring
  <2>2. \A r \in Referrers : r[1] = "call" => r[2] = t
    BY DEF Referrers, Serialised
  <2>3. /\ \A s \in Surfaces : /\ Uses(<<"surface", s>>, o) <=> s \in Referring(o)
                               /\ Uses(<<"surface", s>>, o)' <=> s \in Referring(o)'
        /\ Uses(<<"call", t>>, o) <=> Holds(t, o)
        /\ Uses(<<"call", t>>, o)' <=> Holds(t, o)'
        /\ Uses(<<"lost", NONE>>, o) <=> lost[o] > 0
        /\ Uses(<<"lost", NONE>>, o)' <=> lost'[o] > 0
    BY DEF Uses
  <2>4. ASSUME NEW r \in Referrers
        PROVE  /\ Uses(r, o) => Referring(o) # {} \/ Holds(t, o) \/ lost[o] > 0
               /\ Uses(r, o)' => Referring(o)' # {} \/ Holds(t, o)' \/ lost'[o] > 0
    BY <2>2 DEF Uses
  <2> QED
    BY <2>1, <2>3, <2>4
<1>2. /\ Cardinality(Referring(o)) = 0 <=> Referring(o) = {}
      /\ Cardinality(Referring(o)') = 0 <=> Referring(o)' = {}
  BY RefsOfOne, FS_EmptySet
<1>3. lost[o] \in Nat /\ lost'[o] \in Nat
  BY DEF Typed
<1> PICK m, n : m = Cardinality(Referring(o)) /\ n = Cardinality(Referring(o)')
  OBVIOUS
<1> PICK k, l : k = Refs(o) /\ l = Refs(o)'
  OBVIOUS
<1> PICK a, b : /\ a = (IF Holds(t, o) THEN 1 ELSE 0)
                /\ b = (IF Holds(t, o)' THEN 1 ELSE 0)
  OBVIOUS
<1>4. /\ k = m + a + lost[o] /\ l = n + b + lost'[o]
      /\ m \in Nat /\ n \in Nat
  BY RefsOfOne
<1>5. /\ a \in {0, 1} /\ b \in {0, 1}
      /\ Holds(t, o) <=> a = 1
      /\ Holds(t, o)' <=> b = 1
  OBVIOUS
<1>6. /\ k \in Nat /\ l \in Nat
      /\ k > 0 <=> (m # 0 \/ a = 1 \/ lost[o] > 0)
      /\ l > 0 <=> (n # 0 \/ b = 1 \/ lost'[o] > 0)
  <2>1. a \in Nat /\ b \in Nat /\ lost[o] \in Nat /\ lost'[o] \in Nat
    BY <1>3, <1>5
  <2>2. k \in Nat /\ l \in Nat
    BY <1>4, <2>1
  <2>3. k > 0 <=> (m # 0 \/ a = 1 \/ lost[o] > 0)
    BY ONLY <1>4, <1>5, <2>1
  <2>4. l > 0 <=> (n # 0 \/ b = 1 \/ lost'[o] > 0)
    BY ONLY <1>4, <1>5, <2>1
  <2> QED
    BY <2>2, <2>3, <2>4
<1> QED
  BY <1>1, <1>2, <1>5, <1>6

(* What an output surface was made for, as long as it has a reference.     *)
LEMMA DrawableIs ==
  ASSUME CountInv, CountInv', NEW o \in OutputIds, Refs(o) \in Nat, Refs(o)' \in Nat
  PROVE  /\ DrawableOf(o) = IF Refs(o) > 0 THEN out[o].drawable ELSE NONE
         /\ DrawableOf(o)' = IF Refs(o)' > 0 THEN out'[o].drawable ELSE NONE
<1>1. Refs(o) > 0 => Initialised(o)
  <2> SUFFICES ASSUME Refs(o) > 0 PROVE Initialised(o)
    OBVIOUS
  <2>1. o \in in_use
    BY DEF CountInv, Counted
  <2>2. ASSUME NEW t \in Threads, pc[t] = "create" PROVE job[t].output # o
    <3>1. Refs(job[t].output) = 0
      BY <2>2 DEF CountInv, AtWork
    <3> QED
      BY <3>1
  <2> QED
    BY <2>1, <2>2 DEF Initialised
<1>2. Refs(o)' > 0 => Initialised(o)'
  <2> SUFFICES ASSUME Refs(o)' > 0 PROVE Initialised(o)'
    OBVIOUS
  <2>1. o \in in_use'
    BY DEF CountInv, Counted
  <2>2. ASSUME NEW t \in Threads, pc'[t] = "create" PROVE job'[t].output # o
    <3>1. Refs(job[t].output)' = 0
      BY <2>2 DEF CountInv, AtWork
    <3> QED
      BY <3>1
  <2> QED
    BY <2>1, <2>2 DEF Initialised
<1>3. /\ Initialised(o) => out[o].refcount = Refs(o)
      /\ Initialised(o)' => out'[o].refcount = Refs(o)'
  BY DEF CountInv, Counted
<1> QED
  BY <1>1, <1>2, <1>3 DEF DrawableOf

(* All of this together: the abstract state, now and after a step.         *)
Maps ==
  /\ \A r \in Referrers : /\ UsesOf(r) = {o \in OutputIds : Uses(r, o)}
                          /\ UsesOf(r)' = {o \in OutputIds : Uses(r, o)'}
  /\ \A o \in OutputIds :
       /\ Refs(o) > 0 <=> \E r \in Referrers : Uses(r, o)
       /\ Refs(o)' > 0 <=> \E r \in Referrers : Uses(r, o)'
       /\ DrawableOf(o) = IF Refs(o) > 0 THEN out[o].drawable ELSE NONE
       /\ DrawableOf(o)' = IF Refs(o)' > 0 THEN out'[o].drawable ELSE NONE

(* The invariants give it.                                                 *)
LEMMA StateMaps ==
  ASSUME Serialised, CountInv, CountInv', NEW t \in Threads
  PROVE  Maps
<1>1. Typed /\ Working /\ Typed' /\ Working'
  BY DEF CountInv
<1>2. \A r \in Referrers : /\ UsesOf(r) = {o \in OutputIds : Uses(r, o)}
                           /\ UsesOf(r)' = {o \in OutputIds : Uses(r, o)'}
  BY <1>1, UsesAre
<1>3. ASSUME NEW o \in OutputIds
      PROVE  /\ Refs(o) > 0 <=> \E r \in Referrers : Uses(r, o)
             /\ Refs(o)' > 0 <=> \E r \in Referrers : Uses(r, o)'
             /\ DrawableOf(o) = IF Refs(o) > 0 THEN out[o].drawable ELSE NONE
             /\ DrawableOf(o)' = IF Refs(o)' > 0 THEN out'[o].drawable ELSE NONE
  <2>1. /\ Refs(o) \in Nat /\ Refs(o)' \in Nat
        /\ Refs(o) > 0 <=> \E r \in Referrers : Uses(r, o)
        /\ Refs(o)' > 0 <=> \E r \in Referrers : Uses(r, o)'
    BY <1>1, UsersAre
  <2>2. /\ DrawableOf(o) = IF Refs(o) > 0 THEN out[o].drawable ELSE NONE
        /\ DrawableOf(o)' = IF Refs(o)' > 0 THEN out'[o].drawable ELSE NONE
    BY <2>1, DrawableIs
  <2> QED
    BY <2>1, <2>2
<1> QED
  BY <1>2, <1>3 DEF Maps
(* A step that leaves references and drawables alone is invisible.         *)
LEMMA Invisible ==
  ASSUME Maps,
         \A r \in Referrers, o \in OutputIds : Uses(r, o)' <=> Uses(r, o),
         \A o \in OutputIds : Refs(o) > 0 => out'[o].drawable = out[o].drawable
  PROVE  UNCHANGED Shared!vars
<1>1. \A r \in Referrers : UsesOf(r)' = UsesOf(r)
  BY DEF Maps
<1>2. \A o \in OutputIds : DrawableOf(o)' = DrawableOf(o)
  BY DEF Maps
<1> QED
  BY <1>1, <1>2 DEF Shared!vars

(* In most steps, neither surfaces nor the call get or give a reference.   *)
LEMMA NothingPasses ==
  ASSUME Serialised, Maps, NEW t \in Threads, UNCHANGED lost,
         pc[t] # "append", pc'[t] # "append",
         \A o \in OutputIds : Referring(o)' = Referring(o),
         \A o \in OutputIds : Refs(o) > 0 => out'[o].drawable = out[o].drawable
  PROVE  UNCHANGED Shared!vars
<1>1. ASSUME NEW r \in Referrers, NEW o \in OutputIds PROVE Uses(r, o)' <=> Uses(r, o)
  <2>1. r[1] = "call" => r[2] = t
    BY DEF Referrers, Serialised
  <2> QED
    BY <2>1 DEF Uses, Holds
<1> QED
  BY <1>1, Invisible

(* The call acquires the output surface of its drawable.                   *)
LEMMA CallAcquires ==
  ASSUME Serialised, Maps, NEW t \in Threads, NEW p \in OutputIds, NEW d \in Drawables,
         UNCHANGED lost, pc[t] # "append",
         \A o \in OutputIds : Holds(t, o)' <=> o = p,
         \A o \in OutputIds : Referring(o)' = Referring(o),
         \A o \in OutputIds : o # p => out'[o].drawable = out[o].drawable,
         out'[p].drawable = d,
         \/ Refs(p) > 0 /\ out[p].drawable = d
         \/ ~(Refs(p) > 0) /\ \A o \in OutputIds : Refs(o) > 0 => out[o].drawable # d
  PROVE  Shared!Next
<1>1. <<"call", t>> \in Referrers /\ \A r \in Referrers : r[1] = "call" <=> r = <<"call", t>>
  BY DEF Referrers, Serialised
<1>2. ASSUME NEW r \in Referrers, NEW o \in OutputIds
      PROVE  Uses(r, o)' <=> (Uses(r, o) \/ (r = <<"call", t>> /\ o = p))
  <2>1. CASE r = <<"call", t>>
    BY <2>1 DEF Uses, Holds
  <2>2. CASE r # <<"call", t>>
    BY <1>1, <2>2 DEF Uses
  <2> QED
    BY <2>1, <2>2
<1>3. ASSUME NEW r \in Referrers
      PROVE  UsesOf(r)' = IF r \in {<<"call", t>>} THEN UsesOf(r) \cup {p} ELSE UsesOf(r)
  <2>1. /\ UsesOf(r) = {o \in OutputIds : Uses(r, o)}
        /\ UsesOf(r)' = {o \in OutputIds : Uses(r, o)'}
    BY DEF Maps
  <2>2. CASE r = <<"call", t>>
    BY <1>2, <2>1, <2>2
  <2>3. CASE r # <<"call", t>>
    BY <1>2, <2>1, <2>3
  <2> QED
    BY <2>2, <2>3
<1>4. DrawableOf(p)' = d
  <2>1. Uses(<<"call", t>>, p)'
    BY <1>1, <1>2
  <2>2. Refs(p)' > 0
    BY <1>1, <2>1 DEF Maps
  <2> QED
    BY <2>2 DEF Maps
<1>5. \A o \in OutputIds : o # p => DrawableOf(o)' = DrawableOf(o)
  <2>1. \A o \in OutputIds : o # p => (Refs(o)' > 0 <=> Refs(o) > 0)
    BY <1>2 DEF Maps
  <2> QED
    BY <2>1 DEF Maps
<1>6. DrawableOf(p) = d \/ (DrawableOf(p) = NONE /\ \A o \in OutputIds : DrawableOf(o) # d)
  <2>1. d # NONE
    BY OutputAssumption
  <2> QED
    BY <2>1 DEF Maps
<1>7. Shared!Acquire({<<"call", t>>}, p, d)
  BY <1>3, <1>4, <1>5, <1>6 DEF Shared!Acquire
<1>8. {<<"call", t>>} \in (SUBSET Referrers) \ {{}}
  BY <1>1
<1> QED
  BY <1>7, <1>8 DEF Shared!Next

(* All references of some users go to another one: to a surface, or they   *)
(* are lost.                                                               *)
LEMMA UsersPass ==
  ASSUME Maps, NEW U \in SUBSET Referrers, U # {}, NEW v \in Referrers, v \notin U,
         UNCHANGED out,
         \A u \in U, o \in OutputIds : ~Uses(u, o)',
         \A o \in OutputIds : Uses(v, o)' <=> (Uses(v, o) \/ \E u \in U : Uses(u, o)),
         \A r \in Referrers, o \in OutputIds :
           r \notin U /\ r # v => (Uses(r, o)' <=> Uses(r, o))
  PROVE  Shared!Next
<1>1. \A r \in Referrers : /\ UsesOf(r) = {o \in OutputIds : Uses(r, o)}
                           /\ UsesOf(r)' = {o \in OutputIds : Uses(r, o)'}
  BY DEF Maps
<1>2. ASSUME NEW r \in Referrers
      PROVE  UsesOf(r)' = IF r \in U THEN {}
                          ELSE IF r = v THEN UNION {UsesOf(u) : u \in U \cup {v}}
                          ELSE UsesOf(r)
  <2>1. CASE r \in U
    BY <1>1, <2>1
  <2>2. CASE r = v
    <3>1. \A o : o \in UsesOf(v)' <=> o \in UNION {UsesOf(u) : u \in U \cup {v}}
      BY <1>1
    <3> QED
      BY <2>2, <3>1
  <2>3. CASE r \notin U /\ r # v
    <3>1. \A o : o \in UsesOf(r)' <=> o \in UsesOf(r)
      BY <1>1, <2>3
    <3> QED
      BY <2>3, <3>1
  <2> QED
    BY <2>1, <2>2, <2>3
<1>3. ASSUME NEW o \in OutputIds PROVE DrawableOf(o)' = DrawableOf(o)
  <2>1. (\E r \in Referrers : Uses(r, o)') <=> (\E r \in Referrers : Uses(r, o))
    <3>1. ASSUME NEW r \in Referrers, Uses(r, o)' PROVE \E u \in Referrers : Uses(u, o)
      BY <3>1
    <3>2. ASSUME NEW r \in Referrers, Uses(r, o) PROVE \E u \in Referrers : Uses(u, o)'
      BY <3>2
    <3> QED
      BY <3>1, <3>2
  <2> QED
    BY <2>1 DEF Maps
<1>4. Shared!Pass(U, v)
  <2> DEFINE uses == [r \in Referrers |-> UsesOf(r)]
  <2>1. ASSUME NEW r \in Referrers
        PROVE  UsesOf(r)' = IF r \in U THEN {}
                            ELSE IF r = v THEN UNION {uses[u] : u \in U \cup {v}}
                            ELSE uses[r]
    <3>1. {uses[u] : u \in U \cup {v}} = {UsesOf(u) : u \in U \cup {v}}
      OBVIOUS
    <3> QED
      BY <1>2, <3>1
  <2>2. uses' = [r \in Referrers |-> IF r \in U THEN {}
                                   ELSE IF r = v THEN UNION {uses[u] : u \in U \cup {v}}
                                   ELSE uses[r]]
    <3>1. uses' = [r \in Referrers |-> UsesOf(r)']
      OBVIOUS
    <3> QED
      BY <2>1, <3>1, Zenon
  <2>3. UNCHANGED [o \in OutputIds |-> DrawableOf(o)]
    BY <1>3
  <2> QED
    BY <2>2, <2>3 DEF Shared!Pass
<1> QED
  BY <1>4 DEF Shared!Next

(***************************************************************************)
(* Step by step.  vaCreateSurfaces and the calls that begin are invisible, *)
(* and so is everything that works on objects without a reference.         *)
(***************************************************************************)
LEMMA CallsAreInvisible ==
  ASSUME Serialised, CountInv, Maps, NEW t \in Threads, NEW s \in Surfaces,
         \/ CreateSurface(t, s) \/ DestroySurface(t, s)
         \/ \E d \in Drawables : PutSurface(t, s, d)
  PROVE  UNCHANGED Shared!vars
<1>0. Typed
  BY DEF CountInv
<1>1. CASE CreateSurface(t, s)
  <2>1. /\ UNCHANGED <<out, lost, pc>> /\ pc[t] = "idle"
        /\ outputs[s] = NONE /\ outputs' = [outputs EXCEPT ![s] = <<>>]
    BY <1>1 DEF CreateSurface, objectVars, Idle, IsSurface
  <2>2. outputs'[s] = <<>> /\ \A x \in Surfaces : x # s => outputs'[x] = outputs[x]
    BY <1>0, <2>1 DEF Typed
  <2>3. \A o \in OutputIds : Referring(o)' = Referring(o)
    BY <2>1, <2>2 DEF Referring, Range, IsSurface
  <2> QED
    BY <2>1, <2>3, NothingPasses
<1>2. CASE DestroySurface(t, s)
  <2>1. UNCHANGED <<out, lost, outputs>> /\ pc[t] = "idle" /\ pc'[t] = "unref"
    BY <1>0, <1>2 DEF DestroySurface, objectVars, Idle, GoTo, Typed
  <2> QED
    BY <2>1, OutputsFrame, NothingPasses
<1>3. ASSUME NEW d \in Drawables, PutSurface(t, s, d) PROVE UNCHANGED Shared!vars
  <2>1. /\ UNCHANGED <<out, lost, outputs>> /\ pc[t] = "idle"
        /\ pc'[t] \in {"search", "use"}
    BY <1>0, <1>3 DEF PutSurface, objectVars, Idle, GoTo, Typed
  <2> QED
    BY <2>1, OutputsFrame, NothingPasses
<1> QED
  BY <1>1, <1>2, <1>3

(* The walk, the allocation, its errors, and what put_surface does last.   *)
LEMMA WorkIsInvisible ==
  ASSUME Serialised, CountInv, Maps, NEW t \in Threads,
         Search(t) \/ Allocate(t) \/ AllocateFails(t) \/ CreateFails(t) \/ Use(t) \/ Destroy(t)
  PROVE  UNCHANGED Shared!vars
<1>0. Typed
  BY DEF CountInv
<1>1. CASE Search(t) \/ Allocate(t) \/ AllocateFails(t) \/ Use(t)
  <2>1. /\ UNCHANGED <<out, lost, outputs>> /\ pc[t] # "append"
        /\ pc'[t] \in {"search", "ref", "allocate", "create", "idle"}
    BY <1>0, <1>1 DEF Search, Allocate, AllocateFails, Use, At, Return, GoTo, objectVars, Typed
  <2> QED
    BY <2>1, OutputsFrame, NothingPasses
<1>2. CASE CreateFails(t)
  <2> DEFINE p == job[t].output
  <2>1. /\ UNCHANGED <<lost, outputs>> /\ p \in OutputIds
        /\ pc[t] = "create" /\ pc'[t] = "idle"
        /\ \A o \in OutputIds : o # p => out'[o] = out[o]
    BY <1>0, <1>2 DEF CreateFails, At, Return, GoTo, CountInv, Typed, Working, WorksOnOwn
  <2>2. Refs(p) = 0
    BY <2>1 DEF CountInv, AtWork
  <2>3. \A o \in OutputIds : Refs(o) > 0 => out'[o].drawable = out[o].drawable
    BY <2>1, <2>2
  <2> QED
    BY <2>1, <2>3, OutputsFrame, NothingPasses
<1>3. CASE Destroy(t)
  <2>1. UNCHANGED <<lost, outputs>> /\ pc[t] = "destroy" /\ pc'[t] = "unref"
    BY <1>0, <1>3 DEF Destroy, At, GoTo, Typed
  <2>2. UNCHANGED out \/ out' = [out EXCEPT ![job[t].output].flip_queue = FALSE]
    BY <1>3 DEF Destroy, objectVars
  <2>3. job[t].output \in OutputIds
    BY <2>1 DEF CountInv, Working, WorksOnOwn
  <2> PICK p \in OutputIds : p = job[t].output
    BY <2>3
  <2>4. CASE out' = [out EXCEPT ![p].flip_queue = FALSE]
    <3>1. out \in [OutputIds -> Fields]
      BY <1>0 DEF Typed
    <3>2. \A o \in OutputIds : out'[o].drawable = out[o].drawable
      BY <2>4, <3>1 DEF Fields
    <3> QED
      BY <2>1, <3>2, OutputsFrame, NothingPasses
  <2>5. CASE UNCHANGED out
    BY <2>1, <2>5, OutputsFrame, NothingPasses
  <2> QED
    BY <2>2, <2>4, <2>5
<1> QED
  BY <1>1, <1>2, <1>3

(* The output surface that was found has the drawable, and references.     *)
LEMMA RefAcquires ==
  ASSUME Serialised, CountInv, Maps, NEW t \in Threads, Ref(t)
  PROVE  Shared!Next
<1> DEFINE p == job[t].output
           d == job[t].drawable
<1>1. /\ UNCHANGED <<lost, outputs, job>> /\ p \in OutputIds /\ d \in Drawables
      /\ pc[t] = "ref" /\ pc'[t] = "append"
      /\ out' = [out EXCEPT ![p].refcount = @ + 1]
  BY DEF Ref, RefCount, At, GoTo, CountInv, Typed, Working, WorksOnOwn, Putting
<1>2. \A o \in OutputIds : out'[o].drawable = out[o].drawable
  BY <1>1 DEF CountInv, Typed, Fields
<1>3. p \in in_use /\ out[p].drawable = d
  BY <1>1 DEF CountInv, AtWork
<1>4. Initialised(p) /\ ~Condemned(p)
  BY <1>1, <1>3 DEF Initialised, Condemned, Serialised
<1>5. Refs(p) > 0
  <2>1. Refs(p) # 0
    BY <1>1, <1>4 DEF CountInv, Counted
  <2>2. Refs(p) \in Nat
    BY <1>1, RefsIsNat DEF CountInv
  <2> QED
    BY <2>1, <2>2
<1>6. \A o \in OutputIds : Holds(t, o)' <=> o = p
  BY <1>1 DEF Holds
<1>7. out'[p].drawable = d
  BY <1>1, <1>2, <1>3
<1> HIDE DEF p, d
<1> QED
  BY <1>1, <1>2, <1>3, <1>5, <1>6, <1>7, OutputsFrame, CallAcquires

(* One that had to be made is the first of its drawable.                   *)
LEMMA CreateAcquires ==
  ASSUME Serialised, WalkInv, CountInv, CountInv', Maps, NEW t \in Threads, Create(t)
  PROVE  Shared!Next
<1> DEFINE p == job[t].output
           d == job[t].drawable
<1>1. /\ UNCHANGED <<lost, outputs, job>> /\ p \in OutputIds /\ d \in Drawables
      /\ pc[t] = "create" /\ pc'[t] = "append"
      /\ out' = [out EXCEPT ![p] = [refcount |-> 1, drawable |-> d, flip_queue |-> TRUE]]
  BY DEF Create, At, GoTo, CountInv, Typed, Working, WorksOnOwn, Putting
<1>2. out'[p].drawable = d /\ \A o \in OutputIds : o # p => out'[o] = out[o]
  BY <1>1 DEF CountInv, Typed
<1>3. Refs(p) = 0
  BY <1>1 DEF CountInv, AtWork
<1>4. ASSUME NEW o \in OutputIds, Refs(o) > 0 PROVE out[o].drawable # d
  <2>1. o # p /\ o \in in_use
    BY <1>3, <1>4 DEF CountInv, Counted
  <2>2. Initialised(o)
    BY <1>1, <2>1 DEF Initialised, Serialised
  <2> QED
    BY <1>1, <2>2 DEF WalkInv, NonePassed, Fits
<1>5. \A o \in OutputIds : Holds(t, o)' <=> o = p
  BY <1>1 DEF Holds
<1>6. ~(Refs(p) > 0)
  BY <1>3
<1> HIDE DEF p, d
<1> QED
  BY <1>1, <1>2, <1>4, <1>5, <1>6, OutputsFrame, CallAcquires

(* The surface takes the reference over.                                   *)
LEMMA AppendPasses ==
  ASSUME Serialised, CountInv, Maps, NEW t \in Threads, Append1(t)
  PROVE  Shared!Next
<1>1. /\ UNCHANGED out /\ job[t].output \in OutputIds /\ job[t].surface \in Surfaces
      /\ pc[t] = "append" /\ pc'[t] # "append" /\ IsSurface(job[t].surface)
      /\ UNCHANGED lost
      /\ outputs' = [outputs EXCEPT ![job[t].surface] = Append(@, job[t].output)]
  BY DEF Append1, At, Return, GoTo, objectVars, CountInv, Typed, Working, WorksOnOwn, Tasks
<1> PICK p \in OutputIds, s \in Surfaces : p = job[t].output /\ s = job[t].surface
  BY <1>1
<1> PICK c, v : c = <<"call", t>> /\ v = <<"surface", s>>
  OBVIOUS
<1>2. /\ c \in Referrers /\ v \in Referrers /\ v # c
      /\ \A r \in Referrers : r # c => r[1] # "call"
      /\ \A r \in Referrers : r[1] = "surface" /\ r # v => r[2] # s
  BY DEF Referrers, Serialised
<1>3. \A o \in OutputIds : (Uses(c, o) <=> o = p) /\ ~Uses(c, o)'
  BY <1>1 DEF Uses, Holds
<1>4. \A o, x : x \in Referring(o)' <=> (x \in Referring(o) \/ (x = s /\ o = p))
  BY <1>1, AppendRefers DEF CountInv
<1>5. \A o \in OutputIds : Uses(v, o)' <=> (Uses(v, o) \/ o = p)
  BY <1>4 DEF Uses
<1>6. ASSUME NEW r \in Referrers, NEW o \in OutputIds, r # c, r # v
      PROVE  Uses(r, o)' <=> Uses(r, o)
  BY <1>1, <1>2, <1>4, <1>6 DEF Uses
<1>7. {c} \in SUBSET Referrers /\ {c} # {} /\ v \notin {c} /\ UNCHANGED out
  BY <1>1, <1>2
<1>8. /\ \A u \in {c}, o \in OutputIds : ~Uses(u, o)'
      /\ \A o \in OutputIds : Uses(v, o)' <=> (Uses(v, o) \/ \E u \in {c} : Uses(u, o))
      /\ \A r \in Referrers, o \in OutputIds :
           r \notin {c} /\ r # v => (Uses(r, o)' <=> Uses(r, o))
  BY <1>3, <1>5, <1>6
<1> QED
  BY ONLY Maps, <1>2, <1>7, <1>8, UsersPass

(* Those of an array that cannot grow, and the call's, are lost.           *)
LEMMA FailurePasses ==
  ASSUME Serialised, CountInv, Maps, NEW t \in Threads, AppendFails(t)
  PROVE  Shared!Next
<1> PICK p \in OutputIds, s \in Surfaces :
      /\ p = job[t].output /\ s = job[t].surface /\ IsSurface(s)
      /\ pc[t] = "append" /\ pc'[t] = "idle" /\ UNCHANGED <<in_use, out, fault>>
      /\ \A o \in OutputIds :
           lost'[o] = IF o = p \/ s \in Referring(o) THEN lost[o] + 1 ELSE lost[o]
      /\ \A o, x : x \in Referring(o)' <=> (x \in Referring(o) /\ x # s)
  BY FailureLoses DEF CountInv
<1> PICK c, f, v : c = <<"call", t>> /\ f = <<"surface", s>> /\ v = <<"lost", NONE>>
  OBVIOUS
<1>1. /\ c \in Referrers /\ f \in Referrers /\ v \in Referrers /\ v # c /\ v # f
      /\ \A r \in Referrers : r # c => r[1] # "call"
      /\ \A r \in Referrers : r # v => r[1] # "lost"
      /\ \A r \in Referrers : r[1] = "surface" /\ r # f => r[2] # s
  BY DEF Referrers, Serialised
<1>2. \A o \in OutputIds : (Uses(c, o) <=> o = p) /\ ~Uses(c, o)'
  BY DEF Uses, Holds
<1>3. \A o \in OutputIds : (Uses(f, o) <=> s \in Referring(o)) /\ ~Uses(f, o)'
  BY DEF Uses
<1>4. ASSUME NEW o \in OutputIds
      PROVE  Uses(v, o)' <=> (Uses(v, o) \/ o = p \/ s \in Referring(o))
  <2>1. /\ lost[o] \in Nat
        /\ lost'[o] = IF o = p \/ s \in Referring(o) THEN lost[o] + 1 ELSE lost[o]
    BY DEF CountInv, Typed
  <2>2. (Uses(v, o) <=> lost[o] > 0) /\ (Uses(v, o)' <=> lost'[o] > 0)
    BY DEF Uses
  <2>3. CASE o = p \/ s \in Referring(o)
    <3>1. lost'[o] > 0
      BY <2>1, <2>3
    <3> QED
      BY <2>2, <2>3, <3>1
  <2>4. CASE ~(o = p \/ s \in Referring(o))
    <3>1. lost'[o] = lost[o]
      BY <2>1, <2>4
    <3> QED
      BY <2>2, <2>4, <3>1
  <2> QED
    BY <2>3, <2>4
<1>5. ASSUME NEW r \in Referrers, NEW o \in OutputIds, r \notin {c, f, v}
      PROVE  Uses(r, o)' <=> Uses(r, o)
  BY <1>1, <1>5 DEF Uses
<1>6. {c, f} \in SUBSET Referrers /\ {c, f} # {} /\ v \notin {c, f} /\ UNCHANGED out
  BY <1>1
<1>7. /\ \A u \in {c, f}, o \in OutputIds : ~Uses(u, o)'
      /\ \A o \in OutputIds : Uses(v, o)' <=> (Uses(v, o) \/ \E u \in {c, f} : Uses(u, o))
      /\ \A r \in Referrers, o \in OutputIds :
           r \notin {c, f} /\ r # v => (Uses(r, o)' <=> Uses(r, o))
  BY <1>2, <1>3, <1>4, <1>5
<1> QED
  BY ONLY Maps, <1>1, <1>6, <1>7, UsersPass

(* vaDestroySurfaces lets go of one output surface after the other.        *)
LEMMA UnrefReleases ==
  ASSUME Serialised, CountInv, Maps, NEW t \in Threads, Unref(t)
  PROVE  [Shared!Next]_(Shared!vars)
<1>1. /\ job[t].surface \in Surfaces /\ IsSurface(job[t].surface) /\ UNCHANGED lost
      /\ pc[t] = "unref" /\ pc'[t] \in {"idle", "destroy"}
  BY DEF Unref, At, Return, GoTo, CountInv, Typed, Working, WorksOnOwn, Tasks
<1>2. Typed /\ Distinct
  BY DEF CountInv
<1> PICK s \in Surfaces : s = job[t].surface
  BY <1>1
<1>3. CASE outputs[s] = <<>>
  <2>1. UNCHANGED out /\ outputs' = [outputs EXCEPT ![s] = NONE]
    BY <1>3 DEF Unref
  <2>2. outputs'[s] = NONE /\ \A x \in Surfaces : x # s => outputs'[x] = outputs[x]
    BY <1>2, <2>1 DEF Typed
  <2>3. \A o : s \notin Referring(o)
    BY <1>3 DEF Referring, Range
  <2>4. \A o \in OutputIds : Referring(o)' = Referring(o)
    <3>1. \A o, x : x \in Referring(o)' <=> x \in Referring(o)
      BY <2>2, <2>3 DEF Referring, IsSurface
    <3> SUFFICES ASSUME NEW o \in OutputIds PROVE Referring(o)' = Referring(o)
      OBVIOUS
    <3>2. \A x : x \in Referring(o)' <=> x \in Referring(o)
      BY <3>1
    <3> QED
      BY <3>2
  <2> QED
    BY <1>1, <2>1, <2>4, NothingPasses
<1>4. CASE outputs[s] # <<>>
  <2> PICK h : h = Head(outputs[s])
    OBVIOUS
  <2>1. /\ out' = [out EXCEPT ![h].refcount = @ - 1]
        /\ outputs' = [outputs EXCEPT ![s] = Tail(@)]
    BY <1>4 DEF Unref
  <2>2. IsSurface(s)
    BY <1>1
  <2>3. /\ h \in OutputIds
        /\ \A o, x : x \in Referring(o)' <=> (x \in Referring(o) /\ ~(x = s /\ o = h))
    BY <1>2, <1>4, <2>1, <2>2, TailRefers
  <2>4. \A o \in OutputIds : out'[o].drawable = out[o].drawable
    BY <1>2, <2>1 DEF Typed, Fields
  <2> PICK v : v = <<"surface", s>>
    OBVIOUS
  <2>5. /\ v \in Referrers
        /\ \A r \in Referrers : r[1] = "surface" => (r = v <=> r[2] = s)
        /\ \A r \in Referrers : r[1] # "surface" => r # v
        /\ \A r \in Referrers : r[1] = "call" => r[2] = t
    BY DEF Referrers, Serialised
  <2>6. \A r \in Referrers, o \in OutputIds :
          Uses(r, o)' <=> (Uses(r, o) /\ ~(r = v /\ o = h))
    <3>1. \A o : ~Holds(t, o) /\ ~Holds(t, o)'
      BY <1>1 DEF Holds
    <3> QED
      BY <1>1, <2>3, <2>5, <3>1 DEF Uses
  <2>7. \A r \in Referrers : UsesOf(r)' = IF r \in {v} THEN UsesOf(r) \ {h} ELSE UsesOf(r)
    BY <2>6 DEF Maps
  <2>8. ASSUME NEW o \in OutputIds
        PROVE  DrawableOf(o)' = IF \E r \in Referrers : o \in UsesOf(r)'
                                THEN DrawableOf(o) ELSE NONE
    <3>1. (\E r \in Referrers : o \in UsesOf(r)') <=> \E r \in Referrers : Uses(r, o)'
      BY DEF Maps
    <3>2. (\E r \in Referrers : Uses(r, o)') => \E r \in Referrers : Uses(r, o)
      BY <2>6
    <3> QED
      BY <2>4, <3>1, <3>2 DEF Maps
  <2>9. Shared!Release({v}, {h})
    BY <2>7, <2>8 DEF Shared!Release
  <2>10. {v} \in (SUBSET Referrers) \ {{}} /\ {h} \in SUBSET OutputIds
    BY <2>3, <2>5
  <2> QED
    BY <2>9, <2>10 DEF Shared!Next
<1> QED
  BY <1>3, <1>4

(***************************************************************************)
(* Output surfaces are shared: one for a drawable, found or made by        *)
(* vaPutSurface and gone with the last reference, whatever fails.          *)
(***************************************************************************)
THEOREM OutputsAreShared ==
  ASSUME Serialised PROVE Spec => SharesOutputs
<1>1. Init => Shared!Init
  <2> SUFFICES ASSUME Init PROVE Shared!Init
    OBVIOUS
  <2>1. \A r \in Referrers : UsesOf(r) = {}
    BY DEF Init, Referrers, UsesOf, IsSurface
  <2>2. \A o \in OutputIds : DrawableOf(o) = NONE
    BY DEF Init, DrawableOf, Initialised
  <2> QED
    BY <2>1, <2>2 DEF Shared!Init
<1>2. WalkInv /\ CountInv /\ [Next]_vars => [Shared!Next]_(Shared!vars)
  <2> SUFFICES ASSUME WalkInv, CountInv, [Next]_vars PROVE [Shared!Next]_(Shared!vars)
    OBVIOUS
  <2>1. CountInv'
    BY CountStep
  <2>2. CASE UNCHANGED vars
    BY <2>2 DEF vars, objectVars, Shared!vars, UsesOf, DrawableOf, IsSurface, Initialised
  <2>3. ASSUME NEW t \in Threads, Step(t) PROVE [Shared!Next]_(Shared!vars)
    <3>1. Maps
      BY <2>1, StateMaps
    <3> QED
      BY <2>1, <2>3, <3>1, WorkIsInvisible, RefAcquires, CreateAcquires, AppendPasses,
         FailurePasses, UnrefReleases DEF Step
  <2>4. ASSUME NEW t \in Threads, NEW s \in Surfaces,
               \/ CreateSurface(t, s) \/ DestroySurface(t, s)
               \/ \E d \in Drawables : PutSurface(t, s, d)
        PROVE  [Shared!Next]_(Shared!vars)
    <3>1. Maps
      BY <2>1, StateMaps
    <3> QED
      BY <2>4, <3>1, CallsAreInvisible
  <2>5. ASSUME NEW t \in Threads, NEW s \in Surfaces, TouchFreed(t, s)
        PROVE  [Shared!Next]_(Shared!vars)
    BY <2>5 DEF TouchFreed, objectVars, Shared!vars, UsesOf, DrawableOf, IsSurface, Initialised
  <2> QED
    BY <2>2, <2>3, <2>4, <2>5 DEF Next
<1> QED
  BY <1>1, <1>2, WalkIsComplete, ReferencesInvariant, PTL
     DEF Spec, SharesOutputs, Shared!Spec
=============================================================================
