---------------------------- MODULE OutputSurfaces ----------------------------
(***************************************************************************)
(* The life of the output surfaces of vdpau_video_x11.c: vaPutSurface      *)
(* looks for the one of a drawable among those of the surface, then in     *)
(* the whole heap, and creates it last; each surface that has used it      *)
(* keeps a reference until vaDestroySurfaces.  Only the heap operations    *)
(* are locked.  Threads interleave wherever another thread's step may      *)
(* matter: between two objects of the iteration, before a reference is     *)
(* counted, between allocation and initialisation of an object.            *)
(*                                                                         *)
(* Memory of freed objects is kept by the heap: out is what the memory     *)
(* contains, in_use what is allocated.  What put_surface does with the     *)
(* output surface is module PutSurface; here it only checks its asserts.   *)
(* A call that follows NULL ends the process, as a failing assert does.    *)
(***************************************************************************)
EXTENDS Naturals, Sequences, FiniteSets, Functions

CONSTANTS
  Threads, Surfaces, Drawables,
  UserOf,       (* the one thread that puts on a drawable                  *)
  HeapSize,     (* output objects that fit into memory                     *)
  ArrayStep,    (* entries by which output_surfaces grows, 4 in the code   *)
  MaxLost,      (* bound of the references lost by failures                *)
  NONE

OutputIds == 1..HeapSize

ASSUME OutputAssumption ==
  /\ HeapSize \in Nat /\ ArrayStep \in Nat \ {0} /\ MaxLost \in Nat
  /\ NONE \notin Seq(OutputIds) /\ NONE \notin Drawables
  /\ IsFiniteSet(Surfaces)
  /\ UserOf \in [Drawables -> Threads]

VARIABLES
  in_use,       (* output_heap: the objects that are allocated             *)
  out,          (* fields of every output object, also of freed ones       *)
  outputs,      (* output_surfaces of each surface, NONE if it is no more  *)
  freed,        (* surfaces whose array is NULL, although its count is not *)
  user,         (* the thread that created each surface                    *)
  pc, job,      (* where each thread stands, and what it works on          *)
  lost,         (* history: references that nobody will give back          *)
  fault         (* "assert": an ASSERT failed; "null": NULL was followed   *)

objectVars == <<in_use, out>>
vars == <<objectVars, outputs, freed, user, pc, job, lost, fault>>

IsSurface(s) == outputs[s] # NONE
Idle(t)      == pc[t] = "idle" /\ fault = "none"

Init ==
  /\ in_use = {}
  /\ out = [o \in OutputIds |-> [refcount |-> 0, drawable |-> NONE, flip_queue |-> FALSE]]
  /\ outputs = [s \in Surfaces |-> NONE] /\ user = [s \in Surfaces |-> NONE]
  /\ freed = {}
  /\ pc = [t \in Threads |-> "idle"] /\ job = [t \in Threads |-> NONE]
  /\ lost = [o \in OutputIds |-> 0] /\ fault = "none"

GoTo(t, label) == pc' = [pc EXCEPT ![t] = label]
Return(t) == GoTo(t, "idle") /\ job' = [job EXCEPT ![t] = NONE]
At(t, label) == pc[t] = label /\ fault = "none"
Has(t, o) == job' = [job EXCEPT ![t].output = o]

(* vaCreateSurfaces.                                                       *)
CreateSurface(t, s) ==
  /\ Idle(t) /\ ~IsSurface(s)
  /\ outputs' = [outputs EXCEPT ![s] = <<>>]
  /\ user' = [user EXCEPT ![s] = t]
  /\ UNCHANGED <<objectVars, freed, pc, job, lost, fault>>
-----------------------------------------------------------------------------
(* put_surface, and output_surface_lookup in output_surface_ensure.        *)
Looked(s, d) == {o \in Range(outputs[s]) : out[o].drawable = d}

PutSurface(t, s, d) ==
  /\ Idle(t) /\ IsSurface(s) /\ s \notin freed /\ user[s] = t /\ UserOf[d] = t
  /\ \E o \in IF Looked(s, d) = {} THEN {0} ELSE Looked(s, d) :
       /\ job' = [job EXCEPT ![t] = [surface |-> s, drawable |-> d, output |-> o]]
       /\ GoTo(t, IF o = 0 THEN "search" ELSE "use")
  /\ UNCHANGED <<objectVars, outputs, freed, user, lost, fault>>

(* The iteration over the heap: one object_heap_next, and the comparison.  *)
FollowingNext(o) == {p \in in_use : p > o + 1 /\ \A q \in in_use : q > o + 1 => p <= q}
                                 (* mutant: the iterator skips an object   *)
Following(o) == {p \in in_use : p > o /\ \A q \in in_use : q > o => p <= q}

Search(t) ==
  /\ At(t, "search")
  /\ IF Following(job[t].output) = {}
     THEN GoTo(t, "allocate") /\ UNCHANGED job
     ELSE \E o \in Following(job[t].output) :
            /\ Has(t, o)
            /\ GoTo(t, IF out[o].drawable = job[t].drawable THEN "ref" ELSE "search")
  /\ UNCHANGED <<objectVars, outputs, freed, user, lost, fault>>

(* output_surface_ref.                                                     *)
RefCount(n) == n + 1

Ref(t) ==
  /\ At(t, "ref")
  /\ out' = [out EXCEPT ![job[t].output].refcount = RefCount(@)]
  /\ GoTo(t, "append")
  /\ UNCHANGED <<in_use, outputs, freed, user, job, lost, fault>>

(* output_surface_create: the object, later its fields and VDPAU objects.  *)
Allocate(t) ==
  /\ At(t, "allocate")
  /\ \E o \in OutputIds \ in_use :
       /\ in_use' = in_use \cup {o}
       /\ Has(t, o)
  /\ GoTo(t, "create")
  /\ UNCHANGED <<out, outputs, freed, user, lost, fault>>

AllocateFails(t) ==
  /\ At(t, "allocate")
  /\ Return(t)
  /\ UNCHANGED <<objectVars, outputs, freed, user, lost, fault>>

Create(t) ==
  /\ At(t, "create")
  /\ out' = [out EXCEPT ![job[t].output] =
               [refcount |-> 1, drawable |-> job[t].drawable, flip_queue |-> TRUE]]
  /\ GoTo(t, "append")
  /\ UNCHANGED <<in_use, outputs, freed, user, job, lost, fault>>

(* VDPAU fails to make a presentation queue, the object is freed again.    *)
FreedNot(o) == in_use            (* mutant: the error path leaks the object *)
Freed(o) == in_use \ {o}

CreateFails(t) ==
  /\ At(t, "create")
  /\ out' = [out EXCEPT ![job[t].output] =
               [refcount |-> 1, drawable |-> job[t].drawable, flip_queue |-> FALSE]]
  /\ in_use' = Freed(job[t].output)
  /\ Return(t)
  /\ UNCHANGED <<outputs, freed, user, lost, fault>>

(* The surface keeps the reference, if its array has room or can grow:     *)
(* realloc_buffer makes room for five at first and for four more each      *)
(* time.                                                                   *)
Append1(t) ==
  /\ At(t, "append")
  /\ outputs' = [outputs EXCEPT ![job[t].surface] = Append(@, job[t].output)]
  /\ GoTo(t, "use")
  /\ UNCHANGED <<objectVars, freed, user, job, lost, fault>>

(* It frees an array that cannot grow, with all references in it, and the  *)
(* count of the surface stays.                                             *)
Dropped(t) == {job[t].output} \cup Range(outputs[job[t].surface])

AppendFails(t) ==
  LET s == job[t].surface IN
  /\ At(t, "append") /\ Len(outputs[s]) % ArrayStep = 0
  /\ \A o \in Dropped(t) : lost[o] < MaxLost
  /\ lost' = [o \in OutputIds |-> IF o \in Dropped(t) THEN lost[o] + 1 ELSE lost[o]]
  /\ outputs' = [outputs EXCEPT ![s] = <<>>]
  /\ freed' = IF outputs[s] = <<>> THEN freed ELSE freed \cup {s}
  /\ Return(t)
  /\ UNCHANGED <<objectVars, user, fault>>

(* The next vaPutSurface of such a surface, or vaDestroySurfaces, follows  *)
(* NULL in output_surface_lookup or in the loop over the count.            *)
TouchFreed(t, s) ==
  /\ Idle(t) /\ s \in freed /\ user[s] = t
  /\ fault' = "null"
  /\ UNCHANGED <<objectVars, outputs, freed, user, pc, job, lost>>

(* put_surface goes on with what it found: ASSERT(obj_output->drawable ==  *)
(* drawable), and that there is a presentation queue.                      *)
Use(t) ==
  /\ At(t, "use")
  /\ LET o == out[job[t].output] IN
     fault' = IF o.drawable = job[t].drawable /\ o.flip_queue THEN fault ELSE "assert"
  /\ Return(t)
  /\ UNCHANGED <<objectVars, outputs, freed, user, lost>>
-----------------------------------------------------------------------------
(* vaDestroySurfaces: output_surface_unref for each one it refers to, and  *)
(* output_surface_destroy at the last reference.                           *)
DestroySurface(t, s) ==
  /\ Idle(t) /\ IsSurface(s) /\ s \notin freed /\ user[s] = t
  /\ job' = [job EXCEPT ![t] = [surface |-> s, drawable |-> NONE, output |-> 0]]
  /\ GoTo(t, "unref")
  /\ UNCHANGED <<objectVars, outputs, freed, user, lost, fault>>

Unref(t) ==
  /\ At(t, "unref")
  /\ LET s == job[t].surface IN
     IF outputs[s] = <<>>
     THEN /\ outputs' = [outputs EXCEPT ![s] = NONE]
          /\ user' = [user EXCEPT ![s] = NONE]
          /\ Return(t)
          /\ UNCHANGED out
     ELSE /\ out' = [out EXCEPT ![Head(outputs[s])].refcount = @ - 1]
          /\ outputs' = [outputs EXCEPT ![s] = Tail(@)]
          /\ Has(t, Head(outputs[s]))
          /\ GoTo(t, "destroy")
          /\ UNCHANGED user
  /\ UNCHANGED <<in_use, freed, lost, fault>>

IsLastButOne(n) == n <= 1        (* mutant: destroyed one reference early  *)
IsLast(n) == n = 0

Destroy(t) ==
  /\ At(t, "destroy")
  /\ LET o == job[t].output IN
     IF IsLast(out[o].refcount)
     THEN /\ out' = [out EXCEPT ![o].flip_queue = FALSE]
          /\ in_use' = in_use \ {o}
          (* ASSERT of object_heap_free *)
          /\ fault' = IF o \in in_use THEN fault ELSE "assert"
     ELSE UNCHANGED <<objectVars, fault>>
  /\ GoTo(t, "unref")
  /\ UNCHANGED <<outputs, freed, user, job, lost>>

Step(t) ==
  \/ Search(t) \/ Ref(t) \/ Allocate(t) \/ AllocateFails(t) \/ Create(t)
  \/ CreateFails(t) \/ Append1(t) \/ AppendFails(t) \/ Use(t)
  \/ Unref(t) \/ Destroy(t)

Next ==
  \E t \in Threads :
    \/ \E s \in Surfaces :
         \/ CreateSurface(t, s) \/ DestroySurface(t, s) \/ TouchFreed(t, s)
         \/ \E d \in Drawables : PutSurface(t, s, d)
    \/ Step(t)

Spec == Init /\ [][Next]_vars
-----------------------------------------------------------------------------
Labels == {"idle", "search", "ref", "allocate", "create", "append", "use",
           "unref", "destroy"}

(* The type invariant, of the fields in memory and the work of each thread *)
TypeOK ==
  /\ in_use \in SUBSET OutputIds
  /\ out \in [OutputIds -> [refcount : Nat, drawable : Drawables \cup {NONE},
                            flip_queue : BOOLEAN]]
  /\ outputs \in [Surfaces -> Seq(OutputIds) \cup {NONE}]
  /\ freed \subseteq Surfaces /\ user \in [Surfaces -> Threads \cup {NONE}]
  /\ pc \in [Threads -> Labels]
  /\ job \in [Threads -> [surface : Surfaces, drawable : Drawables \cup {NONE},
                          output : OutputIds \cup {0}] \cup {NONE}]
  /\ lost \in [OutputIds -> 0..MaxLost] /\ fault \in {"none", "assert", "null"}

(***************************************************************************)
(* An output surface counts the surfaces that refer to it, and those       *)
(* references a failed call lost.  It is allocated as long as it has one:  *)
(* no surface refers to memory that was given back.                        *)
(***************************************************************************)
Referring(o) == {s \in Surfaces : IsSurface(s) /\ o \in Range(outputs[s])}
Acquired(o)  == {t \in Threads : pc[t] = "append" /\ job[t].output = o}
Initialised(o) == o \in in_use /\ \A t \in Threads : pc[t] = "create" => job[t].output # o
Condemned(o) == \E t \in Threads : pc[t] = "destroy" /\ job[t].output = o

ReferencesCounted ==
  /\ TypeOK
  /\ \A o \in OutputIds :
       LET n == Cardinality(Referring(o)) + Cardinality(Acquired(o)) + lost[o] IN
       /\ n > 0 => o \in in_use
       /\ Initialised(o) => out[o].refcount = n /\ (n = 0 => Condemned(o))

(***************************************************************************)
(* A drawable has one output surface at most, so that all surfaces put on  *)
(* a window share its ring and their pictures appear in order.             *)
(***************************************************************************)
OneOutputPerDrawable ==
  \A o, p \in OutputIds :
    Initialised(o) /\ Initialised(p) /\ out[o].drawable = out[p].drawable => o = p

(* The asserts of put_surface and of object_heap_free hold, and no NULL is *)
(* followed unless an array that could not grow took references with it.   *)
NeverAborts ==
  /\ fault # "assert"
  /\ fault = "null" => \E o \in OutputIds : lost[o] > 0

(***************************************************************************)
(* Surfaces share the output surface of a drawable: it is found or made by *)
(* a vaPutSurface, whose reference the surface then keeps, and gone with   *)
(* the last reference.  The errors in between are invisible, but for the   *)
(* references they lose, which nobody ever gives back.                     *)
(***************************************************************************)
Referrers ==
  ({"surface"} \X Surfaces) \cup ({"call"} \X Threads) \cup {<<"lost", NONE>>}

UsesOf(r) ==
  CASE r[1] = "surface" -> IF IsSurface(r[2]) THEN Range(outputs[r[2]]) ELSE {}
    [] r[1] = "call"    -> IF pc[r[2]] = "append" THEN {job[r[2]].output} ELSE {}
    [] r[1] = "lost"    -> {o \in OutputIds : lost[o] > 0}

DrawableOf(o) == IF Initialised(o) /\ out[o].refcount > 0 THEN out[o].drawable ELSE NONE

Shared == INSTANCE SharedObjects WITH
  Holders <- Referrers,
  Ids     <- OutputIds,
  Keys    <- Drawables,
  uses    <- [r \in Referrers |-> UsesOf(r)],
  key     <- [o \in OutputIds |-> DrawableOf(o)]

SharesOutputs == Shared!Spec
=============================================================================
