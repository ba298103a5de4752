--------------------------- MODULE PutSurfaceProofs ---------------------------
(***************************************************************************)
(* Theorems about PutSurface, for any surfaces, any number of queued       *)
(* pictures and failures at any call.  The two safety theorems are about   *)
(* one thread, since output_surface_lock is empty; what they say ends when *)
(* the window is resized, which clears the dirty flags.                    *)
(***************************************************************************)
EXTENDS PutSurface, SequenceTheorems, TLAPS

OneThread == \A t, u \in Threads : t = u

(* What VDPAU may still use has been rendered into.                        *)
UsedAreDirty ==
  \A i \in Ring : ~IsIdle(i) => exists[i] /\ dirty[i]

(* Output surfaces are large enough for the window.                        *)
SizesFit == \A i \in Ring : exists[i] => size <= max_size

(* The fields of the picture in progress are in the current output surface.*)
FieldsAreDrawn ==
  /\ fields \subseteq drawn[current]
  /\ fields # {} => exists[current] /\ dirty[current]

(* What a call knows at each place.                                        *)
CallsKnow ==
  \A t \in Threads :
    /\ pc[t] \in {"wait", "render", "queue"} => exists[current]
    /\ pc[t] = "flush" => fields # {}
    /\ pc[t] = "render" => IsIdle(current)
    /\ pc[t] = "queue" => dirty[current] /\ fields = AllFields

RingInv == TypeOK /\ UsedAreDirty /\ SizesFit /\ FieldsAreDrawn /\ CallsKnow

(* The window still has the size it had when the output surface was made,  *)
(* and when the call in progress asked for it.                             *)
Steady == size = window /\ \A t \in Threads : arg[t] # NONE => arg[t].size = window

(* The inductive invariant.                                                *)
PutInv == TypeOK /\ (~Resized => RingInv /\ Steady)
-----------------------------------------------------------------------------
(***************************************************************************)
(* Types.                                                                  *)
(***************************************************************************)
Calls == [surface : Surfaces, fields : FieldSets, size : Sizes]

(* What is used of the constants throughout.                               *)
LEMMA Constants ==
  /\ Ring = {0, 1} /\ 0 \in Ring
  /\ Sizes \subseteq Nat /\ max_waste \in Nat \ {0} /\ CounterSpan \in Nat \ {0}
  /\ FieldSets \subseteq (SUBSET AllFields) \ {{}}
  /\ NONE \notin Ring /\ NONE \notin Surfaces /\ NONE \notin Calls
BY PutAssumption DEF Ring, VDPAU_MAX_OUTPUT_SURFACES, Calls

(* Rounding up does not make a size smaller.                               *)
LEMMA RoundUpCovers == \A n \in Sizes : RoundUp(n) \in Nat /\ n <= RoundUp(n)
<1> SUFFICES ASSUME NEW n \in Sizes PROVE RoundUp(n) \in Nat /\ n <= RoundUp(n)
  OBVIOUS
<1> DEFINE q == (n + max_waste - 1) \div max_waste
           r == (n + max_waste - 1) % max_waste
<1>1. n \in Nat /\ max_waste \in Nat \ {0} /\ n + max_waste - 1 \in Nat
  BY Constants
<1>2. n + max_waste - 1 = max_waste * q + r /\ r \in 0..(max_waste - 1) /\ q \in Nat
  BY <1>1
<1>3. max_waste * q \in Nat /\ q * max_waste = max_waste * q
  BY <1>1, <1>2
<1> HIDE DEF q, r
<1>4. n <= max_waste * q
  BY <1>1, <1>2, <1>3
<1> QED
  BY <1>3, <1>4 DEF RoundUp, q

(* The counter wraps, and names an output surface of the ring.             *)
LEMMA RingTurns ==
  \A n \in 0..(CounterSpan - 1) : NextQueued(n) \in 0..(CounterSpan - 1) /\ IndexAfter(n) \in Ring
<1> SUFFICES ASSUME NEW n \in 0..(CounterSpan - 1)
             PROVE  NextQueued(n) \in 0..(CounterSpan - 1) /\ IndexAfter(n) \in Ring
  OBVIOUS
<1>1. NextQueued(n) \in 0..(CounterSpan - 1)
  BY Constants DEF NextQueued
<1>2. NextQueued(n) % 2 \in 0..1
  BY <1>1, Constants
<1> QED
  BY <1>1, <1>2 DEF IndexAfter, Ring, VDPAU_MAX_OUTPUT_SURFACES

(* Queueing the picture, or failing to.                                    *)
LEMMA FlipTypes ==
  ASSUME TypeOK, Flip \/ FlipFails
  PROVE  /\ queue' \in Seq(Ring) /\ displayed' \in Ring /\ current' \in Ring
         /\ queued' \in 0..(CounterSpan - 1) /\ drawn' \in [Ring -> SUBSET AllFields]
         /\ mishaps' \subseteq {"resize", "display"}
<1>1. /\ queue \in Seq(Ring) /\ displayed \in Ring /\ current \in Ring
      /\ queued \in 0..(CounterSpan - 1) /\ drawn \in [Ring -> SUBSET AllFields]
      /\ mishaps \subseteq {"resize", "display"}
  BY DEF TypeOK
<1>2. CASE Flip
  BY <1>1, <1>2, AppendProperties, RingTurns DEF Flip
<1>3. CASE FlipFails
  BY <1>1, <1>3 DEF FlipFails
<1> QED
  BY <1>2, <1>3

(* A call that returns has no arguments left.                              *)
LEMMA ThreadTypes ==
  ASSUME TypeOK, NEW t \in Threads
  PROVE  /\ \A label \in Labels \ {"idle"} : GoTo(t, label) /\ UNCHANGED arg /\ pc[t] # "idle" =>
              /\ pc' \in [Threads -> Labels] /\ arg' \in [Threads -> Calls \cup {NONE}]
              /\ \A u \in Threads : arg'[u] = NONE <=> pc'[u] = "idle"
         /\ Return(t) =>
              /\ pc' \in [Threads -> Labels] /\ arg' \in [Threads -> Calls \cup {NONE}]
              /\ \A u \in Threads : arg'[u] = NONE <=> pc'[u] = "idle"
BY DEF TypeOK, GoTo, Return, Labels, Calls

(* A call begins.                                                          *)
LEMMA PutTypes ==
  ASSUME TypeOK, NEW t \in Threads, NEW s \in Surfaces, NEW f \in FieldSets, PutSurface(t, s, f)
  PROVE  TypeOK'
<1>1. pc' \in [Threads -> Labels] /\ arg' \in [Threads -> Calls \cup {NONE}]
      /\ \A u \in Threads : arg'[u] = NONE <=> pc'[u] = "idle"
  <2> DEFINE call == [surface |-> s, fields |-> f, size |-> window]
  <2>1. call \in Calls /\ call # NONE
    BY Constants DEF TypeOK, Calls
  <2>2. arg' = [arg EXCEPT ![t] = call]
    BY DEF PutSurface
  <2>3. \E label \in {"flush", "size"} : pc' = [pc EXCEPT ![t] = label]
    BY DEF PutSurface, GoTo
  <2> HIDE DEF call
  <2> QED
    BY <2>1, <2>2, <2>3 DEF TypeOK, Labels, Calls
<1> QED
  BY <1>1 DEF PutSurface, TypeOK, displayVars, outputVars, Calls

(* A call goes on.                                                         *)
LEMMA StepTypes ==
  ASSUME TypeOK, NEW t \in Threads, Step(t)
  PROVE  TypeOK'
<1> USE DEF displayVars, outputVars, flipFrame
<1>1. arg[t] # NONE => arg[t] \in Calls
  BY DEF TypeOK, Calls
<1>2. arg[t] # NONE => arg[t].surface \in Surfaces /\ arg[t].fields \in FieldSets /\ arg[t].size \in Sizes
  BY <1>1 DEF Calls
<1>3. CASE Flush(t) \/ Queue(t)
  <2>1. arg[t].surface \in Surfaces
    BY <1>2, <1>3 DEF Flush, Queue, TypeOK
  <2>2. /\ pc' \in [Threads -> Labels] /\ arg' \in [Threads -> Calls \cup {NONE}]
        /\ \A u \in Threads : arg'[u] = NONE <=> pc'[u] = "idle"
    BY <1>3, ThreadTypes DEF Flush, Queue, Labels
  <2>3. (Flip \/ FlipFails) /\ QueueSurface(t) /\ UNCHANGED flipFrame
    BY <1>3 DEF Flush, Queue
  <2>4. status' \in [Surfaces -> {"ready", "displaying"}] /\ fields' \subseteq AllFields
    BY <2>1, <2>3 DEF QueueSurface, TypeOK
  <2> QED
    BY <2>2, <2>3, <2>4, FlipTypes DEF TypeOK, Calls
<1>4. CASE EnsureSize(t)
  <2> DEFINE w == arg[t].size
             grows == w > max_size
             kept == [i \in Ring |-> exists[i] /\ ~grows]
  <2>1. arg[t].surface \in Surfaces /\ w \in Sizes
    BY <1>2, <1>4 DEF EnsureSize, TypeOK
  <2>2. /\ pc' \in [Threads -> Labels] /\ arg' \in [Threads -> Calls \cup {NONE}]
        /\ \A u \in Threads : arg'[u] = NONE <=> pc'[u] = "idle"
    <3>1. pc[t] # "idle" /\ ((GoTo(t, "wait") /\ UNCHANGED arg) \/ Return(t))
      BY <1>4 DEF EnsureSize
    <3> QED
      BY <3>1, ThreadTypes DEF Labels
  <2>3. max_size' \in Nat /\ size' \in Sizes
    BY <1>4, <2>1, RoundUpCovers DEF EnsureSize, TypeOK
  <2>4. exists' \in [Ring -> BOOLEAN] /\ dirty' \in [Ring -> BOOLEAN]
    <3>1. exists' = kept \/ exists' = [kept EXCEPT ![current] = TRUE]
      BY <1>4 DEF EnsureSize
    <3>2. kept \in [Ring -> BOOLEAN]
      OBVIOUS
    <3>3. dirty' \in [Ring -> BOOLEAN]
      BY <1>4 DEF EnsureSize
    <3> HIDE DEF kept
    <3> QED
      BY <3>1, <3>2, <3>3
  <2>5. drawn' \in [Ring -> SUBSET AllFields]
    BY <1>4 DEF EnsureSize, TypeOK
  <2>6. queue' \in Seq(Ring) /\ visible' \in Ring \cup {NONE}
    BY <1>4, EmptySeq DEF EnsureSize, TypeOK
  <2>7. status' \in [Surfaces -> {"ready", "displaying"}]
    BY <1>4, <2>1 DEF EnsureSize, TypeOK
  <2>8. UNCHANGED <<window, current, displayed, queued, fields, syncing, mishaps>>
    BY <1>4 DEF EnsureSize
  <2> QED
    BY <2>2, <2>3, <2>4, <2>5, <2>6, <2>7, <2>8 DEF TypeOK, Calls
<1>5. CASE Wait(t) \/ WaitFails(t)
  <2>1. /\ pc' \in [Threads -> Labels] /\ arg' \in [Threads -> Calls \cup {NONE}]
        /\ \A u \in Threads : arg'[u] = NONE <=> pc'[u] = "idle"
    BY <1>5, ThreadTypes DEF Wait, WaitFails, Labels
  <2> QED
    BY <1>5, <2>1 DEF Wait, WaitFails, TypeOK, Calls
<1>6. CASE Render(t)
  <2>1. arg[t].fields \subseteq AllFields
    BY <1>2, <1>6, Constants DEF Render, TypeOK
  <2>2. /\ pc' \in [Threads -> Labels] /\ arg' \in [Threads -> Calls \cup {NONE}]
        /\ \A u \in Threads : arg'[u] = NONE <=> pc'[u] = "idle"
    <3>1. pc[t] # "idle" /\ ((GoTo(t, "queue") /\ UNCHANGED arg) \/ Return(t))
      BY <1>6 DEF Render
    <3> QED
      BY <3>1, ThreadTypes DEF Labels
  <2>3. /\ dirty' \in [Ring -> BOOLEAN] /\ drawn' \in [Ring -> SUBSET AllFields]
        /\ fields' \subseteq AllFields
    BY <1>6, <2>1 DEF Render, MarkDirty, TypeOK
  <2>4. UNCHANGED <<displayVars, exists, size, max_size, current, displayed, queued, status, syncing, mishaps>>
    BY <1>6 DEF Render
  <2> QED
    BY <2>2, <2>3, <2>4 DEF TypeOK, Calls
<1>7. CASE RenderFails(t)
  <2>1. /\ pc' \in [Threads -> Labels] /\ arg' \in [Threads -> Calls \cup {NONE}]
        /\ \A u \in Threads : arg'[u] = NONE <=> pc'[u] = "idle"
    BY <1>7, ThreadTypes DEF RenderFails
  <2> QED
    BY <1>7, <2>1 DEF RenderFails, MarkDirty, TypeOK, Calls
<1> QED
  BY <1>3, <1>4, <1>5, <1>6, <1>7 DEF Step

(* vaSyncSurface, the presentation queue and the window.                   *)
LEMMA OtherTypes ==
  ASSUME TypeOK
  PROVE  /\ \A s \in Surfaces : SyncSurface(s) => TypeOK'
         /\ SyncReturns => TypeOK'
         /\ Present => TypeOK'
         /\ \A n \in Sizes : Resize(n) => TypeOK'
<1> USE DEF displayVars, outputVars, threadVars
<1>1. ASSUME NEW s \in Surfaces, SyncSurface(s) PROVE TypeOK'
  BY <1>1 DEF SyncSurface, TypeOK
<1>2. CASE SyncReturns
  BY <1>2 DEF SyncReturns, TypeOK
<1>3. CASE Present
  <2>1. queue \in Seq(Ring) /\ queue # <<>>
    BY <1>3 DEF Present, TypeOK
  <2>2. Head(queue) \in Ring /\ Tail(queue) \in Seq(Ring)
    BY <2>1, HeadTailProperties
  <2> QED
    BY <1>3, <2>2 DEF Present, TypeOK
<1>4. ASSUME NEW n \in Sizes, Resize(n) PROVE TypeOK'
  BY <1>4 DEF Resize, TypeOK
<1> QED
  BY <1>1, <1>2, <1>3, <1>4

(* Initial types.                                                          *)
LEMMA TypeInit == Init => TypeOK
<1>1. 0 \in 0..(CounterSpan - 1) /\ <<>> \in Seq(Ring)
  BY Constants, EmptySeq
<1> QED
  BY <1>1, Constants DEF Init, TypeOK, Labels

(* Every step keeps the types.                                             *)
LEMMA TypeNext == TypeOK /\ [Next]_vars => TypeOK'
<1> SUFFICES ASSUME TypeOK, [Next]_vars PROVE TypeOK'
  OBVIOUS
<1>1. CASE Next
  BY <1>1, PutTypes, StepTypes, OtherTypes DEF Next
<1>2. CASE UNCHANGED vars
  BY <1>2 DEF TypeOK, vars, displayVars, outputVars, threadVars
<1> QED
  BY <1>1, <1>2

(***************************************************************************)
(* Every variable keeps its type: the counter of queued pictures wraps,    *)
(* and its index stays in the ring, with any number of threads and sizes.  *)
(***************************************************************************)
THEOREM TypeCorrect == Spec => []TypeOK
BY TypeInit, TypeNext, PTL DEF Spec

-----------------------------------------------------------------------------
(***************************************************************************)
(* One thread, a window that was not resized yet.                          *)
(***************************************************************************)
putVars == <<queue, visible, exists, dirty, size, max_size, current, fields, drawn, pc>>

(* Steps that touch nothing of the ring.                                   *)
LEMMA PutFrame ==
  ASSUME RingInv, TypeOK', UNCHANGED putVars
  PROVE  RingInv'
BY DEF RingInv, UsedAreDirty, SizesFit, FieldsAreDrawn, CallsKnow, IsIdle, putVars

(* vaPutSurface is called while no other call is in progress.              *)
LEMMA PutKeeps ==
  ASSUME RingInv, TypeOK', NEW t \in Threads, NEW s \in Surfaces, NEW f \in FieldSets,
         PutSurface(t, s, f)
  PROVE  RingInv'
<1>1. /\ UNCHANGED <<queue, visible, exists, dirty, size, max_size, current, fields, drawn>>
      /\ pc' = [pc EXCEPT ![t] = IF fields \cap f # {} THEN "flush" ELSE "size"]
  BY DEF PutSurface, displayVars, outputVars, GoTo
<1>2. CallsKnow'
  BY <1>1 DEF RingInv, TypeOK, CallsKnow, IsIdle
<1> QED
  BY <1>1, <1>2 DEF RingInv, UsedAreDirty, SizesFit, FieldsAreDrawn, IsIdle

(* The output surface that goes to the queue has been rendered into.       *)
LEMMA QueueKeeps ==
  ASSUME RingInv, TypeOK', OneThread, NEW t \in Threads, Flush(t) \/ Queue(t)
  PROVE  RingInv'
<1>1. /\ Flip \/ FlipFails
      /\ UNCHANGED <<visible, exists, dirty, size, max_size>>
      /\ fields' = {}
  BY DEF Flush, Queue, QueueSurface, flipFrame
<1>2. \A u \in Threads : pc'[u] \in {"size", "idle"}
  <2>1. pc' = [pc EXCEPT ![t] = "size"] \/ pc' = [pc EXCEPT ![t] = "idle"]
    BY DEF Flush, Queue, GoTo, Return
  <2> QED
    BY <2>1 DEF OneThread, RingInv, TypeOK
<1>3. CallsKnow'
  BY <1>2 DEF CallsKnow
<1>4. exists[current] /\ dirty[current]
  BY DEF RingInv, CallsKnow, FieldsAreDrawn, Flush, Queue
<1>5. UsedAreDirty'
  <2>1. CASE Flip
    <3>1. queue \in Seq(Ring) /\ current \in Ring
      BY DEF RingInv, TypeOK
    <3>2. Range(Append(queue, current)) \subseteq Range(queue) \cup {current}
      <4>1. /\ Len(queue) \in Nat /\ DOMAIN queue = 1..Len(queue)
            /\ DOMAIN Append(queue, current) = 1..(Len(queue) + 1)
            /\ \A i \in 1..Len(queue) : Append(queue, current)[i] = queue[i]
            /\ Append(queue, current)[Len(queue) + 1] = current
        BY <3>1, AppendProperties, LenProperties
      <4> QED
        BY <4>1 DEF Range
    <3>3. queue' = Append(queue, current)
      BY <2>1 DEF Flip
    <3> QED
      BY <1>1, <1>4, <3>2, <3>3 DEF RingInv, UsedAreDirty, IsIdle
  <2>2. CASE FlipFails
    BY <1>1, <2>2 DEF FlipFails, RingInv, UsedAreDirty, IsIdle
  <2> QED
    BY <1>1, <2>1, <2>2
<1>6. SizesFit' /\ FieldsAreDrawn'
  BY <1>1 DEF RingInv, SizesFit, FieldsAreDrawn
<1> QED
  BY <1>3, <1>5, <1>6 DEF RingInv

(***************************************************************************)
(* output_surface_ensure_size allocates once, and then never clears a flag.*)
(***************************************************************************)
LEMMA EnsureKeeps ==
  ASSUME RingInv, TypeOK', OneThread, Steady, NEW t \in Threads, EnsureSize(t)
  PROVE  RingInv'
<1> DEFINE w == arg[t].size
           grows == w > max_size
<1>1. w = size /\ w \in Sizes
  <2>1. arg[t] \in Calls
    BY DEF RingInv, TypeOK, EnsureSize, Calls
  <2>2. w \in Sizes /\ size \in Sizes
    BY <2>1 DEF RingInv, TypeOK, Calls
  <2>3. arg[t] # NONE
    BY DEF RingInv, TypeOK, EnsureSize
  <2> QED
    BY <2>2, <2>3 DEF Steady
<1>2. /\ size' = size
      /\ max_size' = IF grows THEN RoundUp(w) ELSE max_size
      /\ \A i \in Ring : dirty'[i] = (dirty[i] /\ exists[i] /\ ~grows)
      /\ \A i \in Ring : drawn'[i] = IF exists[i] /\ ~grows THEN drawn[i] ELSE {}
      /\ queue' = IF grows THEN <<>> ELSE queue
      /\ visible' = IF grows THEN NONE ELSE visible
      /\ UNCHANGED <<current, fields>>
  BY <1>1 DEF EnsureSize
<1>3. /\ \A i \in Ring : exists[i] /\ ~grows => exists'[i]
      /\ \A u \in Threads : pc'[u] = "idle" \/ (pc'[u] = "wait" /\ exists'[current])
  <2>1. current \in Ring /\ pc \in [Threads -> Labels]
    BY DEF RingInv, TypeOK
  <2>2. \/ /\ exists' = [[i \in Ring |-> exists[i] /\ ~grows] EXCEPT ![current] = TRUE]
           /\ pc' = [pc EXCEPT ![t] = "wait"]
        \/ /\ exists' = [i \in Ring |-> exists[i] /\ ~grows]
           /\ pc' = [pc EXCEPT ![t] = "idle"]
    BY DEF EnsureSize, GoTo, Return
  <2> HIDE DEF grows
  <2> QED
    BY <2>1, <2>2 DEF OneThread
<1>4. CallsKnow'
  BY <1>2, <1>3 DEF CallsKnow
<1>5. CASE grows
  <2>1. \A i \in Ring : ~exists[i]
    BY <1>1, <1>5, Constants DEF RingInv, SizesFit, TypeOK
  <2>2. fields' = {}
    BY <1>2, <2>1 DEF RingInv, FieldsAreDrawn, TypeOK
  <2>3. UsedAreDirty'
    <3>1. Range(<<>>) = {}
      BY DEF Range
    <3> QED
      BY <1>2, <1>5, <3>1, Constants DEF UsedAreDirty, IsIdle
  <2>4. SizesFit'
    BY <1>1, <1>2, <1>5, RoundUpCovers DEF SizesFit
  <2>5. FieldsAreDrawn'
    BY <2>2 DEF FieldsAreDrawn
  <2> QED
    BY <1>4, <2>3, <2>4, <2>5 DEF RingInv
<1>6. CASE ~grows
  <2>1. UsedAreDirty'
    BY <1>2, <1>3, <1>6 DEF RingInv, UsedAreDirty, IsIdle
  <2>2. SizesFit'
    BY <1>1, <1>2, <1>6, Constants DEF SizesFit, RingInv, TypeOK
  <2>3. FieldsAreDrawn'
    BY <1>2, <1>3, <1>6 DEF RingInv, FieldsAreDrawn, TypeOK
  <2> QED
    BY <1>4, <2>1, <2>2, <2>3 DEF RingInv
<1> QED
  BY <1>5, <1>6

(* An output surface that is not dirty is idle, a dirty one is waited for. *)
LEMMA WaitKeeps ==
  ASSUME RingInv, TypeOK', OneThread, NEW t \in Threads, Wait(t) \/ WaitFails(t)
  PROVE  RingInv'
<1>1. UNCHANGED <<queue, visible, exists, dirty, size, max_size, current, fields, drawn>>
  BY DEF Wait, WaitFails, displayVars, outputVars
<1>2. CallsKnow'
  <2>1. current \in Ring /\ pc \in [Threads -> Labels] /\ pc[t] = "wait"
    BY DEF RingInv, TypeOK, Wait, WaitFails
  <2>2. CASE Wait(t)
    <3>1. exists[current] /\ IsIdle(current)
      BY <2>1, <2>2 DEF Wait, RingInv, CallsKnow, UsedAreDirty
    <3>2. \A u \in Threads : pc'[u] = "render"
      BY <2>1, <2>2 DEF Wait, GoTo, OneThread
    <3> QED
      BY <1>1, <3>1, <3>2 DEF CallsKnow, IsIdle
  <2>3. CASE WaitFails(t)
    <3>1. \A u \in Threads : pc'[u] = "idle"
      BY <2>1, <2>3 DEF WaitFails, Return, GoTo, OneThread
    <3> QED
      BY <3>1 DEF CallsKnow
  <2> QED
    BY <2>2, <2>3
<1> QED
  BY <1>1, <1>2 DEF RingInv, UsedAreDirty, SizesFit, FieldsAreDrawn, IsIdle

(* What is rendered becomes dirty, whether rendering fails or not.         *)
LEMMA RenderKeeps ==
  ASSUME RingInv, TypeOK', OneThread, NEW t \in Threads, Render(t) \/ RenderFails(t)
  PROVE  RingInv'
<1>1. /\ UNCHANGED <<queue, visible, exists, size, max_size, current>>
      /\ dirty' = [dirty EXCEPT ![current] = TRUE]
  BY DEF Render, RenderFails, displayVars, MarkDirty
<1>2. /\ current \in Ring /\ pc \in [Threads -> Labels] /\ exists[current]
      /\ dirty \in [Ring -> BOOLEAN] /\ drawn \in [Ring -> SUBSET AllFields]
  BY DEF RingInv, TypeOK, CallsKnow, Render, RenderFails
<1>3. dirty'[current] = TRUE /\ \A i \in Ring : dirty[i] => dirty'[i]
  BY <1>1, <1>2
<1>4. FieldsAreDrawn'
  <2>1. fields \subseteq drawn[current]
    BY DEF RingInv, FieldsAreDrawn
  <2>2. CASE Render(t)
    <3>1. fields' = fields \cup arg[t].fields /\ drawn'[current] = drawn[current] \cup arg[t].fields
      BY <1>2, <2>2 DEF Render
    <3> QED
      BY <1>1, <1>2, <1>3, <2>1, <3>1 DEF FieldsAreDrawn
  <2>3. CASE RenderFails(t)
    BY <1>1, <1>2, <1>3, <2>1, <2>3 DEF FieldsAreDrawn, RenderFails
  <2> QED
    BY <2>2, <2>3
<1>5. CallsKnow'
  <2>1. \A u \in Threads : pc'[u] = "idle" \/ (pc'[u] = "queue" /\ fields' = AllFields)
    BY <1>2 DEF Render, RenderFails, Return, GoTo, IsComplete, OneThread
  <2> QED
    BY <1>1, <1>2, <1>3, <2>1 DEF CallsKnow
<1>6. UsedAreDirty' /\ SizesFit'
  BY <1>1, <1>3 DEF RingInv, UsedAreDirty, SizesFit, IsIdle
<1> QED
  BY <1>4, <1>5, <1>6 DEF RingInv

(* The presentation queue only makes output surfaces idle.                 *)
LEMMA PresentKeeps ==
  ASSUME RingInv, TypeOK', Present
  PROVE  RingInv'
<1>1. /\ queue \in Seq(Ring) /\ queue # <<>> /\ visible' = Head(queue) /\ queue' = Tail(queue)
      /\ UNCHANGED <<exists, dirty, size, max_size, current, fields, drawn, pc>>
  BY DEF Present, outputVars, threadVars, RingInv, TypeOK
<1>2. Head(queue) \in Range(queue) /\ Range(Tail(queue)) \subseteq Range(queue)
  <2>1. /\ DOMAIN queue = 1..Len(queue) /\ Len(queue) \in Nat \ {0} /\ Head(queue) = queue[1]
    BY <1>1, LenProperties, EmptySeq
  <2>2. /\ DOMAIN Tail(queue) = 1..(Len(queue) - 1)
        /\ \A i \in 1..(Len(queue) - 1) : Tail(queue)[i] = queue[i + 1]
    BY <1>1, <2>1, HeadTailProperties, LenProperties
  <2> QED
    BY <2>1, <2>2 DEF Range
<1>3. UsedAreDirty'
  BY <1>1, <1>2 DEF RingInv, UsedAreDirty, IsIdle
<1>4. CallsKnow'
  <2> SUFFICES ASSUME NEW u \in Threads, pc[u] = "render" PROVE IsIdle(current)'
    BY <1>1 DEF RingInv, CallsKnow
  <2>1. IsIdle(current) /\ TRUE
    BY DEF RingInv, CallsKnow
  <2> QED
    BY <1>1, <1>2, <2>1 DEF IsIdle
<1> QED
  BY <1>1, <1>3, <1>4 DEF RingInv, SizesFit, FieldsAreDrawn

(* At first no output surface exists.                                      *)
LEMMA PutInit == Init => PutInv
<1> SUFFICES ASSUME Init PROVE PutInv
  OBVIOUS
<1>1. TypeOK
  BY TypeInit
<1>2. Range(<<>>) = {}
  BY DEF Range
<1>3. UsedAreDirty /\ SizesFit /\ FieldsAreDrawn /\ CallsKnow
  BY <1>2, Constants DEF Init, UsedAreDirty, SizesFit, FieldsAreDrawn, CallsKnow, IsIdle
<1>4. Steady
  BY DEF Init, Steady
<1> QED
  BY <1>1, <1>3, <1>4 DEF PutInv, RingInv

(* Only the window manager resizes the window, and that is remembered.     *)
LEMMA Remembered ==
  ASSUME [Next]_vars, ~Resized'
  PROVE  ~Resized /\ \A n \in Sizes : ~Resize(n)
<1>1. mishaps \subseteq mishaps'
  BY DEF Next, Step, PutSurface, Flush, Queue, Flip, FlipFails, EnsureSize, Wait, WaitFails, Render,
         RenderFails, SyncSurface, SyncReturns, Present, Resize, vars
<1> QED
  BY <1>1 DEF Resized, Resize

(***************************************************************************)
(* Calls ask for the size the window has, and keep to it.                  *)
(***************************************************************************)
LEMMA SteadyKept ==
  ASSUME TypeOK, Steady, [Next]_vars, \A n \in Sizes : ~Resize(n)
  PROVE  Steady'
<1> USE DEF Steady
<1>1. arg \in [Threads -> Calls \cup {NONE}]
  BY DEF TypeOK, Calls
<1>2. ASSUME NEW t \in Threads, NEW s \in Surfaces, NEW f \in FieldSets, PutSurface(t, s, f)
      PROVE  Steady'
  BY <1>1, <1>2 DEF PutSurface, displayVars, outputVars
<1>3. ASSUME NEW t \in Threads, Step(t)
      PROVE  Steady'
  <2>1. UNCHANGED window /\ (UNCHANGED arg \/ arg' = [arg EXCEPT ![t] = NONE])
    BY <1>3 DEF Step, Flush, Queue, EnsureSize, Wait, WaitFails, Render, RenderFails, Return,
                flipFrame, displayVars
  <2>2. arg[t] # NONE
    BY <1>3 DEF Step, Flush, Queue, EnsureSize, Wait, WaitFails, Render, RenderFails, TypeOK
  <2>3. size' = size \/ size' = arg[t].size
    BY <1>3 DEF Step, Flush, Queue, EnsureSize, Wait, WaitFails, Render, RenderFails,
                flipFrame, outputVars
  <2> QED
    BY <1>1, <2>1, <2>2, <2>3
<1>4. ASSUME UNCHANGED <<window, size, arg>>
      PROVE  Steady'
  BY <1>4
<1>5. CASE SyncReturns \/ Present \/ \E s \in Surfaces : SyncSurface(s)
  BY <1>4, <1>5 DEF SyncReturns, Present, SyncSurface, displayVars, outputVars, threadVars
<1>6. CASE UNCHANGED vars
  BY <1>4, <1>6 DEF vars, displayVars, outputVars, threadVars
<1> QED
  BY <1>2, <1>3, <1>5, <1>6 DEF Next

(* Every step but a resize keeps the ring.                                 *)
LEMMA RingNext ==
  ASSUME OneThread, RingInv, Steady, [Next]_vars, \A n \in Sizes : ~Resize(n)
  PROVE  RingInv'
<1>0. TypeOK'
  BY TypeNext DEF RingInv
<1>1. ASSUME NEW s \in Surfaces, SyncSurface(s) PROVE RingInv'
  BY <1>0, <1>1, PutFrame DEF SyncSurface, displayVars, outputVars, threadVars, putVars
<1>2. CASE SyncReturns
  BY <1>0, <1>2, PutFrame DEF SyncReturns, displayVars, outputVars, threadVars, putVars
<1>3. CASE UNCHANGED vars
  BY <1>0, <1>3, PutFrame DEF vars, displayVars, outputVars, threadVars, putVars
<1>4. ASSUME NEW t \in Threads, Step(t) PROVE RingInv'
  BY <1>0, <1>4, QueueKeeps, EnsureKeeps, WaitKeeps, RenderKeeps DEF Step
<1> QED
  BY <1>0, <1>1, <1>2, <1>3, <1>4, PutKeeps, PresentKeeps DEF Next

(* Every step keeps the invariant.                                         *)
LEMMA PutNext ==
  ASSUME OneThread, PutInv, [Next]_vars
  PROVE  PutInv'
<1>1. TypeOK'
  BY TypeNext DEF PutInv
<1>2. ASSUME ~Resized' PROVE RingInv' /\ Steady'
  <2>1. ~Resized /\ \A n \in Sizes : ~Resize(n)
    BY <1>2, Remembered
  <2>2. TypeOK /\ RingInv /\ Steady
    BY <2>1 DEF PutInv
  <2> QED
    BY <2>1, <2>2, RingNext, SteadyKept
<1> QED
  BY <1>1, <1>2 DEF PutInv

(***************************************************************************)
(* The inductive invariant of one window: what VDPAU may still read has    *)
(* its dirty flag, and the fields of the picture are where they belong,    *)
(* as long as the window keeps its first size.                             *)
(***************************************************************************)
THEOREM PutInvariant ==
  ASSUME OneThread
  PROVE  Spec => []PutInv
<1>1. PutInv /\ [Next]_vars => PutInv'
  BY PutNext
<1> QED
  BY <1>1, PutInit, PTL DEF Spec

(***************************************************************************)
(* A picture is only rendered into an output surface VDPAU is done with,   *)
(* whatever calls failed before and however long the presentation queue    *)
(* is, if one thread puts, until the window is resized.                    *)
(***************************************************************************)
THEOREM RendersIdle ==
  ASSUME OneThread
  PROVE  Spec => []RendersOnlyIdle
<1>1. PutInv => RendersOnlyIdle
  BY DEF PutInv, RingInv, CallsKnow, RendersOnlyIdle
<1> QED
  BY <1>1, PutInvariant, PTL

(***************************************************************************)
(* What put_surface_unlocked queues at its end holds both fields of the    *)
(* picture, under the same assumptions.                                    *)
(***************************************************************************)
THEOREM FramesAreComplete ==
  ASSUME OneThread
  PROVE  Spec => []QueuedFrameIsComplete
<1>1. PutInv => QueuedFrameIsComplete
  BY DEF PutInv, RingInv, TypeOK, FieldsAreDrawn, CallsKnow, QueuedFrameIsComplete
<1> QED
  BY <1>1, PutInvariant, PTL

=============================================================================
