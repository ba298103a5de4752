------------------------------ MODULE PutSurface ------------------------------
(***************************************************************************)
(* vdpau_video_x11.c: vaPutSurface on one window.  A window has a ring of  *)
(* two VDPAU output surfaces; a picture is rendered into one while the     *)
(* presentation queue shows the other.  Threads that put, a thread in      *)
(* vaSyncSurface, the presentation queue and the window manager interleave *)
(* between the VDPAU calls.  output_surface_lock has an empty body, so     *)
(* nothing keeps two threads in put_surface apart.                         *)
(*                                                                         *)
(* Abstractions: a size is one number.  Rectangles, the background and the *)
(* subpictures are left out.  Field pictures are those of the flags        *)
(* VA_TOP_FIELD and VA_BOTTOM_FIELD, a frame has both.                     *)
(***************************************************************************)
EXTENDS Naturals, Sequences, FiniteSets, Functions

CONSTANTS
  Threads,      (* threads that call vaPutSurface                          *)
  Surfaces,     (* VA surfaces                                             *)
  Sizes,        (* sizes the window takes                                  *)
  max_waste,    (* granularity of output surface sizes (256 in the code)   *)
  CounterSpan,  (* queued_surfaces wraps here (2^32 in the code)           *)
  QueueLimit,   (* entries of the presentation queue; a full one blocks    *)
  FieldSets,    (* fields put by one call                                  *)
  Failures,     (* VDPAU calls may fail                                    *)
  NONE

VDPAU_MAX_OUTPUT_SURFACES == 2
Ring == 0..(VDPAU_MAX_OUTPUT_SURFACES - 1)
AllFields == {"top", "bottom"}

ASSUME PutAssumption ==
  /\ Sizes \subseteq Nat /\ Sizes # {} /\ max_waste \in Nat \ {0}
  /\ QueueLimit \in Nat \ {0}
  /\ CounterSpan \in Nat \ {0} /\ CounterSpan % VDPAU_MAX_OUTPUT_SURFACES = 0
  /\ FieldSets \subseteq (SUBSET AllFields) \ {{}}
  /\ Failures \in BOOLEAN
  /\ NONE \notin Ring \cup Surfaces
  /\ NONE \notin [surface : Surfaces, fields : FieldSets, size : Sizes]

VARIABLES
  window,       (* external: the size of the window                        *)
  queue,        (* external: ring entries queued for display, in order     *)
  visible,      (* external: the ring entry on the screen                  *)
  exists,       (* vdp_output_surfaces[i] # VDP_INVALID_HANDLE             *)
  dirty,        (* vdp_output_surfaces_dirty                               *)
  size,         (* width and height                                        *)
  max_size,     (* max_width and max_height                                *)
  current,      (* current_output_surface                                  *)
  displayed,    (* displayed_output_surface                                *)
  queued,       (* queued_surfaces                                         *)
  fields,       (* fields put since the last frame was queued              *)
  status,       (* va_surface_status                                       *)
  pc, arg,      (* where each thread is in put_surface, and its arguments  *)
  syncing,      (* the surface sync_surface waits for                      *)
  drawn,        (* history: fields in each output surface since its last   *)
                (* display                                                 *)
  mishaps       (* history: the window was resized ("resize"), a display   *)
                (* call failed ("display")                                 *)

displayVars == <<window, queue, visible>>
outputVars  == <<exists, dirty, size, max_size, current, displayed, queued, fields, drawn>>
threadVars  == <<pc, arg>>
vars == <<displayVars, outputVars, threadVars, status, syncing, mishaps>>

(* VDPAU is done with an output surface.                                   *)
IsIdle(i) == i # visible /\ i \notin Range(queue)

Init ==
  /\ window \in Sizes /\ queue = <<>> /\ visible = NONE
  /\ exists = [i \in Ring |-> FALSE] /\ dirty = [i \in Ring |-> FALSE]
  /\ size = window /\ max_size = 0
  /\ current = 0 /\ displayed = 0 /\ queued = 0 /\ fields = {}
  /\ status = [s \in Surfaces |-> "ready"]
  /\ pc = [t \in Threads |-> "idle"] /\ arg = [t \in Threads |-> NONE]
  /\ syncing = NONE /\ drawn = [i \in Ring |-> {}] /\ mishaps = {}

GoTo(t, label) == pc' = [pc EXCEPT ![t] = label]
Return(t) ==
  /\ GoTo(t, "idle")
  /\ arg' = [arg EXCEPT ![t] = NONE]
-----------------------------------------------------------------------------
(* vaPutSurface asks X for the size of the window, then calls put_surface. *)
PutSurface(t, s, f) ==
  /\ pc[t] = "idle"
  /\ arg' = [arg EXCEPT ![t] = [surface |-> s, fields |-> f, size |-> window]]
  /\ GoTo(t, IF fields \cap f # {} THEN "flush" ELSE "size")
  /\ UNCHANGED <<displayVars, outputVars, status, syncing, mishaps>>

(***************************************************************************)
(* queue_surface_unlocked and flip_surface_unlocked: the current output    *)
(* surface goes to the presentation queue and the ring turns.              *)
(***************************************************************************)
NextQueued(q) == (q + 1) % CounterSpan
IndexAfterNot(q) == q % VDPAU_MAX_OUTPUT_SURFACES    (* mutant: q++        *)
IndexAfter(q) == NextQueued(q) % VDPAU_MAX_OUTPUT_SURFACES

QueueSurface(t) ==
  /\ status' = [status EXCEPT ![arg[t].surface] = "displaying"]
  /\ fields' = {}

Flip ==
  /\ exists[current] /\ Len(queue) < QueueLimit
  /\ queue' = Append(queue, current)
  /\ displayed' = current
  /\ queued' = NextQueued(queued)
  /\ current' = IndexAfter(queued)
  /\ drawn' = [drawn EXCEPT ![current] = {}]
  /\ UNCHANGED mishaps

FlipFails ==
  /\ Failures \/ ~exists[current]
  /\ mishaps' = mishaps \cup {"display"}
  /\ UNCHANGED <<queue, displayed, queued, current, drawn>>

flipFrame == <<window, visible, exists, dirty, size, max_size, syncing>>

(* The field was put already: a new picture starts, show the old one.      *)
Flush(t) ==
  /\ pc[t] = "flush"
  /\ QueueSurface(t)
  /\ \/ Flip /\ GoTo(t, "size") /\ UNCHANGED arg
     \/ FlipFails /\ Return(t)
  /\ UNCHANGED flipFrame

(* The picture is complete.                                                *)
Queue(t) ==
  /\ pc[t] = "queue"
  /\ QueueSurface(t)
  /\ Flip \/ FlipFails
  /\ Return(t)
  /\ UNCHANGED flipFrame
-----------------------------------------------------------------------------
(***************************************************************************)
(* output_surface_ensure_size.  A window beyond the allocated size costs   *)
(* all output surfaces, any other change of size clears the dirty flags    *)
(* unless the change is still among the pending X events.  The step ends   *)
(* where put_surface_unlocked marks the surface ready.                     *)
(***************************************************************************)
RoundUp(n) == ((n + max_waste - 1) \div max_waste) * max_waste

EnsureSize(t) ==
  LET w     == arg[t].size
      grows == w > max_size
      kept  == [i \in Ring |-> exists[i] /\ ~grows]
  IN
  /\ pc[t] = "size"
  /\ max_size' = IF grows THEN RoundUp(w) ELSE max_size
  /\ \E eventPending \in BOOLEAN :
       LET size_changed == w # size /\ ~eventPending IN
       /\ size' = IF size_changed THEN w ELSE size
       /\ dirty' = [i \in Ring |-> dirty[i] /\ kept[i] /\ ~size_changed]
  /\ drawn' = [i \in Ring |-> IF kept[i] THEN drawn[i] ELSE {}]
  /\ queue' = IF grows THEN <<>> ELSE queue
  /\ visible' = IF grows THEN NONE ELSE visible
  /\ \/ /\ exists' = [kept EXCEPT ![current] = TRUE]
        /\ status' = [status EXCEPT ![arg[t].surface] = "ready"]
        /\ GoTo(t, "wait")
        /\ UNCHANGED arg
     \/ /\ Failures /\ ~kept[current]
        /\ exists' = kept
        /\ Return(t)
        /\ UNCHANGED status
  /\ UNCHANGED <<window, current, displayed, queued, fields, syncing, mishaps>>

(* VdpPresentationQueueBlockUntilSurfaceIdle, for a dirty output surface.  *)
Wait(t) ==
  /\ pc[t] = "wait"
  /\ exists[current] /\ dirty[current] => IsIdle(current)
  /\ GoTo(t, "render")
  /\ UNCHANGED <<displayVars, outputVars, arg, status, syncing, mishaps>>

WaitFails(t) ==
  /\ Failures
  /\ pc[t] = "wait" /\ exists[current] /\ dirty[current]
  /\ Return(t)
  /\ UNCHANGED <<displayVars, outputVars, status, syncing, mishaps>>

(***************************************************************************)
(* render_surface, render_subpictures and the test that ends               *)
(* put_surface_unlocked.  The surface is dirty even if rendering failed.   *)
(***************************************************************************)
MarkDirtyNot(i) == dirty                    (* mutant: the flag is not set *)
MarkDirty(i) == [dirty EXCEPT ![i] = TRUE]
IsAnything(put) == put # {}                 (* mutant: one field suffices  *)
IsComplete(put) == put = AllFields

Render(t) ==
  LET f == arg[t].fields IN
  /\ pc[t] = "render"
  /\ dirty' = MarkDirty(current)
  /\ drawn' = [drawn EXCEPT ![current] = @ \cup f]
  /\ fields' = fields \cup f
  /\ IF IsComplete(fields') THEN GoTo(t, "queue") /\ UNCHANGED arg ELSE Return(t)
  /\ UNCHANGED <<displayVars, exists, size, max_size, current, displayed, queued,
                 status, syncing, mishaps>>

RenderFails(t) ==
  /\ Failures
  /\ pc[t] = "render"
  /\ dirty' = MarkDirty(current)
  /\ Return(t)
  /\ UNCHANGED <<displayVars, exists, size, max_size, current, displayed, queued,
                 fields, drawn, status, syncing, mishaps>>
-----------------------------------------------------------------------------
(***************************************************************************)
(* sync_surface polls query_surface_status: a surface is displayed once    *)
(* the output surface displayed last is on the screen, or gone.            *)
(***************************************************************************)
IsSettledOther == exists[current] => visible = current  (* mutant: index  *)
IsSettled == exists[displayed] => visible = displayed

SyncSurface(s) ==
  /\ syncing = NONE
  /\ syncing' = s
  /\ UNCHANGED <<displayVars, outputVars, threadVars, status, mishaps>>

SyncReturns ==
  /\ syncing # NONE
  /\ status[syncing] = "displaying" => IsSettled
  /\ status' = [status EXCEPT ![syncing] = "ready"]
  /\ syncing' = NONE
  /\ UNCHANGED <<displayVars, outputVars, threadVars, mishaps>>

(* External: the presentation queue shows the next output surface.         *)
Present ==
  /\ queue # <<>>
  /\ visible' = Head(queue)
  /\ queue' = Tail(queue)
  /\ UNCHANGED <<window, outputVars, threadVars, status, syncing, mishaps>>

(* External: the user or the window manager resizes the window.            *)
Resize(n) ==
  /\ n # window
  /\ window' = n
  /\ mishaps' = mishaps \cup {"resize"}
  /\ UNCHANGED <<queue, visible, outputVars, threadVars, status, syncing>>

Step(t) == \/ Flush(t) \/ Queue(t) \/ EnsureSize(t)
           \/ Wait(t) \/ WaitFails(t) \/ Render(t) \/ RenderFails(t)

Next ==
  \/ \E t \in Threads :
       \/ \E s \in Surfaces, f \in FieldSets : PutSurface(t, s, f)
       \/ Step(t)
  \/ \E s \in Surfaces : SyncSurface(s)
  \/ SyncReturns
  \/ Present
  \/ \E n \in Sizes : Resize(n)

Spec == Init /\ [][Next]_vars

(* Threads run, the queue shows what it holds, and sync_surface polls.     *)
(* That a call fails helps nobody: a thread that waits may wait for ever.  *)
Fairness ==
  /\ \A t \in Threads : WF_vars(Flush(t) \/ Queue(t) \/ EnsureSize(t) \/ Wait(t) \/ Render(t))
  /\ WF_vars(Present)
  /\ WF_vars(SyncReturns)

FairSpec == Spec /\ Fairness
-----------------------------------------------------------------------------
Labels == {"idle", "flush", "size", "wait", "render", "queue"}

TypeOK ==
  /\ window \in Sizes /\ queue \in Seq(Ring) /\ visible \in Ring \cup {NONE}
  /\ exists \in [Ring -> BOOLEAN] /\ dirty \in [Ring -> BOOLEAN]
  /\ size \in Sizes /\ max_size \in Nat
  /\ current \in Ring /\ displayed \in Ring /\ queued \in 0..(CounterSpan - 1)
  /\ fields \subseteq AllFields
  /\ status \in [Surfaces -> {"ready", "displaying"}]
  /\ pc \in [Threads -> Labels]
  /\ arg \in [Threads -> [surface : Surfaces, fields : FieldSets, size : Sizes] \cup {NONE}]
  /\ \A t \in Threads : arg[t] = NONE <=> pc[t] = "idle"
  /\ syncing \in Surfaces \cup {NONE}
  /\ drawn \in [Ring -> SUBSET AllFields]
  /\ mishaps \subseteq {"resize", "display"}

(***************************************************************************)
(* A picture is never rendered into an output surface that is on the       *)
(* screen or waits to be shown: the current one has completed its previous *)
(* rendering (put_surface_unlocked waits for it).  So it is, whatever      *)
(* fails, until the window is resized: that clears the dirty flags, and    *)
(* what is not dirty is not waited for.                                    *)
(***************************************************************************)
Resized == "resize" \in mishaps

RendersOnlyIdle ==
  /\ TypeOK
  /\ ~Resized => \A t \in Threads : pc[t] = "render" => IsIdle(current)

(***************************************************************************)
(* What the end of put_surface_unlocked queues is complete, all fields     *)
(* have been mixed into that very output surface, whatever fails in        *)
(* between, until the window is resized and the output surfaces go.        *)
(***************************************************************************)
QueuedFrameIsComplete ==
  ~Resized => \A t \in Threads : pc[t] = "queue" => drawn[current] = AllFields

(***************************************************************************)
(* vaPutSurface does not block for ever: the output surface it waits for   *)
(* is never the last one shown, which VDPAU would not release.             *)
(***************************************************************************)
WaitEnds == \A t \in Threads : pc[t] = "wait" ~> pc[t] # "wait"

(***************************************************************************)
(* vaSyncSurface returns if nothing is put any more and no display call    *)
(* has failed, whatever else did and whenever the window was resized.      *)
(* While pictures keep coming each poll may find a new one that is not on  *)
(* the screen yet.                                                         *)
(***************************************************************************)
Quiet == "display" \notin mishaps /\ \A t \in Threads : pc[t] = "idle"

SyncEnds ==
  <>[]Quiet => \A s \in Surfaces : syncing = s ~> syncing # s
=============================================================================
