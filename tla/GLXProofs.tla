------------------------------- MODULE GLXProofs -------------------------------
(***************************************************************************)
(* Theorems about GLX, for every number of threads, GLX surfaces and GL    *)
(* contexts, and whichever calls fail: GL's rule that a context is current *)
(* in one thread at most is all the locking a GLX surface needs, as long   *)
(* as the application's threads have a context of their own.               *)
(***************************************************************************)
EXTENDS GLX, TLAPS

USE GLXAssumption DEF App

Ops == {"destroy", "associate", "copy", "deassociate", "begin", "end"}
Jobs ==
  [op : Ops, glx : GLXSurfaces, va : VASurfaces \cup {NONE}, flags : SUBSET AllFields,
   old_cs : Contexts, ok : BOOLEAN, texture : VASurfaces \cup {NONE}]

(* Types, as far as the theorems need them.                                *)
Typed ==
  /\ contexts \subseteq OwnContexts
  /\ current \in [Threads -> Contexts]
  /\ glx \in [GLXSurfaces -> GLXObject \cup {NONE}]
  /\ va \subseteq VASurfaces
  /\ pc \in [Threads -> Labels]
  /\ job \in [Threads -> Jobs \cup {NONE}]
  /\ \A t \in Threads : pc[t] # "idle" => job[t] \in Jobs

(* The context a thread has outside of the driver.                         *)
Home(t) == IF pc[t] = "idle" THEN current[t] ELSE job[t].old_cs

(* Each GLX surface has a living context of its own.                       *)
ContextsOwned ==
  /\ \A g \in GLXSurfaces : IsGLX(g) => glx[g].gl_context \in contexts
  /\ \A g, h \in GLXSurfaces :
       IsGLX(g) /\ IsGLX(h) /\ g # h => glx[g].gl_context # glx[h].gl_context

(* The context a thread returns to is its own: the application's, or one   *)
(* that a failed vaCreateSurfaceGLX left behind, and no GLX surface's.     *)
HomesApart ==
  /\ \A t \in Threads : Home(t) \in {App(t)} \cup contexts
  /\ \A t \in Threads, g \in GLXSurfaces : IsGLX(g) => Home(t) # glx[g].gl_context
  /\ \A t, u \in Threads : t # u => Home(t) # Home(u)

(* In a call the surface's context is current; once the surface has been   *)
(* destroyed none is, until the call returns.                              *)
HasContext(t) == IsGLX(job[t].glx) /\ current[t] = Object(t).gl_context
CallsHaveContext ==
  \A t \in Threads :
    /\ pc[t] \notin {"idle", "leave"} => HasContext(t)
    /\ pc[t] = "leave" => HasContext(t) \/ current[t] = NONE

(* GL: a context is current in one thread at most.                         *)
CurrentApart ==
  \A t, u \in Threads : t # u /\ current[t] = current[u] => current[t] = NONE

(* The inductive invariant.                                                *)
ContextInv == Typed /\ ContextsOwned /\ HomesApart /\ CallsHaveContext /\ CurrentApart

(***************************************************************************)
(* Initially each thread has the application's context.                    *)
(***************************************************************************)
LEMMA InitHolds == Init => ContextInv
<1> SUFFICES ASSUME Init PROVE ContextInv
  OBVIOUS
<1>1. Typed
  BY DEF Init, Typed, Contexts, Labels
<1>2. ContextsOwned /\ HomesApart /\ CallsHaveContext /\ CurrentApart
  BY DEF Init, ContextsOwned, HomesApart, Home, IsGLX, CallsHaveContext, CurrentApart
<1> QED
  BY <1>1, <1>2 DEF ContextInv

(***************************************************************************)
(* What makes SurfaceContextsAreFree and OneCallPerSurface true.           *)
(***************************************************************************)
LEMMA FreeBetweenCalls == ContextInv => SurfaceContextsAreFree
BY DEF ContextInv, HomesApart, Home, SurfaceContextsAreFree

(* Two calls on one surface would both have its context.                   *)
LEMMA CallsExclude == ContextInv => OneCallPerSurface
<1> SUFFICES ASSUME ContextInv, NEW t \in Threads, NEW u \in Threads, t # u,
                    pc[t] \notin {"idle", "leave"}, pc[u] \notin {"idle", "leave"},
                    job[t].glx = job[u].glx
             PROVE FALSE
  BY DEF OneCallPerSurface
<1>1. HasContext(t) /\ HasContext(u)
  BY DEF ContextInv, CallsHaveContext
<1>2. current[t] = current[u] /\ current[t] = NONE
  BY <1>1 DEF HasContext, Object, ContextInv, CurrentApart
<1>3. current[t] \in OwnContexts
  <2>1. job[t] \in Jobs
    BY DEF ContextInv, Typed
  <2> QED
    BY <1>1, <2>1 DEF HasContext, Object, ContextInv, ContextsOwned, Typed, Jobs
<1> QED
  BY <1>2, <1>3

(***************************************************************************)
(* A part of a call keeps the surface and its context, whatever comes out. *)
(***************************************************************************)
Same(r, q) == q \in GLXObject /\ q.gl_context = r.gl_context
Keeps(r, outcomes) == \A o \in outcomes : o.ok \in BOOLEAN /\ Same(r, o.object)

(* Fields left alone twice are left alone.                                 *)
LEMMA SameIsTransitive ==
  \A r, q, p : Same(r, q) /\ Same(q, p) => Same(r, p)
BY DEF Same

(* One outcome.                                                            *)
LEMMA OutcomeKeeps ==
  ASSUME NEW r, NEW q, Same(r, q), NEW ok \in BOOLEAN
  PROVE  Outcome(ok, q).ok \in BOOLEAN /\ Same(r, Outcome(ok, q).object)
BY DEF Outcome

(* The outcome of a failure.                                               *)
LEMMA FailedKeeps ==
  ASSUME NEW r, NEW q, Same(r, q), NEW call
  PROVE  Keeps(r, Failed(call, q))
BY OutcomeKeeps DEF Keeps, Failed

(* The assignments to single fields.                                       *)
LEMMA FieldsKeep ==
  ASSUME NEW r \in GLXObject
  PROVE  /\ Same(r, r)
         /\ \A x \in {"none", "released", "bound"} : Same(r, [r EXCEPT !.pixo = x])
         /\ \A x \in {"none", "unmapped", "mapped"} : Same(r, [r EXCEPT !.gl_surface = x])
         /\ \A x \in {"none", "unbound", "bound"} : Same(r, [r EXCEPT !.fbo = x])
         /\ \A x \in VASurfaces \cup {NONE} : Same(r, [r EXCEPT !.va_surface = x])
         /\ \A x \in VASurfaces \cup {NONE} : Same(r, [r EXCEPT !.shows = x])
         /\ \A x \in SUBSET AllFields : Same(r, [r EXCEPT !.fields = x])
         /\ \A x \in {"none", "empty", "made"} : Same(r, [r EXCEPT !.gl_output = x])
BY DEF Same, GLXObject

(* gl_vdpau_unbind_surface and the pixmap object.                          *)
LEMMA KeepsUnbound == \A r \in GLXObject : Keeps(r, Unbound(r))
<1> SUFFICES ASSUME NEW r \in GLXObject PROVE Keeps(r, Unbound(r))
  OBVIOUS
<1>1. Same(r, r) /\ Same(r, [r EXCEPT !.pixo = "released"])
  BY FieldsKeep
<1>2. /\ Keeps(r, {Outcome(TRUE, [r EXCEPT !.pixo = "released"])})
      /\ Keeps(r, {Outcome(TRUE, r)})
      /\ Keeps(r, Failed("unbind", r))
  BY <1>1, OutcomeKeeps, FailedKeeps DEF Keeps
<1> QED
  BY <1>2 DEF Keeps, Unbound

(* deassociate_glx_surface.                                                *)
LEMMA KeepsDeassociated == \A r \in GLXObject : Keeps(r, Deassociated(r))
<1> SUFFICES ASSUME NEW r \in GLXObject, NEW o \in Unbound(r)
             PROVE LET p == IF o.ok THEN Outcome(TRUE, Forget(o.object)) ELSE o
                   IN p.ok \in BOOLEAN /\ Same(r, p.object)
  BY DEF Keeps, Deassociated
<1>1. o.ok \in BOOLEAN /\ Same(r, o.object)
  BY KeepsUnbound DEF Keeps
<1>2. Same(r, Forget(o.object))
  <2>1. Same(o.object, Forget(o.object))
    BY <1>1, FieldsKeep DEF Forget, Same
  <2> QED
    BY <1>1, <2>1, SameIsTransitive
<1> QED
  BY <1>1, <1>2, OutcomeKeeps

(***************************************************************************)
(* associate_glx_surface, with interop and with a pixmap.                  *)
(***************************************************************************)
LEMMA KeepsRendered ==
  ASSUME NEW r \in GLXObject, NEW v \in VASurfaces \cup {NONE}
  PROVE  Keeps(r, Rendered(r, v))
<1> DEFINE made == [r EXCEPT !.gl_output = "made"]
           registered == [made EXCEPT !.gl_surface = "unmapped"]
           empty == [r EXCEPT !.gl_output = "empty"]
<1>1. Same(r, r) /\ Same(r, made) /\ Same(r, registered) /\ Same(r, empty)
  <2>1. Same(r, r) /\ Same(r, made) /\ Same(r, empty)
    BY FieldsKeep
  <2>2. Same(made, registered)
    <3> HIDE DEF made
    <3> QED
      BY <2>1, FieldsKeep DEF Same
  <2> QED
    BY <2>1, <2>2, SameIsTransitive
<1>2. Keeps(r, WithOutput(r))
  <2> HIDE DEF made, registered, empty
  <2>1. /\ Keeps(r, {Outcome(TRUE, r)}) /\ Keeps(r, {Outcome(TRUE, registered)})
        /\ Keeps(r, Failed("output", r)) /\ Keeps(r, Failed("register", made))
        /\ Keeps(r, Failed("color", registered)) /\ Keeps(r, Failed("size", empty))
    BY <1>1, OutcomeKeeps, FailedKeeps DEF Keeps
  <2> QED
    BY <2>1 DEF Keeps, WithOutput, made, registered, empty
<1>3. \A q \in GLXObject : Same(r, q) => Keeps(r, Mixed(q, v))
  <2> SUFFICES ASSUME NEW q \in GLXObject, Same(r, q) PROVE Keeps(r, Mixed(q, v))
    OBVIOUS
  <2>1. Same(q, [q EXCEPT !.shows = v, !.va_surface = v]) /\ Same(q, [q EXCEPT !.shows = NONE])
    BY DEF Same, GLXObject
  <2>2. Same(r, [q EXCEPT !.shows = v, !.va_surface = v]) /\ Same(r, [q EXCEPT !.shows = NONE])
    BY <2>1, SameIsTransitive
  <2>3. /\ Keeps(r, {Outcome(TRUE, [q EXCEPT !.shows = v, !.va_surface = v])})
        /\ Keeps(r, Failed("render", [q EXCEPT !.shows = NONE]))
        /\ Keeps(r, {Outcome(FALSE, q)})
    BY <2>2, OutcomeKeeps, FailedKeeps DEF Keeps
  <2> QED
    BY <2>3 DEF Keeps, Mixed
<1>4. \A o \in WithOutput(r) : Keeps(r, IF o.ok THEN Mixed(o.object, v) ELSE {o})
  BY <1>2, <1>3 DEF Keeps, Same
<1> QED
  BY <1>4 DEF Keeps, Rendered

(* Rendering to the output surface, and queueing it.                       *)
LEMMA KeepsPut ==
  ASSUME NEW r \in GLXObject, NEW v \in VASurfaces \cup {NONE}, NEW f \in SUBSET AllFields
  PROVE  Keeps(r, Put(r, v, f))
<1>1. \A q \in GLXObject : Same(r, q) => Keeps(r, Queued(q, v))
  <2> SUFFICES ASSUME NEW q \in GLXObject, Same(r, q) PROVE Keeps(r, Queued(q, v))
    OBVIOUS
  <2>1. Same(q, [q EXCEPT !.fields = {}, !.shows = v]) /\ Same(q, [q EXCEPT !.fields = {}])
    BY DEF Same, GLXObject
  <2>2. Same(r, [q EXCEPT !.fields = {}, !.shows = v]) /\ Same(r, [q EXCEPT !.fields = {}])
    BY <2>1, SameIsTransitive
  <2>3. /\ Keeps(r, {Outcome(TRUE, [q EXCEPT !.fields = {}, !.shows = v])})
        /\ Keeps(r, Failed("queue", [q EXCEPT !.fields = {}]))
    BY <2>2, OutcomeKeeps, FailedKeeps DEF Keeps
  <2> QED
    BY <2>3 DEF Keeps, Queued
<1>2. \A q \in GLXObject : Same(r, q) => Keeps(r, PutFields(q, v, f))
  <2> SUFFICES ASSUME NEW q \in GLXObject, Same(r, q) PROVE Keeps(r, PutFields(q, v, f))
    OBVIOUS
  <2> DEFINE rest == [q EXCEPT !.fields = @ \cup f]
  <2>1. Same(q, rest)
    BY DEF Same, GLXObject
  <2> HIDE DEF rest
  <2>2. Same(r, rest) /\ rest \in GLXObject
    BY <2>1, SameIsTransitive DEF Same
  <2>3. Keeps(r, Failed("render", q)) /\ Keeps(r, Queued(rest, v)) /\ Keeps(r, {Outcome(TRUE, rest)})
    BY <1>1, <2>2, OutcomeKeeps, FailedKeeps DEF Keeps
  <2> QED
    BY <2>3 DEF Keeps, PutFields, rest
<1>3. \A q \in GLXObject : Same(r, q) => Same(r, [q EXCEPT !.va_surface = v])
  BY FieldsKeep, SameIsTransitive
<1> DEFINE Shown(q) == Outcome(q.ok, IF q.ok THEN [q.object EXCEPT !.va_surface = v] ELSE q.object)
           First == IF r.fields \cap f # {} THEN Queued(r, v) ELSE {Outcome(TRUE, r)}
           Then(o) == IF o.ok THEN {Shown(q) : q \in PutFields(o.object, v, f)} ELSE {o}
<1>4. Keeps(r, First)
  <2>1. Same(r, r)
    BY DEF Same
  <2>2. Keeps(r, {Outcome(TRUE, r)}) /\ Keeps(r, Queued(r, v))
    BY <1>1, <2>1, OutcomeKeeps DEF Keeps
  <2> QED
    BY <2>2 DEF Keeps
<1>5. ASSUME NEW o, o.ok \in BOOLEAN, Same(r, o.object) PROVE Keeps(r, Then(o))
  <2>1. Keeps(r, PutFields(o.object, v, f))
    BY <1>2, <1>5 DEF Same
  <2>2. \A q \in PutFields(o.object, v, f) : Shown(q).ok \in BOOLEAN /\ Same(r, Shown(q).object)
    <3> SUFFICES ASSUME NEW q \in PutFields(o.object, v, f)
                 PROVE  Shown(q).ok \in BOOLEAN /\ Same(r, Shown(q).object)
      OBVIOUS
    <3>1. q.ok \in BOOLEAN /\ Same(r, q.object)
      BY <2>1 DEF Keeps
    <3>2. Same(r, IF q.ok THEN [q.object EXCEPT !.va_surface = v] ELSE q.object)
      BY <1>3, <3>1 DEF Same
    <3> QED
      BY <3>1, <3>2, OutcomeKeeps
  <2> HIDE DEF Shown
  <2> QED
    BY <1>5, <2>2 DEF Keeps
<1>6. Put(r, v, f) = UNION {Then(o) : o \in First}
  BY DEF Put
<1> HIDE DEF Then, First
<1> QED
  BY <1>4, <1>5, <1>6 DEF Keeps

(* The step of Associate: deassociation first.                             *)
AllAssociated(r, v, f) ==
  UNION {IF o.ok THEN Associated(o.object, v, f) ELSE {o} : o \in Deassociated(r)}

(* associate_glx_surface.                                                  *)
LEMMA KeepsAssociated ==
  ASSUME NEW r \in GLXObject, NEW v \in VASurfaces \cup {NONE}, NEW f \in SUBSET AllFields
  PROVE  Keeps(r, AllAssociated(r, v, f))
<1>1. \A q \in GLXObject : Keeps(q, Associated(q, v, f))
  BY KeepsRendered, KeepsPut DEF Associated
<1>2. \A o \in Deassociated(r) : Keeps(r, IF o.ok THEN Associated(o.object, v, f) ELSE {o})
  <2> SUFFICES ASSUME NEW o \in Deassociated(r)
               PROVE  Keeps(r, IF o.ok THEN Associated(o.object, v, f) ELSE {o})
    OBVIOUS
  <2>1. o.ok \in BOOLEAN /\ Same(r, o.object)
    BY KeepsDeassociated DEF Keeps
  <2>2. Keeps(o.object, Associated(o.object, v, f))
    BY <1>1, <2>1 DEF Same
  <2>3. Keeps(r, Associated(o.object, v, f))
    BY <2>1, <2>2, SameIsTransitive DEF Keeps
  <2> QED
    BY <2>1, <2>3 DEF Keeps
<1> QED
  BY <1>2 DEF Keeps, AllAssociated

(* begin_render_glx_surface.                                               *)
LEMMA KeepsBegun ==
  ASSUME NEW r \in GLXObject PROVE Keeps(r, Begun(r))
<1>1. /\ Same(r, r) /\ Same(r, [r EXCEPT !.gl_surface = "mapped"])
      /\ Same(r, [r EXCEPT !.pixo = "bound"])
  BY FieldsKeep
<1>2. /\ Keeps(r, {Outcome(FALSE, r)})
      /\ Keeps(r, {Outcome(TRUE, [r EXCEPT !.gl_surface = "mapped"])})
      /\ Keeps(r, {Outcome(TRUE, [r EXCEPT !.pixo = "bound"])})
      /\ Keeps(r, Failed("bind", r)) /\ Keeps(r, Failed("sync", r)) /\ Keeps(r, {})
  BY <1>1, OutcomeKeeps, FailedKeeps DEF Keeps
<1>3. Keeps(r, IF r.pixo = "bound" THEN {} ELSE Failed("bind", r))
  BY <1>2
<1> QED
  BY <1>2, <1>3 DEF Keeps, Begun

(* end_render_glx_surface.                                                 *)
LEMMA KeepsEnded ==
  ASSUME NEW r \in GLXObject PROVE Keeps(r, Ended(r))
<1>1. Same(r, [r EXCEPT !.gl_surface = "unmapped"])
  BY FieldsKeep
<1>2. Keeps(r, {Outcome(TRUE, [r EXCEPT !.gl_surface = "unmapped"])})
  BY <1>1, OutcomeKeeps DEF Keeps
<1> QED
  BY <1>2, KeepsUnbound DEF Ended
-----------------------------------------------------------------------------
(***************************************************************************)
(* The steps of a call.  All that work on the object leave its context     *)
(* where it is, and every context current.                                 *)
(***************************************************************************)
LEMMA WorkStep ==
  ASSUME ContextInv, NEW t \in Threads, pc[t] \notin {"idle", "leave"},
         NEW outcomes, Keeps(Object(t), outcomes),
         NEW next \in Labels \ {"idle"}, NEW failed \in Labels \ {"idle"},
         Work(t, outcomes, next, failed)
  PROVE  ContextInv'
<1> USE DEF ContextInv
<1> PICK o \in outcomes :
       /\ glx' = [glx EXCEPT ![job[t].glx] = o.object]
       /\ job' = [job EXCEPT ![t].ok = @ /\ o.ok]
       /\ GoTo(t, IF o.ok THEN next ELSE failed)
  BY DEF Work
<1>1. UNCHANGED <<vtable, interop_env, contexts, current, va>>
  BY DEF Work, glVars
<1>2. /\ job[t] \in Jobs /\ IsGLX(job[t].glx) /\ Object(t) \in GLXObject
      /\ o.ok \in BOOLEAN /\ o.object \in GLXObject
      /\ o.object.gl_context = Object(t).gl_context
  BY DEF Typed, CallsHaveContext, HasContext, Keeps, Same, Object, IsGLX, Jobs
<1>3. /\ job' \in [Threads -> Jobs \cup {NONE}] /\ job'[t] \in Jobs
      /\ \A u \in Threads : u # t => job'[u] = job[u]
      /\ job'[t].glx = job[t].glx /\ job'[t].old_cs = job[t].old_cs
  BY <1>2 DEF Typed, Jobs
<1>4. /\ pc' \in [Threads -> Labels] /\ pc'[t] # "idle"
      /\ \A u \in Threads : u # t => pc'[u] = pc[u]
  BY DEF GoTo, Typed
<1>5. /\ glx' \in [GLXSurfaces -> GLXObject \cup {NONE}]
      /\ \A g \in GLXSurfaces : /\ IsGLX(g)' <=> IsGLX(g)
                                /\ IsGLX(g) => glx'[g].gl_context = glx[g].gl_context
  BY <1>2 DEF Typed, IsGLX, Object, Jobs
<1>6. Typed'
  BY <1>1, <1>3, <1>4, <1>5 DEF Typed
<1>7. ContextsOwned'
  BY <1>1, <1>5 DEF ContextsOwned
<1>8. HomesApart' /\ CurrentApart'
  <2>1. \A u \in Threads : Home(u)' = Home(u)
    BY <1>1, <1>3, <1>4 DEF Home
  <2> QED
    BY <1>1, <1>5, <2>1 DEF HomesApart, CurrentApart
<1>9. CallsHaveContext'
  <2> SUFFICES ASSUME NEW u \in Threads
               PROVE  /\ HasContext(u) => HasContext(u)'
                      /\ pc[t] \notin {"idle", "leave"} => HasContext(t)
    BY <1>1, <1>4 DEF CallsHaveContext
  <2> QED
    BY <1>1, <1>3, <1>5 DEF CallsHaveContext, HasContext, Object, IsGLX
<1> QED
  BY <1>6, <1>7, <1>8, <1>9

(***************************************************************************)
(* The steps that work on the object, one by one.                          *)
(***************************************************************************)
LEMMA ObjectSteps ==
  ASSUME ContextInv, NEW t \in Threads,
         \/ Associate(t) \/ Deassociate(t) \/ BeginRender(t) \/ EndRender(t)
         \/ MakeFramebuffer(t) \/ BindFramebuffer(t) \/ UnbindFramebuffer(t)
  PROVE  ContextInv'
<1>1. pc[t] \notin {"idle", "leave"}
  BY DEF Associate, Deassociate, BeginRender, EndRender, MakeFramebuffer, BindFramebuffer,
         UnbindFramebuffer, At
<1>2. job[t] \in Jobs /\ Object(t) \in GLXObject
  BY <1>1 DEF ContextInv, Typed, CallsHaveContext, HasContext, Object, IsGLX, Jobs
<1>3. job[t].va \in VASurfaces \cup {NONE} /\ job[t].flags \in SUBSET AllFields
  BY <1>2 DEF Jobs
<1> DEFINE r == Object(t)
           Next1(next, other) == IF job[t].op = "copy" THEN next ELSE other
           Next2(next, other) == IF job[t].ok THEN next ELSE other
<1>4. /\ Same(r, r) /\ Same(r, [r EXCEPT !.fbo = "unbound"]) /\ Same(r, [r EXCEPT !.fbo = "bound"])
  BY <1>2, FieldsKeep
<1>5. /\ Keeps(r, {Outcome(TRUE, r)})
      /\ Keeps(r, {Outcome(TRUE, [r EXCEPT !.fbo = "unbound"])})
      /\ Keeps(r, {Outcome(TRUE, [r EXCEPT !.fbo = "bound"])})
      /\ Keeps(r, Failed("fbo", r))
  BY <1>4, OutcomeKeeps, FailedKeeps DEF Keeps
<1>6. /\ {Next1(x, y) : x, y \in {"bind", "draw", "unbind", "leave"}} \subseteq Labels \ {"idle"}
      /\ {Next2(x, y) : x, y \in {"deassociate", "leave"}} \subseteq Labels \ {"idle"}
      /\ {"leave", "unbind", "associate", "begin"} \subseteq Labels \ {"idle"}
  BY DEF Labels
<1>7. CASE Associate(t)
  <2>1. Keeps(r, AllAssociated(r, job[t].va, job[t].flags))
    BY <1>2, <1>3, KeepsAssociated
  <2>2. Work(t, AllAssociated(r, job[t].va, job[t].flags), Next1("bind", "leave"), "leave")
    BY <1>7 DEF Associate, AllAssociated
  <2> HIDE DEF r, Next1
  <2> QED
    BY <1>1, <1>6, <2>1, <2>2, WorkStep DEF r
<1>8. CASE Deassociate(t)
  <2>1. Keeps(r, Deassociated(r)) /\ Work(t, Deassociated(r), "leave", "leave")
    BY <1>2, <1>8, KeepsDeassociated DEF Deassociate
  <2> QED
    BY <1>1, <1>6, <2>1, WorkStep
<1>9. CASE BeginRender(t)
  <2>1. /\ Keeps(r, Begun(r))
        /\ Work(t, Begun(r), Next1("draw", "leave"), Next1("unbind", "leave"))
    BY <1>2, <1>9, KeepsBegun DEF BeginRender
  <2> HIDE DEF r, Next1
  <2> QED
    BY <1>1, <1>6, <2>1, WorkStep DEF r
<1>10. CASE EndRender(t)
  <2>1. /\ Keeps(r, Ended(r))
        /\ Work(t, Ended(r), Next1("unbind", "leave"), Next1("unbind", "leave"))
    BY <1>2, <1>10, KeepsEnded DEF EndRender
  <2> HIDE DEF r, Next1
  <2> QED
    BY <1>1, <1>6, <2>1, WorkStep DEF r
<1>11. CASE MakeFramebuffer(t)
  <2> DEFINE outcomes == IF r.fbo # "none" THEN {Outcome(TRUE, r)}
                         ELSE {Outcome(TRUE, [r EXCEPT !.fbo = "unbound"])} \cup Failed("fbo", r)
  <2>1. Keeps(r, outcomes)
    BY <1>5 DEF Keeps
  <2>2. Work(t, outcomes, "associate", "leave")
    BY <1>11 DEF MakeFramebuffer
  <2> HIDE DEF outcomes, r
  <2> QED
    BY <1>1, <1>6, <2>1, <2>2, WorkStep DEF r
<1>12. CASE BindFramebuffer(t)
  <2>1. Work(t, {Outcome(TRUE, [r EXCEPT !.fbo = "bound"])}, "begin", "leave")
    BY <1>12 DEF BindFramebuffer
  <2> QED
    BY <1>1, <1>5, <1>6, <2>1, WorkStep
<1>13. CASE UnbindFramebuffer(t)
  <2>1. Work(t, {Outcome(TRUE, [r EXCEPT !.fbo = "unbound"])}, Next2("deassociate", "leave"), "leave")
    BY <1>13 DEF UnbindFramebuffer, UnboundFramebuffer
  <2> HIDE DEF Next2
  <2> QED
    BY <1>1, <1>5, <1>6, <2>1, WorkStep
<1> QED
  BY <1>7, <1>8, <1>9, <1>10, <1>11, <1>12, <1>13

(***************************************************************************)
(* render_pixmap only reads the object.                                    *)
(***************************************************************************)
LEMMA DrawStep ==
  ASSUME ContextInv, NEW t \in Threads, Draw(t)
  PROVE  ContextInv'
<1> USE DEF ContextInv
<1>1. UNCHANGED <<contexts, current, glx, va>> /\ pc[t] = "draw"
  BY DEF Draw, At, glVars
<1>2. job[t] \in Jobs /\ Object(t) \in GLXObject
  BY <1>1 DEF Typed, CallsHaveContext, HasContext, Object, IsGLX, Jobs
<1>3. /\ job' \in [Threads -> Jobs \cup {NONE}] /\ job'[t] \in Jobs
      /\ \A u \in Threads : u # t => job'[u] = job[u]
      /\ job'[t].glx = job[t].glx /\ job'[t].old_cs = job[t].old_cs
  <2>1. Object(t).shows \in VASurfaces \cup {NONE}
    BY <1>2 DEF GLXObject
  <2> QED
    BY <1>2, <2>1 DEF Draw, Typed, Jobs
<1>4. /\ pc' \in [Threads -> Labels] /\ pc'[t] = "end"
      /\ \A u \in Threads : u # t => pc'[u] = pc[u]
  BY DEF Draw, GoTo, Typed, Labels
<1>5. Typed' /\ ContextsOwned'
  BY <1>1, <1>3, <1>4 DEF Typed, ContextsOwned, IsGLX
<1>6. HomesApart' /\ CurrentApart'
  <2>1. \A u \in Threads : Home(u)' = Home(u)
    BY <1>1, <1>3, <1>4 DEF Home
  <2> QED
    BY <1>1, <2>1 DEF HomesApart, CurrentApart, IsGLX
<1>7. CallsHaveContext'
  BY <1>1, <1>3, <1>4 DEF CallsHaveContext, HasContext, Object, IsGLX
<1> QED
  BY <1>5, <1>6, <1>7

(***************************************************************************)
(* A call that begins takes the surface's context: no thread between calls *)
(* has it, and gl_set_current_context fails if another call has.           *)
(***************************************************************************)
LEMMA EnterStep ==
  ASSUME ContextInv, NEW t \in Threads, NEW op \in Ops, NEW g \in GLXSurfaces,
         NEW v \in VASurfaces \cup {NONE}, NEW f \in SUBSET AllFields, Enter(t, op, g, v, f)
  PROVE  ContextInv'
<1> USE DEF ContextInv
<1> DEFINE c == glx[g].gl_context
<1>1. /\ UNCHANGED <<contexts, glx, va>> /\ pc[t] = "idle" /\ IsGLX(g)
      /\ CanMakeCurrent(t, c)
      /\ current' = [current EXCEPT ![t] = c]
      /\ job' = [job EXCEPT ![t] =
             [op |-> op, glx |-> g, va |-> v, flags |-> f, old_cs |-> current[t], ok |-> TRUE,
              texture |-> NONE]]
      /\ pc' = [pc EXCEPT ![t] = Entry[op]]
  BY DEF Enter, Idle, GoTo
<1>2. Entry[op] \in Labels \ {"idle", "leave"}
  BY DEF Entry, Labels, Ops
<1>3. c \in contexts /\ c \in Contexts /\ c # NONE
  BY <1>1 DEF ContextsOwned, Contexts, Typed
<1>4. /\ pc' \in [Threads -> Labels] /\ pc'[t] \notin {"idle", "leave"}
      /\ \A u \in Threads : u # t => pc'[u] = pc[u]
  BY <1>1, <1>2 DEF Typed
<1>5. /\ job' \in [Threads -> Jobs \cup {NONE}] /\ job'[t] \in Jobs
      /\ \A u \in Threads : u # t => job'[u] = job[u]
      /\ job'[t].glx = g /\ job'[t].old_cs = current[t]
  BY <1>1, <1>2 DEF Typed, Jobs
<1>6. /\ current' \in [Threads -> Contexts] /\ current'[t] = c
      /\ \A u \in Threads : u # t => current'[u] = current[u]
  BY <1>1, <1>3 DEF Typed
<1>7. Typed' /\ ContextsOwned'
  <2>1. \A u \in Threads : pc'[u] # "idle" => job'[u] \in Jobs
    BY <1>4, <1>5 DEF Typed
  <2>2. UNCHANGED <<contexts, glx, va>>
    BY <1>1
  <2>3. Typed'
    BY <1>4, <1>5, <1>6, <2>1, <2>2 DEF Typed
  <2> QED
    BY <2>2, <2>3 DEF ContextsOwned, IsGLX
<1>8. HomesApart'
  <2>1. \A u \in Threads : Home(u)' = Home(u)
    BY <1>1, <1>4, <1>5, <1>6 DEF Home
  <2> QED
    BY <1>1, <2>1 DEF HomesApart, IsGLX
<1>9. CurrentApart'
  <2>1. current[t] # c
    BY <1>1 DEF HomesApart, Home
  <2>2. IsFree(t, c)
    BY <1>1, <2>1 DEF CanMakeCurrent
  <2> QED
    BY <1>6, <2>2 DEF CurrentApart, IsFree
<1>10. CallsHaveContext'
  BY <1>1, <1>4, <1>5, <1>6 DEF CallsHaveContext, HasContext, Object, IsGLX
<1> QED
  BY <1>7, <1>8, <1>9, <1>10

(***************************************************************************)
(* A call that ends finds the thread's own context free.                   *)
(***************************************************************************)
LEMMA LeaveStep ==
  ASSUME ContextInv, NEW t \in Threads, Leave(t)
  PROVE  ContextInv'
<1> USE DEF ContextInv
<1>1. /\ UNCHANGED <<contexts, glx, va>> /\ pc[t] = "leave" /\ job[t] \in Jobs
      /\ pc' = [pc EXCEPT ![t] = "idle"] /\ job' = [job EXCEPT ![t] = NONE]
      /\ current' = [current EXCEPT ![t] = Restored(t)]
  BY DEF Leave, At, Return, GoTo, Typed
<1>2. Home(t) = job[t].old_cs /\ Home(t) # NONE /\ Home(t) \in Contexts
  BY <1>1 DEF Home, HomesApart, Typed, Contexts
<1>3. IsFree(t, Home(t))
  <2> SUFFICES ASSUME NEW u \in Threads \ {t}, current[u] = Home(t) PROVE FALSE
    BY DEF IsFree
  <2>1. pc[u] # "idle"
    BY DEF HomesApart, Home
  <2>2. HasContext(u) /\ job[u] \in Jobs
    BY <1>2, <2>1 DEF CallsHaveContext, Typed
  <2> QED
    BY <2>2 DEF HasContext, Object, HomesApart, Jobs
<1>4. Restored(t) = Home(t)
  BY <1>2, <1>3 DEF Restored
<1>5. /\ current' \in [Threads -> Contexts] /\ current'[t] = Home(t)
      /\ \A u \in Threads : u # t => current'[u] = current[u]
  BY <1>1, <1>2, <1>4 DEF Typed
<1>6. /\ pc' \in [Threads -> Labels] /\ pc'[t] = "idle"
      /\ job' \in [Threads -> Jobs \cup {NONE}]
      /\ \A u \in Threads : u # t => pc'[u] = pc[u] /\ job'[u] = job[u]
  BY <1>1 DEF Typed, Labels
<1>7. Typed' /\ ContextsOwned'
  BY <1>1, <1>5, <1>6 DEF Typed, ContextsOwned, IsGLX
<1>8. HomesApart'
  <2>1. \A u \in Threads : Home(u)' = Home(u)
    BY <1>5, <1>6 DEF Home
  <2> QED
    BY <1>1, <2>1 DEF HomesApart, IsGLX
<1>9. CurrentApart'
  BY <1>3, <1>5 DEF CurrentApart, IsFree
<1>10. CallsHaveContext'
  BY <1>1, <1>5, <1>6 DEF CallsHaveContext, HasContext, Object, IsGLX
<1> QED
  BY <1>7, <1>8, <1>9, <1>10

(***************************************************************************)
(* Destruction: no other thread is in a call on the surface, nor was its   *)
(* context current when it made a call.                                    *)
(***************************************************************************)
LEMMA DestroyStep ==
  ASSUME ContextInv, NEW t \in Threads, DestroySurfaceGLX(t)
  PROVE  ContextInv'
<1> USE DEF ContextInv
<1> DEFINE g == job[t].glx
           c == glx[g].gl_context
<1>1. /\ UNCHANGED <<va, job>> /\ pc[t] = "destroy" /\ job[t] \in Jobs
      /\ contexts' = contexts \ {c}
      /\ current' = [current EXCEPT ![t] = NONE]
      /\ glx' = [glx EXCEPT ![g] = NONE]
      /\ pc' = [pc EXCEPT ![t] = "leave"]
  BY DEF DestroySurfaceGLX, At, GoTo, Object, Typed
<1>2. g \in GLXSurfaces /\ IsGLX(g) /\ current[t] = c /\ c \in contexts /\ c # NONE
  BY <1>1 DEF Jobs, CallsHaveContext, HasContext, Object, ContextsOwned, Typed
<1>3. /\ current' \in [Threads -> Contexts] /\ current'[t] = NONE
      /\ \A u \in Threads : u # t => current'[u] = current[u]
  BY <1>1 DEF Typed, Contexts
<1>4. /\ pc' \in [Threads -> Labels] /\ pc'[t] = "leave"
      /\ \A u \in Threads : u # t => pc'[u] = pc[u]
  BY <1>1 DEF Typed, Labels
<1>5. /\ glx' \in [GLXSurfaces -> GLXObject \cup {NONE}] /\ ~IsGLX(g)'
      /\ \A h \in GLXSurfaces : h # g => glx'[h] = glx[h]
  BY <1>1, <1>2 DEF Typed, IsGLX
<1>6. Typed'
  BY <1>1, <1>3, <1>4, <1>5 DEF Typed
<1>7. ContextsOwned'
  BY <1>1, <1>2, <1>5 DEF ContextsOwned, IsGLX
<1>8. HomesApart'
  <2>1. \A u \in Threads : Home(u)' = Home(u)
    BY <1>1, <1>3, <1>4 DEF Home
  <2>2. \A u \in Threads : Home(u) # c
    BY <1>2 DEF HomesApart
  <2> QED
    BY <1>1, <1>5, <2>1, <2>2 DEF HomesApart, IsGLX
<1>9. CurrentApart'
  BY <1>3 DEF CurrentApart
<1>10. CallsHaveContext'
  <2>1. ASSUME NEW u \in Threads, u # t, HasContext(u), job[u] \in Jobs PROVE HasContext(u)'
    <3>1. job[u].glx # g
      BY <1>2, <2>1 DEF HasContext, Object, CurrentApart
    <3> QED
      BY <1>1, <1>3, <1>5, <2>1, <3>1 DEF HasContext, Object, IsGLX, Jobs
  <2> QED
    BY <1>3, <1>4, <2>1 DEF CallsHaveContext, Typed
<1> QED
  BY <1>6, <1>7, <1>8, <1>9, <1>10

(***************************************************************************)
(* A new GLX surface has a context that no one has.                        *)
(***************************************************************************)
LEMMA CreateStep ==
  ASSUME ContextInv, NEW t \in Threads, NEW g \in GLXSurfaces, CreateSurfaceGLX(t, g)
  PROVE  ContextInv'
<1> USE DEF ContextInv
<1>1. UNCHANGED <<current, va, pc, job>> /\ ~IsGLX(g)
  BY DEF CreateSurfaceGLX, callVars
<1>2. CASE UNCHANGED <<contexts, glx>>
  BY <1>1, <1>2 DEF Typed, ContextsOwned, HomesApart, Home, CallsHaveContext, HasContext,
                    Object, CurrentApart, IsGLX
<1>3. CASE \E c \in OwnContexts \ contexts :
             contexts' = contexts \cup {c} /\ glx' = [glx EXCEPT ![g] = NewObject(c)]
  <2> PICK c \in OwnContexts \ contexts :
        contexts' = contexts \cup {c} /\ glx' = [glx EXCEPT ![g] = NewObject(c)]
    BY <1>3
  <2>1. NewObject(c) \in GLXObject /\ NewObject(c).gl_context = c
    BY DEF NewObject, GLXObject
  <2>2. /\ glx' \in [GLXSurfaces -> GLXObject \cup {NONE}] /\ glx'[g].gl_context = c
        /\ \A h \in GLXSurfaces : h # g => glx'[h] = glx[h]
    BY <2>1 DEF Typed
  <2>3. Typed'
    BY <1>1, <2>2 DEF Typed
  <2>4. ContextsOwned'
    BY <2>2 DEF ContextsOwned, IsGLX
  <2>5. HomesApart'
    <3>1. \A u \in Threads : Home(u)' = Home(u)
      BY <1>1 DEF Home
    <3>2. \A u \in Threads : Home(u) # c
      BY DEF HomesApart
    <3> QED
      BY <2>2, <3>1, <3>2 DEF HomesApart, IsGLX
  <2>6. CallsHaveContext'
    <3>1. ASSUME NEW u \in Threads, HasContext(u), job[u] \in Jobs PROVE HasContext(u)'
      BY <1>1, <2>2, <3>1 DEF HasContext, Object, IsGLX, Jobs
    <3> QED
      BY <1>1, <3>1 DEF CallsHaveContext, Typed
  <2> QED
    BY <1>1, <2>3, <2>4, <2>5, <2>6 DEF CurrentApart
<1> QED
  BY <1>2, <1>3 DEF CreateSurfaceGLX

(***************************************************************************)
(* One that fails leaves its context with the thread; it is no surface's.  *)
(***************************************************************************)
LEMMA CreateFailsStep ==
  ASSUME ContextInv, NEW t \in Threads, CreateSurfaceGLXFails(t)
  PROVE  ContextInv'
<1> USE DEF ContextInv
<1>1. UNCHANGED <<glx, va, pc, job>> /\ pc[t] = "idle"
  BY DEF CreateSurfaceGLXFails, callVars, Idle
<1> PICK c \in OwnContexts \ contexts :
      contexts' = contexts \cup {c} /\ current' = [current EXCEPT ![t] = c]
  BY DEF CreateSurfaceGLXFails
<1>2. /\ current' \in [Threads -> Contexts] /\ current'[t] = c
      /\ \A u \in Threads : u # t => current'[u] = current[u]
  BY DEF Typed, Contexts
<1>3. Typed' /\ ContextsOwned'
  BY <1>1, <1>2 DEF Typed, ContextsOwned, IsGLX
<1>4. /\ Home(t)' = c /\ \A u \in Threads : u # t => Home(u)' = Home(u)
      /\ \A u \in Threads : Home(u) # c
  BY <1>1, <1>2 DEF Home, HomesApart
<1>5. HomesApart'
  BY <1>1, <1>4 DEF HomesApart, ContextsOwned, IsGLX
<1>6. \A u \in Threads : u # t => current[u] # c
  <2> SUFFICES ASSUME NEW u \in Threads, u # t, current[u] = c PROVE FALSE
    OBVIOUS
  <2>1. pc[u] # "idle"
    BY <1>4 DEF Home
  <2>2. HasContext(u) /\ job[u] \in Jobs
    BY <2>1 DEF CallsHaveContext, Typed
  <2> QED
    BY <2>2 DEF HasContext, Object, ContextsOwned, Jobs
<1>7. CurrentApart'
  BY <1>2, <1>6 DEF CurrentApart
<1>8. CallsHaveContext'
  BY <1>1, <1>2 DEF CallsHaveContext, HasContext, Object, IsGLX
<1> QED
  BY <1>3, <1>5, <1>7, <1>8

(***************************************************************************)
(* The application makes its own context current between calls.            *)
(***************************************************************************)
LEMMA AppStep ==
  ASSUME ContextInv, "current" \in AppRules, NEW t \in Threads, AppMakeCurrent(t)
  PROVE  ContextInv'
<1> USE DEF ContextInv
<1>1. UNCHANGED <<contexts, glx, va, pc, job>> /\ pc[t] = "idle"
  BY DEF AppMakeCurrent, callVars, Idle
<1>2. current' = [current EXCEPT ![t] = t]
  BY DEF AppMakeCurrent, Promised
<1>3. /\ current' \in [Threads -> Contexts] /\ current'[t] = t
      /\ \A u \in Threads : u # t => current'[u] = current[u]
  BY <1>2 DEF Typed, Contexts
<1>4. Typed' /\ ContextsOwned'
  BY <1>1, <1>3 DEF Typed, ContextsOwned, IsGLX
<1>5. /\ Home(t)' = t /\ \A u \in Threads : u # t => Home(u)' = Home(u)
      /\ \A u \in Threads : u # t => Home(u) # t
  BY <1>1, <1>3 DEF Home, HomesApart, Typed
<1>6. \A g \in GLXSurfaces : IsGLX(g) => t # glx[g].gl_context
  BY DEF ContextsOwned, Typed
<1>7. HomesApart'
  BY <1>1, <1>5, <1>6 DEF HomesApart, IsGLX
<1>8. \A u \in Threads : u # t => current[u] # t
  <2> SUFFICES ASSUME NEW u \in Threads, u # t, current[u] = t PROVE FALSE
    OBVIOUS
  <2>1. pc[u] # "idle"
    BY <1>5 DEF Home
  <2>2. HasContext(u) /\ job[u] \in Jobs
    BY <2>1 DEF CallsHaveContext, Typed
  <2> QED
    BY <1>6, <2>2 DEF HasContext, Object, Jobs
<1>9. CurrentApart'
  BY <1>3, <1>8 DEF CurrentApart
<1>10. CallsHaveContext'
  BY <1>1, <1>3 DEF CallsHaveContext, HasContext, Object, IsGLX
<1> QED
  BY <1>4, <1>7, <1>9, <1>10

(***************************************************************************)
(* Steps that leave contexts, GLX surfaces and calls alone.                *)
(***************************************************************************)
LEMMA OtherSteps ==
  ASSUME ContextInv, va' \subseteq VASurfaces, UNCHANGED <<contexts, current, glx, pc, job>>
  PROVE  ContextInv'
BY DEF ContextInv, Typed, ContextsOwned, HomesApart, Home, CallsHaveContext, HasContext, Object,
       CurrentApart, IsGLX

(***************************************************************************)
(* Every step preserves the invariant, when the application's threads have *)
(* their own context current between calls.                                *)
(***************************************************************************)
LEMMA NextHolds ==
  ASSUME ContextInv, "current" \in AppRules, [Next]_vars
  PROVE  ContextInv'
<1>1. ASSUME NEW t \in Threads, AppMakeCurrent(t) \/ CreateSurfaceGLXFails(t) PROVE ContextInv'
  BY <1>1, AppStep, CreateFailsStep
<1>2. ASSUME NEW t \in Threads, Step(t) PROVE ContextInv'
  <2>1. CASE MapNull(t)
    BY <2>1, OtherSteps DEF MapNull, glVars, callVars, ContextInv, Typed
  <2> QED
    BY <1>2, <2>1, ObjectSteps, DrawStep, DestroyStep, LeaveStep DEF Step
<1>3. ASSUME NEW t \in Threads, NEW g \in GLXSurfaces, Call(t, g) PROVE ContextInv'
  <2>1. ASSUME NEW op \in {"destroy", "deassociate", "begin", "end"}, Enter(t, op, g, NONE, {})
        PROVE  ContextInv'
    <3>1. op \in Ops /\ NONE \in VASurfaces \cup {NONE} /\ {} \in SUBSET AllFields
      BY DEF Ops
    <3> QED
      BY <2>1, <3>1, EnterStep
  <2>2. ASSUME NEW op \in {"associate", "copy"}, NEW v \in VASurfaces, NEW f \in FieldSets,
               Enter(t, op, g, v, f)
        PROVE  ContextInv'
    <3>1. op \in Ops /\ v \in VASurfaces \cup {NONE} /\ f \in SUBSET AllFields
      BY DEF Ops
    <3> QED
      BY <2>2, <3>1, EnterStep
  <2> QED
    BY <1>3, <2>1, <2>2, CreateStep DEF Call
<1>4. ASSUME NEW v \in VASurfaces, CreateSurface(v) \/ DestroySurface(v) PROVE ContextInv'
  BY <1>4, OtherSteps DEF CreateSurface, DestroySurface, glVars, callVars, ContextInv, Typed
<1>5. CASE UNCHANGED vars
  BY <1>5, OtherSteps DEF vars, glVars, callVars, ContextInv, Typed
<1> QED
  BY <1>1, <1>2, <1>3, <1>4, <1>5 DEF Next
-----------------------------------------------------------------------------
(***************************************************************************)
(* Who has which GL context: the invariant of vdpau_video_glx.c, for an    *)
(* application whose threads keep a context of their own.                  *)
(***************************************************************************)
THEOREM ContextsAreKept ==
  ASSUME "current" \in AppRules PROVE Spec => []ContextInv
<1>1. Init => ContextInv
  BY InitHolds
<1>2. ContextInv /\ [Next]_vars => ContextInv'
  BY NextHolds
<1> QED
  BY <1>1, <1>2, PTL DEF Spec

(***************************************************************************)
(* gl_set_current_context gives every surface's context back, on all error *)
(* paths of all calls and whatever the other threads do meanwhile.         *)
(***************************************************************************)
THEOREM SurfaceContextsFree ==
  ASSUME "current" \in AppRules PROVE Spec => []SurfaceContextsAreFree
BY ContextsAreKept, FreeBetweenCalls, PTL

(***************************************************************************)
(* Two calls never work on the same GLX surface at a time, although the    *)
(* driver takes no lock.                                                   *)
(***************************************************************************)
THEOREM SurfacesExclude ==
  ASSUME "current" \in AppRules PROVE Spec => []OneCallPerSurface
BY ContextsAreKept, CallsExclude, PTL
-----------------------------------------------------------------------------
(***************************************************************************)
(* What a GLX surface shows.                                               *)
(***************************************************************************)
(* The application ends rendering before it associates another surface, as *)
(* the API has it.                                                         *)
Careful == "ended" \in AppRules

Faults == {"none", "context", "null", "mapped"}

(* A GLX surface has a pixmap, or with interop what that takes; the VA     *)
(* surface it names is what it shows, with no field waiting.               *)
Good(r) ==
  /\ r.pixo = "none" <=> Interop
  /\ r.gl_surface # "none" => r.gl_output = "made" /\ Interop
  /\ r.va_surface # NONE =>
       r.shows = r.va_surface /\ r.fields = {} /\ (Interop => r.gl_output = "made")
  /\ Interop => r.fields = {}

Kinds ==
  /\ vtable \in {"unset", "missing", "fbo", "interop"}
  /\ interop_env \in BOOLEAN /\ fault \in Faults
ObjectsGood ==
  \A g \in GLXSurfaces : IsGLX(g) => Good(glx[g]) /\ vtable \in {"fbo", "interop"}

(* What a call that is at a label knows of its arguments j and object r.   *)
Knows(at, j, r) ==
  /\ at \in {"fbo", "bind", "draw", "unbind"} => j.op = "copy"
  /\ at = "associate" => j.op \in {"associate", "copy"}
  /\ at # "idle" /\ j.op \in {"associate", "copy"} => j.va \in VASurfaces
  /\ at \in {"bind", "begin", "draw"} /\ j.op = "copy" => r.va_surface = j.va
  /\ at = "end" /\ j.op = "copy" => j.texture = j.va
  /\ at = "deassociate" \/ (at = "unbind" /\ j.ok) =>
       (j.op = "copy" => j.texture = j.va /\ ~IsMapped(r))
  /\ at \in {"draw", "end"} /\ Interop =>
       r.gl_output = "made" /\ r.gl_surface # "none"
  /\ at \in {"fbo", "associate"} /\ Careful => ~IsMapped(r)
CallsKnow == \A t \in Threads : Knows(pc[t], job[t], Object(t))

(* The framebuffer is bound while a copy is between binding and unbinding. *)
BoundAt == {"begin", "draw", "end", "unbind"}
BoundInCopy ==
  \A g \in GLXSurfaces : IsGLX(g) /\ glx[g].fbo = "bound" =>
    \E t \in Threads : pc[t] \in BoundAt /\ job[t].glx = g /\ job[t].op = "copy"

UsesInv == Kinds /\ ObjectsGood /\ CallsKnow /\ BoundInCopy

(* An outcome that leaves a good object, with the framebuffer as it was.   *)
Fine(r, o) ==
  /\ o.ok \in BOOLEAN /\ o.object \in GLXObject /\ Good(o.object)
  /\ o.object.fbo = r.fbo

(* The two parts of an outcome.                                            *)
LEMMA OutcomeParts ==
  \A r : /\ Outcome(TRUE, r).ok = TRUE /\ Outcome(TRUE, r).object = r
         /\ Outcome(FALSE, r).ok = FALSE /\ Outcome(FALSE, r).object = r
BY DEF Outcome

(* gl_vdpau_unbind_surface and the pixmap object.                          *)
LEMMA UnboundFine ==
  ASSUME NEW r \in GLXObject, Good(r), NEW o \in Unbound(r)
  PROVE  /\ Fine(r, o)
         /\ o.object.gl_surface = r.gl_surface /\ o.object.gl_output = r.gl_output
         /\ o.object.va_surface = r.va_surface /\ o.object.shows = r.shows
<1> DEFINE q == [r EXCEPT !.pixo = "released"]
<1>1. /\ q \in GLXObject /\ q.gl_surface = r.gl_surface /\ q.gl_output = r.gl_output
      /\ q.va_surface = r.va_surface /\ q.shows = r.shows /\ q.fbo = r.fbo
      /\ q.fields = r.fields /\ q.pixo = "released"
  BY DEF GLXObject
<1>2. r.pixo = "bound" => Good(q)
  BY <1>1 DEF Good
<1>3. /\ o.ok \in BOOLEAN
      /\ o.object = r \/ (r.pixo = "bound" /\ o.object = q)
  <2>1. \/ o = Outcome(TRUE, q) /\ r.pixo = "bound"
        \/ o = Outcome(FALSE, r) \/ o = Outcome(TRUE, r)
    BY DEF Unbound, Failed, MayFail
  <2> HIDE DEF q
  <2> QED
    BY <2>1, OutcomeParts
<1> HIDE DEF q
<1> QED
  BY <1>1, <1>2, <1>3 DEF Fine

(* deassociate_glx_surface.                                                *)
LEMMA DeassociatedFine ==
  ASSUME NEW r \in GLXObject, Good(r), NEW o \in Deassociated(r)
  PROVE  /\ Fine(r, o)
         /\ o.object.gl_surface = r.gl_surface /\ o.object.gl_output = r.gl_output
         /\ o.ok => o.object.va_surface = NONE
<1>1. PICK u \in Unbound(r) : o = IF u.ok THEN Outcome(TRUE, Forget(u.object)) ELSE u
  BY DEF Deassociated
<1>2. /\ Fine(r, u)
      /\ u.object.gl_surface = r.gl_surface /\ u.object.gl_output = r.gl_output
  BY UnboundFine
<1>3. CASE ~u.ok
  BY <1>1, <1>2, <1>3
<1>4. CASE u.ok
  <2> DEFINE q == Forget(u.object)
  <2>1. u.object \in GLXObject /\ Good(u.object)
    BY <1>2 DEF Fine
  <2>2. /\ q \in GLXObject /\ q.va_surface = NONE
        /\ q.gl_surface = u.object.gl_surface /\ q.gl_output = u.object.gl_output
        /\ q.pixo = u.object.pixo /\ q.fbo = u.object.fbo /\ q.fields = u.object.fields
    BY <2>1 DEF GLXObject, Forget
  <2> HIDE DEF q
  <2>3. Good(q)
    BY <2>1, <2>2 DEF Good
  <2>4. o.ok = TRUE /\ o.object = q
    BY <1>1, <1>4 DEF Outcome, q
  <2> QED
    BY <1>2, <2>2, <2>3, <2>4 DEF Fine
<1> QED
  BY <1>3, <1>4

(* With interop the output surface is made, and the picture mixed into it. *)
LEMMA RenderedFine ==
  ASSUME NEW r \in GLXObject, Good(r), Interop, r.va_surface = NONE, NEW v \in VASurfaces,
         NEW o \in Rendered(r, v)
  PROVE  /\ Fine(r, o) /\ (IsMapped(o.object) => IsMapped(r))
         /\ o.ok => o.object.va_surface = v
<1> DEFINE made == [r EXCEPT !.gl_output = "made"]
           registered == [made EXCEPT !.gl_surface = "unmapped"]
           empty == [r EXCEPT !.gl_output = "empty"]
<1>1. /\ made \in GLXObject /\ made.gl_output = "made" /\ made.gl_surface = r.gl_surface
      /\ made.va_surface = r.va_surface /\ made.pixo = r.pixo /\ made.fbo = r.fbo
      /\ made.fields = r.fields
  BY DEF GLXObject
<1>2. /\ registered \in GLXObject /\ registered.gl_output = "made"
      /\ registered.gl_surface = "unmapped" /\ registered.va_surface = r.va_surface
      /\ registered.pixo = r.pixo /\ registered.fbo = r.fbo /\ registered.fields = r.fields
  BY DEF GLXObject
<1>3. /\ empty \in GLXObject /\ empty.gl_output = "empty" /\ empty.gl_surface = r.gl_surface
      /\ empty.va_surface = r.va_surface /\ empty.pixo = r.pixo /\ empty.fbo = r.fbo
      /\ empty.fields = r.fields
  BY DEF GLXObject
<1>4. PICK w \in WithOutput(r) : o \in IF w.ok THEN Mixed(w.object, v) ELSE {w}
  BY DEF Rendered
<1>5. /\ Fine(r, w) /\ (IsMapped(w.object) => IsMapped(r))
      /\ w.object.va_surface = NONE /\ (w.ok => w.object.gl_output # "none")
  <2>1. \/ w = Outcome(TRUE, r) /\ r.gl_output # "none"
        \/ w = Outcome(FALSE, r)
        \/ w = Outcome(TRUE, registered) \/ w = Outcome(FALSE, registered)
        \/ w = Outcome(FALSE, made)
        \/ w = Outcome(FALSE, empty) /\ r.gl_output = "none"
    BY DEF WithOutput, Failed, MayFail
  <2> HIDE DEF made, registered, empty
  <2>2. /\ w.ok \in BOOLEAN
        /\ \/ w.object = r /\ (w.ok => r.gl_output # "none")
           \/ w.object = registered
           \/ w.object = made /\ ~w.ok
           \/ w.object = empty /\ ~w.ok /\ r.gl_output = "none"
    BY <2>1, OutcomeParts
  <2> QED
    BY <1>1, <1>2, <1>3, <2>2 DEF Fine, Good, IsMapped
<1> HIDE DEF made, registered, empty
<1>6. CASE ~w.ok
  BY <1>4, <1>5, <1>6
<1>7. CASE w.ok
  <2> DEFINE q == w.object
             shown == [q EXCEPT !.shows = v, !.va_surface = v]
             none  == [q EXCEPT !.shows = NONE]
  <2>1. /\ q \in GLXObject /\ Good(q) /\ q.fbo = r.fbo /\ q.va_surface = NONE
        /\ q.gl_output \in {"empty", "made"}
    BY <1>5, <1>7 DEF Fine, GLXObject
  <2>2. \/ o.ok = TRUE /\ o.object = shown /\ q.gl_output = "made"
        \/ o.ok = FALSE /\ o.object = none
        \/ o.ok = FALSE /\ o.object = q
    BY <1>4, <1>7, <2>1 DEF Mixed, Failed, Outcome
  <2> HIDE DEF q
  <2>3. /\ shown \in GLXObject /\ shown.shows = v /\ shown.va_surface = v
        /\ shown.gl_output = q.gl_output /\ shown.gl_surface = q.gl_surface
        /\ shown.pixo = q.pixo /\ shown.fbo = q.fbo /\ shown.fields = q.fields
    BY <2>1 DEF GLXObject
  <2>4. /\ none \in GLXObject /\ none.va_surface = NONE
        /\ none.gl_output = q.gl_output /\ none.gl_surface = q.gl_surface
        /\ none.pixo = q.pixo /\ none.fbo = q.fbo /\ none.fields = q.fields
    BY <2>1 DEF GLXObject
  <2> HIDE DEF shown, none
  <2>5. Good(none)
    BY <2>1, <2>4 DEF Good
  <2>6. CASE o.ok = TRUE /\ o.object = shown /\ q.gl_output = "made"
    BY <1>5, <2>1, <2>3, <2>6 DEF Fine, Good, IsMapped, q
  <2>7. CASE o.ok = FALSE /\ o.object = none
    BY <1>5, <2>1, <2>4, <2>5, <2>7 DEF Fine, IsMapped, q
  <2>8. CASE o.ok = FALSE /\ o.object = q
    BY <1>5, <2>1, <2>8 DEF Fine, IsMapped, q
  <2> QED
    BY <2>2, <2>6, <2>7, <2>8
<1> QED
  BY <1>6, <1>7

(* Without it the picture goes to the pixmap: nothing but what is shown    *)
(* and the fields that wait is touched.                                    *)
Alike(r, q) ==
  /\ q \in GLXObject
  /\ q.pixo = r.pixo /\ q.gl_surface = r.gl_surface /\ q.gl_output = r.gl_output
  /\ q.va_surface = r.va_surface /\ q.fbo = r.fbo

(* queue_surface: the fields are used up, and shown unless it fails.       *)
LEMMA QueuedAlike ==
  ASSUME NEW r \in GLXObject, NEW v \in VASurfaces, NEW o \in Queued(r, v)
  PROVE  /\ o.ok \in BOOLEAN /\ Alike(r, o.object)
         /\ o.ok => o.object.shows = v /\ o.object.fields = {}
<1> DEFINE shown == [r EXCEPT !.fields = {}, !.shows = v]
           lost  == [r EXCEPT !.fields = {}]
<1>1. Alike(r, shown) /\ shown.shows = v /\ shown.fields = {} /\ Alike(r, lost)
  BY DEF GLXObject, Alike
<1>2. (o.ok = TRUE /\ o.object = shown) \/ (o.ok = FALSE /\ o.object = lost)
  BY DEF Queued, Failed, Outcome
<1> HIDE DEF shown, lost
<1> QED
  BY <1>1, <1>2

(* put_surface: a field is forced out, so none waits once it succeeds.     *)
LEMMA PutFieldsAlike ==
  ASSUME NEW r \in GLXObject, NEW v \in VASurfaces, NEW f \in SUBSET AllFields,
         NEW o \in PutFields(r, v, f)
  PROVE  /\ o.ok \in BOOLEAN /\ Alike(r, o.object)
         /\ o.ok => o.object.shows = v /\ o.object.fields = {}
<1> DEFINE rest == [r EXCEPT !.fields = @ \cup f]
<1>1. Alike(r, rest) /\ rest \in GLXObject
  BY DEF GLXObject, Alike
<1>2. (o.ok = FALSE /\ o.object = r) \/ o \in Queued(rest, v)
  BY DEF PutFields, FieldsForced, Failed, Outcome
<1> HIDE DEF rest
<1>3. Alike(r, r)
  BY DEF Alike
<1>4. CASE o \in Queued(rest, v)
  BY <1>1, <1>4, QueuedAlike DEF Alike
<1> QED
  BY <1>2, <1>3, <1>4

(* The field that is in the way is put first.                              *)
LEMMA PutFine ==
  ASSUME NEW r \in GLXObject, Good(r), ~Interop, r.va_surface = NONE, NEW v \in VASurfaces,
         NEW f \in SUBSET AllFields, NEW o \in Put(r, v, f)
  PROVE  /\ Fine(r, o) /\ (IsMapped(o.object) => IsMapped(r))
         /\ o.ok => o.object.va_surface = v
<1> DEFINE First == IF r.fields \cap f # {} THEN Queued(r, v) ELSE {Outcome(TRUE, r)}
           Shown(q) == Outcome(q.ok, IF q.ok THEN [q.object EXCEPT !.va_surface = v]
                                     ELSE q.object)
<1>1. PICK w \in First : o \in IF w.ok THEN {Shown(q) : q \in PutFields(w.object, v, f)} ELSE {w}
  BY DEF Put
<1>2. w.ok \in BOOLEAN /\ Alike(r, w.object)
  <2>1. Alike(r, r)
    BY DEF Alike
  <2>2. w \in Queued(r, v) \/ (w.ok = TRUE /\ w.object = r)
    BY <1>1 DEF Outcome
  <2> QED
    BY <2>1, <2>2, QueuedAlike
<1>3. \A q \in GLXObject : Alike(r, q) => Good(q)
  BY DEF Alike, Good
<1>4. CASE ~w.ok
  BY <1>1, <1>2, <1>3, <1>4 DEF Fine, Alike, IsMapped
<1>5. CASE w.ok
  <2>1. PICK q \in PutFields(w.object, v, f) : o = Shown(q)
    BY <1>1, <1>5
  <2>2. w.object \in GLXObject
    BY <1>2 DEF Alike
  <2>3. /\ q.ok \in BOOLEAN /\ Alike(w.object, q.object)
        /\ q.ok => q.object.shows = v /\ q.object.fields = {}
    BY <2>1, <2>2, PutFieldsAlike
  <2>4. Alike(r, q.object) /\ q.object \in GLXObject
    BY <1>2, <2>3 DEF Alike
  <2>5. CASE ~q.ok
    <3>1. o.ok = q.ok /\ o.object = q.object
      BY <2>1, <2>5 DEF Outcome
    <3> QED
      BY <1>3, <2>3, <2>4, <2>5, <3>1 DEF Fine, Alike, IsMapped
  <2>6. CASE q.ok
    <3> DEFINE p == q.object
               named == [p EXCEPT !.va_surface = v]
    <3>1. o.ok = q.ok /\ o.object = named
      BY <2>1, <2>6 DEF Outcome
    <3>2. p \in GLXObject /\ Alike(r, p) /\ p.shows = v /\ p.fields = {}
      BY <2>3, <2>4, <2>6
    <3> HIDE DEF p
    <3>3. /\ named \in GLXObject /\ named.va_surface = v /\ named.shows = p.shows
          /\ named.fields = p.fields /\ named.pixo = p.pixo /\ named.fbo = p.fbo
          /\ named.gl_surface = p.gl_surface /\ named.gl_output = p.gl_output
      BY <3>2 DEF GLXObject
    <3> HIDE DEF named
    <3>4. Good(named)
      BY <3>2, <3>3 DEF Good, Alike
    <3> QED
      BY <2>3, <3>1, <3>2, <3>3, <3>4 DEF Fine, Alike, IsMapped
  <2> QED
    BY <2>3, <2>5, <2>6
<1> QED
  BY <1>2, <1>4, <1>5

(* associate_glx_surface.                                                  *)
LEMMA AssociatedFine ==
  ASSUME NEW r \in GLXObject, Good(r), NEW v \in VASurfaces, NEW f \in SUBSET AllFields,
         NEW o \in AllAssociated(r, v, f)
  PROVE  /\ Fine(r, o) /\ (IsMapped(o.object) => IsMapped(r))
         /\ o.ok => o.object.va_surface = v
<1>1. PICK d \in Deassociated(r) : o \in IF d.ok THEN Associated(d.object, v, f) ELSE {d}
  BY DEF AllAssociated
<1>2. /\ Fine(r, d) /\ d.object.gl_surface = r.gl_surface
      /\ d.ok => d.object.va_surface = NONE
  BY DeassociatedFine
<1>3. CASE ~d.ok
  BY <1>1, <1>2, <1>3 DEF IsMapped
<1>4. CASE d.ok
  <2> DEFINE q == d.object
  <2>1. q \in GLXObject /\ Good(q) /\ q.va_surface = NONE /\ o \in Associated(q, v, f)
    BY <1>1, <1>2, <1>4 DEF Fine
  <2>2. q.fbo = r.fbo /\ q.gl_surface = r.gl_surface
    BY <1>2 DEF Fine
  <2> HIDE DEF q
  <2>3. /\ Fine(q, o) /\ (IsMapped(o.object) => IsMapped(q))
        /\ o.ok => o.object.va_surface = v
    <3>1. CASE Interop
      <4>1. o \in Rendered(q, v)
        BY <2>1, <3>1 DEF Associated
      <4> QED
        BY <2>1, <3>1, <4>1, RenderedFine
    <3>2. CASE ~Interop
      <4>1. o \in Put(q, v, f)
        BY <2>1, <3>2 DEF Associated
      <4> QED
        BY <2>1, <3>2, <4>1, PutFine
    <3> QED
      BY <3>1, <3>2
  <2> QED
    BY <2>2, <2>3 DEF Fine, IsMapped
<1> QED
  BY <1>2, <1>3, <1>4 DEF Fine

(* begin_render_glx_surface: what is mapped is what was rendered to.       *)
LEMMA BegunFine ==
  ASSUME Typed, NEW r \in GLXObject, Good(r), NEW o \in Begun(r)
  PROVE  /\ Fine(r, o)
         /\ o.object.va_surface = r.va_surface /\ o.object.shows = r.shows
         /\ o.ok => r.va_surface \in va
         /\ o.ok /\ Interop => o.object.gl_output = "made" /\ o.object.gl_surface = "mapped"
<1> DEFINE mapped == [r EXCEPT !.gl_surface = "mapped"]
           bound  == [r EXCEPT !.pixo = "bound"]
<1>1. \/ o.ok = FALSE /\ o.object = r
      \/ o.ok = TRUE /\ r.va_surface \in va /\ Interop /\ o.object = mapped
      \/ o.ok = TRUE /\ r.va_surface \in va /\ ~Interop /\ o.object = bound
  BY DEF Begun, Syncs, Failed, Outcome
<1>2. /\ mapped \in GLXObject /\ mapped.gl_surface = "mapped" /\ mapped.pixo = r.pixo
      /\ mapped.gl_output = r.gl_output /\ mapped.va_surface = r.va_surface
      /\ mapped.shows = r.shows /\ mapped.fields = r.fields /\ mapped.fbo = r.fbo
  BY DEF GLXObject
<1>3. /\ bound \in GLXObject /\ bound.gl_surface = r.gl_surface /\ bound.pixo = "bound"
      /\ bound.gl_output = r.gl_output /\ bound.va_surface = r.va_surface
      /\ bound.shows = r.shows /\ bound.fields = r.fields /\ bound.fbo = r.fbo
  BY DEF GLXObject
<1>4. r.va_surface \in va => r.va_surface # NONE
  BY DEF Typed
<1> HIDE DEF mapped, bound
<1> QED
  BY <1>1, <1>2, <1>3, <1>4 DEF Fine, Good

(* end_render_glx_surface: VDPAU has the output surface back.              *)
LEMMA EndedFine ==
  ASSUME NEW r \in GLXObject, Good(r), Interop => r.gl_output = "made",
         NEW o \in Ended(r)
  PROVE  Fine(r, o) /\ ~IsMapped(o.object)
<1>1. CASE Interop
  <2> DEFINE q == [r EXCEPT !.gl_surface = "unmapped"]
  <2>1. o.ok = TRUE /\ o.object = q
    BY <1>1 DEF Ended, Outcome
  <2>2. /\ q \in GLXObject /\ q.gl_surface = "unmapped" /\ q.pixo = r.pixo
        /\ q.gl_output = r.gl_output /\ q.va_surface = r.va_surface
        /\ q.shows = r.shows /\ q.fields = r.fields /\ q.fbo = r.fbo
    BY DEF GLXObject
  <2> HIDE DEF q
  <2> QED
    BY <1>1, <2>1, <2>2 DEF Fine, Good, IsMapped
<1>2. CASE ~Interop
  <2>1. Fine(r, o) /\ o.object.gl_surface = r.gl_surface
    BY <1>2, UnboundFine DEF Ended
  <2> QED
    BY <1>2, <2>1 DEF Good, IsMapped
<1> QED
  BY <1>1, <1>2

(* Only a copy that has bound the framebuffer works on a surface with it.  *)
LEMMA BoundIsMine ==
  ASSUME ContextInv, UsesInv, NEW t \in Threads, pc[t] \notin {"idle", "leave"},
         Object(t).fbo = "bound"
  PROVE  pc[t] \in BoundAt /\ job[t].op = "copy"
<1>1. job[t].glx \in GLXSurfaces /\ IsGLX(job[t].glx)
  BY DEF ContextInv, Typed, CallsHaveContext, HasContext, Jobs
<1>2. PICK u \in Threads : pc[u] \in BoundAt /\ job[u].glx = job[t].glx /\ job[u].op = "copy"
  BY <1>1 DEF UsesInv, BoundInCopy, Object
<1>3. u = t
  BY <1>2, CallsExclude DEF OneCallPerSurface, BoundAt
<1> QED
  BY <1>2, <1>3

(* What a part of a call has to leave behind, where the call goes on.      *)
LeavesFine(t, o, at) ==
  /\ Good(o.object) /\ Knows(at, [job[t] EXCEPT !.ok = @ /\ o.ok], o.object)
  /\ o.object.fbo = "bound" => at \in BoundAt /\ job[t].op = "copy"

(* Then nothing else changes: no other call works on the same surface.     *)
LEMMA WorkUses ==
  ASSUME ContextInv, UsesInv, NEW t \in Threads, pc[t] \notin {"idle", "leave"},
         NEW outcomes, Keeps(Object(t), outcomes),
         NEW next \in Labels \ {"idle"}, NEW failed \in Labels \ {"idle"},
         Work(t, outcomes, next, failed), fault' \in Faults,
         \A o \in outcomes : LeavesFine(t, o, IF o.ok THEN next ELSE failed)
  PROVE  UsesInv'
<1> USE DEF ContextInv, UsesInv
<1> PICK o \in outcomes :
       /\ glx' = [glx EXCEPT ![job[t].glx] = o.object]
       /\ job' = [job EXCEPT ![t].ok = @ /\ o.ok]
       /\ GoTo(t, IF o.ok THEN next ELSE failed)
  BY DEF Work
<1> DEFINE at == IF o.ok THEN next ELSE failed
           mine == job[t].glx
           j == [job[t] EXCEPT !.ok = @ /\ o.ok]
<1>1. UNCHANGED <<vtable, interop_env>> /\ LeavesFine(t, o, at) /\ at \in Labels \ {"idle"}
  BY DEF Work, glVars
<1>2. /\ job[t] \in Jobs /\ mine \in GLXSurfaces /\ IsGLX(mine)
      /\ o.ok \in BOOLEAN /\ o.object \in GLXObject
  BY DEF Typed, CallsHaveContext, HasContext, Keeps, Same, Jobs
<1>3. /\ job'[t] = j /\ job'[t].glx = mine /\ job'[t].op = job[t].op
      /\ \A u \in Threads : u # t => job'[u] = job[u]
  BY <1>2 DEF Typed, Jobs
<1>4. pc'[t] = at /\ \A u \in Threads : u # t => pc'[u] = pc[u]
  BY DEF GoTo, Typed
<1>5. /\ glx'[mine] = o.object /\ \A g \in GLXSurfaces \ {mine} : glx'[g] = glx[g]
  BY <1>2 DEF Typed
<1> HIDE DEF at, j, mine
<1>6. Kinds'
  BY <1>1 DEF Kinds
<1>7. ObjectsGood'
  <2> SUFFICES ASSUME NEW g \in GLXSurfaces, IsGLX(g)'
               PROVE  Good(glx[g])' /\ vtable' \in {"fbo", "interop"}
    BY DEF ObjectsGood
  <2>1. CASE g = mine
    BY <1>1, <1>2, <1>5, <2>1 DEF LeavesFine, Good, Interop, ObjectsGood
  <2>2. CASE g # mine
    <3>1. Good(glx[g]) /\ vtable \in {"fbo", "interop"} /\ glx'[g] = glx[g]
      BY <1>5, <2>2 DEF ObjectsGood, IsGLX
    <3> QED
      BY <1>1, <3>1 DEF Good, Interop
  <2> QED
    BY <2>1, <2>2
<1>8. CallsKnow'
  <2> SUFFICES ASSUME NEW u \in Threads PROVE Knows(pc[u], job[u], Object(u))'
    BY DEF CallsKnow
  <2>1. CASE u = t
    <3>1. Object(t)' = o.object
      BY <1>3, <1>5 DEF Object
    <3>2. Knows(at, j, o.object)
      BY <1>1 DEF LeavesFine, j
    <3> QED
      BY <1>1, <1>3, <1>4, <2>1, <3>1, <3>2 DEF Knows, Interop
  <2>2. CASE u # t /\ pc[u] \in {"idle", "leave"}
    BY <1>3, <1>4, <2>2 DEF CallsKnow, Knows
  <2>3. CASE u # t /\ pc[u] \notin {"idle", "leave"}
    <3>1. job[u].glx # mine /\ job[u].glx \in GLXSurfaces
      BY <2>3, CallsExclude DEF OneCallPerSurface, Typed, Jobs, mine
    <3>2. Object(u)' = Object(u) /\ pc'[u] = pc[u] /\ job'[u] = job[u]
      BY <1>3, <1>4, <1>5, <2>3, <3>1 DEF Object
    <3>3. Knows(pc[u], job[u], Object(u))
      BY DEF CallsKnow
    <3> QED
      BY <1>1, <3>2, <3>3 DEF Knows, Interop
  <2> QED
    BY <2>1, <2>2, <2>3
<1>9. BoundInCopy'
  <2> SUFFICES ASSUME NEW g \in GLXSurfaces, IsGLX(g)', glx'[g].fbo = "bound"
               PROVE  \E u \in Threads : pc'[u] \in BoundAt /\ job'[u].glx = g
                                         /\ job'[u].op = "copy"
    BY DEF BoundInCopy
  <2>1. CASE g = mine
    BY <1>1, <1>3, <1>4, <1>5, <2>1 DEF LeavesFine
  <2>2. CASE g # mine
    <3>1. IsGLX(g) /\ glx[g].fbo = "bound"
      BY <1>5, <2>2 DEF IsGLX
    <3>2. PICK u \in Threads : pc[u] \in BoundAt /\ job[u].glx = g /\ job[u].op = "copy"
      BY <3>1 DEF BoundInCopy
    <3> QED
      BY <1>3, <1>4, <2>2, <3>2 DEF mine
  <2> QED
    BY <2>1, <2>2
<1> QED
  BY <1>6, <1>7, <1>8, <1>9

(* Where a call works, what is known of it.                                *)
LEMMA AtWork ==
  ASSUME ContextInv, UsesInv, NEW t \in Threads, pc[t] \notin {"idle", "leave"}
  PROVE  /\ job[t] \in Jobs /\ Object(t) \in GLXObject /\ Good(Object(t))
         /\ Knows(pc[t], job[t], Object(t))
         /\ Object(t).fbo = "bound" => pc[t] \in BoundAt /\ job[t].op = "copy"
<1>1. job[t] \in Jobs /\ IsGLX(job[t].glx) /\ job[t].glx \in GLXSurfaces
  BY DEF ContextInv, Typed, CallsHaveContext, HasContext, Jobs
<1>2. Object(t) \in GLXObject /\ Good(Object(t))
  BY <1>1 DEF ContextInv, Typed, UsesInv, ObjectsGood, Object, IsGLX
<1> QED
  BY <1>1, <1>2, BoundIsMine DEF UsesInv, CallsKnow

(* A part of a call only adds its own result to the arguments.             *)
LEMMA JobKept ==
  ASSUME NEW j \in Jobs, NEW b \in BOOLEAN
  PROVE  LET k == [j EXCEPT !.ok = @ /\ b] IN
         k.op = j.op /\ k.va = j.va /\ k.texture = j.texture /\ k.ok = (j.ok /\ b)
BY DEF Jobs

(***************************************************************************)
(* The parts of a call that work on the object, one by one.                *)
(***************************************************************************)
LEMMA AssociateUses ==
  ASSUME ContextInv, UsesInv, NEW t \in Threads, Associate(t)
  PROVE  UsesInv'
<1> DEFINE r == Object(t)
           v == job[t].va
           f == job[t].flags
           next == IF job[t].op = "copy" THEN "bind" ELSE "leave"
<1>1. /\ pc[t] = "associate" /\ fault' = IF IsMapped(r) THEN "mapped" ELSE fault
      /\ Work(t, AllAssociated(r, v, f), next, "leave")
  BY DEF Associate, At, AllAssociated
<1>2. /\ job[t] \in Jobs /\ r \in GLXObject /\ Good(r) /\ Knows(pc[t], job[t], r)
      /\ r.fbo # "bound"
  BY <1>1, AtWork DEF BoundAt
<1>3. v \in VASurfaces /\ f \in SUBSET AllFields /\ job[t].op \in {"associate", "copy"}
  BY <1>1, <1>2 DEF Knows, Jobs
<1>4. Keeps(r, AllAssociated(r, v, f)) /\ next \in Labels \ {"idle"} /\ "leave" \in Labels \ {"idle"}
  BY <1>2, <1>3, KeepsAssociated DEF Labels
<1>5. ASSUME NEW o \in AllAssociated(r, v, f)
      PROVE  LeavesFine(t, o, IF o.ok THEN next ELSE "leave")
  <2> DEFINE j == [job[t] EXCEPT !.ok = @ /\ o.ok]
  <2>1. Fine(r, o) /\ (o.ok => o.object.va_surface = v)
    <3> HIDE DEF r, v, f
    <3> QED
      BY <1>2, <1>3, AssociatedFine
  <2>2. j.op = job[t].op /\ j.va = v
    BY <1>2, <2>1, JobKept DEF Fine
  <2> HIDE DEF j
  <2>3. Knows(IF o.ok THEN next ELSE "leave", j, o.object)
    BY <1>3, <2>1, <2>2 DEF Knows
  <2> QED
    BY <1>2, <2>1, <2>3 DEF LeavesFine, Fine, j
<1>6. fault' \in Faults /\ pc[t] \notin {"idle", "leave"}
  BY <1>1 DEF UsesInv, Kinds, Faults
<1> HIDE DEF r, v, f, next
<1> QED
  BY <1>1, <1>4, <1>5, <1>6, WorkUses DEF r

(* deassociate_glx_surface.                                                *)
LEMMA DeassociateUses ==
  ASSUME ContextInv, UsesInv, NEW t \in Threads, Deassociate(t)
  PROVE  UsesInv'
<1> DEFINE r == Object(t)
<1>1. /\ pc[t] = "deassociate" /\ fault' = fault
      /\ Work(t, Deassociated(r), "leave", "leave")
  BY DEF Deassociate, At
<1>2. /\ job[t] \in Jobs /\ r \in GLXObject /\ Good(r) /\ Knows(pc[t], job[t], r)
      /\ r.fbo # "bound"
  BY <1>1, AtWork DEF BoundAt
<1>3. Keeps(r, Deassociated(r)) /\ "leave" \in Labels \ {"idle"}
  BY <1>2, KeepsDeassociated DEF Labels
<1>4. ASSUME NEW o \in Deassociated(r)
      PROVE  LeavesFine(t, o, IF o.ok THEN "leave" ELSE "leave")
  <2> DEFINE j == [job[t] EXCEPT !.ok = @ /\ o.ok]
  <2>1. Fine(r, o)
    <3> HIDE DEF r
    <3> QED
      BY <1>2, DeassociatedFine
  <2>2. j.op = job[t].op /\ j.va = job[t].va
    BY <1>2, <2>1, JobKept DEF Fine
  <2> HIDE DEF j
  <2>3. Knows("leave", j, o.object)
    BY <1>1, <1>2, <2>2 DEF Knows
  <2> QED
    BY <1>2, <2>1, <2>3 DEF LeavesFine, Fine, j
<1>5. fault' \in Faults /\ pc[t] \notin {"idle", "leave"}
  BY <1>1 DEF UsesInv, Kinds
<1> HIDE DEF r
<1> QED
  BY <1>1, <1>3, <1>4, <1>5, WorkUses DEF r

(* begin_render_glx_surface.                                               *)
LEMMA BeginUses ==
  ASSUME ContextInv, UsesInv, NEW t \in Threads, BeginRender(t)
  PROVE  UsesInv'
<1> DEFINE r == Object(t)
           next == IF job[t].op = "copy" THEN "draw" ELSE "leave"
           failed == IF job[t].op = "copy" THEN "unbind" ELSE "leave"
<1>1. pc[t] = "begin" /\ fault' \in Faults /\ Work(t, Begun(r), next, failed)
  BY DEF BeginRender, At, UsesInv, Kinds
<1>2. /\ job[t] \in Jobs /\ r \in GLXObject /\ Good(r) /\ Knows(pc[t], job[t], r)
      /\ r.fbo = "bound" => job[t].op = "copy"
  BY <1>1, AtWork
<1>3. Keeps(r, Begun(r)) /\ next \in Labels \ {"idle"} /\ failed \in Labels \ {"idle"}
  BY <1>2, KeepsBegun DEF Labels
<1>4. ASSUME NEW o \in Begun(r) PROVE LeavesFine(t, o, IF o.ok THEN next ELSE failed)
  <2> DEFINE j == [job[t] EXCEPT !.ok = @ /\ o.ok]
             at == IF o.ok THEN next ELSE failed
  <2>1. /\ Fine(r, o) /\ o.object.va_surface = r.va_surface
        /\ o.ok /\ Interop => o.object.gl_output = "made" /\ o.object.gl_surface = "mapped"
    <3> HIDE DEF r
    <3> QED
      BY <1>2, BegunFine DEF ContextInv
  <2>2. j.op = job[t].op /\ j.va = job[t].va /\ (~o.ok => ~j.ok)
    BY <1>2, <2>1, JobKept DEF Fine
  <2>3. /\ job[t].op = "copy" => r.va_surface = job[t].va
        /\ job[t].op \in {"associate", "copy"} => job[t].va \in VASurfaces
    BY <1>1, <1>2 DEF Knows
  <2> HIDE DEF j
  <2>4. CASE job[t].op # "copy"
    <3>1. at = "leave"
      BY <2>4
    <3> QED
      BY <1>2, <2>1, <2>2, <2>3, <2>4, <3>1 DEF LeavesFine, Fine, Knows, j
  <2>5. CASE job[t].op = "copy" /\ o.ok
    <3>1. at = "draw"
      BY <2>5
    <3>2. Knows("draw", j, o.object)
      BY <2>1, <2>2, <2>3, <2>5 DEF Knows
    <3> QED
      BY <2>1, <2>5, <3>1, <3>2 DEF LeavesFine, Fine, BoundAt, j
  <2>6. CASE job[t].op = "copy" /\ ~o.ok
    <3>1. at = "unbind"
      BY <2>6
    <3>2. Knows("unbind", j, o.object)
      BY <2>2, <2>3, <2>6 DEF Knows
    <3> QED
      BY <2>1, <2>6, <3>1, <3>2 DEF LeavesFine, Fine, BoundAt, j
  <2> QED
    BY <2>1, <2>4, <2>5, <2>6 DEF Fine
<1>5. pc[t] \notin {"idle", "leave"}
  BY <1>1
<1> HIDE DEF r, next, failed
<1> QED
  BY <1>1, <1>3, <1>4, <1>5, WorkUses DEF r

(* end_render_glx_surface.                                                 *)
LEMMA EndUses ==
  ASSUME ContextInv, UsesInv, NEW t \in Threads, EndRender(t)
  PROVE  UsesInv'
<1> DEFINE r == Object(t)
           next == IF job[t].op = "copy" THEN "unbind" ELSE "leave"
<1>1. pc[t] = "end" /\ fault' \in Faults /\ Work(t, Ended(r), next, next)
  BY DEF EndRender, At, UsesInv, Kinds, Faults
<1>2. /\ job[t] \in Jobs /\ r \in GLXObject /\ Good(r) /\ Knows(pc[t], job[t], r)
      /\ r.fbo = "bound" => job[t].op = "copy"
  BY <1>1, AtWork
<1>3. Keeps(r, Ended(r)) /\ next \in Labels \ {"idle"}
  BY <1>2, KeepsEnded DEF Labels
<1>4. ASSUME NEW o \in Ended(r) PROVE LeavesFine(t, o, IF o.ok THEN next ELSE next)
  <2> DEFINE j == [job[t] EXCEPT !.ok = @ /\ o.ok]
  <2>1. Fine(r, o) /\ ~IsMapped(o.object)
    <3>1. Interop => r.gl_output = "made"
      BY <1>1, <1>2 DEF Knows
    <3> HIDE DEF r
    <3> QED
      BY <1>2, <3>1, EndedFine
  <2>2. j.op = job[t].op /\ j.va = job[t].va /\ j.texture = job[t].texture
    BY <1>2, <2>1, JobKept DEF Fine
  <2>3. /\ job[t].op = "copy" => job[t].texture = job[t].va
        /\ job[t].op \in {"associate", "copy"} => job[t].va \in VASurfaces
    BY <1>1, <1>2 DEF Knows
  <2> HIDE DEF j
  <2>4. Knows(next, j, o.object)
    BY <2>1, <2>2, <2>3 DEF Knows
  <2> QED
    BY <1>2, <2>1, <2>4 DEF LeavesFine, Fine, BoundAt, j
<1>5. pc[t] \notin {"idle", "leave"}
  BY <1>1
<1> HIDE DEF r, next
<1> QED
  BY <1>1, <1>3, <1>4, <1>5, WorkUses DEF r

(* gl_create_framebuffer_object, on the first copy only.                   *)
LEMMA MakeFramebufferUses ==
  ASSUME ContextInv, UsesInv, NEW t \in Threads, MakeFramebuffer(t)
  PROVE  UsesInv'
<1> DEFINE r == Object(t)
           q == [r EXCEPT !.fbo = "unbound"]
           outcomes == IF r.fbo # "none" THEN {Outcome(TRUE, r)}
                       ELSE {Outcome(TRUE, q)} \cup Failed("fbo", r)
<1>1. pc[t] = "fbo" /\ fault' = fault /\ Work(t, outcomes, "associate", "leave")
  BY DEF MakeFramebuffer, At
<1>2. /\ job[t] \in Jobs /\ r \in GLXObject /\ Good(r) /\ Knows(pc[t], job[t], r)
      /\ r.fbo # "bound"
  BY <1>1, AtWork DEF BoundAt
<1>3. /\ Same(r, r) /\ Same(r, q) /\ q.fbo = "unbound" /\ q.gl_surface = r.gl_surface
      /\ q.gl_output = r.gl_output /\ q.pixo = r.pixo /\ q.va_surface = r.va_surface
      /\ q.shows = r.shows /\ q.fields = r.fields
  BY <1>2 DEF Same, GLXObject
<1>4. \A o \in outcomes : o.ok \in BOOLEAN /\ (o.object = r \/ o.object = q)
  <2>1. \A o \in outcomes : o \in {Outcome(TRUE, r), Outcome(FALSE, r), Outcome(TRUE, q)}
    BY DEF Failed, MayFail
  <2> HIDE DEF outcomes, q, r
  <2> QED
    BY <2>1, OutcomeParts
<1> HIDE DEF q, outcomes
<1>5. Keeps(r, outcomes) /\ {"associate", "leave"} \subseteq Labels \ {"idle"}
  BY <1>3, <1>4 DEF Keeps, Labels
<1>6. ASSUME NEW o \in outcomes
      PROVE  LeavesFine(t, o, IF o.ok THEN "associate" ELSE "leave")
  <2> DEFINE j == [job[t] EXCEPT !.ok = @ /\ o.ok]
             at == IF o.ok THEN "associate" ELSE "leave"
  <2>1. j.op = job[t].op /\ j.va = job[t].va
    BY <1>2, <1>4, JobKept
  <2>2. /\ job[t].op = "copy" /\ job[t].va \in VASurfaces
        /\ Careful => ~IsMapped(r)
    BY <1>1, <1>2 DEF Knows
  <2> HIDE DEF j
  <2>3. Good(o.object) /\ o.object.fbo # "bound" /\ o.object.gl_surface = r.gl_surface
    BY <1>2, <1>3, <1>4 DEF Good
  <2>4. Knows(at, j, o.object)
    BY <2>1, <2>2, <2>3 DEF Knows, IsMapped
  <2> QED
    BY <2>3, <2>4 DEF LeavesFine, j
<1>7. fault' \in Faults /\ pc[t] \notin {"idle", "leave"}
  BY <1>1 DEF UsesInv, Kinds
<1> HIDE DEF r
<1> QED
  BY <1>1, <1>5, <1>6, <1>7, WorkUses DEF r

(* gl_bind_framebuffer_object and gl_unbind_framebuffer_object.            *)
LEMMA BindFramebufferUses ==
  ASSUME ContextInv, UsesInv, NEW t \in Threads, BindFramebuffer(t) \/ UnbindFramebuffer(t)
  PROVE  UsesInv'
<1> DEFINE r == Object(t)
           q == [r EXCEPT !.fbo = "bound"]
           p == [r EXCEPT !.fbo = "unbound"]
           next == IF job[t].ok THEN "deassociate" ELSE "leave"
<1>1. /\ fault' = fault
      /\ \/ pc[t] = "bind" /\ Work(t, {Outcome(TRUE, q)}, "begin", "leave")
         \/ pc[t] = "unbind" /\ Work(t, {Outcome(TRUE, p)}, next, "leave")
  BY DEF BindFramebuffer, UnbindFramebuffer, UnboundFramebuffer, At
<1>2. /\ job[t] \in Jobs /\ r \in GLXObject /\ Good(r) /\ Knows(pc[t], job[t], r)
  BY <1>1, AtWork
<1>3. \A x \in {q, p} :
        /\ Same(r, x) /\ x.gl_surface = r.gl_surface
        /\ x.gl_output = r.gl_output /\ x.pixo = r.pixo /\ x.va_surface = r.va_surface
        /\ x.shows = r.shows /\ x.fields = r.fields
  BY <1>2 DEF Same, GLXObject
<1>4. p.fbo = "unbound"
  BY <1>2 DEF GLXObject
<1> HIDE DEF q, p
<1>5. Good(q) /\ Good(p)
  BY <1>2, <1>3 DEF Good
<1>6. /\ Keeps(r, {Outcome(TRUE, q)}) /\ Keeps(r, {Outcome(TRUE, p)})
      /\ "begin" \in Labels \ {"idle"} /\ "leave" \in Labels \ {"idle"}
      /\ next \in Labels \ {"idle"}
  BY <1>3, OutcomeKeeps DEF Keeps, Labels
<1>7. fault' \in Faults /\ pc[t] \notin {"idle", "leave"}
  BY <1>1 DEF UsesInv, Kinds
<1> DEFINE j == [job[t] EXCEPT !.ok = @ /\ TRUE]
<1>8. /\ j.op = job[t].op /\ j.va = job[t].va /\ j.texture = job[t].texture
      /\ j.ok = job[t].ok
  BY <1>2, JobKept DEF Jobs
<1> HIDE DEF j
<1>9. CASE pc[t] = "bind" /\ Work(t, {Outcome(TRUE, q)}, "begin", "leave")
  <2>1. job[t].op = "copy" /\ r.va_surface = job[t].va /\ job[t].va \in VASurfaces
    BY <1>2, <1>9 DEF Knows
  <2>2. Knows("begin", j, q)
    BY <1>3, <1>8, <2>1 DEF Knows
  <2>3. LeavesFine(t, Outcome(TRUE, q), "begin")
    BY <1>5, <2>1, <2>2, OutcomeParts DEF LeavesFine, BoundAt, j
  <2>4. \A o \in {Outcome(TRUE, q)} : LeavesFine(t, o, IF o.ok THEN "begin" ELSE "leave")
    BY <2>3, OutcomeParts
  <2> DEFINE outcomes == {Outcome(TRUE, q)}
  <2>5. /\ Keeps(r, outcomes) /\ Work(t, outcomes, "begin", "leave")
        /\ \A o \in outcomes : LeavesFine(t, o, IF o.ok THEN "begin" ELSE "leave")
    BY <1>6, <1>9, <2>4
  <2> HIDE DEF outcomes, r, next
  <2> QED
    BY <1>6, <1>7, <2>5, WorkUses DEF r
<1>10. CASE pc[t] = "unbind" /\ Work(t, {Outcome(TRUE, p)}, next, "leave")
  <2>1. /\ job[t].op = "copy" /\ job[t].va \in VASurfaces
        /\ job[t].ok => job[t].texture = job[t].va /\ ~IsMapped(r)
    BY <1>2, <1>10 DEF Knows
  <2>2. Knows(next, j, p)
    BY <1>3, <1>8, <2>1 DEF Knows, IsMapped
  <2> HIDE DEF next
  <2>3. LeavesFine(t, Outcome(TRUE, p), next)
    BY <1>4, <1>5, <2>2, OutcomeParts DEF LeavesFine, j
  <2>4. \A o \in {Outcome(TRUE, p)} : LeavesFine(t, o, IF o.ok THEN next ELSE "leave")
    BY <2>3, OutcomeParts
  <2> DEFINE outcomes == {Outcome(TRUE, p)}
  <2>5. /\ Keeps(r, outcomes) /\ Work(t, outcomes, next, "leave")
        /\ \A o \in outcomes : LeavesFine(t, o, IF o.ok THEN next ELSE "leave")
    BY <1>6, <1>10, <2>4
  <2> HIDE DEF outcomes, r, next
  <2> QED
    BY <1>6, <1>7, <2>5, WorkUses DEF r
<1> QED
  BY <1>1, <1>9, <1>10

(***************************************************************************)
(* Steps that leave the GLX surfaces alone, or only those that are in use. *)
(***************************************************************************)
LEMMA StillUses ==
  ASSUME UsesInv, NEW t \in Threads, UNCHANGED <<vtable, interop_env, glx>>,
         fault' \in Faults,
         \A u \in Threads \ {t} : pc'[u] = pc[u] /\ job'[u] = job[u],
         Knows(pc'[t], job'[t], glx[job'[t].glx]),
         pc[t] \in BoundAt /\ job[t].op = "copy" =>
           pc'[t] \in BoundAt /\ job'[t].glx = job[t].glx /\ job'[t].op = "copy"
  PROVE  UsesInv'
<1> USE DEF UsesInv
<1>1. Kinds' /\ ObjectsGood'
  BY DEF Kinds, ObjectsGood, Good, Interop, IsGLX
<1>2. CallsKnow'
  <2> SUFFICES ASSUME NEW u \in Threads PROVE Knows(pc[u], job[u], Object(u))'
    BY DEF CallsKnow
  <2>1. CASE u = t
    BY <2>1 DEF Knows, Interop, Object
  <2>2. CASE u # t
    <3>1. /\ Knows(pc[u], job[u], Object(u)) /\ pc'[u] = pc[u] /\ job'[u] = job[u]
          /\ Object(u)' = Object(u)
      BY <2>2 DEF CallsKnow, Object
    <3> QED
      BY <3>1 DEF Knows, Interop
  <2> QED
    BY <2>1, <2>2
<1>3. BoundInCopy'
  <2> SUFFICES ASSUME NEW g \in GLXSurfaces, IsGLX(g)', glx'[g].fbo = "bound"
               PROVE  \E u \in Threads : pc'[u] \in BoundAt /\ job'[u].glx = g
                                         /\ job'[u].op = "copy"
    BY DEF BoundInCopy
  <2>1. PICK u \in Threads : pc[u] \in BoundAt /\ job[u].glx = g /\ job[u].op = "copy"
    BY DEF BoundInCopy, IsGLX
  <2> QED
    BY <2>1
<1> QED
  BY <1>1, <1>2, <1>3

(* render_pixmap draws what the surface shows.                             *)
LEMMA DrawUses ==
  ASSUME ContextInv, UsesInv, NEW t \in Threads, Draw(t)
  PROVE  UsesInv'
<1>1. /\ pc[t] = "draw" /\ UNCHANGED <<vtable, interop_env, glx, fault>>
      /\ job' = [job EXCEPT ![t].texture = Object(t).shows] /\ pc' = [pc EXCEPT ![t] = "end"]
  BY DEF Draw, At, GoTo, glVars
<1>2. job[t] \in Jobs /\ Good(Object(t)) /\ Knows("draw", job[t], Object(t))
  BY <1>1, AtWork
<1>3. /\ pc'[t] = "end" /\ \A u \in Threads \ {t} : pc'[u] = pc[u] /\ job'[u] = job[u]
      /\ job'[t].op = job[t].op /\ job'[t].va = job[t].va /\ job'[t].glx = job[t].glx
      /\ job'[t].texture = Object(t).shows
  BY <1>1, <1>2 DEF ContextInv, Typed, Jobs
<1>4. /\ job[t].op = "copy" /\ job[t].va \in VASurfaces /\ Object(t).va_surface = job[t].va
      /\ Object(t).shows = job[t].va
  BY <1>2 DEF Knows, Good
<1>5. Knows(pc'[t], job'[t], glx[job'[t].glx])
  BY <1>2, <1>3, <1>4 DEF Knows, Object
<1>6. fault' \in Faults
  BY <1>1 DEF UsesInv, Kinds
<1> QED
  BY <1>1, <1>3, <1>4, <1>5, <1>6, StillUses DEF BoundAt

(* A call that begins, with what the application promises of it.           *)
LEMMA EnterUses ==
  ASSUME ContextInv, UsesInv, "begun" \in AppRules, NEW t \in Threads, NEW op \in Ops,
         NEW g \in GLXSurfaces, NEW v, NEW f, Enter(t, op, g, v, f)
  PROVE  UsesInv'
<1> DEFINE new == [op |-> op, glx |-> g, va |-> v, flags |-> f, old_cs |-> current[t],
                   ok |-> TRUE, texture |-> NONE]
<1>1. /\ pc[t] = "idle" /\ IsGLX(g) /\ UNCHANGED <<vtable, interop_env, glx, fault>>
      /\ job' = [job EXCEPT ![t] = new] /\ pc' = [pc EXCEPT ![t] = Entry[op]]
      /\ op \in {"associate", "copy"} => v \in VASurfaces
      /\ op = "end" => IsMapped(glx[g]) \/ glx[g].pixo = "bound"
      /\ Careful => (op \in {"associate", "copy"} => ~IsMapped(glx[g]))
  BY DEF Enter, Idle, GoTo, Promised, Careful, ContextInv, Typed
<1>2. new.op = op /\ new.glx = g /\ new.va = v
  OBVIOUS
<1> HIDE DEF new
<1>3. /\ pc'[t] = Entry[op] /\ job'[t] = new
      /\ \A u \in Threads \ {t} : pc'[u] = pc[u] /\ job'[u] = job[u]
  BY <1>1 DEF ContextInv, Typed
<1>4. Good(glx[g])
  BY <1>1 DEF UsesInv, ObjectsGood
<1>5. op = "end" /\ Interop => glx[g].gl_output = "made" /\ glx[g].gl_surface = "mapped"
  BY <1>1, <1>4 DEF Good, IsMapped
<1>6. Knows(Entry[op], new, glx[g])
  <2> SUFFICES ASSUME NEW at, at = Entry[op] PROVE Knows(at, new, glx[g])
    OBVIOUS
  <2>1. /\ at = "fbo" <=> op = "copy"
        /\ at \in {"destroy", "associate", "fbo", "deassociate", "begin", "end"}
        /\ at # "fbo" => at = op
    BY DEF Entry, Ops
  <2> QED
    BY <1>1, <1>2, <1>5, <2>1 DEF Knows, Ops
<1>7. Knows(pc'[t], job'[t], glx[job'[t].glx])
  BY <1>2, <1>3, <1>6
<1>8. fault' \in Faults
  BY <1>1 DEF UsesInv, Kinds
<1> QED
  BY <1>1, <1>3, <1>7, <1>8, StillUses DEF BoundAt

(* A call that ends.                                                       *)
LEMMA LeaveUses ==
  ASSUME ContextInv, UsesInv, NEW t \in Threads, Leave(t)
  PROVE  UsesInv'
<1>1. /\ pc[t] = "leave" /\ UNCHANGED <<vtable, interop_env, glx>> /\ fault' \in Faults
      /\ job' = [job EXCEPT ![t] = NONE] /\ pc' = [pc EXCEPT ![t] = "idle"]
  BY DEF Leave, At, Return, GoTo, UsesInv, Kinds, Faults
<1>2. pc'[t] = "idle" /\ \A u \in Threads \ {t} : pc'[u] = pc[u] /\ job'[u] = job[u]
  BY <1>1 DEF ContextInv, Typed
<1>3. Knows(pc'[t], job'[t], glx[job'[t].glx])
  BY <1>2 DEF Knows
<1> QED
  BY <1>1, <1>2, <1>3, StillUses DEF BoundAt

(* One GLX surface is made or destroyed, which no call works on after.     *)
LEMMA OneChanged ==
  ASSUME ContextInv, UsesInv, NEW g \in GLXSurfaces, UNCHANGED <<vtable, interop_env, job, fault>>,
         \A h \in GLXSurfaces \ {g} : glx'[h] = glx[h],
         IsGLX(g)' => /\ Good(glx'[g]) /\ glx'[g].fbo # "bound"
                      /\ vtable \in {"fbo", "interop"},
         \A u \in Threads : \/ pc'[u] = pc[u] /\ (pc[u] \notin {"idle", "leave"} => job[u].glx # g)
                            \/ pc[u] = "destroy" /\ pc'[u] = "leave"
  PROVE  UsesInv'
<1> USE DEF UsesInv
<1>1. Kinds'
  BY DEF Kinds
<1>2. ObjectsGood'
  <2> SUFFICES ASSUME NEW h \in GLXSurfaces, IsGLX(h)'
               PROVE  Good(glx[h])' /\ vtable' \in {"fbo", "interop"}
    BY DEF ObjectsGood
  <2>1. Good(glx'[h]) /\ vtable \in {"fbo", "interop"}
    BY DEF ObjectsGood, IsGLX
  <2> QED
    BY <2>1 DEF Good, Interop
<1>3. CallsKnow'
  <2> SUFFICES ASSUME NEW u \in Threads PROVE Knows(pc[u], job[u], Object(u))'
    BY DEF CallsKnow
  <2>1. Knows(pc[u], job[u], Object(u)) /\ job'[u] = job[u]
    BY DEF CallsKnow
  <2>2. CASE pc'[u] = pc[u] /\ pc[u] \in {"idle", "leave"}
    BY <2>1, <2>2 DEF Knows
  <2>3. CASE pc'[u] = pc[u] /\ pc[u] \notin {"idle", "leave"} /\ job[u].glx # g
    <3>1. Object(u)' = Object(u)
      BY <2>3 DEF Object, ContextInv, Typed, Jobs
    <3> QED
      BY <2>1, <2>3, <3>1 DEF Knows, Interop
  <2>4. CASE pc[u] = "destroy" /\ pc'[u] = "leave"
    BY <2>1, <2>4 DEF Knows
  <2> QED
    BY <2>2, <2>3, <2>4
<1>4. BoundInCopy'
  <2> SUFFICES ASSUME NEW h \in GLXSurfaces, IsGLX(h)', glx'[h].fbo = "bound"
               PROVE  \E u \in Threads : pc'[u] \in BoundAt /\ job'[u].glx = h
                                         /\ job'[u].op = "copy"
    BY DEF BoundInCopy
  <2>1. h # g /\ IsGLX(h) /\ glx[h].fbo = "bound"
    BY DEF IsGLX
  <2>2. PICK u \in Threads : pc[u] \in BoundAt /\ job[u].glx = h /\ job[u].op = "copy"
    BY <2>1 DEF BoundInCopy
  <2> QED
    BY <2>2 DEF BoundAt
<1> QED
  BY <1>1, <1>2, <1>3, <1>4

(* vdpau_DestroySurfaceGLX.                                                *)
LEMMA DestroyUses ==
  ASSUME ContextInv, UsesInv, NEW t \in Threads, DestroySurfaceGLX(t)
  PROVE  UsesInv'
<1>1. /\ pc[t] = "destroy" /\ UNCHANGED <<vtable, interop_env, job, fault>>
      /\ glx' = [glx EXCEPT ![job[t].glx] = NONE] /\ pc' = [pc EXCEPT ![t] = "leave"]
  BY DEF DestroySurfaceGLX, At, GoTo
<1>2. PICK g \in GLXSurfaces : g = job[t].glx
  BY <1>1, AtWork DEF Jobs
<1>3. \A u \in Threads : u # t /\ pc[u] \notin {"idle", "leave"} => job[u].glx # g
  BY <1>1, <1>2, CallsExclude DEF OneCallPerSurface
<1>4. /\ \A h \in GLXSurfaces \ {g} : glx'[h] = glx[h]
      /\ glx'[g] = NONE
  BY <1>1, <1>2 DEF ContextInv, Typed
<1>5. ~IsGLX(g)'
  BY <1>4 DEF IsGLX
<1>6. pc'[t] = "leave" /\ \A u \in Threads \ {t} : pc'[u] = pc[u]
  BY <1>1 DEF ContextInv, Typed
<1>7. \A u \in Threads : \/ pc'[u] = pc[u] /\ (pc[u] \notin {"idle", "leave"} => job[u].glx # g)
                         \/ pc[u] = "destroy" /\ pc'[u] = "leave"
  BY <1>1, <1>3, <1>6
<1> QED
  BY <1>1, <1>2, <1>4, <1>5, <1>7, OneChanged

(* vdpau_CreateSurfaceGLX: the first one finds out what GL can do.         *)
LEMMA CreateUses ==
  ASSUME ContextInv, UsesInv, NEW t \in Threads, NEW g \in GLXSurfaces, CreateSurfaceGLX(t, g)
  PROVE  UsesInv'
<1>1. /\ UNCHANGED <<interop_env, pc, job, fault>> /\ vtable' \in Loaded /\ ~IsGLX(g)
  BY DEF CreateSurfaceGLX, callVars
<1>2. vtable' \in {"unset", "missing", "fbo", "interop"}
  BY <1>1 DEF Loaded, UsesInv, Kinds
<1>3. CASE vtable # vtable'
  <2>1. \A h \in GLXSurfaces : ~IsGLX(h)
    BY <1>1, <1>3 DEF Loaded, UsesInv, ObjectsGood
  <2>2. \A u \in Threads : pc[u] \in {"idle", "leave"}
    BY <2>1 DEF ContextInv, CallsHaveContext, HasContext, Typed, Jobs
  <2>3. CASE vtable' = "missing"
    <3>1. glx' = glx
      BY <2>3 DEF CreateSurfaceGLX
    <3> QED
      BY <1>1, <1>2, <2>1, <2>2, <3>1 DEF UsesInv, Kinds, ObjectsGood, CallsKnow, Knows,
         BoundInCopy, IsGLX
  <2>4. CASE vtable' # "missing"
    <3>1. PICK c \in OwnContexts : glx' = [glx EXCEPT ![g] = NewObject(c)]
      BY <2>4 DEF CreateSurfaceGLX
    <3>2. /\ glx'[g] = NewObject(c) /\ \A h \in GLXSurfaces \ {g} : glx'[h] = NONE
      BY <2>1, <3>1 DEF ContextInv, Typed, IsGLX
    <3>3. vtable' \in {"fbo", "interop"}
      BY <1>1, <1>3, <2>4 DEF Loaded
    <3>4. ObjectsGood'
      <4> SUFFICES ASSUME NEW h \in GLXSurfaces, IsGLX(h)' PROVE Good(glx[h])'
        BY <3>3 DEF ObjectsGood
      <4>1. glx'[h] = NewObject(c)
        BY <3>2 DEF IsGLX
      <4> QED
        BY <1>1, <4>1 DEF Good, Interop, NewObject
    <3>5. BoundInCopy'
      BY <3>2 DEF BoundInCopy, IsGLX, NewObject
    <3>6. CallsKnow'
      BY <1>1, <2>2 DEF CallsKnow, Knows, UsesInv
    <3> QED
      BY <1>1, <1>2, <3>4, <3>5, <3>6 DEF UsesInv, Kinds
  <2> QED
    BY <2>3, <2>4
<1>4. CASE vtable' = vtable
  <2>1. \A u \in Threads : pc[u] \notin {"idle", "leave"} => job[u].glx # g
    BY <1>1 DEF ContextInv, CallsHaveContext, HasContext
  <2>2. CASE vtable' = "missing"
    <3>1. glx' = glx
      BY <2>2 DEF CreateSurfaceGLX
    <3>2. ~IsGLX(g)'
      BY <1>1, <3>1 DEF IsGLX
    <3> QED
      BY <1>1, <1>4, <2>1, <3>1, <3>2, OneChanged
  <2>3. CASE vtable' # "missing"
    <3>1. PICK c \in OwnContexts : glx' = [glx EXCEPT ![g] = NewObject(c)]
      BY <2>3 DEF CreateSurfaceGLX
    <3>2. glx'[g] = NewObject(c) /\ \A h \in GLXSurfaces \ {g} : glx'[h] = glx[h]
      BY <3>1 DEF ContextInv, Typed
    <3>3. vtable \in {"fbo", "interop"}
      BY <1>1, <1>2, <1>4, <2>3 DEF Loaded
    <3>4. Good(glx'[g]) /\ glx'[g].fbo # "bound"
      BY <1>1, <1>4, <3>2, <3>3 DEF Good, Interop, NewObject
    <3> QED
      BY <1>1, <1>4, <2>1, <3>2, <3>3, <3>4, OneChanged
  <2> QED
    BY <2>2, <2>3
<1> QED
  BY <1>3, <1>4

(* Steps outside of any call.                                              *)
LEMMA OutsideUses ==
  ASSUME UsesInv, UNCHANGED <<vtable, interop_env, glx, pc, job>>, fault' \in Faults
  PROVE  UsesInv'
BY DEF UsesInv, Kinds, ObjectsGood, Good, Interop, IsGLX, CallsKnow, Knows, Object, BoundInCopy

(***************************************************************************)
(* Every step preserves what calls rely on, if rendering ends only where   *)
(* it began.                                                               *)
(***************************************************************************)
LEMMA NextUses ==
  ASSUME ContextInv, UsesInv, "begun" \in AppRules, [Next]_vars
  PROVE  UsesInv'
<1>1. ASSUME NEW t \in Threads, AppMakeCurrent(t) \/ CreateSurfaceGLXFails(t) PROVE UsesInv'
  BY <1>1, OutsideUses DEF AppMakeCurrent, CreateSurfaceGLXFails, callVars, UsesInv, Kinds
<1>2. ASSUME NEW t \in Threads, Step(t) PROVE UsesInv'
  <2>1. CASE MapNull(t)
    BY <2>1, OutsideUses DEF MapNull, glVars, callVars, Faults
  <2> QED
    BY <1>2, <2>1, AssociateUses, DeassociateUses, BeginUses, EndUses, MakeFramebufferUses,
       BindFramebufferUses, DrawUses, DestroyUses, LeaveUses DEF Step
<1>3. ASSUME NEW t \in Threads, NEW g \in GLXSurfaces, Call(t, g) PROVE UsesInv'
  <2>1. ASSUME NEW op \in {"destroy", "deassociate", "begin", "end"}, Enter(t, op, g, NONE, {})
        PROVE  UsesInv'
    <3>1. op \in Ops
      BY DEF Ops
    <3> QED
      BY <2>1, <3>1, EnterUses
  <2>2. ASSUME NEW op \in {"associate", "copy"}, NEW v \in VASurfaces, NEW f \in FieldSets,
               Enter(t, op, g, v, f)
        PROVE  UsesInv'
    <3>1. op \in Ops
      BY DEF Ops
    <3> QED
      BY <2>2, <3>1, EnterUses
  <2> QED
    BY <1>3, <2>1, <2>2, CreateUses DEF Call
<1>4. ASSUME NEW v \in VASurfaces, CreateSurface(v) \/ DestroySurface(v) PROVE UsesInv'
  BY <1>4, OutsideUses DEF CreateSurface, DestroySurface, glVars, callVars, UsesInv, Kinds
<1>5. CASE UNCHANGED vars
  BY <1>5, OutsideUses DEF vars, glVars, callVars, UsesInv, Kinds
<1> QED
  BY <1>1, <1>2, <1>3, <1>4, <1>5 DEF Next
-----------------------------------------------------------------------------
(***************************************************************************)
(* What every call finds and leaves: the invariant behind ShowsAssociated, *)
(* CopyCleansUp and NeverFaults.                                           *)
(***************************************************************************)
THEOREM UsesAreKept ==
  ASSUME "current" \in AppRules, "begun" \in AppRules
  PROVE  Spec => [](ContextInv /\ UsesInv)
<1>1. Init => ContextInv /\ UsesInv
  <2>1. ASSUME Init PROVE UsesInv
    <3>1. Kinds /\ ObjectsGood /\ BoundInCopy
      BY <2>1 DEF Init, Kinds, Faults, ObjectsGood, IsGLX, BoundInCopy
    <3>2. CallsKnow
      BY <2>1 DEF Init, CallsKnow, Knows
    <3> QED
      BY <3>1, <3>2 DEF UsesInv
  <2> QED
    BY <2>1, InitHolds
<1>2. (ContextInv /\ UsesInv) /\ [Next]_vars => (ContextInv /\ UsesInv)'
  BY NextHolds, NextUses
<1> QED
  BY <1>1, <1>2, PTL DEF Spec

(* The invariant says what the run's property says.                        *)
LEMMA ShowsIt == ContextInv /\ UsesInv => ShowsAssociated
<1> SUFFICES ASSUME ContextInv, UsesInv PROVE ShowsAssociated
  OBVIOUS
<1>1. ASSUME NEW g \in GLXSurfaces, IsGLX(g)
      PROVE  /\ glx[g] \in GLXObject /\ glx[g].gl_context \in contexts
             /\ glx[g].pixo = "none" <=> Interop
             /\ glx[g].gl_surface # "none" => glx[g].gl_output = "made" /\ Interop
             /\ glx[g].va_surface # NONE => glx[g].shows = glx[g].va_surface /\ glx[g].fields = {}
  <2>1. glx[g] \in GLXObject /\ glx[g].gl_context \in contexts /\ Good(glx[g])
    BY <1>1 DEF ContextInv, Typed, ContextsOwned, UsesInv, ObjectsGood, IsGLX
  <2> QED
    BY <2>1 DEF Good
<1>2. TypeOK
  BY <1>1 DEF TypeOK, ContextInv, Typed, ContextsOwned, UsesInv, Kinds, Faults
<1>3. \A t \in Threads : pc[t] = "deassociate" /\ job[t].op = "copy" => job[t].texture = job[t].va
  BY DEF UsesInv, CallsKnow, Knows
<1> QED
  BY <1>1, <1>2, <1>3 DEF ShowsAssociated

(***************************************************************************)
(* A GLX surface shows the VA surface it names and a copy puts the picture *)
(* it was asked for into the texture, whichever of its parts fail.         *)
(***************************************************************************)
THEOREM SurfacesShowTheirs ==
  ASSUME "current" \in AppRules, "begun" \in AppRules
  PROVE  Spec => []ShowsAssociated
BY UsesAreKept, ShowsIt, PTL

(***************************************************************************)
(* vaCopySurfaceGLX leaves no framebuffer bound on any of its ways out,    *)
(* and no output surface mapped when it succeeds.                          *)
(***************************************************************************)
THEOREM CopiesCleanUp ==
  ASSUME "current" \in AppRules, "begun" \in AppRules
  PROVE  Spec => []CopyCleansUp
<1>1. ContextInv /\ UsesInv => CopyCleansUp
  <2> SUFFICES ASSUME ContextInv, UsesInv PROVE CopyCleansUp
    OBVIOUS
  <2>1. \A t \in Threads : pc[t] = "deassociate" /\ job[t].op = "copy" => ~IsMapped(Object(t))
    BY DEF UsesInv, CallsKnow, Knows
  <2>2. \A g \in GLXSurfaces : IsGLX(g) /\ glx[g].fbo = "bound" =>
          \E t \in Threads : pc[t] # "idle" /\ job[t].glx = g /\ job[t].op = "copy"
    BY DEF UsesInv, BoundInCopy, BoundAt
  <2> QED
    BY <2>1, <2>2 DEF CopyCleansUp
<1> QED
  BY <1>1, UsesAreKept, PTL

(* The steps that could fault.  One that maps what is mapped already, or   *)
(* NULL, finds the surface so because of what it knows.                    *)
LEMMA FaultStep ==
  ASSUME ContextInv, UsesInv, Careful, fault = "none", [Next]_vars
  PROVE  \/ fault' = "none"
         \/ fault' = "null" /\ \E g \in GLXSurfaces : (IsGLX(g) /\ Unregistered(glx[g]))'
<1>1. ASSUME NEW t \in Threads, Associate(t) PROVE fault' = "none"
  <2>1. pc[t] = "associate" /\ fault' = IF IsMapped(Object(t)) THEN "mapped" ELSE fault
    BY <1>1 DEF Associate, At
  <2> QED
    BY <2>1, AtWork DEF Knows
<1>2. ASSUME NEW t \in Threads, MapNull(t)
      PROVE  fault' = "null" /\ \E g \in GLXSurfaces : (IsGLX(g) /\ Unregistered(glx[g]))'
  <2>1. /\ pc[t] = "begin" /\ Object(t).va_surface \in va /\ Interop
        /\ Object(t).gl_surface = "none" /\ fault' = "null" /\ UNCHANGED glx
    BY <1>2 DEF MapNull, At, Syncs
  <2>2. Good(Object(t)) /\ va \subseteq VASurfaces /\ NONE \notin VASurfaces
    BY <2>1, AtWork, GLXAssumption DEF ContextInv, Typed
  <2>3. Unregistered(Object(t))
    BY <2>1, <2>2 DEF Good, Unregistered
  <2>4. job[t].glx \in GLXSurfaces /\ IsGLX(job[t].glx)
    BY <2>1 DEF ContextInv, Typed, CallsHaveContext, HasContext, Jobs
  <2> QED
    BY <2>1, <2>3, <2>4 DEF Object, IsGLX, Unregistered
<1>3. ASSUME NEW t \in Threads, EndRender(t) PROVE fault' = "none"
  <2>1. /\ pc[t] = "end"
        /\ fault' = IF Interop /\ Object(t).gl_surface = "none" THEN "null" ELSE fault
    BY <1>3 DEF EndRender, At
  <2> QED
    BY <2>1, AtWork DEF Knows
<1>4. ASSUME NEW t \in Threads, Leave(t) PROVE fault' = "none"
  <2>1. /\ pc[t] = "leave"
        /\ fault' = IF Restored(t) \in OwnContexts \ contexts THEN "context" ELSE fault
    BY <1>4 DEF Leave, At
  <2>2. job[t].old_cs \in {t} \cup contexts
    BY <2>1 DEF ContextInv, HomesApart, Home
  <2>3. current[t] \in contexts \cup {NONE}
    BY <2>1 DEF ContextInv, CallsHaveContext, HasContext, Object, ContextsOwned, Typed, Jobs
  <2>4. Restored(t) \notin OwnContexts \ contexts
    BY <2>2, <2>3, GLXAssumption DEF Restored
  <2> QED
    BY <2>1, <2>4
<1>5. ASSUME NEW t \in Threads,
             \/ Deassociate(t) \/ BeginRender(t) \/ MakeFramebuffer(t) \/ BindFramebuffer(t)
             \/ Draw(t) \/ UnbindFramebuffer(t) \/ DestroySurfaceGLX(t)
             \/ AppMakeCurrent(t) \/ CreateSurfaceGLXFails(t)
      PROVE  fault' = "none"
  BY <1>5 DEF Deassociate, BeginRender, MakeFramebuffer, BindFramebuffer, Draw,
     UnbindFramebuffer, DestroySurfaceGLX, AppMakeCurrent, CreateSurfaceGLXFails
<1>6. ASSUME NEW t \in Threads, NEW g \in GLXSurfaces, Call(t, g) PROVE fault' = "none"
  BY <1>6 DEF Call, CreateSurfaceGLX, Enter
<1>7. ASSUME NEW v \in VASurfaces, CreateSurface(v) \/ DestroySurface(v) PROVE fault' = "none"
  BY <1>7 DEF CreateSurface, DestroySurface
<1>8. CASE UNCHANGED vars
  BY <1>8 DEF vars
<1> QED
  BY <1>1, <1>2, <1>3, <1>4, <1>5, <1>6, <1>7, <1>8 DEF Next, Step

(* After a fault the process has ended.                                    *)
LEMMA FaultIsLast ==
  ASSUME fault # "none", [Next]_vars PROVE UNCHANGED vars
<1>1. ASSUME NEW t \in Threads PROVE ~Step(t) /\ ~AppMakeCurrent(t) /\ ~CreateSurfaceGLXFails(t)
  BY DEF Step, Associate, Deassociate, BeginRender, MapNull, EndRender, MakeFramebuffer,
     BindFramebuffer, Draw, UnbindFramebuffer, DestroySurfaceGLX, Leave, At, Idle,
     AppMakeCurrent, CreateSurfaceGLXFails
<1>2. ASSUME NEW t \in Threads, NEW g \in GLXSurfaces PROVE ~Call(t, g)
  BY DEF Call, CreateSurfaceGLX, Enter, Idle
<1>3. ASSUME NEW v \in VASurfaces PROVE ~CreateSurface(v) /\ ~DestroySurface(v)
  BY DEF CreateSurface, DestroySurface
<1> QED
  BY <1>1, <1>2, <1>3 DEF Next

(***************************************************************************)
(* GL and VDPAU are given nothing they must not be given, whatever fails,  *)
(* if the application keeps its promises: but for the NULL of an output    *)
(* surface that GL refused to register.                                    *)
(***************************************************************************)
THEOREM GLNeverFaults ==
  ASSUME "current" \in AppRules, "begun" \in AppRules, "ended" \in AppRules
  PROVE  Spec => []NeverFaults
<1>1. Init => NeverFaults
  BY DEF Init, NeverFaults
<1>2. ASSUME ContextInv, UsesInv, NeverFaults, [Next]_vars PROVE NeverFaults'
  <2>1. CASE fault = "none"
    BY <1>2, <2>1, FaultStep DEF NeverFaults, Careful
  <2>2. CASE fault # "none"
    <3>1. UNCHANGED vars
      BY <1>2, <2>2, FaultIsLast
    <3> QED
      BY <1>2, <3>1 DEF vars, NeverFaults, IsGLX, Unregistered
  <2> QED
    BY <2>1, <2>2
<1> QED
  BY <1>1, <1>2, UsesAreKept, PTL DEF Spec
=============================================================================
