---------------------------------- MODULE GLX ----------------------------------
(***************************************************************************)
(* vdpau_video_glx.c and what it uses of utils_glx.c: VA surfaces shown in *)
(* OpenGL textures.  A GLX surface has a GL context of the driver's own,   *)
(* and each call makes that context current in the calling thread, works,  *)
(* and makes the application's current again.  GL lets a context be        *)
(* current in one thread at a time: that is all that keeps two calls on a  *)
(* GLX surface apart.                                                      *)
(*                                                                         *)
(* Pictures reach the texture through a VDPAU output surface that GL maps  *)
(* (VDPAU/GL interop), or through an X pixmap that GL binds.               *)
(*                                                                         *)
(* Abstractions: a picture is the VA surface it comes from.  Sizes and     *)
(* texture coordinates are left out, as is the wait in sync_surface, which *)
(* is module PutSurface's.  A call that fails before it changes anything   *)
(* (a NULL argument, an ID that names nothing, a context that another      *)
(* thread uses) is no step.                                                *)
(***************************************************************************)
EXTENDS Naturals, FiniteSets

CONSTANTS
  Threads,
  GLXSurfaces,    (* objects of glx_surface_heap                           *)
  VASurfaces,
  OwnContexts,    (* names for GL contexts of the driver                   *)
  FieldSets,      (* fields named by the flags of one call                 *)
  Failing,        (* the operations of GL, X and VDPAU that may fail       *)
  AppRules,       (* what the application promises, see Promised           *)
  NONE

AllFields == {"top", "bottom"}

(* struct object_glx_surface, with the picture the texture or pixmap has.  *)
(* An output surface is empty if VDPAU made no surface for it.             *)
GLXObject ==
  [gl_context : OwnContexts, gl_output : {"none", "empty", "made"},
   gl_surface : {"none", "unmapped", "mapped"},
   pixo : {"none", "released", "bound"}, fbo : {"none", "unbound", "bound"},
   va_surface : VASurfaces \cup {NONE}, fields : SUBSET AllFields,
   shows : VASurfaces \cup {NONE}]

ASSUME GLXAssumption ==
  /\ OwnContexts \cap Threads = {}
  /\ NONE \notin OwnContexts \cup Threads \cup GLXObject \cup VASurfaces
  /\ FieldSets \subseteq (SUBSET AllFields) \ {{}}
  /\ Failing \subseteq {"create", "unbind", "bind", "sync", "output", "size",
                        "register", "color", "render", "queue", "fbo"}
  /\ AppRules \subseteq {"current", "begun", "ended"}

VARIABLES
  vtable,       (* gl_vtable of gl_get_vtable, "unset" before its first use *)
  interop_env,  (* VDPAU_VIDEO_GL_INTEROP asks for interop                 *)
  contexts,     (* the driver's GL contexts                                *)
  current,      (* the GL context that is current in each thread           *)
  glx,          (* GLX surface objects, NONE if not allocated              *)
  va,           (* the VA surfaces that exist                              *)
  pc, job,      (* where each thread is in its call, and the arguments     *)
  fault         (* what GL or VDPAU was given and must not be: a destroyed *)
                (* context, NULL, a surface that is mapped; the process    *)
                (* ends there                                              *)

callVars == <<pc, job>>
glVars   == <<vtable, interop_env, contexts, current>>
vars     == <<glVars, glx, va, callVars, fault>>

(* The application has one GL context for each thread.                     *)
App(t) == t
IsGLX(g) == glx[g] # NONE
Idle(t) == pc[t] = "idle" /\ fault = "none"
At(t, label) == pc[t] = label /\ fault = "none"
Promised(rule, promise) == rule \in AppRules => promise
MayFail(call) == call \in Failing

(* vdpau_gl_interop.                                                       *)
Interop == vtable = "interop" /\ interop_env

Init ==
  /\ vtable = "unset" /\ interop_env \in BOOLEAN
  /\ contexts = {}
  /\ current = [t \in Threads |-> App(t)]
  /\ glx = [g \in GLXSurfaces |-> NONE] /\ va = {}
  /\ pc = [t \in Threads |-> "idle"] /\ job = [t \in Threads |-> NONE]
  /\ fault = "none"

GoTo(t, label) == pc' = [pc EXCEPT ![t] = label]
Return(t) == GoTo(t, "idle") /\ job' = [job EXCEPT ![t] = NONE]
Object(t) == glx[job[t].glx]
-----------------------------------------------------------------------------
(* External: glXMakeCurrent wants a context that no other thread has.      *)
IsFree(t, c) == \A u \in Threads \ {t} : current[u] # c

(* gl_set_current_context with a second argument, as every call begins.    *)
CanMakeCurrentAnyway(t, c) == TRUE      (* mutant: the result is not tested *)
CanMakeCurrent(t, c) == current[t] = c \/ IsFree(t, c)

(* External: the application makes its own context current, or none.       *)
AppMakeCurrent(t) ==
  /\ Idle(t)
  /\ \E c \in {App(t), NONE} :
       /\ Promised("current", c # NONE)
       /\ current' = [current EXCEPT ![t] = c]
  /\ UNCHANGED <<vtable, interop_env, contexts, glx, va, callVars, fault>>

(* VA surfaces come and go, not those a call is working on.                *)
CreateSurface(v) ==
  /\ fault = "none" /\ v \notin va
  /\ va' = va \cup {v}
  /\ UNCHANGED <<glVars, glx, callVars, fault>>

DestroySurface(v) ==
  /\ fault = "none" /\ v \in va
  /\ \A t \in Threads : pc[t] # "idle" =>
       job[t].va # v /\ (IsGLX(job[t].glx) => Object(t).va_surface # v)
  /\ va' = va \ {v}
  /\ UNCHANGED <<glVars, glx, callVars, fault>>
-----------------------------------------------------------------------------
(***************************************************************************)
(* vdpau_CreateSurfaceGLX.  The texture has to exist, hence a context be   *)
(* current; the first call also looks up the GL extensions, whose result   *)
(* stays.  Once the driver's context is current, the ways to fail return   *)
(* without making the application's current again and forget the driver's. *)
(***************************************************************************)
Loaded == IF vtable = "unset" THEN {"missing", "fbo", "interop"} ELSE {vtable}

NewObject(c) ==
  [gl_context |-> c, gl_output |-> "none", gl_surface |-> "none",
   pixo |-> IF vtable' = "interop" /\ interop_env THEN "none" ELSE "released",
   fbo |-> "none", va_surface |-> NONE, fields |-> {}, shows |-> NONE]

CreateSurfaceGLX(t, g) ==
  /\ Idle(t) /\ current[t] # NONE /\ ~IsGLX(g)
  /\ vtable' \in Loaded
  /\ IF vtable' = "missing" THEN UNCHANGED <<contexts, glx>>
     ELSE \E c \in OwnContexts \ contexts :
            /\ contexts' = contexts \cup {c}
            /\ glx' = [glx EXCEPT ![g] = NewObject(c)]
  /\ UNCHANGED <<interop_env, current, va, callVars, fault>>

CreateSurfaceGLXFails(t) ==
  /\ Idle(t) /\ current[t] # NONE /\ MayFail("create")
  /\ vtable \in {"fbo", "interop"}
  /\ \E c \in OwnContexts \ contexts :
       /\ contexts' = contexts \cup {c}
       /\ current' = [current EXCEPT ![t] = c]
  /\ UNCHANGED <<vtable, interop_env, glx, va, callVars, fault>>
-----------------------------------------------------------------------------
(***************************************************************************)
(* The other calls begin by making the surface's context current and keep  *)
(* the previous one in old_cs.                                             *)
(***************************************************************************)
Entry == [destroy |-> "destroy", associate |-> "associate", copy |-> "fbo",
          deassociate |-> "deassociate", begin |-> "begin", end |-> "end"]
IsMapped(r) == r.gl_surface = "mapped"

Enter(t, op, g, v, f) ==
  /\ Idle(t) /\ IsGLX(g)
  /\ op \in {"associate", "copy"} => v \in va
  /\ Promised("begun", op = "end" => IsMapped(glx[g]) \/ glx[g].pixo = "bound")
  /\ Promised("ended", op \in {"associate", "copy"} => ~IsMapped(glx[g]))
  /\ CanMakeCurrent(t, glx[g].gl_context)
  /\ current' = [current EXCEPT ![t] = glx[g].gl_context]
  /\ job' = [job EXCEPT ![t] =
       [op |-> op, glx |-> g, va |-> v, flags |-> f, old_cs |-> current[t], ok |-> TRUE,
        texture |-> NONE]]
  /\ GoTo(t, Entry[op])
  /\ UNCHANGED <<vtable, interop_env, contexts, glx, va, fault>>

(* gl_set_current_context(&old_cs, NULL): nothing, if none was current.    *)
RestoredNot(t) == current[t]   (* mutant: an error returns at once         *)
Restored(t) ==
  LET c == job[t].old_cs IN IF c # NONE /\ IsFree(t, c) THEN c ELSE current[t]

Leave(t) ==
  /\ At(t, "leave")
  /\ current' = [current EXCEPT ![t] = Restored(t)]
  /\ fault' = IF Restored(t) \in OwnContexts \ contexts THEN "context" ELSE fault
  /\ Return(t)
  /\ UNCHANGED <<vtable, interop_env, contexts, glx, va>>

(* A part of a call that works on the object: it ends with one of the      *)
(* outcomes, and the thread goes on with next, or with failed.             *)
Outcome(ok, r) == [ok |-> ok, object |-> r]
Work(t, outcomes, next, failed) ==
  /\ \E o \in outcomes :
       /\ glx' = [glx EXCEPT ![job[t].glx] = o.object]
       /\ job' = [job EXCEPT ![t].ok = @ /\ o.ok]
       /\ GoTo(t, IF o.ok THEN next ELSE failed)
  /\ UNCHANGED <<glVars, va>>
Failed(call, r) == IF MayFail(call) THEN {Outcome(FALSE, r)} ELSE {}
-----------------------------------------------------------------------------
(***************************************************************************)
(* deassociate_glx_surface: gl_unbind_pixmap_object, if there is a pixmap. *)
(***************************************************************************)
Unbound(r) ==
  IF r.pixo = "bound"
  THEN {Outcome(TRUE, [r EXCEPT !.pixo = "released"])} \cup Failed("unbind", r)
  ELSE {Outcome(TRUE, r)}

Forget(r) == [r EXCEPT !.va_surface = NONE]

Deassociated(r) ==
  {IF o.ok THEN Outcome(TRUE, Forget(o.object)) ELSE o : o \in Unbound(r)}

(***************************************************************************)
(* associate_glx_surface with interop.  The output surface is made on the  *)
(* first call.  When that fails half-way the next one does not take it up  *)
(* again: there may be no VDPAU surface in it, or no GL surface for it.    *)
(***************************************************************************)
WithOutput(r) ==
  LET made == [r EXCEPT !.gl_output = "made"]
      registered == [made EXCEPT !.gl_surface = "unmapped"]
  IN  IF r.gl_output # "none" THEN {Outcome(TRUE, r)}
      ELSE {Outcome(TRUE, registered)} \cup Failed("output", r)
           \cup Failed("size", [r EXCEPT !.gl_output = "empty"])
           \cup Failed("register", made) \cup Failed("color", registered)

(* External: VDPAU does not render to VDP_INVALID_HANDLE.                  *)
Mixed(r, v) ==
  IF r.gl_output = "empty" THEN {Outcome(FALSE, r)}
  ELSE {Outcome(TRUE, [r EXCEPT !.shows = v, !.va_surface = v])}
         \cup Failed("render", [r EXCEPT !.shows = NONE])

Rendered(r, v) ==
  UNION {IF o.ok THEN Mixed(o.object, v) ELSE {o} : o \in WithOutput(r)}

(***************************************************************************)
(* associate_glx_surface with a pixmap: put_surface shows the picture when *)
(* all its fields are there, and queue_surface forces a single field out.  *)
(***************************************************************************)
Queued(r, v) ==
  {Outcome(TRUE, [r EXCEPT !.fields = {}, !.shows = v])}
    \cup Failed("queue", [r EXCEPT !.fields = {}])

FieldsForcedNot(f) == f = AllFields     (* mutant: fields wait for others  *)
FieldsForced(f) == TRUE

PutFields(r, v, f) ==
  LET rest == [r EXCEPT !.fields = @ \cup f] IN
  Failed("render", r)
    \cup (IF rest.fields = AllFields \/ FieldsForced(f)
          THEN Queued(rest, v) ELSE {Outcome(TRUE, rest)})

Put(r, v, f) ==
  UNION {IF o.ok THEN {Outcome(q.ok, IF q.ok THEN [q.object EXCEPT !.va_surface = v] ELSE q.object) :
                         q \in PutFields(o.object, v, f)}
                 ELSE {o} :
         o \in IF r.fields \cap f # {} THEN Queued(r, v) ELSE {Outcome(TRUE, r)}}

Associated(r, v, f) == IF Interop THEN Rendered(r, v) ELSE Put(r, v, f)

Associate(t) ==
  /\ At(t, "associate")
  /\ Work(t, UNION {IF o.ok THEN Associated(o.object, job[t].va, job[t].flags) ELSE {o} :
                    o \in Deassociated(Object(t))},
          IF job[t].op = "copy" THEN "bind" ELSE "leave", "leave")
  /\ fault' = IF IsMapped(Object(t)) THEN "mapped" ELSE fault

Deassociate(t) ==
  /\ At(t, "deassociate")
  /\ Work(t, Deassociated(Object(t)), "leave", "leave")
  /\ UNCHANGED fault
-----------------------------------------------------------------------------
(***************************************************************************)
(* begin_render_glx_surface, also behind vaSyncSurfaceGLX: the associated  *)
(* surface has to exist.  Then the output surface is mapped, whose handle  *)
(* is not tested, or the pixmap is bound.                                  *)
(***************************************************************************)
SyncsAnyway(r) == TRUE           (* mutant: the surface is not looked up   *)
Syncs(r) == r.va_surface \in va

Begun(r) ==
  IF ~Syncs(r) THEN {Outcome(FALSE, r)}
  ELSE Failed("sync", r) \cup
    CASE ~Interop -> {Outcome(TRUE, [r EXCEPT !.pixo = "bound"])}
                       \cup IF r.pixo = "bound" THEN {} ELSE Failed("bind", r)
      [] Interop /\ r.gl_surface # "none" ->
           {Outcome(TRUE, [r EXCEPT !.gl_surface = "mapped"])}
      [] OTHER -> {}                                      (* MapNull       *)

BeginRender(t) ==
  /\ At(t, "begin")
  /\ Work(t, Begun(Object(t)),
          IF job[t].op = "copy" THEN "draw" ELSE "leave",
          IF job[t].op = "copy" THEN "unbind" ELSE "leave")
  /\ UNCHANGED fault

MapNull(t) ==
  /\ At(t, "begin") /\ Syncs(Object(t))
  /\ Interop /\ Object(t).gl_surface = "none"
  /\ fault' = "null"
  /\ UNCHANGED <<glVars, glx, va, callVars>>

(* end_render_glx_surface.                                                 *)
Ended(r) ==
  IF Interop THEN {Outcome(TRUE, [r EXCEPT !.gl_surface = "unmapped"])} ELSE Unbound(r)

EndRender(t) ==
  /\ At(t, "end")
  /\ Work(t, Ended(Object(t)), IF job[t].op = "copy" THEN "unbind" ELSE "leave",
          IF job[t].op = "copy" THEN "unbind" ELSE "leave")
  /\ fault' = IF Interop /\ Object(t).gl_surface = "none" THEN "null" ELSE fault
-----------------------------------------------------------------------------
(* copy_glx_surface: association, then rendering into the texture.         *)
MakeFramebuffer(t) ==
  /\ At(t, "fbo")
  /\ Work(t, IF Object(t).fbo # "none" THEN {Outcome(TRUE, Object(t))}
             ELSE {Outcome(TRUE, [Object(t) EXCEPT !.fbo = "unbound"])}
                  \cup Failed("fbo", Object(t)),
          "associate", "leave")
  /\ UNCHANGED fault

BindFramebuffer(t) ==
  /\ At(t, "bind")
  /\ Work(t, {Outcome(TRUE, [Object(t) EXCEPT !.fbo = "bound"])}, "begin", "leave")
  /\ UNCHANGED fault

(* render_pixmap.                                                          *)
Draw(t) ==
  /\ At(t, "draw")
  /\ job' = [job EXCEPT ![t].texture = Object(t).shows]
  /\ GoTo(t, "end")
  /\ UNCHANGED <<glVars, glx, va, fault>>

UnboundFramebufferNot(r) == r           (* mutant: it stays bound          *)
UnboundFramebuffer(r) == [r EXCEPT !.fbo = "unbound"]

UnbindFramebuffer(t) ==
  /\ At(t, "unbind")
  /\ Work(t, {Outcome(TRUE, UnboundFramebuffer(Object(t)))},
          IF job[t].ok THEN "deassociate" ELSE "leave", "leave")
  /\ UNCHANGED fault
-----------------------------------------------------------------------------
(***************************************************************************)
(* vdpau_DestroySurfaceGLX: everything the surface has, its context last.  *)
(* gl_destroy_context leaves no context current in the thread.             *)
(***************************************************************************)
DestroySurfaceGLX(t) ==
  /\ At(t, "destroy")
  /\ contexts' = contexts \ {Object(t).gl_context}
  /\ current' = [current EXCEPT ![t] = NONE]
  /\ glx' = [glx EXCEPT ![job[t].glx] = NONE]
  /\ GoTo(t, "leave")
  /\ UNCHANGED <<vtable, interop_env, va, job, fault>>

Step(t) ==
  \/ Associate(t) \/ Deassociate(t) \/ BeginRender(t) \/ MapNull(t) \/ EndRender(t)
  \/ MakeFramebuffer(t) \/ BindFramebuffer(t) \/ Draw(t) \/ UnbindFramebuffer(t)
  \/ DestroySurfaceGLX(t) \/ Leave(t)

Call(t, g) ==
  \/ CreateSurfaceGLX(t, g)
  \/ \E op \in {"destroy", "deassociate", "begin", "end"} : Enter(t, op, g, NONE, {})
  \/ \E op \in {"associate", "copy"}, v \in VASurfaces, f \in FieldSets :
       Enter(t, op, g, v, f)

Next ==
  \/ \E t \in Threads :
       \/ AppMakeCurrent(t) \/ CreateSurfaceGLXFails(t) \/ Step(t)
       \/ \E g \in GLXSurfaces : Call(t, g)
  \/ \E v \in VASurfaces : CreateSurface(v) \/ DestroySurface(v)

Spec == Init /\ [][Next]_vars
-----------------------------------------------------------------------------
Labels == {"idle", "fbo", "associate", "bind", "begin", "draw", "end", "unbind",
           "deassociate", "destroy", "leave"}
Contexts == {App(t) : t \in Threads} \cup OwnContexts \cup {NONE}

(* Types; each object has a context of its own, and a pixmap or what       *)
(* interop needs, as all others.                                           *)
TypeOK ==
  /\ vtable \in {"unset", "missing", "fbo", "interop"} /\ interop_env \in BOOLEAN
  /\ contexts \subseteq OwnContexts /\ va \subseteq VASurfaces
  /\ current \in [Threads -> Contexts]
  /\ \A g \in GLXSurfaces : IsGLX(g) =>
    /\ glx[g] \in GLXObject
    /\ glx[g].gl_context \in contexts /\ (glx[g].pixo = "none" <=> Interop)
    /\ glx[g].gl_surface # "none" => glx[g].gl_output = "made" /\ Interop
  /\ \A g, h \in GLXSurfaces :
       IsGLX(g) /\ IsGLX(h) /\ g # h => glx[g].gl_context # glx[h].gl_context
  /\ pc \in [Threads -> Labels] /\ fault \in {"none", "context", "null", "mapped"}

(***************************************************************************)
(* Between calls no thread is left with the context of a GLX surface: each *)
(* call gives it back whatever happens, so that the next call on the       *)
(* surface succeeds in any thread.                                         *)
(***************************************************************************)
SurfaceContextsAreFree ==
  \A t \in Threads, g \in GLXSurfaces :
    pc[t] = "idle" /\ IsGLX(g) => current[t] # glx[g].gl_context

(* No call uses a GLX surface while another thread is working on it.       *)
OneCallPerSurface ==
  \A t, u \in Threads :
    (t # u /\ pc[t] \notin {"idle", "leave"} /\ pc[u] \notin {"idle", "leave"})
      => job[t].glx # job[u].glx

(***************************************************************************)
(* A GLX surface that names a VA surface has its picture, and no field of  *)
(* it waits; a copy put the picture it was asked for into the texture.     *)
(***************************************************************************)
ShowsAssociated ==
  /\ TypeOK
  /\ \A g \in GLXSurfaces : (IsGLX(g) /\ glx[g].va_surface # NONE) =>
       glx[g].shows = glx[g].va_surface /\ glx[g].fields = {}
  /\ \A t \in Threads : (pc[t] = "deassociate" /\ job[t].op = "copy") =>
       job[t].texture = job[t].va

(***************************************************************************)
(* vaCopySurfaceGLX leaves the framebuffer and the matrix stacks of the    *)
(* context as they were, and with interop the output surface to VDPAU.     *)
(***************************************************************************)
CopyCleansUp ==
  /\ \A g \in GLXSurfaces : (IsGLX(g) /\ glx[g].fbo = "bound") =>
       \E t \in Threads : pc[t] # "idle" /\ job[t].glx = g /\ job[t].op = "copy"
  /\ \A t \in Threads : (pc[t] = "deassociate" /\ job[t].op = "copy") => ~IsMapped(Object(t))

(***************************************************************************)
(* No destroyed context is made current, VDPAU renders to no output        *)
(* surface that GL has mapped, and no GL surface that is NULL is mapped:   *)
(* unless GL refused to register the output surface when it was made,      *)
(* which is the one failure the associations after it do not notice.       *)
(***************************************************************************)
Unregistered(r) == r.gl_output = "made" /\ r.gl_surface = "none"

NeverFaults ==
  /\ fault \notin {"context", "mapped"}
  /\ fault = "null" => \E g \in GLXSurfaces : IsGLX(g) /\ Unregistered(glx[g])
=============================================================================
