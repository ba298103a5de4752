-------------------------------- MODULE Mixers --------------------------------
(***************************************************************************)
(* vdpau_mixer.c, with the creation and destruction of surfaces and the    *)
(* display attributes of vdpau_video.c.  Surfaces of one geometry share a  *)
(* video mixer that lives as long as one of them does.  It caches what     *)
(* VDPAU was told last: color conversion with the time of the newest       *)
(* attribute in it, background and scaling.  While a thread mixes a        *)
(* picture others may change attributes, create and destroy surfaces.      *)
(*                                                                         *)
(* Abstractions: width, height and chroma type are one geometry.  Each     *)
(* attribute of a list is set in a step of its own.  vaCreateSurfaces and  *)
(* vaDestroySurfaces are one step, their order of IDs does not matter.     *)
(* What a failed vaCreateSurfaces creates and destroys again is left out,  *)
(* and so are the surfaces mixed before, which VDPAU gets for              *)
(* deinterlacing: the driver keeps their handles in deint_surfaces when    *)
(* they are destroyed and promises nothing about them.                     *)
(***************************************************************************)
EXTENDS Naturals, FiniteSets

CONSTANTS
  Surfaces, MixerIds,  (* the IDs of each heap                             *)
  Geometries,
  ProcampCount,        (* attributes of the color conversion (4 in the code) *)
  Values,              (* values of attributes                             *)
  MaxTime,             (* bound of the time of attributes                  *)
  MaxLost,             (* bound of the surfaces lost by failures           *)
  ColorStandards,
  HQSupported,         (* hqscaling_level >= 1                             *)
  AppRules,            (* what the application promises, see below         *)
  NONE

(* The positions in va_display_attrs, brightness being 1.                  *)
Procamp    == 1..ProcampCount
Background == ProcampCount + 1
Attributes == Procamp \cup {Background}

(* The objects, what VDPAU has for a mixer, and the locals of a render.     *)
SurfaceObject == [geometry : Geometries, mixer : MixerIds \cup {NONE}]

MixerObject ==
  [refcount : Nat, geometry : Geometries, va_scale : {"default", "hq"},
   colorspace : ColorStandards, procamp : [Procamp -> Values],
   procamp_mtime : 0..MaxTime, bgcolor_mtime : 0..MaxTime]

VdpMixer ==
  [csc : [procamp : [Procamp -> Values], colorspace : ColorStandards],
   background : Values, hq : BOOLEAN]

Rendering ==
  [surface : Surfaces, colorspace : ColorStandards, scale : {"default", "hq"},
   at : {"procamp", "background", "scaling", "mix"}, i : 1..(ProcampCount + 1),
   new_mtime : 0..MaxTime]

ASSUME MixerAssumption ==
  /\ {ProcampCount, MaxTime, MaxLost} \subseteq Nat
  /\ 0 \in Values /\ Values \subseteq Nat
  /\ "BT601" \in ColorStandards
  /\ HQSupported \in BOOLEAN /\ AppRules \subseteq {"serial"}
  /\ IsFiniteSet(Surfaces)
  /\ NONE \notin MixerIds \cup Surfaces \cup Geometries
  /\ NONE \notin SurfaceObject /\ NONE \notin MixerObject
  /\ NONE \notin VdpMixer /\ NONE \notin Rendering

VARIABLES
  surface,  (* surface objects: geometry and video_mixer                   *)
  owned,    (* history: surfaces the application was given                 *)
  mixer,    (* mixer objects                                               *)
  vdp,      (* what VDPAU was told for each mixer                          *)
  attrs,    (* va_display_attrs and their mtime                            *)
  mtime,    (* the clock of vaSetDisplayAttributes                         *)
  render    (* where the thread in video_mixer_render stands               *)

vars == <<surface, owned, mixer, vdp, attrs, mtime, render>>

IsSurface(s) == surface[s] # NONE
IsMixer(m)   == mixer[m] # NONE
Users(m)     == {s \in Surfaces : IsSurface(s) /\ surface[s].mixer = m}
Promised(rule, promise) == rule \in AppRules => promise

(* video_mixer_create.                                                     *)
NewMixer(g, n) ==
  [refcount |-> n, geometry |-> g, va_scale |-> "default",
   colorspace |-> "BT601", procamp |-> [i \in Procamp |-> 0],
   procamp_mtime |-> 0, bgcolor_mtime |-> 0]

NewVdpMixer ==
  [csc |-> [procamp |-> [i \in Procamp |-> 0], colorspace |-> "BT601"],
   background |-> 0, hq |-> FALSE]

Init ==
  /\ surface = [s \in Surfaces |-> NONE] /\ owned = {}
  /\ mixer = [m \in MixerIds |-> NONE] /\ vdp = [m \in MixerIds |-> NONE]
  /\ attrs = [i \in Attributes |-> [value |-> 0, mtime |-> 0]] /\ mtime = 0
  /\ render = NONE
-----------------------------------------------------------------------------
(***************************************************************************)
(* vaCreateSurfaces, each surface with video_mixer_create_cached: the      *)
(* first finds a mixer of its geometry or creates one, the others find it. *)
(***************************************************************************)
ChecksParamsNot(m, g) == mixer[m].geometry # g
                                 (* mutant: the comparison the wrong way   *)
ChecksParams(m, g) == mixer[m].geometry = g

CreateSurfaces(S, g) ==
  /\ \A s \in S : ~IsSurface(s)
  /\ \E m \in MixerIds :
       /\ surface' = [s \in Surfaces |->
            IF s \in S THEN [geometry |-> g, mixer |-> m] ELSE surface[s]]
       /\ \/ /\ IsMixer(m) /\ ChecksParams(m, g)
             /\ mixer' = [mixer EXCEPT ![m].refcount = @ + Cardinality(S)]
             /\ UNCHANGED vdp
          \/ /\ ~IsMixer(m)
             /\ \A n \in MixerIds : IsMixer(n) => ~ChecksParams(n, g)
             /\ mixer' = [mixer EXCEPT ![m] = NewMixer(g, Cardinality(S))]
             /\ vdp' = [vdp EXCEPT ![m] = NewVdpMixer]
  /\ owned' = owned \cup S
  /\ UNCHANGED <<attrs, mtime, render>>

(* No mixer, and VDPAU creates none: the error recovery destroys what was  *)
(* created before, which does not include the surface of this round.       *)
CreateSurfacesFails(s, g) ==
  /\ ~IsSurface(s) /\ \A m \in MixerIds : IsMixer(m) => ~ChecksParams(m, g)
  /\ Cardinality(Users(NONE)) < MaxLost
  /\ surface' = [surface EXCEPT ![s] = [geometry |-> g, mixer |-> NONE]]
  /\ UNCHANGED <<owned, mixer, vdp, attrs, mtime, render>>

(***************************************************************************)
(* vaDestroySurfaces with video_mixer_unref.                               *)
(***************************************************************************)
CountLeftOne(m, D) ==            (* mutant: one surface of the list counts *)
  mixer[m].refcount - 1
CountLeft(m, D) == mixer[m].refcount - Cardinality(D \cap Users(m))

DestroySurfaces(D) ==
  /\ D \subseteq owned
  /\ render # NONE => render.surface \notin D
  /\ surface' = [s \in Surfaces |-> IF s \in D THEN NONE ELSE surface[s]]
  /\ owned' = owned \ D
  /\ LET survives(m) == IsMixer(m) /\ (D \cap Users(m) # {} => CountLeft(m, D) > 0)
         left(m) == [mixer[m] EXCEPT
           !.refcount = IF D \cap Users(m) = {} THEN @ ELSE CountLeft(m, D)]
     IN  /\ mixer' = [m \in MixerIds |-> IF survives(m) THEN left(m) ELSE NONE]
         /\ vdp' = [m \in MixerIds |-> IF survives(m) THEN vdp[m] ELSE NONE]
  /\ UNCHANGED <<attrs, mtime, render>>

(* vaSetDisplayAttributes, for one attribute of the list.                  *)
SetDisplayAttribute(i, v) ==
  /\ mtime < MaxTime
  /\ Promised("serial", render = NONE)
  /\ mtime' = mtime + 1
  /\ attrs' = [attrs EXCEPT ![i] = [value |-> v, mtime |-> mtime']]
  /\ UNCHANGED <<surface, owned, mixer, vdp, render>>
-----------------------------------------------------------------------------
(***************************************************************************)
(* video_mixer_render, for vaPutSurface, vaCopySurfaceGLX and vaGetImage.  *)
(***************************************************************************)
M == surface[render.surface].mixer

Goes(label) == render' = [render EXCEPT !.at = label]
Stops       == render' = NONE
frame       == <<surface, owned, attrs, mtime>>

Render(s, standard, scale) ==
  /\ render = NONE /\ s \in owned
  /\ render' = [surface |-> s, colorspace |-> standard, scale |-> scale,
                at |-> "procamp", i |-> 1,
                new_mtime |-> mixer[surface[s].mixer].procamp_mtime]
  /\ UNCHANGED <<surface, owned, mixer, vdp, attrs, mtime>>

(* video_mixer_update_csc_matrix, one round of its loop.                   *)
Newest(t, u) == IF t < u THEN u ELSE t
IsUpToDateAlready(m, i) ==       (* mutant: compares with the new time     *)
  render.new_mtime >= attrs[i].mtime
IsUpToDate(m, i) == mixer[m].procamp_mtime >= attrs[i].mtime

ReadAttribute ==
  /\ render # NONE /\ render.at = "procamp" /\ render.i \in Procamp
  /\ LET i == render.i IN
     IF IsUpToDate(M, i)
     THEN /\ render' = [render EXCEPT !.i = i + 1]
          /\ UNCHANGED mixer
     ELSE /\ mixer' = [mixer EXCEPT ![M].procamp[i] = attrs[i].value]
          /\ render' = [render EXCEPT !.i = i + 1,
                          !.new_mtime = Newest(@, attrs[i].mtime)]
  /\ UNCHANGED <<frame, vdp>>

(* ... and its end: commit changes, if any.                                *)
CommitNeeded ==
  \/ render.new_mtime > mixer[M].procamp_mtime
  \/ render.colorspace # mixer[M].colorspace

CommitProcamp ==
  /\ render # NONE /\ render.at = "procamp" /\ render.i \notin Procamp
  /\ \/ /\ CommitNeeded
        /\ vdp' = [vdp EXCEPT ![M].csc =
             [procamp |-> mixer[M].procamp, colorspace |-> render.colorspace]]
        /\ mixer' = [mixer EXCEPT ![M].colorspace = render.colorspace,
                                  ![M].procamp_mtime = render.new_mtime]
        /\ Goes("background")
     \/ /\ ~CommitNeeded
        /\ Goes("background") /\ UNCHANGED <<mixer, vdp>>
     \/ /\ CommitNeeded               (* a VDPAU call fails                *)
        /\ Stops /\ UNCHANGED <<mixer, vdp>>
  /\ UNCHANGED frame

(* video_mixer_update_background_color.                                    *)
UpdateBackground ==
  /\ render # NONE /\ render.at = "background"
  /\ LET isNew == mixer[M].bgcolor_mtime < attrs[Background].mtime IN
     \/ /\ isNew
        /\ vdp' = [vdp EXCEPT ![M].background = attrs[Background].value]
        /\ mixer' = [mixer EXCEPT ![M].bgcolor_mtime = attrs[Background].mtime]
        /\ Goes("scaling")
     \/ /\ ~isNew
        /\ Goes("scaling") /\ UNCHANGED <<mixer, vdp>>
     \/ /\ isNew
        /\ Stops /\ UNCHANGED <<mixer, vdp>>
  /\ UNCHANGED frame

(* video_mixer_update_scaling.                                             *)
UpdateScaling ==
  /\ render # NONE /\ render.at = "scaling"
  /\ LET changes == mixer[M].va_scale # render.scale IN
     \/ /\ vdp' = [vdp EXCEPT ![M].hq =
             IF changes /\ HQSupported THEN render.scale = "hq" ELSE @]
        /\ mixer' = [mixer EXCEPT ![M].va_scale = render.scale]
        /\ Goes("mix")
     \/ /\ changes /\ HQSupported
        /\ Stops /\ UNCHANGED <<mixer, vdp>>
  /\ UNCHANGED frame

(* VdpVideoMixerRender, whose success only the caller sees.                *)
Mix ==
  /\ render # NONE /\ render.at = "mix"
  /\ Stops
  /\ UNCHANGED <<frame, mixer, vdp>>

Next ==
  \/ \E S \in (SUBSET Surfaces) \ {{}}, g \in Geometries : CreateSurfaces(S, g)
  \/ \E s \in Surfaces, g \in Geometries : CreateSurfacesFails(s, g)
  \/ \E D \in (SUBSET Surfaces) \ {{}} : DestroySurfaces(D)
  \/ \E i \in Attributes, v \in Values : SetDisplayAttribute(i, v)
  \/ \E s \in Surfaces, standard \in ColorStandards, scale \in {"default", "hq"} :
       Render(s, standard, scale)
  \/ ReadAttribute \/ CommitProcamp \/ UpdateBackground \/ UpdateScaling \/ Mix

Spec == Init /\ [][Next]_vars
-----------------------------------------------------------------------------
TypeOK ==
  /\ surface \in [Surfaces -> SurfaceObject \cup {NONE}]
  /\ owned \subseteq Surfaces
  /\ \A s \in owned : IsSurface(s) /\ surface[s].mixer \in MixerIds
  /\ mixer \in [MixerIds -> MixerObject \cup {NONE}]
  /\ vdp \in [MixerIds -> VdpMixer \cup {NONE}]
  /\ \A m \in MixerIds : IsMixer(m) <=> vdp[m] # NONE
  /\ attrs \in [Attributes -> [value : Values, mtime : 0..MaxTime]] /\ mtime \in 0..MaxTime
  /\ render # NONE => render \in Rendering /\ render.surface \in owned /\ IsMixer(M)

(***************************************************************************)
(* A mixer counts exactly the surfaces that use it and lives no longer     *)
(* than they do ("destroys the mixer" of video_mixer_unref); all surfaces  *)
(* of one geometry use the same, which was made for that geometry.         *)
(***************************************************************************)
MixersCounted ==
  /\ TypeOK
  /\ \A m \in MixerIds : IsMixer(m) =>
       mixer[m].refcount = Cardinality(Users(m)) /\ Users(m) # {}
  /\ \A s \in owned :
       /\ IsMixer(surface[s].mixer)
       /\ mixer[surface[s].mixer].geometry = surface[s].geometry
  /\ \A s, u \in owned :
       surface[s].geometry = surface[u].geometry => surface[s].mixer = surface[u].mixer

(***************************************************************************)
(* A picture is mixed with the settings in force: whatever failed or was   *)
(* skipped before, VDPAU has the newest value of every display attribute   *)
(* and the color standard and scaling of this vaPutSurface.                *)
(***************************************************************************)
PictureUsesSettings ==
  render # NONE /\ render.at = "mix" =>
    /\ vdp[M].csc = [procamp |-> [i \in Procamp |-> attrs[i].value],
                     colorspace |-> render.colorspace]
    /\ vdp[M].background = attrs[Background].value
    /\ vdp[M].hq = (HQSupported /\ render.scale = "hq")

(***************************************************************************)
(* Surfaces share their mixer: one for each geometry, found or made by     *)
(* vaCreateSurfaces, gone with the last surface that uses it, whatever is  *)
(* set, mixed or fails in between.                                         *)
(***************************************************************************)
Shared == INSTANCE SharedObjects WITH
  Holders <- Surfaces,
  Ids     <- MixerIds,
  Keys    <- Geometries,
  uses    <- [s \in Surfaces |-> IF s \in owned THEN {surface[s].mixer} ELSE {}],
  key     <- [m \in MixerIds |-> IF IsMixer(m) THEN mixer[m].geometry ELSE NONE]

SharesMixers == Shared!Spec
=============================================================================
