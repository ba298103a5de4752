----------------------------- MODULE MixersProofs -----------------------------
(***************************************************************************)
(* Theorems about Mixers, for any number of surfaces, mixers, geometries,  *)
(* attributes and changes of them.                                         *)
(***************************************************************************)
EXTENDS Mixers, FiniteSetTheorems, TLAPS

(* Only surfaces that vaCreateSurfaces lost are without a mixer.           *)
LostHaveNoMixer ==
  \A s \in Surfaces : IsSurface(s) /\ s \notin owned => surface[s].mixer = NONE

(* The inductive invariant of reference counts.                            *)
CountInv == MixersCounted /\ LostHaveNoMixer

(* No change of an attribute is newer than the clock, and those that were  *)
(* never changed have the value a new mixer starts with.                   *)
Clocked ==
  \A i \in Attributes : /\ attrs[i].mtime <= mtime
                        /\ attrs[i].mtime = 0 => attrs[i].value = 0

(* What the cached times of a mixer stand for: an attribute that is not    *)
(* newer has been told to VDPAU.                                           *)
CacheIsTrue(m) ==
  /\ mixer[m].procamp_mtime <= mtime /\ mixer[m].bgcolor_mtime <= mtime
  /\ \A i \in Procamp : attrs[i].mtime <= mixer[m].procamp_mtime =>
       /\ mixer[m].procamp[i] = attrs[i].value
       /\ vdp[m].csc.procamp[i] = attrs[i].value
  /\ vdp[m].csc.colorspace = mixer[m].colorspace
  /\ attrs[Background].mtime <= mixer[m].bgcolor_mtime =>
       vdp[m].background = attrs[Background].value
  /\ vdp[m].hq <=> HQSupported /\ mixer[m].va_scale = "hq"

(* How far the render in progress has come.                                *)
Conversion ==
  render.at = "procamp" =>
    /\ mixer[M].procamp_mtime <= render.new_mtime /\ render.new_mtime <= mtime
    /\ \A j \in Procamp : j < render.i => /\ attrs[j].mtime <= render.new_mtime
                                          /\ mixer[M].procamp[j] = attrs[j].value
Told ==
  /\ render.at \in {"background", "scaling", "mix"} =>
       /\ \A i \in Procamp : vdp[M].csc.procamp[i] = attrs[i].value
       /\ vdp[M].csc.colorspace = render.colorspace
  /\ render.at \in {"scaling", "mix"} => vdp[M].background = attrs[Background].value
  /\ render.at = "mix" => (vdp[M].hq <=> HQSupported /\ render.scale = "hq")

(* The inductive invariant of settings.                                    *)
SettingsInv ==
  /\ CountInv /\ Clocked
  /\ \A m \in MixerIds : IsMixer(m) => CacheIsTrue(m)
  /\ render # NONE => Conversion /\ Told

(* What is used of the constants throughout.                               *)
LEMMA Constants ==
  /\ ProcampCount \in Nat /\ MaxTime \in Nat
  /\ 0 \in Values /\ "BT601" \in ColorStandards /\ HQSupported \in BOOLEAN
  /\ Procamp \subseteq Attributes /\ Background \in Attributes /\ Background \notin Procamp
  /\ NONE \notin MixerIds /\ NONE \notin Surfaces
BY MixerAssumption DEF Attributes, Procamp, Background

(* The surfaces of a mixer can be counted.                                 *)
LEMMA SomeSurfaces ==
  ASSUME NEW T, T \subseteq Surfaces
  PROVE  IsFiniteSet(T) /\ Cardinality(T) \in Nat
BY MixerAssumption, FS_Subset, FS_CardinalityType

(* All surfaces of a mixer are the application's.                          *)
LEMMA UsersAreOwned ==
  ASSUME CountInv, NEW m \in MixerIds
  PROVE  Users(m) \subseteq owned /\ Users(m) \subseteq Surfaces
         /\ (~IsMixer(m) => Users(m) = {})
<1>1. Users(m) \subseteq owned /\ Users(m) \subseteq Surfaces
  BY Constants DEF CountInv, LostHaveNoMixer, Users
<1>2. ~IsMixer(m) => Users(m) = {}
  BY <1>1 DEF CountInv, MixersCounted, Users
<1> QED
  BY <1>1, <1>2

(***************************************************************************)
(* Initially there are no objects.                                         *)
(***************************************************************************)
LEMMA CountInit == Init => CountInv
<1> SUFFICES ASSUME Init PROVE CountInv
  OBVIOUS
<1>1. TypeOK
  BY Constants DEF Init, TypeOK, IsSurface, IsMixer
<1> QED
  BY <1>1 DEF Init, CountInv, MixersCounted, LostHaveNoMixer, IsSurface, IsMixer

(***************************************************************************)
(* vaCreateSurfaces: the first surface finds the mixer of its geometry or  *)
(* makes one, and there is no other.                                       *)
(***************************************************************************)
LEMMA CreateCounts ==
  ASSUME CountInv, NEW S \in (SUBSET Surfaces) \ {{}}, NEW g \in Geometries,
         CreateSurfaces(S, g)
  PROVE  CountInv'
<1> USE DEF CountInv
<1>0. TypeOK /\ UNCHANGED <<attrs, mtime, render>> /\ owned' = owned \cup S
      /\ \A s \in S : surface[s] = NONE
  BY DEF MixersCounted, CreateSurfaces, IsSurface
<1> PICK m \in MixerIds :
      /\ surface' = [s \in Surfaces |->
           IF s \in S THEN [geometry |-> g, mixer |-> m] ELSE surface[s]]
      /\ \/ /\ IsMixer(m) /\ ChecksParams(m, g)
            /\ mixer' = [mixer EXCEPT ![m].refcount = @ + Cardinality(S)]
            /\ UNCHANGED vdp
         \/ /\ ~IsMixer(m)
            /\ \A n \in MixerIds : IsMixer(n) => ~ChecksParams(n, g)
            /\ mixer' = [mixer EXCEPT ![m] = NewMixer(g, Cardinality(S))]
            /\ vdp' = [vdp EXCEPT ![m] = NewVdpMixer]
  BY DEF CreateSurfaces
<1>1. IsFiniteSet(S) /\ Cardinality(S) \in Nat
  BY SomeSurfaces
<1>2. /\ [geometry |-> g, mixer |-> m] \in SurfaceObject
      /\ [geometry |-> g, mixer |-> m] # NONE
  BY MixerAssumption DEF SurfaceObject
<1>3. /\ \A s \in S : surface'[s] = [geometry |-> g, mixer |-> m]
      /\ \A s \in Surfaces : s \notin S => surface'[s] = surface[s]
  OBVIOUS
<1>4. /\ Users(m)' = Users(m) \cup S /\ Users(m) \cap S = {}
      /\ \A n \in MixerIds : n # m => Users(n)' = Users(n)
  <2>1. Users(m) \cap S = {}
    BY <1>0 DEF Users, IsSurface
  <2>2. \A s \in S : IsSurface(s)' /\ ~IsSurface(s) /\ surface'[s].mixer = m
    BY <1>0, <1>2, <1>3 DEF IsSurface
  <2>3. \A s \in Surfaces : s \notin S =>
          (IsSurface(s)' <=> IsSurface(s)) /\ surface'[s].mixer = surface[s].mixer
    BY <1>3 DEF IsSurface
  <2>4. \A s \in Surfaces : s \in Users(m)' <=> s \in Users(m) \cup S
    BY <2>2, <2>3 DEF Users
  <2>5. ASSUME NEW n \in MixerIds, n # m PROVE Users(n)' = Users(n)
    BY <2>2, <2>3, <2>5 DEF Users
  <2>6. Users(m)' \subseteq Surfaces /\ Users(m) \subseteq Surfaces
    BY DEF Users
  <2> QED
    BY <2>1, <2>4, <2>5, <2>6
<1>5. /\ \A s \in owned' : /\ IsSurface(s)'
                           /\ s \notin S => s \in owned /\ surface'[s] = surface[s]
                           /\ s \in S => surface'[s].mixer = m /\ surface'[s].geometry = g
      /\ owned' \subseteq Surfaces
  BY <1>0, <1>2, <1>3 DEF TypeOK, IsSurface
<1>6. surface' \in [Surfaces -> SurfaceObject \cup {NONE}]
  BY <1>0, <1>2 DEF TypeOK
<1>7. LostHaveNoMixer'
  BY <1>0, <1>3 DEF LostHaveNoMixer, IsSurface
<1>8. CASE IsMixer(m) /\ ChecksParams(m, g)
  <2>0. mixer' = [mixer EXCEPT ![m].refcount = @ + Cardinality(S)] /\ UNCHANGED vdp
    BY <1>8
  <2>1. mixer[m] \in MixerObject /\ mixer[m].geometry = g
    BY <1>0, <1>8 DEF TypeOK, IsMixer, ChecksParams
  <2>2. [mixer[m] EXCEPT !.refcount = @ + Cardinality(S)] \in MixerObject
    BY <2>1, <1>1 DEF MixerObject
  <2>3. /\ mixer' = [mixer EXCEPT ![m] = [mixer[m] EXCEPT !.refcount = @ + Cardinality(S)]]
        /\ mixer \in [MixerIds -> MixerObject \cup {NONE}]
    BY <2>0, <1>0 DEF TypeOK
  <2>4. /\ mixer' \in [MixerIds -> MixerObject \cup {NONE}]
        /\ mixer'[m] = [mixer[m] EXCEPT !.refcount = @ + Cardinality(S)]
        /\ \A n \in MixerIds : n # m => mixer'[n] = mixer[n]
    BY <2>2, <2>3
  <2>5. mixer'[m].refcount = mixer[m].refcount + Cardinality(S) /\ mixer'[m].geometry = g
    BY <2>1, <2>4 DEF MixerObject
  <2>6. mixer'[m] # NONE
    BY <2>2, <2>4, MixerAssumption
  <2>7. /\ \A n \in MixerIds : IsMixer(n)' <=> IsMixer(n)
        /\ \A n \in MixerIds : mixer'[n].geometry = mixer[n].geometry
    BY <1>8, <2>1, <2>4, <2>5, <2>6 DEF IsMixer
  <2>8. TypeOK'
    <3>1. render' # NONE => render' \in Rendering /\ render'.surface \in owned' /\ IsMixer(M)'
      <4> SUFFICES ASSUME render # NONE
                   PROVE  render \in Rendering /\ render.surface \in owned' /\ IsMixer(M)'
        BY <1>0
      <4>1. render.surface \in owned /\ render \in Rendering /\ IsMixer(M)
        BY <1>0 DEF TypeOK
      <4>2. render.surface \notin S /\ render.surface \in Surfaces /\ M \in MixerIds
        BY <4>1, <1>0 DEF TypeOK, IsSurface, M
      <4>3. surface'[render'.surface].mixer = M
        BY <4>2, <1>0, <1>3 DEF M
      <4> QED
        BY <4>1, <4>2, <4>3, <2>7, <1>0 DEF M
    <3>2. \A s \in owned' : IsSurface(s)' /\ surface'[s].mixer \in MixerIds
      BY <1>0, <1>5 DEF TypeOK
    <3>3. \A n \in MixerIds : IsMixer(n)' <=> vdp'[n] # NONE
      BY <1>0, <2>0, <2>7 DEF TypeOK
    <3> QED
      BY <1>0, <1>5, <1>6, <2>0, <2>4, <3>1, <3>2, <3>3 DEF TypeOK
  <2>9. \A n \in MixerIds : IsMixer(n)' =>
          mixer'[n].refcount = Cardinality(Users(n)') /\ Users(n)' # {}
    <3>1. Cardinality(Users(m)') = Cardinality(Users(m)) + Cardinality(S)
      <4>1. IsFiniteSet(Users(m)) /\ Cardinality(Users(m)) \in Nat
        BY UsersAreOwned, SomeSurfaces
      <4>2. Cardinality(Users(m) \cap S) = 0
        BY <1>4, FS_EmptySet
      <4>3. Cardinality(Users(m) \cup S) =
              Cardinality(Users(m)) + Cardinality(S) - Cardinality(Users(m) \cap S)
        BY <4>1, <1>1, FS_Union
      <4> QED
        BY <4>1, <4>2, <4>3, <1>1, <1>4
    <3>2. mixer[m].refcount = Cardinality(Users(m)) /\ Users(m) # {}
      BY <1>8 DEF MixersCounted
    <3>3. mixer'[m].refcount = Cardinality(Users(m)') /\ Users(m)' # {}
      BY <2>5, <3>1, <3>2, <1>4
    <3>4. ASSUME NEW n \in MixerIds, n # m, IsMixer(n)'
          PROVE  mixer'[n].refcount = Cardinality(Users(n)') /\ Users(n)' # {}
      BY <3>4, <2>4, <2>7, <1>4 DEF MixersCounted
    <3> QED
      BY <3>3, <3>4
  <2>10. \A s \in owned' : /\ mixer'[surface'[s].mixer] # NONE
                           /\ mixer'[surface'[s].mixer].geometry = surface'[s].geometry
    <3> SUFFICES ASSUME NEW s \in owned'
                 PROVE  /\ mixer'[surface'[s].mixer] # NONE
                        /\ mixer'[surface'[s].mixer].geometry = surface'[s].geometry
      OBVIOUS
    <3>1. CASE s \in S
      BY <3>1, <1>5, <2>5, <1>8, <2>7 DEF IsMixer
    <3>2. CASE s \notin S
      BY <3>2, <1>5, <2>7, <1>0 DEF MixersCounted, TypeOK, IsMixer
    <3> QED
      BY <3>1, <3>2
  <2>11. \A s \in owned : surface[s].geometry = g => surface[s].mixer = m
    <3>1. PICK w \in Users(m) : TRUE
      BY <1>8 DEF MixersCounted
    <3>2. w \in owned /\ surface[w].mixer = m
      BY <3>1, UsersAreOwned DEF Users
    <3>3. surface[w].geometry = g
      BY <2>1, <3>2 DEF MixersCounted
    <3> QED
      BY <3>2, <3>3 DEF MixersCounted
  <2>12. \A s, u \in owned' :
           surface'[s].geometry = surface'[u].geometry => surface'[s].mixer = surface'[u].mixer
    BY <1>5, <2>11 DEF MixersCounted
  <2> QED
    BY <1>7, <2>8, <2>9, <2>10, <2>12 DEF MixersCounted, IsMixer
<1>9. CASE ~IsMixer(m) /\ \A n \in MixerIds : IsMixer(n) => ~ChecksParams(n, g)
  <2>0. /\ mixer' = [mixer EXCEPT ![m] = NewMixer(g, Cardinality(S))]
        /\ vdp' = [vdp EXCEPT ![m] = NewVdpMixer]
    BY <1>9
  <2>1. NewMixer(g, Cardinality(S)) \in MixerObject /\ NewVdpMixer \in VdpMixer
    BY <1>1, Constants DEF NewMixer, NewVdpMixer, MixerObject, VdpMixer
  <2>2. NewMixer(g, Cardinality(S)) # NONE /\ NewVdpMixer # NONE
    BY <2>1, MixerAssumption
  <2>3. /\ mixer' \in [MixerIds -> MixerObject \cup {NONE}]
        /\ vdp' \in [MixerIds -> VdpMixer \cup {NONE}]
        /\ mixer'[m] = NewMixer(g, Cardinality(S)) /\ vdp'[m] = NewVdpMixer
        /\ \A n \in MixerIds : n # m => mixer'[n] = mixer[n] /\ vdp'[n] = vdp[n]
    BY <2>0, <2>1, <1>0 DEF TypeOK
  <2>4. /\ IsMixer(m)' /\ vdp'[m] # NONE
        /\ \A n \in MixerIds : n # m => (IsMixer(n)' <=> IsMixer(n))
    BY <2>2, <2>3 DEF IsMixer
  <2>5. mixer'[m].refcount = Cardinality(S) /\ mixer'[m].geometry = g
    BY <2>3 DEF NewMixer
  <2>6. \A s \in owned : surface[s].mixer # m /\ surface[s].geometry # g
    BY <1>9, <1>0 DEF MixersCounted, TypeOK, ChecksParams
  <2>7. TypeOK'
    <3>1. render' # NONE => render' \in Rendering /\ render'.surface \in owned' /\ IsMixer(M)'
      <4> SUFFICES ASSUME render # NONE
                   PROVE  render \in Rendering /\ render.surface \in owned' /\ IsMixer(M)'
        BY <1>0
      <4>1. render.surface \in owned /\ render \in Rendering /\ IsMixer(M)
        BY <1>0 DEF TypeOK
      <4>2. render.surface \notin S /\ render.surface \in Surfaces /\ M \in MixerIds
        BY <4>1, <1>0 DEF TypeOK, IsSurface, M
      <4>3. surface'[render'.surface].mixer = M /\ M # m
        BY <4>1, <4>2, <1>0, <1>3, <2>6 DEF M
      <4> QED
        BY <4>1, <4>2, <4>3, <2>4, <1>0 DEF M
    <3>2. \A s \in owned' : IsSurface(s)' /\ surface'[s].mixer \in MixerIds
      BY <1>0, <1>5 DEF TypeOK
    <3>3. \A n \in MixerIds : IsMixer(n)' <=> vdp'[n] # NONE
      BY <1>0, <2>3, <2>4 DEF TypeOK
    <3> QED
      BY <1>0, <1>5, <1>6, <2>3, <3>1, <3>2, <3>3 DEF TypeOK
  <2>8. \A n \in MixerIds : IsMixer(n)' =>
          mixer'[n].refcount = Cardinality(Users(n)') /\ Users(n)' # {}
    <3>1. Users(m)' = S
      BY <1>9, <1>4, UsersAreOwned
    <3>2. ASSUME NEW n \in MixerIds, n # m, IsMixer(n)'
          PROVE  mixer'[n].refcount = Cardinality(Users(n)') /\ Users(n)' # {}
      BY <3>2, <2>3, <2>4, <1>4 DEF MixersCounted
    <3> QED
      BY <3>1, <3>2, <2>5
  <2>9. \A s \in owned' : /\ mixer'[surface'[s].mixer] # NONE
                          /\ mixer'[surface'[s].mixer].geometry = surface'[s].geometry
    <3> SUFFICES ASSUME NEW s \in owned'
                 PROVE  /\ mixer'[surface'[s].mixer] # NONE
                        /\ mixer'[surface'[s].mixer].geometry = surface'[s].geometry
      OBVIOUS
    <3>1. CASE s \in S
      BY <3>1, <1>5, <2>5, <2>4 DEF IsMixer
    <3>2. CASE s \notin S
      BY <3>2, <1>5, <2>3, <2>4, <2>6, <1>0 DEF MixersCounted, TypeOK, IsMixer
    <3> QED
      BY <3>1, <3>2
  <2>10. \A s, u \in owned' :
           surface'[s].geometry = surface'[u].geometry => surface'[s].mixer = surface'[u].mixer
    BY <1>5, <2>6 DEF MixersCounted
  <2> QED
    BY <1>7, <2>7, <2>8, <2>9, <2>10 DEF MixersCounted, IsMixer
<1> QED
  BY <1>8, <1>9

(***************************************************************************)
(* A surface that no mixer was found for is lost.                          *)
(***************************************************************************)
LEMMA CreateFailsCounts ==
  ASSUME CountInv, NEW s \in Surfaces, NEW g \in Geometries, CreateSurfacesFails(s, g)
  PROVE  CountInv'
<1> USE DEF CountInv
<1>0. /\ TypeOK /\ UNCHANGED <<owned, mixer, vdp, attrs, mtime, render>>
      /\ surface[s] = NONE /\ s \notin owned
      /\ surface' = [surface EXCEPT ![s] = [geometry |-> g, mixer |-> NONE]]
  BY DEF MixersCounted, TypeOK, CreateSurfacesFails, IsSurface
<1>1. [geometry |-> g, mixer |-> NONE] \in SurfaceObject
  BY DEF SurfaceObject
<1>2. /\ surface' \in [Surfaces -> SurfaceObject \cup {NONE}]
      /\ surface'[s] = [geometry |-> g, mixer |-> NONE] /\ surface'[s] # NONE
      /\ \A u \in Surfaces : u # s => surface'[u] = surface[u]
  BY <1>0, <1>1, MixerAssumption DEF TypeOK
<1>3. surface'[s].mixer = NONE
  BY <1>2
<1>4. \A u \in owned : surface'[u] = surface[u]
  BY <1>0, <1>2 DEF TypeOK
<1>5. \A n \in MixerIds : Users(n)' = Users(n)
  <2> SUFFICES ASSUME NEW n \in MixerIds PROVE Users(n)' = Users(n)
    OBVIOUS
  <2>1. \A u \in Surfaces : u \in Users(n)' <=> u \in Users(n)
    BY <1>0, <1>2, <1>3, Constants DEF Users, IsSurface
  <2> QED
    BY <2>1 DEF Users
<1>6. TypeOK'
  BY <1>0, <1>2, <1>4 DEF TypeOK, IsSurface, IsMixer, M
<1>7. LostHaveNoMixer'
  BY <1>0, <1>2, <1>3 DEF LostHaveNoMixer, IsSurface
<1> QED
  BY <1>0, <1>4, <1>5, <1>6, <1>7 DEF MixersCounted, IsMixer

(***************************************************************************)
(* vaDestroySurfaces: a mixer that is still used by one surface is still   *)
(* counted by one, so it stays.                                            *)
(***************************************************************************)
Survives(m, D) == IsMixer(m) /\ (D \cap Users(m) # {} => CountLeft(m, D) > 0)

(* What vaDestroySurfaces leaves of surfaces and mixers.                   *)
LEMMA DestroyDoes ==
  ASSUME CountInv, NEW D \in (SUBSET Surfaces) \ {{}}, DestroySurfaces(D)
  PROVE  /\ TypeOK' /\ UNCHANGED <<attrs, mtime, render>> /\ D \subseteq owned
         /\ owned' = owned \ D /\ \A s \in owned' : surface'[s] = surface[s]
         /\ \A s \in Surfaces : surface'[s] = IF s \in D THEN NONE ELSE surface[s]
         /\ \A m \in MixerIds : Users(m)' = Users(m) \ D
         /\ \A m \in MixerIds : IsMixer(m)' <=> IsMixer(m) /\ Users(m)' # {}
         /\ \A m \in MixerIds : IsMixer(m)' =>
              /\ mixer'[m].refcount = Cardinality(Users(m)')
              /\ vdp'[m] = vdp[m]
              /\ \A x \in {"geometry", "va_scale", "colorspace", "procamp",
                           "procamp_mtime", "bgcolor_mtime"} : mixer'[m][x] = mixer[m][x]
<1> USE DEF CountInv
<1> DEFINE Left(m) == [mixer[m] EXCEPT
             !.refcount = IF D \cap Users(m) = {} THEN @ ELSE CountLeft(m, D)]
<1>0. /\ TypeOK /\ UNCHANGED <<attrs, mtime, render>> /\ D \subseteq owned
      /\ owned' = owned \ D /\ (render # NONE => render.surface \notin D)
      /\ surface' = [s \in Surfaces |-> IF s \in D THEN NONE ELSE surface[s]]
      /\ mixer' = [m \in MixerIds |-> IF Survives(m, D) THEN Left(m) ELSE NONE]
      /\ vdp' = [m \in MixerIds |-> IF Survives(m, D) THEN vdp[m] ELSE NONE]
  BY DEF DestroySurfaces, MixersCounted, Survives
<1>1. /\ \A s \in Surfaces : surface'[s] = IF s \in D THEN NONE ELSE surface[s]
      /\ \A s \in owned' : surface'[s] = surface[s] /\ s \in owned /\ s \in Surfaces
  BY <1>0 DEF TypeOK
<1>2. ASSUME NEW m \in MixerIds PROVE Users(m)' = Users(m) \ D
  BY <1>1 DEF Users, IsSurface
<1>3. ASSUME NEW m \in MixerIds, IsMixer(m)
      PROVE  /\ IsFiniteSet(Users(m)) /\ IsFiniteSet(Users(m)')
             /\ Cardinality(Users(m)) \in Nat /\ Cardinality(Users(m)') \in Nat
             /\ CountLeft(m, D) = Cardinality(Users(m)')
             /\ Survives(m, D) <=> Users(m)' # {}
  <2>1. /\ IsFiniteSet(Users(m)) /\ IsFiniteSet(Users(m)')
        /\ Cardinality(Users(m)) \in Nat /\ Cardinality(Users(m)') \in Nat
    BY <1>2, UsersAreOwned, SomeSurfaces
  <2>2. Cardinality(Users(m) \ D) = Cardinality(Users(m)) - Cardinality(Users(m) \cap D)
    BY <2>1, FS_Difference
  <2>3. Users(m) \cap D = D \cap Users(m)
    OBVIOUS
  <2>4. mixer[m].refcount = Cardinality(Users(m)) /\ Users(m) # {}
    BY <1>3 DEF MixersCounted
  <2>5. CountLeft(m, D) = Cardinality(Users(m)')
    BY <1>2, <2>2, <2>3, <2>4 DEF CountLeft
  <2>6. Users(m)' = {} <=> Cardinality(Users(m)') = 0
    BY <2>1, FS_EmptySet
  <2>7. CountLeft(m, D) > 0 <=> Users(m)' # {}
    BY <2>1, <2>5, <2>6
  <2>8. D \cap Users(m) = {} => Users(m)' # {}
    BY <1>2, <2>4
  <2> QED
    BY <1>3, <2>1, <2>5, <2>7, <2>8 DEF Survives
<1>4. ASSUME NEW m \in MixerIds, Survives(m, D)
      PROVE  /\ Left(m) \in MixerObject
             /\ Left(m).refcount = Cardinality(Users(m)')
             /\ \A x \in {"geometry", "va_scale", "colorspace", "procamp",
                          "procamp_mtime", "bgcolor_mtime"} : Left(m)[x] = mixer[m][x]
  <2>1. IsMixer(m) /\ mixer[m] \in MixerObject
    BY <1>0, <1>4 DEF Survives, IsMixer, TypeOK
  <2> DEFINE n == IF D \cap Users(m) = {} THEN mixer[m].refcount ELSE CountLeft(m, D)
  <2>2. n = Cardinality(Users(m)') /\ n \in Nat
    <3>1. D \cap Users(m) = {} => Users(m)' = Users(m)
      BY <1>2
    <3>2. mixer[m].refcount = Cardinality(Users(m))
      BY <2>1 DEF MixersCounted
    <3> QED
      BY <2>1, <3>1, <3>2, <1>3
  <2>4. Left(m) = [mixer[m] EXCEPT !.refcount = n]
    BY <2>1 DEF MixerObject
  <2> HIDE DEF n, Left
  <2>5. Left(m) \in MixerObject
    BY <2>1, <2>2, <2>4 DEF MixerObject
  <2>6. Left(m).refcount = n
    BY <2>1, <2>4 DEF MixerObject
  <2>7. \A x \in {"geometry", "va_scale", "colorspace", "procamp",
                  "procamp_mtime", "bgcolor_mtime"} : Left(m)[x] = mixer[m][x]
    BY <2>1, <2>4 DEF MixerObject
  <2> QED
    BY <2>2, <2>5, <2>6, <2>7
<1> HIDE DEF Left
<1>5. \A m \in MixerIds : IsMixer(m)' <=> Survives(m, D)
  BY <1>0, <1>4, MixerAssumption DEF IsMixer
<1>6. TypeOK'
  <2>1. /\ mixer' \in [MixerIds -> MixerObject \cup {NONE}]
        /\ vdp' \in [MixerIds -> VdpMixer \cup {NONE}]
        /\ surface' \in [Surfaces -> SurfaceObject \cup {NONE}] /\ owned' \subseteq Surfaces
    BY <1>0, <1>4 DEF TypeOK
  <2>2. \A s \in owned' : IsSurface(s)' /\ surface'[s].mixer \in MixerIds
    BY <1>0, <1>1 DEF TypeOK, IsSurface
  <2>3. \A m \in MixerIds : IsMixer(m)' <=> vdp'[m] # NONE
    BY <1>0, <1>5 DEF TypeOK, Survives
  <2>4. ASSUME render # NONE
        PROVE  render \in Rendering /\ render.surface \in owned' /\ IsMixer(M)'
    <3>1. render \in Rendering /\ render.surface \in owned' /\ IsMixer(M) /\ M \in MixerIds
      BY <2>4, <1>0 DEF TypeOK, M
    <3>2. render.surface \in Users(M)' /\ M' = M
      BY <3>1, <1>0, <1>1, <2>2 DEF Users, M
    <3> QED
      BY <3>1, <3>2, <1>3, <1>5 DEF IsMixer
  <2> QED
    BY <1>0, <2>1, <2>2, <2>3, <2>4 DEF TypeOK
<1>7. \A m \in MixerIds : IsMixer(m)' <=> IsMixer(m) /\ Users(m)' # {}
  BY <1>3, <1>5 DEF Survives
<1>8. \A m \in MixerIds : IsMixer(m)' => mixer'[m] = Left(m) /\ vdp'[m] = vdp[m]
  BY <1>0, <1>5
<1> QED
  BY <1>0, <1>1, <1>2, <1>4, <1>5, <1>6, <1>7, <1>8

(* So references are counted.                                              *)
LEMMA DestroyCounts ==
  ASSUME CountInv, NEW D \in (SUBSET Surfaces) \ {{}}, DestroySurfaces(D)
  PROVE  CountInv'
<1>1. /\ TypeOK' /\ owned' = owned \ D
      /\ \A s \in owned' : surface'[s] = surface[s]
      /\ \A s \in Surfaces : surface'[s] = IF s \in D THEN NONE ELSE surface[s]
      /\ \A m \in MixerIds : IsMixer(m)' <=> IsMixer(m) /\ Users(m)' # {}
      /\ \A m \in MixerIds : IsMixer(m)' => mixer'[m].refcount = Cardinality(Users(m)')
                                            /\ mixer'[m].geometry = mixer[m].geometry
  BY DestroyDoes
<1>2. ASSUME NEW s \in owned'
      PROVE  mixer'[surface'[s].mixer] # NONE
             /\ mixer'[surface'[s].mixer].geometry = surface'[s].geometry
  <2>1. s \in owned /\ s \in Surfaces /\ IsSurface(s)' /\ surface'[s].mixer \in MixerIds
    BY <1>1 DEF TypeOK
  <2>2. s \in Users(surface[s].mixer)' /\ surface[s].mixer \in MixerIds
    BY <1>1, <2>1 DEF Users
  <2>3. IsMixer(surface[s].mixer) /\ mixer[surface[s].mixer].geometry = surface[s].geometry
    BY <2>1 DEF CountInv, MixersCounted
  <2> QED
    BY <1>1, <2>2, <2>3 DEF IsMixer
<1>3. LostHaveNoMixer'
  BY <1>1 DEF CountInv, LostHaveNoMixer, IsSurface
<1>4. \A s, u \in owned' :
        surface'[s].geometry = surface'[u].geometry => surface'[s].mixer = surface'[u].mixer
  BY <1>1 DEF CountInv, MixersCounted
<1> QED
  BY <1>1, <1>2, <1>3, <1>4 DEF CountInv, MixersCounted, IsMixer

(***************************************************************************)
(* Changing attributes and mixing leave references alone.                  *)
(***************************************************************************)
LEMMA CountFrame ==
  ASSUME CountInv, TypeOK', UNCHANGED <<surface, owned>>,
         \A m \in MixerIds : /\ IsMixer(m)' <=> IsMixer(m)
                             /\ mixer'[m].refcount = mixer[m].refcount
                             /\ mixer'[m].geometry = mixer[m].geometry
  PROVE  CountInv'
<1>1. \A m \in MixerIds : Users(m)' = Users(m)
  BY DEF Users, IsSurface
<1>2. \A s \in owned : surface[s].mixer \in MixerIds
  BY DEF CountInv, MixersCounted, TypeOK
<1>3. LostHaveNoMixer'
  BY DEF CountInv, LostHaveNoMixer, IsSurface
<1> QED
  BY <1>1, <1>2, <1>3 DEF CountInv, MixersCounted, IsMixer

(* A change of an attribute is newer than all before.                      *)
LEMMA SetDoes ==
  ASSUME TypeOK, NEW i \in Attributes, NEW v \in Values, SetDisplayAttribute(i, v)
  PROVE  /\ TypeOK' /\ UNCHANGED <<surface, owned, mixer, vdp, render>>
         /\ mtime' = mtime + 1 /\ mtime \in Nat
         /\ attrs'[i].mtime = mtime + 1
         /\ \A j \in Attributes : j # i => attrs'[j] = attrs[j]
<1>1. /\ UNCHANGED <<surface, owned, mixer, vdp, render>>
      /\ mtime < MaxTime /\ mtime' = mtime + 1 /\ mtime \in 0..MaxTime
      /\ attrs' = [attrs EXCEPT ![i] = [value |-> v, mtime |-> mtime']]
  BY DEF SetDisplayAttribute, TypeOK
<1>2. mtime' \in 0..MaxTime
  BY <1>1, Constants
<1>3. attrs' \in [Attributes -> [value : Values, mtime : 0..MaxTime]]
  BY <1>1, <1>2 DEF TypeOK
<1>4. attrs'[i].mtime = mtime + 1 /\ \A j \in Attributes : j # i => attrs'[j] = attrs[j]
  BY <1>1 DEF TypeOK
<1>5. TypeOK'
  BY <1>1, <1>2, <1>3 DEF TypeOK, IsSurface, IsMixer, M
<1> QED
  BY <1>1, <1>4, <1>5

(***************************************************************************)
(* The mixer and the locals of the render in progress.                     *)
(***************************************************************************)
LEMMA InRender ==
  ASSUME TypeOK, render # NONE
  PROVE  /\ M \in MixerIds /\ mixer[M] \in MixerObject /\ vdp[M] \in VdpMixer
         /\ render \in Rendering /\ render.surface \in owned
         /\ IsMixer(M) /\ vdp[M] # NONE
BY DEF TypeOK, M, IsMixer

(* A step that changes what VDPAU or the driver has for this mixer only.   *)
LEMMA OneMixer ==
  ASSUME TypeOK, render # NONE, UNCHANGED frame,
         NEW new \in MixerObject, mixer' = [mixer EXCEPT ![M] = new],
         NEW told \in VdpMixer, vdp' = [vdp EXCEPT ![M] = told],
         render' = NONE \/ (render' \in Rendering /\ render'.surface = render.surface)
  PROVE  /\ TypeOK' /\ mixer'[M] = new /\ vdp'[M] = told
         /\ render' # NONE => M' = M
         /\ \A m \in MixerIds : m # M => mixer'[m] = mixer[m] /\ vdp'[m] = vdp[m]
         /\ \A m \in MixerIds : IsMixer(m)' <=> IsMixer(m)
<1>1. /\ surface' = surface /\ owned' = owned /\ attrs' = attrs /\ mtime' = mtime
      /\ new # NONE /\ told # NONE
  BY MixerAssumption DEF frame
<1>2. render' # NONE => M' = M
  BY <1>1 DEF M
<1>3. /\ mixer'[M] = new /\ vdp'[M] = told
      /\ \A m \in MixerIds : m # M => mixer'[m] = mixer[m] /\ vdp'[m] = vdp[m]
      /\ mixer' \in [MixerIds -> MixerObject \cup {NONE}]
      /\ vdp' \in [MixerIds -> VdpMixer \cup {NONE}]
  BY InRender DEF TypeOK
<1>4. \A m \in MixerIds : IsMixer(m)' <=> IsMixer(m)
  BY <1>1, <1>3, InRender DEF IsMixer
<1>5. \A m \in MixerIds : IsMixer(m)' <=> vdp'[m] # NONE
  BY <1>1, <1>3, <1>4, InRender DEF TypeOK
<1>6. render' # NONE => render' \in Rendering /\ render'.surface \in owned' /\ IsMixer(M)'
  BY <1>1, <1>2, <1>4, InRender DEF IsMixer
<1>7. TypeOK'
  BY <1>1, <1>3, <1>5, <1>6 DEF TypeOK, IsSurface
<1> QED
  BY <1>2, <1>3, <1>4, <1>7

(* A render starts with the time of what VDPAU was told last.              *)
LEMMA RenderDoes ==
  ASSUME CountInv, NEW s \in Surfaces, NEW standard \in ColorStandards,
         NEW scale \in {"default", "hq"}, Render(s, standard, scale)
  PROVE  /\ TypeOK' /\ UNCHANGED <<surface, owned, mixer, vdp, attrs, mtime>>
         /\ render'.at = "procamp" /\ render'.i = 1
         /\ render'.new_mtime = mixer[M'].procamp_mtime /\ IsMixer(M') /\ M' \in MixerIds
<1>1. /\ UNCHANGED <<surface, owned, mixer, vdp, attrs, mtime>> /\ s \in owned
      /\ render' = [surface |-> s, colorspace |-> standard, scale |-> scale,
                    at |-> "procamp", i |-> 1,
                    new_mtime |-> mixer[surface[s].mixer].procamp_mtime]
  BY DEF Render
<1>2. TypeOK /\ IsMixer(surface[s].mixer) /\ surface[s].mixer \in MixerIds
  BY <1>1 DEF CountInv, MixersCounted, TypeOK
<1>3. mixer[surface[s].mixer].procamp_mtime \in 0..MaxTime
  BY <1>2 DEF TypeOK, IsMixer, MixerObject
<1>4. render' \in Rendering /\ M' = surface[s].mixer
  BY <1>1, <1>3, Constants DEF Rendering, M
<1>5. TypeOK'
  BY <1>1, <1>2, <1>4 DEF TypeOK, IsSurface, IsMixer
<1> QED
  BY <1>1, <1>2, <1>4, <1>5

(* What all steps of a render have in common.                              *)
MixesAlone ==
  /\ TypeOK' /\ UNCHANGED <<surface, owned, attrs, mtime>>
  /\ M \in MixerIds /\ IsMixer(M) /\ (render' # NONE => M' = M)
  /\ \A m \in MixerIds : IsMixer(m)' <=> IsMixer(m)
  /\ \A m \in MixerIds : m # M => mixer'[m] = mixer[m] /\ vdp'[m] = vdp[m]
  /\ mixer'[M].refcount = mixer[M].refcount /\ mixer'[M].geometry = mixer[M].geometry

(* An attribute that is newer is read, others are left alone.              *)
LEMMA ReadDoes ==
  ASSUME TypeOK, ReadAttribute, NEW i, i = render.i
  PROVE  /\ MixesAlone /\ vdp' = vdp /\ i \in Procamp
         /\ render # NONE /\ render.at = "procamp" /\ render' # NONE
         /\ render'.at = "procamp" /\ render'.i = i + 1
         /\ \A x \in {"va_scale", "colorspace", "procamp_mtime",
                      "bgcolor_mtime"} : mixer'[M][x] = mixer[M][x]
         /\ \A j \in Procamp : j # i => mixer'[M].procamp[j] = mixer[M].procamp[j]
         /\ attrs[i].mtime <= mixer[M].procamp_mtime =>
              mixer'[M].procamp = mixer[M].procamp /\ render'.new_mtime = render.new_mtime
         /\ attrs[i].mtime > mixer[M].procamp_mtime =>
              /\ mixer'[M].procamp[i] = attrs[i].value
              /\ render'.new_mtime = Newest(render.new_mtime, attrs[i].mtime)
<1>1. /\ render # NONE /\ render.at = "procamp" /\ i \in Procamp
      /\ UNCHANGED frame /\ vdp' = vdp
      /\ IF IsUpToDate(M, i)
         THEN /\ render' = [render EXCEPT !.i = i + 1]
              /\ UNCHANGED mixer
         ELSE /\ mixer' = [mixer EXCEPT ![M].procamp[i] = attrs[i].value]
              /\ render' = [render EXCEPT !.i = i + 1,
                              !.new_mtime = Newest(@, attrs[i].mtime)]
  BY DEF ReadAttribute
<1>2. /\ M \in MixerIds /\ mixer[M] \in MixerObject /\ vdp[M] \in VdpMixer
      /\ render \in Rendering /\ IsMixer(M) /\ vdp' = [vdp EXCEPT ![M] = vdp[M]]
      /\ mixer \in [MixerIds -> MixerObject \cup {NONE}]
  BY <1>1, InRender DEF TypeOK
<1>3. attrs[i].value \in Values /\ attrs[i].mtime \in 0..MaxTime
  BY <1>1, Constants DEF TypeOK
<1>4. i + 1 \in 1..(ProcampCount + 1)
  BY <1>1, Constants DEF Procamp
<1>5. IsUpToDate(M, i) <=> attrs[i].mtime <= mixer[M].procamp_mtime
  BY <1>2, <1>3 DEF IsUpToDate, MixerObject
<1>6. CASE IsUpToDate(M, i)
  <2>1. render' = [render EXCEPT !.i = i + 1] /\ mixer' = [mixer EXCEPT ![M] = mixer[M]]
    BY <1>1, <1>2, <1>6
  <2>2. /\ render' \in Rendering /\ render'.surface = render.surface
        /\ render'.at = "procamp" /\ render'.i = i + 1 /\ render'.new_mtime = render.new_mtime
    BY <2>1, <1>1, <1>2, <1>4 DEF Rendering
  <2>3. render' # NONE
    BY <2>2, MixerAssumption
  <2>4. mixer' = mixer
    BY <1>1, <1>6
  <2>5. MixesAlone
    BY <1>1, <1>2, <2>1, <2>2, <2>4, OneMixer DEF MixesAlone, frame
  <2> QED
    BY <1>1, <1>2, <1>3, <1>5, <1>6, <2>2, <2>3, <2>4, <2>5 DEF MixerObject
<1>7. CASE ~IsUpToDate(M, i)
  <2> DEFINE p == [mixer[M].procamp EXCEPT ![i] = attrs[i].value]
             new == [mixer[M] EXCEPT !.procamp = p]
  <2>1. mixer' = [mixer EXCEPT ![M] = new]
    BY <1>1, <1>2, <1>7
  <2>2. p \in [Procamp -> Values] /\ p[i] = attrs[i].value
        /\ \A j \in Procamp : j # i => p[j] = mixer[M].procamp[j]
    BY <1>1, <1>2, <1>3 DEF MixerObject
  <2> HIDE DEF p
  <2>3. /\ new \in MixerObject /\ new.procamp = p
        /\ \A x \in {"va_scale", "colorspace", "procamp_mtime", "bgcolor_mtime", "refcount",
                     "geometry"} : new[x] = mixer[M][x]
    BY <1>2, <2>2 DEF MixerObject
  <2>4. render' = [render EXCEPT !.i = i + 1, !.new_mtime = Newest(@, attrs[i].mtime)]
    BY <1>1, <1>7
  <2>5. Newest(render.new_mtime, attrs[i].mtime) \in 0..MaxTime
    BY <1>2, <1>3 DEF Rendering, Newest
  <2>6. /\ render' \in Rendering /\ render'.surface = render.surface
        /\ render'.at = "procamp" /\ render'.i = i + 1
        /\ render'.new_mtime = Newest(render.new_mtime, attrs[i].mtime)
    BY <2>4, <2>5, <1>1, <1>2, <1>4 DEF Rendering
  <2>7. render' # NONE
    BY <2>6, MixerAssumption
  <2> HIDE DEF new
  <2>8. MixesAlone /\ mixer'[M] = new
    BY <1>1, <1>2, <2>1, <2>3, <2>6, OneMixer DEF MixesAlone, frame
  <2>9. ~(attrs[i].mtime <= mixer[M].procamp_mtime)
    BY <1>5, <1>7
  <2> QED
    BY <1>1, <2>2, <2>3, <2>6, <2>7, <2>8, <2>9
<1> QED
  BY <1>6, <1>7

(* The conversion is told to VDPAU with all that was read, or not at all.  *)
LEMMA CommitDoes ==
  ASSUME TypeOK, CommitProcamp
  PROVE  /\ MixesAlone /\ render # NONE /\ render.at = "procamp" /\ render.i \notin Procamp
         /\ \A x \in {"va_scale", "procamp", "bgcolor_mtime"} :
              mixer'[M][x] = mixer[M][x]
         /\ vdp'[M].background = vdp[M].background /\ vdp'[M].hq = vdp[M].hq
         /\ render' = NONE \/ render' = [render EXCEPT !.at = "background"]
         /\ \/ /\ CommitNeeded
               /\ vdp'[M].csc.procamp = mixer[M].procamp
               /\ vdp'[M].csc.colorspace = render.colorspace
               /\ mixer'[M].colorspace = render.colorspace
               /\ mixer'[M].procamp_mtime = render.new_mtime
               /\ render' # NONE
            \/ /\ ~CommitNeeded \/ render' = NONE
               /\ UNCHANGED <<mixer, vdp>>
<1>1. /\ render # NONE /\ render.at = "procamp" /\ render.i \notin Procamp
      /\ UNCHANGED frame
      /\ render' = NONE \/ render' = [render EXCEPT !.at = "background"]
  BY DEF CommitProcamp, Goes, Stops
<1>2. /\ M \in MixerIds /\ mixer[M] \in MixerObject /\ vdp[M] \in VdpMixer
      /\ render \in Rendering /\ IsMixer(M)
      /\ mixer \in [MixerIds -> MixerObject \cup {NONE}]
      /\ vdp \in [MixerIds -> VdpMixer \cup {NONE}]
  BY <1>1, InRender DEF TypeOK
<1>3. [render EXCEPT !.at = "background"] \in Rendering
      /\ [render EXCEPT !.at = "background"].surface = render.surface
      /\ [render EXCEPT !.at = "background"] # NONE
  BY <1>2, MixerAssumption DEF Rendering
<1>4. CASE /\ CommitNeeded
           /\ vdp' = [vdp EXCEPT ![M].csc =
                [procamp |-> mixer[M].procamp, colorspace |-> render.colorspace]]
           /\ mixer' = [mixer EXCEPT ![M].colorspace = render.colorspace,
                                     ![M].procamp_mtime = render.new_mtime]
           /\ Goes("background")
  <2> DEFINE csc == [procamp |-> mixer[M].procamp, colorspace |-> render.colorspace]
             told == [vdp[M] EXCEPT !.csc = csc]
             new == [mixer[M] EXCEPT !.colorspace = render.colorspace,
                                     !.procamp_mtime = render.new_mtime]
  <2>1. vdp' = [vdp EXCEPT ![M] = told] /\ mixer' = [mixer EXCEPT ![M] = new]
    BY <1>2, <1>4
  <2>2. csc \in [procamp : [Procamp -> Values], colorspace : ColorStandards]
        /\ csc.procamp = mixer[M].procamp /\ csc.colorspace = render.colorspace
    BY <1>2 DEF MixerObject, Rendering
  <2> HIDE DEF csc
  <2>3. /\ told \in VdpMixer /\ told.csc = csc
        /\ told.background = vdp[M].background /\ told.hq = vdp[M].hq
    BY <1>2, <2>2 DEF VdpMixer
  <2>4. /\ new \in MixerObject /\ new.colorspace = render.colorspace
        /\ new.procamp_mtime = render.new_mtime
        /\ \A x \in {"va_scale", "procamp", "bgcolor_mtime",
                     "refcount", "geometry"} : new[x] = mixer[M][x]
    BY <1>2 DEF MixerObject, Rendering
  <2>5. render' = [render EXCEPT !.at = "background"]
    BY <1>4 DEF Goes
  <2> HIDE DEF told, new
  <2>6. MixesAlone /\ mixer'[M] = new /\ vdp'[M] = told
    BY <1>1, <1>2, <1>3, <2>1, <2>3, <2>4, <2>5, OneMixer DEF MixesAlone, frame
  <2> QED
    BY <1>1, <1>3, <1>4, <2>2, <2>3, <2>4, <2>5, <2>6
<1>5. CASE UNCHANGED <<mixer, vdp>> /\ (~CommitNeeded \/ render' = NONE)
  <2>1. vdp' = [vdp EXCEPT ![M] = vdp[M]] /\ mixer' = [mixer EXCEPT ![M] = mixer[M]]
    BY <1>2, <1>5
  <2>2. MixesAlone
    BY <1>1, <1>2, <1>3, <1>5, <2>1, OneMixer DEF MixesAlone, frame
  <2> QED
    BY <1>1, <1>5, <2>2
<1> QED
  BY <1>4, <1>5 DEF CommitProcamp, Stops

(* The same for the background.                                            *)
LEMMA BackgroundDoes ==
  ASSUME TypeOK, UpdateBackground
  PROVE  /\ MixesAlone /\ render # NONE /\ render.at = "background"
         /\ \A x \in {"va_scale", "colorspace", "procamp",
                      "procamp_mtime"} : mixer'[M][x] = mixer[M][x]
         /\ vdp'[M].csc = vdp[M].csc /\ vdp'[M].hq = vdp[M].hq
         /\ render' = NONE \/ render' = [render EXCEPT !.at = "scaling"]
         /\ \/ /\ vdp'[M].background = attrs[Background].value
               /\ mixer'[M].bgcolor_mtime = attrs[Background].mtime
            \/ /\ attrs[Background].mtime <= mixer[M].bgcolor_mtime \/ render' = NONE
               /\ UNCHANGED <<mixer, vdp>>
<1> DEFINE isNew == mixer[M].bgcolor_mtime < attrs[Background].mtime
<1>1. /\ render # NONE /\ render.at = "background" /\ UNCHANGED frame
      /\ render' = NONE \/ render' = [render EXCEPT !.at = "scaling"]
      /\ \/ /\ vdp' = [vdp EXCEPT ![M].background = attrs[Background].value]
            /\ mixer' = [mixer EXCEPT ![M].bgcolor_mtime = attrs[Background].mtime]
         \/ UNCHANGED <<mixer, vdp>> /\ (~isNew \/ render' = NONE)
  BY DEF UpdateBackground, Goes, Stops
<1>2. /\ M \in MixerIds /\ mixer[M] \in MixerObject /\ vdp[M] \in VdpMixer
      /\ render \in Rendering /\ IsMixer(M)
      /\ mixer \in [MixerIds -> MixerObject \cup {NONE}]
      /\ vdp \in [MixerIds -> VdpMixer \cup {NONE}]
  BY <1>1, InRender DEF TypeOK
<1>3. [render EXCEPT !.at = "scaling"] \in Rendering
      /\ [render EXCEPT !.at = "scaling"].surface = render.surface
  BY <1>2 DEF Rendering
<1>4. attrs[Background].value \in Values /\ attrs[Background].mtime \in 0..MaxTime
  BY Constants DEF TypeOK
<1>5. CASE /\ vdp' = [vdp EXCEPT ![M].background = attrs[Background].value]
           /\ mixer' = [mixer EXCEPT ![M].bgcolor_mtime = attrs[Background].mtime]
  <2> DEFINE told == [vdp[M] EXCEPT !.background = attrs[Background].value]
             new == [mixer[M] EXCEPT !.bgcolor_mtime = attrs[Background].mtime]
  <2>1. vdp' = [vdp EXCEPT ![M] = told] /\ mixer' = [mixer EXCEPT ![M] = new]
    BY <1>2, <1>5
  <2>2. /\ told \in VdpMixer /\ told.background = attrs[Background].value
        /\ told.csc = vdp[M].csc /\ told.hq = vdp[M].hq
    BY <1>2, <1>4 DEF VdpMixer
  <2>3. /\ new \in MixerObject /\ new.bgcolor_mtime = attrs[Background].mtime
        /\ \A x \in {"va_scale", "colorspace", "procamp", "procamp_mtime", "refcount",
                     "geometry"} : new[x] = mixer[M][x]
    BY <1>2, <1>4 DEF MixerObject
  <2> HIDE DEF told, new
  <2>4. MixesAlone /\ mixer'[M] = new /\ vdp'[M] = told
    BY <1>1, <1>2, <1>3, <2>1, <2>2, <2>3, OneMixer DEF MixesAlone, frame
  <2> QED
    BY <1>1, <2>2, <2>3, <2>4
<1>6. CASE UNCHANGED <<mixer, vdp>> /\ (~isNew \/ render' = NONE)
  <2>1. vdp' = [vdp EXCEPT ![M] = vdp[M]] /\ mixer' = [mixer EXCEPT ![M] = mixer[M]]
    BY <1>2, <1>6
  <2>2. MixesAlone
    BY <1>1, <1>2, <1>3, <1>6, <2>1, OneMixer DEF MixesAlone, frame
  <2>3. ~isNew => attrs[Background].mtime <= mixer[M].bgcolor_mtime
    BY <1>2, <1>4 DEF MixerObject
  <2> QED
    BY <1>1, <1>6, <2>2, <2>3
<1> QED
  BY <1>1, <1>5, <1>6

(* The same for the scaling, which has no time.                            *)
LEMMA ScalingDoes ==
  ASSUME TypeOK, UpdateScaling
  PROVE  /\ MixesAlone /\ render # NONE /\ render.at = "scaling"
         /\ \A x \in {"bgcolor_mtime", "colorspace", "procamp",
                      "procamp_mtime"} : mixer'[M][x] = mixer[M][x]
         /\ vdp'[M].csc = vdp[M].csc /\ vdp'[M].background = vdp[M].background
         /\ render' = NONE \/ render' = [render EXCEPT !.at = "mix"]
         /\ \/ /\ mixer'[M].va_scale = render.scale
               /\ vdp'[M].hq \in BOOLEAN /\ vdp[M].hq \in BOOLEAN
               /\ IF mixer[M].va_scale # render.scale /\ HQSupported
                  THEN vdp'[M].hq <=> render.scale = "hq"
                  ELSE vdp'[M].hq <=> vdp[M].hq
            \/ render' = NONE /\ UNCHANGED <<mixer, vdp>>
<1> DEFINE changes == mixer[M].va_scale # render.scale
<1>1. /\ render # NONE /\ render.at = "scaling" /\ UNCHANGED frame
      /\ render' = NONE \/ render' = [render EXCEPT !.at = "mix"]
      /\ \/ /\ vdp' = [vdp EXCEPT ![M].hq =
                 IF changes /\ HQSupported THEN render.scale = "hq" ELSE @]
            /\ mixer' = [mixer EXCEPT ![M].va_scale = render.scale]
         \/ UNCHANGED <<mixer, vdp>> /\ render' = NONE
  BY DEF UpdateScaling, Goes, Stops
<1>2. /\ M \in MixerIds /\ mixer[M] \in MixerObject /\ vdp[M] \in VdpMixer
      /\ render \in Rendering /\ IsMixer(M)
      /\ mixer \in [MixerIds -> MixerObject \cup {NONE}]
      /\ vdp \in [MixerIds -> VdpMixer \cup {NONE}]
  BY <1>1, InRender DEF TypeOK
<1>3. [render EXCEPT !.at = "mix"] \in Rendering
      /\ [render EXCEPT !.at = "mix"].surface = render.surface
  BY <1>2 DEF Rendering
<1>4. CASE /\ vdp' = [vdp EXCEPT ![M].hq =
                IF changes /\ HQSupported THEN render.scale = "hq" ELSE @]
           /\ mixer' = [mixer EXCEPT ![M].va_scale = render.scale]
  <2> DEFINE b == IF changes /\ HQSupported THEN render.scale = "hq" ELSE vdp[M].hq
             told == [vdp[M] EXCEPT !.hq = b]
             new == [mixer[M] EXCEPT !.va_scale = render.scale]
  <2>1. vdp' = [vdp EXCEPT ![M] = told] /\ mixer' = [mixer EXCEPT ![M] = new]
    BY <1>2, <1>4
  <2>2. vdp[M].hq \in BOOLEAN /\ b \in BOOLEAN
    BY <1>2 DEF VdpMixer
  <2>3. IF changes /\ HQSupported THEN b <=> render.scale = "hq" ELSE b <=> vdp[M].hq
    OBVIOUS
  <2> HIDE DEF b
  <2>4. /\ told \in VdpMixer /\ told.hq = b
        /\ told.csc = vdp[M].csc /\ told.background = vdp[M].background
    BY <1>2, <2>2 DEF VdpMixer
  <2>5. /\ new \in MixerObject /\ new.va_scale = render.scale
        /\ \A x \in {"bgcolor_mtime", "colorspace", "procamp", "procamp_mtime", "refcount",
                     "geometry"} : new[x] = mixer[M][x]
    BY <1>2 DEF MixerObject, Rendering
  <2> HIDE DEF told, new
  <2>6. MixesAlone /\ mixer'[M] = new /\ vdp'[M] = told
    BY <1>1, <1>2, <1>3, <2>1, <2>4, <2>5, OneMixer DEF MixesAlone, frame
  <2> QED
    BY <1>1, <2>2, <2>3, <2>4, <2>5, <2>6
<1>5. CASE UNCHANGED <<mixer, vdp>> /\ render' = NONE
  <2>1. vdp' = [vdp EXCEPT ![M] = vdp[M]] /\ mixer' = [mixer EXCEPT ![M] = mixer[M]]
    BY <1>2, <1>5
  <2>2. MixesAlone
    BY <1>1, <1>2, <1>5, <2>1, OneMixer DEF MixesAlone, frame
  <2> QED
    BY <1>1, <1>5, <2>2
<1> QED
  BY <1>1, <1>4, <1>5

(* A picture is mixed: nothing of the mixer changes.                       *)
LEMMA MixDoes ==
  ASSUME TypeOK, Mix
  PROVE  /\ MixesAlone /\ render # NONE /\ render' = NONE /\ vdp' = vdp /\ mixer' = mixer
<1>1. /\ render # NONE /\ render' = NONE /\ UNCHANGED <<frame, mixer, vdp>>
  BY DEF Mix, Stops
<1>2. M \in MixerIds /\ IsMixer(M)
  BY <1>1, InRender DEF TypeOK
<1>3. TypeOK'
  BY <1>1 DEF TypeOK, frame, IsSurface, IsMixer
<1> QED
  BY <1>1, <1>2, <1>3 DEF MixesAlone, frame, IsMixer

(* All steps of a render keep to their mixer.                              *)
LEMMA StepsMixAlone ==
  ASSUME TypeOK, ReadAttribute \/ CommitProcamp \/ UpdateBackground \/ UpdateScaling \/ Mix
  PROVE  MixesAlone
BY ReadDoes, CommitDoes, BackgroundDoes, ScalingDoes, MixDoes

(***************************************************************************)
(* Every step preserves the invariant of the counts.                       *)
(***************************************************************************)
LEMMA CountStep == CountInv /\ [Next]_vars => CountInv'
<1> SUFFICES ASSUME CountInv, [Next]_vars PROVE CountInv'
  OBVIOUS
<1>0. TypeOK
  BY DEF CountInv, MixersCounted
<1>1. CASE UNCHANGED vars
  <2>1. TypeOK'
    BY <1>0, <1>1 DEF vars, TypeOK, IsSurface, IsMixer, M
  <2> QED
    BY <1>1, <2>1, CountFrame DEF vars, IsMixer
<1>2. ASSUME NEW i \in Attributes, NEW v \in Values, SetDisplayAttribute(i, v)
      PROVE  CountInv'
  BY <1>0, <1>2, SetDoes, CountFrame DEF IsMixer
<1>3. ASSUME NEW s \in Surfaces, NEW standard \in ColorStandards,
             NEW scale \in {"default", "hq"}, Render(s, standard, scale)
      PROVE  CountInv'
  BY <1>3, RenderDoes, CountFrame DEF IsMixer
<1>4. CASE ReadAttribute \/ CommitProcamp \/ UpdateBackground \/ UpdateScaling \/ Mix
  <2>1. MixesAlone
    BY <1>0, <1>4, StepsMixAlone
  <2>2. \A m \in MixerIds : /\ mixer'[m].refcount = mixer[m].refcount
                            /\ mixer'[m].geometry = mixer[m].geometry
    BY <2>1 DEF MixesAlone
  <2> QED
    BY <2>1, <2>2, CountFrame DEF MixesAlone
<1> QED
  BY <1>1, <1>2, <1>3, <1>4, CreateCounts, CreateFailsCounts, DestroyCounts DEF Next
-----------------------------------------------------------------------------
(***************************************************************************)
(* The inductive invariant of mixers and the surfaces that share them.     *)
(***************************************************************************)
THEOREM CountInvariant == Spec => []CountInv
<1> QED
  BY CountInit, CountStep, PTL DEF Spec

(***************************************************************************)
(* A mixer counts exactly the surfaces of its geometry and lives as long   *)
(* as they do, however vaCreateSurfaces fails and whatever the application *)
(* destroys in one call.                                                   *)
(***************************************************************************)
THEOREM MixersAreCounted == Spec => []MixersCounted
<1>1. CountInv => MixersCounted
  BY DEF CountInv
<1> QED
  BY <1>1, CountInvariant, PTL
-----------------------------------------------------------------------------
(***************************************************************************)
(* vaCreateSurfaces leaves the settings of other mixers alone, and a new   *)
(* mixer has those that VDPAU starts with.                                 *)
(***************************************************************************)
LEMMA CreateKeepsOthers ==
  ASSUME CountInv, NEW S \in (SUBSET Surfaces) \ {{}}, NEW g \in Geometries,
         CreateSurfaces(S, g)
  PROVE  /\ UNCHANGED <<attrs, mtime, render>> /\ owned' = owned \cup S
         /\ \A s \in owned : surface'[s] = surface[s]
         /\ \A m \in MixerIds : IsMixer(m) =>
              /\ IsMixer(m)' /\ vdp'[m] = vdp[m]
              /\ \A x \in {"geometry", "va_scale", "colorspace", "procamp", "procamp_mtime",
                           "bgcolor_mtime"} : mixer'[m][x] = mixer[m][x]
         /\ \A m \in MixerIds : IsMixer(m)' /\ ~IsMixer(m) =>
              \E n \in Nat : mixer'[m] = NewMixer(g, n) /\ vdp'[m] = NewVdpMixer
<1>0. /\ TypeOK /\ UNCHANGED <<attrs, mtime, render>> /\ owned' = owned \cup S
      /\ \A s \in S : surface[s] = NONE
  BY DEF CountInv, MixersCounted, CreateSurfaces, IsSurface
<1> PICK p \in MixerIds :
      /\ surface' = [s \in Surfaces |->
           IF s \in S THEN [geometry |-> g, mixer |-> p] ELSE surface[s]]
      /\ \/ /\ IsMixer(p)
            /\ mixer' = [mixer EXCEPT ![p].refcount = @ + Cardinality(S)]
            /\ UNCHANGED vdp
         \/ /\ ~IsMixer(p)
            /\ mixer' = [mixer EXCEPT ![p] = NewMixer(g, Cardinality(S))]
            /\ vdp' = [vdp EXCEPT ![p] = NewVdpMixer]
  BY DEF CreateSurfaces
<1>1. Cardinality(S) \in Nat
  BY SomeSurfaces
<1>2. \A s \in owned : surface'[s] = surface[s]
  BY <1>0 DEF TypeOK, IsSurface
<1>3. \A m \in MixerIds : IsMixer(m)' <=> IsMixer(m) \/ m = p
  <2>1. CountInv'
    BY CreateCounts
  <2>2. p \in MixerIds /\ IsMixer(p)'
    <3>1. PICK s \in S : s \in Surfaces /\ s \in owned'
      BY <1>0
    <3>2. surface'[s].mixer = p
      BY <3>1
    <3> QED
      BY <2>1, <3>1, <3>2 DEF CountInv, MixersCounted, IsMixer
  <2>3. \A m \in MixerIds : m # p => mixer'[m] = mixer[m]
    BY <1>0 DEF TypeOK
  <2> QED
    BY <2>2, <2>3 DEF IsMixer
<1>4. CASE /\ IsMixer(p)
           /\ mixer' = [mixer EXCEPT ![p].refcount = @ + Cardinality(S)]
           /\ UNCHANGED vdp
  <2>1. mixer[p] \in MixerObject
    BY <1>0, <1>4 DEF TypeOK, IsMixer
  <2>2. /\ mixer'[p] = [mixer[p] EXCEPT !.refcount = @ + Cardinality(S)]
        /\ \A m \in MixerIds : m # p => mixer'[m] = mixer[m]
    BY <1>0, <1>4, <2>1 DEF TypeOK
  <2>3. \A x \in {"geometry", "va_scale", "colorspace", "procamp", "procamp_mtime",
                  "bgcolor_mtime"} : mixer'[p][x] = mixer[p][x]
    BY <2>1, <2>2 DEF MixerObject
  <2> QED
    BY <1>0, <1>2, <1>3, <1>4, <2>2, <2>3
<1>5. CASE /\ ~IsMixer(p)
           /\ mixer' = [mixer EXCEPT ![p] = NewMixer(g, Cardinality(S))]
           /\ vdp' = [vdp EXCEPT ![p] = NewVdpMixer]
  <2>1. /\ mixer'[p] = NewMixer(g, Cardinality(S)) /\ vdp'[p] = NewVdpMixer
        /\ \A m \in MixerIds : m # p => mixer'[m] = mixer[m] /\ vdp'[m] = vdp[m]
    BY <1>0, <1>5 DEF TypeOK
  <2> QED
    BY <1>0, <1>1, <1>2, <1>3, <1>5, <2>1
<1> QED
  BY <1>4, <1>5
-----------------------------------------------------------------------------
(***************************************************************************)
(* Settings.  No attribute changes during a render, so what the steps of   *)
(* it have found stays true until the picture is mixed.                    *)
(***************************************************************************)
LEMMA Times ==
  ASSUME TypeOK
  PROVE  /\ mtime \in Nat
         /\ \A i \in Attributes : attrs[i].mtime \in Nat /\ attrs[i].value \in Values
         /\ \A m \in MixerIds : IsMixer(m) =>
              /\ mixer[m].procamp_mtime \in Nat /\ mixer[m].bgcolor_mtime \in Nat
              /\ vdp[m].hq \in BOOLEAN
              /\ mixer[m].procamp \in [Procamp -> Values]
              /\ vdp[m].csc \in [procamp : [Procamp -> Values], colorspace : ColorStandards]
         /\ render # NONE => render.new_mtime \in Nat /\ render.i \in 1..(ProcampCount + 1)
                             /\ render.at \in {"procamp", "background", "scaling", "mix"}
<1>1. /\ mtime \in Nat
      /\ \A i \in Attributes : attrs[i].mtime \in Nat /\ attrs[i].value \in Values
  BY DEF TypeOK
<1>2. ASSUME NEW m \in MixerIds, IsMixer(m)
      PROVE  mixer[m] \in MixerObject /\ vdp[m] \in VdpMixer
  BY <1>2 DEF TypeOK, IsMixer
<1>3. render # NONE => render \in Rendering
  BY DEF TypeOK
<1> QED
  BY <1>1, <1>2, <1>3 DEF MixerObject, VdpMixer, Rendering

(* Where attributes and the mixers are the same, the caches are.           *)
LEMMA CacheFrame ==
  ASSUME UNCHANGED <<attrs, mtime>>, Clocked,
         NEW m, CacheIsTrue(m), vdp'[m] = vdp[m],
         \A x \in {"va_scale", "colorspace", "procamp", "procamp_mtime", "bgcolor_mtime"} :
           mixer'[m][x] = mixer[m][x]
  PROVE  CacheIsTrue(m)'
BY DEF CacheIsTrue

(* A new mixer has what VDPAU assumes of a new mixer.                      *)
LEMMA NewCache ==
  ASSUME TypeOK', UNCHANGED <<attrs, mtime>>, Clocked, TypeOK, NEW m, NEW g, NEW n,
         mixer'[m] = NewMixer(g, n), vdp'[m] = NewVdpMixer
  PROVE  CacheIsTrue(m)'
<1>1. /\ mixer'[m].procamp_mtime = 0 /\ mixer'[m].bgcolor_mtime = 0
      /\ mixer'[m].colorspace = "BT601" /\ mixer'[m].va_scale = "default"
      /\ \A i \in Procamp : mixer'[m].procamp[i] = 0
  BY DEF NewMixer
<1>2. /\ vdp'[m].background = 0 /\ vdp'[m].hq = FALSE /\ vdp'[m].csc.colorspace = "BT601"
      /\ \A i \in Procamp : vdp'[m].csc.procamp[i] = 0
  BY DEF NewVdpMixer
<1>3. /\ mtime \in Nat /\ \A i \in Attributes : attrs[i].mtime \in Nat
      /\ \A i \in Attributes : attrs[i].mtime <= 0 => attrs[i].value = 0
  BY Times DEF Clocked
<1> QED
  BY <1>1, <1>2, <1>3, Constants DEF CacheIsTrue

(* The steps of a render leave the caches of other mixers alone.           *)
LEMMA Caches ==
  ASSUME SettingsInv, MixesAlone, NEW m, m = M, CacheIsTrue(m)'
  PROVE  Clocked' /\ \A n \in MixerIds : IsMixer(n)' => CacheIsTrue(n)'
<1>1. Clocked'
  BY DEF SettingsInv, MixesAlone, Clocked
<1>2. ASSUME NEW n \in MixerIds, IsMixer(n)', n # m PROVE CacheIsTrue(n)'
  <2>1. /\ CacheIsTrue(n) /\ mixer'[n] = mixer[n] /\ vdp'[n] = vdp[n]
        /\ UNCHANGED <<attrs, mtime>> /\ Clocked
    BY <1>2 DEF SettingsInv, MixesAlone
  <2> QED
    BY <2>1, CacheFrame
<1> QED
  BY <1>1, <1>2

(* Up to the present attribute, values are read and times are covered.     *)
LEMMA ReadSettings ==
  ASSUME SettingsInv, TypeOK, ReadAttribute, NEW m, m = M
  PROVE  CacheIsTrue(m)' /\ Conversion' /\ Told'
<1> DEFINE i == render.i
<1>1. /\ MixesAlone /\ vdp' = vdp /\ i \in Procamp
      /\ render # NONE /\ render.at = "procamp" /\ render' # NONE
      /\ render'.at = "procamp" /\ render'.i = i + 1
      /\ \A x \in {"va_scale", "colorspace", "procamp_mtime", "bgcolor_mtime"} :
           mixer'[M][x] = mixer[M][x]
      /\ \A j \in Procamp : j # i => mixer'[M].procamp[j] = mixer[M].procamp[j]
      /\ attrs[i].mtime <= mixer[M].procamp_mtime =>
           mixer'[M].procamp = mixer[M].procamp /\ render'.new_mtime = render.new_mtime
      /\ attrs[i].mtime > mixer[M].procamp_mtime =>
           /\ mixer'[M].procamp[i] = attrs[i].value
           /\ render'.new_mtime = Newest(render.new_mtime, attrs[i].mtime)
  BY ReadDoes
<1>2. /\ CacheIsTrue(M) /\ Conversion /\ Clocked /\ M' = M /\ attrs' = attrs /\ mtime' = mtime
      /\ M \in MixerIds /\ IsMixer(M)
  BY <1>1 DEF SettingsInv, MixesAlone
<1>3. /\ mtime \in Nat /\ \A j \in Attributes : attrs[j].mtime \in Nat
      /\ mixer[M].procamp_mtime \in Nat /\ render.new_mtime \in Nat
      /\ i \in Nat /\ Procamp \subseteq Nat
  BY <1>1, <1>2, Times, Constants DEF Procamp
<1>4. /\ i \in Attributes /\ attrs[i].mtime <= mtime
      /\ \A j \in Procamp : j \in Attributes
  BY <1>1, <1>2, Constants DEF Clocked
<1>5. \A j \in Procamp : attrs[j].mtime <= mixer[M].procamp_mtime =>
        mixer'[M].procamp[j] = mixer[M].procamp[j]
  BY <1>1
<1>6. CacheIsTrue(m)'
  BY <1>1, <1>2, <1>5 DEF CacheIsTrue
<1>7. /\ mixer'[M].procamp[i] = attrs[i].value
      /\ attrs[i].mtime <= render'.new_mtime /\ render.new_mtime <= render'.new_mtime
      /\ render'.new_mtime <= mtime /\ render'.new_mtime \in Nat
  <2>1. mixer[M].procamp_mtime <= render.new_mtime /\ render.new_mtime <= mtime
    BY <1>1, <1>2 DEF Conversion
  <2>2. CASE attrs[i].mtime <= mixer[M].procamp_mtime
    BY <2>1, <2>2, <1>1, <1>2, <1>3, <1>4 DEF CacheIsTrue
  <2>3. CASE attrs[i].mtime > mixer[M].procamp_mtime
    BY <2>1, <2>3, <1>1, <1>3, <1>4 DEF Newest
  <2> QED
    BY <2>2, <2>3, <1>3, <1>4
<1>8. Conversion'
  <2>1. mixer'[M].procamp_mtime <= render'.new_mtime
    BY <1>1, <1>2, <1>3, <1>7 DEF Conversion
  <2>2. ASSUME NEW j \in Procamp, j < i + 1
        PROVE  attrs[j].mtime <= render'.new_mtime /\ mixer'[M].procamp[j] = attrs[j].value
    <3>1. CASE j = i
      BY <3>1, <1>7
    <3>2. CASE j # i
      <4>1. j < i
        BY <2>2, <3>2, <1>3
      <4>2. attrs[j].mtime <= render.new_mtime /\ mixer[M].procamp[j] = attrs[j].value
        BY <4>1, <1>1, <1>2 DEF Conversion
      <4>3. attrs[j].mtime <= render'.new_mtime
        BY <4>2, <1>3, <1>4, <1>7
      <4> QED
        BY <4>2, <4>3, <3>2, <1>1
    <3> QED
      BY <3>1, <3>2
  <2> QED
    BY <1>1, <1>2, <1>7, <2>1, <2>2 DEF Conversion
<1>9. Told'
  BY <1>1 DEF Told
<1> QED
  BY <1>6, <1>8, <1>9

(* After the loop, VDPAU has all attributes and the color standard.        *)
LEMMA CommitSettings ==
  ASSUME SettingsInv, TypeOK, CommitProcamp, NEW m, m = M
  PROVE  CacheIsTrue(m)' /\ (render' # NONE => Conversion' /\ Told')
<1>1. /\ MixesAlone /\ render # NONE /\ render.at = "procamp" /\ render.i \notin Procamp
      /\ \A x \in {"va_scale", "procamp", "bgcolor_mtime"} : mixer'[M][x] = mixer[M][x]
      /\ vdp'[M].background = vdp[M].background /\ vdp'[M].hq = vdp[M].hq
      /\ render' = NONE \/ render' = [render EXCEPT !.at = "background"]
      /\ \/ /\ vdp'[M].csc.procamp = mixer[M].procamp
            /\ vdp'[M].csc.colorspace = render.colorspace
            /\ mixer'[M].colorspace = render.colorspace
            /\ mixer'[M].procamp_mtime = render.new_mtime
         \/ /\ ~CommitNeeded \/ render' = NONE
            /\ UNCHANGED <<mixer, vdp>>
  BY CommitDoes
<1>2. /\ CacheIsTrue(M) /\ Conversion /\ Clocked /\ attrs' = attrs /\ mtime' = mtime
      /\ (render' # NONE => M' = M) /\ M \in MixerIds /\ IsMixer(M)
      /\ render \in Rendering
  BY <1>1, InRender DEF SettingsInv, MixesAlone
<1>3. /\ mtime \in Nat /\ \A j \in Procamp : j \in Attributes /\ attrs[j].mtime \in Nat
      /\ mixer[M].procamp_mtime \in Nat /\ render.new_mtime \in Nat
  BY <1>1, <1>2, Times, Constants
<1>4. \A j \in Procamp : j < render.i
  BY <1>1, Times, Constants DEF Procamp
<1>5. /\ render.new_mtime <= mtime
      /\ \A j \in Procamp : attrs[j].mtime <= render.new_mtime
                            /\ mixer[M].procamp[j] = attrs[j].value
  BY <1>1, <1>2, <1>4 DEF Conversion
<1>6. CASE /\ vdp'[M].csc.procamp = mixer[M].procamp
           /\ vdp'[M].csc.colorspace = render.colorspace
           /\ mixer'[M].colorspace = render.colorspace
           /\ mixer'[M].procamp_mtime = render.new_mtime
  <2>1. CacheIsTrue(m)'
    BY <1>1, <1>2, <1>5, <1>6 DEF CacheIsTrue
  <2>2. /\ \A j \in Procamp : vdp'[M].csc.procamp[j] = attrs[j].value
        /\ vdp'[M].csc.colorspace = render.colorspace
    BY <1>5, <1>6
  <2>3. render' # NONE => render'.at = "background" /\ render'.colorspace = render.colorspace
    BY <1>1, <1>2 DEF Rendering
  <2> QED
    BY <1>2, <2>1, <2>2, <2>3 DEF Conversion, Told
<1>7. CASE (~CommitNeeded \/ render' = NONE) /\ UNCHANGED <<mixer, vdp>>
  <2>1. CacheIsTrue(m)'
    BY <1>2, <1>7 DEF CacheIsTrue
  <2>2. ASSUME render' # NONE PROVE Conversion' /\ Told'
    <3>1. render.new_mtime <= mixer[M].procamp_mtime /\ render.colorspace = mixer[M].colorspace
      BY <1>3, <1>7, <2>2 DEF CommitNeeded
    <3>2. \A j \in Procamp : attrs[j].mtime <= mixer[M].procamp_mtime
      BY <1>3, <1>5, <3>1
    <3>3. /\ \A j \in Procamp : vdp[M].csc.procamp[j] = attrs[j].value
          /\ vdp[M].csc.colorspace = render.colorspace
      BY <1>2, <3>1, <3>2 DEF CacheIsTrue
    <3>4. render'.at = "background" /\ render'.colorspace = render.colorspace
      BY <1>1, <1>2, <2>2 DEF Rendering
    <3> QED
      BY <1>2, <1>7, <2>2, <3>3, <3>4 DEF Conversion, Told
  <2> QED
    BY <2>1, <2>2
<1> QED
  BY <1>1, <1>6, <1>7

(* Then the background.                                                    *)
LEMMA BackgroundSettings ==
  ASSUME SettingsInv, TypeOK, UpdateBackground, NEW m, m = M
  PROVE  CacheIsTrue(m)' /\ (render' # NONE => Conversion' /\ Told')
<1>1. /\ MixesAlone /\ render # NONE /\ render.at = "background"
      /\ \A x \in {"va_scale", "colorspace", "procamp", "procamp_mtime"} :
           mixer'[M][x] = mixer[M][x]
      /\ vdp'[M].csc = vdp[M].csc /\ vdp'[M].hq = vdp[M].hq
      /\ render' = NONE \/ render' = [render EXCEPT !.at = "scaling"]
      /\ \/ /\ vdp'[M].background = attrs[Background].value
            /\ mixer'[M].bgcolor_mtime = attrs[Background].mtime
         \/ /\ attrs[Background].mtime <= mixer[M].bgcolor_mtime \/ render' = NONE
            /\ UNCHANGED <<mixer, vdp>>
  BY BackgroundDoes
<1>2. /\ CacheIsTrue(M) /\ Told /\ Clocked /\ attrs' = attrs /\ mtime' = mtime
      /\ (render' # NONE => M' = M) /\ M \in MixerIds /\ IsMixer(M)
      /\ render \in Rendering
  BY <1>1, InRender DEF SettingsInv, MixesAlone
<1>3. attrs[Background].mtime <= mtime
  BY <1>2, Constants DEF Clocked
<1>4. CacheIsTrue(m)'
  BY <1>1, <1>2, <1>3 DEF CacheIsTrue
<1>5. ASSUME render' # NONE PROVE Conversion' /\ Told'
  <2>1. render'.at = "scaling" /\ render'.colorspace = render.colorspace
    BY <1>1, <1>2, <1>5 DEF Rendering
  <2>2. vdp'[M].background = attrs[Background].value
    BY <1>1, <1>2, <1>5 DEF CacheIsTrue
  <2> QED
    BY <1>1, <1>2, <1>5, <2>1, <2>2 DEF Conversion, Told
<1> QED
  BY <1>4, <1>5

(* Then the scaling, set or known to be set.                               *)
LEMMA ScalingSettings ==
  ASSUME SettingsInv, TypeOK, UpdateScaling, NEW m, m = M
  PROVE  CacheIsTrue(m)' /\ (render' # NONE => Conversion' /\ Told')
<1>1. /\ MixesAlone /\ render # NONE /\ render.at = "scaling"
      /\ \A x \in {"bgcolor_mtime", "colorspace", "procamp", "procamp_mtime"} :
           mixer'[M][x] = mixer[M][x]
      /\ vdp'[M].csc = vdp[M].csc /\ vdp'[M].background = vdp[M].background
      /\ render' = NONE \/ render' = [render EXCEPT !.at = "mix"]
      /\ \/ /\ mixer'[M].va_scale = render.scale
            /\ vdp'[M].hq \in BOOLEAN /\ vdp[M].hq \in BOOLEAN
            /\ IF mixer[M].va_scale # render.scale /\ HQSupported
               THEN vdp'[M].hq <=> render.scale = "hq"
               ELSE vdp'[M].hq <=> vdp[M].hq
         \/ render' = NONE /\ UNCHANGED <<mixer, vdp>>
  BY ScalingDoes
<1>2. /\ CacheIsTrue(M) /\ Told /\ Clocked /\ attrs' = attrs /\ mtime' = mtime
      /\ (render' # NONE => M' = M) /\ M \in MixerIds /\ IsMixer(M)
      /\ render \in Rendering
  BY <1>1, InRender DEF SettingsInv, MixesAlone
<1>3. vdp[M].hq <=> HQSupported /\ mixer[M].va_scale = "hq"
  BY <1>2 DEF CacheIsTrue
<1>4. CASE /\ mixer'[M].va_scale = render.scale
           /\ vdp'[M].hq \in BOOLEAN /\ vdp[M].hq \in BOOLEAN
           /\ IF mixer[M].va_scale # render.scale /\ HQSupported
              THEN vdp'[M].hq <=> render.scale = "hq"
              ELSE vdp'[M].hq <=> vdp[M].hq
  <2>1. vdp'[M].hq <=> HQSupported /\ render.scale = "hq"
    BY <1>3, <1>4
  <2>2. CacheIsTrue(m)'
    BY <1>1, <1>2, <1>4, <2>1 DEF CacheIsTrue
  <2>3. ASSUME render' # NONE PROVE Conversion' /\ Told'
    <3>1. render'.at = "mix" /\ render'.colorspace = render.colorspace
          /\ render'.scale = render.scale
      BY <1>1, <1>2, <2>3 DEF Rendering
    <3> QED
      BY <1>1, <1>2, <2>1, <2>3, <3>1 DEF Conversion, Told
  <2> QED
    BY <2>2, <2>3
<1>5. CASE render' = NONE /\ UNCHANGED <<mixer, vdp>>
  BY <1>2, <1>5 DEF CacheIsTrue
<1> QED
  BY <1>1, <1>4, <1>5

(* Every step preserves the invariant of the settings.                     *)
LEMMA SettingsStep ==
  ASSUME "serial" \in AppRules, SettingsInv, [Next]_vars
  PROVE  SettingsInv'
<1>0. TypeOK /\ CountInv'
  BY CountStep DEF SettingsInv, CountInv, MixersCounted
<1> SUFFICES /\ Clocked' /\ \A m \in MixerIds : IsMixer(m)' => CacheIsTrue(m)'
             /\ render' # NONE => Conversion' /\ Told'
  BY <1>0 DEF SettingsInv
<1>1. CASE UNCHANGED vars
  BY <1>1 DEF vars, SettingsInv, Clocked, CacheIsTrue, Conversion, Told, IsMixer, M
<1>2. ASSUME NEW i \in Attributes, NEW v \in Values, SetDisplayAttribute(i, v)
      PROVE  /\ Clocked' /\ \A m \in MixerIds : IsMixer(m)' => CacheIsTrue(m)'
             /\ render' # NONE => Conversion' /\ Told'
  <2>1. /\ UNCHANGED <<surface, owned, mixer, vdp, render>> /\ render = NONE
        /\ mtime' = mtime + 1 /\ mtime \in Nat
        /\ attrs'[i].mtime = mtime + 1
        /\ \A j \in Attributes : j # i => attrs'[j] = attrs[j]
    BY <1>0, <1>2, SetDoes DEF SetDisplayAttribute, Promised
  <2>2. Clocked'
    BY <1>0, <2>1, Times DEF SettingsInv, Clocked
  <2>3. ASSUME NEW m \in MixerIds, IsMixer(m) PROVE CacheIsTrue(m)'
    <3>1. /\ CacheIsTrue(m) /\ mixer[m].procamp_mtime \in Nat /\ mixer[m].bgcolor_mtime \in Nat
      BY <1>0, <2>3, Times DEF SettingsInv
    <3> QED
      BY <2>1, <3>1, Constants DEF CacheIsTrue
  <2> QED
    BY <2>1, <2>2, <2>3 DEF IsMixer
<1>3. ASSUME NEW s \in Surfaces, NEW standard \in ColorStandards,
             NEW scale \in {"default", "hq"}, Render(s, standard, scale)
      PROVE  /\ Clocked' /\ \A m \in MixerIds : IsMixer(m)' => CacheIsTrue(m)'
             /\ render' # NONE => Conversion' /\ Told'
  <2>1. /\ UNCHANGED <<mixer, vdp, attrs, mtime>> /\ render'.at = "procamp" /\ render'.i = 1
        /\ render'.new_mtime = mixer[M'].procamp_mtime /\ IsMixer(M') /\ M' \in MixerIds
    BY <1>3, RenderDoes DEF SettingsInv
  <2>2. CacheIsTrue(M') /\ mixer[M'].procamp_mtime \in Nat
    BY <1>0, <2>1, Times DEF SettingsInv
  <2>3. Conversion'
    BY <2>1, <2>2 DEF Conversion, CacheIsTrue, Procamp
  <2>4. Told'
    BY <2>1 DEF Told
  <2> QED
    BY <2>1, <2>3, <2>4 DEF SettingsInv, Clocked, CacheIsTrue, IsMixer
<1>4. ASSUME NEW S \in (SUBSET Surfaces) \ {{}}, NEW g \in Geometries, CreateSurfaces(S, g)
      PROVE  /\ Clocked' /\ \A m \in MixerIds : IsMixer(m)' => CacheIsTrue(m)'
             /\ render' # NONE => Conversion' /\ Told'
  <2>1. /\ UNCHANGED <<attrs, mtime, render>> /\ Clocked
        /\ \A s \in owned : surface'[s] = surface[s]
        /\ \A m \in MixerIds : IsMixer(m) =>
             /\ vdp'[m] = vdp[m]
             /\ \A x \in {"geometry", "va_scale", "colorspace", "procamp", "procamp_mtime",
                          "bgcolor_mtime"} : mixer'[m][x] = mixer[m][x]
        /\ \A m \in MixerIds : IsMixer(m)' /\ ~IsMixer(m) =>
             \E n \in Nat : mixer'[m] = NewMixer(g, n) /\ vdp'[m] = NewVdpMixer
    BY <1>4, CreateKeepsOthers DEF SettingsInv
  <2>2. TypeOK'
    BY <1>0 DEF CountInv, MixersCounted
  <2>3. ASSUME NEW m \in MixerIds, IsMixer(m)' PROVE CacheIsTrue(m)'
    <3>1. CASE IsMixer(m)
      <4>1. CacheIsTrue(m)
        BY <3>1 DEF SettingsInv
      <4> QED
        BY <2>1, <3>1, <4>1, CacheFrame
    <3>2. CASE ~IsMixer(m)
      BY <2>1, <2>2, <2>3, <3>2, <1>0, NewCache
    <3> QED
      BY <3>1, <3>2
  <2>4. Clocked'
    BY <2>1 DEF Clocked
  <2>5. ASSUME render # NONE PROVE Conversion' /\ Told'
    <3>1. M' = M /\ IsMixer(M) /\ M \in MixerIds
      BY <1>0, <2>1, <2>5, InRender DEF M
    <3>2. vdp'[M] = vdp[M] /\ mixer'[M].procamp = mixer[M].procamp
          /\ mixer'[M].procamp_mtime = mixer[M].procamp_mtime
      BY <2>1, <3>1
    <3> QED
      BY <2>1, <2>5, <3>1, <3>2 DEF SettingsInv, Conversion, Told
  <2> QED
    BY <2>1, <2>3, <2>4, <2>5
<1>5. ASSUME NEW s \in Surfaces, NEW g \in Geometries, CreateSurfacesFails(s, g)
      PROVE  /\ Clocked' /\ \A m \in MixerIds : IsMixer(m)' => CacheIsTrue(m)'
             /\ render' # NONE => Conversion' /\ Told'
  <2>1. /\ UNCHANGED <<owned, mixer, vdp, attrs, mtime, render>> /\ s \notin owned
        /\ surface' = [surface EXCEPT ![s] = [geometry |-> g, mixer |-> NONE]]
    BY <1>0, <1>5 DEF CreateSurfacesFails, TypeOK, IsSurface
  <2>2. render # NONE => M' = M
    BY <1>0, <2>1, InRender DEF M, TypeOK
  <2> QED
    BY <2>1, <2>2 DEF SettingsInv, Clocked, CacheIsTrue, Conversion, Told, IsMixer
<1>6. ASSUME NEW D \in (SUBSET Surfaces) \ {{}}, DestroySurfaces(D)
      PROVE  /\ Clocked' /\ \A m \in MixerIds : IsMixer(m)' => CacheIsTrue(m)'
             /\ render' # NONE => Conversion' /\ Told'
  <2>1. /\ UNCHANGED <<attrs, mtime, render>> /\ TypeOK'
        /\ \A s \in owned' : surface'[s] = surface[s]
        /\ \A m \in MixerIds : IsMixer(m)' => IsMixer(m)
        /\ \A m \in MixerIds : IsMixer(m)' =>
             /\ vdp'[m] = vdp[m]
             /\ \A x \in {"geometry", "va_scale", "colorspace", "procamp",
                          "procamp_mtime", "bgcolor_mtime"} : mixer'[m][x] = mixer[m][x]
    BY <1>6, DestroyDoes DEF SettingsInv
  <2>2. ASSUME NEW m \in MixerIds, IsMixer(m)' PROVE CacheIsTrue(m)'
    <3>1. CacheIsTrue(m) /\ Clocked
      BY <2>1, <2>2 DEF SettingsInv
    <3> QED
      BY <2>1, <2>2, <3>1, CacheFrame
  <2>3. Clocked'
    BY <2>1 DEF SettingsInv, Clocked
  <2>4. ASSUME render # NONE PROVE Conversion' /\ Told'
    <3>1. M' = M /\ IsMixer(M)' /\ M \in MixerIds
      BY <1>0, <2>1, <2>4, InRender DEF M, TypeOK
    <3>2. vdp'[M] = vdp[M] /\ mixer'[M].procamp = mixer[M].procamp
          /\ mixer'[M].procamp_mtime = mixer[M].procamp_mtime
      BY <2>1, <3>1 DEF IsMixer
    <3> QED
      BY <2>1, <2>4, <3>1, <3>2 DEF SettingsInv, Conversion, Told
  <2> QED
    BY <2>1, <2>2, <2>3, <2>4
<1>7. CASE ReadAttribute \/ CommitProcamp \/ UpdateBackground \/ UpdateScaling
  <2> PICK m : m = M
    OBVIOUS
  <2>1. MixesAlone
    BY <1>0, <1>7, StepsMixAlone
  <2>2. CacheIsTrue(m)' /\ (render' # NONE => Conversion' /\ Told')
    BY <1>0, <1>7, ReadSettings, CommitSettings, BackgroundSettings, ScalingSettings
  <2> QED
    BY <2>1, <2>2, Caches
<1>8. CASE Mix
  <2>1. /\ MixesAlone /\ render # NONE /\ render' = NONE /\ vdp' = vdp
        /\ \A x \in {"va_scale", "colorspace", "procamp", "procamp_mtime",
                     "bgcolor_mtime"} : mixer'[M][x] = mixer[M][x]
    BY <1>0, <1>8, MixDoes
  <2> PICK m : m = M
    OBVIOUS
  <2>2. CacheIsTrue(m) /\ UNCHANGED <<attrs, mtime>> /\ Clocked
    BY <2>1 DEF MixesAlone, SettingsInv
  <2>3. CacheIsTrue(m)'
    BY <2>1, <2>2, CacheFrame
  <2> QED
    BY <2>1, <2>3, Caches
<1> QED
  BY <1>1, <1>2, <1>3, <1>4, <1>5, <1>6, <1>7, <1>8 DEF Next

(***************************************************************************)
(* The inductive invariant of the cached settings, if the application does *)
(* not change attributes during a vaPutSurface.                            *)
(***************************************************************************)
THEOREM SettingsInvariant ==
  ASSUME "serial" \in AppRules
  PROVE  Spec => []SettingsInv
<1>1. Init => SettingsInv
  <2> SUFFICES ASSUME Init PROVE SettingsInv
    OBVIOUS
  <2>1. Clocked /\ render = NONE /\ \A m \in MixerIds : ~IsMixer(m)
    BY DEF Init, Clocked, IsMixer
  <2> QED
    BY <2>1, CountInit DEF SettingsInv
<1>2. SettingsInv /\ [Next]_vars => SettingsInv'
  BY SettingsStep
<1> QED
  BY <1>1, <1>2, PTL DEF Spec

(***************************************************************************)
(* A picture is mixed with the newest value of every display attribute and *)
(* the color standard and scaling asked for, whatever VDPAU calls failed   *)
(* or were skipped in this and earlier renders: for any number of          *)
(* attributes, changes and mixers.                                         *)
(***************************************************************************)
THEOREM SettingsAreUsed ==
  ASSUME "serial" \in AppRules
  PROVE  Spec => []PictureUsesSettings
<1>1. SettingsInv => PictureUsesSettings
  <2> SUFFICES ASSUME SettingsInv, render # NONE, render.at = "mix"
               PROVE  /\ vdp[M].csc = [procamp |-> [i \in Procamp |-> attrs[i].value],
                                       colorspace |-> render.colorspace]
                      /\ vdp[M].background = attrs[Background].value
                      /\ vdp[M].hq = (HQSupported /\ render.scale = "hq")
    BY DEF PictureUsesSettings
  <2>1. /\ Told /\ TypeOK
    BY DEF SettingsInv, CountInv, MixersCounted
  <2>2. vdp[M].hq \in BOOLEAN
        /\ vdp[M].csc \in [procamp : [Procamp -> Values], colorspace : ColorStandards]
    BY <2>1, InRender, Times
  <2>3. vdp[M].csc.procamp = [i \in Procamp |-> attrs[i].value]
    BY <2>1, <2>2 DEF Told
  <2>4. vdp[M].csc = [procamp |-> [i \in Procamp |-> attrs[i].value],
                      colorspace |-> render.colorspace]
    BY <2>1, <2>2, <2>3 DEF Told
  <2>5. vdp[M].hq = (HQSupported /\ render.scale = "hq")
    BY <2>1, <2>2 DEF Told
  <2> QED
    BY <2>1, <2>4, <2>5 DEF Told
<1> QED
  BY <1>1, SettingsInvariant, PTL
-----------------------------------------------------------------------------
(***************************************************************************)
(* The refinement of SharedObjects: surfaces are the holders, geometries   *)
(* the keys.                                                               *)
(***************************************************************************)
UsesOf(s) == IF s \in owned THEN {surface[s].mixer} ELSE {}
KeyOf(m)  == IF IsMixer(m) THEN mixer[m].geometry ELSE NONE

(* A step that leaves users and geometries alone is invisible.             *)
LEMMA Invisible ==
  ASSUME \A s \in Surfaces : UsesOf(s)' = UsesOf(s),
         \A m \in MixerIds : KeyOf(m)' = KeyOf(m)
  PROVE  UNCHANGED Shared!vars
BY DEF Shared!vars, UsesOf, KeyOf

(* vaCreateSurfaces acquires the mixer of the geometry for its surfaces.   *)
LEMMA CreateShares ==
  ASSUME CountInv, NEW S \in (SUBSET Surfaces) \ {{}}, NEW g \in Geometries,
         CreateSurfaces(S, g)
  PROVE  Shared!Next
<1>0. /\ TypeOK /\ owned' = owned \cup S
      /\ \A s \in S : surface[s] = NONE
  BY DEF CountInv, MixersCounted, CreateSurfaces, IsSurface
<1> PICK m \in MixerIds :
      /\ surface' = [s \in Surfaces |->
           IF s \in S THEN [geometry |-> g, mixer |-> m] ELSE surface[s]]
      /\ \/ /\ IsMixer(m) /\ ChecksParams(m, g)
            /\ mixer' = [mixer EXCEPT ![m].refcount = @ + Cardinality(S)]
         \/ /\ ~IsMixer(m)
            /\ \A n \in MixerIds : IsMixer(n) => ~ChecksParams(n, g)
            /\ mixer' = [mixer EXCEPT ![m] = NewMixer(g, Cardinality(S))]
  BY DEF CreateSurfaces
<1>1. \A s \in Surfaces : UsesOf(s)' = IF s \in S THEN UsesOf(s) \cup {m} ELSE UsesOf(s)
  <2>1. \A s \in S : s \notin owned
    BY <1>0 DEF TypeOK, IsSurface
  <2> QED
    BY <1>0, <2>1 DEF UsesOf
<1>2. KeyOf(m) = g \/ (KeyOf(m) = NONE /\ \A n \in MixerIds : KeyOf(n) # g)
  BY MixerAssumption DEF KeyOf, ChecksParams
<1>3. KeyOf(m)' = g
  <2>1. CountInv'
    BY CreateCounts
  <2>2. PICK s \in S : s \in Surfaces /\ s \in owned'
    BY <1>0
  <2>3. surface'[s].mixer = m /\ surface'[s].geometry = g
    BY <2>2
  <2> QED
    BY <2>1, <2>2, <2>3 DEF CountInv, MixersCounted, KeyOf
<1>4. \A n \in MixerIds : n # m => KeyOf(n)' = KeyOf(n)
  BY <1>0 DEF TypeOK, KeyOf, IsMixer
<1>5. Shared!Acquire(S, m, g)
  BY <1>1, <1>2, <1>3, <1>4 DEF Shared!Acquire, UsesOf, KeyOf
<1> QED
  BY <1>5 DEF Shared!Next

(* vaDestroySurfaces lets go of whatever its surfaces use.                 *)
LEMMA DestroyShares ==
  ASSUME CountInv, NEW D \in (SUBSET Surfaces) \ {{}}, DestroySurfaces(D)
  PROVE  Shared!Next
<1>1. /\ owned' = owned \ D
      /\ \A s \in owned' : surface'[s] = surface[s]
      /\ \A s \in Surfaces : surface'[s] = IF s \in D THEN NONE ELSE surface[s]
      /\ \A m \in MixerIds : Users(m)' = Users(m) \ D
      /\ \A m \in MixerIds : IsMixer(m)' <=> IsMixer(m) /\ Users(m)' # {}
      /\ \A m \in MixerIds : IsMixer(m)' => mixer'[m].geometry = mixer[m].geometry
  BY DestroyDoes
<1>2. TypeOK /\ owned \subseteq Surfaces
  BY DEF CountInv, MixersCounted, TypeOK
<1>3. \A s \in Surfaces : UsesOf(s)' = IF s \in D THEN UsesOf(s) \ MixerIds ELSE UsesOf(s)
  BY <1>1, <1>2 DEF UsesOf, TypeOK
<1>4. ASSUME NEW m \in MixerIds
      PROVE  KeyOf(m)' = IF \E s \in Surfaces : m \in UsesOf(s)' THEN KeyOf(m) ELSE NONE
  <2>1. /\ Users(m) \subseteq owned /\ (~IsMixer(m) => Users(m) = {})
        /\ \A s \in owned : IsSurface(s)
    BY <1>2, UsersAreOwned DEF TypeOK
  <2>2. (\E s \in Surfaces : m \in UsesOf(s)') <=> Users(m)' # {}
    BY <1>1, <1>2, <2>1 DEF UsesOf, Users
  <2> QED
    BY <1>1, <2>1, <2>2 DEF KeyOf
<1>5. Shared!Release(D, MixerIds)
  BY <1>3, <1>4 DEF Shared!Release, UsesOf, KeyOf
<1> QED
  BY <1>5 DEF Shared!Next

(* All other steps are invisible.                                          *)
LEMMA OthersAreInvisible ==
  ASSUME CountInv, [Next]_vars,
         ~\E S \in (SUBSET Surfaces) \ {{}}, g \in Geometries : CreateSurfaces(S, g),
         ~\E D \in (SUBSET Surfaces) \ {{}} : DestroySurfaces(D)
  PROVE  UNCHANGED Shared!vars
<1>0. TypeOK
  BY DEF CountInv, MixersCounted
<1>1. CASE UNCHANGED <<surface, owned, mixer>>
  BY <1>1, Invisible DEF UsesOf, KeyOf, IsMixer
<1>2. ASSUME NEW s \in Surfaces, NEW g \in Geometries, CreateSurfacesFails(s, g)
      PROVE  UNCHANGED Shared!vars
  <2>1. /\ UNCHANGED <<owned, mixer>> /\ s \notin owned
        /\ \A u \in Surfaces : u # s => surface'[u] = surface[u]
    BY <1>0, <1>2 DEF CreateSurfacesFails, TypeOK, IsSurface
  <2> QED
    BY <2>1, Invisible DEF UsesOf, KeyOf, IsMixer
<1>3. CASE ReadAttribute \/ CommitProcamp \/ UpdateBackground \/ UpdateScaling \/ Mix
  <2>1. MixesAlone
    BY <1>0, <1>3, StepsMixAlone
  <2>2. \A m \in MixerIds : (IsMixer(m)' <=> IsMixer(m))
                            /\ mixer'[m].geometry = mixer[m].geometry
    BY <2>1 DEF MixesAlone
  <2> QED
    BY <2>1, <2>2, Invisible DEF MixesAlone, UsesOf, KeyOf
<1>4. ASSUME NEW i, NEW v, SetDisplayAttribute(i, v)
      PROVE  UNCHANGED <<surface, owned, mixer>>
  BY <1>4 DEF SetDisplayAttribute
<1>5. ASSUME NEW s, NEW standard, NEW scale, Render(s, standard, scale)
      PROVE  UNCHANGED <<surface, owned, mixer>>
  BY <1>5 DEF Render
<1> QED
  BY <1>1, <1>2, <1>3, <1>4, <1>5 DEF Next, vars

(* Surfaces share their mixers as SharedObjects says: one for a geometry,  *)
(* made for the first surface and gone with the last.                      *)
THEOREM MixersAreShared == Spec => SharesMixers
<1>1. Init => Shared!Init
  BY DEF Init, Shared!Init, IsMixer
<1>2. CountInv /\ [Next]_vars => [Shared!Next]_(Shared!vars)
  BY CreateShares, DestroyShares, OthersAreInvisible
<1> QED
  BY <1>1, <1>2, CountInvariant, PTL DEF Spec, SharesMixers, Shared!Spec

(* What SharedObjects itself promises, from its own steps: an object lives *)
(* exactly as long as it is used, and a key has one object.                *)
LEMMA SharedStep ==
  Shared!LivesWhileUsed /\ [Shared!Next]_(Shared!vars) => Shared!LivesWhileUsed'
<1> SUFFICES ASSUME Shared!LivesWhileUsed, [Shared!Next]_(Shared!vars)
             PROVE  Shared!LivesWhileUsed'
  OBVIOUS
<1> DEFINE Lives(m) == (KeyOf(m) # NONE <=> \E s \in Surfaces : m \in UsesOf(s))
           Alone(m, n) == (KeyOf(m) # NONE /\ KeyOf(m) = KeyOf(n) => m = n)
<1>1. \A m \in MixerIds : Lives(m) /\ \A n \in MixerIds : Alone(m, n)
  BY DEF Shared!LivesWhileUsed, UsesOf, KeyOf
<1> SUFFICES \A m \in MixerIds : Lives(m)' /\ \A n \in MixerIds : Alone(m, n)'
  BY DEF Shared!LivesWhileUsed, UsesOf, KeyOf
<1>2. ASSUME NEW U \in (SUBSET Surfaces) \ {{}}, NEW id \in MixerIds, NEW k \in Geometries,
             Shared!Acquire(U, id, k)
      PROVE  \A m \in MixerIds : Lives(m)' /\ \A n \in MixerIds : Alone(m, n)'
  <2>1. /\ KeyOf(id) = k \/ (KeyOf(id) = NONE /\ \A other \in MixerIds : KeyOf(other) # k)
        /\ \A s \in Surfaces : UsesOf(s)' = IF s \in U THEN UsesOf(s) \cup {id} ELSE UsesOf(s)
        /\ \A m \in MixerIds : KeyOf(m)' = IF m = id THEN k ELSE KeyOf(m)
    BY <1>2 DEF Shared!Acquire, UsesOf, KeyOf
  <2>2. k # NONE
    BY MixerAssumption
  <2>3. \A m \in MixerIds : Lives(m)'
    BY <1>1, <2>1, <2>2
  <2> QED
    BY <1>1, <2>1, <2>2, <2>3
<1>3. ASSUME NEW U \in (SUBSET Surfaces) \ {{}}, NEW v \in Surfaces, Shared!Pass(U, v)
      PROVE  \A m \in MixerIds : Lives(m)' /\ \A n \in MixerIds : Alone(m, n)'
  <2> DEFINE uses == [s \in Surfaces |-> UsesOf(s)]
             key == [m \in MixerIds |-> KeyOf(m)]
  <2>1. /\ v \notin U /\ key' = key
        /\ uses' = [w \in Surfaces |-> IF w \in U THEN {}
                                       ELSE IF w = v THEN UNION {uses[u] : u \in U \cup {v}}
                                       ELSE uses[w]]
    BY <1>3 DEF Shared!Pass, UsesOf, KeyOf
  <2>2. /\ \A s \in Surfaces : uses[s] = UsesOf(s) /\ uses'[s] = UsesOf(s)'
        /\ \A m \in MixerIds : key[m] = KeyOf(m) /\ key'[m] = KeyOf(m)'
    OBVIOUS
  <2> HIDE DEF uses, key
  <2>3. /\ \A s \in Surfaces : UsesOf(s)' =
             IF s \in U THEN {}
             ELSE IF s = v THEN UNION {uses[u] : u \in U \cup {v}}
             ELSE UsesOf(s)
        /\ \A m \in MixerIds : KeyOf(m)' = KeyOf(m)
    BY <2>1, <2>2
  <2>4. ASSUME NEW m \in MixerIds
        PROVE  (\E s \in Surfaces : m \in UsesOf(s)') <=> (\E s \in Surfaces : m \in UsesOf(s))
    <3>1. m \in UsesOf(v)' <=> \E u \in U \cup {v} : m \in UsesOf(u)
      BY <2>1, <2>2, <2>3
    <3>2. \A s \in Surfaces : s # v => (m \in UsesOf(s)' <=> s \notin U /\ m \in UsesOf(s))
      BY <2>3
    <3> QED
      BY <3>1, <3>2
  <2> QED
    BY <1>1, <2>3, <2>4
<1>4. ASSUME NEW U \in (SUBSET Surfaces) \ {{}}, NEW A \in SUBSET MixerIds,
             Shared!Release(U, A)
      PROVE  \A m \in MixerIds : Lives(m)' /\ \A n \in MixerIds : Alone(m, n)'
  <2>1. /\ \A s \in Surfaces : UsesOf(s)' = IF s \in U THEN UsesOf(s) \ A ELSE UsesOf(s)
        /\ \A m \in MixerIds : KeyOf(m)' = IF \E s \in Surfaces : m \in UsesOf(s)'
                                           THEN KeyOf(m) ELSE NONE
    BY <1>4 DEF Shared!Release, UsesOf, KeyOf
  <2>2. \A m \in MixerIds : (\E s \in Surfaces : m \in UsesOf(s)') => KeyOf(m) # NONE
    BY <1>1, <2>1
  <2> QED
    BY <1>1, <2>1, <2>2
<1>5. CASE UNCHANGED Shared!vars
  <2>1. /\ \A s \in Surfaces : UsesOf(s)' = UsesOf(s)
        /\ \A m \in MixerIds : KeyOf(m)' = KeyOf(m)
    BY <1>5 DEF Shared!vars, UsesOf, KeyOf
  <2> QED
    BY <1>1, <2>1
<1> QED
  BY <1>2, <1>3, <1>4, <1>5 DEF Shared!Next

(* So each mixer lives exactly as long as a surface uses it.               *)
THEOREM MixersLiveWhileUsed == Spec => []Shared!LivesWhileUsed
<1>1. Shared!Init => Shared!LivesWhileUsed
  BY DEF Shared!Init, Shared!LivesWhileUsed
<1> QED
  BY <1>1, SharedStep, MixersAreShared, PTL DEF SharesMixers, Shared!Spec
=============================================================================
