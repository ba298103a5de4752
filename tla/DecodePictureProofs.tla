------------------------- MODULE DecodePictureProofs -------------------------
(***************************************************************************)
(* Theorems about DecodePicture, for any number of contexts, surfaces and  *)
(* buffers and lists of any length.  What a theorem needs the application  *)
(* to promise is an assumption of the theorem.                             *)
(***************************************************************************)
EXTENDS DecodePicture, SequenceTheorems, TLAPS

(***************************************************************************)
(* Every buffer is accounted for: a thread holds it, or it waits once on   *)
(* the list of its own, open, context.  What a thread has still to         *)
(* translate it holds, each buffer once.                                   *)
(***************************************************************************)
HeldExist ==
  \A c \in Contexts, b \in Buffers : b \in held[c] =>
    IsBuffer(b) /\ owner[b] = c /\ ~delayed[b]
DeadWait ==
  \A c \in Contexts, b \in Buffers : dead[c][b] > 0 =>
    /\ IsBuffer(b) /\ owner[b] = c /\ delayed[b]
    /\ dead[c][b] = 1 /\ IsOpen(c)
NoneIsLost ==
  \A b \in Buffers : IsBuffer(b) =>
    /\ owner[b] \in Contexts
    /\ IF delayed[b] THEN dead[owner[b]][b] = 1 ELSE b \in held[owner[b]]
PendingIsHeld ==
  \A c \in Contexts : pending[c] # <<>> =>
    IsOpen(c) /\ Range(pending[c]) \subseteq held[c] /\ IsInjective(pending[c])

AccountInv == TypeOK /\ HeldExist /\ DeadWait /\ NoneIsLost /\ PendingIsHeld

(***************************************************************************)
(* A buffer is kept for a picture while it waits for the context to finish *)
(* with it.  Pointers are to such buffers, slices are among the pointers,  *)
(* and what is pending finds the parameters it needs.                      *)
(***************************************************************************)
Kept(c, b) == b \in Buffers /\ IsBuffer(b) /\ delayed[b] /\ owner[b] = c
PointersKept ==
  \A c \in Contexts : IsOpen(c) =>
    /\ \A p \in bits[c] : p = GEN \/ Kept(c, p)
    /\ sliceParams[c] = NONE \/ Kept(c, sliceParams[c])
    /\ picParam[c] = NONE \/ Kept(c, picParam[c])
SlicesKept ==
  \A c \in Contexts : IsOpen(c) => \A b \in sent[c] : b \in bits[c] /\ Kept(c, b)
ParamsPrecede ==
  \A c \in Contexts : \A i \in DOMAIN pending[c] :
    type[pending[c][i]] = "data" => Described(c, pending[c], i)

(***************************************************************************)
(* Contexts render to live surfaces of their own.                          *)
(***************************************************************************)
TargetsOwned ==
  \A c \in Contexts :
    /\ IsOpen(c) => target[c] \in targets[c]
    /\ \A s \in targets[c] : IsSurface(s)
    /\ ~IsContext(c) => targets[c] = {}
SurfacesInv == TypeOK /\ TargetsOwned /\ AssociationsAgree
-----------------------------------------------------------------------------
(***************************************************************************)
(* Types.                                                                  *)
(***************************************************************************)
(* What is used of the constants throughout.                               *)
LEMMA Constants ==
  /\ Codecs \subseteq AllCodecs /\ Types \subseteq AllTypes /\ RefCounts \subseteq 0..16
  /\ GEN \notin Buffers /\ FREED \notin Buffers /\ NONE \notin Buffers
  /\ GEN # FREED /\ GEN # NONE /\ FREED # NONE
  /\ NONE \notin Nat /\ NONE \notin Surfaces /\ NONE \notin Contexts
  /\ NONE \notin Codecs /\ NONE \notin Types
BY DecodeAssumption

(* Every decoder holds at most sixteen references.                         *)
LEMMA ReferencesBounded == \A k \in Codecs : NumRefs(k) \subseteq 0..16
BY Constants DEF NumRefs, AllCodecs

(* Destroyed buffers leave no pointers but to freed memory.                *)
LEMMA DestroyTypes ==
  ASSUME TypeOK, NEW D \in SUBSET Buffers,
         NEW blocks \in [Contexts -> SUBSET Blocks],
         NEW slices \in [Contexts -> Buffers \cup {FREED, NONE}],
         NEW pics \in [Contexts -> Buffers \cup {FREED, NONE}],
         DestroyBuffers(D, blocks, slices, pics)
  PROVE  /\ type' \in [Buffers -> Types \cup {NONE}]
         /\ owner' \in [Buffers -> Contexts \cup {NONE}]
         /\ delayed' \in [Buffers -> BOOLEAN]
         /\ bits' \in [Contexts -> SUBSET Blocks]
         /\ sliceParams' \in [Contexts -> Buffers \cup {FREED, NONE}]
         /\ picParam' \in [Contexts -> Buffers \cup {FREED, NONE}]
BY DEF TypeOK, DestroyBuffers, Pointer, Pointers, Blocks

(* The dead_buffers list of a context is emptied.                          *)
LEMMA ClearTypes ==
  ASSUME TypeOK, NEW c \in Contexts
  PROVE  [dead EXCEPT ![c] = [b \in Buffers |-> 0]] \in [Contexts -> [Buffers -> Nat]]
<1>1. [b \in Buffers |-> 0] \in [Buffers -> Nat]
  OBVIOUS
<1>2. dead \in [Contexts -> [Buffers -> Nat]]
  BY DEF TypeOK
<1> QED
  BY <1>1, <1>2

(* A crash changes nothing else.                                           *)
LEMMA CrashTypes ==
  ASSUME TypeOK, NEW kind \in {"null", "abort", "overrun", "overlong"}, Crash(kind)
  PROVE  TypeOK'
BY DEF TypeOK, Crash, sessionVars, pictureVars, bufferVars, surfaceVars

(* The calls on surfaces, on buffers and vaCreateContext keep the types.   *)
LEMMA ObjectTypes ==
  ASSUME TypeOK
  PROVE  /\ \A s \in Surfaces : CreateSurface(s) \/ DestroySurface(s) => TypeOK'
         /\ \A c \in Contexts, b \in Buffers :
              /\ \A t \in Types : CreateBuffer(c, b, t) => TypeOK'
              /\ DestroyBuffer(c, b) => TypeOK'
<1> USE DEF sessionVars, pictureVars, bufferVars, surfaceVars
<1>0. NoJob \in [asked : 0..16, capacity : 0..16]
  BY DEF NoJob
<1>1. ASSUME NEW s \in Surfaces, CreateSurface(s) PROVE TypeOK'
  BY <1>0, <1>1 DEF TypeOK, CreateSurface
<1>2. ASSUME NEW s \in Surfaces, DestroySurface(s) PROVE TypeOK'
  BY <1>0, <1>2 DEF TypeOK, DestroySurface
<1>3. ASSUME NEW c \in Contexts, NEW b \in Buffers, NEW t \in Types, CreateBuffer(c, b, t)
      PROVE  TypeOK'
  BY <1>0, <1>3 DEF TypeOK, CreateBuffer
<1>4. ASSUME NEW c \in Contexts, NEW b \in Buffers, DestroyBuffer(c, b) PROVE TypeOK'
  <2>1. DestroyBuffers({b}, bits, sliceParams, picParam)
        \/ UNCHANGED <<bufferVars, bits, sliceParams, picParam>>
    BY <1>4 DEF DestroyBuffer
  <2>2. /\ type' \in [Buffers -> Types \cup {NONE}]
        /\ owner' \in [Buffers -> Contexts \cup {NONE}]
        /\ delayed' \in [Buffers -> BOOLEAN]
        /\ bits' \in [Contexts -> SUBSET Blocks]
        /\ sliceParams' \in [Contexts -> Buffers \cup {FREED, NONE}]
        /\ picParam' \in [Contexts -> Buffers \cup {FREED, NONE}]
    BY <2>1, DestroyTypes DEF TypeOK
  <2> QED
    BY <1>0, <1>4, <2>2 DEF TypeOK, DestroyBuffer
<1> QED
  BY <1>1, <1>2, <1>3, <1>4

(* The calls that open, close or replace a context or a picture keep them. *)
LEMMA SessionTypes ==
  ASSUME TypeOK, NEW c \in Contexts
  PROVE  /\ \A k \in Codecs, T \in SUBSET Surfaces : CreateContext(c, k, T) => TypeOK'
         /\ DestroyContext(c) => TypeOK'
         /\ \A s \in Surfaces : BeginPicture(c, s) => TypeOK'
         /\ EndPicture(c) => TypeOK'
<1> USE DEF sessionVars, pictureVars, bufferVars, surfaceVars
<1>0. NoJob \in [asked : 0..16, capacity : 0..16] /\ Dead(c) \in SUBSET Buffers
  BY DEF NoJob, Dead
<1>1. ASSUME NEW k \in Codecs, NEW T \in SUBSET Surfaces, CreateContext(c, k, T)
      PROVE  TypeOK'
  <2>1. CASE \A s \in T : MayAssociate(s)
    <3>1. dead' \in [Contexts -> [Buffers -> Nat]]
      BY <1>1, <2>1, ClearTypes DEF CreateContext
    <3>2. assoc' = Associate(c, T)
      BY <1>1, <2>1 DEF CreateContext
    <3>3. assoc' \in [Surfaces -> Contexts \cup {NONE}]
      BY <3>2 DEF Associate, TypeOK
    <3>4. /\ codec' = [codec EXCEPT ![c] = k]
          /\ targets' = [targets EXCEPT ![c] = T]
          /\ target' = [target EXCEPT ![c] = NONE]
          /\ decoder' = [decoder EXCEPT ![c] = NONE]
      BY <1>1, <2>1 DEF CreateContext
    <3>5. /\ codec' \in [Contexts -> Codecs \cup {NONE}]
          /\ targets' \in [Contexts -> SUBSET Surfaces]
          /\ target' \in [Contexts -> Surfaces \cup {NONE}]
          /\ decoder' \in [Contexts -> (0..16) \cup {NONE}]
      BY <3>4 DEF TypeOK
    <3>6. /\ bits' = [bits EXCEPT ![c] = {}]
          /\ genSize' = [genSize EXCEPT ![c] = 0] /\ genMax' = [genMax EXCEPT ![c] = 0]
          /\ genRoom' = [genRoom EXCEPT ![c] = 0]
          /\ sent' = [sent EXCEPT ![c] = {}]
      BY <1>1, <2>1 DEF CreateContext
    <3>7. /\ bits' \in [Contexts -> SUBSET Blocks]
          /\ genSize' \in [Contexts -> Nat] /\ genMax' \in [Contexts -> Nat]
          /\ genRoom' \in [Contexts -> Nat]
          /\ sent' \in [Contexts -> SUBSET Buffers]
      BY <3>6 DEF TypeOK
    <3>8. /\ job' = NoJob
          /\ UNCHANGED <<sliceParams, picParam, bufferVars, status, pending, fault, held>>
      BY <1>1, <2>1 DEF CreateContext
    <3> QED
      BY <1>0, <3>1, <3>3, <3>5, <3>7, <3>8 DEF TypeOK
  <2>2. CASE ~\A s \in T : MayAssociate(s)
    BY <1>1, <2>2, CrashTypes DEF CreateContext
  <2> QED
    BY <2>1, <2>2
<1>2. ASSUME DestroyContext(c) PROVE TypeOK'
  <2>1. CASE DeadIsSound(c)
    <3> DEFINE blocks == [bits EXCEPT ![c] = {}]
    <3>1. DestroyBuffers(Dead(c), blocks, sliceParams, picParam)
      BY <1>2, <2>1 DEF DestroyContext
    <3>2. blocks \in [Contexts -> SUBSET Blocks]
      BY DEF TypeOK
    <3> HIDE DEF blocks
    <3>3. /\ type' \in [Buffers -> Types \cup {NONE}]
          /\ owner' \in [Buffers -> Contexts \cup {NONE}]
          /\ delayed' \in [Buffers -> BOOLEAN]
          /\ bits' \in [Contexts -> SUBSET Blocks]
          /\ sliceParams' \in [Contexts -> Buffers \cup {FREED, NONE}]
          /\ picParam' \in [Contexts -> Buffers \cup {FREED, NONE}]
      BY <1>0, <3>1, <3>2, DestroyTypes DEF TypeOK
    <3>4. dead' \in [Contexts -> [Buffers -> Nat]]
      BY <1>2, <2>1, ClearTypes DEF DestroyContext, ClearDead
    <3>5. assoc' = Dissociate(c)
      BY <1>2, <2>1 DEF DestroyContext
    <3>6. assoc' \in [Surfaces -> Contexts \cup {NONE}]
      BY <3>5 DEF Dissociate, TypeOK
    <3>7. /\ codec' = [codec EXCEPT ![c] = NONE]
          /\ targets' = [targets EXCEPT ![c] = {}]
          /\ target' = [target EXCEPT ![c] = NONE]
          /\ decoder' = [decoder EXCEPT ![c] = NONE]
      BY <1>2, <2>1 DEF DestroyContext
    <3>8. /\ codec' \in [Contexts -> Codecs \cup {NONE}]
          /\ targets' \in [Contexts -> SUBSET Surfaces]
          /\ target' \in [Contexts -> Surfaces \cup {NONE}]
          /\ decoder' \in [Contexts -> (0..16) \cup {NONE}]
      BY <3>7 DEF TypeOK
    <3>9. /\ genSize' = [genSize EXCEPT ![c] = 0] /\ genMax' = [genMax EXCEPT ![c] = 0]
          /\ genRoom' = [genRoom EXCEPT ![c] = 0]
          /\ sent' = [sent EXCEPT ![c] = {}]
      BY <1>2, <2>1 DEF DestroyContext
    <3>10. /\ genSize' \in [Contexts -> Nat] /\ genMax' \in [Contexts -> Nat]
           /\ genRoom' \in [Contexts -> Nat]
           /\ sent' \in [Contexts -> SUBSET Buffers]
      BY <3>9 DEF TypeOK
    <3>11. job' = NoJob /\ UNCHANGED <<status, pending, fault, held>>
      BY <1>2, <2>1 DEF DestroyContext
    <3> QED
      BY <1>0, <3>3, <3>4, <3>6, <3>8, <3>10, <3>11 DEF TypeOK
  <2>2. CASE ~DeadIsSound(c)
    BY <1>2, <2>2, CrashTypes DEF DestroyContext
  <2> QED
    BY <2>1, <2>2
<1>3. ASSUME NEW s \in Surfaces, BeginPicture(c, s) PROVE TypeOK'
  <2>1. CASE DeadIsSound(c)
    <3> DEFINE blocks == [bits EXCEPT ![c] = {}]
               slices == FreshParams(c)
               pics == [picParam EXCEPT ![c] = NONE]
    <3>1. DestroyBuffers(Dead(c), blocks, slices, pics)
      BY <1>3, <2>1 DEF BeginPicture
    <3>2. /\ blocks \in [Contexts -> SUBSET Blocks]
          /\ slices \in [Contexts -> Buffers \cup {FREED, NONE}]
          /\ pics \in [Contexts -> Buffers \cup {FREED, NONE}]
      BY DEF TypeOK, FreshParams
    <3> HIDE DEF blocks, slices, pics
    <3>3. /\ type' \in [Buffers -> Types \cup {NONE}]
          /\ owner' \in [Buffers -> Contexts \cup {NONE}]
          /\ delayed' \in [Buffers -> BOOLEAN]
          /\ bits' \in [Contexts -> SUBSET Blocks]
          /\ sliceParams' \in [Contexts -> Buffers \cup {FREED, NONE}]
          /\ picParam' \in [Contexts -> Buffers \cup {FREED, NONE}]
      BY <1>0, <3>1, <3>2, DestroyTypes
    <3>4. dead' \in [Contexts -> [Buffers -> Nat]]
      BY <1>3, <2>1, ClearTypes DEF BeginPicture, ClearDead
    <3>5. /\ status' = [status EXCEPT ![s] = "rendering"]
          /\ target' = [target EXCEPT ![c] = s]
          /\ genSize' = [genSize EXCEPT ![c] = 0]
          /\ sent' = [sent EXCEPT ![c] = {}]
      BY <1>3, <2>1 DEF BeginPicture
    <3>6. /\ status' \in [Surfaces -> {"ready", "rendering", NONE}]
          /\ target' \in [Contexts -> Surfaces \cup {NONE}]
          /\ genSize' \in [Contexts -> Nat]
          /\ sent' \in [Contexts -> SUBSET Buffers]
      BY <3>5 DEF TypeOK
    <3>7. /\ job' = NoJob
          /\ UNCHANGED <<codec, targets, decoder, genMax, genRoom, assoc, pending, fault, held>>
      BY <1>3, <2>1 DEF BeginPicture
    <3> QED
      BY <1>0, <3>3, <3>4, <3>6, <3>7 DEF TypeOK
  <2>2. CASE ~DeadIsSound(c)
    BY <1>3, <2>2, CrashTypes DEF BeginPicture
  <2> QED
    BY <2>1, <2>2
<1>4. ASSUME EndPicture(c) PROVE TypeOK'
  <2>1. CASE DeadIsSound(c)
    <3>1. DestroyBuffers(Dead(c), bits, sliceParams, picParam)
      BY <1>4, <2>1 DEF EndPicture
    <3>2. /\ type' \in [Buffers -> Types \cup {NONE}]
          /\ owner' \in [Buffers -> Contexts \cup {NONE}]
          /\ delayed' \in [Buffers -> BOOLEAN]
          /\ bits' \in [Contexts -> SUBSET Blocks]
          /\ sliceParams' \in [Contexts -> Buffers \cup {FREED, NONE}]
          /\ picParam' \in [Contexts -> Buffers \cup {FREED, NONE}]
      BY <1>0, <3>1, DestroyTypes DEF TypeOK
    <3>3. codec[c] \in Codecs
      BY <1>4 DEF TypeOK, EndPicture, IsContext
    <3>4. /\ decoder' \in [Contexts -> (0..16) \cup {NONE}]
          /\ job' \in [asked : 0..16, capacity : 0..16]
      <4> PICK n \in NumRefs(codec[c]) :
                 \/ Decode(c, n)
                 \/ /\ NeedsDecoder(c, n)
                    /\ decoder' = [decoder EXCEPT ![c] = NONE]
                    /\ job' = NoJob
        BY <1>4, <2>1 DEF EndPicture
      <4>1. n \in 0..16
        BY <3>3, ReferencesBounded
      <4>2. CASE Decode(c, n)
        <5>1. decoder' \in [Contexts -> (0..16) \cup {NONE}]
          BY <4>1, <4>2 DEF Decode, TypeOK
        <5>2. decoder'[c] \in 0..16
          BY <4>1, <4>2 DEF Decode, TypeOK, NeedsDecoder
        <5> QED
          BY <4>1, <4>2, <5>1, <5>2 DEF Decode
      <4> QED
        BY <1>0, <4>1, <4>2 DEF TypeOK
    <3>5. dead' \in [Contexts -> [Buffers -> Nat]]
      BY <1>4, <2>1, ClearTypes DEF EndPicture, ClearDead
    <3> QED
      BY <1>4, <2>1, <3>2, <3>4, <3>5 DEF TypeOK, EndPicture
  <2>2. CASE ~DeadIsSound(c)
    BY <1>4, <2>2, CrashTypes DEF EndPicture
  <2> QED
    BY <2>1, <2>2
<1> QED
  BY <1>1, <1>2, <1>3, <1>4

(* The first loop of vaRenderPicture, and every translation, keep them.    *)
LEMMA RenderTypes ==
  ASSUME TypeOK, NEW c \in Contexts, NEW list \in Lists, RenderPicture(c, list)
  PROVE  TypeOK'
<1>1. list \in Seq(Buffers)
  BY SeqDef, DecodeAssumption DEF Lists
<1>2. CASE \A b \in Range(list) : IsBuffer(b)
  <2>1. pending' \in [Contexts -> Seq(Buffers)]
    BY <1>1, <1>2 DEF RenderPicture, TypeOK
  <2> QED
    BY <1>2, <2>1 DEF RenderPicture, TypeOK, NoJob, sessionVars, pictureVars,
                      bufferVars, surfaceVars
<1>3. CASE ~\A b \in Range(list) : IsBuffer(b)
  BY <1>3, CrashTypes DEF RenderPicture
<1> QED
  BY <1>2, <1>3

(* Handing buffers on keeps the lists well formed.                         *)
LEMMA ConsumeTypes ==
  ASSUME TypeOK, NEW c \in Contexts, NEW b \in Buffers, pending[c] # <<>>, Consume(c, b)
  PROVE  pending' \in [Contexts -> Seq(Buffers)] /\ held' \in [Contexts -> SUBSET Buffers]
<1>1. pending[c] \in Seq(Buffers)
  BY DEF TypeOK
<1>2. Tail(pending[c]) \in Seq(Buffers)
  BY <1>1, HeadTailProperties
<1> QED
  BY <1>2 DEF Consume, TypeOK

(* A buffer kept until the picture ends.                                   *)
LEMMA RetainTypes ==
  ASSUME TypeOK, NEW c \in Contexts, NEW b \in Buffers, pending[c] # <<>>, Retain(c, b)
  PROVE  /\ pending' \in [Contexts -> Seq(Buffers)] /\ held' \in [Contexts -> SUBSET Buffers]
         /\ dead' \in [Contexts -> [Buffers -> Nat]] /\ delayed' \in [Buffers -> BOOLEAN]
         /\ UNCHANGED <<type, owner>>
<1>1. Consume(c, b) /\ Schedule(b) /\ UNCHANGED <<type, owner>>
  BY DEF Retain
<1>2. dead' \in [Contexts -> [Buffers -> Nat]] /\ delayed' \in [Buffers -> BOOLEAN]
  <2>1. dead \in [Contexts -> [Buffers -> Nat]] /\ delayed \in [Buffers -> BOOLEAN]
        /\ owner[b] \in Contexts \cup {NONE}
    BY DEF TypeOK
  <2>2. ASSUME owner[b] # NONE, dead' = [dead EXCEPT ![owner[b]][b] = @ + 1]
        PROVE  dead' \in [Contexts -> [Buffers -> Nat]]
    <3> DEFINE list == [dead[owner[b]] EXCEPT ![b] = @ + 1]
    <3>1. owner[b] \in Contexts /\ dead[owner[b]] \in [Buffers -> Nat]
      BY <2>1, <2>2
    <3>2. list \in [Buffers -> Nat]
      BY <3>1
    <3>3. dead' = [dead EXCEPT ![owner[b]] = list]
      BY <2>2
    <3> HIDE DEF list
    <3> QED
      BY <2>1, <3>2, <3>3
  <2> QED
    BY <1>1, <2>1, <2>2 DEF Schedule
<1> QED
  BY <1>1, <1>2, ConsumeTypes

(* The rest of a list that is rejected.                                    *)
LEMMA GiveUpTypes ==
  ASSUME TypeOK, NEW c \in Contexts, GiveUp(c)
  PROVE  pending' \in [Contexts -> Seq(Buffers)]
<1>1. <<>> \in Seq(Buffers) /\ pending \in [Contexts -> Seq(Buffers)]
  BY EmptySeq DEF TypeOK
<1> QED
  BY <1>1 DEF GiveUp

(* The room taken for a header.                                            *)
LEMMA RoomTypes ==
  ASSUME TypeOK, NEW c \in Contexts, TakeRoom(c)
  PROVE  /\ genSize' \in [Contexts -> Nat] /\ genMax' \in [Contexts -> Nat]
         /\ genRoom' \in [Contexts -> Nat]
BY DEF TypeOK, TakeRoom

(* What slice data appends to the array of pointers.                       *)
LEMMA SliceDataBits ==
  ASSUME TypeOK, NEW c \in Contexts, NEW b \in Buffers, TranslateSliceData(c, b)
  PROVE  /\ bits' \in [Contexts -> SUBSET Blocks]
         /\ genSize' \in [Contexts -> Nat] /\ genMax' \in [Contexts -> Nat]
         /\ genRoom' \in [Contexts -> Nat]
<1>1. AppendedOf(c, b) \subseteq Blocks /\ GEN \in Blocks /\ FREED \in Blocks
  BY DEF AppendedOf, Blocks
<1>2. bits \in [Contexts -> SUBSET Blocks]
      /\ genSize \in [Contexts -> Nat] /\ genMax \in [Contexts -> Nat]
      /\ genRoom \in [Contexts -> Nat]
  BY DEF TypeOK
<1>3. ASSUME NEW moved \in BOOLEAN, Generate(c, moved, {GEN} \cup AppendedOf(c, b))
      PROVE  /\ bits' \in [Contexts -> SUBSET Blocks]
             /\ genSize' \in [Contexts -> Nat] /\ genMax' \in [Contexts -> Nat]
             /\ genRoom' \in [Contexts -> Nat]
  <2>1. Pointers(bits[c], {GEN}) \subseteq Blocks
    BY <1>1, <1>2 DEF Pointers
  <2> QED
    <3>1. bits' \in [Contexts -> SUBSET Blocks]
      BY <1>1, <1>2, <1>3, <2>1 DEF Generate
    <3> QED
      BY <1>3, <3>1, RoomTypes DEF Generate
<1>4. ASSUME bits' = [bits EXCEPT ![c] = @ \cup AppendedOf(c, b)],
             UNCHANGED <<genSize, genMax, genRoom>>
      PROVE  /\ bits' \in [Contexts -> SUBSET Blocks]
             /\ genSize' \in [Contexts -> Nat] /\ genMax' \in [Contexts -> Nat]
             /\ genRoom' \in [Contexts -> Nat]
  BY <1>1, <1>2, <1>4
<1> QED
  BY <1>3, <1>4 DEF TranslateSliceData

(* Each kind of buffer keeps the types.                                    *)
LEMMA TranslateTypes ==
  ASSUME TypeOK, NEW c \in Contexts, NEW b \in Buffers
  PROVE  /\ TranslateCopied(c, b) => TypeOK'
         /\ TranslatePicParam(c, b) => TypeOK'
         /\ TranslateSliceParam(c, b) => TypeOK'
         /\ TranslateSliceData(c, b) => TypeOK'
         /\ TranslateRejected(c, b) => TypeOK'
         /\ GenerateFails(c, b) => TypeOK'
         /\ AppendFails(c, b) => TypeOK'
         /\ TranslateCrashes(c, b) => TypeOK'
         /\ HeaderOverlong(c, b) => TypeOK'
         /\ GenerateOverruns(c, b) => TypeOK'
<1> USE DEF translateFrame, sessionVars, pictureVars, bufferVars, surfaceVars
<1>1. ASSUME TranslateCopied(c, b) PROVE TypeOK'
  <2>1. /\ type' \in [Buffers -> Types \cup {NONE}]
        /\ owner' \in [Buffers -> Contexts \cup {NONE}]
        /\ delayed' \in [Buffers -> BOOLEAN]
        /\ bits' \in [Contexts -> SUBSET Blocks]
        /\ sliceParams' \in [Contexts -> Buffers \cup {FREED, NONE}]
        /\ picParam' \in [Contexts -> Buffers \cup {FREED, NONE}]
    BY <1>1, DestroyTypes DEF TranslateCopied, TypeOK
  <2>2. pending' \in [Contexts -> Seq(Buffers)] /\ held' \in [Contexts -> SUBSET Buffers]
    BY <1>1, ConsumeTypes DEF TranslateCopied, Translates
  <2> QED
    BY <1>1, <2>1, <2>2 DEF TranslateCopied, TypeOK
<1>2. ASSUME TranslatePicParam(c, b) PROVE TypeOK'
  <2>1. /\ pending' \in [Contexts -> Seq(Buffers)] /\ held' \in [Contexts -> SUBSET Buffers]
        /\ dead' \in [Contexts -> [Buffers -> Nat]] /\ delayed' \in [Buffers -> BOOLEAN]
        /\ UNCHANGED <<type, owner>>
    BY <1>2, RetainTypes DEF TranslatePicParam, Translates
  <2> QED
    BY <1>2, <2>1 DEF TranslatePicParam, TypeOK
<1>3. ASSUME TranslateSliceParam(c, b) PROVE TypeOK'
  <2>1. /\ pending' \in [Contexts -> Seq(Buffers)] /\ held' \in [Contexts -> SUBSET Buffers]
        /\ dead' \in [Contexts -> [Buffers -> Nat]] /\ delayed' \in [Buffers -> BOOLEAN]
        /\ UNCHANGED <<type, owner>>
    BY <1>3, RetainTypes DEF TranslateSliceParam, Translates
  <2> QED
    BY <1>3, <2>1 DEF TranslateSliceParam, TypeOK
<1>4. ASSUME TranslateSliceData(c, b) PROVE TypeOK'
  <2>1. /\ pending' \in [Contexts -> Seq(Buffers)] /\ held' \in [Contexts -> SUBSET Buffers]
        /\ dead' \in [Contexts -> [Buffers -> Nat]] /\ delayed' \in [Buffers -> BOOLEAN]
        /\ UNCHANGED <<type, owner>>
    BY <1>4, RetainTypes DEF TranslateSliceData, Translates
  <2>2. sent' \in [Contexts -> SUBSET Buffers]
    BY <1>4 DEF TranslateSliceData, TypeOK
  <2>3. UNCHANGED <<translateFrame, sliceParams, picParam>>
    BY <1>4 DEF TranslateSliceData
  <2> QED
    BY <1>4, <2>1, <2>2, <2>3, SliceDataBits DEF TypeOK
<1>5. ASSUME TranslateRejected(c, b) PROVE TypeOK'
  BY <1>5, GiveUpTypes DEF TranslateRejected, TypeOK
<1>6. ASSUME AppendFails(c, b) PROVE TypeOK'
  <2>1. bits' \in [Contexts -> SUBSET Blocks]
    BY <1>6 DEF AppendFails, TypeOK, Blocks
  <2>2. /\ genSize' \in [Contexts -> Nat] /\ genMax' \in [Contexts -> Nat]
        /\ genRoom' \in [Contexts -> Nat]
    BY <1>6, RoomTypes DEF AppendFails, TypeOK
  <2> QED
    BY <1>6, <2>1, <2>2, GiveUpTypes DEF AppendFails, TypeOK
<1>7. ASSUME TranslateCrashes(c, b) PROVE TypeOK'
  BY <1>7, CrashTypes DEF TranslateCrashes
<1>8. ASSUME HeaderOverlong(c, b) \/ GenerateOverruns(c, b) PROVE TypeOK'
  BY <1>8, CrashTypes DEF HeaderOverlong, GenerateOverruns
<1>9. ASSUME GenerateFails(c, b) PROVE TypeOK'
  <2>0. genSize \in [Contexts -> Nat] /\ genMax \in [Contexts -> Nat]
    BY DEF TypeOK
  <2>1. \/ genMax' = [genMax EXCEPT ![c] = @ + 1] /\ genSize' = genSize
        \/ genSize' = [genSize EXCEPT ![c] = 1] /\ genMax' = genMax
    BY <1>9 DEF GenerateFails
  <2>2. genSize' \in [Contexts -> Nat] /\ genMax' \in [Contexts -> Nat]
    BY <2>0, <2>1
  <2> QED
    BY <1>9, <2>2, GiveUpTypes DEF GenerateFails, TypeOK
<1> QED
  BY <1>1, <1>2, <1>3, <1>4, <1>5, <1>6, <1>7, <1>8, <1>9

(* Initial types.                                                          *)
LEMMA TypeInit == Init => TypeOK
BY EmptySeq DEF Init, TypeOK, NoJob

(* Every step keeps the types.                                             *)
LEMMA TypeNext == TypeOK /\ [Next]_vars => TypeOK'
<1> SUFFICES ASSUME TypeOK, [Next]_vars PROVE TypeOK'
  OBVIOUS
<1>1. CASE Next
  BY <1>1, ObjectTypes, SessionTypes, RenderTypes, TranslateTypes DEF Next
<1>2. CASE UNCHANGED vars
  BY <1>2 DEF TypeOK, vars, sessionVars, pictureVars, bufferVars, surfaceVars
<1> QED
  BY <1>1, <1>2

(***************************************************************************)
(* Every variable keeps its type, whatever the application does.           *)
(***************************************************************************)
THEOREM TypeCorrect == Spec => []TypeOK
BY TypeInit, TypeNext, PTL DEF Spec

-----------------------------------------------------------------------------
(***************************************************************************)
(* The decoder of a picture.                                               *)
(***************************************************************************)
LEMMA JobNext ==
  ASSUME TypeOK, DecoderHoldsReferences, [Next]_vars
  PROVE  DecoderHoldsReferences'
<1> USE DEF sessionVars, pictureVars, bufferVars, surfaceVars
<1>1. job' = job \/ job' = NoJob \/ \E c \in Contexts : EndPicture(c) /\ DeadIsSound(c)
  <2>1. CASE UNCHANGED vars
    BY <2>1 DEF vars
  <2>2. ASSUME NEW s \in Surfaces, CreateSurface(s) \/ DestroySurface(s) PROVE job' = NoJob
    BY <2>2 DEF CreateSurface, DestroySurface
  <2>3. ASSUME NEW c \in Contexts, NEW b \in Buffers,
               (\E t \in Types : CreateBuffer(c, b, t)) \/ DestroyBuffer(c, b)
        PROVE  job' = NoJob
    BY <2>3 DEF CreateBuffer, DestroyBuffer
  <2>4. ASSUME NEW c \in Contexts, NEW k \in Codecs, NEW T \in SUBSET Surfaces, CreateContext(c, k, T)
        PROVE  job' = NoJob \/ job' = job
    BY <2>4 DEF CreateContext, Crash
  <2>5. ASSUME NEW c \in Contexts, DestroyContext(c) PROVE job' = NoJob \/ job' = job
    BY <2>5 DEF DestroyContext, Crash
  <2>6. ASSUME NEW c \in Contexts, NEW s \in Surfaces, BeginPicture(c, s)
        PROVE  job' = NoJob \/ job' = job
    BY <2>6 DEF BeginPicture, Crash
  <2>7. ASSUME NEW c \in Contexts, NEW list \in Lists, RenderPicture(c, list)
        PROVE  job' = NoJob \/ job' = job
    BY <2>7 DEF RenderPicture, Crash
  <2>8. ASSUME NEW c \in Contexts, NEW b \in Buffers,
               \/ TranslateCopied(c, b) \/ TranslatePicParam(c, b)
               \/ TranslateSliceParam(c, b) \/ TranslateSliceData(c, b)
               \/ TranslateRejected(c, b) \/ AppendFails(c, b) \/ TranslateCrashes(c, b)
               \/ GenerateFails(c, b) \/ HeaderOverlong(c, b) \/ GenerateOverruns(c, b)
        PROVE  job' = job
    BY <2>8 DEF TranslateCopied, TranslatePicParam, TranslateSliceParam, TranslateSliceData,
                TranslateRejected, AppendFails, TranslateCrashes, GenerateFails,
                HeaderOverlong, GenerateOverruns, translateFrame, Crash
  <2>9. ASSUME NEW c \in Contexts, EndPicture(c), ~DeadIsSound(c) PROVE job' = job
    BY <2>9 DEF EndPicture, Crash
  <2> QED
    BY <2>1, <2>2, <2>3, <2>4, <2>5, <2>6, <2>7, <2>8, <2>9 DEF Next
<1>2. CASE job' = job \/ job' = NoJob
  BY <1>2 DEF DecoderHoldsReferences, NoJob
<1>3. ASSUME NEW c \in Contexts, EndPicture(c), DeadIsSound(c) PROVE DecoderHoldsReferences'
  <2> PICK n \in NumRefs(codec[c]) :
             \/ Decode(c, n)
             \/ /\ NeedsDecoder(c, n)
                /\ decoder' = [decoder EXCEPT ![c] = NONE]
                /\ job' = NoJob
    BY <1>3 DEF EndPicture
  <2>1. n \in 0..16
    BY <1>3, ReferencesBounded DEF TypeOK, EndPicture, IsContext
  <2>2. CASE Decode(c, n)
    <3>1. job' = [asked |-> n, capacity |-> decoder'[c]]
      BY <2>2 DEF Decode
    <3>2. decoder \in [Contexts -> (0..16) \cup {NONE}]
      BY DEF TypeOK
    <3>3. n <= decoder'[c]
      <4>1. CASE NeedsDecoder(c, n)
        BY <2>1, <2>2, <3>2, <4>1 DEF Decode
      <4>2. CASE ~NeedsDecoder(c, n)
        BY <2>1, <2>2, <3>2, <4>2 DEF Decode, NeedsDecoder
      <4> QED
        BY <4>1, <4>2
    <3> QED
      BY <3>1, <3>3 DEF DecoderHoldsReferences
  <2> QED
    BY <2>2, <1>2
<1> QED
  BY <1>1, <1>2, <1>3

(***************************************************************************)
(* vaEndPicture never gives VDPAU a picture with a decoder created for     *)
(* fewer references than it asks for, whatever the application does.       *)
(***************************************************************************)
THEOREM DecodersHoldReferences == Spec => []DecoderHoldsReferences
<1>1. Init => DecoderHoldsReferences
  BY DEF Init, DecoderHoldsReferences, NoJob
<1>2. TypeOK /\ DecoderHoldsReferences /\ [Next]_vars => DecoderHoldsReferences'
  BY JobNext
<1> QED
  BY <1>1, <1>2, TypeCorrect, PTL DEF Spec

-----------------------------------------------------------------------------
(***************************************************************************)
(* The account of buffers.                                                 *)
(***************************************************************************)
(* A list without its head.                                                *)
LEMMA TailOfList ==
  ASSUME NEW p \in Seq(Buffers), p # <<>>
  PROVE  /\ Head(p) \in Range(p) /\ Range(Tail(p)) \subseteq Range(p)
         /\ IsInjective(p) => Head(p) \notin Range(Tail(p)) /\ IsInjective(Tail(p))
<1>1. /\ DOMAIN p = 1..Len(p) /\ Len(p) \in Nat \ {0} /\ Head(p) = p[1]
  BY LenProperties, EmptySeq
<1>2. /\ DOMAIN Tail(p) = 1..(Len(p) - 1)
      /\ \A i \in 1..(Len(p) - 1) : Tail(p)[i] = p[i + 1]
  BY <1>1, HeadTailProperties, LenProperties
<1> QED
  BY <1>1, <1>2 DEF Range, IsInjective

(* What is pending is translated from its head.                            *)
LEMMA HeadIsHeld ==
  ASSUME AccountInv, NEW c \in Contexts, pending[c] # <<>>
  PROVE  /\ Head(pending[c]) \in held[c] /\ Head(pending[c]) \in Buffers
         /\ Tail(pending[c]) \in Seq(Buffers) /\ IsOpen(c)
         /\ Range(Tail(pending[c])) \subseteq held[c] \ {Head(pending[c])}
         /\ IsInjective(Tail(pending[c]))
<1>1. pending[c] \in Seq(Buffers)
  BY DEF AccountInv, TypeOK
<1>2. IsOpen(c) /\ Range(pending[c]) \subseteq held[c] /\ IsInjective(pending[c])
  BY DEF AccountInv, PendingIsHeld
<1> QED
  BY <1>1, <1>2, TailOfList, HeadTailProperties

(* The lists of the destroyed and of the other buffers.                    *)
LEMMA DestroyDoes ==
  ASSUME TypeOK, NEW D \in SUBSET Buffers, NEW blocks, NEW slices, NEW pics,
         DestroyBuffers(D, blocks, slices, pics)
  PROVE  /\ \A b \in D : ~IsBuffer(b)' /\ ~delayed'[b]
         /\ \A b \in Buffers : b \notin D =>
              type'[b] = type[b] /\ owner'[b] = owner[b] /\ delayed'[b] = delayed[b]
BY DEF DestroyBuffers, IsBuffer, TypeOK

accountVars == <<codec, target, type, owner, delayed, dead, pending, held>>

(* A step that does not touch the account.                                 *)
LEMMA AccountFrame ==
  ASSUME AccountInv, TypeOK', UNCHANGED accountVars
  PROVE  AccountInv'
BY DEF AccountInv, HeldExist, DeadWait, NoneIsLost, PendingIsHeld, IsBuffer, IsOpen,
       IsContext, accountVars

(* vaCreateBuffer, vaDestroyBuffer.                                        *)
LEMMA CreateAccounts ==
  ASSUME AccountInv, TypeOK', NEW c \in Contexts, NEW b \in Buffers, NEW t \in Types,
         CreateBuffer(c, b, t)
  PROVE  AccountInv'
<1>1. /\ ~IsBuffer(b) /\ t # NONE
      /\ UNCHANGED <<codec, target, dead, pending>>
  BY Constants DEF CreateBuffer, sessionVars
<1>2. /\ type'[b] = t /\ owner'[b] = c /\ delayed'[b] = FALSE
      /\ \A a \in Buffers : a # b =>
           type'[a] = type[a] /\ owner'[a] = owner[a] /\ delayed'[a] = delayed[a]
      /\ held'[c] = held[c] \cup {b}
      /\ \A o \in Contexts : o # c => held'[o] = held[o]
  BY DEF CreateBuffer, AccountInv, TypeOK
<1>3. \A o \in Contexts : b \notin held[o] /\ ~(dead[o][b] > 0)
  BY <1>1 DEF AccountInv, HeldExist, DeadWait
<1>4. HeldExist'
  BY <1>1, <1>2, <1>3 DEF AccountInv, HeldExist, IsBuffer
<1>5. DeadWait'
  BY <1>1, <1>2, <1>3 DEF AccountInv, DeadWait, IsBuffer, IsOpen, IsContext
<1>6. NoneIsLost'
  BY <1>1, <1>2 DEF AccountInv, NoneIsLost, IsBuffer
<1>7. PendingIsHeld'
  BY <1>1, <1>2 DEF AccountInv, PendingIsHeld, IsOpen, IsContext
<1> QED
  BY <1>4, <1>5, <1>6, <1>7 DEF AccountInv

(* vaDestroyBuffer, also of a buffer that waits already.                   *)
LEMMA DestroyAccounts ==
  ASSUME AccountInv, TypeOK', Promised("held"), NEW c \in Contexts, NEW b \in Buffers,
         DestroyBuffer(c, b)
  PROVE  AccountInv'
<1>1. /\ pending[c] = <<>> /\ UNCHANGED <<codec, target, dead, pending>>
      /\ b \in held[c] \/ (IsBuffer(b) /\ owner[b] = c /\ delayed[b])
  BY DEF DestroyBuffer, sessionVars, Idle
<1>2. /\ held'[c] = held[c] \ {b}
      /\ \A o \in Contexts : o # c => held'[o] = held[o]
  BY DEF DestroyBuffer, AccountInv, TypeOK
<1>3. CASE b \in held[c]
  <2>1. IsBuffer(b) /\ owner[b] = c /\ ~delayed[b]
    BY <1>3 DEF AccountInv, HeldExist
  <2>2. DestroyBuffers({b}, bits, sliceParams, picParam)
    BY <2>1 DEF DestroyBuffer, IsDestroyable
  <2>3. /\ ~IsBuffer(b)'
        /\ \A a \in Buffers : a # b =>
             type'[a] = type[a] /\ owner'[a] = owner[a] /\ delayed'[a] = delayed[a]
    BY <2>2, DestroyDoes DEF AccountInv
  <2>4. \A o \in Contexts : (o # c => b \notin held[o]) /\ ~(dead[o][b] > 0)
    BY <2>1 DEF AccountInv, HeldExist, DeadWait
  <2>5. HeldExist'
    BY <1>2, <2>3, <2>4 DEF AccountInv, HeldExist, IsBuffer
  <2>6. DeadWait'
    BY <1>1, <2>3, <2>4 DEF AccountInv, DeadWait, IsBuffer, IsOpen, IsContext
  <2>7. NoneIsLost'
    BY <1>1, <1>2, <2>3 DEF AccountInv, NoneIsLost, IsBuffer
  <2>8. PendingIsHeld'
    BY <1>1, <1>2 DEF AccountInv, PendingIsHeld, IsOpen, IsContext
  <2> QED
    BY <2>5, <2>6, <2>7, <2>8 DEF AccountInv
<1>4. CASE b \notin held[c]
  <2>1. ~IsDestroyable(b)
    BY <1>1, <1>4 DEF IsDestroyable
  <2>2. UNCHANGED <<type, owner, delayed>>
    BY <2>1 DEF DestroyBuffer, bufferVars
  <2>3. held' = held
    BY <1>4 DEF DestroyBuffer, AccountInv, TypeOK
  <2> QED
    BY <1>1, <2>2, <2>3, AccountFrame DEF accountVars
<1> QED
  BY <1>3, <1>4

(***************************************************************************)
(* vaDestroyContext, vaBeginPicture and vaEndPicture destroy the buffers   *)
(* that wait on the list of their context.                                 *)
(***************************************************************************)
LEMMA DeadAreSound ==
  ASSUME AccountInv, NEW c \in Contexts
  PROVE  DeadIsSound(c)
BY DEF AccountInv, DeadWait, DeadIsSound, Dead

(* destroy_dead_va_buffers frees what waits, and clears the list.          *)
LEMMA SweepAccounts ==
  ASSUME AccountInv, TypeOK', NEW c \in Contexts, Idle(c),
         NEW blocks, NEW slices, NEW pics,
         DestroyBuffers(Dead(c), blocks, slices, pics), ClearDead(c),
         UNCHANGED <<pending, held>>,
         \A o \in Contexts : o # c => codec'[o] = codec[o] /\ target'[o] = target[o]
  PROVE  AccountInv'
<1>1. Dead(c) \in SUBSET Buffers
  BY DEF Dead
<1>2. /\ \A b \in Dead(c) : ~IsBuffer(b)' /\ ~delayed'[b]
      /\ \A b \in Buffers : b \notin Dead(c) =>
           type'[b] = type[b] /\ owner'[b] = owner[b] /\ delayed'[b] = delayed[b]
  BY <1>1, DestroyDoes DEF AccountInv
<1>3. /\ \A b \in Buffers : dead'[c][b] = 0
      /\ \A o \in Contexts : o # c => dead'[o] = dead[o]
  BY DEF ClearDead, AccountInv, TypeOK
<1>4. \A b \in Dead(c) : /\ \A o \in Contexts : b \notin held[o]
                        /\ \A o \in Contexts : o # c => ~(dead[o][b] > 0)
  BY DEF Dead, AccountInv, DeadWait, HeldExist
<1>5. HeldExist'
  BY <1>2, <1>4 DEF AccountInv, HeldExist, IsBuffer
<1>6. DeadWait'
  BY <1>2, <1>3, <1>4 DEF AccountInv, DeadWait, IsBuffer, IsOpen, IsContext
<1>7. NoneIsLost'
  <2> SUFFICES ASSUME NEW b \in Buffers, IsBuffer(b)'
               PROVE  /\ owner'[b] \in Contexts
                      /\ IF delayed'[b] THEN dead'[owner'[b]][b] = 1 ELSE b \in held'[owner'[b]]
    BY DEF NoneIsLost
  <2>1. b \notin Dead(c)
    BY <1>2
  <2>2. IsBuffer(b) /\ owner'[b] = owner[b] /\ delayed'[b] = delayed[b]
    BY <1>2, <2>1 DEF IsBuffer
  <2>3. delayed[b] => owner[b] # c
    BY <2>1, <2>2 DEF Dead, AccountInv, NoneIsLost
  <2> QED
    BY <1>3, <2>2, <2>3 DEF AccountInv, NoneIsLost
<1>8. PendingIsHeld'
  BY DEF AccountInv, PendingIsHeld, IsOpen, IsContext, Idle
<1> QED
  BY <1>5, <1>6, <1>7, <1>8 DEF AccountInv

(* The calls that walk over dead_buffers.                                  *)
LEMMA SessionAccounts ==
  ASSUME AccountInv, TypeOK', NEW c \in Contexts
  PROVE  /\ DestroyContext(c) => AccountInv'
         /\ \A s \in Surfaces : BeginPicture(c, s) => AccountInv'
         /\ EndPicture(c) => AccountInv'
<1>1. ASSUME DestroyContext(c) PROVE AccountInv'
  <2>1. /\ Idle(c) /\ ClearDead(c) /\ UNCHANGED <<pending, held>>
        /\ DestroyBuffers(Dead(c), [bits EXCEPT ![c] = {}], sliceParams, picParam)
    BY <1>1, DeadAreSound DEF DestroyContext
  <2>2. codec' = [codec EXCEPT ![c] = NONE] /\ target' = [target EXCEPT ![c] = NONE]
    BY <1>1, DeadAreSound DEF DestroyContext
  <2> QED
    BY <2>1, <2>2, SweepAccounts DEF AccountInv, TypeOK
<1>2. ASSUME NEW s \in Surfaces, BeginPicture(c, s) PROVE AccountInv'
  <2>1. /\ Idle(c) /\ ClearDead(c) /\ UNCHANGED <<codec, pending, held>>
        /\ DestroyBuffers(Dead(c), [bits EXCEPT ![c] = {}], FreshParams(c),
                          [picParam EXCEPT ![c] = NONE])
    BY <1>2, DeadAreSound DEF BeginPicture
  <2>2. target' = [target EXCEPT ![c] = s]
    BY <1>2, DeadAreSound DEF BeginPicture
  <2> QED
    BY <2>1, <2>2, SweepAccounts DEF AccountInv, TypeOK
<1>3. ASSUME EndPicture(c) PROVE AccountInv'
  <2>1. /\ Idle(c) /\ ClearDead(c) /\ UNCHANGED <<codec, pending, held>>
        /\ DestroyBuffers(Dead(c), bits, sliceParams, picParam)
    BY <1>3, DeadAreSound DEF EndPicture
  <2>2. target' = [target EXCEPT ![c] = NONE]
    BY <1>3, DeadAreSound DEF EndPicture
  <2> QED
    BY <2>1, <2>2, SweepAccounts DEF AccountInv, TypeOK
<1> QED
  BY <1>1, <1>2, <1>3

(* vaCreateContext: no buffer waits for a context that does not exist.     *)
LEMMA ContextAccounts ==
  ASSUME AccountInv, TypeOK', NEW c \in Contexts, NEW k \in Codecs, NEW T \in SUBSET Surfaces,
         CreateContext(c, k, T)
  PROVE  AccountInv'
<1>1. CASE \A s \in T : MayAssociate(s)
  <2>1. /\ codec' = [codec EXCEPT ![c] = k] /\ target' = [target EXCEPT ![c] = NONE]
        /\ dead' = [dead EXCEPT ![c] = [b \in Buffers |-> 0]]
        /\ UNCHANGED <<type, owner, delayed, pending, held>>
        /\ pending[c] = <<>> /\ ~IsContext(c)
    BY <1>1 DEF CreateContext, bufferVars, Idle
  <2>2. \A o \in Contexts : o # c => codec'[o] = codec[o] /\ target'[o] = target[o]
    BY <2>1 DEF AccountInv, TypeOK
  <2>3. dead' = dead
    <3>1. dead \in [Contexts -> [Buffers -> Nat]]
      BY DEF AccountInv, TypeOK
    <3>2. \A b \in Buffers : ~(dead[c][b] > 0)
      BY <2>1 DEF AccountInv, DeadWait, IsOpen
    <3>3. dead[c] = [b \in Buffers |-> 0]
      BY <3>1, <3>2
    <3> QED
      BY <2>1, <3>1, <3>3
  <2>4. DeadWait'
    BY <2>1, <2>2, <2>3 DEF AccountInv, DeadWait, IsBuffer, IsOpen, IsContext
  <2>5. PendingIsHeld'
    BY <2>1, <2>2 DEF AccountInv, PendingIsHeld, IsOpen, IsContext
  <2>6. HeldExist' /\ NoneIsLost'
    BY <2>1, <2>3 DEF AccountInv, HeldExist, NoneIsLost, IsBuffer
  <2> QED
    BY <2>4, <2>5, <2>6 DEF AccountInv
<1>2. CASE ~\A s \in T : MayAssociate(s)
  BY <1>2, AccountFrame DEF CreateContext, Crash, accountVars, sessionVars, bufferVars
<1> QED
  BY <1>1, <1>2

(* vaRenderPicture accepts buffers of its thread.                          *)
LEMMA RenderAccounts ==
  ASSUME AccountInv, TypeOK', Promised("held"), NEW c \in Contexts, NEW list \in Lists,
         RenderPicture(c, list)
  PROVE  AccountInv'
<1>1. CASE \A b \in Range(list) : IsBuffer(b)
  <2>1. /\ pending' = [pending EXCEPT ![c] = list]
        /\ UNCHANGED <<codec, target, type, owner, delayed, dead, held>>
        /\ IsContext(c) /\ IsSurface(target[c])
        /\ Range(list) \subseteq held[c] /\ IsInjective(list)
    BY <1>1 DEF RenderPicture, sessionVars, bufferVars
  <2>2. PendingIsHeld'
    <3>1. pending \in [Contexts -> Seq(Buffers)]
      BY DEF AccountInv, TypeOK
    <3>2. pending'[c] = list /\ \A o \in Contexts : o # c => pending'[o] = pending[o]
      BY <2>1, <3>1
    <3>3. IsOpen(c)
      BY <2>1 DEF IsOpen, IsSurface
    <3>4. ASSUME NEW o \in Contexts, pending'[o] # <<>>
          PROVE  IsOpen(o) /\ Range(pending'[o]) \subseteq held[o] /\ IsInjective(pending'[o])
      BY <2>1, <3>2, <3>3, <3>4 DEF AccountInv, PendingIsHeld
    <3> QED
      BY <2>1, <3>4 DEF PendingIsHeld, IsOpen, IsContext
  <2>3. HeldExist' /\ DeadWait' /\ NoneIsLost'
    BY <2>1 DEF AccountInv, HeldExist, DeadWait, NoneIsLost, IsBuffer, IsOpen, IsContext
  <2> QED
    BY <2>2, <2>3 DEF AccountInv
<1>2. CASE ~\A b \in Range(list) : IsBuffer(b)
  BY <1>2, AccountFrame DEF RenderPicture, Crash, accountVars, sessionVars, bufferVars
<1> QED
  BY <1>1, <1>2

(* A pending buffer that is destroyed, or put on the list of its context.  *)
LEMMA ConsumeDoes ==
  ASSUME AccountInv, NEW c \in Contexts, NEW b \in Buffers,
         pending[c] # <<>>, b = Head(pending[c]), Consume(c, b)
  PROVE  /\ b \in held[c] /\ IsOpen(c)
         /\ held'[c] = held[c] \ {b} /\ pending'[c] = Tail(pending[c])
         /\ \A o \in Contexts : o # c => held'[o] = held[o] /\ pending'[o] = pending[o]
         /\ UNCHANGED <<codec, target>> => PendingIsHeld'
<1>1. /\ held'[c] = held[c] \ {b} /\ pending'[c] = Tail(pending[c])
      /\ \A o \in Contexts : o # c => held'[o] = held[o] /\ pending'[o] = pending[o]
  BY DEF Consume, AccountInv, TypeOK
<1>2. b \in held[c] /\ IsOpen(c)
  BY HeadIsHeld
<1>3. ASSUME UNCHANGED <<codec, target>>, NEW o \in Contexts, pending'[o] # <<>>
      PROVE  IsOpen(o) /\ Range(pending'[o]) \subseteq held'[o] /\ IsInjective(pending'[o])
  <2>1. CASE o = c
    BY <1>1, <2>1, HeadIsHeld
  <2>2. CASE o # c
    BY <1>1, <1>3, <2>2 DEF AccountInv, PendingIsHeld
  <2> QED
    BY <2>1, <2>2
<1> QED
  BY <1>1, <1>2, <1>3 DEF PendingIsHeld, IsOpen, IsContext

(* A buffer that is copied is destroyed at once.                           *)
LEMMA CopyAccounts ==
  ASSUME AccountInv, TypeOK', NEW c \in Contexts, NEW b \in Buffers, TranslateCopied(c, b)
  PROVE  AccountInv'
<1>1. /\ pending[c] # <<>> /\ b = Head(pending[c]) /\ Consume(c, b)
      /\ DestroyBuffers({b}, bits, sliceParams, picParam)
      /\ UNCHANGED <<codec, target, dead>>
  BY DEF TranslateCopied, Translates, translateFrame, sessionVars
<1>2. /\ b \in held[c] /\ PendingIsHeld' /\ held'[c] = held[c] \ {b}
      /\ \A o \in Contexts : o # c => held'[o] = held[o]
  BY <1>1, ConsumeDoes
<1>3. /\ ~IsBuffer(b)'
      /\ \A a \in Buffers : a # b =>
           type'[a] = type[a] /\ owner'[a] = owner[a] /\ delayed'[a] = delayed[a]
  <2>1. {b} \in SUBSET Buffers /\ TypeOK
    BY DEF AccountInv
  <2>2. \A a \in {b} : ~IsBuffer(a)'
    BY <1>1, <2>1, DestroyDoes
  <2> QED
    BY <1>1, <2>1, <2>2, DestroyDoes
<1>4. /\ IsBuffer(b) /\ owner[b] = c /\ ~delayed[b]
      /\ \A o \in Contexts : (o # c => b \notin held[o]) /\ ~(dead[o][b] > 0)
  BY <1>2 DEF AccountInv, HeldExist, DeadWait
<1>5. HeldExist'
  BY <1>2, <1>3, <1>4 DEF AccountInv, HeldExist, IsBuffer
<1>6. DeadWait'
  BY <1>1, <1>3, <1>4 DEF AccountInv, DeadWait, IsBuffer, IsOpen, IsContext
<1>7. NoneIsLost'
  BY <1>1, <1>2, <1>3 DEF AccountInv, NoneIsLost, IsBuffer
<1> QED
  BY <1>2, <1>5, <1>6, <1>7 DEF AccountInv

(* schedule_destroy_va_buffer of a buffer that is rendered by its owner.   *)
LEMMA RetainDoes ==
  ASSUME AccountInv, NEW c \in Contexts, NEW b \in Buffers,
         pending[c] # <<>>, b = Head(pending[c]), Retain(c, b)
  PROVE  /\ b \in held[c] /\ IsOpen(c) /\ IsBuffer(b) /\ owner[b] = c /\ ~delayed[b]
         /\ UNCHANGED <<type, owner>>
         /\ delayed'[b] = TRUE
         /\ \A a \in Buffers : a # b => delayed'[a] = delayed[a]
         /\ dead[c][b] = 0 /\ dead'[c][b] = 1
         /\ \A a \in Buffers : a # b => dead'[c][a] = dead[c][a]
         /\ \A o \in Contexts : o # c => dead'[o] = dead[o]
<1>1. Consume(c, b) /\ Schedule(b) /\ UNCHANGED <<type, owner>>
  BY DEF Retain
<1>2. b \in held[c] /\ IsOpen(c)
  BY <1>1, ConsumeDoes
<1>3. IsBuffer(b) /\ owner[b] = c /\ ~delayed[b]
  BY <1>2 DEF AccountInv, HeldExist
<1>4. /\ dead' = [dead EXCEPT ![c][b] = @ + 1] /\ delayed' = [delayed EXCEPT ![b] = TRUE]
  BY <1>1, <1>2, <1>3, Constants DEF Schedule, IsOpen
<1>5. dead \in [Contexts -> [Buffers -> Nat]] /\ delayed \in [Buffers -> BOOLEAN]
  BY DEF AccountInv, TypeOK
<1>6. dead[c][b] = 0
  <2>1. dead[c][b] \in Nat /\ ~(dead[c][b] > 0)
    BY <1>3, <1>5 DEF AccountInv, DeadWait
  <2> QED
    BY <2>1
<1>7. dead'[c] = [dead[c] EXCEPT ![b] = @ + 1] /\ \A o \in Contexts : o # c => dead'[o] = dead[o]
  BY <1>4, <1>5
<1>8. dead'[c][b] = 1 /\ \A a \in Buffers : a # b => dead'[c][a] = dead[c][a]
  BY <1>5, <1>6, <1>7
<1> QED
  BY <1>1, <1>2, <1>3, <1>4, <1>5, <1>6, <1>7, <1>8

(* A buffer that is kept moves from its holder to dead_buffers.            *)
LEMMA RetainAccounts ==
  ASSUME AccountInv, TypeOK', NEW c \in Contexts, NEW b \in Buffers,
         pending[c] # <<>>, b = Head(pending[c]), Retain(c, b), UNCHANGED <<codec, target>>
  PROVE  AccountInv'
<1>1. /\ b \in held[c] /\ IsOpen(c) /\ IsBuffer(b) /\ owner[b] = c /\ ~delayed[b]
      /\ UNCHANGED <<type, owner>>
      /\ delayed'[b] = TRUE
      /\ \A a \in Buffers : a # b => delayed'[a] = delayed[a]
      /\ dead'[c][b] = 1 /\ \A a \in Buffers : a # b => dead'[c][a] = dead[c][a]
      /\ \A o \in Contexts : o # c => dead'[o] = dead[o]
  BY RetainDoes
<1>2. /\ PendingIsHeld' /\ held'[c] = held[c] \ {b}
      /\ \A o \in Contexts : o # c => held'[o] = held[o]
  BY ConsumeDoes DEF Retain
<1>3. HeldExist'
  BY <1>1, <1>2 DEF AccountInv, HeldExist, IsBuffer
<1>4. DeadWait'
  BY <1>1 DEF AccountInv, DeadWait, IsBuffer, IsOpen, IsContext
<1>5. NoneIsLost'
  BY <1>1, <1>2 DEF AccountInv, NoneIsLost, IsBuffer
<1> QED
  BY <1>2, <1>3, <1>4, <1>5 DEF AccountInv

(* The rest of a list that is given up remains with the thread.            *)
LEMMA GiveUpAccounts ==
  ASSUME AccountInv, TypeOK', NEW c \in Contexts, GiveUp(c),
         UNCHANGED <<codec, target, type, owner, delayed, dead, held>>
  PROVE  AccountInv'
<1>1. pending'[c] = <<>> /\ \A o \in Contexts : o # c => pending'[o] = pending[o]
  BY DEF GiveUp, AccountInv, TypeOK
<1>2. PendingIsHeld'
  BY <1>1 DEF AccountInv, PendingIsHeld, IsOpen, IsContext
<1> QED
  BY <1>2 DEF AccountInv, HeldExist, DeadWait, NoneIsLost, IsBuffer, IsOpen, IsContext

(* Each kind of buffer keeps the account.                                  *)
LEMMA TranslateAccounts ==
  ASSUME AccountInv, TypeOK', NEW c \in Contexts, NEW b \in Buffers
  PROVE  /\ TranslateCopied(c, b) => AccountInv'
         /\ TranslatePicParam(c, b) => AccountInv'
         /\ TranslateSliceParam(c, b) => AccountInv'
         /\ TranslateSliceData(c, b) => AccountInv'
         /\ TranslateRejected(c, b) => AccountInv'
         /\ GenerateFails(c, b) => AccountInv'
         /\ AppendFails(c, b) => AccountInv'
         /\ TranslateCrashes(c, b) => AccountInv'
         /\ HeaderOverlong(c, b) \/ GenerateOverruns(c, b) => AccountInv'
<1> USE DEF translateFrame, sessionVars, bufferVars
<1>1. TranslateCopied(c, b) => AccountInv'
  BY CopyAccounts
<1>2. TranslatePicParam(c, b) => AccountInv'
  BY RetainAccounts DEF TranslatePicParam, Translates
<1>3. TranslateSliceParam(c, b) => AccountInv'
  BY RetainAccounts DEF TranslateSliceParam, Translates
<1>4. TranslateSliceData(c, b) => AccountInv'
  BY RetainAccounts DEF TranslateSliceData, Translates
<1>5. TranslateRejected(c, b) => AccountInv'
  BY GiveUpAccounts DEF TranslateRejected
<1>6. AppendFails(c, b) => AccountInv'
  BY GiveUpAccounts DEF AppendFails
<1>7. TranslateCrashes(c, b) => AccountInv'
  BY AccountFrame DEF TranslateCrashes, Crash, accountVars
<1>8. HeaderOverlong(c, b) \/ GenerateOverruns(c, b) => AccountInv'
  BY AccountFrame DEF HeaderOverlong, GenerateOverruns, Crash, accountVars
<1>9. GenerateFails(c, b) => AccountInv'
  BY GiveUpAccounts DEF GenerateFails
<1> QED
  BY <1>1, <1>2, <1>3, <1>4, <1>5, <1>6, <1>7, <1>8, <1>9

(* There are no buffers at first.                                          *)
LEMMA AccountInit == Init => AccountInv
<1> SUFFICES ASSUME Init PROVE AccountInv
  OBVIOUS
<1>1. TypeOK
  BY TypeInit
<1>2. HeldExist /\ DeadWait /\ NoneIsLost /\ PendingIsHeld
  BY DEF Init, HeldExist, DeadWait, NoneIsLost, PendingIsHeld, IsBuffer
<1> QED
  BY <1>1, <1>2 DEF AccountInv

(* Every step keeps the account.                                           *)
LEMMA AccountNext ==
  ASSUME Promised("held"), AccountInv, [Next]_vars
  PROVE  AccountInv'
<1>0. TypeOK'
  BY TypeNext DEF AccountInv
<1>1. CASE UNCHANGED vars
  BY <1>0, <1>1, AccountFrame DEF vars, accountVars, sessionVars, bufferVars
<1>2. ASSUME NEW s \in Surfaces, CreateSurface(s) \/ DestroySurface(s) PROVE AccountInv'
  BY <1>0, <1>2, AccountFrame
     DEF CreateSurface, DestroySurface, accountVars, sessionVars, bufferVars
<1>3. ASSUME NEW c \in Contexts, NEW b \in Buffers,
             (\E t \in Types : CreateBuffer(c, b, t)) \/ DestroyBuffer(c, b)
      PROVE  AccountInv'
  BY <1>0, <1>3, CreateAccounts, DestroyAccounts
<1>4. ASSUME NEW c \in Contexts,
             \/ \E k \in Codecs, T \in SUBSET Surfaces : CreateContext(c, k, T)
             \/ DestroyContext(c) \/ EndPicture(c)
             \/ \E s \in Surfaces : BeginPicture(c, s)
      PROVE  AccountInv'
  BY <1>0, <1>4, ContextAccounts, SessionAccounts
<1>5. ASSUME NEW c \in Contexts, NEW list \in Lists, RenderPicture(c, list) PROVE AccountInv'
  BY <1>0, <1>5, RenderAccounts
<1> QED
  BY <1>0, <1>1, <1>2, <1>3, <1>4, <1>5, TranslateAccounts DEF Next

(* The account is what the property says.                                  *)
LEMMA AccountImplies == AccountInv => BuffersAccountedFor
<1> SUFFICES ASSUME AccountInv, NEW b \in Buffers
             PROVE  LET holders == {c \in Contexts : b \in held[c]}
                        waiting == {c \in Contexts : dead[c][b] > 0}
                    IN IF ~IsBuffer(b) THEN holders = {} /\ waiting = {}
                       ELSE IF delayed[b]
                       THEN /\ holders = {} /\ waiting = {owner[b]}
                            /\ dead[owner[b]][b] = 1 /\ IsOpen(owner[b])
                       ELSE holders = {owner[b]} /\ waiting = {}
  BY DEF BuffersAccountedFor, AccountInv
<1> DEFINE holders == {c \in Contexts : b \in held[c]}
           waiting == {c \in Contexts : dead[c][b] > 0}
<1>1. /\ \A c \in holders : IsBuffer(b) /\ owner[b] = c /\ ~delayed[b]
      /\ \A c \in waiting : /\ IsBuffer(b) /\ owner[b] = c /\ delayed[b]
                            /\ dead[c][b] = 1 /\ IsOpen(c)
  BY DEF AccountInv, HeldExist, DeadWait
<1>2. CASE ~IsBuffer(b)
  BY <1>1, <1>2
<1>3. CASE IsBuffer(b) /\ delayed[b]
  <2>1. owner[b] \in waiting
    BY <1>3 DEF AccountInv, NoneIsLost
  <2> QED
    BY <1>1, <1>3, <2>1
<1>4. CASE IsBuffer(b) /\ ~delayed[b]
  <2>1. owner[b] \in holders
    BY <1>4 DEF AccountInv, NoneIsLost
  <2> QED
    BY <1>1, <1>4, <2>1
<1> QED
  BY <1>2, <1>3, <1>4

(***************************************************************************)
(* The inductive invariant of buffers, if applications render their own    *)
(* buffers and each of them once.                                          *)
(***************************************************************************)
THEOREM AccountInvariant ==
  ASSUME Promised("held")
  PROVE  Spec => []AccountInv
<1>1. AccountInv /\ [Next]_vars => AccountInv'
  BY AccountNext
<1> QED
  BY <1>1, AccountInit, PTL DEF Spec

(***************************************************************************)
(* No buffer is leaked, destroyed twice or taken from the thread that      *)
(* holds it, and none waits for a picture that is not open, if             *)
(* applications render their own buffers and each of them once.            *)
(***************************************************************************)
THEOREM BuffersAreAccountedFor ==
  ASSUME Promised("held")
  PROVE  Spec => []BuffersAccountedFor
BY AccountInvariant, AccountImplies, PTL

-----------------------------------------------------------------------------
(***************************************************************************)
(* What a step does to the open picture of a context o: nothing but turn   *)
(* pointers to buffers that are not kept for o into dangling ones, begin   *)
(* it afresh, close it, translate one of its buffers, or lose its slices.  *)
(***************************************************************************)
Untouched(o) ==
  /\ codec'[o] = codec[o] /\ target'[o] = target[o] /\ sent'[o] = sent[o]
  /\ \A b \in Buffers : Kept(o, b) => Kept(o, b)'
  /\ \E D \in SUBSET Buffers :
       /\ \A b \in D : ~Kept(o, b)
       /\ bits'[o] = Pointers(bits[o], D)
       /\ sliceParams'[o] = Pointer(sliceParams[o], D)
       /\ picParam'[o] = Pointer(picParam[o], D)
Fresh(o) ==
  /\ bits'[o] = {} /\ sliceParams'[o] = NONE /\ picParam'[o] = NONE
  /\ sent'[o] = {} /\ pending'[o] = <<>>
IsClosed(o) == codec'[o] = NONE \/ target'[o] = NONE
TranslatesOne(o) ==
  \E b \in Buffers :
    TranslatePicParam(o, b) \/ TranslateSliceParam(o, b) \/ TranslateSliceData(o, b)
LosesSlices(o) == \E b \in Buffers : AppendFails(o, b)

(* A step that leaves the context's fields and buffers alone.              *)
LEMMA SameIsUntouched ==
  ASSUME NEW o \in Contexts,
         codec'[o] = codec[o], target'[o] = target[o], sent'[o] = sent[o],
         bits'[o] = bits[o], sliceParams'[o] = sliceParams[o], picParam'[o] = picParam[o],
         \A b \in Buffers : Kept(o, b) => Kept(o, b)'
  PROVE  Untouched(o)
<1>1. /\ {} \in SUBSET Buffers /\ bits'[o] = Pointers(bits[o], {})
      /\ sliceParams'[o] = Pointer(sliceParams[o], {})
      /\ picParam'[o] = Pointer(picParam[o], {})
  BY DEF Pointers, Pointer
<1> QED
  BY <1>1 DEF Untouched

(* Buffers destroyed for others are not kept for o.                        *)
LEMMA DestroyKeeps ==
  ASSUME AccountInv, NEW o \in Contexts, NEW D \in SUBSET Buffers,
         NEW blocks, NEW slices, NEW pics, DestroyBuffers(D, blocks, slices, pics),
         \A b \in D : ~Kept(o, b),
         blocks[o] = bits[o], slices[o] = sliceParams[o], pics[o] = picParam[o],
         codec'[o] = codec[o], target'[o] = target[o], sent'[o] = sent[o]
  PROVE  Untouched(o)
<1>1. \A b \in Buffers : b \notin D =>
        type'[b] = type[b] /\ owner'[b] = owner[b] /\ delayed'[b] = delayed[b]
  BY DestroyDoes DEF AccountInv
<1>2. \A b \in Buffers : Kept(o, b) => Kept(o, b)'
  BY <1>1 DEF Kept, IsBuffer
<1>3. /\ bits'[o] = Pointers(bits[o], D)
      /\ sliceParams'[o] = Pointer(sliceParams[o], D)
      /\ picParam'[o] = Pointer(picParam[o], D)
  BY DEF DestroyBuffers
<1> QED
  BY <1>2, <1>3 DEF Untouched

(* The buffers on the list of another context are not kept for o.          *)
LEMMA DeadAreNotKept ==
  ASSUME AccountInv, NEW c \in Contexts, NEW o \in Contexts, o # c
  PROVE  Dead(c) \in SUBSET Buffers /\ \A b \in Dead(c) : ~Kept(o, b)
BY DEF Dead, AccountInv, DeadWait, Kept

(* A buffer that is scheduled for destruction is kept from then on.        *)
LEMMA RetainKeeps ==
  ASSUME AccountInv, NEW c \in Contexts, NEW b \in Buffers,
         pending[c] # <<>>, b = Head(pending[c]), Retain(c, b)
  PROVE  /\ Kept(c, b)' /\ IsOpen(c)
         /\ \A o \in Contexts, a \in Buffers : Kept(o, a) => Kept(o, a)'
<1>1. /\ IsOpen(c) /\ IsBuffer(b) /\ owner[b] = c
      /\ UNCHANGED <<type, owner>> /\ delayed'[b] = TRUE
      /\ \A a \in Buffers : a # b => delayed'[a] = delayed[a]
  BY RetainDoes
<1> QED
  BY <1>1 DEF Kept, IsBuffer

(* Calls of another thread leave a context as it is.                       *)
LEMMA SessionTouches ==
  ASSUME AccountInv, NEW o \in Contexts, NEW c \in Contexts
  PROVE  /\ DestroyContext(c) => Untouched(o) \/ IsClosed(o)
         /\ \A s \in Surfaces : BeginPicture(c, s) => Untouched(o) \/ Fresh(o)
         /\ EndPicture(c) => Untouched(o) \/ IsClosed(o)
<1>0. /\ codec \in [Contexts -> Codecs \cup {NONE}]
      /\ target \in [Contexts -> Surfaces \cup {NONE}]
      /\ bits \in [Contexts -> SUBSET Blocks] /\ sent \in [Contexts -> SUBSET Buffers]
      /\ sliceParams \in [Contexts -> Buffers \cup {FREED, NONE}]
      /\ picParam \in [Contexts -> Buffers \cup {FREED, NONE}]
  BY DEF AccountInv, TypeOK
<1>1. ASSUME DestroyContext(c) PROVE Untouched(o) \/ IsClosed(o)
  <2>1. /\ codec' = [codec EXCEPT ![c] = NONE] /\ target' = [target EXCEPT ![c] = NONE]
        /\ sent' = [sent EXCEPT ![c] = {}]
        /\ DestroyBuffers(Dead(c), [bits EXCEPT ![c] = {}], sliceParams, picParam)
    BY <1>1, DeadAreSound DEF DestroyContext
  <2>2. CASE o = c
    BY <1>0, <2>1, <2>2 DEF IsClosed
  <2>3. CASE o # c
    <3>1. /\ codec'[o] = codec[o] /\ target'[o] = target[o] /\ sent'[o] = sent[o]
          /\ [bits EXCEPT ![c] = {}][o] = bits[o]
      BY <1>0, <2>1, <2>3
    <3> QED
      BY <2>1, <2>3, <3>1, DeadAreNotKept, DestroyKeeps
  <2> QED
    BY <2>2, <2>3
<1>2. ASSUME NEW s \in Surfaces, BeginPicture(c, s) PROVE Untouched(o) \/ Fresh(o)
  <2> DEFINE blocks == [bits EXCEPT ![c] = {}]
             slices == FreshParams(c)
             pics == [picParam EXCEPT ![c] = NONE]
  <2>1. /\ codec' = codec /\ target' = [target EXCEPT ![c] = s]
        /\ sent' = [sent EXCEPT ![c] = {}]
        /\ DestroyBuffers(Dead(c), blocks, slices, pics)
    BY <1>2, DeadAreSound DEF BeginPicture
  <2>2. CASE o = c
    <3>1. blocks[c] = {} /\ slices[c] = NONE /\ pics[c] = NONE
      BY <1>0 DEF FreshParams
    <3>2. NONE \notin Dead(c)
      BY Constants DEF Dead
    <3>3. sent'[c] = {} /\ pending'[c] = <<>>
      BY <1>0, <1>2, <2>1, DeadAreSound DEF BeginPicture, Idle
    <3> HIDE DEF blocks, slices, pics
    <3> QED
      BY <2>1, <2>2, <3>1, <3>2, <3>3 DEF Fresh, DestroyBuffers, Pointers, Pointer
  <2>3. CASE o # c
    <3>1. /\ target'[o] = target[o] /\ sent'[o] = sent[o]
          /\ blocks[o] = bits[o] /\ slices[o] = sliceParams[o] /\ pics[o] = picParam[o]
      BY <1>0, <2>1, <2>3 DEF FreshParams
    <3> HIDE DEF blocks, slices, pics
    <3> QED
      BY <2>1, <2>3, <3>1, DeadAreNotKept, DestroyKeeps
  <2> QED
    BY <2>2, <2>3
<1>3. ASSUME EndPicture(c) PROVE Untouched(o) \/ IsClosed(o)
  <2>1. /\ codec' = codec /\ target' = [target EXCEPT ![c] = NONE]
        /\ sent' = [sent EXCEPT ![c] = {}]
        /\ DestroyBuffers(Dead(c), bits, sliceParams, picParam)
    BY <1>3, DeadAreSound DEF EndPicture
  <2>2. CASE o = c
    BY <1>0, <2>1, <2>2 DEF IsClosed
  <2>3. CASE o # c
    <3>1. target'[o] = target[o] /\ sent'[o] = sent[o]
      BY <1>0, <2>1, <2>3
    <3> QED
      BY <2>1, <2>3, <3>1, DeadAreNotKept, DestroyKeeps
  <2> QED
    BY <2>2, <2>3
<1> QED
  BY <1>1, <1>2, <1>3

(* Creating and destroying buffers leaves a picture's own alone.           *)
LEMMA BufferTouches ==
  ASSUME AccountInv, Promised("held"), NEW o \in Contexts, NEW c \in Contexts, NEW b \in Buffers
  PROVE  /\ \A t \in Types : CreateBuffer(c, b, t) => Untouched(o)
         /\ DestroyBuffer(c, b) => Untouched(o)
         /\ TranslateCopied(c, b) => Untouched(o)
<1> USE DEF sessionVars, pictureVars
<1>0. {b} \in SUBSET Buffers
  OBVIOUS
<1>1. ASSUME NEW t \in Types, CreateBuffer(c, b, t) PROVE Untouched(o)
  <2>1. \A a \in Buffers : Kept(o, a) => Kept(o, a)'
    BY <1>1 DEF CreateBuffer, Kept, IsBuffer, AccountInv, TypeOK
  <2> QED
    BY <1>1, <2>1, SameIsUntouched DEF CreateBuffer
<1>2. ASSUME DestroyBuffer(c, b) PROVE Untouched(o)
  <2>1. CASE IsDestroyable(b)
    <3>1. DestroyBuffers({b}, bits, sliceParams, picParam) /\ UNCHANGED <<codec, target, sent>>
      BY <1>2, <2>1 DEF DestroyBuffer
    <3>2. ~Kept(o, b)
      BY <2>1 DEF Kept, IsDestroyable
    <3> QED
      BY <1>0, <3>1, <3>2, DestroyKeeps
  <2>2. CASE ~IsDestroyable(b)
    <3>1. UNCHANGED <<type, owner, delayed, bits, sliceParams, picParam, codec, target, sent>>
      BY <1>2, <2>2 DEF DestroyBuffer, bufferVars
    <3> QED
      BY <3>1, SameIsUntouched DEF Kept, IsBuffer
  <2> QED
    BY <2>1, <2>2
<1>3. ASSUME TranslateCopied(c, b) PROVE Untouched(o)
  <2>1. /\ DestroyBuffers({b}, bits, sliceParams, picParam) /\ UNCHANGED <<codec, target, sent>>
        /\ pending[c] # <<>> /\ b = Head(pending[c]) /\ Consume(c, b)
    BY <1>3 DEF TranslateCopied, Translates, translateFrame
  <2>2. ~Kept(o, b)
    BY <2>1, ConsumeDoes DEF AccountInv, HeldExist, Kept
  <2> QED
    BY <1>0, <2>1, <2>2, DestroyKeeps
<1> QED
  BY <1>1, <1>2, <1>3

(* The buffers of one context say nothing of another.                      *)
LEMMA TranslateTouches ==
  ASSUME AccountInv, NEW o \in Contexts, NEW c \in Contexts, NEW b \in Buffers
  PROVE  /\ TranslatePicParam(c, b) => Untouched(o) \/ TranslatesOne(o)
         /\ TranslateSliceParam(c, b) => Untouched(o) \/ TranslatesOne(o)
         /\ TranslateSliceData(c, b) => Untouched(o) \/ TranslatesOne(o)
<1> DEFINE Translation == \/ TranslatePicParam(c, b) \/ TranslateSliceParam(c, b)
                          \/ TranslateSliceData(c, b)
<1>0. ASSUME o = c, Translation PROVE TranslatesOne(o)
  BY <1>0 DEF TranslatesOne
<1> SUFFICES ASSUME o # c, Translation PROVE Untouched(o)
  BY <1>0
<1>1. /\ pending[c] # <<>> /\ b = Head(pending[c]) /\ Retain(c, b) /\ UNCHANGED <<codec, target>>
  BY DEF TranslatePicParam, TranslateSliceParam, TranslateSliceData, Translates,
         translateFrame, sessionVars
<1>2. \A a \in Buffers : Kept(o, a) => Kept(o, a)'
  BY <1>1, RetainKeeps
<1>3. /\ bits'[o] = bits[o] /\ sliceParams'[o] = sliceParams[o]
      /\ picParam'[o] = picParam[o] /\ sent'[o] = sent[o]
  BY DEF TranslatePicParam, TranslateSliceParam, TranslateSliceData, Generate,
         AccountInv, TypeOK
<1> QED
  BY <1>1, <1>2, <1>3, SameIsUntouched

(* What any step does to a context is one of these five.                   *)
LEMMA StepTouches ==
  ASSUME AccountInv, Promised("held"), [Next]_vars, NEW o \in Contexts
  PROVE  Untouched(o) \/ Fresh(o) \/ IsClosed(o) \/ TranslatesOne(o) \/ LosesSlices(o)
<1> USE DEF sessionVars, pictureVars, bufferVars
<1>1. ASSUME UNCHANGED <<codec, target, sent, bits, sliceParams, picParam, type, owner, delayed>>
      PROVE  Untouched(o)
  BY <1>1, SameIsUntouched DEF Kept, IsBuffer
<1>2. CASE UNCHANGED vars
  BY <1>1, <1>2 DEF vars
<1>3. ASSUME NEW kind, Crash(kind) PROVE Untouched(o) \/ Fresh(o) \/ IsClosed(o) \/ TranslatesOne(o)
  BY <1>1, <1>3 DEF Crash
<1>4. ASSUME NEW s \in Surfaces, CreateSurface(s) \/ DestroySurface(s)
      PROVE  Untouched(o) \/ Fresh(o) \/ IsClosed(o) \/ TranslatesOne(o)
  BY <1>1, <1>4 DEF CreateSurface, DestroySurface
<1>5. ASSUME NEW c \in Contexts, NEW k \in Codecs, NEW T \in SUBSET Surfaces, CreateContext(c, k, T)
      PROVE  Untouched(o) \/ Fresh(o) \/ IsClosed(o) \/ TranslatesOne(o)
  <2>1. CASE \A s \in T : MayAssociate(s)
    <3>1. /\ codec' = [codec EXCEPT ![c] = k] /\ target' = [target EXCEPT ![c] = NONE]
          /\ bits' = [bits EXCEPT ![c] = {}] /\ sent' = [sent EXCEPT ![c] = {}]
          /\ UNCHANGED <<sliceParams, picParam, type, owner, delayed>>
      BY <1>5, <2>1 DEF CreateContext
    <3>2. CASE o = c
      BY <3>1, <3>2 DEF IsClosed, AccountInv, TypeOK
    <3>3. CASE o # c
      <4>1. /\ codec'[o] = codec[o] /\ target'[o] = target[o]
            /\ bits'[o] = bits[o] /\ sent'[o] = sent[o]
        BY <3>1, <3>3 DEF AccountInv, TypeOK
      <4> QED
        BY <3>1, <4>1, SameIsUntouched DEF Kept, IsBuffer
    <3> QED
      BY <3>2, <3>3
  <2> QED
    BY <1>3, <1>5, <2>1 DEF CreateContext
<1>6. ASSUME NEW c \in Contexts, NEW list \in Lists, RenderPicture(c, list)
      PROVE  Untouched(o) \/ Fresh(o) \/ IsClosed(o) \/ TranslatesOne(o)
  BY <1>1, <1>3, <1>6 DEF RenderPicture
<1>7. ASSUME NEW c \in Contexts, NEW b \in Buffers,
             \/ TranslateRejected(c, b) \/ TranslateCrashes(c, b) \/ GenerateFails(c, b)
             \/ HeaderOverlong(c, b) \/ GenerateOverruns(c, b)
      PROVE  Untouched(o) \/ Fresh(o) \/ IsClosed(o) \/ TranslatesOne(o)
  BY <1>1, <1>3, <1>7 DEF TranslateRejected, TranslateCrashes, GenerateFails, HeaderOverlong,
                          GenerateOverruns, translateFrame
<1>8. ASSUME NEW c \in Contexts, NEW b \in Buffers, AppendFails(c, b)
      PROVE  Untouched(o) \/ LosesSlices(o)
  <2>1. CASE o = c
    BY <1>8, <2>1 DEF LosesSlices
  <2>2. CASE o # c
    <3>1. /\ UNCHANGED <<codec, target, sent, sliceParams, picParam, type, owner, delayed>>
          /\ bits'[o] = bits[o]
      BY <1>8, <2>2 DEF AppendFails, translateFrame, AccountInv, TypeOK
    <3> QED
      BY <3>1, SameIsUntouched DEF Kept, IsBuffer
  <2> QED
    BY <2>1, <2>2
<1> QED
  BY <1>2, <1>4, <1>5, <1>6, <1>7, <1>8, SessionTouches, BufferTouches, TranslateTouches DEF Next

-----------------------------------------------------------------------------
(***************************************************************************)
(* Pointers into buffers.                                                  *)
(***************************************************************************)
LEMMA SliceDataDoes ==
  ASSUME AccountInv, NEW o \in Contexts, NEW b \in Buffers, TranslateSliceData(o, b)
  PROVE  /\ Kept(o, b)' /\ IsOpen(o) /\ \A a \in Buffers : Kept(o, a) => Kept(o, a)'
         /\ sliceParams' = sliceParams /\ picParam' = picParam
         /\ sent'[o] = sent[o] \cup {b} /\ AppendedOf(o, b) \subseteq {b}
         /\ bits[o] \cap Buffers \subseteq bits'[o] /\ AppendedOf(o, b) \subseteq bits'[o]
         /\ codec[o] # "MPEG2" => bits'[o] \subseteq bits[o] \cup {GEN, b}
<1>0. /\ bits \in [Contexts -> SUBSET Blocks] /\ sent \in [Contexts -> SUBSET Buffers]
  BY DEF AccountInv, TypeOK
<1>1. /\ pending[o] # <<>> /\ b = Head(pending[o]) /\ Retain(o, b)
      /\ sliceParams' = sliceParams /\ picParam' = picParam
  BY DEF TranslateSliceData, Translates
<1>2. sent'[o] = sent[o] \cup {b} /\ AppendedOf(o, b) \subseteq {b}
  BY <1>0 DEF TranslateSliceData, AppendedOf
<1>3. ASSUME NEW moved \in BOOLEAN, Generate(o, moved, {GEN} \cup AppendedOf(o, b)),
             NeedsHeader(o) \/ codec[o] = "MPEG2"
      PROVE  /\ bits[o] \cap Buffers \subseteq bits'[o] /\ AppendedOf(o, b) \subseteq bits'[o]
             /\ codec[o] # "MPEG2" => bits'[o] \subseteq bits[o] \cup {GEN, b}
  <2>1. bits'[o] = IF moved THEN Pointers(bits[o], {GEN}) \cup {GEN} \cup AppendedOf(o, b)
                   ELSE bits[o] \cup {GEN} \cup AppendedOf(o, b)
    BY <1>0, <1>3 DEF Generate
  <2>2. bits[o] \cap Buffers \subseteq Pointers(bits[o], {GEN})
    BY Constants DEF Pointers
  <2>3. codec[o] # "MPEG2" => Pointers(bits[o], {GEN}) = bits[o]
    BY <1>3 DEF Pointers, NeedsHeader
  <2> QED
    BY <1>2, <2>1, <2>2, <2>3
<1>4. ASSUME bits' = [bits EXCEPT ![o] = @ \cup AppendedOf(o, b)]
      PROVE  /\ bits[o] \cap Buffers \subseteq bits'[o] /\ AppendedOf(o, b) \subseteq bits'[o]
             /\ codec[o] # "MPEG2" => bits'[o] \subseteq bits[o] \cup {GEN, b}
  BY <1>0, <1>2, <1>4
<1>5. /\ bits[o] \cap Buffers \subseteq bits'[o] /\ AppendedOf(o, b) \subseteq bits'[o]
      /\ codec[o] # "MPEG2" => bits'[o] \subseteq bits[o] \cup {GEN, b}
  BY <1>3, <1>4 DEF TranslateSliceData, MayGenerate
<1> QED
  BY <1>1, <1>2, <1>5, RetainKeeps

(* The other two that keep a pointer.                                      *)
LEMMA ParamsDo ==
  ASSUME AccountInv, NEW o \in Contexts, NEW b \in Buffers,
         TranslatePicParam(o, b) \/ TranslateSliceParam(o, b)
  PROVE  /\ Kept(o, b)' /\ IsOpen(o) /\ \A a \in Buffers : Kept(o, a) => Kept(o, a)'
         /\ bits' = bits /\ sent' = sent
         /\ \/ /\ TranslatePicParam(o, b) /\ picParam'[o] = b /\ sliceParams' = sliceParams
            \/ /\ TranslateSliceParam(o, b) /\ sliceParams'[o] = b /\ picParam' = picParam
<1>1. pending[o] # <<>> /\ b = Head(pending[o]) /\ Retain(o, b)
  BY DEF TranslatePicParam, TranslateSliceParam, Translates
<1>2. /\ bits' = bits /\ sent' = sent
      /\ \/ /\ TranslatePicParam(o, b) /\ picParam'[o] = b /\ sliceParams' = sliceParams
         \/ /\ TranslateSliceParam(o, b) /\ sliceParams'[o] = b /\ picParam' = picParam
  BY DEF TranslatePicParam, TranslateSliceParam, AccountInv, TypeOK
<1> QED
  BY <1>1, <1>2, RetainKeeps

(* Every step keeps the pointers of open pictures.                         *)
LEMMA PointersNext ==
  ASSUME AccountInv, PointersKept, Promised("held"), ~MemoryShort, "MPEG2" \notin Codecs,
         [Next]_vars
  PROVE  PointersKept'
<1> SUFFICES ASSUME NEW o \in Contexts, IsOpen(o)'
             PROVE  /\ \A p \in bits'[o] : p = GEN \/ Kept(o, p)'
                    /\ sliceParams'[o] = NONE \/ Kept(o, sliceParams[o])'
                    /\ picParam'[o] = NONE \/ Kept(o, picParam[o])'
  BY DEF PointersKept
<1>1. CASE Untouched(o)
  <2>0. IsOpen(o)
    BY <1>1 DEF Untouched, IsOpen, IsContext
  <2> PICK D \in SUBSET Buffers :
         /\ \A b \in D : ~Kept(o, b)
         /\ bits'[o] = Pointers(bits[o], D)
         /\ sliceParams'[o] = Pointer(sliceParams[o], D)
         /\ picParam'[o] = Pointer(picParam[o], D)
    BY <1>1 DEF Untouched
  <2>1. \A b : Kept(o, b) => Kept(o, b)'
    BY <1>1 DEF Untouched, Kept
  <2>2. bits'[o] = bits[o] /\ sliceParams'[o] = sliceParams[o] /\ picParam'[o] = picParam[o]
    BY <2>0, Constants DEF PointersKept, Pointers, Pointer
  <2>3. Kept(o, sliceParams[o]) => Kept(o, sliceParams[o])'
    BY <1>1, <2>2 DEF Untouched, Kept, IsBuffer
  <2>4. Kept(o, picParam[o]) => Kept(o, picParam[o])'
    BY <1>1, <2>2 DEF Untouched, Kept, IsBuffer
  <2> QED
    BY <2>0, <2>1, <2>2, <2>3, <2>4 DEF PointersKept
<1>2. CASE Fresh(o)
  BY <1>2 DEF Fresh
<1>3. CASE IsClosed(o)
  BY <1>3 DEF IsClosed, IsOpen, IsContext
<1>4. ASSUME NEW b \in Buffers, TranslateSliceData(o, b)
      PROVE  /\ \A p \in bits'[o] : p = GEN \/ Kept(o, p)'
             /\ sliceParams'[o] = NONE \/ Kept(o, sliceParams[o])'
             /\ picParam'[o] = NONE \/ Kept(o, picParam[o])'
  <2>1. codec[o] # "MPEG2"
    BY <1>4, SliceDataDoes DEF AccountInv, TypeOK, IsOpen, IsContext
  <2>2. \A a : Kept(o, a) => Kept(o, a)'
    BY <1>4, SliceDataDoes DEF Kept
  <2>3. /\ Kept(o, b)' /\ IsOpen(o) /\ sliceParams' = sliceParams /\ picParam' = picParam
        /\ bits'[o] \subseteq bits[o] \cup {GEN, b}
    BY <1>4, <2>1, SliceDataDoes
  <2>4. \A p \in bits'[o] : p = GEN \/ Kept(o, p)'
    BY <2>2, <2>3 DEF PointersKept
  <2>5. /\ sliceParams[o] = NONE \/ Kept(o, sliceParams[o])
        /\ picParam[o] = NONE \/ Kept(o, picParam[o])
    BY <2>3 DEF PointersKept
  <2> QED
    BY <2>2, <2>3, <2>4, <2>5 DEF Kept, IsBuffer
<1>5. ASSUME NEW b \in Buffers, TranslatePicParam(o, b) \/ TranslateSliceParam(o, b)
      PROVE  /\ \A p \in bits'[o] : p = GEN \/ Kept(o, p)'
             /\ sliceParams'[o] = NONE \/ Kept(o, sliceParams[o])'
             /\ picParam'[o] = NONE \/ Kept(o, picParam[o])'
  <2>1. /\ Kept(o, b)' /\ IsOpen(o) /\ bits' = bits
        /\ \/ picParam'[o] = b /\ sliceParams' = sliceParams
           \/ sliceParams'[o] = b /\ picParam' = picParam
    BY <1>5, ParamsDo
  <2>2. \A a : Kept(o, a) => Kept(o, a)'
    BY <1>5, ParamsDo DEF Kept
  <2>3. /\ sliceParams[o] = NONE \/ Kept(o, sliceParams[o])
        /\ picParam[o] = NONE \/ Kept(o, picParam[o])
        /\ \A p \in bits[o] : p = GEN \/ Kept(o, p)
    BY <2>1 DEF PointersKept
  <2>4. \A p \in bits'[o] : p = GEN \/ Kept(o, p)'
    BY <2>1, <2>2, <2>3
  <2> QED
    BY <2>1, <2>2, <2>3, <2>4 DEF Kept, IsBuffer
<1>6. ~LosesSlices(o)
  BY DEF LosesSlices, AppendFails
<1> QED
  BY <1>1, <1>2, <1>3, <1>4, <1>5, <1>6, StepTouches DEF TranslatesOne

(***************************************************************************)
(* While a picture is open, no pointer that its translation left behind is *)
(* to freed memory, whatever other threads do: if applications render      *)
(* their own buffers and each once, the array of pointers can be           *)
(* allocated, and no slice headers are generated between slices (MPEG2).   *)
(***************************************************************************)
THEOREM PointersStayValid ==
  ASSUME Promised("held"), ~MemoryShort, "MPEG2" \notin Codecs
  PROVE  Spec => []NoDangling
<1>1. Init => PointersKept
  BY DEF Init, PointersKept, IsOpen, IsContext
<1>2. AccountInv /\ PointersKept /\ [Next]_vars => PointersKept'
  BY PointersNext
<1>3. PointersKept => NoDangling
  BY Constants DEF PointersKept, NoDangling, Kept
<1> QED
  BY <1>1, <1>2, <1>3, AccountInvariant, PTL DEF Spec

-----------------------------------------------------------------------------
(***************************************************************************)
(* Slice data finds its parameters, and reaches the decoder.               *)
(***************************************************************************)
(* The type of a buffer that exists before and after a step is the same.   *)
LEMMA TypesStay ==
  ASSUME TypeOK, [Next]_vars, NEW b \in Buffers, IsBuffer(b), IsBuffer(b)'
  PROVE  type'[b] = type[b]
<1> USE DEF bufferVars, sessionVars, translateFrame
<1>1. CASE UNCHANGED type
  BY <1>1
<1>2. ASSUME NEW D \in SUBSET Buffers, NEW blocks, NEW slices, NEW pics,
             DestroyBuffers(D, blocks, slices, pics)
      PROVE  type'[b] = type[b]
  BY <1>2 DEF DestroyBuffers, IsBuffer
<1>3. ASSUME NEW c \in Contexts, NEW a \in Buffers, NEW t \in Types, CreateBuffer(c, a, t)
      PROVE  type'[b] = type[b]
  BY <1>3 DEF CreateBuffer, TypeOK
<1>4. ASSUME NEW c \in Contexts, NEW a \in Buffers, DestroyBuffer(c, a) \/ TranslateCopied(c, a)
      PROVE  type'[b] = type[b]
  <2>1. {a} \in SUBSET Buffers
    OBVIOUS
  <2> QED
    BY <1>1, <1>2, <1>4, <2>1 DEF DestroyBuffer, TranslateCopied
<1>5. ASSUME NEW c \in Contexts,
             DestroyContext(c) \/ (\E s \in Surfaces : BeginPicture(c, s)) \/ EndPicture(c)
      PROVE  type'[b] = type[b]
  <2>1. Dead(c) \in SUBSET Buffers
    BY DEF Dead
  <2>2. UNCHANGED type \/ \E blocks, slices, pics : DestroyBuffers(Dead(c), blocks, slices, pics)
    BY <1>5 DEF DestroyContext, BeginPicture, EndPicture, Crash
  <2> QED
    BY <1>1, <1>2, <2>1, <2>2
<1>6. ASSUME NEW c \in Contexts,
             \/ \E k \in Codecs, T \in SUBSET Surfaces : CreateContext(c, k, T)
             \/ \E list \in Lists : RenderPicture(c, list)
      PROVE  UNCHANGED type
  BY <1>6 DEF CreateContext, RenderPicture, Crash
<1>7. ASSUME NEW c \in Contexts, NEW a \in Buffers,
             \/ TranslatePicParam(c, a) \/ TranslateSliceParam(c, a) \/ TranslateSliceData(c, a)
             \/ TranslateRejected(c, a) \/ AppendFails(c, a) \/ TranslateCrashes(c, a)
             \/ GenerateFails(c, a) \/ HeaderOverlong(c, a) \/ GenerateOverruns(c, a)
      PROVE  UNCHANGED type
  BY <1>7 DEF TranslatePicParam, TranslateSliceParam, TranslateSliceData, TranslateRejected,
              AppendFails, TranslateCrashes, GenerateFails, HeaderOverlong, GenerateOverruns,
              Retain, Crash
<1>8. ASSUME NEW s \in Surfaces, CreateSurface(s) \/ DestroySurface(s) PROVE UNCHANGED type
  BY <1>8 DEF CreateSurface, DestroySurface
<1>9. CASE UNCHANGED vars
  BY <1>9 DEF vars
<1> QED
  BY <1>1, <1>3, <1>4, <1>5, <1>6, <1>7, <1>8, <1>9 DEF Next

(* What becomes of the buffers a thread has still to translate.            *)
LEMMA PendingSteps ==
  ASSUME TypeOK, [Next]_vars, NEW o \in Contexts
  PROVE  \/ pending'[o] = pending[o] \/ pending'[o] = <<>>
         \/ \E list \in Lists : RenderPicture(o, list) /\ pending'[o] = list
         \/ TranslatesOne(o) \/ \E b \in Buffers : TranslateCopied(o, b)
<1> DEFINE Goal == \/ pending'[o] = pending[o] \/ pending'[o] = <<>>
                   \/ \E list \in Lists : RenderPicture(o, list) /\ pending'[o] = list
                   \/ TranslatesOne(o) \/ \E b \in Buffers : TranslateCopied(o, b)
<1>0. pending \in [Contexts -> Seq(Buffers)]
  BY DEF TypeOK
<1>1. CASE UNCHANGED pending
  BY <1>1
<1>2. ASSUME NEW c \in Contexts, NEW b \in Buffers,
             \/ TranslateCopied(c, b) \/ TranslatePicParam(c, b)
             \/ TranslateSliceParam(c, b) \/ TranslateSliceData(c, b)
      PROVE  Goal
  <2>1. CASE c = o
    BY <1>2, <2>1 DEF TranslatesOne
  <2>2. CASE c # o
    <3>1. Consume(c, b)
      BY <1>2 DEF TranslateCopied, TranslatePicParam, TranslateSliceParam, TranslateSliceData, Retain
    <3> QED
      BY <1>0, <2>2, <3>1 DEF Consume
  <2> QED
    BY <2>1, <2>2
<1>3. ASSUME NEW c \in Contexts, NEW b \in Buffers,
             TranslateRejected(c, b) \/ AppendFails(c, b) \/ GenerateFails(c, b)
      PROVE  Goal
  BY <1>0, <1>3 DEF TranslateRejected, AppendFails, GenerateFails, GiveUp
<1>4. ASSUME NEW c \in Contexts, NEW list \in Lists, RenderPicture(c, list) PROVE Goal
  <2>1. CASE c = o /\ \A b \in Range(list) : IsBuffer(b)
    <3>1. pending'[o] = list
      BY <1>0, <1>4, <2>1 DEF RenderPicture
    <3> QED
      BY <1>4, <2>1, <3>1
  <2>2. CASE c # o /\ \A b \in Range(list) : IsBuffer(b)
    BY <1>0, <1>4, <2>2 DEF RenderPicture
  <2>3. CASE ~\A b \in Range(list) : IsBuffer(b)
    BY <1>1, <1>4, <2>3 DEF RenderPicture, Crash
  <2> QED
    BY <2>1, <2>2, <2>3
<1>5. ASSUME NEW c \in Contexts, NEW b \in Buffers,
             \/ (\E t \in Types : CreateBuffer(c, b, t)) \/ DestroyBuffer(c, b)
             \/ TranslateCrashes(c, b) \/ HeaderOverlong(c, b) \/ GenerateOverruns(c, b)
      PROVE  UNCHANGED pending
  BY <1>5 DEF CreateBuffer, DestroyBuffer, TranslateCrashes, HeaderOverlong, GenerateOverruns, Crash
<1>6. ASSUME NEW c \in Contexts,
             \/ \E k \in Codecs, T \in SUBSET Surfaces : CreateContext(c, k, T)
             \/ DestroyContext(c) \/ EndPicture(c)
             \/ \E s \in Surfaces : BeginPicture(c, s)
      PROVE  UNCHANGED pending
  BY <1>6 DEF CreateContext, DestroyContext, EndPicture, BeginPicture, Crash
<1>7. ASSUME NEW s \in Surfaces, CreateSurface(s) \/ DestroySurface(s) PROVE UNCHANGED pending
  BY <1>7 DEF CreateSurface, DestroySurface
<1>8. CASE UNCHANGED vars
  BY <1>1, <1>8 DEF vars
<1> HIDE DEF Goal
<1>9. Goal
  <2>0. pending' = pending => Goal
    BY DEF Goal
  <2>1. ASSUME NEW c \in Contexts, NEW b \in Buffers,
               \/ TranslateCopied(c, b) \/ TranslatePicParam(c, b)
               \/ TranslateSliceParam(c, b) \/ TranslateSliceData(c, b)
               \/ TranslateRejected(c, b) \/ AppendFails(c, b) \/ TranslateCrashes(c, b)
               \/ GenerateFails(c, b) \/ HeaderOverlong(c, b) \/ GenerateOverruns(c, b)
        PROVE  Goal
    BY <1>2, <1>3, <1>5, <2>0, <2>1
  <2>2. ASSUME NEW c \in Contexts, NEW b \in Buffers,
               (\E t \in Types : CreateBuffer(c, b, t)) \/ DestroyBuffer(c, b)
        PROVE  Goal
    BY <1>5, <2>0, <2>2
  <2>3. ASSUME NEW c \in Contexts,
               \/ \E k \in Codecs, T \in SUBSET Surfaces : CreateContext(c, k, T)
               \/ DestroyContext(c) \/ EndPicture(c)
               \/ \E s \in Surfaces : BeginPicture(c, s)
        PROVE  Goal
    BY <1>6, <2>0, <2>3
  <2>4. ASSUME NEW s \in Surfaces, CreateSurface(s) \/ DestroySurface(s) PROVE Goal
    BY <1>7, <2>0, <2>4
  <2>5. CASE UNCHANGED vars
    BY <2>0, <2>5 DEF vars
  <2> QED
    BY <1>4, <2>1, <2>2, <2>3, <2>4, <2>5 DEF Next
<1> QED
  BY <1>9 DEF Goal

(* A list that has lost its head, whose head gave what it stood for.       *)
LEMMA TailIsDescribed ==
  ASSUME TypeOK, NEW o \in Contexts, pending[o] # <<>>, pending'[o] = Tail(pending[o]),
         \A i \in DOMAIN pending[o] : type[pending[o][i]] = "data" => Described(o, pending[o], i),
         \A b \in Range(Tail(pending[o])) : type'[b] = type[b],
         codec'[o] = codec[o],
         sliceParams[o] # NONE => sliceParams'[o] # NONE,
         picParam[o] # NONE => picParam'[o] # NONE,
         type[Head(pending[o])] = "param" => sliceParams'[o] # NONE,
         codec[o] = "MPEG4" /\ type[Head(pending[o])] = "pic" => picParam'[o] # NONE,
         NEW i \in DOMAIN pending'[o], type'[pending'[o][i]] = "data"
  PROVE  Described(o, pending[o], i)'
<1> DEFINE p == pending[o]
<1>1. p \in Seq(Buffers) /\ p # <<>>
  BY DEF TypeOK
<1>2. /\ DOMAIN p = 1..Len(p) /\ Len(p) \in Nat \ {0} /\ Head(p) = p[1]
      /\ DOMAIN Tail(p) = 1..(Len(p) - 1)
      /\ \A j \in 1..(Len(p) - 1) : Tail(p)[j] = p[j + 1]
  <2>1. Tail(p) \in Seq(Buffers) /\ Len(Tail(p)) = Len(p) - 1
        /\ \A j \in 1..Len(Tail(p)) : Tail(p)[j] = p[j + 1]
    BY <1>1, HeadTailProperties
  <2>2. Len(p) \in Nat \ {0}
    BY <1>1, EmptySeq
  <2> QED
    BY <1>1, <2>1, <2>2, LenProperties
<1>3. \A j \in 1..(Len(p) - 1) : type'[p[j + 1]] = type[p[j + 1]] /\ pending'[o][j] = p[j + 1]
  BY <1>2 DEF Range
<1>4. i \in 1..(Len(p) - 1) /\ i + 1 \in DOMAIN p
  BY <1>2
<1>5. Described(o, p, i + 1)
  BY <1>3, <1>4
<1>6. ASSUME NEW t, Precedes(p, i + 1, t), type[p[1]] # t
      PROVE  \E j \in 1..(i - 1) : type'[pending'[o][j]] = t
  <2> PICK j \in 1..((i + 1) - 1) : type[p[j]] = t
    BY <1>6 DEF Precedes
  <2>1. j # 1 /\ j - 1 \in 1..(i - 1) /\ j - 1 \in 1..(Len(p) - 1) /\ (j - 1) + 1 = j
    BY <1>4, <1>6
  <2>2. type'[pending'[o][j - 1]] = t
    BY <1>3, <2>1
  <2> QED
    BY <2>1, <2>2
<1> HIDE DEF p
<1>7. sliceParams'[o] # NONE \/ \E j \in 1..(i - 1) : type'[pending'[o][j]] = "param"
  BY <1>2, <1>5, <1>6 DEF Described, p
<1>8. codec'[o] = "MPEG4" =>
        picParam'[o] # NONE \/ \E j \in 1..(i - 1) : type'[pending'[o][j]] = "pic"
  BY <1>2, <1>5, <1>6 DEF Described, p
<1> QED
  BY <1>7, <1>8 DEF Described, Precedes

(* Every step keeps parameters before their slices.                        *)
LEMMA ParamsPrecedeNext ==
  ASSUME AccountInv, AccountInv', ParamsPrecede, Promised("held"), Promised("order"), [Next]_vars
  PROVE  ParamsPrecede'
<1> SUFFICES ASSUME NEW o \in Contexts, NEW i \in DOMAIN pending'[o],
                    type'[pending'[o][i]] = "data"
             PROVE  Described(o, pending[o], i)'
  BY DEF ParamsPrecede
<1>0. /\ pending[o] \in Seq(Buffers) /\ pending'[o] \in Seq(Buffers)
      /\ \A j \in DOMAIN pending[o] : type[pending[o][j]] = "data" => Described(o, pending[o], j)
  BY DEF AccountInv, TypeOK, ParamsPrecede
<1>1. pending'[o] # <<>> /\ IsOpen(o)'
  BY EmptySeq DEF AccountInv, PendingIsHeld
<1>2. ASSUME NEW b \in held[o], b \in held'[o] PROVE type'[b] = type[b]
  <2>1. b \in Buffers /\ IsBuffer(b) /\ IsBuffer(b)'
    BY <1>2 DEF AccountInv, HeldExist, TypeOK
  <2> QED
    BY <2>1, TypesStay DEF AccountInv
<1>3. \A b \in Range(pending'[o]) : b \in held'[o]
  BY <1>1 DEF AccountInv, PendingIsHeld
<1>4. CASE TranslatesOne(o)
  <2> PICK b \in Buffers :
        TranslatePicParam(o, b) \/ TranslateSliceParam(o, b) \/ TranslateSliceData(o, b)
    BY <1>4 DEF TranslatesOne
  <2>1. /\ pending[o] # <<>> /\ b = Head(pending[o]) /\ Consume(o, b) /\ codec' = codec
    BY DEF TranslatePicParam, TranslateSliceParam, TranslateSliceData, Translates, Retain,
           translateFrame, sessionVars
  <2>2. pending'[o] = Tail(pending[o]) /\ \A a \in Range(Tail(pending[o])) : a \in held[o]
    BY <2>1, ConsumeDoes, HeadIsHeld
  <2>3. \A a \in Range(Tail(pending[o])) : type'[a] = type[a]
    BY <1>2, <1>3, <2>2
  <2>4. /\ sliceParams[o] # NONE => sliceParams'[o] # NONE
        /\ picParam[o] # NONE => picParam'[o] # NONE
        /\ type[b] = "param" => sliceParams'[o] # NONE
        /\ type[b] = "pic" => picParam'[o] # NONE
    <3>1. sliceParams \in [Contexts -> Buffers \cup {FREED, NONE}]
          /\ picParam \in [Contexts -> Buffers \cup {FREED, NONE}]
      BY DEF AccountInv, TypeOK
    <3> QED
      BY <3>1, Constants DEF TranslatePicParam, TranslateSliceParam, TranslateSliceData, Translates
  <2> QED
    BY <1>0, <2>1, <2>2, <2>3, <2>4, TailIsDescribed DEF AccountInv
<1>5. CASE Untouched(o)
  <2>1. /\ codec'[o] = codec[o]
        /\ sliceParams[o] # NONE => sliceParams'[o] # NONE
        /\ picParam[o] # NONE => picParam'[o] # NONE
    BY <1>5, Constants DEF Untouched, Pointer
  <2>2. CASE pending'[o] = pending[o]
    <3>1. Range(pending[o]) \subseteq held[o]
      BY <1>1, <2>2 DEF AccountInv, PendingIsHeld
    <3>2. \A b \in Range(pending[o]) : type'[b] = type[b]
      BY <1>2, <1>3, <2>2, <3>1
    <3>3. \A j \in DOMAIN pending[o] : type'[pending[o][j]] = type[pending[o][j]]
      BY <3>2 DEF Range
    <3>4. Described(o, pending[o], i) /\ i \in DOMAIN pending[o]
      BY <1>0, <2>2, <3>3
    <3>5. \A t : Precedes(pending[o], i, t) => \E j \in 1..(i - 1) : type'[pending'[o][j]] = t
      <4>1. DOMAIN pending[o] = 1..Len(pending[o]) /\ Len(pending[o]) \in Nat
        BY <1>0, LenProperties
      <4>2. \A j \in 1..(i - 1) : j \in DOMAIN pending[o]
        BY <3>4, <4>1
      <4> QED
        BY <2>2, <3>3, <4>2 DEF Precedes
    <3>6. sliceParams'[o] # NONE \/ \E j \in 1..(i - 1) : type'[pending'[o][j]] = "param"
      BY <2>1, <3>4, <3>5 DEF Described
    <3>7. codec'[o] = "MPEG4" =>
            picParam'[o] # NONE \/ \E j \in 1..(i - 1) : type'[pending'[o][j]] = "pic"
      BY <2>1, <3>4, <3>5 DEF Described
    <3> QED
      BY <3>6, <3>7 DEF Described, Precedes
  <2>3. ASSUME NEW list \in Lists, RenderPicture(o, list), pending'[o] = list
        PROVE  Described(o, pending[o], i)'
    <3>1. CASE \A b \in Range(list) : IsBuffer(b)
      <4>1. UNCHANGED <<type, codec, sliceParams, picParam>>
        BY <2>3, <3>1 DEF RenderPicture, bufferVars, sessionVars, pictureVars
      <4>2. Described(o, list, i)
        BY <2>3, <4>1 DEF RenderPicture
      <4> QED
        BY <2>3, <4>1, <4>2 DEF Described, Precedes
    <3>2. CASE ~\A b \in Range(list) : IsBuffer(b)
      <4>1. pending[o] = <<>> /\ pending' = pending
        BY <2>3, <3>2 DEF RenderPicture, Idle, Crash
      <4> QED
        BY <1>1, <4>1
    <3> QED
      BY <3>1, <3>2
  <2>4. ASSUME NEW b \in Buffers, TranslateCopied(o, b) PROVE Described(o, pending[o], i)'
    <3>1. /\ pending[o] # <<>> /\ b = Head(pending[o]) /\ Consume(o, b)
          /\ ~Retained(codec[o], type[b])
      BY <2>4 DEF TranslateCopied, Translates
    <3>2. pending'[o] = Tail(pending[o]) /\ \A a \in Range(Tail(pending[o])) : a \in held[o]
      BY <3>1, ConsumeDoes, HeadIsHeld
    <3>3. \A a \in Range(Tail(pending[o])) : type'[a] = type[a]
      BY <1>2, <1>3, <3>2
    <3>4. type[b] # "param" /\ ~(codec[o] = "MPEG4" /\ type[b] = "pic")
      BY <3>1 DEF Retained
    <3> QED
      BY <1>0, <2>1, <3>1, <3>2, <3>3, <3>4, TailIsDescribed DEF AccountInv
  <2> QED
    BY <1>1, <1>4, <2>2, <2>3, <2>4, PendingSteps DEF AccountInv
<1>6. ~Fresh(o) /\ ~IsClosed(o)
  BY <1>1 DEF Fresh, IsClosed, IsOpen, IsContext
<1>7. ~LosesSlices(o)
  <2>1. ASSUME NEW b \in Buffers, AppendFails(o, b) PROVE pending'[o] = <<>>
    BY <2>1 DEF AppendFails, GiveUp, AccountInv, TypeOK
  <2> QED
    BY <1>1, <2>1 DEF LosesSlices
<1> QED
  BY <1>4, <1>5, <1>6, <1>7, StepTouches

(* The inductive invariant of lists: parameters come before their data.    *)
THEOREM DataIsDescribed ==
  ASSUME Promised("held"), Promised("order")
  PROVE  Spec => []ParamsPrecede
<1>1. Init => ParamsPrecede
  BY DEF Init, ParamsPrecede
<1>2. AccountInv /\ AccountInv' /\ ParamsPrecede /\ [Next]_vars => ParamsPrecede'
  BY ParamsPrecedeNext
<1> QED
  BY <1>1, <1>2, AccountInvariant, PTL DEF Spec

(* Every step keeps the slices that were accepted.                         *)
LEMMA SlicesNext ==
  ASSUME AccountInv, ParamsPrecede, SlicesKept, Promised("held"), ~MemoryShort, [Next]_vars
  PROVE  SlicesKept'
<1> SUFFICES ASSUME NEW o \in Contexts, IsOpen(o)', NEW a \in sent'[o]
             PROVE  a \in bits'[o] /\ Kept(o, a)'
  BY DEF SlicesKept
<1>1. CASE Untouched(o)
  <2>1. IsOpen(o) /\ a \in sent[o]
    BY <1>1 DEF Untouched, IsOpen, IsContext
  <2>2. a \in bits[o] /\ Kept(o, a)
    BY <2>1 DEF SlicesKept
  <2>3. a \in bits'[o] /\ Kept(o, a)'
    BY <1>1, <2>2 DEF Untouched, Pointers, Kept
  <2> QED
    BY <2>3
<1>2. ~Fresh(o) /\ ~IsClosed(o) /\ ~LosesSlices(o)
  BY DEF Fresh, IsClosed, IsOpen, IsContext, LosesSlices, AppendFails
<1>3. ASSUME NEW b \in Buffers, TranslateSliceData(o, b) PROVE a \in bits'[o] /\ Kept(o, a)'
  <2>1. /\ Kept(o, b)' /\ IsOpen(o) /\ \A d \in Buffers : Kept(o, d) => Kept(o, d)'
        /\ sent'[o] = sent[o] \cup {b} /\ bits[o] \cap Buffers \subseteq bits'[o]
        /\ AppendedOf(o, b) \subseteq bits'[o]
    BY <1>3, SliceDataDoes
  <2>2. CASE a \in sent[o]
    <3>1. a \in bits[o] /\ Kept(o, a) /\ a \in Buffers
      BY <2>1, <2>2 DEF SlicesKept, Kept
    <3> QED
      BY <2>1, <3>1
  <2>3. CASE a = b
    <3>1. /\ pending[o] # <<>> /\ b = Head(pending[o]) /\ type[b] = "data"
      BY <1>3 DEF TranslateSliceData, Translates
    <3>2. pending[o] \in Seq(Buffers)
      BY DEF AccountInv, TypeOK
    <3>3. 1 \in DOMAIN pending[o] /\ pending[o][1] = b
      BY <3>1, <3>2, EmptySeq, LenProperties
    <3>4. Described(o, pending[o], 1)
      BY <3>1, <3>3 DEF ParamsPrecede
    <3>5. sliceParams[o] # NONE
      BY <3>4 DEF Described, Precedes
    <3>6. AppendedOf(o, b) = {b}
      BY <3>5 DEF AppendedOf
    <3> QED
      BY <2>1, <2>3, <3>6
  <2> QED
    BY <2>1, <2>2, <2>3
<1>4. ASSUME NEW b \in Buffers, TranslatePicParam(o, b) \/ TranslateSliceParam(o, b)
      PROVE  a \in bits'[o] /\ Kept(o, a)'
  <2>1. /\ IsOpen(o) /\ \A d \in Buffers : Kept(o, d) => Kept(o, d)'
        /\ bits' = bits /\ sent' = sent
    BY <1>4, ParamsDo
  <2>2. a \in bits[o] /\ Kept(o, a) /\ a \in Buffers
    BY <2>1 DEF SlicesKept, Kept
  <2> QED
    BY <2>1, <2>2
<1> QED
  BY <1>1, <1>2, <1>3, <1>4, StepTouches DEF TranslatesOne

(***************************************************************************)
(* Every slice that vaRenderPicture accepted since vaBeginPicture is among *)
(* the buffers the decoder is given, for every codec: if applications      *)
(* render their own buffers, each once, slice parameters before the data   *)
(* they describe, and the array of pointers can be allocated.              *)
(***************************************************************************)
THEOREM SlicesAllReachDecoder ==
  ASSUME Promised("held"), Promised("order"), ~MemoryShort
  PROVE  Spec => []SlicesReachDecoder
<1>1. Init => SlicesKept
  BY DEF Init, SlicesKept
<1>2. AccountInv /\ ParamsPrecede /\ SlicesKept /\ [Next]_vars => SlicesKept'
  BY SlicesNext
<1>3. SlicesKept => SlicesReachDecoder
  BY DEF SlicesKept, SlicesReachDecoder
<1> QED
  BY <1>1, <1>2, <1>3, AccountInvariant, DataIsDescribed, PTL DEF Spec

-----------------------------------------------------------------------------
(***************************************************************************)
(* Contexts and their surfaces.                                            *)
(***************************************************************************)
LEMMA SurfacesFrame ==
  ASSUME SurfacesInv, TypeOK', UNCHANGED <<codec, targets, target, status, assoc>>
  PROVE  SurfacesInv'
BY DEF SurfacesInv, TargetsOwned, AssociationsAgree, IsOpen, IsContext, IsSurface

(* vaCreateSurfaces, vaDestroySurfaces.                                    *)
LEMMA SurfaceLives ==
  ASSUME SurfacesInv, TypeOK', Promised("surfaces"), NEW s \in Surfaces,
         CreateSurface(s) \/ DestroySurface(s)
  PROVE  SurfacesInv'
<1>0. s # NONE
  BY Constants
<1>1. CASE CreateSurface(s)
  <2>1. /\ ~IsSurface(s) /\ UNCHANGED <<codec, targets, target>>
        /\ status'[s] = "ready" /\ assoc'[s] = NONE
        /\ \A t \in Surfaces : t # s => status'[t] = status[t] /\ assoc'[t] = assoc[t]
    BY <1>1 DEF CreateSurface, SurfacesInv, TypeOK, sessionVars
  <2>2. \A c \in Contexts : s \notin targets[c] /\ targets[c] \subseteq Surfaces
    BY <2>1 DEF SurfacesInv, TargetsOwned, TypeOK
  <2>3. TargetsOwned'
    BY <2>1, <2>2 DEF SurfacesInv, TargetsOwned, IsOpen, IsContext, IsSurface
  <2>4. AssociationsAgree'
    BY <2>1, <2>2, Constants DEF SurfacesInv, AssociationsAgree, IsSurface
  <2> QED
    BY <2>3, <2>4 DEF SurfacesInv
<1>2. CASE DestroySurface(s)
  <2>1. /\ \A c \in Contexts : s \notin targets[c] /\ targets[c] \subseteq Surfaces
        /\ UNCHANGED <<codec, targets, target>>
        /\ status'[s] = NONE
        /\ \A t \in Surfaces : t # s => status'[t] = status[t] /\ assoc'[t] = assoc[t]
    BY <1>2 DEF DestroySurface, SurfacesInv, TypeOK
  <2>2. TargetsOwned'
    BY <2>1 DEF SurfacesInv, TargetsOwned, IsOpen, IsContext, IsSurface
  <2>3. AssociationsAgree'
    BY <2>1 DEF SurfacesInv, AssociationsAgree, IsSurface
  <2> QED
    BY <2>2, <2>3 DEF SurfacesInv
<1> QED
  BY <1>1, <1>2

(* vaCreateContext finds no surface associated, and associates its own.    *)
LEMMA SurfacesAreFree ==
  ASSUME SurfacesInv, NEW T \in SUBSET Surfaces, \A s \in T : IsSurface(s),
         \A o \in Contexts : T \cap targets[o] = {}
  PROVE  \A s \in T : MayAssociate(s)
BY DEF SurfacesInv, AssociationsAgree, MayAssociate, TypeOK

(* vaCreateContext associates surfaces no other context has.               *)
LEMMA CreateAssociates ==
  ASSUME SurfacesInv, TypeOK', Promised("surfaces"), NEW c \in Contexts, NEW k \in Codecs,
         NEW T \in SUBSET Surfaces, CreateContext(c, k, T)
  PROVE  SurfacesInv'
<1>1. /\ ~IsContext(c) /\ (\A s \in T : IsSurface(s))
      /\ \A o \in Contexts : T \cap targets[o] = {}
  BY DEF CreateContext
<1>2. \A s \in T : MayAssociate(s)
  BY <1>1, SurfacesAreFree
<1>3. /\ codec' = [codec EXCEPT ![c] = k] /\ target' = [target EXCEPT ![c] = NONE]
      /\ targets' = [targets EXCEPT ![c] = T]
      /\ assoc' = Associate(c, T) /\ status' = status
  BY <1>2 DEF CreateContext
<1>4. /\ targets'[c] = T /\ target'[c] = NONE /\ codec'[c] # NONE
      /\ \A o \in Contexts : o # c => /\ targets'[o] = targets[o] /\ target'[o] = target[o]
                                     /\ codec'[o] = codec[o]
  BY <1>3, Constants DEF SurfacesInv, TypeOK
<1>5. TargetsOwned'
  BY <1>1, <1>3, <1>4 DEF SurfacesInv, TargetsOwned, IsOpen, IsContext, IsSurface
<1>6. AssociationsAgree'
  <2> SUFFICES ASSUME NEW s \in Surfaces, IsSurface(s), NEW o \in Contexts
               PROVE  assoc'[s] = o <=> s \in targets'[o]
    BY <1>3 DEF AssociationsAgree, IsSurface
  <2>1. assoc'[s] = IF s \in T THEN c ELSE assoc[s]
    BY <1>3 DEF Associate
  <2>2. assoc[s] = o <=> s \in targets[o]
    BY DEF SurfacesInv, AssociationsAgree
  <2>3. targets[c] = {}
    BY <1>1 DEF SurfacesInv, TargetsOwned
  <2> QED
    BY <1>1, <1>4, <2>1, <2>2, <2>3
<1> QED
  BY <1>5, <1>6 DEF SurfacesInv

(* vaDestroyContext takes the association of all its surfaces away.        *)
LEMMA DestroyDissociates ==
  ASSUME SurfacesInv, TypeOK', NEW c \in Contexts, DestroyContext(c), DeadIsSound(c)
  PROVE  SurfacesInv'
<1>1. /\ codec' = [codec EXCEPT ![c] = NONE] /\ target' = [target EXCEPT ![c] = NONE]
      /\ targets' = [targets EXCEPT ![c] = {}]
      /\ assoc' = Dissociate(c) /\ status' = status
  BY DEF DestroyContext
<1>2. /\ targets'[c] = {} /\ target'[c] = NONE
      /\ \A o \in Contexts : o # c => /\ targets'[o] = targets[o] /\ target'[o] = target[o]
                                     /\ codec'[o] = codec[o]
  BY <1>1 DEF SurfacesInv, TypeOK
<1>3. TargetsOwned'
  BY <1>1, <1>2 DEF SurfacesInv, TargetsOwned, IsOpen, IsContext, IsSurface
<1>4. AssociationsAgree'
  <2> SUFFICES ASSUME NEW s \in Surfaces, IsSurface(s), NEW o \in Contexts
               PROVE  assoc'[s] = o <=> s \in targets'[o]
    BY <1>1 DEF AssociationsAgree, IsSurface
  <2>1. assoc'[s] = IF s \in targets[c] THEN NONE ELSE assoc[s]
    BY <1>1 DEF Dissociate
  <2>2. (assoc[s] = o <=> s \in targets[o]) /\ (assoc[s] = c <=> s \in targets[c])
    BY DEF SurfacesInv, AssociationsAgree
  <2> QED
    BY <1>2, <2>1, <2>2, Constants
<1> QED
  BY <1>3, <1>4 DEF SurfacesInv

(* vaBeginPicture and vaEndPicture.                                        *)
LEMMA PictureTargets ==
  ASSUME SurfacesInv, TypeOK', Promised("surfaces"), NEW c \in Contexts, DeadIsSound(c),
         (\E s \in Surfaces : BeginPicture(c, s)) \/ EndPicture(c)
  PROVE  SurfacesInv'
<1>1. ASSUME NEW s \in Surfaces, BeginPicture(c, s) PROVE SurfacesInv'
  <2>1. /\ IsContext(c) /\ IsSurface(s) /\ s \in targets[c]
        /\ target' = [target EXCEPT ![c] = s]
        /\ status' = [status EXCEPT ![s] = "rendering"]
        /\ UNCHANGED <<codec, targets, assoc>>
    BY <1>1 DEF BeginPicture
  <2>2. /\ target'[c] = s
        /\ \A o \in Contexts : o # c => target'[o] = target[o]
        /\ \A t \in Surfaces : IsSurface(t)' <=> IsSurface(t)
        /\ \A o \in Contexts : targets[o] \subseteq Surfaces
    BY <2>1, DecodeAssumption DEF SurfacesInv, TypeOK, IsSurface
  <2>3. TargetsOwned'
    BY <2>1, <2>2 DEF SurfacesInv, TargetsOwned, IsOpen, IsContext
  <2>4. AssociationsAgree'
    BY <2>1, <2>2 DEF SurfacesInv, AssociationsAgree
  <2> QED
    BY <2>3, <2>4 DEF SurfacesInv
<1>2. CASE EndPicture(c)
  <2>1. /\ target' = [target EXCEPT ![c] = NONE]
        /\ UNCHANGED <<codec, targets, status, assoc>>
    BY <1>2 DEF EndPicture, surfaceVars
  <2>2. /\ target'[c] = NONE
        /\ \A o \in Contexts : o # c => target'[o] = target[o]
    BY <2>1 DEF SurfacesInv, TypeOK
  <2>3. TargetsOwned'
    BY <2>1, <2>2 DEF SurfacesInv, TargetsOwned, IsOpen, IsContext, IsSurface
  <2>4. AssociationsAgree'
    BY <2>1 DEF SurfacesInv, AssociationsAgree, IsSurface
  <2> QED
    BY <2>3, <2>4 DEF SurfacesInv
<1> QED
  BY <1>1, <1>2

(* Every step keeps associations.                                          *)
LEMMA SurfacesNext ==
  ASSUME SurfacesInv, Promised("surfaces"), [Next]_vars
  PROVE  SurfacesInv'
<1> USE DEF sessionVars, surfaceVars, translateFrame
<1>0. TypeOK'
  BY TypeNext DEF SurfacesInv
<1>1. ASSUME UNCHANGED <<codec, targets, target, status, assoc>> PROVE SurfacesInv'
  BY <1>0, <1>1, SurfacesFrame
<1>2. ASSUME NEW c \in Contexts,
             \/ DestroyContext(c) \/ (\E s \in Surfaces : BeginPicture(c, s)) \/ EndPicture(c)
      PROVE  SurfacesInv'
  <2>1. CASE DeadIsSound(c)
    BY <1>0, <1>2, <2>1, DestroyDissociates, PictureTargets
  <2>2. CASE ~DeadIsSound(c)
    BY <1>1, <1>2, <2>2 DEF DestroyContext, BeginPicture, EndPicture, Crash
  <2> QED
    BY <2>1, <2>2
<1>3. ASSUME NEW c \in Contexts, NEW b \in Buffers,
             \/ \E t \in Types : CreateBuffer(c, b, t)
             \/ DestroyBuffer(c, b)
      PROVE  SurfacesInv'
  BY <1>1, <1>3 DEF CreateBuffer, DestroyBuffer
<1>4. ASSUME NEW c \in Contexts, NEW b \in Buffers,
             \/ TranslateCopied(c, b) \/ TranslatePicParam(c, b)
             \/ TranslateSliceParam(c, b) \/ TranslateSliceData(c, b)
             \/ TranslateRejected(c, b) \/ AppendFails(c, b) \/ TranslateCrashes(c, b)
             \/ GenerateFails(c, b) \/ HeaderOverlong(c, b) \/ GenerateOverruns(c, b)
      PROVE  SurfacesInv'
  BY <1>1, <1>4 DEF TranslateCopied, TranslatePicParam, TranslateSliceParam, TranslateSliceData,
                    TranslateRejected, AppendFails, TranslateCrashes, GenerateFails,
                    HeaderOverlong, GenerateOverruns, Crash
<1>5. ASSUME NEW c \in Contexts, NEW list \in Lists, RenderPicture(c, list) PROVE SurfacesInv'
  BY <1>1, <1>5 DEF RenderPicture, Crash
<1>6. CASE UNCHANGED vars
  BY <1>1, <1>6 DEF vars
<1>7. ASSUME NEW c \in Contexts, NEW k \in Codecs, NEW T \in SUBSET Surfaces, CreateContext(c, k, T)
      PROVE  SurfacesInv'
  BY <1>0, <1>7, CreateAssociates
<1>8. ASSUME NEW s \in Surfaces, CreateSurface(s) \/ DestroySurface(s) PROVE SurfacesInv'
  BY <1>0, <1>8, SurfaceLives
<1> QED
  BY <1>2, <1>3, <1>4, <1>5, <1>6, <1>7, <1>8 DEF Next

(***************************************************************************)
(* The inductive invariant of surfaces, if applications give a surface to  *)
(* one context and destroy it after that.                                  *)
(***************************************************************************)
THEOREM SurfacesInvariant ==
  ASSUME Promised("surfaces")
  PROVE  Spec => []SurfacesInv
<1>1. Init => SurfacesInv
  <2>1. Init => TargetsOwned /\ AssociationsAgree
    BY DEF Init, TargetsOwned, AssociationsAgree, IsOpen, IsContext, IsSurface
  <2> QED
    BY <2>1, TypeInit DEF SurfacesInv
<1>2. SurfacesInv /\ [Next]_vars => SurfacesInv'
  BY SurfacesNext
<1> QED
  BY <1>1, <1>2, PTL DEF Spec

(***************************************************************************)
(* va_context of a surface and render_targets of a context never disagree, *)
(* under the same promise.                                                 *)
(***************************************************************************)
THEOREM AssociationsStayInAgreement ==
  ASSUME Promised("surfaces")
  PROVE  Spec => []AssociationsAgree
<1>1. SurfacesInv => AssociationsAgree
  BY DEF SurfacesInv
<1> QED
  BY <1>1, SurfacesInvariant, PTL

-----------------------------------------------------------------------------
(***************************************************************************)
(* Assertions and NULL pointers.                                           *)
(***************************************************************************)
(* Nothing happens after a fault.                                          *)
LEMMA FaultsAreFinal ==
  ASSUME fault # "none", [Next]_vars
  PROVE  UNCHANGED vars
<1>1. ASSUME NEW s \in Surfaces, CreateSurface(s) \/ DestroySurface(s) PROVE FALSE
  BY <1>1 DEF CreateSurface, DestroySurface
<1>2. ASSUME NEW c \in Contexts,
             \/ \E k \in Codecs, T \in SUBSET Surfaces : CreateContext(c, k, T)
             \/ DestroyContext(c) \/ EndPicture(c)
             \/ \E s \in Surfaces : BeginPicture(c, s)
             \/ \E list \in Lists : RenderPicture(c, list)
      PROVE  FALSE
  BY <1>2 DEF CreateContext, DestroyContext, EndPicture, BeginPicture, RenderPicture, Idle
<1>3. ASSUME NEW c \in Contexts, NEW b \in Buffers,
             (\E t \in Types : CreateBuffer(c, b, t)) \/ DestroyBuffer(c, b)
      PROVE  FALSE
  BY <1>3 DEF CreateBuffer, DestroyBuffer, Idle
<1>4. ASSUME NEW c \in Contexts, NEW b \in Buffers,
             \/ TranslateCopied(c, b) \/ TranslatePicParam(c, b)
             \/ TranslateSliceParam(c, b) \/ TranslateSliceData(c, b)
             \/ TranslateRejected(c, b) \/ AppendFails(c, b) \/ TranslateCrashes(c, b)
             \/ GenerateFails(c, b) \/ HeaderOverlong(c, b) \/ GenerateOverruns(c, b)
      PROVE  FALSE
  BY <1>4 DEF TranslateCopied, TranslatePicParam, TranslateSliceParam, TranslateSliceData,
              TranslateRejected, AppendFails, TranslateCrashes, GenerateFails, HeaderOverlong,
              GenerateOverruns, Translates
<1> QED
  BY <1>1, <1>2, <1>3, <1>4 DEF Next

(* Every fault is one of the two that promises do not prevent.             *)
LEMMA FaultsNext ==
  ASSUME AccountInv, ParamsPrecede, SurfacesInv, NeverFaults, [Next]_vars,
         Promised("held"), Promised("surfaces")
  PROVE  NeverFaults'
<1> USE DEF translateFrame
<1>1. ASSUME NEW c \in Contexts, NEW k \in Codecs, NEW T \in SUBSET Surfaces, CreateContext(c, k, T)
      PROVE  fault' = fault
  <2>1. \A s \in T : MayAssociate(s)
    BY <1>1, SurfacesAreFree DEF CreateContext
  <2> QED
    BY <1>1, <2>1 DEF CreateContext
<1>2. ASSUME NEW c \in Contexts,
             \/ DestroyContext(c) \/ (\E s \in Surfaces : BeginPicture(c, s)) \/ EndPicture(c)
      PROVE  fault' = fault
  BY <1>2, DeadAreSound DEF DestroyContext, BeginPicture, EndPicture
<1>3. ASSUME NEW c \in Contexts, NEW list \in Lists, RenderPicture(c, list) PROVE fault' = fault
  <2>1. \A b \in Range(list) : IsBuffer(b)
    BY <1>3 DEF RenderPicture, AccountInv, HeldExist, TypeOK
  <2> QED
    BY <1>3, <2>1 DEF RenderPicture
<1>4. ASSUME NEW c \in Contexts, NEW b \in Buffers, TranslateCrashes(c, b) PROVE FALSE
  <2>1. pending[c] # <<>> /\ b = Head(pending[c]) /\ pending[c] \in Seq(Buffers)
    BY <1>4 DEF TranslateCrashes, AccountInv, TypeOK
  <2>2. b \in held[c] /\ IsBuffer(b)
    BY <2>1, HeadIsHeld DEF AccountInv, HeldExist
  <2>3. type[b] = "data" /\ HeaderFault(c)
    BY <1>4, <2>2 DEF TranslateCrashes
  <2>4. 1 \in DOMAIN pending[c] /\ pending[c][1] = b
    BY <2>1, EmptySeq, LenProperties
  <2>5. Described(c, pending[c], 1)
    BY <2>3, <2>4 DEF ParamsPrecede
  <2> QED
    BY <2>3, <2>5 DEF Described, Precedes, HeaderFault, NeedsHeader
<1>5. ASSUME NEW c \in Contexts, NEW b \in Buffers,
             \/ TranslateCopied(c, b) \/ TranslatePicParam(c, b)
             \/ TranslateSliceParam(c, b) \/ TranslateSliceData(c, b)
             \/ TranslateRejected(c, b) \/ AppendFails(c, b) \/ GenerateFails(c, b)
      PROVE  fault' = fault
  BY <1>5 DEF TranslateCopied, TranslatePicParam, TranslateSliceParam, TranslateSliceData,
              TranslateRejected, AppendFails, GenerateFails
<1>6. ASSUME NEW c \in Contexts, NEW b \in Buffers,
             (\E t \in Types : CreateBuffer(c, b, t)) \/ DestroyBuffer(c, b)
      PROVE  fault' = fault
  BY <1>6 DEF CreateBuffer, DestroyBuffer
<1>7. ASSUME NEW s \in Surfaces, CreateSurface(s) \/ DestroySurface(s) PROVE fault' = fault
  BY <1>7 DEF CreateSurface, DestroySurface
<1>8. ASSUME UNCHANGED vars PROVE fault' = fault
  BY <1>8 DEF vars
<1>9. ASSUME NEW c \in Contexts, NEW b \in Buffers, HeaderOverlong(c, b)
      PROVE  fault' = "overlong"
  BY <1>9 DEF HeaderOverlong, Crash
<1>10. ASSUME NEW c \in Contexts, NEW b \in Buffers, GenerateOverruns(c, b)
       PROVE  NeverFaults'
  <2>1. /\ ~IsRoom(c) /\ fault' # "abort"
        /\ UNCHANGED <<genSize, genMax, genRoom>>
    BY <1>10 DEF GenerateOverruns, Crash, pictureVars
  <2>2. /\ genSize[c] \in Nat /\ genMax[c] \in Nat /\ genRoom[c] \in Nat
        /\ ~(genSize[c] + 1 > genMax[c]) /\ ~(genSize[c] < genRoom[c])
    BY <2>1 DEF IsRoom, GenGrows, AccountInv, TypeOK
  <2>3. genRoom[c] < genMax[c]
    BY <2>2
  <2> QED
    BY <2>1, <2>3 DEF NeverFaults
<1>11. CASE fault = "none"
  <2>1. fault' = fault => NeverFaults'
    BY <1>11 DEF NeverFaults
  <2>2. fault' = "overlong" => NeverFaults'
    BY DEF NeverFaults
  <2> QED
    BY <1>1, <1>2, <1>3, <1>4, <1>5, <1>6, <1>7, <1>8, <1>9, <1>10, <2>1, <2>2 DEF Next
<1>12. CASE fault # "none"
  <2>1. UNCHANGED vars
    BY <1>12, FaultsAreFinal
  <2> QED
    BY <2>1 DEF NeverFaults, vars, pictureVars
<1> QED
  BY <1>11, <1>12

(***************************************************************************)
(* No ASSERT of the decoding calls fails, no NULL pointer is used and no   *)
(* block overrun, in a debug build or not, for every codec, if the         *)
(* application keeps all three promises, but for a VOP header with more    *)
(* bits than it has and for a block that did not grow when memory was      *)
(* short.                                                                  *)
(***************************************************************************)
THEOREM DecodingNeverFaults ==
  ASSUME Promised("held"), Promised("order"), Promised("surfaces")
  PROVE  Spec => []NeverFaults
<1>1. Init => NeverFaults
  BY DEF Init, NeverFaults
<1>2. AccountInv /\ ParamsPrecede /\ SurfacesInv /\ NeverFaults /\ [Next]_vars => NeverFaults'
  BY FaultsNext
<1> QED
  BY <1>1, <1>2, AccountInvariant, DataIsDescribed, SurfacesInvariant, PTL DEF Spec

=============================================================================
