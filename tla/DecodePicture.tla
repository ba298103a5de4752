---------------------------- MODULE DecodePicture ----------------------------
(***************************************************************************)
(* vdpau_buffer.c, vdpau_decode.c and the contexts and surfaces of         *)
(* vdpau_video.c: a picture is opened by vaBeginPicture, fed with buffers  *)
(* by vaRenderPicture and decoded by vaEndPicture.  Translating a buffer   *)
(* stores pointers into it; the buffer must therefore outlive the picture, *)
(* and is destroyed later through the dead_buffers list of its context.    *)
(*                                                                         *)
(* Every context is driven by a thread of its own, named by the context.   *)
(* vaRenderPicture takes one step to verify its list and one per buffer,   *)
(* so that the threads interleave; the other calls touch shared objects    *)
(* only through the heaps and take one step each.                          *)
(*                                                                         *)
(* Abstractions: an object ID is the slot it names, free again once the    *)
(* object is destroyed, and its fields are then cleared.  A pointer is the *)
(* block it points to: a buffer, GEN for the generated slice data of the   *)
(* context, FREED for memory given back to the allocator.  A slice data    *)
(* buffer holds one slice.  The constant start codes put before slices are *)
(* left out.                                                               *)
(***************************************************************************)
EXTENDS Naturals, Sequences, FiniteSets, Functions

CONSTANTS
  Contexts, Surfaces, Buffers,  (* object IDs                              *)
  Codecs,         (* codecs contexts are created for                       *)
  Types,          (* types of the buffers the application creates          *)
  RefCounts,      (* values of num_ref_frames in a picture info            *)
  MaxList,        (* buffers of one vaRenderPicture call                   *)
  AppRules,       (* what the application promises, see AllRules           *)
  USE_DEBUG,      (* built with --enable-debug (the default)               *)
  MemoryShort,    (* realloc may fail                                      *)
  MaxHeaders,     (* bound: headers generated for one picture              *)
  GEN, FREED, NONE

(* held: only own buffers are rendered, each once.                         *)
(* order: slice parameters come before the slice data they describe.       *)
(* surfaces: a surface goes to one context and is destroyed after it.      *)
AllRules == {"held", "order", "surfaces"}
AllCodecs == {"MPEG2", "MPEG4", "H264", "VC1", "VP9"}
AllTypes == {"pic", "iq", "param", "data", "plane"}

ASSUME DecodeAssumption ==
  /\ Codecs \subseteq AllCodecs /\ Types \subseteq AllTypes
  /\ RefCounts \subseteq 0..16 /\ MaxList \in Nat /\ AppRules \subseteq AllRules
  /\ USE_DEBUG \in BOOLEAN /\ MemoryShort \in BOOLEAN /\ MaxHeaders \in Nat
  /\ GEN \notin Buffers /\ FREED \notin Buffers /\ NONE \notin Buffers
  /\ GEN # FREED /\ GEN # NONE /\ FREED # NONE /\ NONE \notin Nat
  /\ NONE \notin Surfaces \cup Contexts \cup AllCodecs \cup AllTypes
             \cup {"ready", "rendering"}

VARIABLES
  codec,          (* vdp_codec of every context, NONE while it has no object *)
  targets,        (* render_targets                                        *)
  target,         (* current_render_target                                 *)
  bits,           (* blocks vdp_bitstream_buffers points into              *)
  sliceParams,    (* last_slice_params                                     *)
  picParam,       (* last_pic_param                                        *)
  genSize, genMax,(* gen_slice_data_size and _size_max, in slice headers   *)
  genRoom,        (* headers the block of gen_slice_data has room for      *)
  decoder,        (* max_ref_frames of vdp_decoder, NONE while none exists *)
  dead,           (* how often an ID stands in dead_buffers                *)
  pending,        (* buffers vaRenderPicture still has to translate        *)
  type,           (* type of every buffer, NONE while it has no object     *)
  owner,          (* va_context of every buffer                            *)
  delayed,        (* delayed_destroy                                       *)
  status,         (* va_surface_status, NONE while there is no object      *)
  assoc,          (* va_context of every surface                           *)
  fault,          (* none, null (NULL dereference), abort (ASSERT), overrun *)
                  (* (written past the end of a block), or overlong (either *)
                  (* of these, for a VOP header)                           *)
  held,           (* history: IDs a thread created and did not pass on     *)
  sent,           (* history: slice data of the open picture               *)
  job             (* history: references asked of and held by the decoder  *)

pictureVars == <<bits, sliceParams, picParam, genSize, genMax, genRoom>>
bufferVars  == <<type, owner, delayed>>
surfaceVars == <<status, assoc>>
sessionVars == <<codec, targets, target, decoder>>
vars == <<sessionVars, pictureVars, bufferVars, surfaceVars, dead, pending,
          fault, held, sent, job>>

Blocks   == Buffers \cup {GEN, FREED}
NoJob    == [asked |-> 0, capacity |-> 0]
Promised(rule) == rule \in AppRules

IsContext(c) == codec[c] # NONE
IsSurface(s) == s # NONE /\ status[s] # NONE
IsBuffer(b)  == type[b] # NONE
IsOpen(c)    == IsContext(c) /\ target[c] # NONE

(* The thread of context c is between two calls.                           *)
Idle(c) == fault = "none" /\ pending[c] = <<>>

Init ==
  /\ codec = [c \in Contexts |-> NONE]
  /\ targets = [c \in Contexts |-> {}]
  /\ target = [c \in Contexts |-> NONE]
  /\ bits = [c \in Contexts |-> {}]
  /\ sliceParams = [c \in Contexts |-> NONE]
  /\ picParam = [c \in Contexts |-> NONE]
  /\ genSize = [c \in Contexts |-> 0]
  /\ genMax = [c \in Contexts |-> 0]
  /\ genRoom = [c \in Contexts |-> 0]
  /\ decoder = [c \in Contexts |-> NONE]
  /\ dead = [c \in Contexts |-> [b \in Buffers |-> 0]]
  /\ pending = [c \in Contexts |-> <<>>]
  /\ type = [b \in Buffers |-> NONE]
  /\ owner = [b \in Buffers |-> NONE]
  /\ delayed = [b \in Buffers |-> FALSE]
  /\ status = [s \in Surfaces |-> NONE]
  /\ assoc = [s \in Surfaces |-> NONE]
  /\ fault = "none"
  /\ held = [c \in Contexts |-> {}]
  /\ sent = [c \in Contexts |-> {}]
  /\ job = NoJob

(* A failed ASSERT or a NULL dereference ends the process, and nothing is  *)
(* said of what follows an overrun.                                        *)
Crash(kind) ==
  /\ fault' = kind
  /\ UNCHANGED <<sessionVars, pictureVars, bufferVars, surfaceVars, dead,
                 pending, held, sent, job>>
-----------------------------------------------------------------------------
(***************************************************************************)
(* destroy_va_buffer of every buffer of D: what pointed to it, in any      *)
(* context, now points to freed memory.  blocks, slices and pics are the   *)
(* pointers as the rest of the step leaves them.                           *)
(***************************************************************************)
Pointer(p, D)  == IF p \in D THEN FREED ELSE p
Pointers(P, D) == IF P \cap D = {} THEN P ELSE (P \ D) \cup {FREED}

DestroyBuffers(D, blocks, slices, pics) ==
  /\ type' = [b \in Buffers |-> IF b \in D THEN NONE ELSE type[b]]
  /\ owner' = [b \in Buffers |-> IF b \in D THEN NONE ELSE owner[b]]
  /\ delayed' = [b \in Buffers |-> b \notin D /\ delayed[b]]
  /\ bits' = [c \in Contexts |-> Pointers(blocks[c], D)]
  /\ sliceParams' = [c \in Contexts |-> Pointer(slices[c], D)]
  /\ picParam' = [c \in Contexts |-> Pointer(pics[c], D)]

(* The buffers on the dead_buffers list of c; ASSERT(obj_buffer) holds for *)
(* each of its entries when it is walked.                                  *)
Dead(c) == {b \in Buffers : dead[c][b] > 0}
DeadIsSound(c) == \A b \in Dead(c) : dead[c][b] = 1 /\ IsBuffer(b)

ClearDead(c) == dead' = [dead EXCEPT ![c] = [b \in Buffers |-> 0]]

(* vaCreateBuffer, with the ID of the context that is going to render it.  *)
CreateBuffer(c, b, t) ==
  /\ Idle(c) /\ IsContext(c)
  /\ ~IsBuffer(b)
  /\ type' = [type EXCEPT ![b] = t]
  /\ owner' = [owner EXCEPT ![b] = c]
  /\ delayed' = [delayed EXCEPT ![b] = FALSE]
  /\ held' = [held EXCEPT ![c] = @ \cup {b}]
  /\ job' = NoJob
  /\ UNCHANGED <<sessionVars, pictureVars, surfaceVars, dead, pending, fault, sent>>

(***************************************************************************)
(* vaDestroyBuffer.  Applications also pass buffers that were rendered     *)
(* just before and wait for destruction; the driver ignores those.         *)
(***************************************************************************)
AnyIsDestroyable(b) == IsBuffer(b)   (* mutant: delayed_destroy ignored    *)
IsDestroyable(b) == IsBuffer(b) /\ ~delayed[b]

DestroyBuffer(c, b) ==
  /\ Idle(c)
  /\ Promised("held") => b \in held[c] \/ (IsBuffer(b) /\ owner[b] = c /\ delayed[b])
  /\ IF IsDestroyable(b)
     THEN DestroyBuffers({b}, bits, sliceParams, picParam)
     ELSE UNCHANGED <<bufferVars, bits, sliceParams, picParam>>
  /\ held' = [held EXCEPT ![c] = @ \ {b}]
  /\ job' = NoJob
  /\ UNCHANGED <<sessionVars, genSize, genMax, genRoom, surfaceVars, dead, pending,
                 fault, sent>>
-----------------------------------------------------------------------------
(***************************************************************************)
(* The parts of vaCreateSurfaces and vaDestroySurfaces that concern a      *)
(* surface's life; mixers, output surfaces and subpictures are elsewhere.  *)
(***************************************************************************)
CreateSurface(s) ==
  /\ fault = "none"
  /\ ~IsSurface(s)
  /\ status' = [status EXCEPT ![s] = "ready"]
  /\ assoc' = [assoc EXCEPT ![s] = NONE]
  /\ job' = NoJob
  /\ UNCHANGED <<sessionVars, pictureVars, bufferVars, dead, pending, fault, held, sent>>

DestroySurface(s) ==
  /\ fault = "none"
  /\ IsSurface(s)
  /\ Promised("surfaces") => \A c \in Contexts : s \notin targets[c]
  /\ status' = [status EXCEPT ![s] = NONE]
  /\ assoc' = [assoc EXCEPT ![s] = NONE]
  /\ job' = NoJob
  /\ UNCHANGED <<codec, targets, target, decoder, pictureVars, bufferVars,
                 dead, pending, fault, held, sent>>

(***************************************************************************)
(* vaCreateContext with live surfaces; a list that holds another ID undoes *)
(* its associations again.  An associated surface fails an ASSERT.         *)
(***************************************************************************)
MayAssociate(s) == assoc[s] = NONE
Associate(c, T) == [s \in Surfaces |-> IF s \in T THEN c ELSE assoc[s]]

CreateContext(c, k, T) ==
  /\ Idle(c) /\ ~IsContext(c)
  /\ \A s \in T : IsSurface(s)
  /\ Promised("surfaces") => \A o \in Contexts : T \cap targets[o] = {}
  /\ IF \A s \in T : MayAssociate(s)
     THEN /\ codec' = [codec EXCEPT ![c] = k]
          /\ targets' = [targets EXCEPT ![c] = T]
          /\ target' = [target EXCEPT ![c] = NONE]
          /\ decoder' = [decoder EXCEPT ![c] = NONE]
          /\ dead' = [dead EXCEPT ![c] = [b \in Buffers |-> 0]]
          /\ genSize' = [genSize EXCEPT ![c] = 0]
          /\ genMax' = [genMax EXCEPT ![c] = 0]
          /\ genRoom' = [genRoom EXCEPT ![c] = 0]
          /\ bits' = [bits EXCEPT ![c] = {}]
          /\ assoc' = Associate(c, T)
          /\ sent' = [sent EXCEPT ![c] = {}]
          /\ job' = NoJob
          /\ UNCHANGED <<sliceParams, picParam, bufferVars, status, pending, fault, held>>
     ELSE Crash("abort")

(***************************************************************************)
(* vaDestroyContext.  render_targets may name a surface that was destroyed *)
(* and created again: it loses its association all the same.               *)
(***************************************************************************)
DissociateNot(c) == assoc             (* mutant: va_context is left set     *)
Dissociate(c) == [s \in Surfaces |-> IF s \in targets[c] /\ IsSurface(s)
                                     THEN NONE ELSE assoc[s]]

DestroyContext(c) ==
  /\ Idle(c) /\ IsContext(c)
  /\ IF DeadIsSound(c)
     THEN /\ DestroyBuffers(Dead(c), [bits EXCEPT ![c] = {}], sliceParams, picParam)
          /\ ClearDead(c)
          /\ genSize' = [genSize EXCEPT ![c] = 0]
          /\ genMax' = [genMax EXCEPT ![c] = 0]
          /\ genRoom' = [genRoom EXCEPT ![c] = 0]
          /\ assoc' = Dissociate(c)
          /\ codec' = [codec EXCEPT ![c] = NONE]
          /\ targets' = [targets EXCEPT ![c] = {}]
          /\ target' = [target EXCEPT ![c] = NONE]
          /\ decoder' = [decoder EXCEPT ![c] = NONE]
          /\ sent' = [sent EXCEPT ![c] = {}]
          /\ job' = NoJob
          /\ UNCHANGED <<status, pending, fault, held>>
     ELSE Crash("abort")
-----------------------------------------------------------------------------
(***************************************************************************)
(* vaBeginPicture: everything the last picture left is dropped, then the   *)
(* buffers it left behind are destroyed.                                   *)
(***************************************************************************)
FreshParamsKept(c) == sliceParams    (* mutant: last_slice_params survives *)
FreshParams(c) == [sliceParams EXCEPT ![c] = NONE]

BeginPicture(c, s) ==
  /\ Idle(c) /\ IsContext(c) /\ IsSurface(s)
  /\ Promised("surfaces") => s \in targets[c]
  /\ IF DeadIsSound(c)
     THEN /\ status' = [status EXCEPT ![s] = "rendering"]
          /\ target' = [target EXCEPT ![c] = s]
          /\ genSize' = [genSize EXCEPT ![c] = 0]
          /\ DestroyBuffers(Dead(c), [bits EXCEPT ![c] = {}], FreshParams(c),
                            [picParam EXCEPT ![c] = NONE])
          /\ ClearDead(c)
          /\ sent' = [sent EXCEPT ![c] = {}]
          /\ job' = NoJob
          /\ UNCHANGED <<codec, targets, decoder, genMax, genRoom, assoc, pending, fault, held>>
     ELSE Crash("abort")

(***************************************************************************)
(* vaRenderPicture, first loop: verify that every ID is a buffer.  The     *)
(* trace message of a debug build reads the type before the check.         *)
(***************************************************************************)
Precedes(list, i, t) == \E j \in 1..(i - 1) : type[list[j]] = t

Described(c, list, i) ==
  /\ sliceParams[c] # NONE \/ Precedes(list, i, "param")
  /\ codec[c] = "MPEG4" => picParam[c] # NONE \/ Precedes(list, i, "pic")

RenderPicture(c, list) ==
  /\ Idle(c) /\ IsContext(c) /\ IsSurface(target[c])
  /\ Promised("held") => Range(list) \subseteq held[c] /\ IsInjective(list)
  /\ Promised("order") =>
       \A i \in DOMAIN list : type[list[i]] = "data" => Described(c, list, i)
  /\ IF \A b \in Range(list) : IsBuffer(b)
     THEN /\ pending' = [pending EXCEPT ![c] = list]
          /\ job' = NoJob
          /\ UNCHANGED <<sessionVars, pictureVars, bufferVars, surfaceVars, dead,
                         fault, held, sent>>
     ELSE USE_DEBUG /\ Crash("null")
-----------------------------------------------------------------------------
(***************************************************************************)
(* vaRenderPicture, second loop, one buffer per step.  translate_info says *)
(* which buffers a codec knows; slice data is known to all.                *)
(***************************************************************************)
Translatable(k, t) ==
  CASE t \in {"pic", "param", "data"} -> TRUE
    [] t = "iq"    -> k \in {"MPEG2", "MPEG4", "H264"}
    [] t = "plane" -> k = "VC1"

(* Rejected for what the buffer says: a reference that is no surface, a    *)
(* short video header, a bit depth the hardware does not decode.           *)
MayReject(k, t) == t = "pic" \/ (k = "VP9" /\ t = "param")

(* Buffers kept until the picture ends, because pointers into them are.    *)
Retained(k, t) == t \in {"param", "data"} \/ (k = "MPEG4" /\ t = "pic")

(* schedule_destroy_va_buffer: onto the list of the buffer's own context.  *)
ScheduleUnmarked(b) ==           (* mutant: delayed_destroy is not set     *)
  /\ dead' = [dead EXCEPT ![owner[b]][b] = @ + 1]
  /\ UNCHANGED delayed

Schedule(b) ==
  IF owner[b] # NONE /\ IsContext(owner[b])
  THEN /\ dead' = [dead EXCEPT ![owner[b]][b] = @ + 1]
       /\ delayed' = [delayed EXCEPT ![b] = TRUE]
  ELSE UNCHANGED <<dead, delayed>>

(* The buffer is dealt with; the caller's list entry becomes invalid.      *)
Consume(c, b) ==
  /\ pending' = [pending EXCEPT ![c] = Tail(@)]
  /\ held' = [held EXCEPT ![c] = @ \ {b}]

Retain(c, b) ==
  /\ Consume(c, b)
  /\ Schedule(b)
  /\ UNCHANGED <<type, owner>>

GiveUp(c) == pending' = [pending EXCEPT ![c] = <<>>]

(* Buffer b is translated next, as one of type t.                          *)
Translates(c, b, t) ==
  /\ fault = "none"
  /\ pending[c] # <<>> /\ b = Head(pending[c])
  /\ type[b] = t
  /\ Translatable(codec[c], t)

translateFrame == <<sessionVars, surfaceVars, fault, job>>

(* Contents are copied into the picture info, and the buffer destroyed.    *)
TranslateCopied(c, b) ==
  /\ \E t \in Types : Translates(c, b, t) /\ ~Retained(codec[c], t)
  /\ DestroyBuffers({b}, bits, sliceParams, picParam)
  /\ Consume(c, b)
  /\ UNCHANGED <<translateFrame, genSize, genMax, genRoom, dead, sent>>

(* translate_VAPictureParameterBufferMPEG4 keeps a pointer.                *)
TranslatePicParam(c, b) ==
  /\ Translates(c, b, "pic") /\ Retained(codec[c], "pic")
  /\ picParam' = [picParam EXCEPT ![c] = b]
  /\ Retain(c, b)
  /\ UNCHANGED <<translateFrame, bits, sliceParams, genSize, genMax, genRoom, sent>>

(* translate_VASliceParameterBuffer of every codec.                        *)
TranslateSliceParam(c, b) ==
  /\ Translates(c, b, "param")
  /\ sliceParams' = [sliceParams EXCEPT ![c] = b]
  /\ Retain(c, b)
  /\ UNCHANGED <<translateFrame, bits, picParam, genSize, genMax, genRoom, sent>>

(***************************************************************************)
(* alloc_gen_slice_data: room for one more header.  A block that grows may *)
(* move, and what pointed into it no longer does.  _size_max is raised     *)
(* before realloc, and stays so when that fails: the next call takes the   *)
(* room for granted, and NULL for the start of a block where there is none.*)
(***************************************************************************)
GenGrows(c) == genSize[c] + 1 > genMax[c]
IsRoom(c) == GenGrows(c) \/ genSize[c] < genRoom[c]

TakeRoom(c) ==
  /\ IsRoom(c)
  /\ genSize' = [genSize EXCEPT ![c] = @ + 1]
  /\ genMax' = [genMax EXCEPT ![c] = IF GenGrows(c) THEN @ + 1 ELSE @]
  /\ genRoom' = [genRoom EXCEPT ![c] = IF GenGrows(c) THEN genMax[c] + 1 ELSE @]

Generate(c, moved, ownBits) ==
  /\ TakeRoom(c)
  /\ moved => GenGrows(c)
  /\ bits' = [bits EXCEPT ![c] =
       IF moved THEN Pointers(@, {GEN}) \cup ownBits ELSE @ \cup ownBits]

(***************************************************************************)
(* translate_VASliceDataBuffer.  MPEG4 rebuilds the VOP header before its  *)
(* first slice.  MPEG2 adds a slice header where one is missing.  H264 and *)
(* VP9 look at the slice parameters and append nothing without any.        *)
(***************************************************************************)
NeedsParams(k) == k \in {"H264", "VP9", "MPEG2"}
NeedsHeader(c) == codec[c] = "MPEG4" /\ bits[c] = {}

AppendedFirst(c, b) == IF bits[c] = {} THEN {b} ELSE {}  (* mutant: one slice *)
AppendedOf(c, b) == IF NeedsParams(codec[c]) /\ sliceParams[c] = NONE THEN {} ELSE {b}

(* The header is rebuilt from the last picture and slice parameters.       *)
HeaderFault(c) == NeedsHeader(c) /\ NONE \in {sliceParams[c], picParam[c]}

(* A header is put before the slice, in MPEG2 if it has none.              *)
MayGenerate(c) ==
  /\ NeedsHeader(c) \/ (codec[c] = "MPEG2" /\ sliceParams[c] # NONE)
  /\ genSize[c] < MaxHeaders

TranslateSliceData(c, b) ==
  /\ Translates(c, b, "data") /\ ~HeaderFault(c)
  /\ \/ /\ MayGenerate(c)
        /\ \E moved \in BOOLEAN : Generate(c, moved, {GEN} \cup AppendedOf(c, b))
     \/ /\ ~NeedsHeader(c)
        /\ bits' = [bits EXCEPT ![c] = @ \cup AppendedOf(c, b)]
        /\ UNCHANGED <<genSize, genMax, genRoom>>
  /\ Retain(c, b)
  /\ sent' = [sent EXCEPT ![c] = @ \cup {b}]
  /\ UNCHANGED <<translateFrame, sliceParams, picParam>>

(* translate_buffer returns 0: this buffer and those after it remain with  *)
(* the caller.                                                             *)
TranslateRejected(c, b) ==
  /\ fault = "none"
  /\ pending[c] # <<>> /\ b = Head(pending[c])
  /\ IsBuffer(b)
  /\ Translatable(codec[c], type[b]) => MayReject(codec[c], type[b])
  /\ GiveUp(c)
  /\ UNCHANGED <<translateFrame, pictureVars, bufferVars, dead, held, sent>>

(* alloc_gen_slice_data returns NULL: for want of memory, or as the start  *)
(* of the block it failed to get before.                                   *)
GenerateFails(c, b) ==
  /\ Translates(c, b, "data") /\ ~HeaderFault(c) /\ MayGenerate(c)
  /\ \/ /\ MemoryShort /\ GenGrows(c)
        /\ genMax' = [genMax EXCEPT ![c] = @ + 1]
        /\ UNCHANGED genSize
     \/ /\ ~GenGrows(c) /\ genRoom[c] = 0 /\ genSize[c] = 0
        /\ genSize' = [genSize EXCEPT ![c] = 1]
        /\ UNCHANGED genMax
  /\ GiveUp(c)
  /\ UNCHANGED <<translateFrame, bits, sliceParams, picParam, genRoom, bufferVars,
                 dead, held, sent>>

(* realloc_buffer fails: the array is freed, but its count remains.  A     *)
(* header generated before that has taken its room.                        *)
AppendFails(c, b) ==
  /\ MemoryShort
  /\ Translates(c, b, "data") /\ ~HeaderFault(c) /\ AppendedOf(c, b) # {}
  /\ \/ MayGenerate(c) /\ TakeRoom(c)
     \/ ~NeedsHeader(c) /\ UNCHANGED <<genSize, genMax, genRoom>>
  /\ bits' = [bits EXCEPT ![c] = IF @ = {} THEN {} ELSE {FREED}]
  /\ GiveUp(c)
  /\ UNCHANGED <<translateFrame, sliceParams, picParam, bufferVars, dead, held, sent>>

(* The buffer went away since it was verified, or a header is missing.     *)
TranslateCrashes(c, b) ==
  /\ fault = "none"
  /\ pending[c] # <<>> /\ b = Head(pending[c])
  /\ ~IsBuffer(b) \/ (type[b] = "data" /\ HeaderFault(c))
  /\ Crash("null")

(* A macroblock_offset no byte has fills the VOP header with bits: an      *)
(* ASSERT counts them, if they did not already overrun its buffer.         *)
HeaderOverlong(c, b) ==
  /\ Translates(c, b, "data") /\ ~HeaderFault(c) /\ NeedsHeader(c)
  /\ Crash("overlong")

(* A header is written where the block that did not grow has ended, or     *)
(* would begin after the one header it was refused.                        *)
GenerateOverruns(c, b) ==
  /\ Translates(c, b, "data") /\ ~HeaderFault(c) /\ MayGenerate(c)
  /\ ~IsRoom(c)
  /\ \/ genRoom[c] # 0 /\ Crash("overrun")
     \/ genRoom[c] = 0 /\ genSize[c] # 0 /\ Crash("null")
-----------------------------------------------------------------------------
(***************************************************************************)
(* vaEndPicture: the decoder is created for the references the picture     *)
(* needs, or again if it holds too few; created says whether VDPAU agrees. *)
(* The buffers are given up whether the picture was decoded or not.        *)
(***************************************************************************)
NumRefs(k) == CASE k = "H264" -> RefCounts [] k = "VP9" -> {3} [] OTHER -> {2}

NeedsFirstDecoder(c, n) == decoder[c] = NONE   (* mutant: never recreated  *)
NeedsDecoder(c, n) == decoder[c] # NONE => decoder[c] < n

Decode(c, n) ==
  /\ decoder' = [decoder EXCEPT ![c] = IF NeedsDecoder(c, n) THEN n ELSE @]
  /\ job' = [asked |-> n, capacity |-> decoder'[c]]

EndPicture(c) ==
  /\ Idle(c) /\ IsContext(c) /\ IsSurface(target[c])
  /\ IF DeadIsSound(c)
     THEN /\ \E n \in NumRefs(codec[c]) :
               \/ Decode(c, n)
               \/ /\ NeedsDecoder(c, n)
                  /\ decoder' = [decoder EXCEPT ![c] = NONE]
                  /\ job' = NoJob
          /\ target' = [target EXCEPT ![c] = NONE]
          /\ sent' = [sent EXCEPT ![c] = {}]
          /\ DestroyBuffers(Dead(c), bits, sliceParams, picParam)
          /\ ClearDead(c)
          /\ UNCHANGED <<codec, targets, genSize, genMax, genRoom, surfaceVars, pending,
                         fault, held>>
     ELSE Crash("abort")

(* Lists of buffers an application passes to vaRenderPicture.              *)
Lists == UNION {[1..n -> Buffers] : n \in 1..MaxList}

Next ==
  \/ \E s \in Surfaces : CreateSurface(s) \/ DestroySurface(s)
  \/ \E c \in Contexts :
       \/ \E k \in Codecs, T \in SUBSET Surfaces : CreateContext(c, k, T)
       \/ DestroyContext(c)
       \/ \E b \in Buffers, t \in Types : CreateBuffer(c, b, t)
       \/ \E b \in Buffers : DestroyBuffer(c, b)
       \/ \E s \in Surfaces : BeginPicture(c, s)
       \/ \E list \in Lists : RenderPicture(c, list)
       \/ \E b \in Buffers :
            \/ TranslateCopied(c, b)
            \/ TranslatePicParam(c, b)
            \/ TranslateSliceParam(c, b)
            \/ TranslateSliceData(c, b)
            \/ TranslateRejected(c, b)
            \/ GenerateFails(c, b)
            \/ AppendFails(c, b)
            \/ TranslateCrashes(c, b)
            \/ HeaderOverlong(c, b)
            \/ GenerateOverruns(c, b)
       \/ EndPicture(c)

Spec == Init /\ [][Next]_vars
-----------------------------------------------------------------------------
TypeOK ==
  /\ codec \in [Contexts -> Codecs \cup {NONE}]
  /\ targets \in [Contexts -> SUBSET Surfaces]
  /\ target \in [Contexts -> Surfaces \cup {NONE}]
  /\ bits \in [Contexts -> SUBSET Blocks]
  /\ sliceParams \in [Contexts -> Buffers \cup {FREED, NONE}]
  /\ picParam \in [Contexts -> Buffers \cup {FREED, NONE}]
  /\ genSize \in [Contexts -> Nat] /\ genMax \in [Contexts -> Nat]
  /\ genRoom \in [Contexts -> Nat]
  /\ decoder \in [Contexts -> (0..16) \cup {NONE}]
  /\ dead \in [Contexts -> [Buffers -> Nat]]
  /\ pending \in [Contexts -> Seq(Buffers)]
  /\ type \in [Buffers -> Types \cup {NONE}]
  /\ owner \in [Buffers -> Contexts \cup {NONE}]
  /\ delayed \in [Buffers -> BOOLEAN]
  /\ status \in [Surfaces -> {"ready", "rendering", NONE}]
  /\ assoc \in [Surfaces -> Contexts \cup {NONE}]
  /\ fault \in {"none", "null", "abort", "overrun", "overlong"}
  /\ held \in [Contexts -> SUBSET Buffers]
  /\ sent \in [Contexts -> SUBSET Buffers]
  /\ job \in [asked : 0..16, capacity : 0..16]

(***************************************************************************)
(* While a picture is open, every pointer its translation left behind      *)
(* (vdp_bitstream_buffers, last_slice_params, last_pic_param) is to memory *)
(* that is still allocated, whatever the other threads free and reuse.     *)
(***************************************************************************)
NoDangling ==
  \A c \in Contexts : IsOpen(c) =>
    FREED \notin bits[c] \cup {sliceParams[c], picParam[c]}

(***************************************************************************)
(* A buffer that exists is either held by exactly one thread, or waits     *)
(* exactly once on the dead_buffers list of its own context: it is neither *)
(* leaked nor destroyed twice, and no thread's buffer disappears under it. *)
(* It waits only while a picture is open: vaEndPicture and                 *)
(* vaDestroyContext leave no buffer behind.                                *)
(***************************************************************************)
BuffersAccountedFor ==
  /\ TypeOK
  /\ \A b \in Buffers :
       LET holders == {c \in Contexts : b \in held[c]}
           waiting == {c \in Contexts : dead[c][b] > 0}
       IN IF ~IsBuffer(b) THEN holders = {} /\ waiting = {}
          ELSE IF delayed[b]
          THEN holders = {} /\ waiting = {owner[b]} /\ dead[owner[b]][b] = 1 /\ IsOpen(owner[b])
          ELSE holders = {owner[b]} /\ waiting = {}

(***************************************************************************)
(* Every slice vaRenderPicture accepted since vaBeginPicture is among the  *)
(* buffers the decoder is going to be given.                               *)
(***************************************************************************)
SlicesReachDecoder ==
  \A c \in Contexts : IsOpen(c) => sent[c] \subseteq bits[c]

(***************************************************************************)
(* No ASSERT fails, no NULL pointer is used and nothing is overrun, as     *)
(* long as the application keeps its promises, but for two things: the VOP *)
(* header of a macroblock_offset no byte has, and a header written outside *)
(* its block where that once did not grow, and its size was taken to have. *)
(***************************************************************************)
NeverFaults ==
  fault \notin {"none", "overlong"} =>
    fault # "abort" /\ \E c \in Contexts : genRoom[c] < genMax[c]

(***************************************************************************)
(* The two records of an association agree: a surface points to the one    *)
(* context that lists it among its render targets.                         *)
(***************************************************************************)
AssociationsAgree ==
  \A s \in Surfaces : IsSurface(s) =>
    \A c \in Contexts : assoc[s] = c <=> s \in targets[c]

(* The decoder a picture is given to holds as many references as it needs. *)
DecoderHoldsReferences == job.asked <= job.capacity
=============================================================================
