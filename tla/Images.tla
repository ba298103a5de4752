--------------------------------- MODULE Images ---------------------------------
(***************************************************************************)
(* vdpau_image.c: VA images.  An image is a VA buffer with a layout of     *)
(* planes that VDPAU reads and writes through pointers and pitches; one of *)
(* an RGB format gets a VDPAU output surface the first time a video        *)
(* surface is read into it.                                                *)
(*                                                                         *)
(* An image keeps the memory of its slot in the heap: what an image that   *)
(* was there before has left is what vaCreateImage finds, also on the way  *)
(* out when it fails.                                                      *)
(*                                                                         *)
(* Abstractions: pixels are the components they are said to be, a plane    *)
(* the set of those it holds.  vaGetImage and vaPutImage are called for    *)
(* whole surfaces, since all else is refused.  Once a step has destroyed   *)
(* or overwritten what is not its own, no further step is modelled.        *)
(***************************************************************************)
EXTENDS Integers, Sequences

CONSTANTS
  ImageIDs, BufferIDs, Surfaces, Handles,
  Formats,   (* fourccs the application asks for                         *)
  Sizes,     (* <<width, height>> of surfaces and images                 *)
  Aligns,    (* what malloc's addresses lack to a multiple of 16         *)
  Failing,   (* "buffer", "output", "mix"                                *)
  NONE

ALIGN == 16
INVALID == -1
Components == {"Y", "U", "V"}
PlaneLists == Seq(SUBSET (Components \cup {"RGB", "index"}))

(* The formats of vdpau_image_formats_map, which get_format searches.      *)
Listed == {"NV12", "YV12", "I420", "UYVY", "AYUV", "RGBA", "IA44"}

(* struct object_image, and what is known of a buffer.                     *)
ImageObject ==
  [format : Listed, size : Sizes, align : Aligns, buf : BufferIDs \cup {INVALID},
   rgba : Handles \cup {INVALID}, palette : BOOLEAN]
BufferObject == [owner : ImageIDs \cup {"application"}, planes : PlaneLists]

ASSUME ImagesAssumption ==
  /\ Formats \subseteq Listed \cup {"other"}
  /\ Sizes \subseteq (Nat \ {0}) \X (Nat \ {0}) /\ Aligns \subseteq 0..(ALIGN - 1)
  /\ \A s \in Surfaces : s[2] \in Sizes
  /\ Handles \subseteq Nat
  /\ INVALID \notin BufferIDs /\ "application" \notin ImageIDs
  /\ NONE \notin ImageObject \cup BufferObject

VARIABLES
  live,      (* image IDs the heap has given out                           *)
  image,     (* what the memory of each slot holds                         *)
  buffer,    (* VA buffers: who made it, the components in each plane      *)
  surface,   (* video surfaces: what is taken for Y, for U and for V       *)
  output,    (* external: VDPAU output surfaces that exist                 *)
  astray     (* what a step has destroyed or written that is not its own   *)

vars == <<live, image, buffer, surface, output, astray>>

(* A block of memory; an output surface; a buffer, where the format was    *)
(* one of the map's or was not; bytes outside a plane.                     *)
Astrays == {"memory", "output", "buffer", "unlisted", "overrun"}

Outcomes(what) == IF what \in Failing THEN BOOLEAN ELSE {TRUE}

FormatType(fourcc) ==
  CASE fourcc = "RGBA" -> "RGBA" [] fourcc = "IA44" -> "INDEXED" [] OTHER -> "YCBCR"

(* External: the components of each plane as the VA-API defines them.      *)
VAPlanes(fourcc) ==
  CASE fourcc = "NV12" -> <<{"Y"}, {"U", "V"}>>
    [] fourcc = "I420" -> <<{"Y"}, {"U"}, {"V"}>>
    [] fourcc = "YV12" -> <<{"Y"}, {"V"}, {"U"}>>
    [] fourcc = "RGBA" -> <<{"RGB"}>>
    [] fourcc = "IA44" -> <<{"index"}>>
    [] OTHER -> <<Components>>

(* External: the planes VDPAU takes pointers to, by its own format: there  *)
(* is no I420 in VDPAU, the map gives it as YV12.                          *)
VdpPlanes(fourcc) == VAPlanes(IF fourcc = "I420" THEN "YV12" ELSE fourcc)

Init ==
  /\ live = {} /\ image = [i \in ImageIDs |-> NONE]
  /\ buffer = [b \in BufferIDs |-> NONE]
  /\ surface = [s \in Surfaces |-> [size |-> s[2], as |-> [c \in Components |-> {}]]]
  /\ output = {} /\ astray = {}
-----------------------------------------------------------------------------
(***************************************************************************)
(* The layout vaCreateImage computes: offset and pitch of each plane, and  *)
(* all bytes.  The buffer has ALIGN bytes more, and each offset grows by   *)
(* what the address lacks.                                                 *)
(***************************************************************************)
Plane(offset, pitch) == [offset |-> offset, pitch |-> pitch]

Layout(fourcc, width, height) ==
  LET size == width * height
      width2 == (width + 1) \div 2
      size2 == width2 * ((height + 1) \div 2)
      Packed(pitch) == [planes |-> <<Plane(0, pitch)>>, data_size |-> pitch * height]
  IN CASE fourcc = "NV12" ->
            [planes |-> <<Plane(0, width), Plane(size, width)>>, data_size |-> size + 2 * size2]
       [] fourcc \in {"YV12", "I420"} ->
            [planes |-> <<Plane(0, width), Plane(size, width2), Plane(size + size2, width2)>>,
             data_size |-> size + 2 * size2]
       [] fourcc = "IA44" -> Packed(width)
       [] OTHER -> Packed(width * 4)

(* vdpau_CreateBuffer is asked for this many bytes.                        *)
BufferSizeBare(layout) == layout.data_size   (* mutant: without ALIGN      *)
BufferSize(layout) == layout.data_size + ALIGN

Offset(plane, align) == plane.offset + align
-----------------------------------------------------------------------------
(* What vdpau_DestroyImage does with the fields of a slot, whatever they   *)
(* are.  IDs and handles it passes on that do not exist are refused.       *)
OutputLeft(left) == output \ {left.rgba}

BufferLeft(buf) == [b \in BufferIDs |-> IF b = buf THEN NONE ELSE buffer[b]]

DestroyImage(i) ==
  /\ astray = {} /\ i \in live
  /\ live' = live \ {i}
  /\ output' = OutputLeft(image[i])
  /\ buffer' = BufferLeft(image[i].buf)
  /\ image' = [image EXCEPT ![i].palette = FALSE]
  /\ UNCHANGED <<surface, astray>>

(* vaCreateImage has a layout for each format of the map but 'AYUV'; the   *)
(* fields of the image are set once there is a buffer.                     *)
HasLayout(fourcc) == fourcc \in Listed \ {"AYUV"}

CreateImage(i, fourcc, size, align, b) ==
  /\ astray = {} /\ i \notin live /\ HasLayout(fourcc) /\ buffer[b] = NONE
  /\ live' = live \cup {i}
  /\ buffer' = [buffer EXCEPT ![b] =
       [owner |-> i, planes |-> [k \in DOMAIN VAPlanes(fourcc) |-> {}]]]
  /\ image' = [image EXCEPT ![i] =
       [format |-> fourcc, size |-> size, align |-> align, buf |-> b,
        rgba |-> INVALID, palette |-> FALSE]]
  /\ UNCHANGED <<surface, output, astray>>

(***************************************************************************)
(* The error path, of a format that is not in the map, has no layout, or   *)
(* when there is no memory for the buffer.  vdpau_DestroyImage finds the   *)
(* VDPAU surface of the last image in this slot, and also its buffer when  *)
(* the format is not in the map: only then is image->buf not yet reset.    *)
(* In a slot that never had an image it finds whatever malloc left.        *)
(***************************************************************************)
LeftIn(i) ==
  IF image[i] # NONE THEN {image[i]}
  ELSE [rgba : Handles \cup {INVALID}, buf : BufferIDs \cup {INVALID}, palette : BOOLEAN]

ResetBufLate(fourcc, left) == left.buf       (* mutant: reset with the rest *)
ResetBuf(fourcc, left) == IF fourcc \in Listed THEN INVALID ELSE left.buf

Strays(fourcc, left, buf) ==
  {what \in Astrays :
     \/ what = "memory" /\ left.palette
     \/ what = "output" /\ left.rgba \in output
     \/ /\ what = IF fourcc \in Listed THEN "buffer" ELSE "unlisted"
        /\ buf \in BufferIDs /\ buffer[buf] # NONE}

CreateImageFails(i, fourcc) ==
  /\ astray = {} /\ i \notin live
  /\ ~HasLayout(fourcc) \/ "buffer" \in Failing
  /\ \E left \in LeftIn(i) :
       LET buf == ResetBuf(fourcc, left)
       IN /\ output' = OutputLeft(left)
          /\ buffer' = BufferLeft(buf)
          /\ astray' = Strays(fourcc, left, buf)
          /\ image' = IF image[i] = NONE THEN image
                      ELSE [image EXCEPT ![i].buf = buf, ![i].palette = FALSE]
  /\ UNCHANGED <<live, surface>>

(* set_image_palette: memory for the palette is there once, and kept.      *)
SetImagePalette(i) ==
  /\ astray = {} /\ i \in live /\ FormatType(image[i].format) = "INDEXED"
  /\ image' = [image EXCEPT ![i].palette = TRUE]
  /\ UNCHANGED <<live, buffer, surface, output, astray>>

(* The application writes an image, or makes and drops a buffer.           *)
WriteImage(i) ==
  /\ astray = {} /\ i \in live
  /\ buffer' = [buffer EXCEPT ![image[i].buf].planes = VAPlanes(image[i].format)]
  /\ UNCHANGED <<live, image, surface, output, astray>>

CreateBuffer(b) ==
  /\ astray = {} /\ buffer[b] = NONE
  /\ buffer' = [buffer EXCEPT ![b] = [owner |-> "application", planes |-> <<>>]]
  /\ UNCHANGED <<live, image, surface, output, astray>>

DestroyBuffer(b) ==
  /\ astray = {} /\ buffer[b] # NONE /\ buffer[b].owner = "application"
  /\ buffer' = [buffer EXCEPT ![b] = NONE]
  /\ UNCHANGED <<live, image, surface, output, astray>>
-----------------------------------------------------------------------------
(* The planes in the order their pointers are passed to VDPAU.             *)
OrderUnswapped(fourcc) ==                    (* mutant: I420 as it is      *)
  [k \in 1..Len(VAPlanes(fourcc)) |-> k]
Order(fourcc) ==
  IF fourcc = "I420" THEN <<1, 3, 2>> ELSE [k \in 1..Len(VAPlanes(fourcc)) |-> k]

Whole(i, s) == image[i].size = surface[s].size

(* put_image of a format VDPAU knows for video surfaces: the plane at the  *)
(* k-th pointer is taken for the k-th plane of VDPAU's format.             *)
PutImage(i, s) ==
  /\ astray = {} /\ i \in live /\ Whole(i, s) /\ buffer[image[i].buf] # NONE
  /\ image[i].rgba = INVALID /\ FormatType(image[i].format) = "YCBCR"
  /\ LET f == image[i].format
         Taken(c) == LET k == CHOOSE k \in DOMAIN VdpPlanes(f) : c \in VdpPlanes(f)[k]
                         plane == buffer[image[i].buf].planes[Order(f)[k]]
                     IN IF c \in plane THEN {c} ELSE plane
     IN surface' = [surface EXCEPT ![s].as = [c \in Components |-> Taken(c)]]
  /\ UNCHANGED <<live, image, buffer, output, astray>>

(* External: the bytes of rows VDPAU transfers for a plane.                *)
Rows(fourcc, k, size) ==
  LET width2 == (size[1] + 1) \div 2
      height2 == (size[2] + 1) \div 2
      Row(bytes, rows) == [bytes |-> bytes, rows |-> rows]
  IN CASE fourcc \in {"NV12", "YV12", "I420"} /\ k = 1 -> Row(size[1], size[2])
       [] fourcc = "NV12" /\ k = 2 -> Row(2 * width2, height2)
       [] fourcc \in {"YV12", "I420"} /\ k > 1 -> Row(width2, height2)
       [] fourcc = "UYVY" -> Row(4 * width2, size[2])
       [] fourcc = "RGBA" -> Row(4 * size[1], size[2])
       [] OTHER -> Row(size[1], size[2])

(* Pixels of this size, with the pitches of the image im, stay in each of  *)
(* its planes and in its buffer, which is not checked.                     *)
Fits(im, size) ==
  LET layout == Layout(im.format, im.size[1], im.size[2])
      First(k) == Offset(layout.planes[k], im.align)
      End(k) == First(k) + layout.planes[k].pitch * (Rows(im.format, k, size).rows - 1)
                  + Rows(im.format, k, size).bytes
      n == Len(layout.planes)
  IN /\ \A k \in 1..(n - 1) : End(k) <= First(k + 1)
     /\ End(n) <= BufferSize(layout)

(* get_image of such a format: the rectangle has to be the whole surface,  *)
(* whose size is not compared with that of the image.                      *)
ReadBack(f, s) ==
  [p \in 1..Len(VAPlanes(f)) |->
     LET k == CHOOSE k \in 1..Len(VAPlanes(f)) : Order(f)[k] = p
     IN UNION {surface[s].as[c] : c \in VdpPlanes(f)[k]}]

GetImage(i, s) ==
  /\ astray = {} /\ i \in live /\ buffer[image[i].buf] # NONE
  /\ FormatType(image[i].format) = "YCBCR"
  /\ IF Fits(image[i], surface[s].size)
     THEN /\ buffer' = [buffer EXCEPT ![image[i].buf].planes = ReadBack(image[i].format, s)]
          /\ UNCHANGED astray
     ELSE astray' = {"overrun"} /\ UNCHANGED buffer
  /\ UNCHANGED <<live, image, surface, output>>

(***************************************************************************)
(* get_image of an RGB format: the output surface, as large as the image,  *)
(* is made at first, and again if that failed, then the video is mixed     *)
(* into it and read back.                                                  *)
(***************************************************************************)
NeedsOutputAlways(i) == TRUE                 (* mutant: made at each call  *)
NeedsOutput(i) == image[i].rgba = INVALID

NewHandles == Handles \ output

GetImageRGBA(i, s) ==
  /\ astray = {} /\ i \in live /\ buffer[image[i].buf] # NONE
  /\ FormatType(image[i].format) = "RGBA"
  /\ \E made \in IF NeedsOutput(i) THEN Outcomes("output") ELSE {TRUE}, mixed \in Outcomes("mix") :
       /\ IF made /\ NeedsOutput(i)
          THEN \E h \in NewHandles : /\ output' = output \cup {h}
                                     /\ image' = [image EXCEPT ![i].rgba = h]
          ELSE UNCHANGED <<output, image>>
       /\ buffer' = IF made /\ mixed THEN [buffer EXCEPT ![image[i].buf].planes = <<{"RGB"}>>]
                    ELSE buffer
  /\ UNCHANGED <<live, surface, astray>>

Next ==
  \/ \E i \in ImageIDs :
       \/ \E fourcc \in Formats :
            \/ \E size \in Sizes, align \in Aligns, b \in BufferIDs :
                 CreateImage(i, fourcc, size, align, b)
            \/ CreateImageFails(i, fourcc)
       \/ DestroyImage(i) \/ SetImagePalette(i) \/ WriteImage(i)
       \/ \E s \in Surfaces : PutImage(i, s) \/ GetImage(i, s) \/ GetImageRGBA(i, s)
  \/ \E b \in BufferIDs : CreateBuffer(b) \/ DestroyBuffer(b)

Spec == Init /\ [][Next]_vars
-----------------------------------------------------------------------------
(* The type invariant; only images there are have palettes.                *)
TypeOK ==
  /\ live \subseteq ImageIDs /\ output \subseteq Handles /\ astray \subseteq Astrays
  /\ image \in [ImageIDs -> ImageObject \cup {NONE}]
  /\ buffer \in [BufferIDs -> BufferObject \cup {NONE}]
  /\ \A i \in ImageIDs : image[i] # NONE /\ image[i].palette =>
       i \in live /\ FormatType(image[i].format) = "INDEXED"

(***************************************************************************)
(* An image has its buffer for all its life, and no failing vaCreateImage  *)
(* of a format in the map destroys a buffer of anybody, whatever its slot  *)
(* has left.  Only one of a format that is not in the map does, and then   *)
(* it is the buffer whose ID a slot without an image has.                  *)
(***************************************************************************)
Owns(i) == buffer[image[i].buf] # NONE /\ buffer[image[i].buf].owner = i

BuffersOwned ==
  /\ TypeOK
  /\ "buffer" \notin astray
  /\ \A i \in live :
       \/ Owns(i)
       \/ /\ "unlisted" \in astray
          /\ \E j \in ImageIDs \ live : image[j] = NONE \/ image[j].buf = image[i].buf

(***************************************************************************)
(* VDPAU's output surfaces for images are those of the images there are,   *)
(* one each, with none left behind.  One at most is destroyed under its    *)
(* image: a slot without an image has the same handle, which VDPAU has     *)
(* given again, and a vaCreateImage that fails destroys it.                *)
(***************************************************************************)
OutputsOwned ==
  LET owned == {image[i].rgba : i \in live} \ {INVALID}
  IN /\ \A i, j \in live : i # j /\ image[i].rgba = image[j].rgba => image[i].rgba = INVALID
     /\ \/ output = owned
        \/ /\ "output" \in astray
           /\ \E j \in ImageIDs \ live, h \in owned :
                output = owned \ {h} /\ (image[j] = NONE \/ image[j].rgba = h)

(* What is put as Y, U or V in one format and read in another stays what   *)
(* it was, in each plane where the VA-API has it.                          *)
ComponentsKept ==
  /\ \A s \in Surfaces, c \in Components : surface[s].as[c] \subseteq {c}
  /\ \A i \in live : buffer[image[i].buf] # NONE =>
       LET planes == buffer[image[i].buf].planes
       IN \A k \in DOMAIN planes : planes[k] \subseteq VAPlanes(image[i].format)[k]

(***************************************************************************)
(* A transfer no larger than the image stays inside each plane and inside  *)
(* the buffer wherever malloc put it, odd sizes included: bytes outside    *)
(* are written only from a surface that is larger than the image.          *)
(***************************************************************************)
NoLarger(size, than) == size[1] <= than[1] /\ size[2] <= than[2]

PlanesFit ==
  /\ \A i \in live, size \in Sizes : NoLarger(size, image[i].size) => Fits(image[i], size)
  /\ "overrun" \in astray =>
       \E i \in live, s \in Surfaces : ~NoLarger(surface[s].size, image[i].size)
=============================================================================
