------------------------------ MODULE ImagesProofs ------------------------------
(***************************************************************************)
(* Theorems about Images, for any number of images, buffers and surfaces,  *)
(* all sizes and every alignment of the memory malloc returns.             *)
(***************************************************************************)
EXTENDS Images, SequenceTheorems, TLAPS

(* What is used of the constants throughout.                               *)
LEMMA Constants ==
  /\ INVALID \notin BufferIDs /\ INVALID \notin Handles /\ "application" \notin ImageIDs
  /\ NONE \notin ImageObject /\ NONE \notin BufferObject
BY ImagesAssumption DEF INVALID

USE Constants

(***************************************************************************)
(* Arithmetic of sizes: w2 is half of w, rounded up.                       *)
(***************************************************************************)
LEMMA Halves ==
  ASSUME NEW w \in Nat \ {0}
  PROVE  LET w2 == (w + 1) \div 2 IN w2 \in Nat \ {0} /\ w2 <= w /\ w <= 2 * w2
OBVIOUS

(* A product grows with either factor.                                     *)
LEMMA Products ==
  ASSUME NEW a \in Nat, NEW b \in Nat, NEW c \in Nat
  PROVE  /\ a * b \in Nat
         /\ a <= c => a * b <= c * b
OBVIOUS

(* The rows of a plane but the last, and the last.                         *)
LEMMA LastRow ==
  ASSUME NEW w \in Nat, NEW h \in Nat \ {0}
  PROVE  w * (h - 1) + w = w * h
OBVIOUS

(* A layout that holds the whole image.                                    *)
FitsWhole(f, w, h, align) ==
  LET layout == Layout(f, w, h)
      First(k) == Offset(layout.planes[k], align)
      End(k) == First(k) + layout.planes[k].pitch * (Rows(f, k, <<w, h>>).rows - 1)
                  + Rows(f, k, <<w, h>>).bytes
      n == Len(layout.planes)
  IN /\ \A k \in 1..(n - 1) : End(k) <= First(k + 1)
     /\ End(n) <= BufferSize(layout)

(* One plane of packed pixels.                                             *)
LEMMA PackedFits ==
  ASSUME NEW w \in Nat \ {0}, NEW h \in Nat \ {0}, NEW align \in 0..(ALIGN - 1),
         NEW f \in {"UYVY", "RGBA", "IA44"}
  PROVE  FitsWhole(f, w, h, align)
<1> DEFINE layout == Layout(f, w, h)
           pitch == IF f = "IA44" THEN w ELSE w * 4
           w2 == (w + 1) \div 2
<1>1. layout = [planes |-> <<Plane(0, pitch)>>, data_size |-> pitch * h]
  BY DEF Layout
<1>2. /\ Len(layout.planes) = 1 /\ layout.planes[1] = Plane(0, pitch)
      /\ layout.data_size = pitch * h
  BY <1>1
<1>3. Rows(f, 1, <<w, h>>).rows = h /\ Rows(f, 1, <<w, h>>).bytes <= pitch
      /\ Rows(f, 1, <<w, h>>).bytes \in Nat
  BY Halves DEF Rows
<1>4. pitch \in Nat /\ pitch * (h - 1) + pitch = pitch * h /\ pitch * h \in Nat
  BY LastRow, Products
<1> DEFINE bytes == Rows(f, 1, <<w, h>>).bytes
<1> HIDE DEF layout, pitch, bytes
<1>5. (0 + align) + pitch * (h - 1) + bytes <= pitch * h + ALIGN
  <2>1. bytes \in Nat /\ bytes <= pitch /\ align \in Nat /\ align <= 15
    BY <1>3 DEF bytes, ALIGN
  <2>2. pitch * (h - 1) \in Nat
    BY <1>4, Products
  <2> QED
    BY <1>4, <2>1, <2>2 DEF ALIGN
<1>6. Offset(layout.planes[1], align) = 0 + align /\ layout.planes[1].pitch = pitch
  BY <1>2 DEF Offset, Plane
<1> QED
  BY <1>2, <1>3, <1>5, <1>6 DEF FitsWhole, BufferSize, layout, bytes

(* Two planes: U and V of half the size lie together after Y.  With an odd *)
(* width a row of them is one byte longer than the pitch.                  *)
LEMMA InterleavedFits ==
  ASSUME NEW w \in Nat \ {0}, NEW h \in Nat \ {0}, NEW align \in 0..(ALIGN - 1)
  PROVE  FitsWhole("NV12", w, h, align)
<1> DEFINE layout == Layout("NV12", w, h)
           size == w * h
           w2 == (w + 1) \div 2
           h2 == (h + 1) \div 2
           size2 == w2 * h2
<1>1. layout = [planes |-> <<Plane(0, w), Plane(size, w)>>, data_size |-> size + 2 * size2]
  BY DEF Layout
<1>2. /\ Len(layout.planes) = 2 /\ layout.planes[1] = Plane(0, w)
      /\ layout.planes[2] = Plane(size, w) /\ layout.data_size = size + 2 * size2
  BY <1>1
<1>3. /\ Rows("NV12", 1, <<w, h>>).rows = h /\ Rows("NV12", 1, <<w, h>>).bytes = w
      /\ Rows("NV12", 2, <<w, h>>).rows = h2 /\ Rows("NV12", 2, <<w, h>>).bytes = 2 * w2
  BY DEF Rows
<1>4. w2 \in Nat \ {0} /\ w <= 2 * w2 /\ h2 \in Nat \ {0}
  BY Halves
<1>5. /\ size \in Nat /\ w * (h - 1) + w = size
      /\ size2 \in Nat /\ w2 * (h2 - 1) + w2 = size2
  <2> HIDE DEF w2, h2
  <2> QED
    BY <1>4, Products, LastRow
<1>6. w * (h2 - 1) <= 2 * (w2 * (h2 - 1)) /\ w2 * (h2 - 1) \in Nat /\ w * (h2 - 1) \in Nat
  <2> HIDE DEF w2, h2
  <2>1. h2 - 1 \in Nat /\ 2 * w2 \in Nat
    BY <1>4
  <2>2. w * (h2 - 1) <= (2 * w2) * (h2 - 1)
    BY <1>4, <2>1, Products
  <2>3. (2 * w2) * (h2 - 1) = 2 * (w2 * (h2 - 1))
    BY <1>4, <2>1
  <2> QED
    BY <1>4, <2>1, <2>2, <2>3, Products
<1> HIDE DEF layout, size, w2, h2, size2
<1>7. (0 + align) + w * (h - 1) + w <= size + align
  <2>1. w * (h - 1) \in Int /\ align \in Int
    BY <1>5, Products DEF ALIGN
  <2> QED
    BY <1>5, <2>1
<1>8. (size + align) + w * (h2 - 1) + 2 * w2 <= (size + 2 * size2) + ALIGN
  BY <1>4, <1>5, <1>6 DEF ALIGN
<1>9. /\ Offset(layout.planes[1], align) = 0 + align /\ layout.planes[1].pitch = w
      /\ Offset(layout.planes[2], align) = size + align /\ layout.planes[2].pitch = w
  BY <1>2 DEF Offset, Plane
<1>10. /\ Offset(layout.planes[1], align) + layout.planes[1].pitch
              * (Rows("NV12", 1, <<w, h>>).rows - 1) + Rows("NV12", 1, <<w, h>>).bytes
            <= Offset(layout.planes[2], align)
       /\ Offset(layout.planes[2], align) + layout.planes[2].pitch
              * (Rows("NV12", 2, <<w, h>>).rows - 1) + Rows("NV12", 2, <<w, h>>).bytes
            <= BufferSize(layout)
  BY <1>2, <1>3, <1>7, <1>8, <1>9 DEF BufferSize
<1>11. \A k \in 1..(2 - 1) : k = 1
  OBVIOUS
<1> QED
  BY <1>2, <1>10, <1>11 DEF FitsWhole, layout

(* Three planes: U and V follow Y and each other.                          *)
LEMMA PlanarFits ==
  ASSUME NEW w \in Nat \ {0}, NEW h \in Nat \ {0}, NEW align \in 0..(ALIGN - 1),
         NEW f \in {"YV12", "I420"}
  PROVE  FitsWhole(f, w, h, align)
<1> DEFINE layout == Layout(f, w, h)
           size == w * h
           w2 == (w + 1) \div 2
           h2 == (h + 1) \div 2
           size2 == w2 * h2
<1>1. layout = [planes |-> <<Plane(0, w), Plane(size, w2), Plane(size + size2, w2)>>,
                data_size |-> size + 2 * size2]
  BY DEF Layout
<1>2. /\ Len(layout.planes) = 3 /\ layout.planes[1] = Plane(0, w)
      /\ layout.planes[2] = Plane(size, w2) /\ layout.planes[3] = Plane(size + size2, w2)
      /\ layout.data_size = size + 2 * size2
  BY <1>1
<1>3. /\ Rows(f, 1, <<w, h>>).rows = h /\ Rows(f, 1, <<w, h>>).bytes = w
      /\ Rows(f, 2, <<w, h>>).rows = h2 /\ Rows(f, 2, <<w, h>>).bytes = w2
      /\ Rows(f, 3, <<w, h>>).rows = h2 /\ Rows(f, 3, <<w, h>>).bytes = w2
  BY DEF Rows
<1>4. w2 \in Nat \ {0} /\ h2 \in Nat \ {0}
  BY Halves
<1>5. /\ size \in Nat /\ w * (h - 1) + w = size /\ w * (h - 1) \in Nat
      /\ size2 \in Nat /\ w2 * (h2 - 1) + w2 = size2 /\ w2 * (h2 - 1) \in Nat
  <2> HIDE DEF w2, h2
  <2>1. h - 1 \in Nat /\ h2 - 1 \in Nat
    BY <1>4
  <2> QED
    BY <1>4, <2>1, Products, LastRow
<1> HIDE DEF layout, size, w2, h2, size2
<1>6. /\ (0 + align) + w * (h - 1) + w <= size + align
      /\ (size + align) + w2 * (h2 - 1) + w2 <= (size + size2) + align
      /\ (size + size2 + align) + w2 * (h2 - 1) + w2 <= (size + 2 * size2) + ALIGN
  BY <1>4, <1>5 DEF ALIGN
<1>7. /\ Offset(layout.planes[1], align) = 0 + align /\ layout.planes[1].pitch = w
      /\ Offset(layout.planes[2], align) = size + align /\ layout.planes[2].pitch = w2
      /\ Offset(layout.planes[3], align) = size + size2 + align /\ layout.planes[3].pitch = w2
  BY <1>2 DEF Offset, Plane
<1> QED
  BY <1>2, <1>3, <1>6, <1>7 DEF FitsWhole, BufferSize, layout

(* The formats that images have.                                           *)
Laid == {"NV12", "YV12", "I420", "UYVY", "RGBA", "IA44"}

(* Fewer pixels have no more rows, and none that is longer.                *)
LEMMA RowsShrink ==
  ASSUME NEW f \in Laid, NEW k \in 1..3,
         NEW w \in Nat \ {0}, NEW h \in Nat \ {0}, NEW sw \in Nat \ {0}, NEW sh \in Nat \ {0},
         sw <= w, sh <= h
  PROVE  /\ Rows(f, k, <<sw, sh>>).rows \in Nat \ {0} /\ Rows(f, k, <<w, h>>).rows \in Nat \ {0}
         /\ Rows(f, k, <<sw, sh>>).bytes \in Nat /\ Rows(f, k, <<w, h>>).bytes \in Nat
         /\ Rows(f, k, <<sw, sh>>).rows <= Rows(f, k, <<w, h>>).rows
         /\ Rows(f, k, <<sw, sh>>).bytes <= Rows(f, k, <<w, h>>).bytes
<1> DEFINE Half(n) == (n + 1) \div 2
<1>1. \A n \in {w, h, sw, sh} : Half(n) \in Nat \ {0}
  BY Halves
<1>2. Half(sw) <= Half(w) /\ Half(sh) <= Half(h)
  OBVIOUS
<1>4. CASE f \in {"NV12", "YV12", "I420"} /\ k = 1
  BY <1>4 DEF Rows
<1>5. CASE f = "NV12" /\ k = 2
  BY <1>1, <1>2, <1>5 DEF Rows
<1>6. CASE f \in {"YV12", "I420"} /\ k > 1
  BY <1>1, <1>2, <1>6 DEF Rows
<1>7. CASE f = "UYVY"
  BY <1>1, <1>2, <1>7 DEF Rows
<1>8. CASE f = "RGBA"
  BY <1>8 DEF Rows
<1>9. CASE f = "IA44" \/ (f = "NV12" /\ k = 3)
  BY <1>9 DEF Rows
<1> QED
  BY <1>4, <1>5, <1>6, <1>7, <1>8, <1>9 DEF Laid

(* The planes of a layout have numbers for their offsets and pitches.      *)
LEMMA LayoutTyped ==
  ASSUME NEW f \in Laid, NEW w \in Nat \ {0}, NEW h \in Nat \ {0}
  PROVE  LET planes == Layout(f, w, h).planes
         IN /\ Len(planes) \in 1..3
            /\ \A k \in 1..Len(planes) : planes[k].offset \in Nat /\ planes[k].pitch \in Nat
<1> DEFINE size == w * h
           w2 == (w + 1) \div 2
           h2 == (h + 1) \div 2
           size2 == w2 * h2
           planes == Layout(f, w, h).planes
<1>1. size \in Nat /\ w2 \in Nat /\ size2 \in Nat
  <2>1. w2 \in Nat /\ h2 \in Nat
    BY Halves
  <2> HIDE DEF w2, h2
  <2> QED
    BY <2>1, Products
<1>2. CASE f = "NV12"
  <2>1. planes = <<Plane(0, w), Plane(size, w)>>
    BY <1>2 DEF Layout
  <2> HIDE DEF size, planes
  <2>2. Len(planes) = 2 /\ planes[1] = Plane(0, w) /\ planes[2] = Plane(size, w)
    BY <2>1
  <2>3. \A k \in 1..2 : k = 1 \/ k = 2
    OBVIOUS
  <2> QED
    BY <1>1, <2>2, <2>3 DEF Plane, planes
<1>3. CASE f \in {"YV12", "I420"}
  <2>1. planes = <<Plane(0, w), Plane(size, w2), Plane(size + size2, w2)>>
    BY <1>3 DEF Layout
  <2> HIDE DEF size, w2, size2, planes
  <2>2. /\ Len(planes) = 3 /\ planes[1] = Plane(0, w) /\ planes[2] = Plane(size, w2)
        /\ planes[3] = Plane(size + size2, w2)
    BY <2>1
  <2>3. \A k \in 1..3 : k = 1 \/ k = 2 \/ k = 3
    OBVIOUS
  <2> QED
    BY <1>1, <2>2, <2>3 DEF Plane, planes
<1>4. CASE f \in {"UYVY", "RGBA", "IA44"}
  <2>1. planes = <<Plane(0, IF f = "IA44" THEN w ELSE w * 4)>>
    BY <1>4 DEF Layout
  <2> HIDE DEF planes
  <2>2. Len(planes) = 1 /\ planes[1] = Plane(0, IF f = "IA44" THEN w ELSE w * 4)
    BY <2>1
  <2> QED
    BY <2>2 DEF Plane, planes
<1> QED
  BY <1>2, <1>3, <1>4 DEF Laid

(* So does its buffer.                                                     *)
LEMMA BytesTyped ==
  ASSUME NEW f \in Laid, NEW w \in Nat \ {0}, NEW h \in Nat \ {0}
  PROVE  BufferSize(Layout(f, w, h)) \in Int
<1>1. (w + 1) \div 2 \in Nat /\ (h + 1) \div 2 \in Nat
  BY Halves
<1> PICK w2 \in Nat : w2 = (w + 1) \div 2
  BY <1>1
<1> PICK h2 \in Nat : h2 = (h + 1) \div 2
  BY <1>1
<1> PICK a \in Nat : a = w * h
  BY Products
<1> PICK b \in Nat : b = w2 * h2
  BY Products
<1> PICK c \in Nat : c = (w * 4) * h
  BY Products
<1>2. Layout(f, w, h).data_size \in {a + 2 * b, a, c}
  BY DEF Layout, Laid
<1> QED
  BY <1>2 DEF BufferSize, ALIGN

(* Fewer and shorter rows end no later.                                    *)
LEMMA Ends ==
  ASSUME NEW o \in Nat, NEW p \in Nat, NEW a \in Nat, NEW b \in Nat, a <= b,
         NEW row \in Nat, NEW long \in Nat, row <= long
  PROVE  /\ o + p * a + row \in Int /\ o + p * b + long \in Int
         /\ o + p * a + row <= o + p * b + long
<1> PICK x \in Nat : x = a * p /\ x = p * a
  BY Products
<1> PICK y \in Nat : y = b * p /\ y = p * b
  BY Products
<1>1. x <= y
  BY Products
<1> QED
  BY <1>1

(* So what holds the whole image holds a transfer that is no larger.       *)
LEMMA SmallerFits ==
  ASSUME NEW f \in Laid, NEW w \in Nat \ {0}, NEW h \in Nat \ {0},
         NEW sw \in Nat \ {0}, NEW sh \in Nat \ {0}, sw <= w, sh <= h,
         NEW align \in 0..(ALIGN - 1), FitsWhole(f, w, h, align),
         NEW im, im.format = f, im.size = <<w, h>>, im.align = align
  PROVE  Fits(im, <<sw, sh>>)
<1> PICK layout : layout = Layout(f, w, h)
  OBVIOUS
<1> PICK planes : planes = layout.planes
  OBVIOUS
<1> PICK n : n = Len(planes)
  OBVIOUS
<1> PICK bytes : bytes = BufferSize(layout)
  OBVIOUS
<1> DEFINE First(k) == Offset(planes[k], align)
           End(k, m) == First(k) + planes[k].pitch * (Rows(f, k, m).rows - 1)
                          + Rows(f, k, m).bytes
<1>1. /\ n \in 1..3 /\ bytes \in Int /\ align \in Nat
      /\ \A k \in 1..n : planes[k].offset \in Nat /\ planes[k].pitch \in Nat
  <2>1. align \in Nat
    BY DEF ALIGN
  <2>2. n \in 1..3 /\ \A k \in 1..n : planes[k].offset \in Nat /\ planes[k].pitch \in Nat
    <3>1. /\ Len(Layout(f, w, h).planes) \in 1..3
          /\ \A k \in 1..Len(Layout(f, w, h).planes) :
               /\ Layout(f, w, h).planes[k].offset \in Nat
               /\ Layout(f, w, h).planes[k].pitch \in Nat
      BY LayoutTyped
    <3>2. n = Len(Layout(f, w, h).planes) /\ planes = Layout(f, w, h).planes
      OBVIOUS
    <3> QED
      BY ONLY <3>1, <3>2
  <2>3. bytes \in Int
    BY BytesTyped
  <2> QED
    BY <2>1, <2>2, <2>3
<1>2. \A k \in 1..n : First(k) \in Nat
  BY <1>1 DEF Offset
<1>3. ASSUME NEW k \in 1..n
      PROVE  /\ End(k, <<sw, sh>>) \in Int /\ End(k, <<w, h>>) \in Int
             /\ End(k, <<sw, sh>>) <= End(k, <<w, h>>)
  <2> PICK rows, row, Rs, R : /\ rows = Rows(f, k, <<sw, sh>>).rows /\ Rs = Rows(f, k, <<w, h>>).rows
                              /\ row = Rows(f, k, <<sw, sh>>).bytes /\ R = Rows(f, k, <<w, h>>).bytes
    OBVIOUS
  <2>1. k \in 1..3
    BY <1>1
  <2>2. /\ rows \in Nat \ {0} /\ Rs \in Nat \ {0} /\ rows <= Rs
        /\ row \in Nat /\ R \in Nat /\ row <= R
    BY <2>1, RowsShrink
  <2> PICK p \in Nat : p = planes[k].pitch
    BY <1>1
  <2> PICK o \in Nat : o = First(k)
    BY <1>2
  <2>3. PICK a \in Nat, b \in Nat : a = rows - 1 /\ b = Rs - 1 /\ a <= b
    BY ONLY <2>2
  <2>4. End(k, <<sw, sh>>) = o + p * a + row /\ End(k, <<w, h>>) = o + p * b + R
    BY <2>3
  <2>5. /\ o + p * a + row \in Int /\ o + p * b + R \in Int
        /\ o + p * a + row <= o + p * b + R
    <3>1. /\ o \in Nat /\ p \in Nat /\ a \in Nat /\ b \in Nat /\ a <= b
          /\ row \in Nat /\ R \in Nat /\ row <= R
      BY <2>2, <2>3
    <3> QED
      BY ONLY <3>1, Ends
  <2> HIDE DEF End, First
  <2> QED
    BY <2>4, <2>5
<1> HIDE DEF End, First
<1>4. /\ \A k \in 1..(n - 1) : End(k, <<w, h>>) <= First(k + 1)
      /\ End(n, <<w, h>>) <= bytes
  BY DEF FitsWhole, End, First
<1>5. \A k \in 1..(n - 1) : End(k, <<sw, sh>>) <= First(k + 1)
  <2> SUFFICES ASSUME NEW k \in 1..(n - 1) PROVE End(k, <<sw, sh>>) <= First(k + 1)
    OBVIOUS
  <2>1. k \in 1..n /\ k + 1 \in 1..n
    BY ONLY <1>1
  <2>2. End(k, <<w, h>>) <= First(k + 1) /\ First(k + 1) \in Nat
    BY <1>2, <1>4, <2>1
  <2>3. /\ End(k, <<sw, sh>>) \in Int /\ End(k, <<w, h>>) \in Int
        /\ End(k, <<sw, sh>>) <= End(k, <<w, h>>)
    BY <1>3, <2>1
  <2> QED
    BY ONLY <2>2, <2>3
<1>6. End(n, <<sw, sh>>) <= bytes
  <2>1. n \in 1..n
    BY ONLY <1>1
  <2>2. /\ End(n, <<sw, sh>>) \in Int /\ End(n, <<w, h>>) \in Int
        /\ End(n, <<sw, sh>>) <= End(n, <<w, h>>)
    BY <1>3, <2>1
  <2> QED
    BY ONLY <1>1, <1>4, <2>2
<1>7. Layout(im.format, im.size[1], im.size[2]) = layout
  OBVIOUS
<1> QED
  BY <1>5, <1>6, <1>7 DEF Fits, End, First
-----------------------------------------------------------------------------
(***************************************************************************)
(* The planes of the formats.                                              *)
(***************************************************************************)
YCbCr == {"NV12", "YV12", "I420", "UYVY", "AYUV"}

(* The planes of an image nothing was written to.                          *)
Blank(f) == [k \in DOMAIN VAPlanes(f) |-> {}]

(* What the formats of the map are, and those that images get.             *)
LEMMA FormatsAre ==
  /\ \A f \in Listed : FormatType(f) = "YCBCR" <=> f \in YCbCr
  /\ \A f \in Listed : FormatType(f) = "RGBA" => f = "RGBA"
  /\ \A f : HasLayout(f) <=> f \in Laid
  /\ Laid \subseteq Listed /\ YCbCr \subseteq Listed
BY DEF Listed, Laid, YCbCr, FormatType, HasLayout

(* The planes of each format are a list.                                   *)
LEMMA PlanesListed ==
  ASSUME NEW f \in Listed
  PROVE  /\ VAPlanes(f) \in PlaneLists /\ Blank(f) \in PlaneLists
         /\ DOMAIN VAPlanes(f) = 1..Len(VAPlanes(f)) /\ Len(VAPlanes(f)) \in 1..3
<1> DEFINE kinds == SUBSET (Components \cup {"RGB", "index"})
<1>1. VAPlanes(f) \in Seq(kinds) /\ Len(VAPlanes(f)) \in 1..3
  <2>1. CASE f = "NV12"
    BY <2>1 DEF VAPlanes, Components
  <2>2. CASE f = "YV12"
    BY <2>2 DEF VAPlanes, Components
  <2>3. CASE f = "I420"
    BY <2>3 DEF VAPlanes, Components
  <2>4. CASE f \in {"UYVY", "AYUV", "RGBA", "IA44"}
    BY <2>4 DEF VAPlanes, Components
  <2> QED
    BY <2>1, <2>2, <2>3, <2>4 DEF Listed
<1>2. {} \in kinds
  OBVIOUS
<1> HIDE DEF kinds
<1>3. Blank(f) \in Seq(kinds)
  <2>1. DOMAIN VAPlanes(f) = 1..Len(VAPlanes(f)) /\ Len(VAPlanes(f)) \in Nat
    BY <1>1
  <2>2. Blank(f) \in [1..Len(VAPlanes(f)) -> kinds]
    BY <1>2, <2>1 DEF Blank
  <2> QED
    BY <2>1, <2>2, SeqDef
<1> QED
  BY <1>1, <1>3 DEF PlaneLists, kinds

(* VDPAU's k-th pointer is to the plane that has what VDPAU takes it for,  *)
(* also for I420, which VDPAU knows as YV12.                               *)
LEMMA PointersMatch ==
  ASSUME NEW f \in YCbCr
  PROVE  /\ DOMAIN VdpPlanes(f) = 1..Len(VAPlanes(f))
         /\ \A k \in 1..Len(VAPlanes(f)) :
              /\ Order(f)[k] \in 1..Len(VAPlanes(f))
              /\ VdpPlanes(f)[k] = VAPlanes(f)[Order(f)[k]]
              /\ VdpPlanes(f)[k] \subseteq Components
         /\ \A p \in 1..Len(VAPlanes(f)) : \E k \in 1..Len(VAPlanes(f)) : Order(f)[k] = p
         /\ \A c \in Components : \E k \in DOMAIN VdpPlanes(f) : c \in VdpPlanes(f)[k]
<1>1. CASE f = "NV12"
  <2>1. /\ VAPlanes(f) = <<{"Y"}, {"U", "V"}>> /\ VdpPlanes(f) = <<{"Y"}, {"U", "V"}>>
        /\ Order(f) = [k \in 1..Len(VAPlanes(f)) |-> k]
    BY <1>1 DEF VAPlanes, VdpPlanes, Order
  <2>2. /\ Len(VAPlanes(f)) = 2 /\ VdpPlanes(f)[1] = {"Y"} /\ VdpPlanes(f)[2] = {"U", "V"}
        /\ Order(f)[1] = 1 /\ Order(f)[2] = 2 /\ DOMAIN VdpPlanes(f) = 1..2
        /\ VAPlanes(f)[1] = {"Y"} /\ VAPlanes(f)[2] = {"U", "V"}
    BY <2>1
  <2>3. \A k \in 1..2 : k = 1 \/ k = 2
    OBVIOUS
  <2>4. 1 \in 1..2 /\ 2 \in 1..2
    OBVIOUS
  <2> QED
    BY <2>2, <2>3, <2>4 DEF Components
<1>2. CASE f = "YV12"
  <2>1. /\ VAPlanes(f) = <<{"Y"}, {"V"}, {"U"}>> /\ VdpPlanes(f) = <<{"Y"}, {"V"}, {"U"}>>
        /\ Order(f) = [k \in 1..Len(VAPlanes(f)) |-> k]
    BY <1>2 DEF VAPlanes, VdpPlanes, Order
  <2>2. /\ Len(VAPlanes(f)) = 3 /\ DOMAIN VdpPlanes(f) = 1..3
        /\ VdpPlanes(f)[1] = {"Y"} /\ VdpPlanes(f)[2] = {"V"} /\ VdpPlanes(f)[3] = {"U"}
        /\ Order(f)[1] = 1 /\ Order(f)[2] = 2 /\ Order(f)[3] = 3
        /\ VAPlanes(f)[1] = {"Y"} /\ VAPlanes(f)[2] = {"V"} /\ VAPlanes(f)[3] = {"U"}
    BY <2>1
  <2>3. \A k \in 1..3 : k = 1 \/ k = 2 \/ k = 3
    OBVIOUS
  <2>4. 1 \in 1..3 /\ 2 \in 1..3 /\ 3 \in 1..3
    OBVIOUS
  <2> QED
    BY <2>2, <2>3, <2>4 DEF Components
<1>3. CASE f = "I420"
  <2>1. /\ VAPlanes(f) = <<{"Y"}, {"U"}, {"V"}>> /\ VdpPlanes(f) = <<{"Y"}, {"V"}, {"U"}>>
        /\ Order(f) = <<1, 3, 2>>
    BY <1>3 DEF VAPlanes, VdpPlanes, Order
  <2>2. /\ Len(VAPlanes(f)) = 3 /\ DOMAIN VdpPlanes(f) = 1..3
        /\ VdpPlanes(f)[1] = {"Y"} /\ VdpPlanes(f)[2] = {"V"} /\ VdpPlanes(f)[3] = {"U"}
        /\ Order(f)[1] = 1 /\ Order(f)[2] = 3 /\ Order(f)[3] = 2
        /\ VAPlanes(f)[1] = {"Y"} /\ VAPlanes(f)[2] = {"U"} /\ VAPlanes(f)[3] = {"V"}
    BY <2>1
  <2>3. \A k \in 1..3 : k = 1 \/ k = 2 \/ k = 3
    OBVIOUS
  <2>4. 1 \in 1..3 /\ 2 \in 1..3 /\ 3 \in 1..3
    OBVIOUS
  <2> QED
    BY <2>2, <2>3, <2>4 DEF Components
<1>4. CASE f \in {"UYVY", "AYUV"}
  <2>1. /\ VAPlanes(f) = <<Components>> /\ VdpPlanes(f) = <<Components>>
        /\ Order(f) = [k \in 1..Len(VAPlanes(f)) |-> k]
    BY <1>4 DEF VAPlanes, VdpPlanes, Order
  <2>2. /\ Len(VAPlanes(f)) = 1 /\ VdpPlanes(f)[1] = Components /\ DOMAIN VdpPlanes(f) = 1..1
        /\ Order(f)[1] = 1 /\ VAPlanes(f)[1] = Components
    BY <2>1
  <2>3. \A k \in 1..1 : k = 1
    OBVIOUS
  <2> QED
    BY <2>2, <2>3
<1> QED
  BY <1>1, <1>2, <1>3, <1>4 DEF YCbCr
-----------------------------------------------------------------------------
(***************************************************************************)
(* The inductive invariant.                                                *)
(***************************************************************************)
(* A live image has been laid out and has a buffer of its own, with all of *)
(* its planes or nothing in it.                                            *)
ImageFine(i) ==
  /\ image[i] # NONE /\ HasLayout(image[i].format) /\ image[i].buf \in BufferIDs
  /\ buffer[image[i].buf] # NONE /\ buffer[image[i].buf].owner = i
  /\ buffer[image[i].buf].planes \in {Blank(image[i].format), VAPlanes(image[i].format)}

(* So has a surface: one of the components alone cannot be put.            *)
Nothing == [c \in Components |-> {}]
All == [c \in Components |-> {c}]
SurfacesFine ==
  /\ surface \in [Surfaces -> [size : Sizes, as : [Components -> SUBSET Components]]]
  /\ \A s \in Surfaces : surface[s].as \in {Nothing, All}

AllFine == TypeOK /\ SurfacesFine /\ \A i \in live : ImageFine(i)

(* What holds of a live image when another's error path has destroyed its  *)
(* buffer: nothing else has, and the ID was that in a slot without image.  *)
Robbed(i) ==
  /\ image[i] # NONE /\ HasLayout(image[i].format) /\ buffer[image[i].buf] = NONE
  /\ "unlisted" \in astray
  /\ \E j \in ImageIDs \ live : image[j] = NONE \/ image[j].buf = image[i].buf

Overrun ==
  "overrun" \in astray =>
    \E i \in live, s \in Surfaces : ~NoLarger(surface[s].size, image[i].size)

ImagesInv ==
  /\ TypeOK /\ SurfacesFine /\ Overrun /\ "buffer" \notin astray
  /\ \A i \in live : ImageFine(i) \/ Robbed(i)

(* Before anything has gone astray, no image is robbed, and no handle is.  *)
OutputsFine ==
  /\ \A i, j \in live : i # j /\ image[i].rgba = image[j].rgba => image[i].rgba = INVALID
  /\ output = {image[i].rgba : i \in live} \ {INVALID}

OutputsInv == OutputsOwned /\ (astray = {} => OutputsFine)

(* So all is fine wherever a step begins.                                  *)
LEMMA BeforeStray ==
  ASSUME ImagesInv, astray = {}
  PROVE  AllFine
BY DEF ImagesInv, AllFine, Robbed

(* And a step that goes astray nowhere leaves all fine.                    *)
LEMMA NotAstray ==
  ASSUME AllFine', astray' = {}
  PROVE  ImagesInv'
BY DEF ImagesInv, AllFine, Overrun

(***************************************************************************)
(* Initially there are neither images nor pixels.                          *)
(***************************************************************************)
LEMMA InitHolds == Init => ImagesInv /\ OutputsInv
<1> SUFFICES ASSUME Init PROVE ImagesInv /\ OutputsInv
  OBVIOUS
<1>1. TypeOK
  BY DEF Init, TypeOK
<1>2. SurfacesFine
  <2>1. Nothing \in [Components -> SUBSET Components]
    BY DEF Nothing
  <2>2. surface = [s \in Surfaces |-> [size |-> s[2], as |-> Nothing]]
    BY DEF Init, Nothing
  <2>3. \A s \in Surfaces : s[2] \in Sizes
    BY ImagesAssumption
  <2> QED
    BY <2>1, <2>2, <2>3 DEF SurfacesFine
<1>3. OutputsInv
  BY DEF Init, OutputsInv, OutputsFine, OutputsOwned
<1>4. live = {} /\ astray = {}
  BY DEF Init
<1> QED
  BY <1>1, <1>2, <1>3, <1>4 DEF ImagesInv, Overrun

(* Two images never have the same buffer.                                  *)
LEMMA Apart ==
  ASSUME AllFine, NEW i \in live, NEW j \in live, i # j
  PROVE  image[i].buf # image[j].buf
BY DEF AllFine, ImageFine

(* Live images have the fields of an image.                                *)
LEMMA LiveTyped ==
  ASSUME AllFine, NEW i \in live
  PROVE  /\ i \in ImageIDs /\ image[i] \in ImageObject /\ image[i].format \in Listed
         /\ image[i].buf \in BufferIDs /\ buffer[image[i].buf] \in BufferObject
BY DEF AllFine, TypeOK, ImageFine, ImageObject

(* An image and its buffer that a step leaves alone.                       *)
LEMMA LeftAlone ==
  ASSUME AllFine, NEW i \in live, image'[i] # NONE, image'[i].format = image[i].format,
         image'[i].buf = image[i].buf, buffer'[image[i].buf] = buffer[image[i].buf]
  PROVE  ImageFine(i)'
BY DEF AllFine, ImageFine

(***************************************************************************)
(* vaDestroyImage, and vaCreateImage.                                      *)
(***************************************************************************)
LEMMA DestroyHolds ==
  ASSUME AllFine, NEW i \in ImageIDs, DestroyImage(i)
  PROVE  AllFine'
<1> PICK b \in BufferIDs : b = image[i].buf
  BY LiveTyped DEF DestroyImage
<1>1. /\ i \in live /\ live' = live \ {i} /\ output' \subseteq output
      /\ UNCHANGED <<surface, astray>>
      /\ image' = [image EXCEPT ![i].palette = FALSE]
      /\ buffer' = [c \in BufferIDs |-> IF c = b THEN NONE ELSE buffer[c]]
  BY DEF DestroyImage, OutputLeft, BufferLeft
<1>2. TypeOK /\ image[i] \in ImageObject
  BY <1>1, LiveTyped DEF AllFine
<1>3. /\ image' \in [ImageIDs -> ImageObject \cup {NONE}]
      /\ image'[i].palette = FALSE
      /\ \A j \in ImageIDs : j # i => image'[j] = image[j]
  BY <1>1, <1>2 DEF TypeOK, ImageObject
<1>4. TypeOK'
  BY <1>1, <1>2, <1>3 DEF TypeOK
<1>5. ASSUME NEW j \in live' PROVE ImageFine(j)'
  <2>1. j \in live /\ j # i /\ image'[j] = image[j] /\ image[j].buf # b /\ image[j] # NONE
    BY <1>1, <1>3, Apart, LiveTyped DEF AllFine, ImageFine
  <2>2. buffer'[image[j].buf] = buffer[image[j].buf]
    BY <1>1, <2>1, LiveTyped
  <2> QED
    BY <2>1, <2>2, LeftAlone
<1>6. SurfacesFine'
  BY <1>1 DEF AllFine, SurfacesFine
<1> QED
  BY <1>4, <1>5, <1>6 DEF AllFine

(* One that succeeds takes a buffer that was free.                         *)
LEMMA CreateHolds ==
  ASSUME AllFine, NEW i \in ImageIDs, NEW f \in Formats, NEW size \in Sizes,
         NEW align \in Aligns, NEW b \in BufferIDs, CreateImage(i, f, size, align, b)
  PROVE  AllFine'
<1> DEFINE new == [format |-> f, size |-> size, align |-> align, buf |-> b,
                   rgba |-> INVALID, palette |-> FALSE]
           pixels == [owner |-> i, planes |-> Blank(f)]
<1>1. /\ i \notin live /\ HasLayout(f) /\ buffer[b] = NONE /\ live' = live \cup {i}
      /\ UNCHANGED <<surface, output, astray>> /\ f \in Listed
      /\ image' = [image EXCEPT ![i] = new] /\ buffer' = [buffer EXCEPT ![b] = pixels]
  BY FormatsAre DEF CreateImage, Blank
<1>2. /\ new \in ImageObject /\ pixels \in BufferObject
      /\ new.format = f /\ new.buf = b /\ new.palette = FALSE
      /\ pixels.owner = i /\ pixels.planes = Blank(f)
  BY <1>1, PlanesListed DEF ImageObject, BufferObject
<1> HIDE DEF new, pixels
<1>3. TypeOK
  BY DEF AllFine
<1>4. /\ image' \in [ImageIDs -> ImageObject \cup {NONE}] /\ image'[i] = new
      /\ \A j \in ImageIDs : j # i => image'[j] = image[j]
      /\ buffer' \in [BufferIDs -> BufferObject \cup {NONE}] /\ buffer'[b] = pixels
      /\ \A c \in BufferIDs : c # b => buffer'[c] = buffer[c]
  BY <1>1, <1>2, <1>3 DEF TypeOK
<1>5. TypeOK'
  BY <1>1, <1>2, <1>3, <1>4 DEF TypeOK
<1>6. ASSUME NEW j \in live' PROVE ImageFine(j)'
  <2>1. CASE j = i
    BY <1>1, <1>2, <1>4, <2>1 DEF ImageFine
  <2>2. CASE j # i
    <3>1. j \in live /\ image[j].buf # b /\ image[j] # NONE
      BY <1>1, <2>2 DEF AllFine, ImageFine
    <3> QED
      BY <1>4, <2>2, <3>1, LeftAlone, LiveTyped
  <2> QED
    BY <2>1, <2>2
<1>7. SurfacesFine'
  BY <1>1 DEF AllFine, SurfacesFine
<1> QED
  BY <1>5, <1>6, <1>7 DEF AllFine

(* One that fails has no buffer to destroy, as the ID was reset, unless    *)
(* its format is not in the map: then it may be the one of another image.  *)
LEMMA CreateFailsHolds ==
  ASSUME AllFine, astray = {}, NEW i \in ImageIDs, NEW f \in Formats, CreateImageFails(i, f)
  PROVE  ImagesInv'
<1> PICK left \in LeftIn(i) :
      LET buf == ResetBuf(f, left)
      IN /\ output' = OutputLeft(left)
         /\ buffer' = BufferLeft(buf)
         /\ astray' = Strays(f, left, buf)
         /\ image' = IF image[i] = NONE THEN image
                     ELSE [image EXCEPT ![i].buf = buf, ![i].palette = FALSE]
  BY DEF CreateImageFails
<1> PICK buf : buf = ResetBuf(f, left)
  OBVIOUS
<1>1. /\ i \notin live /\ UNCHANGED <<live, surface>> /\ TypeOK /\ SurfacesFine
  BY DEF CreateImageFails, AllFine
<1>2. /\ output' \subseteq output
      /\ buffer' = [b \in BufferIDs |-> IF b = buf THEN NONE ELSE buffer[b]]
      /\ image' = IF image[i] = NONE THEN image
                  ELSE [image EXCEPT ![i].buf = buf, ![i].palette = FALSE]
  BY DEF OutputLeft, BufferLeft
<1>3. /\ buf \in BufferIDs \cup {INVALID}
      /\ image[i] # NONE => image[i] \in ImageObject
      /\ buf = INVALID \/ f \notin Listed
      /\ image[i] # NONE /\ f \notin Listed => buf = image[i].buf
  BY <1>1 DEF LeftIn, ResetBuf, TypeOK, ImageObject
<1>4. /\ astray' \subseteq Astrays /\ "buffer" \notin astray' /\ "overrun" \notin astray'
      /\ f \notin Listed /\ buf \in BufferIDs /\ buffer[buf] # NONE => "unlisted" \in astray'
  BY <1>3 DEF Strays, Astrays
<1>5. /\ image' \in [ImageIDs -> ImageObject \cup {NONE}]
      /\ \A j \in ImageIDs : j # i => image'[j] = image[j]
      /\ image[i] = NONE => image'[i] = NONE
      /\ image[i] # NONE => image'[i] # NONE /\ image'[i].buf = buf /\ image'[i].palette = FALSE
  <2>1. CASE image[i] = NONE
    BY <1>1, <1>2, <2>1 DEF TypeOK
  <2>2. CASE image[i] # NONE
    <3> DEFINE new == [image[i] EXCEPT !.buf = buf, !.palette = FALSE]
    <3>1. new \in ImageObject /\ new.buf = buf /\ new.palette = FALSE
      BY <1>3, <2>2 DEF ImageObject
    <3>2. image' = [image EXCEPT ![i] = new]
      BY <1>1, <1>2, <2>2 DEF TypeOK
    <3> HIDE DEF new
    <3> QED
      BY <1>1, <2>2, <3>1, <3>2 DEF TypeOK
  <2> QED
    BY <2>1, <2>2
<1>6. TypeOK'
  <2>1. buffer' \in [BufferIDs -> BufferObject \cup {NONE}]
    BY <1>1, <1>2 DEF TypeOK
  <2>2. \A j \in ImageIDs : image'[j] # NONE /\ image'[j].palette =>
          j \in live' /\ FormatType(image'[j].format) = "INDEXED"
    BY <1>1, <1>5 DEF TypeOK
  <2>3. output' \subseteq Handles /\ live' \subseteq ImageIDs
    BY <1>1, <1>2 DEF TypeOK
  <2> QED
    BY <1>4, <1>5, <2>1, <2>2, <2>3 DEF TypeOK
<1>7. ASSUME NEW j \in live' PROVE (ImageFine(j) \/ Robbed(j))'
  <2>1. /\ j \in live /\ j # i /\ ImageFine(j) /\ j \in ImageIDs /\ image'[j] = image[j]
        /\ image[j] # NONE
    BY <1>1, <1>5, LiveTyped DEF AllFine, ImageFine
  <2>2. CASE image[j].buf # buf
    <3>1. buffer'[image[j].buf] = buffer[image[j].buf]
      BY <1>2, <2>1, <2>2, LiveTyped
    <3> QED
      BY <2>1, <3>1, LeftAlone
  <2>3. CASE image[j].buf = buf
    <3>1. /\ buf \in BufferIDs /\ buffer[buf] # NONE /\ HasLayout(image[j].format)
      BY <2>1, <2>3 DEF ImageFine
    <3>2. f \notin Listed /\ "unlisted" \in astray' /\ buffer'[buf] = NONE
      BY <1>2, <1>3, <1>4, <3>1
    <3>3. i \in ImageIDs \ live' /\ (image'[i] = NONE \/ image'[i].buf = buf)
      BY <1>1, <1>5
    <3> QED
      BY <2>1, <2>3, <3>1, <3>2, <3>3 DEF Robbed
  <2> QED
    BY <2>2, <2>3
<1>8. SurfacesFine' /\ Overrun'
  BY <1>1, <1>4 DEF SurfacesFine, Overrun
<1> QED
  BY <1>4, <1>6, <1>7, <1>8 DEF ImagesInv

(* A palette changes nothing else of an image.                             *)
LEMMA PaletteHolds ==
  ASSUME AllFine, NEW i \in ImageIDs, SetImagePalette(i)
  PROVE  AllFine'
<1>1. /\ i \in live /\ FormatType(image[i].format) = "INDEXED"
      /\ UNCHANGED <<live, buffer, surface, output, astray>>
      /\ image' = [image EXCEPT ![i].palette = TRUE]
  BY DEF SetImagePalette
<1>2. TypeOK /\ image[i] \in ImageObject
  BY <1>1, LiveTyped DEF AllFine
<1>3. /\ image' \in [ImageIDs -> ImageObject \cup {NONE}]
      /\ image'[i].format = image[i].format /\ image'[i].buf = image[i].buf /\ image'[i] # NONE
      /\ \A j \in ImageIDs : j # i => image'[j] = image[j]
  <2>1. [image[i] EXCEPT !.palette = TRUE] \in ImageObject
    BY <1>2 DEF ImageObject
  <2> QED
    BY <1>1, <1>2, <2>1 DEF TypeOK, ImageObject
<1>4. TypeOK'
  BY <1>1, <1>2, <1>3 DEF TypeOK
<1>5. ASSUME NEW j \in live' PROVE ImageFine(j)'
  <2>1. j \in live /\ image[j] # NONE /\ j \in ImageIDs
    BY <1>1, LiveTyped DEF AllFine, ImageFine
  <2> QED
    BY <1>1, <1>3, <2>1, LeftAlone
<1> QED
  BY <1>1, <1>4, <1>5 DEF AllFine, SurfacesFine
-----------------------------------------------------------------------------
(***************************************************************************)
(* Transfers.                                                              *)
(***************************************************************************)
(* All planes of an image are written at once.                             *)
LEMMA PlanesSet ==
  ASSUME AllFine, NEW i \in live, NEW p,
         p = Blank(image[i].format) \/ p = VAPlanes(image[i].format),
         buffer' = [buffer EXCEPT ![image[i].buf].planes = p],
         \A j \in live : /\ image'[j] # NONE /\ image'[j].format = image[j].format
                         /\ image'[j].buf = image[j].buf
  PROVE  /\ buffer' \in [BufferIDs -> BufferObject \cup {NONE}]
         /\ \A j \in live : ImageFine(j)'
<1> PICK b \in BufferIDs : b = image[i].buf
  BY LiveTyped
<1> PICK f \in Listed : f = image[i].format
  BY LiveTyped
<1>1. p \in PlaneLists /\ p \in {Blank(f), VAPlanes(f)}
  BY PlanesListed
<1>2. /\ buffer \in [BufferIDs -> BufferObject \cup {NONE}] /\ buffer[b] \in BufferObject
      /\ buffer[b].owner = i /\ HasLayout(f)
  BY LiveTyped DEF AllFine, TypeOK, ImageFine
<1> DEFINE new == [buffer[b] EXCEPT !.planes = p]
<1>3. new \in BufferObject /\ new.owner = i /\ new.planes = p
  BY <1>1, <1>2 DEF BufferObject
<1>4. buffer' = [buffer EXCEPT ![b] = new]
  BY <1>2
<1> HIDE DEF new
<1>5. /\ buffer' \in [BufferIDs -> BufferObject \cup {NONE}] /\ buffer'[b] = new
      /\ \A c \in BufferIDs : c # b => buffer'[c] = buffer[c]
  BY <1>2, <1>3, <1>4
<1>6. ASSUME NEW j \in live PROVE ImageFine(j)'
  <2>1. CASE j = i
    BY <1>1, <1>2, <1>3, <1>5, <2>1 DEF ImageFine
  <2>2. CASE j # i
    <3>1. image[j].buf # b /\ image[j].buf \in BufferIDs
      BY <2>2, Apart, LiveTyped
    <3> QED
      BY <1>5, <3>1, LeftAlone
  <2> QED
    BY <2>1, <2>2
<1> QED
  BY <1>5, <1>6

(* The application writes what the format says.                            *)
LEMMA WriteHolds ==
  ASSUME AllFine, NEW i \in ImageIDs, WriteImage(i)
  PROVE  AllFine'
<1> PICK p : p = VAPlanes(image[i].format)
  OBVIOUS
<1>1. /\ i \in live /\ UNCHANGED <<live, image, surface, output, astray>>
      /\ buffer' = [buffer EXCEPT ![image[i].buf].planes = p]
  BY DEF WriteImage
<1>2. \A j \in live : /\ image'[j] # NONE /\ image'[j].format = image[j].format
                      /\ image'[j].buf = image[j].buf
  BY <1>1 DEF AllFine, ImageFine
<1>3. /\ buffer' \in [BufferIDs -> BufferObject \cup {NONE}]
      /\ \A j \in live : ImageFine(j)'
  BY <1>1, <1>2, PlanesSet
<1> QED
  BY <1>1, <1>3 DEF AllFine, TypeOK, SurfacesFine

(* What VDPAU reads back from a surface is everything or nothing.          *)
LEMMA ReadBackIs ==
  ASSUME SurfacesFine, NEW f \in YCbCr, NEW s \in Surfaces
  PROVE  ReadBack(f, s) = Blank(f) \/ ReadBack(f, s) = VAPlanes(f)
<1> DEFINE N == 1..Len(VAPlanes(f))
           K(p) == CHOOSE k \in N : Order(f)[k] = p
<1>1. ReadBack(f, s) = [p \in N |-> UNION {surface[s].as[c] : c \in VdpPlanes(f)[K(p)]}]
  BY DEF ReadBack
<1>2. \A p \in N : K(p) \in N /\ Order(f)[K(p)] = p
  BY PointersMatch
<1> HIDE DEF K
<1>3. \A p \in N : VdpPlanes(f)[K(p)] = VAPlanes(f)[p] /\ VAPlanes(f)[p] \subseteq Components
  <2> SUFFICES ASSUME NEW p \in N
               PROVE  VdpPlanes(f)[K(p)] = VAPlanes(f)[p] /\ VAPlanes(f)[p] \subseteq Components
    OBVIOUS
  <2> PICK k \in N : k = K(p) /\ Order(f)[k] = p
    BY <1>2
  <2>1. VdpPlanes(f)[k] = VAPlanes(f)[Order(f)[k]] /\ VdpPlanes(f)[k] \subseteq Components
    BY PointersMatch
  <2> QED
    BY <2>1
<1>4. f \in Listed
  BY FormatsAre
<1>5. DOMAIN VAPlanes(f) = N /\ VAPlanes(f) \in Seq(SUBSET (Components \cup {"RGB", "index"}))
  BY <1>4, PlanesListed DEF PlaneLists
<1>6. VAPlanes(f) = [p \in N |-> VAPlanes(f)[p]]
  BY <1>5
<1> HIDE DEF N
<1>7. CASE surface[s].as = Nothing
  <2>1. \A p \in N : \A c \in VdpPlanes(f)[K(p)] : surface[s].as[c] = {}
    BY <1>3, <1>7 DEF Nothing
  <2>2. \A p \in N : UNION {surface[s].as[c] : c \in VdpPlanes(f)[K(p)]} = {}
    BY <2>1
  <2> QED
    BY <1>1, <1>5, <2>2 DEF Blank
<1>8. CASE surface[s].as = All
  <2>1. \A p \in N : \A c \in VdpPlanes(f)[K(p)] : surface[s].as[c] = {c}
    BY <1>3, <1>8 DEF All
  <2>2. \A p \in N : UNION {surface[s].as[c] : c \in VdpPlanes(f)[K(p)]} = VAPlanes(f)[p]
    BY <1>3, <2>1
  <2> QED
    BY <1>1, <1>6, <2>2
<1> QED
  BY <1>7, <1>8 DEF SurfacesFine

(* vaGetImage of a format that VDPAU knows for video surfaces, which stays *)
(* inside the buffer.                                                      *)
LEMMA GetHolds ==
  ASSUME AllFine, NEW i \in ImageIDs, NEW s \in Surfaces, GetImage(i, s),
         Fits(image[i], surface[s].size)
  PROVE  AllFine'
<1> PICK f : f = image[i].format
  OBVIOUS
<1> PICK p : p = ReadBack(f, s)
  OBVIOUS
<1>1. /\ i \in live /\ UNCHANGED <<live, image, surface, output, astray>>
      /\ buffer' = [buffer EXCEPT ![image[i].buf].planes = p] /\ FormatType(f) = "YCBCR"
  BY DEF GetImage
<1>2. p = Blank(image[i].format) \/ p = VAPlanes(image[i].format)
  <2>1. f \in YCbCr
    BY <1>1, LiveTyped, FormatsAre
  <2> QED
    BY <2>1, ReadBackIs DEF AllFine
<1>3. \A j \in live : /\ image'[j] # NONE /\ image'[j].format = image[j].format
                      /\ image'[j].buf = image[j].buf
  BY <1>1 DEF AllFine, ImageFine
<1>4. /\ buffer' \in [BufferIDs -> BufferObject \cup {NONE}]
      /\ \A j \in live : ImageFine(j)'
  BY <1>1, <1>2, <1>3, PlanesSet
<1> QED
  BY <1>1, <1>4 DEF AllFine, TypeOK, SurfacesFine

(* A live image holds what is no larger than itself, with its buffer or    *)
(* without.                                                                *)
LEMMA LaidFits ==
  ASSUME ImagesInv \/ AllFine, NEW i \in live, NEW size \in Sizes,
         NoLarger(size, image[i].size)
  PROVE  Fits(image[i], size)
<1> DEFINE f == image[i].format
           w == image[i].size[1]
           h == image[i].size[2]
           align == image[i].align
<1>1. image[i] \in ImageObject /\ f \in Laid
  BY FormatsAre DEF ImagesInv, AllFine, TypeOK, ImageFine, Robbed
<1>2. /\ w \in Nat \ {0} /\ h \in Nat \ {0} /\ align \in 0..(ALIGN - 1)
      /\ image[i].size = <<w, h>>
  <2>1. image[i].size \in Sizes /\ align \in Aligns
    BY <1>1 DEF ImageObject
  <2>2. image[i].size \in (Nat \ {0}) \X (Nat \ {0})
    BY <2>1, ImagesAssumption
  <2>3. Aligns \subseteq 0..(ALIGN - 1)
    BY ImagesAssumption
  <2> PICK m : m = image[i].size
    OBVIOUS
  <2>4. m[1] \in Nat \ {0} /\ m[2] \in Nat \ {0} /\ m = <<m[1], m[2]>>
    BY <2>2
  <2> QED
    BY <2>1, <2>3, <2>4
<1>3. /\ size[1] \in Nat \ {0} /\ size[2] \in Nat \ {0} /\ size = <<size[1], size[2]>>
      /\ size[1] <= w /\ size[2] <= h
  BY ImagesAssumption DEF NoLarger
<1>4. PICK im : im = image[i] /\ im.format = f /\ im.size = <<w, h>> /\ im.align = align
  BY <1>2
<1> HIDE DEF f, w, h, align
<1>5. FitsWhole(f, w, h, align)
  BY <1>1, <1>2, PackedFits, InterleavedFits, PlanarFits DEF Laid
<1>6. Fits(im, <<size[1], size[2]>>)
  BY <1>1, <1>2, <1>3, <1>4, <1>5, SmallerFits
<1> QED
  BY <1>3, <1>4, <1>6

(* Otherwise the surface is larger than the image.                         *)
LEMMA GetOverruns ==
  ASSUME AllFine, astray = {}, NEW i \in ImageIDs, NEW s \in Surfaces, GetImage(i, s),
         ~Fits(image[i], surface[s].size)
  PROVE  ImagesInv'
<1>1. /\ i \in live /\ UNCHANGED <<live, image, buffer, surface, output>>
      /\ astray' = {"overrun"}
  BY DEF GetImage
<1>2. surface[s].size \in Sizes
  BY DEF AllFine, SurfacesFine
<1>3. ~NoLarger(surface[s].size, image[i].size)
  BY <1>1, <1>2, LaidFits
<1>4. AllFine'
  BY <1>1 DEF AllFine, TypeOK, SurfacesFine, ImageFine, Astrays
<1>5. Overrun'
  BY <1>1, <1>3 DEF Overrun, NoLarger
<1>6. "buffer" \notin astray'
  BY <1>1
<1> QED
  BY <1>4, <1>5, <1>6 DEF AllFine, ImagesInv

(* vaPutImage: what is taken for each component is that component.         *)
LEMMA PutHolds ==
  ASSUME AllFine, NEW i \in ImageIDs, NEW s \in Surfaces, PutImage(i, s)
  PROVE  AllFine'
<1> DEFINE f == image[i].format
           planes == buffer[image[i].buf].planes
           K(c) == CHOOSE k \in DOMAIN VdpPlanes(f) : c \in VdpPlanes(f)[k]
           Taken(c) == LET plane == planes[Order(f)[K(c)]] IN IF c \in plane THEN {c} ELSE plane
           taken == [c \in Components |-> Taken(c)]
<1>1. /\ i \in live /\ FormatType(f) = "YCBCR"
      /\ UNCHANGED <<live, image, buffer, output, astray>>
      /\ surface' = [surface EXCEPT ![s].as = taken]
  BY DEF PutImage
<1>2. f \in YCbCr /\ planes \in {Blank(f), VAPlanes(f)}
  BY <1>1, LiveTyped, FormatsAre DEF AllFine, ImageFine
<1> HIDE DEF f, planes
<1>3. \A c \in Components : K(c) \in DOMAIN VdpPlanes(f) /\ c \in VdpPlanes(f)[K(c)]
  BY <1>2, PointersMatch
<1> HIDE DEF K
<1>4. \A c \in Components : /\ Order(f)[K(c)] \in 1..Len(VAPlanes(f))
                            /\ c \in VAPlanes(f)[Order(f)[K(c)]]
  BY <1>2, <1>3, PointersMatch
<1>5. DOMAIN VAPlanes(f) = 1..Len(VAPlanes(f))
  BY <1>2, PlanesListed, FormatsAre
<1>6. taken \in {Nothing, All}
  <2>1. CASE planes = Blank(f)
    <3>1. \A c \in Components : planes[Order(f)[K(c)]] = {}
      BY <1>4, <1>5, <2>1 DEF Blank
    <3>2. \A c \in Components : Taken(c) = {}
      BY <3>1
    <3> QED
      BY <3>2 DEF Nothing
  <2>2. CASE planes = VAPlanes(f)
    <3>1. \A c \in Components : Taken(c) = {c}
      BY <1>4, <2>2
    <3> QED
      BY <3>1 DEF All
  <2> QED
    BY <1>2, <2>1, <2>2
<1> HIDE DEF taken
<1>7. taken \in [Components -> SUBSET Components]
  BY <1>6 DEF Nothing, All
<1>8. SurfacesFine'
  <2> DEFINE new == [surface[s] EXCEPT !.as = taken]
  <2>1. SurfacesFine
    BY DEF AllFine
  <2>2. /\ new \in [size : Sizes, as : [Components -> SUBSET Components]]
        /\ new.as = taken /\ surface' = [surface EXCEPT ![s] = new]
    BY <1>1, <1>7, <2>1 DEF SurfacesFine
  <2> HIDE DEF new
  <2> QED
    BY <1>6, <2>1, <2>2 DEF SurfacesFine
<1> QED
  BY <1>1, <1>8 DEF AllFine, TypeOK, ImageFine

(* vaGetImage of RGBA, each of its ways.                                   *)
LEMMA RGBAParts ==
  ASSUME NEW i \in ImageIDs, NEW s \in Surfaces, GetImageRGBA(i, s)
  PROVE  /\ i \in live /\ FormatType(image[i].format) = "RGBA"
         /\ UNCHANGED <<live, surface, astray>>
         /\ \/ UNCHANGED <<output, image>>
            \/ /\ image[i].rgba = INVALID
               /\ \E h \in NewHandles : /\ output' = output \cup {h}
                                        /\ image' = [image EXCEPT ![i].rgba = h]
         /\ \/ buffer' = buffer
            \/ buffer' = [buffer EXCEPT ![image[i].buf].planes = <<{"RGB"}>>]
BY DEF GetImageRGBA, NeedsOutput

(* An output surface is added to an image, and nothing else changes in it. *)
LEMMA HandleSet ==
  ASSUME TypeOK, NEW i \in ImageIDs, image[i] # NONE, NEW h \in Handles,
         image' = [image EXCEPT ![i].rgba = h]
  PROVE  /\ image' \in [ImageIDs -> ImageObject \cup {NONE}]
         /\ image'[i] # NONE /\ image'[i].rgba = h
         /\ image'[i].format = image[i].format /\ image'[i].buf = image[i].buf
         /\ image'[i].palette = image[i].palette
         /\ \A j \in ImageIDs : j # i => image'[j] = image[j]
<1>1. image[i] \in ImageObject /\ image \in [ImageIDs -> ImageObject \cup {NONE}]
  BY DEF TypeOK
<1> DEFINE new == [image[i] EXCEPT !.rgba = h]
<1>2. /\ new \in ImageObject /\ new.rgba = h /\ new.format = image[i].format
      /\ new.buf = image[i].buf /\ new.palette = image[i].palette
  BY <1>1 DEF ImageObject
<1>3. image' = [image EXCEPT ![i] = new]
  BY <1>1
<1> HIDE DEF new
<1> QED
  BY <1>1, <1>2, <1>3

(* vaGetImage of RGBA.                                                     *)
LEMMA GetRGBAHolds ==
  ASSUME AllFine, NEW i \in ImageIDs, NEW s \in Surfaces, GetImageRGBA(i, s)
  PROVE  AllFine'
<1>1. /\ i \in live /\ FormatType(image[i].format) = "RGBA" /\ TypeOK
      /\ UNCHANGED <<live, surface, astray>> /\ image[i] # NONE
  BY RGBAParts DEF AllFine, ImageFine
<1>2. /\ image' \in [ImageIDs -> ImageObject \cup {NONE}]
      /\ output' \subseteq Handles
      /\ \A j \in ImageIDs : image[j] # NONE =>
           /\ image'[j] # NONE /\ image'[j].format = image[j].format
           /\ image'[j].buf = image[j].buf /\ image'[j].palette = image[j].palette
      /\ \A j \in ImageIDs : image[j] = NONE => image'[j] = NONE
  <2>1. CASE UNCHANGED <<output, image>>
    BY <1>1, <2>1 DEF TypeOK
  <2>2. CASE \E h \in NewHandles : /\ output' = output \cup {h}
                                   /\ image' = [image EXCEPT ![i].rgba = h]
    <3> PICK h \in NewHandles : /\ output' = output \cup {h}
                               /\ image' = [image EXCEPT ![i].rgba = h]
      BY <2>2
    <3> QED
      BY <1>1, HandleSet DEF TypeOK, NewHandles
  <2> QED
    BY <2>1, <2>2, RGBAParts
<1>3. \A j \in live : /\ image[j] # NONE /\ j \in ImageIDs
                      /\ image'[j] # NONE /\ image'[j].format = image[j].format
                      /\ image'[j].buf = image[j].buf
  BY <1>2, LiveTyped DEF AllFine, ImageFine
<1>4. /\ buffer' \in [BufferIDs -> BufferObject \cup {NONE}]
      /\ \A j \in live : ImageFine(j)'
  <2>1. CASE buffer' = buffer
    BY <1>1, <1>3, <2>1, LeftAlone DEF TypeOK
  <2>2. CASE buffer' = [buffer EXCEPT ![image[i].buf].planes = <<{"RGB"}>>]
    <3> PICK p : p = <<{"RGB"}>>
      OBVIOUS
    <3>1. image[i].format = "RGBA"
      BY <1>1, LiveTyped, FormatsAre
    <3>2. p = VAPlanes(image[i].format)
      BY <3>1 DEF VAPlanes
    <3> QED
      BY <1>1, <1>3, <2>2, <3>2, PlanesSet
  <2> QED
    BY <2>1, <2>2, RGBAParts
<1>5. TypeOK'
  BY <1>1, <1>2, <1>4 DEF TypeOK
<1> QED
  BY <1>1, <1>4, <1>5 DEF AllFine, SurfacesFine

(* The application's own buffers are never those of images.                *)
LEMMA BufferHolds ==
  ASSUME AllFine, NEW b \in BufferIDs, CreateBuffer(b) \/ DestroyBuffer(b)
  PROVE  AllFine'
<1> DEFINE own == [owner |-> "application", planes |-> <<>>]
<1>1. /\ UNCHANGED <<live, image, surface, output, astray>>
      /\ buffer[b] = NONE \/ buffer[b].owner = "application"
      /\ buffer' = [buffer EXCEPT ![b] = own] \/ buffer' = [buffer EXCEPT ![b] = NONE]
  BY DEF CreateBuffer, DestroyBuffer
<1>2. own \in BufferObject
  BY DEF BufferObject, PlaneLists
<1> HIDE DEF own
<1>3. /\ buffer' \in [BufferIDs -> BufferObject \cup {NONE}]
      /\ \A c \in BufferIDs : c # b => buffer'[c] = buffer[c]
  BY <1>1, <1>2 DEF AllFine, TypeOK
<1>4. ASSUME NEW i \in live PROVE ImageFine(i)'
  <2>1. i \in ImageIDs /\ image[i].buf # b /\ image[i].buf \in BufferIDs /\ image[i] # NONE
    BY <1>1, LiveTyped DEF AllFine, ImageFine
  <2> QED
    BY <1>1, <1>3, <2>1, LeftAlone
<1> QED
  BY <1>1, <1>3, <1>4 DEF AllFine, TypeOK, SurfacesFine

(* The invariant is inductive.                                             *)
LEMMA NextHolds == ImagesInv /\ [Next]_vars => ImagesInv'
<1> SUFFICES ASSUME ImagesInv, [Next]_vars PROVE ImagesInv'
  OBVIOUS
<1>1. CASE UNCHANGED vars
  BY <1>1 DEF vars, ImagesInv, TypeOK, ImageFine, SurfacesFine, Robbed, Overrun
<1>2. ASSUME NEW i \in ImageIDs, NEW f \in Formats, NEW size \in Sizes, NEW align \in Aligns,
             NEW b \in BufferIDs, CreateImage(i, f, size, align, b)
      PROVE  ImagesInv'
  <2>1. astray = {} /\ astray' = {}
    BY <1>2 DEF CreateImage
  <2> QED
    BY <1>2, <2>1, CreateHolds, BeforeStray, NotAstray
<1>3. ASSUME NEW i \in ImageIDs, NEW f \in Formats, CreateImageFails(i, f) PROVE ImagesInv'
  <2>1. astray = {}
    BY <1>3 DEF CreateImageFails
  <2> QED
    BY <1>3, <2>1, CreateFailsHolds, BeforeStray
<1>4. ASSUME NEW i \in ImageIDs, DestroyImage(i) \/ SetImagePalette(i) \/ WriteImage(i)
      PROVE  ImagesInv'
  <2>1. astray = {} /\ astray' = {}
    BY <1>4 DEF DestroyImage, SetImagePalette, WriteImage
  <2> QED
    BY <1>4, <2>1, DestroyHolds, PaletteHolds, WriteHolds, BeforeStray, NotAstray
<1>5. ASSUME NEW i \in ImageIDs, NEW s \in Surfaces, PutImage(i, s) \/ GetImageRGBA(i, s)
      PROVE  ImagesInv'
  <2>1. astray = {} /\ astray' = {}
    BY <1>5 DEF PutImage, GetImageRGBA
  <2> QED
    BY <1>5, <2>1, PutHolds, GetRGBAHolds, BeforeStray, NotAstray
<1>6. ASSUME NEW i \in ImageIDs, NEW s \in Surfaces, GetImage(i, s) PROVE ImagesInv'
  <2>1. astray = {} /\ AllFine
    BY <1>6, BeforeStray DEF GetImage
  <2>2. CASE Fits(image[i], surface[s].size)
    <3>1. astray' = {}
      BY <1>6, <2>1, <2>2 DEF GetImage
    <3> QED
      BY <1>6, <2>1, <2>2, <3>1, GetHolds, NotAstray
  <2>3. CASE ~Fits(image[i], surface[s].size)
    BY <1>6, <2>1, <2>3, GetOverruns
  <2> QED
    BY <2>2, <2>3
<1>7. ASSUME NEW b \in BufferIDs, CreateBuffer(b) \/ DestroyBuffer(b) PROVE ImagesInv'
  <2>1. astray = {} /\ astray' = {}
    BY <1>7 DEF CreateBuffer, DestroyBuffer
  <2> QED
    BY <1>7, <2>1, BufferHolds, BeforeStray, NotAstray
<1> QED
  BY <1>1, <1>2, <1>3, <1>4, <1>5, <1>6, <1>7 DEF Next
-----------------------------------------------------------------------------
(***************************************************************************)
(* Output surfaces.                                                        *)
(***************************************************************************)
(* What is fine owns what it should.                                       *)
LEMMA FineIsOwned == OutputsFine => OutputsOwned
BY DEF OutputsFine, OutputsOwned

(* A step that leaves each live image's handle and what exists alone; an   *)
(* image that appears has no handle.                                       *)
LEMMA HandlesKept ==
  ASSUME OutputsFine, NEW l, live' = live \cup l, output' = output,
         \A j \in live : image'[j].rgba = image[j].rgba,
         \A j \in l : j \notin live /\ image'[j].rgba = INVALID
  PROVE  OutputsFine'
<1>1. {image'[j].rgba : j \in live'} \ {INVALID} = {image[j].rgba : j \in live} \ {INVALID}
  OBVIOUS
<1>2. \A j, k \in live' : j # k /\ image'[j].rgba = image'[k].rgba => image'[j].rgba = INVALID
  BY DEF OutputsFine
<1> QED
  BY <1>1, <1>2 DEF OutputsFine

(* vaDestroyImage takes away its own alone.                                *)
LEMMA DestroyOutputs ==
  ASSUME AllFine, OutputsFine, NEW i \in ImageIDs, DestroyImage(i)
  PROVE  OutputsFine'
<1> PICK g : g = image[i].rgba
  OBVIOUS
<1>1. /\ i \in live /\ live' = live \ {i} /\ output' = output \ {g}
      /\ image' = [image EXCEPT ![i].palette = FALSE]
  BY DEF DestroyImage, OutputLeft
<1>2. /\ image \in [ImageIDs -> ImageObject \cup {NONE}] /\ image[i] \in ImageObject
      /\ live \subseteq ImageIDs
  BY <1>1, LiveTyped DEF AllFine, TypeOK
<1>3. \A j \in ImageIDs : j # i => image'[j] = image[j]
  BY <1>1, <1>2
<1>4. \A j \in live : j # i /\ image[j].rgba # INVALID => image[j].rgba # g
  BY <1>1 DEF OutputsFine
<1>5. {image'[j].rgba : j \in live'} \ {INVALID} = output'
  <2>1. {image'[j].rgba : j \in live'} = {image[j].rgba : j \in live \ {i}}
    BY <1>1, <1>2, <1>3
  <2>2. output = {image[j].rgba : j \in live} \ {INVALID}
    BY DEF OutputsFine
  <2> QED
    BY <1>1, <1>4, <2>1, <2>2
<1>6. \A j, k \in live' : j # k /\ image'[j].rgba = image'[k].rgba => image'[j].rgba = INVALID
  BY <1>1, <1>2, <1>3 DEF OutputsFine
<1> QED
  BY <1>5, <1>6 DEF OutputsFine

(* vaCreateImage makes none.                                               *)
LEMMA CreateOutputs ==
  ASSUME AllFine, OutputsFine, NEW i \in ImageIDs, NEW f \in Formats, NEW size \in Sizes,
         NEW align \in Aligns, NEW b \in BufferIDs, CreateImage(i, f, size, align, b)
  PROVE  OutputsFine'
<1> DEFINE new == [format |-> f, size |-> size, align |-> align, buf |-> b,
                   rgba |-> INVALID, palette |-> FALSE]
<1>1. /\ image \in [ImageIDs -> ImageObject \cup {NONE}] /\ live \subseteq ImageIDs
      /\ i \notin live /\ live' = live \cup {i} /\ output' = output
      /\ image' = [image EXCEPT ![i] = new]
  BY DEF AllFine, TypeOK, CreateImage
<1>2. new.rgba = INVALID
  OBVIOUS
<1> HIDE DEF new
<1> PICK l : l = {i}
  OBVIOUS
<1>3. /\ live' = live \cup l /\ \A j \in live : image'[j].rgba = image[j].rgba
      /\ \A j \in l : j \notin live /\ image'[j].rgba = INVALID
  BY <1>1, <1>2
<1> QED
  BY <1>1, <1>3, HandlesKept

(* One that fails may destroy the one with the handle in its slot.         *)
LEMMA CreateFailsOutputs ==
  ASSUME AllFine, OutputsFine, NEW i \in ImageIDs, NEW f \in Formats, CreateImageFails(i, f)
  PROVE  OutputsInv'
<1> PICK left \in LeftIn(i) :
      LET buf == ResetBuf(f, left)
      IN /\ output' = OutputLeft(left)
         /\ buffer' = BufferLeft(buf)
         /\ astray' = Strays(f, left, buf)
         /\ image' = IF image[i] = NONE THEN image
                     ELSE [image EXCEPT ![i].buf = buf, ![i].palette = FALSE]
  BY DEF CreateImageFails
<1> PICK g : g = left.rgba
  OBVIOUS
<1>1. /\ i \notin live /\ live' = live /\ live \subseteq ImageIDs /\ output' = output \ {g}
      /\ image \in [ImageIDs -> ImageObject \cup {NONE}]
      /\ g \in output => "output" \in astray'
  BY DEF CreateImageFails, AllFine, TypeOK, OutputLeft, Strays, Astrays
<1>2. /\ \A j \in ImageIDs : j # i => image'[j] = image[j]
      /\ image'[i] = NONE \/ image'[i].rgba = g
  <2>1. CASE image[i] = NONE
    BY <1>1, <2>1
  <2>2. CASE image[i] # NONE
    <3>1. image[i] \in ImageObject /\ left = image[i]
      BY <1>1, <2>2 DEF LeftIn
    <3> PICK buf : image' = [image EXCEPT ![i].buf = buf, ![i].palette = FALSE]
      BY <2>2
    <3> QED
      BY <1>1, <3>1 DEF ImageObject
  <2> QED
    BY <2>1, <2>2
<1>3. \A j \in live : image'[j].rgba = image[j].rgba
  BY <1>1, <1>2
<1>4. /\ {image'[j].rgba : j \in live'} \ {INVALID} = output
      /\ \A j, k \in live' : j # k /\ image'[j].rgba = image'[k].rgba => image'[j].rgba = INVALID
  BY <1>1, <1>3 DEF OutputsFine
<1>5. CASE g \notin output
  <2>1. output' = output
    BY <1>1, <1>5
  <2>2. OutputsFine'
    BY <1>4, <2>1 DEF OutputsFine
  <2>3. OutputsOwned'
    BY <1>4, <2>1 DEF OutputsOwned
  <2> QED
    BY <2>2, <2>3 DEF OutputsInv
<1>6. CASE g \in output
  <2>1. i \in ImageIDs \ live' /\ "output" \in astray'
    BY <1>1, <1>6
  <2>2. OutputsOwned'
    BY <1>1, <1>2, <1>4, <1>6, <2>1 DEF OutputsOwned
  <2> QED
    BY <2>1, <2>2 DEF OutputsInv
<1> QED
  BY <1>5, <1>6

(* vaGetImage makes one for an image that has none, with a handle that no  *)
(* other image has.                                                        *)
LEMMA RGBAOutputs ==
  ASSUME AllFine, OutputsFine, NEW i \in ImageIDs, NEW s \in Surfaces, GetImageRGBA(i, s)
  PROVE  OutputsFine'
<1>1. i \in live /\ live' = live /\ image[i] # NONE /\ TypeOK
  BY RGBAParts DEF AllFine, ImageFine
<1>2. CASE UNCHANGED <<output, image>>
  BY <1>1, <1>2 DEF OutputsFine
<1>3. CASE image[i].rgba = INVALID
           /\ \E h \in NewHandles : /\ output' = output \cup {h}
                                    /\ image' = [image EXCEPT ![i].rgba = h]
  <2> PICK h \in NewHandles : /\ output' = output \cup {h}
                              /\ image' = [image EXCEPT ![i].rgba = h]
    BY <1>3
  <2>1. h \in Handles /\ h \notin output /\ h # INVALID
    BY DEF NewHandles
  <2>2. image'[i].rgba = h /\ \A j \in ImageIDs : j # i => image'[j] = image[j]
    BY <1>1, <2>1, HandleSet
  <2>3. live \subseteq ImageIDs /\ \A j \in live : image[j].rgba # h
    BY <1>1, <2>1 DEF TypeOK, OutputsFine
  <2>4. {image'[j].rgba : j \in live'} \ {INVALID} = output'
    <3>1. output = {image[j].rgba : j \in live} \ {INVALID}
      BY DEF OutputsFine
    <3>2. {image'[j].rgba : j \in live} = {image[j].rgba : j \in live \ {i}} \cup {h}
      BY <1>1, <2>2, <2>3
    <3>3. {image[j].rgba : j \in live} \ {INVALID}
            = {image[j].rgba : j \in live \ {i}} \ {INVALID}
      BY <1>1, <1>3
    <3> QED
      BY <1>1, <2>1, <3>1, <3>2, <3>3
  <2>5. \A j, k \in live' : j # k /\ image'[j].rgba = image'[k].rgba => image'[j].rgba = INVALID
    BY <1>1, <2>2, <2>3 DEF OutputsFine
  <2> QED
    BY <2>4, <2>5 DEF OutputsFine
<1> QED
  BY <1>2, <1>3, RGBAParts

(* The invariant of output surfaces is inductive.                          *)
LEMMA OutputsHold ==
  ASSUME ImagesInv, OutputsInv, [Next]_vars
  PROVE  OutputsInv'
<1>1. CASE UNCHANGED vars
  BY <1>1 DEF vars, OutputsInv, OutputsFine, OutputsOwned
<1>2. ASSUME ~UNCHANGED vars PROVE astray = {} /\ Next
  BY <1>2 DEF Next, CreateImage, CreateImageFails, DestroyImage, SetImagePalette, WriteImage,
              PutImage, GetImage, GetImageRGBA, CreateBuffer, DestroyBuffer
<1> SUFFICES ASSUME astray = {}, Next PROVE OutputsInv'
  BY <1>1, <1>2
<1>3. AllFine /\ OutputsFine
  BY BeforeStray DEF OutputsInv
<1>4. ASSUME OutputsFine' PROVE OutputsInv'
  BY <1>4, FineIsOwned, PTL DEF OutputsInv
<1>5. ASSUME UNCHANGED <<live, image, output>> PROVE OutputsInv'
  BY <1>3, <1>4, <1>5 DEF OutputsFine
<1>6. ASSUME NEW i \in ImageIDs, NEW f \in Formats, NEW size \in Sizes, NEW align \in Aligns,
             NEW b \in BufferIDs, CreateImage(i, f, size, align, b)
      PROVE  OutputsInv'
  BY <1>3, <1>4, <1>6, CreateOutputs
<1>7. ASSUME NEW i \in ImageIDs, NEW f \in Formats, CreateImageFails(i, f) PROVE OutputsInv'
  BY <1>3, <1>7, CreateFailsOutputs
<1>8. ASSUME NEW i \in ImageIDs, SetImagePalette(i) PROVE OutputsInv'
  <2>1. /\ i \in live /\ UNCHANGED <<live, output>>
        /\ image' = [image EXCEPT ![i].palette = TRUE]
    BY <1>8 DEF SetImagePalette
  <2>2. /\ image \in [ImageIDs -> ImageObject \cup {NONE}]
        /\ image[i] \in ImageObject /\ live \subseteq ImageIDs
    BY <1>3, <2>1, LiveTyped DEF AllFine, TypeOK
  <2>3. \A j \in live : image'[j].rgba = image[j].rgba
    BY <2>1, <2>2 DEF ImageObject
  <2> PICK l \in SUBSET ImageIDs : l = {}
    OBVIOUS
  <2> QED
    BY <1>3, <1>4, <2>1, <2>3, HandlesKept
<1>9. ASSUME NEW i \in ImageIDs, NEW s \in Surfaces, GetImageRGBA(i, s) PROVE OutputsInv'
  BY <1>3, <1>4, <1>9, RGBAOutputs
<1>10. ASSUME NEW i \in ImageIDs, DestroyImage(i) PROVE OutputsInv'
  BY <1>3, <1>4, <1>10, DestroyOutputs
<1>11. ASSUME NEW i \in ImageIDs, NEW s \in Surfaces, PutImage(i, s) \/ GetImage(i, s)
       PROVE  OutputsInv'
  BY <1>5, <1>11 DEF PutImage, GetImage
<1>12. ASSUME NEW i \in ImageIDs, WriteImage(i) PROVE OutputsInv'
  BY <1>5, <1>12 DEF WriteImage
<1>13. ASSUME NEW b \in BufferIDs, CreateBuffer(b) \/ DestroyBuffer(b) PROVE OutputsInv'
  BY <1>5, <1>13 DEF CreateBuffer, DestroyBuffer
<1> QED
  BY <1>6, <1>7, <1>8, <1>9, <1>10, <1>11, <1>12, <1>13 DEF Next
-----------------------------------------------------------------------------
(***************************************************************************)
(* Theorems.                                                               *)
(***************************************************************************)
(* ImagesInv is an invariant.                                              *)
THEOREM ImagesInvariant == Spec => []ImagesInv
<1>1. Init => ImagesInv
  BY InitHolds
<1> QED
  BY <1>1, NextHolds, PTL DEF Spec

(* An image has a buffer of its own for all its life, and no vaCreateImage *)
(* that fails destroys it unless its format is not in the map and its slot *)
(* has that buffer's ID (vdpau_CreateImage, vdpau_DestroyImage).           *)
THEOREM ImagesOwnBuffers == Spec => []BuffersOwned
<1>1. ImagesInv => BuffersOwned
  BY DEF ImagesInv, ImageFine, Robbed, BuffersOwned, Owns
<1> QED
  BY <1>1, ImagesInvariant, PTL

(* Y, U and V stay what they are from any image to any surface and back    *)
(* (put_image, get_image and the order of the planes they pass).           *)
THEOREM ComponentsStay == Spec => []ComponentsKept
<1>1. ASSUME ImagesInv PROVE ComponentsKept
  <2>1. \A s \in Surfaces, c \in Components : surface[s].as[c] \subseteq {c}
    BY <1>1 DEF ImagesInv, SurfacesFine, Nothing, All
  <2>2. ASSUME NEW i \in live, buffer[image[i].buf] # NONE
        PROVE  LET planes == buffer[image[i].buf].planes
               IN \A k \in DOMAIN planes : planes[k] \subseteq VAPlanes(image[i].format)[k]
    BY <1>1, <2>2 DEF ImagesInv, ImageFine, Robbed, Blank
  <2> QED
    BY <2>1, <2>2 DEF ComponentsKept
<1> QED
  BY <1>1, ImagesInvariant, PTL

(* A transfer no larger than the image stays inside each plane and the     *)
(* buffer for every size, odd ones included, and wherever malloc puts it;  *)
(* one that does not is of a larger surface (vdpau_CreateImage, get_image).*)
THEOREM PlanesAlwaysFit == Spec => []PlanesFit
<1>1. ASSUME ImagesInv PROVE PlanesFit
  <2>1. ASSUME NEW i \in live, NEW size \in Sizes, NoLarger(size, image[i].size)
        PROVE  Fits(image[i], size)
    BY <1>1, <2>1, LaidFits
  <2> QED
    BY <1>1, <2>1 DEF PlanesFit, ImagesInv, Overrun
<1> QED
  BY <1>1, ImagesInvariant, PTL

(* VDPAU's output surfaces for images are those of live images, one each,  *)
(* also if VDPAU gives handles again: none is leaked, and only a failing   *)
(* vaCreateImage destroys one, by the same handle in a slot without image  *)
(* (get_image, vdpau_CreateImage, vdpau_DestroyImage).                     *)
THEOREM OutputsAreOwned == Spec => []OutputsOwned
<1>1. Init => ImagesInv /\ OutputsInv
  BY InitHolds
<1>2. ImagesInv /\ OutputsInv /\ [Next]_vars => (ImagesInv /\ OutputsInv)'
  BY NextHolds, OutputsHold
<1>3. ImagesInv /\ OutputsInv => OutputsOwned
  BY DEF OutputsInv
<1> QED
  BY <1>1, <1>2, <1>3, PTL DEF Spec
=============================================================================
