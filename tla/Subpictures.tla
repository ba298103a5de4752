------------------------------ MODULE Subpictures ------------------------------
(***************************************************************************)
(* vdpau_subpic.c with the surfaces, images and rendering it works on: a   *)
(* subpicture shows an image over the surfaces it is associated to.  Each  *)
(* association is one block of memory, listed at its surface and at its    *)
(* subpicture, which owns it; the block names both by ID.  The pixels of   *)
(* the image are copied ("committed") to VDPAU when a surface is put.      *)
(*                                                                         *)
(* Abstractions: one call is one step.  An image and its buffer are one    *)
(* object.  A rectangle is a set of Parts of the subpicture; only two      *)
(* parts, so that the bounding box of rectangles is their union.  A list   *)
(* whose array could not grow was freed but keeps its count: it is marked  *)
(* lost, and as what its entries are from then on is not defined, nothing  *)
(* happens any more.  A failed vaCreateSubpicture leaves an object nobody  *)
(* can name and is left out, as are palette, alpha and chroma key.         *)
(***************************************************************************)
EXTENDS Naturals, Sequences, FiniteSets, Functions

CONSTANTS
  Surfaces, Subpictures, Images,   (* the IDs of each heap                 *)
  MaxBlocks,               (* associations that fit into memory            *)
  VDPAU_MAX_SUBPICTURES,   (* associations of one surface (8 in the code)  *)
  ListStep,                (* entries by which a list grows (4, utils.c)   *)
  MaxList,                 (* surfaces named by one call                   *)
  Widths,                  (* sizes of images                              *)
  Parts, Rects,            (* areas of a subpicture; source rectangles     *)
  Pixels, BLANK,           (* what an image shows; that of a new one       *)
  MaxTime,                 (* bound of the buffers' mtime                  *)
  AppRules,                (* what the application promises, see below     *)
  NONE

Blocks == 1..MaxBlocks
Associations == [sub : Subpictures, surface : Surfaces, src_rect : Rects]
ImageObjects == [width : Widths, mapped : BOOLEAN, mtime : 0..MaxTime, data : Pixels]

ASSUME SubpictureAssumption ==
  /\ {MaxBlocks, VDPAU_MAX_SUBPICTURES, MaxList, MaxTime} \subseteq Nat
  /\ ListStep \in Nat \ {0}
  /\ Rects \subseteq (SUBSET Parts) \ {{}} /\ BLANK \in Pixels
  /\ AppRules \subseteq {"once", "paired", "pixels"}
  /\ NONE \notin Associations \cup Seq(Blocks) \cup ImageObjects
  /\ NONE \notin Images

VARIABLES
  links,       (* surface, sub: the lists of associations of each object,  *)
               (* NONE where the ID is free; block: the memory             *)
  lost,        (* surface, sub: objects with a list that was freed         *)
  image,       (* image objects: width, mapped, and mtime and contents of  *)
               (* their buffers                                            *)
  shows,       (* image_id of each subpicture                              *)
  width,       (* width of each subpicture                                 *)
  last_commit, (* last_commit of each subpicture                           *)
  bitmap,      (* what the VDPAU surface of each subpicture contains       *)
  aborted      (* an ASSERT failed                                         *)

subVars == <<shows, width, last_commit, bitmap>>
vars == <<links, lost, image, subVars, aborted>>
NothingLost == [surface |-> {}, sub |-> {}]

IsSurface(l, s)    == l.surface[s] # NONE
IsSubpicture(l, p) == l.sub[p] # NONE
IsImage(i)         == image[i] # NONE
Allocated(l)       == {a \in Blocks : l.block[a] # NONE}

Init ==
  /\ links = [surface |-> [s \in Surfaces |-> NONE],
              sub     |-> [p \in Subpictures |-> NONE],
              block   |-> [a \in Blocks |-> NONE]]
  /\ lost = NothingLost
  /\ image = [i \in Images |-> NONE]
  /\ shows = [p \in Subpictures |-> NONE]
  /\ width = [p \in Subpictures |-> NONE]
  /\ last_commit = [p \in Subpictures |-> 0]
  /\ bitmap = [p \in Subpictures |-> [x \in Parts |-> BLANK]]
  /\ aborted = FALSE
-----------------------------------------------------------------------------
(* The lists: the last entry takes the place of the one removed.           *)
WithoutAt(q, k) == SubSeq([q EXCEPT ![k] = q[Len(q)]], 1, Len(q) - 1)
FirstOf(q, A) ==
  CHOOSE k \in DOMAIN q : q[k] \in A /\ \A j \in 1..(k - 1) : q[j] \notin A
Without(q, a) == IF a \in Range(q) THEN WithoutAt(q, FirstOf(q, {a})) ELSE q

(* The associations in l of surface s, and of subpicture p.                *)
OfSurface(l, s) == {a \in Allocated(l) : l.block[a].surface = s}
OfSub(l, p)     == {a \in Allocated(l) : l.block[a].sub = p}
Pairs(l, p, s)  == IsSubpicture(l, p) /\ Range(l.sub[p]) \cap OfSurface(l, s) # {}

(* subpicture_deassociate_1 on a list that is not empty.                   *)
DeassociatedOneEnd(l, p, s) ==     (* mutant: the surface keeps its entry  *)
  IF ~Pairs(l, p, s) THEN l
  ELSE LET k == FirstOf(l.sub[p], OfSurface(l, s))
       IN  [l EXCEPT !.sub[p] = WithoutAt(@, k), !.block[l.sub[p][k]] = NONE]
Deassociated(l, p, s) ==
  IF ~Pairs(l, p, s) THEN l
  ELSE LET k == FirstOf(l.sub[p], OfSurface(l, s))
           a == l.sub[p][k]
       IN  [l EXCEPT !.surface[s] = Without(@, a),
                     !.sub[p]     = WithoutAt(@, k),
                     !.block[a]   = NONE]

(* surface_add_association: another one of the same pair is replaced.      *)
HasRoom(q) == Len(q) < VDPAU_MAX_SUBPICTURES
OfPair(l, p, s) == Range(l.surface[s]) \cap OfSub(l, p)
CanAssociate(l, p, s) ==
  /\ IsSurface(l, s) /\ Allocated(l) # Blocks
  /\ OfPair(l, p, s) # {} \/ HasRoom(l.surface[s])

(* subpicture_associate_1 when it succeeds.                                *)
Associated(l, p, s, r) ==
  LET a == CHOOSE x \in Blocks \ Allocated(l) : \A y \in Blocks \ Allocated(l) : x <= y
      q == l.surface[s]
  IN  [surface |-> [l.surface EXCEPT ![s] =
                      IF OfPair(l, p, s) = {} THEN Append(q, a)
                      ELSE [q EXCEPT ![FirstOf(q, OfPair(l, p, s))] = a]],
       sub     |-> [l.sub EXCEPT ![p] = Append(@, a)],
       block   |-> [l.block EXCEPT ![a] = [sub |-> p, surface |-> s, src_rect |-> r]]]
-----------------------------------------------------------------------------
(* commit_subpicture: VDPAU has what the buffer contained at last_commit,  *)
(* within the rectangles associated then.                                  *)
IsCommitted(p) == last_commit[p] >= image[shows[p]].mtime
Covered(p) == UNION {links.block[a].src_rect : a \in Range(links.sub[p])}
-----------------------------------------------------------------------------
Running == ~aborted /\ lost = NothingLost
Promised(rule, promise) == rule \in AppRules => promise
SurfaceLists == UNION {[1..n -> Surfaces] : n \in 1..MaxList}

CreateSurface(s) ==
  /\ Running /\ ~IsSurface(links, s)
  /\ links' = [links EXCEPT !.surface[s] = <<>>]
  /\ UNCHANGED <<lost, image, subVars, aborted>>

(* associate_subpicture: the loop over the surfaces ends at the first that *)
(* cannot be associated; those before it stay.                             *)
AssociateOne(l, p, s, r) == IF CanAssociate(l, p, s) THEN Associated(l, p, s, r) ELSE l
Associating(p, q, r) ==
  LET after[k \in 0..Len(q)] ==
        IF k = 0 THEN links ELSE AssociateOne(after[k - 1], p, q[k], r)
  IN  after

IsAssociable(p, q, r) ==
  /\ IsSubpicture(links, p)
  /\ Promised("once", \A k \in DOMAIN q :
       ~Pairs(links, p, q[k]) /\ \A j \in DOMAIN q : q[j] = q[k] => j = k)
  /\ Promised("pixels", r \subseteq Covered(p) \/ last_commit[p] = 0 \/ ~IsCommitted(p))

AssociateSubpicture(p, q, r) ==
  /\ Running /\ IsAssociable(p, q, r)
  /\ LET after == Associating(p, q, r)
         goes(k) == CanAssociate(after[k - 1], p, q[k])
     IN  \E n \in 0..Len(q) :
           /\ \A k \in 1..n : goes(k)
           /\ n < Len(q) => ~goes(n + 1)
           /\ links' = after[n]
  /\ UNCHANGED <<lost, image, subVars, aborted>>

(***************************************************************************)
(* realloc_buffer fails for the array of a surface or, after that has the  *)
(* association, of the subpicture: it frees the array.  The surface gives  *)
(* the association up again, and the one it replaced with it.  An array    *)
(* keeps its size when its list shrinks; here it may have to grow again.   *)
(***************************************************************************)
Grows(q) == q # <<>> /\ Len(q) % ListStep = 0

LoseList(p, q, r) ==
  /\ Running /\ IsAssociable(p, q, r)
  /\ \E n \in DOMAIN q :
       LET before == Associating(p, q, r)[n - 1]
           s      == q[n]
           isNew  == OfPair(before, p, s) = {}
       IN  /\ \A k \in 1..n : CanAssociate(Associating(p, q, r)[k - 1], p, q[k])
           /\ links' = before
           /\ \/ /\ isNew /\ Grows(before.surface[s])
                 /\ lost' = [surface |-> {s}, sub |-> {}]
              \/ /\ Grows(before.sub[p])
                 /\ lost' = [surface |-> IF isNew THEN {} ELSE {s}, sub |-> {p}]
  /\ UNCHANGED <<image, subVars, aborted>>

(* deassociate_subpicture: ends at a surface that is gone, goes on after   *)
(* one that is not associated; an empty list fails the assertion.          *)
DeassociateOne(l, p, s) == IF IsSurface(l, s) THEN Deassociated(l, p, s) ELSE l
Deassociating(p, q) ==
  LET after[k \in 0..Len(q)] ==
        IF k = 0 THEN links ELSE DeassociateOne(after[k - 1], p, q[k])
  IN  after

DeassociateSubpicture(p, q) ==
  /\ Running /\ IsSubpicture(links, p)
  /\ Promised("paired", \A k \in DOMAIN q :
       Pairs(links, p, q[k]) /\ \A j \in DOMAIN q : q[j] = q[k] => j = k)
  /\ LET after == Deassociating(p, q)
         goes(k) == IsSurface(links, q[k]) /\ after[k - 1].sub[p] # <<>>
     IN  \E n \in 0..Len(q) :
           /\ \A k \in 1..n : goes(k)
           /\ n < Len(q) => ~goes(n + 1)
           /\ links' = after[n]
           /\ aborted' = (n < Len(q) /\ IsSurface(links, q[n + 1]))
  /\ UNCHANGED <<lost, image, subVars>>

(***************************************************************************)
(* vaDestroySurfaces takes each association off its subpicture: as many    *)
(* times as there were associations, always the first in the list.         *)
(***************************************************************************)
FirstOwner(l, s) == l.block[l.surface[s][1]].sub
CanRelease(l, s) ==
  /\ l.surface[s] # <<>>
  /\ IsSubpicture(l, FirstOwner(l, s)) /\ l.sub[FirstOwner(l, s)] # <<>>
ReleaseOne(l, s) == IF CanRelease(l, s) THEN Deassociated(l, FirstOwner(l, s), s) ELSE l
Releasing(s, n) ==
  LET after[k \in 0..n] == IF k = 0 THEN links ELSE ReleaseOne(after[k - 1], s)
  IN  after

DestroySurface(s) ==
  /\ Running /\ IsSurface(links, s)
  /\ LET n == Len(links.surface[s])
         after == Releasing(s, n)
     IN  /\ links' = [after[n] EXCEPT !.surface[s] = NONE]
         /\ aborted' = \E k \in 0..(n - 1) : ~CanRelease(after[k], s)
  /\ UNCHANGED <<lost, image, subVars>>

(* destroy_subpicture: as many rounds as there were associations, each for *)
(* the first in the list; nothing happens if its surface is gone.          *)
RoundsOfShrinking(n) == (n + 1) \div 2  (* mutant: i < assocs_count        *)
Rounds(n) == n
FirstSurface(l, p) == l.block[l.sub[p][1]].surface
ShedOne(l, p) ==
  IF l.sub[p] # <<>> /\ IsSurface(l, FirstSurface(l, p))
  THEN Deassociated(l, p, FirstSurface(l, p)) ELSE l
Shedding(p, n) ==
  LET after[k \in 0..n] == IF k = 0 THEN links ELSE ShedOne(after[k - 1], p)
  IN  after

DestroySubpicture(p) ==
  /\ Running /\ IsSubpicture(links, p)
  /\ LET n == Rounds(Len(links.sub[p]))
     IN  links' = [Shedding(p, n)[n] EXCEPT !.sub[p] = NONE]
  /\ shows' = [shows EXCEPT ![p] = NONE]
  /\ width' = [width EXCEPT ![p] = NONE]
  /\ last_commit' = [last_commit EXCEPT ![p] = 0]
  /\ bitmap' = [bitmap EXCEPT ![p] = [x \in Parts |-> BLANK]]
  /\ UNCHANGED <<lost, image, aborted>>
-----------------------------------------------------------------------------
CreateSubpicture(p, i) ==
  /\ Running /\ ~IsSubpicture(links, p) /\ IsImage(i)
  /\ links' = [links EXCEPT !.sub[p] = <<>>]
  /\ shows' = [shows EXCEPT ![p] = i]
  /\ width' = [width EXCEPT ![p] = image[i].width]
  /\ last_commit' = [last_commit EXCEPT ![p] = 0]
  /\ bitmap' = [bitmap EXCEPT ![p] = [x \in Parts |-> BLANK]]
  /\ UNCHANGED <<lost, image, aborted>>

SetSubpictureImage(p, i) ==
  /\ Running /\ IsSubpicture(links, p) /\ IsImage(i)
  /\ Promised("pixels", last_commit[p] = 0 /\ image[i].width = width[p])
  /\ shows' = [shows EXCEPT ![p] = i]
  /\ UNCHANGED <<lost, links, image, width, last_commit, bitmap, aborted>>

CreateImage(i, w) ==
  /\ Running /\ ~IsImage(i)
  /\ image' = [image EXCEPT ![i] =
       [width |-> w, mapped |-> FALSE, mtime |-> 0, data |-> BLANK]]
  /\ UNCHANGED <<lost, links, subVars, aborted>>

DestroyImage(i) ==
  /\ Running /\ IsImage(i)
  /\ Promised("pixels", \A p \in Subpictures : shows[p] # i)
  /\ image' = [image EXCEPT ![i] = NONE]
  /\ UNCHANGED <<lost, links, subVars, aborted>>

(* vaMapBuffer and vaUnmapBuffer of the image's buffer; between them the   *)
(* application writes.                                                     *)
TimeKept(t) == t            (* mutant: unmapping leaves the time alone     *)
TimeUnmapped(t) == t + 1

MapBuffer(i) ==
  /\ Running /\ IsImage(i)
  /\ ~image[i].mapped /\ image[i].mtime + 2 <= MaxTime
  /\ image' = [image EXCEPT ![i].mtime = @ + 1, ![i].mapped = TRUE]
  /\ UNCHANGED <<lost, links, subVars, aborted>>

UnmapBuffer(i) ==
  /\ Running /\ IsImage(i) /\ image[i].mapped
  /\ image' = [image EXCEPT ![i].mtime = TimeUnmapped(@), ![i].mapped = FALSE]
  /\ UNCHANGED <<lost, links, subVars, aborted>>

Write(i, d) ==
  /\ Running /\ IsImage(i) /\ image[i].mapped
  /\ image' = [image EXCEPT ![i].data = d]
  /\ UNCHANGED <<lost, links, subVars, aborted>>

(* vaGetImage writes the buffer as well, and leaves its mtime alone.       *)
GetImage(s, i, d) ==
  /\ Running /\ IsSurface(links, s) /\ IsImage(i)
  /\ Promised("pixels", image[i].mapped)
  /\ image' = [image EXCEPT ![i].data = d]
  /\ UNCHANGED <<lost, links, subVars, aborted>>
-----------------------------------------------------------------------------
(* The uploads of the subpictures in D.                                    *)
Commit(D) ==
  /\ last_commit' = [p \in Subpictures |->
       IF p \in D THEN image[shows[p]].mtime ELSE last_commit[p]]
  /\ bitmap' = [p \in Subpictures |-> [x \in Parts |->
       IF p \in D /\ x \in Covered(p) THEN image[shows[p]].data ELSE bitmap[p][x]]]

(***************************************************************************)
(* render_subpictures, when a surface is put: commits and renders one      *)
(* subpicture after the other until a VDPAU call fails, an image is gone   *)
(* or an assertion fails.                                                  *)
(***************************************************************************)
RenderSubpictures(s) ==
  /\ Running /\ IsSurface(links, s)
  /\ LET q       == links.surface[s]
         sub(k)  == links.block[q[k]].sub
         fits(k) == IsImage(shows[sub(k)]) => width[sub(k)] = image[shows[sub(k)]].width
         goes(k) == IsSubpicture(links, sub(k)) /\ fits(k)
     IN  \E n \in 0..Len(q) :
           LET done == {sub(k) : k \in 1..n}
           IN  /\ \A k \in 1..n : goes(k) /\ IsImage(shows[sub(k)])
               /\ aborted' = (n < Len(q) /\ ~goes(n + 1))
               /\ Commit({p \in done : ~IsCommitted(p)})
  /\ UNCHANGED <<lost, links, image, shows, width>>

Next ==
  \/ \E s \in Surfaces : CreateSurface(s) \/ DestroySurface(s) \/ RenderSubpictures(s)
  \/ \E p \in Subpictures :
       \/ DestroySubpicture(p)
       \/ \E i \in Images : CreateSubpicture(p, i) \/ SetSubpictureImage(p, i)
       \/ \E q \in SurfaceLists :
            \/ DeassociateSubpicture(p, q)
            \/ \E r \in Rects : AssociateSubpicture(p, q, r) \/ LoseList(p, q, r)
  \/ \E i \in Images :
       \/ DestroyImage(i) \/ MapBuffer(i) \/ UnmapBuffer(i)
       \/ \E w \in Widths : CreateImage(i, w)
       \/ \E d \in Pixels : Write(i, d) \/ \E s \in Surfaces : GetImage(s, i, d)

Spec == Init /\ [][Next]_vars
-----------------------------------------------------------------------------
ListsOf(Objects) == [Objects -> (UNION {[1..n -> Blocks] : n \in 0..MaxBlocks}) \cup {NONE}]

(* Types; a surface has VDPAU_MAX_SUBPICTURES associations at most.        *)
TypeOK ==
  /\ links.surface \in ListsOf(Surfaces) /\ links.sub \in ListsOf(Subpictures)
  /\ links.block \in [Blocks -> Associations \cup {NONE}]
  /\ \A s \in Surfaces : IsSurface(links, s) => Len(links.surface[s]) <= VDPAU_MAX_SUBPICTURES
  /\ shows \in [Subpictures -> Images \cup {NONE}]
  /\ width \in [Subpictures -> Widths \cup {NONE}]
  /\ last_commit \in [Subpictures -> 0..MaxTime]
  /\ bitmap \in [Subpictures -> [Parts -> Pixels]]
  /\ image \in [Images -> ImageObjects \cup {NONE}]
  /\ aborted \in BOOLEAN
  /\ lost \in [surface : SUBSET Surfaces, sub : SUBSET Subpictures]

(***************************************************************************)
(* An association is listed at its surface exactly when it is listed at    *)
(* its subpicture, once at each end; it is in memory exactly as long.      *)
(* This goes on at all other objects when one has lost its list.           *)
(***************************************************************************)
Lists(q, A) == IsInjective(q) /\ Range(q) = A
BothEndsAgree ==
  /\ \A s \in Surfaces \ lost.surface :
       IsSurface(links, s) => Lists(links.surface[s], OfSurface(links, s))
  /\ \A p \in Subpictures \ lost.sub :
       IsSubpicture(links, p) => Lists(links.sub[p], OfSub(links, p))

(* "the subpicture owns the SubpictureAssociation object": each block in   *)
(* use belongs to a subpicture that exists and will free it, if it has not *)
(* lost its list.                                                          *)
AssociationsOwned ==
  /\ TypeOK
  /\ \A a \in Allocated(links) :
       LET p == links.block[a].sub
       IN  IsSubpicture(links, p) /\ (a \in Range(links.sub[p]) \/ p \in lost.sub)

(***************************************************************************)
(* commit_subpicture skips the upload only if VDPAU has the pixels of the  *)
(* image, wherever a surface shows the subpicture; an image that is being  *)
(* written may differ.                                                     *)
(***************************************************************************)
CommittedIsNewest ==
  \A p \in Subpictures :
    (/\ IsSubpicture(links, p) /\ IsImage(shows[p])
     /\ ~image[shows[p]].mapped /\ IsCommitted(p)) =>
        \A x \in Covered(p) : bitmap[p][x] = image[shows[p]].data

(* No assertion fails, whichever of surface and subpicture is destroyed    *)
(* first.                                                                  *)
NeverAborts == ~aborted
=============================================================================
