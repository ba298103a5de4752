------------------------- MODULE SubpicturesProofs -------------------------
(***************************************************************************)
(* Theorems about Subpictures, for any number of objects, associations and *)
(* lists of any length.  What a theorem needs the application to promise   *)
(* is an assumption of the theorem.                                        *)
(***************************************************************************)
EXTENDS Subpictures, FiniteSetTheorems, SequenceTheorems, WellFoundedInduction, TLAPS

(***************************************************************************)
(* Lists name associations in memory that are theirs, each once.           *)
(***************************************************************************)
Links == [surface : [Surfaces -> Seq(Blocks) \cup {NONE}],
          sub     : [Subpictures -> Seq(Blocks) \cup {NONE}],
          block   : [Blocks -> Associations \cup {NONE}]]
SurfacesListOwn(l) ==
  \A s \in Surfaces : IsSurface(l, s) =>
    /\ IsInjective(l.surface[s]) /\ Range(l.surface[s]) \subseteq OfSurface(l, s)
    /\ Len(l.surface[s]) <= VDPAU_MAX_SUBPICTURES
SubpicturesListOwn(l) ==
  \A p \in Subpictures : IsSubpicture(l, p) =>
    IsInjective(l.sub[p]) /\ Range(l.sub[p]) \subseteq OfSub(l, p)
Sound == {l \in Links : SurfacesListOwn(l) /\ SubpicturesListOwn(l)}

(* Each association is listed at both ends, which exist.                   *)
ListedTwice(l) ==
  \A a \in Allocated(l) :
    /\ IsSubpicture(l, l.block[a].sub) /\ a \in Range(l.sub[l.block[a].sub])
    /\ IsSurface(l, l.block[a].surface) /\ a \in Range(l.surface[l.block[a].surface])
Full == {l \in Sound : ListedTwice(l)}

-----------------------------------------------------------------------------
(***************************************************************************)
(* Counting.                                                               *)
(***************************************************************************)
(* A set of numbers that is not empty has a least one.                     *)
LEMMA LeastExists ==
  ASSUME NEW T, T \subseteq Nat, T # {}
  PROVE  \E x \in T : \A y \in T : x <= y
<1> DEFINE R == OpToRel(<, Nat)
<1>1. IsWellFoundedOn(R, Nat)
  BY NatLessThanWellFounded
<1>2. \A x, y \in Nat : x < y => <<x, y>> \in R
  BY DEF OpToRel
<1> HIDE DEF R
<1>3. PICK x \in T : \A y \in T : ~ (<<y, x>> \in R)
  BY <1>1, WFMin
<1>4. \A y \in T : ~(y < x)
  BY <1>2, <1>3
<1>5. \A y \in T : x <= y
  BY <1>4
<1> QED
  BY <1>5

(* What holds first and after each further round holds after all of them.  *)
LEMMA AllRounds ==
  ASSUME NEW n \in Nat, NEW S, 0 \in S, \A k \in 1..n : k - 1 \in S => k \in S
  PROVE  0..n \subseteq S
<1> SUFFICES ASSUME (0..n) \ S # {}
             PROVE  FALSE
  OBVIOUS
<1>0. (0..n) \ S \subseteq Nat
  OBVIOUS
<1>1. PICK k \in (0..n) \ S : \A j \in (0..n) \ S : k <= j
  BY <1>0, LeastExists
<1>2. k \in 1..n /\ k - 1 \in 0..n
  BY <1>1
<1>3. k - 1 \in S
  BY <1>1, <1>2
<1> QED
  BY <1>1, <1>2, <1>3

(* The results of n rounds from x, where round k takes l to F[k][l].       *)
Results(L, x, n, F) ==
  {g \in [0..n -> L] : g[0] = x /\ \A k \in 1..n : g[k] = F[k][g[k - 1]]}

(* Rounds that stay within a set have results.                             *)
LEMMA RoundsExist ==
  ASSUME NEW L, NEW x \in L, NEW n \in Nat, NEW F \in [1..n -> [L -> L]]
  PROVE  Results(L, x, n, F) # {}
<1> DEFINE T == {m \in 0..n :
             \E g \in [0..m -> L] : g[0] = x /\ \A k \in 1..m : g[k] = F[k][g[k - 1]]}
<1>1. 0 \in T
  <2> DEFINE h == [k \in 0..0 |-> x]
  <2>1. h \in [0..0 -> L] /\ h[0] = x
    OBVIOUS
  <2>2. \A k \in 1..0 : h[k] = F[k][h[k - 1]]
    OBVIOUS
  <2> HIDE DEF h
  <2>3. 0 \in 0..n
    OBVIOUS
  <2> QED
    BY <2>1, <2>2, <2>3
<1>2. ASSUME NEW m \in 1..n, m - 1 \in T
      PROVE  m \in T
  <2>1. PICK g \in [0..(m - 1) -> L] : g[0] = x /\ \A k \in 1..(m - 1) : g[k] = F[k][g[k - 1]]
    BY <1>2
  <2> DEFINE h == [k \in 0..m |-> IF k = m THEN F[m][g[m - 1]] ELSE g[k]]
  <2>2. g[m - 1] \in L /\ F[m] \in [L -> L]
    BY <2>1
  <2>3. h \in [0..m -> L]
    BY <2>1, <2>2
  <2>4. h[0] = x
    BY <2>1
  <2>5. ASSUME NEW k \in 1..m
        PROVE  h[k] = F[k][h[k - 1]]
    <3>1. k - 1 \in 0..m /\ k - 1 # m /\ k \in 0..m
      OBVIOUS
    <3>2. h[k - 1] = g[k - 1]
      BY <3>1
    <3>3. h[k] = IF k = m THEN F[m][g[m - 1]] ELSE g[k]
      BY <3>1
    <3>4. CASE k = m
      BY <3>2, <3>3, <3>4
    <3>5. CASE k # m
      BY <2>1, <3>2, <3>3, <3>5
    <3> QED
      BY <3>4, <3>5
  <2> HIDE DEF h
  <2>6. m \in 0..n
    OBVIOUS
  <2> QED
    BY <2>3, <2>4, <2>5, <2>6
<1> HIDE DEF T
<1>3. 0..n \subseteq T
  BY <1>1, <1>2, AllRounds
<1>4. n \in T
  BY <1>3
<1> QED
  BY <1>4 DEF T, Results

-----------------------------------------------------------------------------
(***************************************************************************)
(* Lists without repetitions.                                              *)
(***************************************************************************)
Distinct(q, A) == q \in Seq(Blocks) /\ IsInjective(q) /\ Range(q) = A

(* An entry is at its place.                                               *)
LEMMA EntryAt ==
  ASSUME NEW q \in Seq(Blocks)
  PROVE  /\ DOMAIN q = 1..Len(q) /\ Len(q) \in Nat
         /\ \A k \in 1..Len(q) : q[k] \in Range(q) /\ q[k] \in Blocks
         /\ \A a \in Range(q) : a \in Blocks /\ \E k \in 1..Len(q) : q[k] = a
         /\ q = <<>> <=> Len(q) = 0
         /\ q = <<>> <=> Range(q) = {}
<1>1. DOMAIN q = 1..Len(q) /\ Len(q) \in Nat /\ \A k \in 1..Len(q) : q[k] \in Blocks
  BY LenProperties, ElementOfSeq
<1>2. \A k \in 1..Len(q) : q[k] \in Range(q)
  BY <1>1 DEF Range
<1>3. \A a \in Range(q) : a \in Blocks /\ \E k \in 1..Len(q) : q[k] = a
  BY <1>1 DEF Range
<1>4. q = <<>> <=> Len(q) = 0
  BY EmptySeq
<1>5. q = <<>> <=> Range(q) = {}
  BY <1>1, <1>2, <1>3, <1>4
<1> QED
  BY <1>1, <1>2, <1>3, <1>4, <1>5

(* The empty list.                                                         *)
LEMMA EmptyList == Distinct(<<>>, {}) /\ Len(<<>>) = 0
<1>1. <<>> \in Seq(Blocks) /\ Len(<<>>) = 0
  BY EmptySeq
<1>2. Range(<<>>) = {} /\ DOMAIN <<>> = {}
  BY <1>1, EntryAt
<1> QED
  BY <1>1, <1>2 DEF Distinct, IsInjective

(* Such a list is no longer than the memory.                               *)
LEMMA ListFits ==
  ASSUME NEW q \in Seq(Blocks), IsInjective(q)
  PROVE  q \in UNION {[1..n -> Blocks] : n \in 0..MaxBlocks}
<1>1. q \in [1..Len(q) -> Blocks] /\ Len(q) \in Nat
  BY LenProperties
<1>2. q \in Injection(1..Len(q), Blocks)
  BY <1>1 DEF Injection, IsInjective
<1>3. MaxBlocks \in Nat
  BY SubpictureAssumption
<1>4. IsFiniteSet(Blocks) /\ Cardinality(Blocks) = MaxBlocks
  BY <1>3, FS_Interval DEF Blocks
<1>5. Cardinality(1..Len(q)) = Len(q)
  <2>1. PICK n \in Nat : n = Len(q)
    BY <1>1
  <2>2. Cardinality(1..n) = IF 1 > n THEN 0 ELSE n - 1 + 1
    BY FS_Interval
  <2> QED
    BY <2>1, <2>2
<1>6. Len(q) <= MaxBlocks
  BY <1>2, <1>4, <1>5, FS_Injection
<1> QED
  BY <1>1, <1>3, <1>6

(* A list with room for one more.                                          *)
LEMMA AppendList ==
  ASSUME NEW A, NEW q, Distinct(q, A), NEW a \in Blocks, a \notin A
  PROVE  Distinct(Append(q, a), A \cup {a}) /\ Len(Append(q, a)) = Len(q) + 1
<1> DEFINE r == Append(q, a)
<1>1. q \in Seq(Blocks) /\ Range(q) = A /\ IsInjective(q)
  BY DEF Distinct
<1>2. /\ r \in Seq(Blocks) /\ Len(r) = Len(q) + 1
      /\ \A i \in 1..Len(q) : r[i] = q[i]
      /\ r[Len(q) + 1] = a
  BY <1>1, AppendProperties
<1> HIDE DEF r
<1>3. /\ DOMAIN q = 1..Len(q) /\ Len(q) \in Nat
      /\ \A k \in 1..Len(q) : q[k] \in A
      /\ \A b \in A : \E k \in 1..Len(q) : q[k] = b
  BY <1>1, EntryAt
<1>4. DOMAIN r = 1..(Len(q) + 1)
  BY <1>2, EntryAt
<1>5. IsInjective(r)
  BY <1>1, <1>2, <1>3, <1>4 DEF IsInjective
<1>6. Range(r) = A \cup {a}
  BY <1>2, <1>3, <1>4 DEF Range
<1> QED
  BY <1>2, <1>5, <1>6 DEF Distinct, r

(* A list with another entry in one place.                                 *)
LEMMA ReplaceList ==
  ASSUME NEW A, NEW q, Distinct(q, A), NEW a \in Blocks, a \notin A, NEW k \in 1..Len(q)
  PROVE  LET r == [q EXCEPT ![k] = a]
         IN  Distinct(r, (A \ {q[k]}) \cup {a}) /\ Len(r) = Len(q)
<1> DEFINE r == [q EXCEPT ![k] = a]
<1>1. q \in Seq(Blocks) /\ Range(q) = A /\ IsInjective(q)
  BY DEF Distinct
<1>2. /\ DOMAIN q = 1..Len(q) /\ Len(q) \in Nat
      /\ \A j \in 1..Len(q) : q[j] \in A
      /\ \A b \in A : \E j \in 1..Len(q) : q[j] = b
  BY <1>1, EntryAt
<1>3. /\ r \in Seq(Blocks) /\ Len(r) = Len(q)
      /\ \A j \in 1..Len(q) : r[j] = IF j = k THEN a ELSE q[j]
  BY <1>1, ExceptSeq
<1> HIDE DEF r
<1>4. DOMAIN r = 1..Len(q)
  BY <1>3, EntryAt
<1>5. \A i, j \in 1..Len(q) : q[i] = q[j] => i = j
  BY <1>1, <1>2 DEF IsInjective
<1>6. IsInjective(r)
  BY <1>2, <1>3, <1>4, <1>5 DEF IsInjective
<1>7. Range(r) = (A \ {q[k]}) \cup {a}
  BY <1>2, <1>3, <1>4, <1>5 DEF Range
<1> QED
  BY <1>3, <1>6, <1>7 DEF Distinct, r

(* A list without the entry in one place.                                  *)
LEMMA ShortenList ==
  ASSUME NEW A, NEW q, Distinct(q, A), NEW k \in 1..Len(q)
  PROVE  Distinct(WithoutAt(q, k), A \ {q[k]}) /\ Len(WithoutAt(q, k)) = Len(q) - 1
<1> DEFINE e == [q EXCEPT ![k] = q[Len(q)]]
           r == SubSeq(e, 1, Len(q) - 1)
<1>1. q \in Seq(Blocks) /\ Range(q) = A /\ IsInjective(q)
  BY DEF Distinct
<1>2. /\ DOMAIN q = 1..Len(q) /\ Len(q) \in Nat /\ Len(q) # 0
      /\ \A j \in 1..Len(q) : q[j] \in A /\ q[j] \in Blocks
      /\ \A b \in A : \E j \in 1..Len(q) : q[j] = b
  BY <1>1, EntryAt
<1>3. \A j \in 1..Len(q) : e[j] = IF j = k THEN q[Len(q)] ELSE q[j]
  BY <1>1, <1>2
<1> HIDE DEF e
<1>4. \A j \in 1..(Len(q) - 1) : e[j] \in Blocks
  BY <1>2, <1>3
<1>5. /\ r \in Seq(Blocks) /\ Len(r) = IF 1 <= Len(q) - 1 THEN Len(q) - 1 - 1 + 1 ELSE 0
      /\ \A j \in 1..(Len(q) - 1 - 1 + 1) : r[j] = e[1 + j - 1]
  BY <1>2, <1>4, SubSeqProperties
<1>6. r = WithoutAt(q, k)
  BY DEF WithoutAt, e
<1> HIDE DEF r
<1>7. Len(r) = Len(q) - 1 /\ \A j \in 1..(Len(q) - 1) : r[j] = IF j = k THEN q[Len(q)] ELSE q[j]
  <2>1. PICK n \in Nat : n = Len(q)
    BY <1>2
  <2>2. Len(r) = n - 1
    <3>1. n # 0 /\ Len(r) = IF 1 <= n - 1 THEN n - 1 - 1 + 1 ELSE 0
      BY <1>2, <1>5, <2>1
    <3> QED
      BY <3>1
  <2>3. ASSUME NEW j \in 1..(n - 1)
        PROVE  r[j] = IF j = k THEN q[n] ELSE q[j]
    <3>1. j \in 1..n /\ j \in 1..(n - 1 - 1 + 1) /\ 1 + j - 1 = j
      OBVIOUS
    <3>2. r[j] = e[j]
      BY <1>5, <2>1, <3>1
    <3> QED
      BY <1>3, <2>1, <3>1, <3>2
  <2> QED
    BY <2>1, <2>2, <2>3, Zenon
<1>8. DOMAIN r = 1..(Len(q) - 1)
  BY <1>5, <1>7, EntryAt
<1>9. \A i, j \in 1..Len(q) : q[i] = q[j] => i = j
  BY <1>1, <1>2 DEF IsInjective
<1>10. IsInjective(r)
  BY <1>2, <1>7, <1>8, <1>9 DEF IsInjective
<1>11. Range(r) \subseteq A \ {q[k]}
  <2> SUFFICES ASSUME NEW j \in 1..(Len(q) - 1)
               PROVE  r[j] \in A \ {q[k]}
    BY <1>8 DEF Range
  <2> QED
    BY <1>2, <1>7, <1>9
<1>12. A \ {q[k]} \subseteq Range(r)
  <2> SUFFICES ASSUME NEW b \in A, b # q[k]
               PROVE  \E j \in 1..(Len(q) - 1) : r[j] = b
    BY <1>8 DEF Range
  <2>1. PICK j \in 1..Len(q) : q[j] = b
    BY <1>2
  <2>2. CASE j = Len(q)
    <3>1. k \in 1..(Len(q) - 1) /\ r[k] = q[Len(q)]
      BY <1>2, <1>7, <2>1, <2>2
    <3> QED
      BY <2>1, <2>2, <3>1
  <2>3. CASE j # Len(q)
    <3>1. j \in 1..(Len(q) - 1) /\ r[j] = q[j]
      BY <1>2, <1>7, <2>1, <2>3
    <3> QED
      BY <2>1, <3>1
  <2> QED
    BY <2>2, <2>3
<1> QED
  BY <1>5, <1>6, <1>7, <1>10, <1>11, <1>12 DEF Distinct

(* The first entry of a set is in the list.                                *)
LEMMA FirstOfList ==
  ASSUME NEW q \in Seq(Blocks), NEW A, Range(q) \cap A # {}
  PROVE  FirstOf(q, A) \in 1..Len(q) /\ q[FirstOf(q, A)] \in A
<1> DEFINE T == {k \in 1..Len(q) : q[k] \in A}
<1>1. DOMAIN q = 1..Len(q) /\ Len(q) \in Nat
  BY EntryAt
<1>2. T # {} /\ T \subseteq Nat
  BY <1>1, EntryAt
<1>3. PICK k \in T : \A j \in T : k <= j
  BY <1>2, LeastExists
<1>4. q[k] \in A /\ \A j \in 1..(k - 1) : q[j] \notin A
  BY <1>1, <1>3
<1>5. k \in DOMAIN q
  BY <1>1, <1>3
<1> QED
  BY <1>1, <1>4, <1>5 DEF FirstOf

(* A list without an entry that it may have.                               *)
LEMMA WithoutList ==
  ASSUME NEW A, NEW q, Distinct(q, A), NEW a
  PROVE  /\ Distinct(Without(q, a), A \ {a})
         /\ Len(Without(q, a)) = IF a \in A THEN Len(q) - 1 ELSE Len(q)
<1>1. q \in Seq(Blocks) /\ Range(q) = A
  BY DEF Distinct
<1>2. CASE a \in A
  <2>1. FirstOf(q, {a}) \in 1..Len(q) /\ q[FirstOf(q, {a})] = a
    BY <1>1, <1>2, FirstOfList
  <2> QED
    BY <1>1, <1>2, <2>1, ShortenList DEF Without
<1>3. CASE a \notin A
  <2>1. A \ {a} = A /\ Without(q, a) = q
    BY <1>1, <1>3 DEF Without
  <2> QED
    BY <1>3, <2>1
<1> QED
  BY <1>2, <1>3

-----------------------------------------------------------------------------
(***************************************************************************)
(* What one round of a loop does.                                          *)
(***************************************************************************)
(* What is used of the constants throughout.                               *)
LEMMA Constants ==
  /\ NONE \notin Associations /\ NONE \notin Seq(Blocks) /\ NONE \notin ImageObjects
  /\ NONE \notin Images /\ VDPAU_MAX_SUBPICTURES \in Nat /\ MaxTime \in Nat
  /\ BLANK \in Pixels /\ Rects \subseteq SUBSET Parts
BY SubpictureAssumption

(* Between l and m the association a of p and s goes.                      *)
Frees(l, m, p, s, a) ==
  /\ a \in Blocks /\ a \in Range(l.sub[p]) /\ l.block[a] # NONE
  /\ l.block[a].sub = p /\ l.block[a].surface = s
  /\ m \in Links
  /\ m.block = [l.block EXCEPT ![a] = NONE]
  /\ \A t \in Surfaces : t # s => m.surface[t] = l.surface[t]
  /\ \A o \in Subpictures : o # p => m.sub[o] = l.sub[o]
  /\ Distinct(m.surface[s], Range(l.surface[s]) \ {a})
  /\ Distinct(m.sub[p], Range(l.sub[p]) \ {a}) /\ Len(m.sub[p]) = Len(l.sub[p]) - 1
  /\ Len(m.surface[s]) = IF a \in Range(l.surface[s]) THEN Len(l.surface[s]) - 1
                                                     ELSE Len(l.surface[s])

(* Between l and m the association a of p and s comes.                     *)
Adds(l, m, p, s, r, a) ==
  /\ a \in Blocks /\ l.block[a] = NONE
  /\ m \in Links
  /\ m.block = [l.block EXCEPT ![a] = [sub |-> p, surface |-> s, src_rect |-> r]]
  /\ \A t \in Surfaces : t # s => m.surface[t] = l.surface[t]
  /\ \A o \in Subpictures : o # p => m.sub[o] = l.sub[o]
  /\ Distinct(m.sub[p], Range(l.sub[p]) \cup {a})
  /\ m.surface[s] \in Seq(Blocks) /\ IsInjective(m.surface[s])
  /\ Range(m.surface[s]) \subseteq Range(l.surface[s]) \cup {a}
  /\ Len(m.surface[s]) <= VDPAU_MAX_SUBPICTURES
  /\ OfPair(l, p, s) = {} => Range(m.surface[s]) = Range(l.surface[s]) \cup {a}

(* The lists of sound links.                                               *)
LEMMA SoundLists ==
  ASSUME NEW l \in Sound
  PROVE  /\ l \in Links
         /\ \A s \in Surfaces : IsSurface(l, s) =>
              Distinct(l.surface[s], Range(l.surface[s])) /\ l.surface[s] \in Seq(Blocks)
         /\ \A p \in Subpictures : IsSubpicture(l, p) =>
              Distinct(l.sub[p], Range(l.sub[p])) /\ l.sub[p] \in Seq(Blocks)
         /\ \A p \in Subpictures : \A a \in Range(l.sub[p]) : IsSubpicture(l, p) =>
              /\ a \in Blocks /\ l.block[a] \in Associations
              /\ l.block[a] # NONE /\ l.block[a].sub = p
         /\ \A s \in Surfaces : \A a \in Range(l.surface[s]) : IsSurface(l, s) =>
              /\ a \in Blocks /\ l.block[a] \in Associations
              /\ l.block[a] # NONE /\ l.block[a].surface = s
<1>1. /\ l \in Links /\ l.block \in [Blocks -> Associations \cup {NONE}]
      /\ l.surface \in [Surfaces -> Seq(Blocks) \cup {NONE}]
      /\ l.sub \in [Subpictures -> Seq(Blocks) \cup {NONE}]
  BY DEF Sound, Links
<1>2. SurfacesListOwn(l) /\ SubpicturesListOwn(l)
  BY DEF Sound
<1>3. \A s \in Surfaces : IsSurface(l, s) =>
        Distinct(l.surface[s], Range(l.surface[s])) /\ l.surface[s] \in Seq(Blocks)
  BY <1>1, <1>2 DEF SurfacesListOwn, IsSurface, Distinct
<1>4. \A p \in Subpictures : IsSubpicture(l, p) =>
        Distinct(l.sub[p], Range(l.sub[p])) /\ l.sub[p] \in Seq(Blocks)
  BY <1>1, <1>2 DEF SubpicturesListOwn, IsSubpicture, Distinct
<1>5. \A p \in Subpictures : \A a \in Range(l.sub[p]) : IsSubpicture(l, p) =>
        /\ a \in Blocks /\ l.block[a] \in Associations
        /\ l.block[a] # NONE /\ l.block[a].sub = p
  BY <1>1, <1>2 DEF SubpicturesListOwn, OfSub, Allocated
<1>6. \A s \in Surfaces : \A a \in Range(l.surface[s]) : IsSurface(l, s) =>
        /\ a \in Blocks /\ l.block[a] \in Associations
        /\ l.block[a] # NONE /\ l.block[a].surface = s
  BY <1>1, <1>2 DEF SurfacesListOwn, OfSurface, Allocated
<1> QED
  BY <1>1, <1>3, <1>4, <1>5, <1>6

(* Dissociating a pair frees one association, or there is none.            *)
LEMMA DeassociatedFrees ==
  ASSUME NEW l \in Sound, NEW p \in Subpictures, NEW s \in Surfaces, IsSurface(l, s)
  PROVE  \/ ~Pairs(l, p, s) /\ Deassociated(l, p, s) = l
         \/ Pairs(l, p, s) /\ \E a \in Blocks : Frees(l, Deassociated(l, p, s), p, s, a)
<1>1. CASE ~Pairs(l, p, s)
  BY <1>1 DEF Deassociated
<1>2. CASE Pairs(l, p, s)
  <2> DEFINE k == FirstOf(l.sub[p], OfSurface(l, s))
             a == l.sub[p][k]
             q == Without(l.surface[s], a)
             w == WithoutAt(l.sub[p], k)
             m == [surface |-> [l.surface EXCEPT ![s] = q],
                   sub     |-> [l.sub EXCEPT ![p] = w],
                   block   |-> [l.block EXCEPT ![a] = NONE]]
  <2>1. IsSubpicture(l, p) /\ Range(l.sub[p]) \cap OfSurface(l, s) # {}
    BY <1>2 DEF Pairs
  <2>2. l.sub[p] \in Seq(Blocks) /\ Distinct(l.sub[p], Range(l.sub[p]))
    BY <2>1, SoundLists
  <2>3. Distinct(l.surface[s], Range(l.surface[s]))
    BY SoundLists
  <2>4. k \in 1..Len(l.sub[p]) /\ a \in OfSurface(l, s)
    BY <2>1, <2>2, FirstOfList
  <2>5. a \in Range(l.sub[p])
    BY <2>2, <2>4, EntryAt
  <2>6. a \in Blocks /\ l.block[a] # NONE /\ l.block[a].sub = p /\ l.block[a].surface = s
    BY <2>1, <2>4, <2>5, SoundLists DEF OfSurface, Allocated
  <2>7. Distinct(w, Range(l.sub[p]) \ {a}) /\ Len(w) = Len(l.sub[p]) - 1
    BY <2>2, <2>4, ShortenList
  <2>8. /\ Distinct(q, Range(l.surface[s]) \ {a})
        /\ Len(q) = IF a \in Range(l.surface[s]) THEN Len(l.surface[s]) - 1
                                                 ELSE Len(l.surface[s])
    <3>1. PICK x, A, b : x = l.surface[s] /\ A = Range(l.surface[s]) /\ b = a
      OBVIOUS
    <3>2. /\ Distinct(Without(x, b), A \ {b})
          /\ Len(Without(x, b)) = IF b \in A THEN Len(x) - 1 ELSE Len(x)
      <4>1. Distinct(x, A)
        BY <2>3, <3>1
      <4> QED
        BY <4>1, WithoutList
    <3> QED
      BY <3>1, <3>2
  <2>9. Deassociated(l, p, s) = m
    <3>1. l \in Links
      BY DEF Sound
    <3>2. Deassociated(l, p, s) = [l EXCEPT !.surface[s] = q, !.sub[p] = w, !.block[a] = NONE]
      BY <1>2 DEF Deassociated
    <3> HIDE DEF k, a, q, w
    <3> QED
      BY ONLY <3>1, <3>2 DEF Links
  <2> HIDE DEF k, a, q, w
  <2>10. /\ l.surface \in [Surfaces -> Seq(Blocks) \cup {NONE}]
         /\ l.sub \in [Subpictures -> Seq(Blocks) \cup {NONE}]
         /\ l.block \in [Blocks -> Associations \cup {NONE}]
    BY SoundLists DEF Links
  <2>11. q \in Seq(Blocks) /\ w \in Seq(Blocks)
    BY <2>7, <2>8 DEF Distinct
  <2>12. m \in Links
    BY <2>10, <2>11 DEF Links
  <2>13. m.surface[s] = q /\ m.sub[p] = w
    BY <2>10
  <2>14. /\ m.block = [l.block EXCEPT ![a] = NONE]
         /\ \A t \in Surfaces : t # s => m.surface[t] = l.surface[t]
         /\ \A o \in Subpictures : o # p => m.sub[o] = l.sub[o]
    BY <2>10
  <2> HIDE DEF m
  <2>15. Frees(l, m, p, s, a)
    BY <2>5, <2>6, <2>7, <2>8, <2>12, <2>13, <2>14 DEF Frees
  <2> QED
    BY <1>2, <2>6, <2>9, <2>15
<1> QED
  BY <1>1, <1>2

(* The same objects exist before and after.                                *)
SameObjects(l, m) ==
  /\ \A t \in Surfaces : IsSurface(m, t) <=> IsSurface(l, t)
  /\ \A o \in Subpictures : IsSubpicture(m, o) <=> IsSubpicture(l, o)

(* What is left when an association is freed is sound.                     *)
LEMMA FreesKeepsSound ==
  ASSUME NEW l \in Sound, NEW p \in Subpictures, NEW s \in Surfaces, NEW m, NEW a,
         IsSurface(l, s), IsSubpicture(l, p), Frees(l, m, p, s, a)
  PROVE  m \in Sound /\ SameObjects(l, m)
<1>1. /\ a \in Blocks /\ l.block[a] # NONE /\ l.block[a].sub = p /\ l.block[a].surface = s
      /\ m \in Links /\ l.block \in [Blocks -> Associations \cup {NONE}]
      /\ \A b \in Blocks : m.block[b] = IF b = a THEN NONE ELSE l.block[b]
  BY SoundLists DEF Frees, Links
<1>2. /\ m.surface[s] \in Seq(Blocks) /\ IsInjective(m.surface[s])
      /\ Range(m.surface[s]) = Range(l.surface[s]) \ {a}
      /\ m.sub[p] \in Seq(Blocks) /\ IsInjective(m.sub[p])
      /\ Range(m.sub[p]) = Range(l.sub[p]) \ {a}
  BY DEF Frees, Distinct
<1>3. /\ \A t \in Surfaces : t # s => m.surface[t] = l.surface[t]
      /\ \A o \in Subpictures : o # p => m.sub[o] = l.sub[o]
  BY DEF Frees
<1>4. SameObjects(l, m)
  BY <1>2, <1>3, Constants DEF SameObjects, IsSurface, IsSubpicture
<1>5. SurfacesListOwn(l) /\ SubpicturesListOwn(l)
  BY DEF Sound
<1>6. \A t \in Surfaces : t # s => a \notin OfSurface(l, t)
  BY <1>1 DEF OfSurface
<1>7. \A o \in Subpictures : o # p => a \notin OfSub(l, o)
  BY <1>1 DEF OfSub
<1>8. \A t \in Surfaces : OfSurface(l, t) \ {a} \subseteq OfSurface(m, t)
  BY <1>1 DEF OfSurface, Allocated
<1>9. \A o \in Subpictures : OfSub(l, o) \ {a} \subseteq OfSub(m, o)
  BY <1>1 DEF OfSub, Allocated
<1>10. Len(m.surface[s]) <= Len(l.surface[s]) /\ Len(l.surface[s]) <= VDPAU_MAX_SUBPICTURES
  <2>1. Len(l.surface[s]) \in Nat /\ Len(l.surface[s]) <= VDPAU_MAX_SUBPICTURES
    BY <1>5, SoundLists, EntryAt DEF SurfacesListOwn
  <2> QED
    BY <2>1 DEF Frees
<1>11. Len(m.surface[s]) <= VDPAU_MAX_SUBPICTURES
  BY <1>2, <1>5, <1>10, SoundLists, EntryAt, Constants
<1>12. SurfacesListOwn(m)
  <2> SUFFICES ASSUME NEW t \in Surfaces, IsSurface(m, t)
               PROVE  /\ IsInjective(m.surface[t]) /\ Range(m.surface[t]) \subseteq OfSurface(m, t)
                      /\ Len(m.surface[t]) <= VDPAU_MAX_SUBPICTURES
    BY DEF SurfacesListOwn
  <2>1. /\ IsSurface(l, t) /\ IsInjective(l.surface[t])
        /\ Range(l.surface[t]) \subseteq OfSurface(l, t)
        /\ Len(l.surface[t]) <= VDPAU_MAX_SUBPICTURES
    BY <1>4, <1>5 DEF SameObjects, SurfacesListOwn
  <2>2. CASE t = s
    BY <1>2, <1>8, <1>11, <2>1, <2>2
  <2>3. CASE t # s
    BY <1>3, <1>6, <1>8, <2>1, <2>3
  <2> QED
    BY <2>2, <2>3
<1>13. SubpicturesListOwn(m)
  <2> SUFFICES ASSUME NEW o \in Subpictures, IsSubpicture(m, o)
               PROVE  IsInjective(m.sub[o]) /\ Range(m.sub[o]) \subseteq OfSub(m, o)
    BY DEF SubpicturesListOwn
  <2>1. /\ IsSubpicture(l, o) /\ IsInjective(l.sub[o])
        /\ Range(l.sub[o]) \subseteq OfSub(l, o)
    BY <1>4, <1>5 DEF SameObjects, SubpicturesListOwn
  <2>2. CASE o = p
    BY <1>2, <1>9, <2>1, <2>2
  <2>3. CASE o # p
    BY <1>3, <1>7, <1>9, <2>1, <2>3
  <2> QED
    BY <2>2, <2>3
<1> QED
  BY <1>1, <1>4, <1>12, <1>13 DEF Sound

(* What is left when an association is freed is listed at both ends.       *)
LEMMA FreesKeepsFull ==
  ASSUME NEW l \in Full, NEW p \in Subpictures, NEW s \in Surfaces, NEW m, NEW a,
         IsSurface(l, s), IsSubpicture(l, p), Frees(l, m, p, s, a)
  PROVE  m \in Full
<1>1. l \in Sound /\ ListedTwice(l)
  BY DEF Full
<1>2. m \in Sound /\ SameObjects(l, m)
  BY <1>1, FreesKeepsSound
<1>3. ASSUME NEW b \in Allocated(m)
      PROVE  /\ IsSubpicture(m, m.block[b].sub) /\ b \in Range(m.sub[m.block[b].sub])
             /\ IsSurface(m, m.block[b].surface) /\ b \in Range(m.surface[m.block[b].surface])
  <2>1. l.block \in [Blocks -> Associations \cup {NONE}]
    BY <1>1, SoundLists DEF Links
  <2>2. b \in Blocks /\ b # a /\ m.block[b] = l.block[b] /\ l.block[b] # NONE
    BY <2>1 DEF Frees, Allocated
  <2> DEFINE o == l.block[b].sub
             t == l.block[b].surface
  <2>3. o \in Subpictures /\ t \in Surfaces
    BY <2>1, <2>2 DEF Associations
  <2>4. /\ IsSubpicture(l, o) /\ b \in Range(l.sub[o])
        /\ IsSurface(l, t) /\ b \in Range(l.surface[t])
    BY <1>1, <2>2 DEF ListedTwice, Allocated
  <2> HIDE DEF o, t
  <2>5. b \in Range(m.sub[o])
    BY <2>2, <2>3, <2>4 DEF Frees, Distinct
  <2>6. b \in Range(m.surface[t])
    BY <2>2, <2>3, <2>4 DEF Frees, Distinct
  <2> QED
    BY <1>2, <2>2, <2>3, <2>4, <2>5, <2>6 DEF SameObjects, o, t
<1> QED
  BY <1>2, <1>3 DEF Full, ListedTwice

(* A surface that can take an association of p gets one.                   *)
LEMMA AssociatedAdds ==
  ASSUME NEW l \in Sound, NEW p \in Subpictures, NEW s \in Surfaces, NEW r \in Rects,
         IsSubpicture(l, p), CanAssociate(l, p, s)
  PROVE  \E a \in Blocks : Adds(l, Associated(l, p, s, r), p, s, r, a)
<1> DEFINE a == CHOOSE x \in Blocks \ Allocated(l) : \A y \in Blocks \ Allocated(l) : x <= y
           q == l.surface[s]
           k == FirstOf(q, OfPair(l, p, s))
           v == IF OfPair(l, p, s) = {} THEN Append(q, a) ELSE [q EXCEPT ![k] = a]
           w == Append(l.sub[p], a)
           c == [sub |-> p, surface |-> s, src_rect |-> r]
           m == [surface |-> [l.surface EXCEPT ![s] = v],
                 sub     |-> [l.sub EXCEPT ![p] = w],
                 block   |-> [l.block EXCEPT ![a] = c]]
<1>1. Blocks \ Allocated(l) # {} /\ Blocks \ Allocated(l) \subseteq Nat
  BY DEF CanAssociate, Allocated, Blocks
<1>2. a \in Blocks \ Allocated(l)
  <2>1. PICK x \in Blocks \ Allocated(l) : \A y \in Blocks \ Allocated(l) : x <= y
    BY <1>1, LeastExists
  <2> QED
    BY <2>1
<1>3. a \in Blocks /\ l.block[a] = NONE
  BY <1>2 DEF Allocated
<1>4. Associated(l, p, s, r) = m
  BY SoundLists DEF Associated, Links
<1> HIDE DEF a
<1>5. /\ IsSurface(l, s) /\ (OfPair(l, p, s) # {} \/ HasRoom(q))
      /\ l.surface \in [Surfaces -> Seq(Blocks) \cup {NONE}]
      /\ l.sub \in [Subpictures -> Seq(Blocks) \cup {NONE}]
      /\ l.block \in [Blocks -> Associations \cup {NONE}]
  BY SoundLists DEF CanAssociate, Links
<1>6. /\ Distinct(q, Range(q)) /\ q \in Seq(Blocks) /\ a \notin Range(q)
      /\ Len(q) <= VDPAU_MAX_SUBPICTURES
  BY <1>3, <1>5, SoundLists DEF Sound, SurfacesListOwn
<1>7. Distinct(l.sub[p], Range(l.sub[p])) /\ a \notin Range(l.sub[p])
  BY <1>3, SoundLists
<1> HIDE DEF q
<1>8. Distinct(w, Range(l.sub[p]) \cup {a})
  BY <1>3, <1>7, AppendList
<1> HIDE DEF w
<1>9. CASE OfPair(l, p, s) = {}
  <2>1. v = Append(q, a)
    BY <1>9
  <2>2. Distinct(v, Range(q) \cup {a}) /\ Len(v) = Len(q) + 1
    BY <1>3, <1>6, <2>1, AppendList
  <2>3. Len(q) \in Nat /\ Len(q) < VDPAU_MAX_SUBPICTURES
    BY <1>5, <1>6, <1>9, EntryAt DEF HasRoom
  <2> HIDE DEF v
  <2>4. Len(v) <= VDPAU_MAX_SUBPICTURES
    BY <2>2, <2>3, Constants
  <2>5. Range(v) = Range(q) \cup {a} /\ v \in Seq(Blocks) /\ IsInjective(v)
    BY <2>2 DEF Distinct
  <2>6. m \in Links
    BY <1>3, <1>5, <1>8, <2>5 DEF Links, Distinct, Associations
  <2>7. Adds(l, m, p, s, r, a)
    BY <1>3, <1>5, <1>8, <1>9, <2>4, <2>5, <2>6 DEF Adds, q
  <2> QED
    BY <1>3, <1>4, <2>7
<1>10. CASE OfPair(l, p, s) # {}
  <2>1. v = [q EXCEPT ![k] = a]
    BY <1>10
  <2>2. Range(q) \cap OfPair(l, p, s) # {}
    BY <1>10 DEF OfPair, q
  <2>3. k \in 1..Len(q)
    BY <1>6, <2>2, FirstOfList
  <2> HIDE DEF k
  <2>4. Distinct(v, (Range(q) \ {q[k]}) \cup {a}) /\ Len(v) = Len(q)
    BY <1>3, <1>6, <2>1, <2>3, ReplaceList
  <2> HIDE DEF v
  <2>5. Range(v) \subseteq Range(q) \cup {a} /\ v \in Seq(Blocks) /\ IsInjective(v)
    BY <2>4 DEF Distinct
  <2>6. m \in Links
    BY <1>3, <1>5, <1>8, <2>5 DEF Links, Distinct, Associations
  <2>7. Len(v) <= VDPAU_MAX_SUBPICTURES
    BY <1>6, <2>4
  <2>8. Adds(l, m, p, s, r, a)
    BY <1>3, <1>5, <1>8, <1>10, <2>5, <2>6, <2>7 DEF Adds, q
  <2> QED
    BY <1>3, <1>4, <2>8
<1> QED
  BY <1>9, <1>10

(* With one association more the lists are sound.                          *)
LEMMA AddsKeepsSound ==
  ASSUME NEW l \in Sound, NEW p \in Subpictures, NEW s \in Surfaces, NEW r \in Rects,
         NEW m, NEW a, IsSurface(l, s), IsSubpicture(l, p), Adds(l, m, p, s, r, a)
  PROVE  m \in Sound /\ SameObjects(l, m)
<1>1. /\ a \in Blocks /\ l.block[a] = NONE /\ m \in Links
      /\ l.block \in [Blocks -> Associations \cup {NONE}]
      /\ \A b \in Blocks : m.block[b] =
           IF b = a THEN [sub |-> p, surface |-> s, src_rect |-> r] ELSE l.block[b]
  BY SoundLists DEF Adds, Links
<1>2. [sub |-> p, surface |-> s, src_rect |-> r] # NONE
  BY Constants DEF Associations
<1>3. /\ m.surface[s] \in Seq(Blocks) /\ IsInjective(m.surface[s])
      /\ Range(m.surface[s]) \subseteq Range(l.surface[s]) \cup {a}
      /\ Len(m.surface[s]) <= VDPAU_MAX_SUBPICTURES
      /\ m.sub[p] \in Seq(Blocks) /\ IsInjective(m.sub[p])
      /\ Range(m.sub[p]) = Range(l.sub[p]) \cup {a}
  BY DEF Adds, Distinct
<1>4. /\ \A t \in Surfaces : t # s => m.surface[t] = l.surface[t]
      /\ \A o \in Subpictures : o # p => m.sub[o] = l.sub[o]
  BY DEF Adds
<1>5. SameObjects(l, m)
  BY <1>3, <1>4, Constants DEF SameObjects, IsSurface, IsSubpicture
<1>6. SurfacesListOwn(l) /\ SubpicturesListOwn(l)
  BY DEF Sound
<1>7. \A t \in Surfaces : OfSurface(l, t) \subseteq OfSurface(m, t)
  BY <1>1 DEF OfSurface, Allocated
<1>8. \A o \in Subpictures : OfSub(l, o) \subseteq OfSub(m, o)
  BY <1>1 DEF OfSub, Allocated
<1>9. a \in OfSurface(m, s) /\ a \in OfSub(m, p)
  BY <1>1, <1>2 DEF OfSurface, OfSub, Allocated
<1>10. SurfacesListOwn(m)
  <2> SUFFICES ASSUME NEW t \in Surfaces, IsSurface(m, t)
               PROVE  /\ IsInjective(m.surface[t]) /\ Range(m.surface[t]) \subseteq OfSurface(m, t)
                      /\ Len(m.surface[t]) <= VDPAU_MAX_SUBPICTURES
    BY DEF SurfacesListOwn
  <2>1. /\ IsInjective(l.surface[t]) /\ Range(l.surface[t]) \subseteq OfSurface(l, t)
        /\ Len(l.surface[t]) <= VDPAU_MAX_SUBPICTURES
    BY <1>5, <1>6 DEF SameObjects, SurfacesListOwn
  <2>2. CASE t = s
    BY <1>3, <1>7, <1>9, <2>1, <2>2
  <2>3. CASE t # s
    BY <1>4, <1>7, <2>1, <2>3
  <2> QED
    BY <2>2, <2>3
<1>11. SubpicturesListOwn(m)
  <2> SUFFICES ASSUME NEW o \in Subpictures, IsSubpicture(m, o)
               PROVE  IsInjective(m.sub[o]) /\ Range(m.sub[o]) \subseteq OfSub(m, o)
    BY DEF SubpicturesListOwn
  <2>1. IsInjective(l.sub[o]) /\ Range(l.sub[o]) \subseteq OfSub(l, o)
    BY <1>5, <1>6 DEF SameObjects, SubpicturesListOwn
  <2>2. CASE o = p
    BY <1>3, <1>8, <1>9, <2>1, <2>2
  <2>3. CASE o # p
    BY <1>4, <1>8, <2>1, <2>3
  <2> QED
    BY <2>2, <2>3
<1> QED
  BY <1>1, <1>5, <1>10, <1>11 DEF Sound

(* A new pair is listed at both ends.                                      *)
LEMMA AddsKeepsFull ==
  ASSUME NEW l \in Full, NEW p \in Subpictures, NEW s \in Surfaces, NEW r \in Rects,
         NEW m, NEW a, IsSurface(l, s), IsSubpicture(l, p), Adds(l, m, p, s, r, a),
         OfPair(l, p, s) = {}
  PROVE  m \in Full
<1>1. l \in Sound /\ ListedTwice(l)
  BY DEF Full
<1>2. m \in Sound /\ SameObjects(l, m)
  BY <1>1, AddsKeepsSound
<1>3. /\ Range(m.surface[s]) = Range(l.surface[s]) \cup {a}
      /\ Range(m.sub[p]) = Range(l.sub[p]) \cup {a}
      /\ \A t \in Surfaces : t # s => m.surface[t] = l.surface[t]
      /\ \A o \in Subpictures : o # p => m.sub[o] = l.sub[o]
  BY DEF Adds, Distinct
<1>4. ASSUME NEW b \in Allocated(m)
      PROVE  /\ IsSubpicture(m, m.block[b].sub) /\ b \in Range(m.sub[m.block[b].sub])
             /\ IsSurface(m, m.block[b].surface) /\ b \in Range(m.surface[m.block[b].surface])
  <2>1. l.block \in [Blocks -> Associations \cup {NONE}] /\ b \in Blocks /\ m.block[b] # NONE
    BY <1>1, SoundLists DEF Links, Allocated
  <2>2. m.block[b] = IF b = a THEN [sub |-> p, surface |-> s, src_rect |-> r] ELSE l.block[b]
    BY <2>1 DEF Adds
  <2>3. CASE b = a
    <3>1. m.block[b].sub = p /\ m.block[b].surface = s
      BY <2>2, <2>3
    <3> QED
      BY <1>2, <1>3, <2>3, <3>1 DEF SameObjects
  <2>4. CASE b # a
    <3> DEFINE o == l.block[b].sub
               t == l.block[b].surface
    <3>1. m.block[b] = l.block[b] /\ o \in Subpictures /\ t \in Surfaces
      BY <2>1, <2>2, <2>4 DEF Associations
    <3>2. /\ IsSubpicture(l, o) /\ b \in Range(l.sub[o])
          /\ IsSurface(l, t) /\ b \in Range(l.surface[t])
      BY <1>1, <2>1, <3>1 DEF ListedTwice, Allocated
    <3> HIDE DEF o, t
    <3>3. b \in Range(m.sub[o]) /\ b \in Range(m.surface[t])
      BY <1>3, <3>1, <3>2
    <3> QED
      BY <1>2, <3>1, <3>2, <3>3 DEF SameObjects, o, t
  <2> QED
    BY <2>3, <2>4
<1> QED
  BY <1>2, <1>4 DEF Full, ListedTwice

-----------------------------------------------------------------------------
(***************************************************************************)
(* The loops over associations.                                            *)
(***************************************************************************)
(* Sound links of the objects that exist now.                              *)
SoundNow == {l \in Sound : SameObjects(links, l)}

(* A round of each loop keeps links sound and destroys no object.          *)
LEMMA RoundsKeepSound ==
  ASSUME NEW l \in SoundNow
  PROVE  /\ \A p \in Subpictures, s \in Surfaces, r \in Rects :
              IsSubpicture(links, p) => AssociateOne(l, p, s, r) \in SoundNow
         /\ \A p \in Subpictures, s \in Surfaces : DeassociateOne(l, p, s) \in SoundNow
         /\ \A s \in Surfaces : IsSurface(links, s) => ReleaseOne(l, s) \in SoundNow
         /\ \A p \in Subpictures : IsSubpicture(links, p) => ShedOne(l, p) \in SoundNow
<1>1. l \in Sound /\ SameObjects(links, l)
  BY DEF SoundNow
<1>2. ASSUME NEW m \in Sound, SameObjects(l, m)
      PROVE  m \in SoundNow
  BY <1>1, <1>2 DEF SoundNow, SameObjects
<1>3. ASSUME NEW p \in Subpictures, NEW s \in Surfaces, NEW r \in Rects, IsSubpicture(links, p)
      PROVE  AssociateOne(l, p, s, r) \in SoundNow
  <2>1. CASE CanAssociate(l, p, s)
    <3>1. IsSubpicture(l, p) /\ IsSurface(l, s)
      BY <1>1, <1>3, <2>1 DEF SameObjects, CanAssociate
    <3>2. PICK a \in Blocks : Adds(l, Associated(l, p, s, r), p, s, r, a)
      BY <1>1, <2>1, <3>1, AssociatedAdds
    <3>3. Associated(l, p, s, r) \in Sound /\ SameObjects(l, Associated(l, p, s, r))
      BY <1>1, <3>1, <3>2, AddsKeepsSound
    <3> QED
      BY <1>2, <2>1, <3>3 DEF AssociateOne
  <2>2. CASE ~CanAssociate(l, p, s)
    BY <2>2 DEF AssociateOne
  <2> QED
    BY <2>1, <2>2
<1>4. ASSUME NEW p \in Subpictures, NEW s \in Surfaces, IsSurface(l, s)
      PROVE  Deassociated(l, p, s) \in SoundNow
  <2>1. CASE ~Pairs(l, p, s)
    BY <1>1, <1>4, <2>1, DeassociatedFrees
  <2>2. CASE Pairs(l, p, s)
    <3>1. IsSubpicture(l, p)
      BY <2>2 DEF Pairs
    <3>2. PICK a \in Blocks : Frees(l, Deassociated(l, p, s), p, s, a)
      BY <1>1, <1>4, <2>2, DeassociatedFrees
    <3>3. Deassociated(l, p, s) \in Sound /\ SameObjects(l, Deassociated(l, p, s))
      BY <1>1, <1>4, <3>1, <3>2, FreesKeepsSound
    <3> QED
      BY <1>2, <3>3
  <2> QED
    BY <2>1, <2>2
<1>5. ASSUME NEW p \in Subpictures, NEW s \in Surfaces
      PROVE  DeassociateOne(l, p, s) \in SoundNow
  BY <1>4 DEF DeassociateOne
<1>6. ASSUME NEW s \in Surfaces, IsSurface(links, s)
      PROVE  ReleaseOne(l, s) \in SoundNow
  <2>1. CASE CanRelease(l, s)
    <3>1. IsSurface(l, s) /\ l.surface[s] # <<>>
      BY <1>1, <1>6, <2>1 DEF SameObjects, CanRelease
    <3>2. l.surface[s] \in Seq(Blocks)
      BY <1>1, <3>1, SoundLists
    <3>3. l.surface[s][1] \in Range(l.surface[s])
      BY <3>1, <3>2, EntryAt
    <3>4. FirstOwner(l, s) \in Subpictures
      BY <1>1, <3>1, <3>3, SoundLists DEF FirstOwner, Associations
    <3> QED
      BY <1>4, <2>1, <3>1, <3>4 DEF ReleaseOne
  <2>2. CASE ~CanRelease(l, s)
    BY <2>2 DEF ReleaseOne
  <2> QED
    BY <2>1, <2>2
<1>7. ASSUME NEW p \in Subpictures, IsSubpicture(links, p)
      PROVE  ShedOne(l, p) \in SoundNow
  <2>1. CASE l.sub[p] # <<>> /\ IsSurface(l, FirstSurface(l, p))
    <3>1. IsSubpicture(l, p)
      BY <1>1, <1>7 DEF SameObjects
    <3>2. l.sub[p] \in Seq(Blocks)
      BY <1>1, <3>1, SoundLists
    <3>3. l.sub[p][1] \in Range(l.sub[p])
      BY <2>1, <3>2, EntryAt
    <3>4. FirstSurface(l, p) \in Surfaces
      BY <1>1, <3>1, <3>3, SoundLists DEF FirstSurface, Associations
    <3> QED
      BY <1>4, <2>1, <3>4 DEF ShedOne
  <2>2. CASE ~(l.sub[p] # <<>> /\ IsSurface(l, FirstSurface(l, p)))
    BY <2>2 DEF ShedOne
  <2> QED
    BY <2>1, <2>2
<1> QED
  BY <1>3, <1>5, <1>6, <1>7

(* Links that are sound stay the same objects' links.                      *)
LEMMA StartsSound ==
  ASSUME links \in Sound
  PROVE  links \in SoundNow
BY DEF SoundNow, SameObjects

(* What a list of surfaces holds.                                          *)
LEMMA SurfaceListHolds ==
  ASSUME NEW q \in SurfaceLists
  PROVE  /\ Len(q) \in Nat \ {0} /\ DOMAIN q = 1..Len(q)
         /\ \A k \in 1..Len(q) : q[k] \in Surfaces
<1>1. PICK n \in 1..MaxList : q \in [1..n -> Surfaces]
  BY DEF SurfaceLists
<1>2. MaxList \in Nat
  BY SubpictureAssumption
<1>3. n \in Nat \ {0}
  BY <1>2
<1>4. q \in Seq(Surfaces)
  BY <1>1, <1>3
<1>5. DOMAIN q = 1..Len(q) /\ Len(q) \in Nat
  BY <1>4, LenProperties
<1>6. Len(q) = n
  BY <1>1, <1>3, <1>5
<1> QED
  BY <1>1, <1>3, <1>5, <1>6

(* The rounds of associate_subpicture.                                      *)
LEMMA AssociatingRounds ==
  ASSUME links \in Sound, NEW p \in Subpictures, IsSubpicture(links, p),
         NEW q \in SurfaceLists, NEW r \in Rects
  PROVE  LET f == Associating(p, q, r)
         IN  /\ f[0] = links
             /\ \A k \in 1..Len(q) : f[k] = AssociateOne(f[k - 1], p, q[k], r)
             /\ \A k \in 0..Len(q) : f[k] \in SoundNow
<1> DEFINE n == Len(q)
           F == [k \in 1..n |-> [l \in SoundNow |-> AssociateOne(l, p, q[k], r)]]
           f == Associating(p, q, r)
<1>1. n \in Nat /\ \A k \in 1..n : q[k] \in Surfaces
  BY SurfaceListHolds
<1>2. F \in [1..n -> [SoundNow -> SoundNow]]
  BY <1>1, RoundsKeepSound
<1> HIDE DEF F
<1>3. PICK g \in [0..n -> SoundNow] : g[0] = links /\ \A k \in 1..n : g[k] = F[k][g[k - 1]]
  <2>1. links \in SoundNow
    BY StartsSound
  <2>2. Results(SoundNow, links, n, F) # {}
    BY <1>1, <1>2, <2>1, RoundsExist
  <2> QED
    BY <2>2 DEF Results
<1>4. ASSUME NEW k \in 1..n
      PROVE  g[k] = AssociateOne(g[k - 1], p, q[k], r)
  <2>1. k - 1 \in 0..n
    BY <1>1
  <2>2. g[k - 1] \in SoundNow
    BY <1>3, <2>1
  <2> QED
    BY <1>3, <2>2 DEF F
<1>5. g = [k \in 0..n |-> IF k = 0 THEN links ELSE AssociateOne(g[k - 1], p, q[k], r)]
  BY <1>1, <1>3, <1>4
<1>6. f = [k \in 0..n |-> IF k = 0 THEN links ELSE AssociateOne(f[k - 1], p, q[k], r)]
  BY <1>5 DEF Associating
<1> HIDE DEF f
<1>7. f[0] = links /\ \A k \in 1..n : f[k] = AssociateOne(f[k - 1], p, q[k], r)
  BY <1>1, <1>6
<1>8. 0..n \subseteq {k \in 0..n : f[k] \in SoundNow}
  <2> DEFINE S == {k \in 0..n : f[k] \in SoundNow}
  <2>1. 0 \in S
    BY <1>1, <1>7, StartsSound
  <2>2. \A k \in 1..n : k - 1 \in S => k \in S
    BY <1>1, <1>7, RoundsKeepSound
  <2> HIDE DEF S
  <2>3. 0..n \subseteq S
    BY <1>1, <2>1, <2>2, AllRounds
  <2> QED
    BY <2>3 DEF S
<1> QED
  BY <1>7, <1>8 DEF f

(* The rounds of deassociate_subpicture.                                    *)
LEMMA DeassociatingRounds ==
  ASSUME links \in Sound, NEW p \in Subpictures, NEW q \in SurfaceLists
  PROVE  LET f == Deassociating(p, q)
         IN  /\ f[0] = links
             /\ \A k \in 1..Len(q) : f[k] = DeassociateOne(f[k - 1], p, q[k])
             /\ \A k \in 0..Len(q) : f[k] \in SoundNow
<1> DEFINE n == Len(q)
           F == [k \in 1..n |-> [l \in SoundNow |-> DeassociateOne(l, p, q[k])]]
           f == Deassociating(p, q)
<1>1. n \in Nat /\ \A k \in 1..n : q[k] \in Surfaces
  BY SurfaceListHolds
<1>2. F \in [1..n -> [SoundNow -> SoundNow]]
  BY <1>1, RoundsKeepSound
<1> HIDE DEF F
<1>3. PICK g \in [0..n -> SoundNow] : g[0] = links /\ \A k \in 1..n : g[k] = F[k][g[k - 1]]
  <2>1. links \in SoundNow
    BY StartsSound
  <2>2. Results(SoundNow, links, n, F) # {}
    BY <1>1, <1>2, <2>1, RoundsExist
  <2> QED
    BY <2>2 DEF Results
<1>4. ASSUME NEW k \in 1..n
      PROVE  g[k] = DeassociateOne(g[k - 1], p, q[k])
  <2>1. k - 1 \in 0..n
    BY <1>1
  <2>2. g[k - 1] \in SoundNow
    BY <1>3, <2>1
  <2> QED
    BY <1>3, <2>2 DEF F
<1>5. g = [k \in 0..n |-> IF k = 0 THEN links ELSE DeassociateOne(g[k - 1], p, q[k])]
  BY <1>1, <1>3, <1>4
<1>6. f = [k \in 0..n |-> IF k = 0 THEN links ELSE DeassociateOne(f[k - 1], p, q[k])]
  BY <1>5 DEF Deassociating
<1> HIDE DEF f
<1>7. f[0] = links /\ \A k \in 1..n : f[k] = DeassociateOne(f[k - 1], p, q[k])
  BY <1>1, <1>6
<1>8. 0..n \subseteq {k \in 0..n : f[k] \in SoundNow}
  <2> DEFINE S == {k \in 0..n : f[k] \in SoundNow}
  <2>1. 0 \in S
    BY <1>1, <1>7, StartsSound
  <2>2. \A k \in 1..n : k - 1 \in S => k \in S
    BY <1>1, <1>7, RoundsKeepSound
  <2> HIDE DEF S
  <2>3. 0..n \subseteq S
    BY <1>1, <2>1, <2>2, AllRounds
  <2> QED
    BY <2>3 DEF S
<1> QED
  BY <1>7, <1>8 DEF f

(* The rounds of vaDestroySurfaces.                                         *)
LEMMA ReleasingRounds ==
  ASSUME links \in Sound, NEW s \in Surfaces, IsSurface(links, s), NEW n \in Nat
  PROVE  LET f == Releasing(s, n)
         IN  /\ f[0] = links
             /\ \A k \in 1..n : f[k] = ReleaseOne(f[k - 1], s)
             /\ \A k \in 0..n : f[k] \in SoundNow
<1> DEFINE F == [k \in 1..n |-> [l \in SoundNow |-> ReleaseOne(l, s)]]
           f == Releasing(s, n)
<1>1. n \in Nat
  OBVIOUS
<1>2. F \in [1..n -> [SoundNow -> SoundNow]]
  BY <1>1, RoundsKeepSound
<1> HIDE DEF F
<1>3. PICK g \in [0..n -> SoundNow] : g[0] = links /\ \A k \in 1..n : g[k] = F[k][g[k - 1]]
  <2>1. links \in SoundNow
    BY StartsSound
  <2>2. Results(SoundNow, links, n, F) # {}
    BY <1>1, <1>2, <2>1, RoundsExist
  <2> QED
    BY <2>2 DEF Results
<1>4. ASSUME NEW k \in 1..n
      PROVE  g[k] = ReleaseOne(g[k - 1], s)
  <2>1. k - 1 \in 0..n
    BY <1>1
  <2>2. g[k - 1] \in SoundNow
    BY <1>3, <2>1
  <2> QED
    BY <1>3, <2>2 DEF F
<1>5. g = [k \in 0..n |-> IF k = 0 THEN links ELSE ReleaseOne(g[k - 1], s)]
  BY <1>1, <1>3, <1>4
<1>6. f = [k \in 0..n |-> IF k = 0 THEN links ELSE ReleaseOne(f[k - 1], s)]
  BY <1>5 DEF Releasing
<1> HIDE DEF f
<1>7. f[0] = links /\ \A k \in 1..n : f[k] = ReleaseOne(f[k - 1], s)
  BY <1>1, <1>6
<1>8. 0..n \subseteq {k \in 0..n : f[k] \in SoundNow}
  <2> DEFINE S == {k \in 0..n : f[k] \in SoundNow}
  <2>1. 0 \in S
    BY <1>1, <1>7, StartsSound
  <2>2. \A k \in 1..n : k - 1 \in S => k \in S
    BY <1>1, <1>7, RoundsKeepSound
  <2> HIDE DEF S
  <2>3. 0..n \subseteq S
    BY <1>1, <2>1, <2>2, AllRounds
  <2> QED
    BY <2>3 DEF S
<1> QED
  BY <1>7, <1>8 DEF f

(* The rounds of destroy_subpicture.                                        *)
LEMMA SheddingRounds ==
  ASSUME links \in Sound, NEW p \in Subpictures, IsSubpicture(links, p), NEW n \in Nat
  PROVE  LET f == Shedding(p, n)
         IN  /\ f[0] = links
             /\ \A k \in 1..n : f[k] = ShedOne(f[k - 1], p)
             /\ \A k \in 0..n : f[k] \in SoundNow
<1> DEFINE F == [k \in 1..n |-> [l \in SoundNow |-> ShedOne(l, p)]]
           f == Shedding(p, n)
<1>1. n \in Nat
  OBVIOUS
<1>2. F \in [1..n -> [SoundNow -> SoundNow]]
  BY <1>1, RoundsKeepSound
<1> HIDE DEF F
<1>3. PICK g \in [0..n -> SoundNow] : g[0] = links /\ \A k \in 1..n : g[k] = F[k][g[k - 1]]
  <2>1. links \in SoundNow
    BY StartsSound
  <2>2. Results(SoundNow, links, n, F) # {}
    BY <1>1, <1>2, <2>1, RoundsExist
  <2> QED
    BY <2>2 DEF Results
<1>4. ASSUME NEW k \in 1..n
      PROVE  g[k] = ShedOne(g[k - 1], p)
  <2>1. k - 1 \in 0..n
    BY <1>1
  <2>2. g[k - 1] \in SoundNow
    BY <1>3, <2>1
  <2> QED
    BY <1>3, <2>2 DEF F
<1>5. g = [k \in 0..n |-> IF k = 0 THEN links ELSE ShedOne(g[k - 1], p)]
  BY <1>1, <1>3, <1>4
<1>6. f = [k \in 0..n |-> IF k = 0 THEN links ELSE ShedOne(f[k - 1], p)]
  BY <1>5 DEF Shedding
<1> HIDE DEF f
<1>7. f[0] = links /\ \A k \in 1..n : f[k] = ShedOne(f[k - 1], p)
  BY <1>1, <1>6
<1>8. 0..n \subseteq {k \in 0..n : f[k] \in SoundNow}
  <2> DEFINE S == {k \in 0..n : f[k] \in SoundNow}
  <2>1. 0 \in S
    BY <1>1, <1>7, StartsSound
  <2>2. \A k \in 1..n : k - 1 \in S => k \in S
    BY <1>1, <1>7, RoundsKeepSound
  <2> HIDE DEF S
  <2>3. 0..n \subseteq S
    BY <1>1, <2>1, <2>2, AllRounds
  <2> QED
    BY <2>3 DEF S
<1> QED
  BY <1>7, <1>8 DEF f

-----------------------------------------------------------------------------
(***************************************************************************)
(* Types.                                                                  *)
(***************************************************************************)
(* A surface may start and end without associations.                       *)
LEMMA ResetSurface ==
  ASSUME NEW l \in Sound, NEW s \in Surfaces, NEW v \in {<<>>, NONE}
  PROVE  LET m == [l EXCEPT !.surface[s] = v]
         IN  /\ m \in Sound
             /\ m.block = l.block /\ m.sub = l.sub
             /\ l \in Full /\ OfSurface(l, s) = {} => m \in Full
<1> DEFINE m == [l EXCEPT !.surface[s] = v]
<1>1. /\ l \in Links /\ l.surface \in [Surfaces -> Seq(Blocks) \cup {NONE}]
      /\ l.block \in [Blocks -> Associations \cup {NONE}]
  BY SoundLists DEF Links
<1>2. v \in Seq(Blocks) \cup {NONE}
  BY EmptyList DEF Distinct
<1>3. /\ m \in Links /\ m.block = l.block /\ m.sub = l.sub
      /\ \A t \in Surfaces : m.surface[t] = IF t = s THEN v ELSE l.surface[t]
  BY <1>1, <1>2 DEF Links
<1> HIDE DEF m
<1>4. /\ \A t \in Surfaces : OfSurface(m, t) = OfSurface(l, t)
      /\ \A o \in Subpictures : OfSub(m, o) = OfSub(l, o)
      /\ Allocated(m) = Allocated(l)
  BY <1>3 DEF OfSurface, OfSub, Allocated
<1>5. SurfacesListOwn(l) /\ SubpicturesListOwn(l)
  BY DEF Sound
<1>6. SurfacesListOwn(m)
  <2> SUFFICES ASSUME NEW t \in Surfaces, IsSurface(m, t)
               PROVE  /\ IsInjective(m.surface[t]) /\ Range(m.surface[t]) \subseteq OfSurface(m, t)
                      /\ Len(m.surface[t]) <= VDPAU_MAX_SUBPICTURES
    BY DEF SurfacesListOwn
  <2>1. CASE t = s
    <3>1. m.surface[t] = <<>>
      BY <1>3, <2>1 DEF IsSurface
    <3> QED
      BY <3>1, EmptyList, Constants DEF Distinct
  <2>2. CASE t # s
    BY <1>3, <1>4, <1>5, <2>2 DEF SurfacesListOwn, IsSurface
  <2> QED
    BY <2>1, <2>2
<1>7. SubpicturesListOwn(m)
  BY <1>3, <1>4, <1>5 DEF SubpicturesListOwn, IsSubpicture
<1>8. ASSUME l \in Full, OfSurface(l, s) = {}
      PROVE  m \in Full
  <2>1. ListedTwice(l)
    BY <1>8 DEF Full
  <2> SUFFICES ASSUME NEW b \in Allocated(m)
               PROVE  /\ IsSubpicture(m, m.block[b].sub) /\ b \in Range(m.sub[m.block[b].sub])
                      /\ IsSurface(m, m.block[b].surface)
                      /\ b \in Range(m.surface[m.block[b].surface])
    BY <1>3, <1>6, <1>7 DEF Full, Sound, ListedTwice
  <2>2. b \in Allocated(l) /\ m.block[b] = l.block[b] /\ l.block[b] \in Associations
    BY <1>1, <1>3, <1>4 DEF Allocated
  <2> DEFINE t == l.block[b].surface
  <2>3. t \in Surfaces /\ t # s
    BY <1>8, <2>2 DEF OfSurface, Associations
  <2>4. m.surface[t] = l.surface[t]
    BY <1>3, <2>3
  <2> QED
    BY <1>3, <2>1, <2>2, <2>4 DEF ListedTwice, IsSurface, IsSubpicture
<1> QED
  BY <1>3, <1>6, <1>7, <1>8 DEF Sound, m

(* And so may a subpicture.                                                *)
LEMMA ResetSubpicture ==
  ASSUME NEW l \in Sound, NEW p \in Subpictures, NEW v \in {<<>>, NONE}
  PROVE  LET m == [l EXCEPT !.sub[p] = v]
         IN  /\ m \in Sound
             /\ m.block = l.block /\ m.surface = l.surface
             /\ \A o \in Subpictures : m.sub[o] = IF o = p THEN v ELSE l.sub[o]
             /\ l \in Full /\ OfSub(l, p) = {} => m \in Full
<1> DEFINE m == [l EXCEPT !.sub[p] = v]
<1>1. /\ l \in Links /\ l.sub \in [Subpictures -> Seq(Blocks) \cup {NONE}]
      /\ l.block \in [Blocks -> Associations \cup {NONE}]
  BY SoundLists DEF Links
<1>2. v \in Seq(Blocks) \cup {NONE}
  BY EmptyList DEF Distinct
<1>3. /\ m \in Links /\ m.block = l.block /\ m.surface = l.surface
      /\ \A o \in Subpictures : m.sub[o] = IF o = p THEN v ELSE l.sub[o]
  BY <1>1, <1>2 DEF Links
<1> HIDE DEF m
<1>4. /\ \A t \in Surfaces : OfSurface(m, t) = OfSurface(l, t)
      /\ \A o \in Subpictures : OfSub(m, o) = OfSub(l, o)
      /\ Allocated(m) = Allocated(l)
  BY <1>3 DEF OfSurface, OfSub, Allocated
<1>5. SurfacesListOwn(l) /\ SubpicturesListOwn(l)
  BY DEF Sound
<1>6. SubpicturesListOwn(m)
  <2> SUFFICES ASSUME NEW o \in Subpictures, IsSubpicture(m, o)
               PROVE  IsInjective(m.sub[o]) /\ Range(m.sub[o]) \subseteq OfSub(m, o)
    BY DEF SubpicturesListOwn
  <2>1. CASE o = p
    <3>1. m.sub[o] = <<>>
      BY <1>3, <2>1 DEF IsSubpicture
    <3> QED
      BY <3>1, EmptyList DEF Distinct
  <2>2. CASE o # p
    BY <1>3, <1>4, <1>5, <2>2 DEF SubpicturesListOwn, IsSubpicture
  <2> QED
    BY <2>1, <2>2
<1>7. SurfacesListOwn(m)
  BY <1>3, <1>4, <1>5 DEF SurfacesListOwn, IsSurface
<1>8. ASSUME l \in Full, OfSub(l, p) = {}
      PROVE  m \in Full
  <2>1. ListedTwice(l)
    BY <1>8 DEF Full
  <2> SUFFICES ASSUME NEW b \in Allocated(m)
               PROVE  /\ IsSubpicture(m, m.block[b].sub) /\ b \in Range(m.sub[m.block[b].sub])
                      /\ IsSurface(m, m.block[b].surface)
                      /\ b \in Range(m.surface[m.block[b].surface])
    BY <1>3, <1>6, <1>7 DEF Full, Sound, ListedTwice
  <2>2. b \in Allocated(l) /\ m.block[b] = l.block[b] /\ l.block[b] \in Associations
    BY <1>1, <1>3, <1>4 DEF Allocated
  <2> DEFINE o == l.block[b].sub
  <2>3. o \in Subpictures /\ o # p
    BY <1>8, <2>2 DEF OfSub, Associations
  <2>4. m.sub[o] = l.sub[o]
    BY <1>3, <2>3
  <2> QED
    BY <1>3, <2>1, <2>2, <2>4 DEF ListedTwice, IsSurface, IsSubpicture
<1> QED
  BY <1>3, <1>6, <1>7, <1>8 DEF Sound, m

(* What is bounded stays within its bound, also while an image is mapped.  *)
MappedInTime ==
  \A i \in Images : IsImage(i) /\ image[i].mapped => image[i].mtime < MaxTime
ShowsImages == \A p \in Subpictures : IsSubpicture(links, p) => shows[p] \in Images
TypeInv == links \in Sound /\ TypeOK /\ MappedInTime /\ ShowsImages

(* Sound links have the types of the lists.                                *)
LEMMA SoundIsTyped ==
  ASSUME NEW l \in Sound
  PROVE  /\ l.surface \in ListsOf(Surfaces) /\ l.sub \in ListsOf(Subpictures)
         /\ l.block \in [Blocks -> Associations \cup {NONE}]
         /\ \A s \in Surfaces : IsSurface(l, s) => Len(l.surface[s]) <= VDPAU_MAX_SUBPICTURES
<1> DEFINE Fitting == UNION {[1..n -> Blocks] : n \in 0..MaxBlocks}
<1>1. /\ l.surface \in [Surfaces -> Seq(Blocks) \cup {NONE}]
      /\ l.sub \in [Subpictures -> Seq(Blocks) \cup {NONE}]
      /\ l.block \in [Blocks -> Associations \cup {NONE}]
  BY SoundLists DEF Links
<1>2. SurfacesListOwn(l) /\ SubpicturesListOwn(l)
  BY DEF Sound
<1>3. ASSUME NEW s \in Surfaces
      PROVE  l.surface[s] \in Fitting \cup {NONE}
  <2>1. CASE l.surface[s] # NONE
    <3>1. l.surface[s] \in Seq(Blocks) /\ IsInjective(l.surface[s])
      BY <1>1, <1>2, <2>1 DEF SurfacesListOwn, IsSurface
    <3> HIDE DEF Fitting
    <3>2. l.surface[s] \in Fitting
      BY <3>1, ListFits DEF Fitting
    <3> QED
      BY <3>2
  <2> QED
    BY <2>1
<1>4. ASSUME NEW p \in Subpictures
      PROVE  l.sub[p] \in Fitting \cup {NONE}
  <2>1. CASE l.sub[p] # NONE
    <3>1. l.sub[p] \in Seq(Blocks) /\ IsInjective(l.sub[p])
      BY <1>1, <1>2, <2>1 DEF SubpicturesListOwn, IsSubpicture
    <3> HIDE DEF Fitting
    <3>2. l.sub[p] \in Fitting
      BY <3>1, ListFits DEF Fitting
    <3> QED
      BY <3>2
  <2> QED
    BY <2>1
<1>5. l.surface \in ListsOf(Surfaces) /\ l.sub \in ListsOf(Subpictures)
  <2> HIDE DEF Fitting
  <2>1. /\ l.surface \in [Surfaces -> Fitting \cup {NONE}]
        /\ l.sub \in [Subpictures -> Fitting \cup {NONE}]
    BY <1>1, <1>3, <1>4
  <2>2. \A Objects : ListsOf(Objects) = [Objects -> Fitting \cup {NONE}]
    BY Zenon DEF ListsOf, Fitting
  <2> QED
    BY <2>1, <2>2, Zenon
<1> QED
  BY <1>1, <1>2, <1>5 DEF SurfacesListOwn

(* vaAssociateSubpicture, also when it loses a list.                       *)
Associates(p, q, r) == AssociateSubpicture(p, q, r) \/ LoseList(p, q, r)

(* Either way, its loop has gone over some of the surfaces.                *)
LEMMA AssociatesSome ==
  ASSUME NEW p \in Subpictures, NEW q \in SurfaceLists, NEW r \in Rects,
         Associates(p, q, r)
  PROVE  /\ IsAssociable(p, q, r) /\ IsSubpicture(links, p)
         /\ \E n \in 0..Len(q) : links' = Associating(p, q, r)[n]
         /\ UNCHANGED <<image, shows, width, last_commit, bitmap, aborted>>
<1>1. CASE AssociateSubpicture(p, q, r)
  <2>1. IsAssociable(p, q, r) /\ \E n \in 0..Len(q) : links' = Associating(p, q, r)[n]
    BY <1>1 DEF AssociateSubpicture
  <2>2. UNCHANGED <<image, shows, width, last_commit, bitmap, aborted>>
    BY <1>1 DEF AssociateSubpicture, subVars
  <2> QED
    BY <2>1, <2>2 DEF IsAssociable
<1>2. CASE LoseList(p, q, r)
  <2>1. PICK n \in DOMAIN q : links' = Associating(p, q, r)[n - 1]
    BY <1>2 DEF LoseList
  <2>2. n - 1 \in 0..Len(q)
    BY SurfaceListHolds
  <2>3. IsAssociable(p, q, r) /\ UNCHANGED <<image, shows, width, last_commit, bitmap, aborted>>
    BY <1>2 DEF LoseList, subVars
  <2> QED
    BY <2>1, <2>2, <2>3 DEF IsAssociable
<1> QED
  BY <1>1, <1>2 DEF Associates

(* What the loops leave is sound.                                          *)
LEMMA AfterAssociating ==
  ASSUME links \in Sound, NEW p \in Subpictures, NEW q \in SurfaceLists, NEW r \in Rects,
         Associates(p, q, r)
  PROVE  links' \in SoundNow
<1>1. IsSubpicture(links, p)
  BY AssociatesSome
<1>2. PICK n \in 0..Len(q) : links' = Associating(p, q, r)[n]
  BY AssociatesSome
<1> QED
  BY <1>1, <1>2, AssociatingRounds

(* What taking associations apart leaves is sound.                         *)
LEMMA AfterDeassociating ==
  ASSUME links \in Sound, NEW p \in Subpictures, NEW q \in SurfaceLists,
         DeassociateSubpicture(p, q)
  PROVE  links' \in SoundNow
<1>1. PICK n \in 0..Len(q) : links' = Deassociating(p, q)[n]
  BY DEF DeassociateSubpicture
<1> QED
  BY <1>1, DeassociatingRounds

(* What destroying a surface leaves, but for its list.                     *)
LEMMA AfterReleasing ==
  ASSUME links \in Sound, NEW s \in Surfaces, DestroySurface(s)
  PROVE  \E l \in SoundNow : /\ l = Releasing(s, Len(links.surface[s]))[Len(links.surface[s])]
                            /\ links' = [l EXCEPT !.surface[s] = NONE]
<1>1. IsSurface(links, s)
  BY DEF DestroySurface
<1>2. PICK n : n = Len(links.surface[s])
  OBVIOUS
<1>3. n \in Nat
  BY <1>1, <1>2, SoundLists, EntryAt
<1>4. PICK l : l = Releasing(s, n)[n]
  OBVIOUS
<1>5. l \in SoundNow
  BY <1>1, <1>3, <1>4, ReleasingRounds
<1>6. links' = [l EXCEPT !.surface[s] = NONE]
  BY <1>2, <1>4 DEF DestroySurface
<1> QED
  BY <1>2, <1>4, <1>5, <1>6

(* What destroying a subpicture leaves, but for its list.                  *)
LEMMA AfterShedding ==
  ASSUME links \in Sound, NEW p \in Subpictures, DestroySubpicture(p)
  PROVE  \E l \in SoundNow : /\ l = Shedding(p, Len(links.sub[p]))[Len(links.sub[p])]
                            /\ links' = [l EXCEPT !.sub[p] = NONE]
<1>1. IsSubpicture(links, p)
  BY DEF DestroySubpicture
<1>2. PICK n : n = Len(links.sub[p])
  OBVIOUS
<1>3. n \in Nat
  BY <1>1, <1>2, SoundLists, EntryAt
<1>4. PICK l : l = Shedding(p, n)[n]
  OBVIOUS
<1>5. l \in SoundNow
  BY <1>1, <1>3, <1>4, SheddingRounds
<1>6. links' = [l EXCEPT !.sub[p] = NONE]
  BY <1>2, <1>4 DEF DestroySubpicture, Rounds
<1> QED
  BY <1>2, <1>4, <1>5, <1>6

(* Links stay sound, and subpictures name images.                          *)
LEMMA LinksStaySound ==
  ASSUME links \in Sound, ShowsImages, shows \in [Subpictures -> Images \cup {NONE}],
         [Next]_vars
  PROVE  links' \in Sound /\ ShowsImages'
<1> USE DEF ShowsImages, IsSubpicture
<1>1. CASE UNCHANGED <<links, shows>>
  BY <1>1
<1>2. ASSUME NEW s \in Surfaces, CreateSurface(s)
      PROVE  links' \in Sound /\ ShowsImages'
  BY <1>2, ResetSurface DEF CreateSurface, subVars
<1>3. ASSUME NEW s \in Surfaces, DestroySurface(s)
      PROVE  links' \in Sound /\ ShowsImages'
  <2>1. PICK l \in SoundNow : links' = [l EXCEPT !.surface[s] = NONE]
    BY <1>3, AfterReleasing
  <2>2. links' \in Sound /\ links'.sub = l.sub
    BY <2>1, ResetSurface DEF SoundNow
  <2> QED
    BY <1>3, <2>1, <2>2 DEF DestroySurface, subVars, SoundNow, SameObjects
<1>4. ASSUME NEW p \in Subpictures, NEW i \in Images, CreateSubpicture(p, i)
      PROVE  links' \in Sound /\ ShowsImages'
  <2>1. links' = [links EXCEPT !.sub[p] = <<>>] /\ shows' = [shows EXCEPT ![p] = i]
    BY <1>4 DEF CreateSubpicture
  <2>2. /\ links' \in Sound
        /\ \A o \in Subpictures : links'.sub[o] = IF o = p THEN <<>> ELSE links.sub[o]
    BY <2>1, ResetSubpicture
  <2> QED
    BY <2>1, <2>2
<1>5. ASSUME NEW p \in Subpictures, DestroySubpicture(p)
      PROVE  links' \in Sound /\ ShowsImages'
  <2>1. PICK l \in SoundNow : links' = [l EXCEPT !.sub[p] = NONE]
    BY <1>5, AfterShedding
  <2>2. links' \in Sound /\ \A o \in Subpictures : links'.sub[o] = IF o = p THEN NONE ELSE l.sub[o]
    BY <2>1, ResetSubpicture DEF SoundNow
  <2>3. shows' = [shows EXCEPT ![p] = NONE]
    BY <1>5 DEF DestroySubpicture
  <2> QED
    BY <2>1, <2>2, <2>3 DEF SoundNow, SameObjects
<1>6. ASSUME links' \in SoundNow, UNCHANGED shows
      PROVE  links' \in Sound /\ ShowsImages'
  BY <1>6 DEF SoundNow, SameObjects
<1>7. ASSUME NEW p \in Subpictures, NEW q \in SurfaceLists,
             DeassociateSubpicture(p, q) \/ \E r \in Rects : Associates(p, q, r)
      PROVE  links' \in Sound /\ ShowsImages'
  <2>1. UNCHANGED shows
    BY <1>7, AssociatesSome DEF DeassociateSubpicture, subVars
  <2>2. links' \in SoundNow
    BY <1>7, AfterAssociating, AfterDeassociating
  <2> QED
    BY <1>6, <2>1, <2>2
<1>8. ASSUME NEW s \in Surfaces, RenderSubpictures(s)
      PROVE  UNCHANGED <<links, shows>>
  BY <1>8 DEF RenderSubpictures
<1>9. ASSUME NEW p \in Subpictures, NEW i \in Images, SetSubpictureImage(p, i)
      PROVE  links' \in Sound /\ ShowsImages'
  BY <1>9 DEF SetSubpictureImage
<1>10. ASSUME NEW i \in Images,
              \/ DestroyImage(i) \/ MapBuffer(i) \/ UnmapBuffer(i)
              \/ \E w \in Widths : CreateImage(i, w)
              \/ \E d \in Pixels : Write(i, d) \/ \E s \in Surfaces : GetImage(s, i, d)
       PROVE  UNCHANGED <<links, shows>>
  BY <1>10 DEF DestroyImage, MapBuffer, UnmapBuffer, CreateImage, Write, GetImage, subVars
<1>11. CASE UNCHANGED vars
  BY <1>1, <1>11 DEF vars, subVars
<1> QED
  BY <1>1, <1>2, <1>3, <1>4, <1>5, <1>7, <1>8, <1>9, <1>10, <1>11 DEF Next, Associates

(* What a surface's list names while it is rendered.                       *)
LEMMA RenderedAreSubpictures ==
  ASSUME links \in Sound, NEW s \in Surfaces, IsSurface(links, s),
         NEW k \in 1..Len(links.surface[s])
  PROVE  links.block[links.surface[s][k]].sub \in Subpictures
BY SoundLists, EntryAt DEF Associations

(* Every step keeps the types.                                             *)
LEMMA TypeStep ==
  ASSUME TypeInv, [Next]_vars
  PROVE  TypeInv'
<1> DEFINE Rest == /\ image \in [Images -> ImageObjects \cup {NONE}]
                   /\ shows \in [Subpictures -> Images \cup {NONE}]
                   /\ width \in [Subpictures -> Widths \cup {NONE}]
                   /\ last_commit \in [Subpictures -> 0..MaxTime]
                   /\ bitmap \in [Subpictures -> [Parts -> Pixels]]
                   /\ aborted \in BOOLEAN
                   /\ lost \in [surface : SUBSET Surfaces, sub : SUBSET Subpictures]
                   /\ MappedInTime
<1>1. links \in Sound /\ Rest
  BY DEF TypeInv, TypeOK
<1>2. links' \in Sound /\ ShowsImages'
  BY <1>1, LinksStaySound DEF TypeInv
<1>3. ASSUME UNCHANGED vars
      PROVE  Rest'
  <2>1. UNCHANGED <<lost, image, shows, width, last_commit, bitmap, aborted>>
    BY <1>3 DEF vars, subVars
  <2> QED
    BY <1>1, <2>1 DEF MappedInTime, IsImage
<1>4. ASSUME NEW s \in Surfaces, CreateSurface(s) \/ DestroySurface(s)
      PROVE  Rest'
  BY <1>1, <1>4 DEF CreateSurface, DestroySurface, subVars, MappedInTime, IsImage
<1>5. ASSUME NEW s \in Surfaces, RenderSubpictures(s)
      PROVE  Rest'
  <2> DEFINE q == links.surface[s]
             sub(k) == links.block[q[k]].sub
  <2>1. PICK n \in 0..Len(q) :
          /\ \A k \in 1..n : IsImage(shows[sub(k)]) /\ IsSubpicture(links, sub(k))
          /\ aborted' \in BOOLEAN
          /\ Commit({p \in {sub(k) : k \in 1..n} : ~IsCommitted(p)})
    BY <1>5 DEF RenderSubpictures
  <2>2. IsSurface(links, s) /\ UNCHANGED <<lost, links, image, shows, width>>
    BY <1>5 DEF RenderSubpictures
  <2>3. Len(q) \in Nat
    BY <1>1, <2>2, SoundLists, EntryAt
  <2> DEFINE D == {p \in {sub(k) : k \in 1..n} : ~IsCommitted(p)}
  <2>4. ASSUME NEW p \in D
        PROVE  p \in Subpictures /\ image[shows[p]] \in ImageObjects
    <3>1. PICK k \in 1..n : p = sub(k)
      OBVIOUS
    <3>2. k \in 1..Len(q)
      BY <2>3
    <3>3. p \in Subpictures
      BY <1>1, <2>2, <3>1, <3>2, RenderedAreSubpictures
    <3>4. image[shows[p]] # NONE /\ IsSubpicture(links, p)
      BY <2>1, <3>1 DEF IsImage
    <3>5. shows[p] \in Images
      BY <3>3, <3>4 DEF TypeInv, ShowsImages
    <3> QED
      BY <1>1, <3>3, <3>4, <3>5
  <2> HIDE DEF D
  <2>5. /\ last_commit' = [p \in Subpictures |->
             IF p \in D THEN image[shows[p]].mtime ELSE last_commit[p]]
        /\ bitmap' = [p \in Subpictures |-> [x \in Parts |->
             IF p \in D /\ x \in Covered(p) THEN image[shows[p]].data ELSE bitmap[p][x]]]
    BY <2>1 DEF Commit, D
  <2>6. \A p \in D : image[shows[p]].mtime \in 0..MaxTime /\ image[shows[p]].data \in Pixels
    BY <2>4 DEF ImageObjects
  <2>7. last_commit' \in [Subpictures -> 0..MaxTime]
    BY <1>1, <2>5, <2>6
  <2>8. bitmap' \in [Subpictures -> [Parts -> Pixels]]
    BY <1>1, <2>5, <2>6
  <2> QED
    BY <1>1, <2>1, <2>2, <2>7, <2>8 DEF MappedInTime, IsImage
<1>6. ASSUME NEW p \in Subpictures, NEW q \in SurfaceLists,
             DeassociateSubpicture(p, q) \/ \E r \in Rects : Associates(p, q, r)
      PROVE  Rest'
  <2>1. CASE DeassociateSubpicture(p, q)
    BY <1>1, <2>1 DEF DeassociateSubpicture, subVars, MappedInTime, IsImage
  <2>2. ASSUME NEW r \in Rects, Associates(p, q, r)
        PROVE  Rest'
    <3>1. lost' \in [surface : SUBSET Surfaces, sub : SUBSET Subpictures]
      <4>1. CASE AssociateSubpicture(p, q, r)
        BY <1>1, <4>1 DEF AssociateSubpicture
      <4>2. CASE LoseList(p, q, r)
        <5>1. PICK n \in DOMAIN q :
                \/ lost' = [surface |-> {q[n]}, sub |-> {}]
                \/ lost' = [surface |-> {}, sub |-> {p}]
                \/ lost' = [surface |-> {q[n]}, sub |-> {p}]
          BY <4>2 DEF LoseList
        <5>2. q[n] \in Surfaces
          BY SurfaceListHolds
        <5> QED
          BY <5>1, <5>2
      <4> QED
        BY <2>2, <4>1, <4>2 DEF Associates
    <3>2. UNCHANGED <<image, shows, width, last_commit, bitmap, aborted>>
      BY <2>2, AssociatesSome
    <3> QED
      BY <1>1, <3>1, <3>2 DEF MappedInTime, IsImage
  <2> QED
    BY <1>6, <2>1, <2>2
<1>7. ASSUME NEW p \in Subpictures, DestroySubpicture(p)
      PROVE  Rest'
  BY <1>1, <1>7, Constants DEF DestroySubpicture, MappedInTime, IsImage
<1>8. ASSUME NEW p \in Subpictures, NEW i \in Images, CreateSubpicture(p, i)
      PROVE  Rest'
  <2>1. image[i].width \in Widths
    BY <1>1, <1>8 DEF CreateSubpicture, IsImage, ImageObjects
  <2> QED
    BY <1>1, <1>8, <2>1, Constants DEF CreateSubpicture, MappedInTime, IsImage
<1>9. ASSUME NEW p \in Subpictures, NEW i \in Images, SetSubpictureImage(p, i)
      PROVE  Rest'
  BY <1>1, <1>9 DEF SetSubpictureImage, MappedInTime, IsImage
<1>10. ASSUME NEW i \in Images,
              \/ DestroyImage(i) \/ MapBuffer(i) \/ UnmapBuffer(i)
              \/ \E w \in Widths : CreateImage(i, w)
              \/ \E d \in Pixels : Write(i, d) \/ \E s \in Surfaces : GetImage(s, i, d)
       PROVE  Rest'
  <2>1. UNCHANGED <<lost, shows, width, last_commit, bitmap, aborted>>
    BY <1>10 DEF DestroyImage, MapBuffer, UnmapBuffer, CreateImage, Write, GetImage, subVars
  <2>3. ASSUME IsImage(i)
        PROVE  image[i] \in ImageObjects
    BY <1>1, <2>3 DEF IsImage
  <2>4. ASSUME DestroyImage(i)
        PROVE  image' \in [Images -> ImageObjects \cup {NONE}] /\ MappedInTime'
    <3>1. image' = [image EXCEPT ![i] = NONE] /\ NONE \in ImageObjects \cup {NONE}
      BY <2>4 DEF DestroyImage
    <3> QED
      BY <1>1, <3>1 DEF MappedInTime, IsImage
  <2>5. ASSUME MapBuffer(i)
        PROVE  image' \in [Images -> ImageObjects \cup {NONE}] /\ MappedInTime'
    <3> DEFINE o == image[i]
               v == [width |-> o.width, mapped |-> TRUE, mtime |-> o.mtime + 1, data |-> o.data]
    <3>1. o \in ImageObjects /\ o.mtime + 2 <= MaxTime
      BY <2>3, <2>5 DEF MapBuffer
    <3>2. image' = [image EXCEPT ![i] = v]
      BY <1>1, <2>5, <3>1 DEF MapBuffer, ImageObjects
    <3> HIDE DEF o
    <3>3. v \in ImageObjects /\ v.mtime < MaxTime
      BY <3>1, Constants DEF ImageObjects
    <3> HIDE DEF v
    <3> QED
      BY <1>1, <3>2, <3>3 DEF MappedInTime, IsImage
  <2>6. ASSUME UnmapBuffer(i)
        PROVE  image' \in [Images -> ImageObjects \cup {NONE}] /\ MappedInTime'
    <3> DEFINE o == image[i]
               v == [width |-> o.width, mapped |-> FALSE, mtime |-> o.mtime + 1, data |-> o.data]
    <3>1. o \in ImageObjects /\ o.mtime < MaxTime
      BY <1>1, <2>3, <2>6 DEF UnmapBuffer, MappedInTime
    <3>2. image' = [image EXCEPT ![i] = v]
      BY <1>1, <2>6, <3>1 DEF UnmapBuffer, ImageObjects, TimeUnmapped
    <3> HIDE DEF o
    <3>3. v \in ImageObjects /\ ~v.mapped
      BY <3>1, Constants DEF ImageObjects
    <3> HIDE DEF v
    <3> QED
      BY <1>1, <3>2, <3>3 DEF MappedInTime, IsImage
  <2>7. ASSUME NEW w \in Widths, CreateImage(i, w)
        PROVE  image' \in [Images -> ImageObjects \cup {NONE}] /\ MappedInTime'
    <3> DEFINE v == [width |-> w, mapped |-> FALSE, mtime |-> 0, data |-> BLANK]
    <3>1. v \in ImageObjects /\ ~v.mapped
      BY Constants DEF ImageObjects
    <3>2. image' = [image EXCEPT ![i] = v]
      BY <2>7 DEF CreateImage
    <3> HIDE DEF v
    <3> QED
      BY <1>1, <3>1, <3>2 DEF MappedInTime, IsImage
  <2>8. ASSUME NEW d \in Pixels, Write(i, d) \/ \E s \in Surfaces : GetImage(s, i, d)
        PROVE  image' \in [Images -> ImageObjects \cup {NONE}] /\ MappedInTime'
    <3> DEFINE v == [image[i] EXCEPT !.data = d]
    <3>1. IsImage(i) /\ image' = [image EXCEPT ![i] = v]
      BY <1>1, <2>8 DEF Write, GetImage
    <3>2. v \in ImageObjects /\ (v.mapped => v.mtime < MaxTime)
      BY <1>1, <2>3, <3>1 DEF ImageObjects, MappedInTime
    <3> HIDE DEF v
    <3> QED
      BY <1>1, <3>1, <3>2 DEF MappedInTime, IsImage
  <2> QED
    BY <1>1, <1>10, <2>1, <2>4, <2>5, <2>6, <2>7, <2>8
<1> HIDE DEF Rest
<1>11. Rest'
  BY <1>3, <1>4, <1>5, <1>6, <1>7, <1>8, <1>9, <1>10 DEF Next, Associates
<1> QED
  BY <1>2, <1>11, SoundIsTyped DEF TypeInv, TypeOK, Rest

(* The types hold at the start.                                            *)
LEMMA TypeInit ==
  ASSUME Init
  PROVE  TypeInv
<1>1. /\ links.surface = [s \in Surfaces |-> NONE] /\ links.sub = [p \in Subpictures |-> NONE]
      /\ links.block = [a \in Blocks |-> NONE]
  BY DEF Init
<1>2. links \in Links
  BY DEF Init, Links
<1>3. links \in Sound
  BY <1>1, <1>2 DEF Sound, SurfacesListOwn, SubpicturesListOwn, IsSurface, IsSubpicture
<1>4. \A i \in Images : ~IsImage(i)
  BY DEF Init, IsImage
<1>5. /\ image \in [Images -> ImageObjects \cup {NONE}]
      /\ shows \in [Subpictures -> Images \cup {NONE}]
      /\ width \in [Subpictures -> Widths \cup {NONE}]
      /\ last_commit \in [Subpictures -> 0..MaxTime]
      /\ bitmap \in [Subpictures -> [Parts -> Pixels]]
      /\ aborted \in BOOLEAN
      /\ lost \in [surface : SUBSET Surfaces, sub : SUBSET Subpictures]
  <2>1. image \in [Images -> ImageObjects \cup {NONE}]
    BY DEF Init
  <2>2. last_commit \in [Subpictures -> 0..MaxTime]
    BY Constants DEF Init
  <2>3. bitmap \in [Subpictures -> [Parts -> Pixels]]
    BY Constants DEF Init
  <2> QED
    BY <2>1, <2>2, <2>3 DEF Init, NothingLost
<1>6. ShowsImages
  BY <1>1 DEF ShowsImages, IsSubpicture
<1> QED
  BY <1>3, <1>4, <1>5, <1>6, SoundIsTyped DEF TypeInv, TypeOK, MappedInTime

(***************************************************************************)
(* Every variable keeps its type whatever the application does: lists of   *)
(* associations name blocks, without repetitions and so no more than there *)
(* are, and a surface has VDPAU_MAX_SUBPICTURES associations at most.      *)
(***************************************************************************)
THEOREM TypeInvariant == Spec => []TypeInv
<1>1. Init => TypeInv
  BY TypeInit
<1>2. TypeInv /\ [Next]_vars => TypeInv'
  BY TypeStep
<1> QED
  BY <1>1, <1>2, PTL DEF Spec

(* So types are always correct, whatever the application does.             *)
THEOREM TypeCorrect == Spec => []TypeOK
<1>1. TypeInv => TypeOK
  BY DEF TypeInv
<1> QED
  BY <1>1, TypeInvariant, PTL

-----------------------------------------------------------------------------
(***************************************************************************)
(* Associations are listed at both ends, if no pair is associated twice.   *)
(***************************************************************************)
(* Lists of full links hold all associations of their object.              *)
LEMMA FullLists ==
  ASSUME NEW l \in Full
  PROVE  /\ l \in Sound
         /\ \A s \in Surfaces : IsSurface(l, s) => Range(l.surface[s]) = OfSurface(l, s)
         /\ \A p \in Subpictures : IsSubpicture(l, p) => Range(l.sub[p]) = OfSub(l, p)
         /\ \A s \in Surfaces : ~IsSurface(l, s) => OfSurface(l, s) = {}
         /\ \A p \in Subpictures : ~IsSubpicture(l, p) => OfSub(l, p) = {}
         /\ \A p \in Subpictures, s \in Surfaces :
              IsSurface(l, s) => (Pairs(l, p, s) <=> OfPair(l, p, s) # {})
<1>1. l \in Sound /\ ListedTwice(l) /\ SurfacesListOwn(l) /\ SubpicturesListOwn(l)
  BY DEF Full, Sound
<1>2. \A s \in Surfaces : IsSurface(l, s) => Range(l.surface[s]) = OfSurface(l, s)
  BY <1>1 DEF ListedTwice, SurfacesListOwn, OfSurface
<1>3. \A p \in Subpictures : IsSubpicture(l, p) => Range(l.sub[p]) = OfSub(l, p)
  BY <1>1 DEF ListedTwice, SubpicturesListOwn, OfSub
<1>4. \A s \in Surfaces : ~IsSurface(l, s) => OfSurface(l, s) = {}
  BY <1>1 DEF ListedTwice, OfSurface
<1>5. \A p \in Subpictures : ~IsSubpicture(l, p) => OfSub(l, p) = {}
  BY <1>1 DEF ListedTwice, OfSub
<1>6. ASSUME NEW p \in Subpictures, NEW s \in Surfaces, IsSurface(l, s)
      PROVE  Pairs(l, p, s) <=> OfPair(l, p, s) # {}
  <2>1. OfPair(l, p, s) = OfSurface(l, s) \cap OfSub(l, p)
    BY <1>2, <1>6 DEF OfPair
  <2>2. CASE IsSubpicture(l, p)
    BY <1>3, <2>1, <2>2 DEF Pairs
  <2>3. CASE ~IsSubpicture(l, p)
    BY <1>5, <2>1, <2>3 DEF Pairs
  <2> QED
    BY <2>2, <2>3
<1> QED
  BY <1>1, <1>2, <1>3, <1>4, <1>5, <1>6

(* Dissociating keeps links full, and frees none of another surface.       *)
LEMMA DeassociatedFull ==
  ASSUME NEW l \in Full, NEW p \in Subpictures, NEW s \in Surfaces, IsSurface(l, s)
  PROVE  /\ Deassociated(l, p, s) \in Full
         /\ \A t \in Surfaces : t # s /\ Pairs(l, p, t) => Pairs(Deassociated(l, p, s), p, t)
<1>1. l \in Sound
  BY DEF Full
<1>2. CASE ~Pairs(l, p, s)
  BY <1>1, <1>2, DeassociatedFrees
<1>3. CASE Pairs(l, p, s)
  <2> DEFINE m == Deassociated(l, p, s)
  <2>1. IsSubpicture(l, p)
    BY <1>3 DEF Pairs
  <2>2. PICK a \in Blocks : Frees(l, m, p, s, a)
    BY <1>1, <1>3, DeassociatedFrees
  <2> HIDE DEF m
  <2>3. m \in Full /\ SameObjects(l, m)
    BY <1>1, <2>1, <2>2, FreesKeepsFull, FreesKeepsSound
  <2>4. ASSUME NEW t \in Surfaces, t # s, Pairs(l, p, t)
        PROVE  Pairs(m, p, t)
    <3>1. PICK b \in Range(l.sub[p]) : b \in OfSurface(l, t)
      BY <2>4 DEF Pairs
    <3>2. b # a /\ b \in Blocks /\ l.block[b] # NONE /\ l.block[b].surface = t
      BY <2>2, <2>4, <3>1 DEF Frees, OfSurface, Allocated
    <3>3. m.block[b] = l.block[b] /\ b \in Range(m.sub[p])
      <4>1. l.block \in [Blocks -> Associations \cup {NONE}]
        BY <1>1, SoundLists DEF Links
      <4> QED
        BY <2>2, <3>1, <3>2, <4>1 DEF Frees, Distinct
    <3> QED
      BY <2>1, <2>3, <3>2, <3>3 DEF Pairs, OfSurface, Allocated, SameObjects
  <2> QED
    BY <2>3, <2>4 DEF m
<1> QED
  BY <1>2, <1>3

(* Associating a new pair keeps links full and makes no other pair.        *)
LEMMA AssociatedFull ==
  ASSUME NEW l \in Full, NEW p \in Subpictures, NEW s \in Surfaces, NEW r \in Rects,
         IsSubpicture(l, p), ~Pairs(l, p, s)
  PROVE  /\ AssociateOne(l, p, s, r) \in Full
         /\ \A t \in Surfaces : t # s /\ ~Pairs(l, p, t) => ~Pairs(AssociateOne(l, p, s, r), p, t)
<1>1. CASE ~CanAssociate(l, p, s)
  BY <1>1 DEF AssociateOne
<1>2. CASE CanAssociate(l, p, s)
  <2> DEFINE m == Associated(l, p, s, r)
  <2>1. IsSurface(l, s) /\ l \in Sound
    BY <1>2, FullLists DEF CanAssociate
  <2>2. PICK a \in Blocks : Adds(l, m, p, s, r, a)
    BY <1>2, <2>1, AssociatedAdds
  <2>3. AssociateOne(l, p, s, r) = m
    BY <1>2 DEF AssociateOne
  <2> HIDE DEF m
  <2>4. OfPair(l, p, s) = {}
    BY <2>1, FullLists
  <2>5. m \in Full
    BY <2>1, <2>2, <2>4, AddsKeepsFull
  <2>6. ASSUME NEW t \in Surfaces, t # s, Pairs(m, p, t)
        PROVE  Pairs(l, p, t)
    <3>1. PICK b \in Range(m.sub[p]) : b \in OfSurface(m, t)
      BY <2>6 DEF Pairs
    <3>2. l.block \in [Blocks -> Associations \cup {NONE}] /\ b \in Blocks
      BY <2>1, <3>1, SoundLists DEF Links, OfSurface, Allocated
    <3>3. m.block[b] = IF b = a THEN [sub |-> p, surface |-> s, src_rect |-> r] ELSE l.block[b]
      BY <2>2, <3>2 DEF Adds
    <3>4. b # a
      <4> SUFFICES ASSUME b = a
                   PROVE  FALSE
        OBVIOUS
      <4>1. m.block[b].surface = s
        BY <3>3
      <4> QED
        BY <2>6, <3>1, <4>1 DEF OfSurface
    <3>5. b \in Range(l.sub[p]) /\ m.block[b] = l.block[b]
      BY <2>2, <3>1, <3>3, <3>4 DEF Adds, Distinct
    <3> QED
      BY <3>1, <3>2, <3>5 DEF Pairs, OfSurface, Allocated
  <2> QED
    BY <2>3, <2>5, <2>6
<1> QED
  BY <1>1, <1>2

(* Releasing an association of a surface that has one succeeds.            *)
LEMMA ReleaseFull ==
  ASSUME NEW l \in Full, NEW s \in Surfaces, IsSurface(l, s), l.surface[s] # <<>>
  PROVE  /\ CanRelease(l, s) /\ ReleaseOne(l, s) \in Full
         /\ IsSurface(ReleaseOne(l, s), s)
         /\ Len(ReleaseOne(l, s).surface[s]) = Len(l.surface[s]) - 1
<1> DEFINE a == l.surface[s][1]
           p == FirstOwner(l, s)
<1>1. l \in Sound /\ ListedTwice(l)
  BY DEF Full
<1>2. a \in Range(l.surface[s])
  BY <1>1, SoundLists, EntryAt
<1>3. a \in Blocks /\ l.block[a] # NONE /\ l.block[a] \in Associations /\ l.block[a].surface = s
  BY <1>1, <1>2, SoundLists
<1>4. /\ p \in Subpictures /\ IsSubpicture(l, p) /\ a \in Range(l.sub[p])
  BY <1>1, <1>3 DEF ListedTwice, Allocated, FirstOwner, Associations
<1>5. l.sub[p] # <<>>
  BY <1>1, <1>4, SoundLists, EntryAt
<1>6. CanRelease(l, s)
  BY <1>4, <1>5 DEF CanRelease
<1>7. Pairs(l, p, s)
  BY <1>3, <1>4 DEF Pairs, OfSurface, Allocated
<1> DEFINE m == Deassociated(l, p, s)
<1>8. ReleaseOne(l, s) = m
  BY <1>6 DEF ReleaseOne
<1> HIDE DEF p, a
<1>9. PICK b \in Blocks : Frees(l, m, p, s, b)
  BY <1>1, <1>4, <1>7, DeassociatedFrees
<1>10. m \in Full
  BY <1>4, DeassociatedFull
<1> HIDE DEF m
<1>11. SameObjects(l, m)
  BY <1>1, <1>4, <1>9, FreesKeepsSound
<1>12. b \in OfSurface(l, s)
  BY <1>9 DEF Frees, OfSurface, Allocated
<1>13. b \in Range(l.surface[s])
  BY <1>12, FullLists
<1>14. Len(m.surface[s]) = Len(l.surface[s]) - 1
  BY <1>9, <1>13 DEF Frees
<1> QED
  BY <1>6, <1>8, <1>10, <1>11, <1>14 DEF SameObjects

(* And so does a subpicture's first.                                       *)
LEMMA ShedFull ==
  ASSUME NEW l \in Full, NEW p \in Subpictures, IsSubpicture(l, p), l.sub[p] # <<>>
  PROVE  /\ ShedOne(l, p) \in Full /\ IsSubpicture(ShedOne(l, p), p)
         /\ Len(ShedOne(l, p).sub[p]) = Len(l.sub[p]) - 1
<1> DEFINE a == l.sub[p][1]
           s == FirstSurface(l, p)
<1>1. l \in Sound /\ ListedTwice(l)
  BY DEF Full
<1>2. a \in Range(l.sub[p])
  BY <1>1, SoundLists, EntryAt
<1>3. a \in Blocks /\ l.block[a] # NONE /\ l.block[a] \in Associations
  BY <1>1, <1>2, SoundLists
<1>4. s \in Surfaces /\ IsSurface(l, s) /\ a \in OfSurface(l, s)
  BY <1>1, <1>3 DEF ListedTwice, Allocated, FirstSurface, Associations, OfSurface
<1>5. Pairs(l, p, s)
  BY <1>2, <1>4 DEF Pairs
<1> DEFINE m == Deassociated(l, p, s)
<1>6. ShedOne(l, p) = m
  BY <1>4 DEF ShedOne
<1> HIDE DEF s, a
<1>7. PICK b \in Blocks : Frees(l, m, p, s, b)
  BY <1>1, <1>4, <1>5, DeassociatedFrees
<1>8. m \in Full
  BY <1>4, DeassociatedFull
<1> HIDE DEF m
<1>9. SameObjects(l, m)
  BY <1>1, <1>4, <1>7, FreesKeepsSound
<1>10. Len(m.sub[p]) = Len(l.sub[p]) - 1
  BY <1>7 DEF Frees
<1> QED
  BY <1>6, <1>8, <1>9, <1>10 DEF SameObjects

(* vaDestroySurfaces takes off every association, one in each round.       *)
LEMMA ReleasingFull ==
  ASSUME links \in Full, NEW s \in Surfaces, IsSurface(links, s),
         NEW n \in Nat, n = Len(links.surface[s])
  PROVE  LET f == Releasing(s, n)
         IN  /\ \A k \in 0..(n - 1) : CanRelease(f[k], s)
             /\ f[n] \in Full /\ OfSurface(f[n], s) = {}
<1> DEFINE f == Releasing(s, n)
           S == {k \in 0..n : f[k] \in Full /\ IsSurface(f[k], s) /\ Len(f[k].surface[s]) = n - k}
<1>1. links \in Sound
  BY DEF Full
<1>2. f[0] = links /\ \A k \in 1..n : f[k] = ReleaseOne(f[k - 1], s)
  BY <1>1, ReleasingRounds
<1> HIDE DEF f
<1>3. \A k \in 0..n : k \in S /\ k < n => f[k].surface[s] # <<>>
  BY EmptyList
<1>4. \A k \in 0..n : k \in S /\ k < n =>
        /\ CanRelease(f[k], s) /\ ReleaseOne(f[k], s) \in Full
        /\ IsSurface(ReleaseOne(f[k], s), s)
        /\ Len(ReleaseOne(f[k], s).surface[s]) = n - k - 1
  BY <1>3, ReleaseFull
<1>5. 0 \in S
  BY <1>2
<1>6. \A k \in 1..n : k - 1 \in S => k \in S
  <2> SUFFICES ASSUME NEW k \in 1..n, k - 1 \in S
               PROVE  k \in S
    OBVIOUS
  <2>1. k - 1 \in 0..n /\ k - 1 < n /\ n - (k - 1) - 1 = n - k /\ k \in 0..n
    OBVIOUS
  <2>2. /\ ReleaseOne(f[k - 1], s) \in Full /\ IsSurface(ReleaseOne(f[k - 1], s), s)
        /\ Len(ReleaseOne(f[k - 1], s).surface[s]) = n - k
    BY <1>4, <2>1
  <2> QED
    BY <1>2, <2>1, <2>2
<1>7. 0..n \subseteq S
  <2> HIDE DEF S
  <2> QED
    BY <1>5, <1>6, AllRounds
<1>8. \A k \in 0..(n - 1) : CanRelease(f[k], s)
  BY <1>4, <1>7
<1>9. f[n] \in Full /\ IsSurface(f[n], s) /\ Len(f[n].surface[s]) = 0
  <2>1. n \in S
    <3> HIDE DEF S
    <3>1. n \in 0..n
      OBVIOUS
    <3> QED
      BY <1>7, <3>1
  <2> QED
    BY <2>1
<1>10. PICK l : l = f[n]
  OBVIOUS
<1>11. l.surface[s] \in Seq(Blocks) /\ Range(l.surface[s]) = OfSurface(l, s)
  BY <1>9, <1>10, FullLists, SoundLists
<1>12. OfSurface(l, s) = {}
  BY <1>9, <1>10, <1>11, EntryAt
<1> QED
  BY <1>8, <1>9, <1>10, <1>12 DEF f

(* destroy_subpicture frees every association, one in each round.          *)
LEMMA SheddingFull ==
  ASSUME links \in Full, NEW p \in Subpictures, IsSubpicture(links, p),
         NEW n \in Nat, n = Len(links.sub[p])
  PROVE  LET f == Shedding(p, n)
         IN  f[n] \in Full /\ OfSub(f[n], p) = {}
<1> DEFINE f == Shedding(p, n)
           S == {k \in 0..n : f[k] \in Full /\ IsSubpicture(f[k], p) /\ Len(f[k].sub[p]) = n - k}
<1>1. links \in Sound
  BY DEF Full
<1>2. f[0] = links /\ \A k \in 1..n : f[k] = ShedOne(f[k - 1], p)
  BY <1>1, SheddingRounds
<1> HIDE DEF f
<1>3. \A k \in 0..n : k \in S /\ k < n => f[k].sub[p] # <<>>
  BY EmptyList
<1>4. \A k \in 0..n : k \in S /\ k < n =>
        /\ ShedOne(f[k], p) \in Full /\ IsSubpicture(ShedOne(f[k], p), p)
        /\ Len(ShedOne(f[k], p).sub[p]) = n - k - 1
  BY <1>3, ShedFull
<1>5. 0 \in S
  BY <1>2
<1>6. \A k \in 1..n : k - 1 \in S => k \in S
  <2> SUFFICES ASSUME NEW k \in 1..n, k - 1 \in S
               PROVE  k \in S
    OBVIOUS
  <2>1. k - 1 \in 0..n /\ k - 1 < n /\ n - (k - 1) - 1 = n - k /\ k \in 0..n
    OBVIOUS
  <2>2. /\ ShedOne(f[k - 1], p) \in Full /\ IsSubpicture(ShedOne(f[k - 1], p), p)
        /\ Len(ShedOne(f[k - 1], p).sub[p]) = n - k
    BY <1>4, <2>1
  <2> QED
    BY <1>2, <2>1, <2>2
<1>7. 0..n \subseteq S
  <2> HIDE DEF S
  <2> QED
    BY <1>5, <1>6, AllRounds
<1>8. f[n] \in Full /\ IsSubpicture(f[n], p) /\ Len(f[n].sub[p]) = 0
  <2>1. n \in S
    <3> HIDE DEF S
    <3>1. n \in 0..n
      OBVIOUS
    <3> QED
      BY <1>7, <3>1
  <2> QED
    BY <2>1
<1>9. PICK l : l = f[n]
  OBVIOUS
<1>10. l.sub[p] \in Seq(Blocks) /\ Range(l.sub[p]) = OfSub(l, p)
  BY <1>8, <1>9, FullLists, SoundLists
<1>11. OfSub(l, p) = {}
  BY <1>8, <1>9, <1>10, EntryAt
<1> QED
  BY <1>8, <1>9, <1>11 DEF f

(* associate_subpicture makes pairs that are new.                          *)
LEMMA AssociatingFull ==
  ASSUME links \in Full, NEW p \in Subpictures, IsSubpicture(links, p),
         NEW q \in SurfaceLists, NEW r \in Rects,
         \A k \in DOMAIN q : ~Pairs(links, p, q[k]) /\ \A j \in DOMAIN q : q[j] = q[k] => j = k
  PROVE  \A k \in 0..Len(q) : Associating(p, q, r)[k] \in Full
<1> DEFINE f == Associating(p, q, r)
           n == Len(q)
           S == {k \in 0..n : /\ f[k] \in Full /\ IsSubpicture(f[k], p)
                              /\ \A j \in (k + 1)..n : ~Pairs(f[k], p, q[j])}
<1>1. links \in Sound
  BY DEF Full
<1>2. /\ f[0] = links /\ \A k \in 1..n : f[k] = AssociateOne(f[k - 1], p, q[k], r)
      /\ \A k \in 0..n : f[k] \in SoundNow
  BY <1>1, AssociatingRounds
<1> HIDE DEF f
<1>3. n \in Nat /\ DOMAIN q = 1..n /\ \A k \in 1..n : q[k] \in Surfaces
  BY SurfaceListHolds
<1> HIDE DEF n
<1>4. 0 \in S
  BY <1>2, <1>3
<1>5. \A k \in 1..n : k - 1 \in S => k \in S
  <2> SUFFICES ASSUME NEW k \in 1..n, k - 1 \in S
               PROVE  k \in S
    OBVIOUS
  <2>1. PICK l : l = f[k - 1]
    OBVIOUS
  <2>2. k \in 0..n /\ k - 1 + 1 = k /\ k \in Nat
    BY <1>3
  <2>3. l \in Full /\ IsSubpicture(l, p) /\ \A j \in k..n : ~Pairs(l, p, q[j])
    BY <2>1, <2>2
  <2>4. ~Pairs(l, p, q[k]) /\ q[k] \in Surfaces
    BY <1>3, <2>2, <2>3
  <2>5. f[k] = AssociateOne(l, p, q[k], r)
    BY <1>2, <2>1
  <2>6. /\ f[k] \in Full
        /\ \A t \in Surfaces : t # q[k] /\ ~Pairs(l, p, t) => ~Pairs(f[k], p, t)
    BY <2>3, <2>4, <2>5, AssociatedFull
  <2>7. IsSubpicture(f[k], p)
    BY <1>2, <2>2 DEF SoundNow, SameObjects
  <2>8. ASSUME NEW j \in (k + 1)..n
        PROVE  ~Pairs(f[k], p, q[j])
    <3>1. j \in 1..n /\ j # k /\ j \in k..n
      BY <1>3, <2>2
    <3> QED
      BY <1>3, <2>3, <2>6, <3>1
  <2> QED
    BY <2>2, <2>6, <2>7, <2>8
<1>6. 0..n \subseteq S
  <2> HIDE DEF S
  <2> QED
    BY <1>3, <1>4, <1>5, AllRounds
<1> QED
  BY <1>6 DEF f, n

(* deassociate_subpicture frees what is listed at both ends, and leaves    *)
(* pairs it has not come to.                                               *)
LEMMA DeassociatingFull ==
  ASSUME links \in Full, NEW p \in Subpictures, NEW q \in SurfaceLists
  PROVE  LET f == Deassociating(p, q)
         IN  /\ \A k \in 0..Len(q) : f[k] \in Full
             /\ (\A k \in DOMAIN q : /\ Pairs(links, p, q[k])
                                     /\ \A j \in DOMAIN q : q[j] = q[k] => j = k) =>
                  \A k \in 0..(Len(q) - 1) : Pairs(f[k], p, q[k + 1])
<1> DEFINE f == Deassociating(p, q)
           n == Len(q)
           Paired == \A k \in DOMAIN q : /\ Pairs(links, p, q[k])
                                         /\ \A j \in DOMAIN q : q[j] = q[k] => j = k
           S == {k \in 0..n : /\ f[k] \in Full
                              /\ Paired => \A j \in (k + 1)..n : Pairs(f[k], p, q[j])}
<1>1. links \in Sound
  BY DEF Full
<1>2. f[0] = links /\ \A k \in 1..n : f[k] = DeassociateOne(f[k - 1], p, q[k])
  BY <1>1, DeassociatingRounds
<1> HIDE DEF f
<1>3. n \in Nat /\ DOMAIN q = 1..n /\ \A k \in 1..n : q[k] \in Surfaces
  BY SurfaceListHolds
<1> HIDE DEF n
<1>4. 0 \in S
  BY <1>2, <1>3
<1>5. \A k \in 1..n : k - 1 \in S => k \in S
  <2> SUFFICES ASSUME NEW k \in 1..n, k - 1 \in S
               PROVE  k \in S
    OBVIOUS
  <2>1. PICK l : l = f[k - 1]
    OBVIOUS
  <2>2. k \in 0..n /\ k - 1 + 1 = k /\ k \in Nat
    BY <1>3
  <2>3. l \in Full /\ (Paired => \A j \in k..n : Pairs(l, p, q[j]))
    BY <2>1, <2>2
  <2>4. f[k] = DeassociateOne(l, p, q[k]) /\ q[k] \in Surfaces
    BY <1>2, <1>3, <2>1
  <2>5. /\ f[k] \in Full
        /\ \A t \in Surfaces : t # q[k] /\ Pairs(l, p, t) => Pairs(f[k], p, t)
    BY <2>3, <2>4, DeassociatedFull DEF DeassociateOne
  <2>6. ASSUME Paired, NEW j \in (k + 1)..n
        PROVE  Pairs(f[k], p, q[j])
    <3>1. j \in 1..n /\ j # k /\ j \in k..n
      BY <1>3, <2>2
    <3> QED
      BY <1>3, <2>3, <2>5, <2>6, <3>1
  <2> QED
    BY <2>2, <2>5, <2>6
<1>6. 0..n \subseteq S
  <2> HIDE DEF S
  <2> QED
    BY <1>3, <1>4, <1>5, AllRounds
<1>7. \A k \in 0..n : f[k] \in Full
  BY <1>6
<1>8. ASSUME Paired, NEW k \in 0..(n - 1)
      PROVE  Pairs(f[k], p, q[k + 1])
  <2>1. k \in 0..n /\ k + 1 \in (k + 1)..n
    BY <1>3
  <2>2. k \in S
    BY <1>6, <2>1
  <2> QED
    BY <1>8, <2>1, <2>2
<1> QED
  BY <1>7, <1>8 DEF f, n

(* Every step keeps associations listed at both ends.                      *)
LEMMA FullStep ==
  ASSUME "once" \in AppRules, links \in Full, [Next]_vars
  PROVE  links' \in Full
<1>1. links \in Sound
  BY DEF Full
<1>2. CASE UNCHANGED links
  BY <1>2
<1>3. ASSUME NEW s \in Surfaces, CreateSurface(s)
      PROVE  links' \in Full
  <2>1. ~IsSurface(links, s) /\ links' = [links EXCEPT !.surface[s] = <<>>]
    BY <1>3 DEF CreateSurface
  <2>2. OfSurface(links, s) = {}
    BY <2>1, FullLists
  <2> QED
    BY <1>1, <2>1, <2>2, ResetSurface
<1>4. ASSUME NEW s \in Surfaces, DestroySurface(s)
      PROVE  links' \in Full
  <2>1. PICK n : n = Len(links.surface[s])
    OBVIOUS
  <2>2. IsSurface(links, s)
    BY <1>4 DEF DestroySurface
  <2>3. n \in Nat
    BY <1>1, <2>1, <2>2, SoundLists, EntryAt
  <2>4. PICK l \in SoundNow : l = Releasing(s, n)[n] /\ links' = [l EXCEPT !.surface[s] = NONE]
    BY <1>1, <1>4, <2>1, AfterReleasing
  <2>5. l \in Full /\ OfSurface(l, s) = {}
    BY <2>1, <2>2, <2>3, <2>4, ReleasingFull
  <2> QED
    BY <2>4, <2>5, ResetSurface DEF SoundNow
<1>5. ASSUME NEW p \in Subpictures, NEW i \in Images, CreateSubpicture(p, i)
      PROVE  links' \in Full
  <2>1. ~IsSubpicture(links, p) /\ links' = [links EXCEPT !.sub[p] = <<>>]
    BY <1>5 DEF CreateSubpicture
  <2>2. OfSub(links, p) = {}
    BY <2>1, FullLists
  <2> QED
    BY <1>1, <2>1, <2>2, ResetSubpicture
<1>6. ASSUME NEW p \in Subpictures, DestroySubpicture(p)
      PROVE  links' \in Full
  <2>1. PICK n : n = Len(links.sub[p])
    OBVIOUS
  <2>2. IsSubpicture(links, p)
    BY <1>6 DEF DestroySubpicture
  <2>3. n \in Nat
    BY <1>1, <2>1, <2>2, SoundLists, EntryAt
  <2>4. PICK l \in SoundNow : l = Shedding(p, n)[n] /\ links' = [l EXCEPT !.sub[p] = NONE]
    BY <1>1, <1>6, <2>1, AfterShedding
  <2>5. l \in Full /\ OfSub(l, p) = {}
    BY <2>1, <2>2, <2>3, <2>4, SheddingFull
  <2> QED
    BY <2>4, <2>5, ResetSubpicture DEF SoundNow
<1>7. ASSUME NEW p \in Subpictures, NEW q \in SurfaceLists, NEW r \in Rects,
             Associates(p, q, r)
      PROVE  links' \in Full
  <2>1. IsSubpicture(links, p)
    BY <1>7, AssociatesSome
  <2>2. \A k \in DOMAIN q : ~Pairs(links, p, q[k]) /\ \A j \in DOMAIN q : q[j] = q[k] => j = k
    BY <1>7, AssociatesSome DEF IsAssociable, Promised
  <2>3. PICK n \in 0..Len(q) : links' = Associating(p, q, r)[n]
    BY <1>7, AssociatesSome
  <2> QED
    BY <2>1, <2>2, <2>3, AssociatingFull
<1>8. ASSUME NEW p \in Subpictures, NEW q \in SurfaceLists, DeassociateSubpicture(p, q)
      PROVE  links' \in Full
  <2>1. PICK n \in 0..Len(q) : links' = Deassociating(p, q)[n]
    BY <1>8 DEF DeassociateSubpicture
  <2> QED
    BY <2>1, DeassociatingFull
<1>9. ASSUME NEW s \in Surfaces, RenderSubpictures(s)
      PROVE  UNCHANGED links
  BY <1>9 DEF RenderSubpictures
<1>10. ASSUME NEW p \in Subpictures, NEW i \in Images, SetSubpictureImage(p, i)
       PROVE  UNCHANGED links
  BY <1>10 DEF SetSubpictureImage
<1>11. ASSUME NEW i \in Images,
              \/ DestroyImage(i) \/ MapBuffer(i) \/ UnmapBuffer(i)
              \/ \E w \in Widths : CreateImage(i, w)
              \/ \E d \in Pixels : Write(i, d) \/ \E s \in Surfaces : GetImage(s, i, d)
       PROVE  UNCHANGED links
  BY <1>11 DEF DestroyImage, MapBuffer, UnmapBuffer, CreateImage, Write, GetImage
<1>12. UNCHANGED vars => UNCHANGED links
  BY DEF vars
<1> QED
  BY <1>2, <1>3, <1>4, <1>5, <1>6, <1>7, <1>8, <1>9, <1>10, <1>11, <1>12
     DEF Next, Associates

(***************************************************************************)
(* The inductive invariant of associations: each block in use is listed    *)
(* once at its surface and once at its subpicture, and both exist.  It     *)
(* takes that no pair is associated twice: surface_add_association would   *)
(* replace the entry of a block its subpicture still lists.  Of an object  *)
(* that has lost its list it says what was listed before.                  *)
(***************************************************************************)
LinksInv == links \in Full

(* LinksInv holds in every state, if no pair is associated twice.          *)
THEOREM LinksInvariant ==
  ASSUME "once" \in AppRules
  PROVE  Spec => []LinksInv
<1>1. Init => LinksInv
  <2> SUFFICES ASSUME Init
               PROVE  LinksInv
    OBVIOUS
  <2>1. links \in Sound
    BY TypeInit DEF TypeInv
  <2>2. Allocated(links) = {}
    BY DEF Init, Allocated
  <2> QED
    BY <2>1, <2>2 DEF LinksInv, Full, ListedTwice
<1>2. LinksInv /\ [Next]_vars => LinksInv'
  BY FullStep DEF LinksInv
<1> QED
  BY <1>1, <1>2, PTL DEF Spec

(***************************************************************************)
(* Both ends of every association agree, whichever of surface and          *)
(* subpicture is destroyed first and wherever a list of surfaces ends, if  *)
(* no pair is associated twice; at an object whose list was freed by a     *)
(* failing realloc they do not.                                            *)
(***************************************************************************)
THEOREM EndsAgree ==
  ASSUME "once" \in AppRules
  PROVE  Spec => []BothEndsAgree
<1>1. LinksInv => BothEndsAgree
  BY FullLists, SoundLists DEF LinksInv, BothEndsAgree, Lists, Distinct
<1> QED
  BY <1>1, LinksInvariant, PTL

(***************************************************************************)
(* No association leaks: the subpicture of each block in use exists and    *)
(* lists it, or has lost its list, if no pair is associated twice.         *)
(***************************************************************************)
THEOREM NoneLeaks ==
  ASSUME "once" \in AppRules
  PROVE  Spec => []AssociationsOwned
<1>1. LinksInv /\ TypeOK => AssociationsOwned
  BY DEF LinksInv, AssociationsOwned, Full, ListedTwice
<1> QED
  BY <1>1, LinksInvariant, TypeCorrect, PTL

-----------------------------------------------------------------------------
(***************************************************************************)
(* Committed pixels.                                                       *)
(***************************************************************************)
(* A subpicture has an image of its size; a new image is blank; VDPAU has  *)
(* what the image contained at last_commit, or nothing.                    *)
ImagesFit ==
  \A p \in Subpictures : IsSubpicture(links, p) =>
    /\ shows[p] \in Images /\ IsImage(shows[p])
    /\ width[p] = image[shows[p]].width
NewAreBlank ==
  \A i \in Images : IsImage(i) /\ image[i].mtime = 0 =>
    ~image[i].mapped /\ image[i].data = BLANK
CommitsAreKept ==
  \A p \in Subpictures : IsSubpicture(links, p) =>
    /\ last_commit[p] <= image[shows[p]].mtime
    /\ last_commit[p] = 0 => \A x \in Parts : bitmap[p][x] = BLANK
    /\ ~image[shows[p]].mapped /\ last_commit[p] = image[shows[p]].mtime =>
         \A x \in Covered(p) : bitmap[p][x] = image[shows[p]].data

PixelsInv == TypeInv /\ ImagesFit /\ NewAreBlank /\ CommitsAreKept

(* What the associations of o cover in l.                                  *)
Cover(l, o) == UNION {l.block[a].src_rect : a \in Range(l.sub[o])}
(* Sound links that cover no more than now, and r of p.                    *)
Within(p, r) ==
  {l \in SoundNow : \A o \in Subpictures : IsSubpicture(links, o) =>
     Cover(l, o) \subseteq Covered(o) \cup (IF o = p THEN r ELSE {})}

(* What is freed covers nothing any more.                                  *)
LEMMA FreesCovers ==
  ASSUME NEW l \in Sound, NEW p \in Subpictures, NEW s \in Surfaces, NEW m, NEW a,
         IsSubpicture(l, p), Frees(l, m, p, s, a), NEW o \in Subpictures, IsSubpicture(l, o)
  PROVE  Cover(m, o) \subseteq Cover(l, o)
<1>1. l.block \in [Blocks -> Associations \cup {NONE}]
  BY SoundLists DEF Links
<1>2. Range(m.sub[o]) \subseteq Range(l.sub[o]) \ {a}
  <2>1. CASE o = p
    BY <2>1 DEF Frees, Distinct
  <2>2. CASE o # p
    <3>1. a \notin Range(l.sub[o]) /\ m.sub[o] = l.sub[o]
      BY <2>2, SoundLists DEF Frees
    <3> QED
      BY <3>1
  <2> QED
    BY <2>1, <2>2
<1>3. \A b \in Range(m.sub[o]) : m.block[b] = l.block[b]
  <2>1. \A b \in Range(l.sub[o]) : b \in Blocks
    BY SoundLists
  <2> QED
    BY <1>1, <1>2, <2>1 DEF Frees
<1> QED
  BY <1>2, <1>3 DEF Cover

(* What comes covers its rectangle.                                        *)
LEMMA AddsCovers ==
  ASSUME NEW l \in Sound, NEW p \in Subpictures, NEW s \in Surfaces, NEW r, NEW m, NEW a,
         IsSubpicture(l, p), Adds(l, m, p, s, r, a), NEW o \in Subpictures, IsSubpicture(l, o)
  PROVE  Cover(m, o) \subseteq Cover(l, o) \cup (IF o = p THEN r ELSE {})
<1>1. l.block \in [Blocks -> Associations \cup {NONE}]
  BY SoundLists DEF Links
<1>2. \A b \in Range(l.sub[o]) : b \in Blocks /\ b # a /\ m.block[b] = l.block[b]
  BY <1>1, SoundLists DEF Adds
<1>3. m.block[a].src_rect = r
  BY <1>1 DEF Adds
<1>4. Range(m.sub[o]) \subseteq Range(l.sub[o]) \cup (IF o = p THEN {a} ELSE {})
  BY DEF Adds, Distinct
<1> QED
  BY <1>2, <1>3, <1>4 DEF Cover

(* Rounds stay within what is covered now.                                 *)
LEMMA RoundsStayWithin ==
  ASSUME NEW u, NEW v, NEW l \in Within(u, v)
  PROVE  /\ \A s \in Surfaces : IsSubpicture(links, u) /\ u \in Subpictures /\ v \in Rects =>
              AssociateOne(l, u, s, v) \in Within(u, v)
         /\ \A p \in Subpictures, s \in Surfaces : DeassociateOne(l, p, s) \in Within(u, v)
         /\ \A s \in Surfaces : IsSurface(links, s) => ReleaseOne(l, s) \in Within(u, v)
         /\ \A p \in Subpictures : IsSubpicture(links, p) => ShedOne(l, p) \in Within(u, v)
<1>1. l \in Sound /\ SameObjects(links, l) /\ l \in SoundNow
  BY DEF Within, SoundNow
<1>2. ASSUME NEW m \in SoundNow,
             \A o \in Subpictures : IsSubpicture(l, o) =>
               Cover(m, o) \subseteq Cover(l, o) \cup (IF o = u THEN v ELSE {})
      PROVE  m \in Within(u, v)
  <2> SUFFICES ASSUME NEW o \in Subpictures, IsSubpicture(links, o)
               PROVE  Cover(m, o) \subseteq Covered(o) \cup (IF o = u THEN v ELSE {})
    BY DEF Within
  <2>1. IsSubpicture(l, o)
    BY <1>1 DEF SameObjects
  <2>2. Cover(l, o) \subseteq Covered(o) \cup (IF o = u THEN v ELSE {})
    BY DEF Within
  <2> QED
    BY <1>2, <2>1, <2>2
<1>3. ASSUME NEW s \in Surfaces, IsSubpicture(links, u), u \in Subpictures, v \in Rects
      PROVE  AssociateOne(l, u, s, v) \in Within(u, v)
  <2>1. CASE CanAssociate(l, u, s)
    <3> DEFINE m == Associated(l, u, s, v)
    <3>1. IsSubpicture(l, u)
      BY <1>1, <1>3 DEF SameObjects
    <3>2. PICK a \in Blocks : Adds(l, m, u, s, v, a)
      BY <1>1, <1>3, <2>1, <3>1, AssociatedAdds
    <3>3. AssociateOne(l, u, s, v) = m
      BY <2>1 DEF AssociateOne
    <3>4. m \in SoundNow
      BY <1>1, <1>3, <3>3, RoundsKeepSound
    <3> HIDE DEF m
    <3>5. \A o \in Subpictures : IsSubpicture(l, o) =>
            Cover(m, o) \subseteq Cover(l, o) \cup (IF o = u THEN v ELSE {})
      BY <1>1, <1>3, <3>1, <3>2, AddsCovers
    <3> QED
      BY <1>2, <3>3, <3>4, <3>5
  <2>2. CASE ~CanAssociate(l, u, s)
    BY <2>2 DEF AssociateOne
  <2> QED
    BY <2>1, <2>2
<1>4. ASSUME NEW p \in Subpictures, NEW s \in Surfaces, IsSurface(l, s)
      PROVE  Deassociated(l, p, s) \in Within(u, v)
  <2>1. CASE ~Pairs(l, p, s)
    BY <1>1, <1>4, <2>1, DeassociatedFrees
  <2>2. CASE Pairs(l, p, s)
    <3> DEFINE m == Deassociated(l, p, s)
    <3>1. IsSubpicture(l, p)
      BY <2>2 DEF Pairs
    <3>2. PICK a \in Blocks : Frees(l, m, p, s, a)
      BY <1>1, <1>4, <2>2, DeassociatedFrees
    <3>3. m = DeassociateOne(l, p, s)
      BY <1>4 DEF DeassociateOne
    <3>4. m \in SoundNow
      BY <1>1, <3>3, RoundsKeepSound
    <3> HIDE DEF m
    <3>5. \A o \in Subpictures : IsSubpicture(l, o) => Cover(m, o) \subseteq Cover(l, o)
      BY <1>1, <3>1, <3>2, FreesCovers
    <3>6. m \in Within(u, v)
      BY <1>2, <3>4, <3>5
    <3> QED
      BY <3>6 DEF m
  <2> QED
    BY <2>1, <2>2
<1>5. ASSUME NEW p \in Subpictures, NEW s \in Surfaces
      PROVE  DeassociateOne(l, p, s) \in Within(u, v)
  BY <1>4 DEF DeassociateOne
<1>6. ASSUME NEW s \in Surfaces, IsSurface(links, s)
      PROVE  ReleaseOne(l, s) \in Within(u, v)
  <2>1. CASE CanRelease(l, s)
    <3>1. IsSurface(l, s) /\ l.surface[s] # <<>>
      BY <1>1, <1>6, <2>1 DEF SameObjects, CanRelease
    <3>2. l.surface[s] \in Seq(Blocks)
      BY <1>1, <3>1, SoundLists
    <3>3. l.surface[s][1] \in Range(l.surface[s])
      BY <3>1, <3>2, EntryAt
    <3>4. FirstOwner(l, s) \in Subpictures
      BY <1>1, <3>1, <3>3, SoundLists DEF FirstOwner, Associations
    <3> QED
      BY <1>4, <2>1, <3>1, <3>4 DEF ReleaseOne
  <2>2. CASE ~CanRelease(l, s)
    BY <2>2 DEF ReleaseOne
  <2> QED
    BY <2>1, <2>2
<1>7. ASSUME NEW p \in Subpictures, IsSubpicture(links, p)
      PROVE  ShedOne(l, p) \in Within(u, v)
  <2>1. CASE l.sub[p] # <<>> /\ IsSurface(l, FirstSurface(l, p))
    <3>1. IsSubpicture(l, p)
      BY <1>1, <1>7 DEF SameObjects
    <3>2. l.sub[p] \in Seq(Blocks)
      BY <1>1, <3>1, SoundLists
    <3>3. l.sub[p][1] \in Range(l.sub[p])
      BY <2>1, <3>2, EntryAt
    <3>4. FirstSurface(l, p) \in Surfaces
      BY <1>1, <3>1, <3>3, SoundLists DEF FirstSurface, Associations
    <3> QED
      BY <1>4, <2>1, <3>4 DEF ShedOne
  <2>2. CASE ~(l.sub[p] # <<>> /\ IsSurface(l, FirstSurface(l, p)))
    BY <2>2 DEF ShedOne
  <2> QED
    BY <2>1, <2>2
<1> QED
  BY <1>3, <1>5, <1>6, <1>7

(* Links are within what they cover.                                       *)
LEMMA StartsWithin ==
  ASSUME links \in Sound, NEW u, NEW v
  PROVE  links \in Within(u, v)
BY StartsSound DEF Within, Cover, Covered

(* So are the loops from the start to the end.                             *)
LEMMA LoopsStayWithin ==
  ASSUME links \in Sound, NEW p \in Subpictures
  PROVE  /\ \A q \in SurfaceLists, r \in Rects : IsSubpicture(links, p) =>
              \A k \in 0..Len(q) : Associating(p, q, r)[k] \in Within(p, r)
         /\ \A q \in SurfaceLists : \A k \in 0..Len(q) : Deassociating(p, q)[k] \in Within(p, {})
         /\ \A s \in Surfaces, n \in Nat : IsSurface(links, s) =>
              Releasing(s, n)[n] \in Within(p, {})
         /\ \A n \in Nat : IsSubpicture(links, p) => Shedding(p, n)[n] \in Within(p, {})
<1>1. ASSUME NEW q \in SurfaceLists, NEW r \in Rects, IsSubpicture(links, p)
      PROVE  \A k \in 0..Len(q) : Associating(p, q, r)[k] \in Within(p, r)
  <2> DEFINE f == Associating(p, q, r)
             S == {k \in 0..Len(q) : f[k] \in Within(p, r)}
  <2>1. f[0] = links /\ \A k \in 1..Len(q) : f[k] = AssociateOne(f[k - 1], p, q[k], r)
    BY <1>1, AssociatingRounds
  <2>2. Len(q) \in Nat /\ \A k \in 1..Len(q) : q[k] \in Surfaces
    BY SurfaceListHolds
  <2> HIDE DEF f
  <2>3. 0 \in S
    BY <2>1, <2>2, StartsWithin
  <2>4. \A k \in 1..Len(q) : k - 1 \in S => k \in S
    BY <1>1, <2>1, <2>2, RoundsStayWithin
  <2> HIDE DEF S
  <2>5. 0..Len(q) \subseteq S
    BY <2>2, <2>3, <2>4, AllRounds
  <2> QED
    BY <2>5 DEF S, f
<1>2. ASSUME NEW q \in SurfaceLists
      PROVE  \A k \in 0..Len(q) : Deassociating(p, q)[k] \in Within(p, {})
  <2> DEFINE f == Deassociating(p, q)
             S == {k \in 0..Len(q) : f[k] \in Within(p, {})}
  <2>1. f[0] = links /\ \A k \in 1..Len(q) : f[k] = DeassociateOne(f[k - 1], p, q[k])
    BY DeassociatingRounds
  <2>2. Len(q) \in Nat /\ \A k \in 1..Len(q) : q[k] \in Surfaces
    BY SurfaceListHolds
  <2> HIDE DEF f
  <2>3. 0 \in S
    BY <2>1, <2>2, StartsWithin
  <2>4. \A k \in 1..Len(q) : k - 1 \in S => k \in S
    BY <2>1, <2>2, RoundsStayWithin
  <2> HIDE DEF S
  <2>5. 0..Len(q) \subseteq S
    BY <2>2, <2>3, <2>4, AllRounds
  <2> QED
    BY <2>5 DEF S, f
<1>3. ASSUME NEW s \in Surfaces, NEW n \in Nat, IsSurface(links, s)
      PROVE  Releasing(s, n)[n] \in Within(p, {})
  <2> DEFINE f == Releasing(s, n)
             S == {k \in 0..n : f[k] \in Within(p, {})}
  <2>1. f[0] = links /\ \A k \in 1..n : f[k] = ReleaseOne(f[k - 1], s)
    BY <1>3, ReleasingRounds
  <2> HIDE DEF f
  <2>2. 0 \in S
    BY <2>1, StartsWithin
  <2>3. \A k \in 1..n : k - 1 \in S => k \in S
    BY <1>3, <2>1, RoundsStayWithin
  <2> HIDE DEF S
  <2>4. 0..n \subseteq S /\ n \in 0..n
    BY <2>2, <2>3, AllRounds
  <2> QED
    BY <2>4 DEF S, f
<1>4. ASSUME NEW n \in Nat, IsSubpicture(links, p)
      PROVE  Shedding(p, n)[n] \in Within(p, {})
  <2> DEFINE f == Shedding(p, n)
             S == {k \in 0..n : f[k] \in Within(p, {})}
  <2>1. f[0] = links /\ \A k \in 1..n : f[k] = ShedOne(f[k - 1], p)
    BY <1>4, SheddingRounds
  <2> HIDE DEF f
  <2>2. 0 \in S
    BY <2>1, StartsWithin
  <2>3. \A k \in 1..n : k - 1 \in S => k \in S
    BY <1>4, <2>1, RoundsStayWithin
  <2> HIDE DEF S
  <2>4. 0..n \subseteq S /\ n \in 0..n
    BY <2>2, <2>3, AllRounds
  <2> QED
    BY <2>4 DEF S, f
<1> QED
  BY <1>1, <1>2, <1>3, <1>4

(* No step makes a subpicture cover more, except to associate it.          *)
LEMMA CoveredStep ==
  ASSUME links \in Sound, NEW o \in Subpictures, IsSubpicture(links', o)
  PROVE  /\ \A s \in Surfaces : CreateSurface(s) \/ DestroySurface(s) =>
              IsSubpicture(links, o) /\ Covered(o)' \subseteq Covered(o)
         /\ \A p \in Subpictures, i \in Images : CreateSubpicture(p, i) /\ o # p =>
              IsSubpicture(links, o) /\ Covered(o)' \subseteq Covered(o)
         /\ \A p \in Subpictures : DestroySubpicture(p) =>
              o # p /\ IsSubpicture(links, o) /\ Covered(o)' \subseteq Covered(o)
         /\ \A p \in Subpictures, q \in SurfaceLists, r \in Rects : Associates(p, q, r) =>
              /\ IsSubpicture(links, o)
              /\ Covered(o)' \subseteq Covered(o) \cup (IF o = p THEN r ELSE {})
         /\ \A p \in Subpictures, q \in SurfaceLists : DeassociateSubpicture(p, q) =>
              IsSubpicture(links, o) /\ Covered(o)' \subseteq Covered(o)
<1>1. Covered(o)' = Cover(links', o) /\ Covered(o) = Cover(links, o)
  BY DEF Covered, Cover
<1>2. ASSUME NEW u \in Subpictures, NEW v, NEW l \in Within(u, v),
             IsSubpicture(l, o), links'.sub[o] = l.sub[o], links'.block = l.block
      PROVE  /\ IsSubpicture(links, o)
             /\ Covered(o)' \subseteq Covered(o) \cup (IF o = u THEN v ELSE {})
  <2>1. IsSubpicture(links, o)
    BY <1>2 DEF Within, SoundNow, SameObjects
  <2>2. Cover(links', o) = Cover(l, o)
    BY <1>2 DEF Cover
  <2> QED
    BY <1>1, <2>1, <2>2 DEF Within
<1>3. ASSUME NEW s \in Surfaces, CreateSurface(s)
      PROVE  IsSubpicture(links, o) /\ Covered(o)' \subseteq Covered(o)
  <2>1. links'.sub = links.sub /\ links'.block = links.block
    BY <1>3, ResetSurface DEF CreateSurface
  <2> QED
    BY <1>1, <2>1 DEF Cover, IsSubpicture
<1>4. ASSUME NEW s \in Surfaces, DestroySurface(s)
      PROVE  IsSubpicture(links, o) /\ Covered(o)' \subseteq Covered(o)
  <2>1. PICK n : n = Len(links.surface[s])
    OBVIOUS
  <2>2. IsSurface(links, s)
    BY <1>4 DEF DestroySurface
  <2>3. n \in Nat
    BY <2>1, <2>2, SoundLists, EntryAt
  <2>4. PICK l \in SoundNow : l = Releasing(s, n)[n] /\ links' = [l EXCEPT !.surface[s] = NONE]
    BY <1>4, <2>1, AfterReleasing
  <2>5. l \in Within(o, {})
    BY <2>2, <2>3, <2>4, LoopsStayWithin
  <2>6. links'.sub = l.sub /\ links'.block = l.block
    BY <2>4, ResetSurface DEF SoundNow
  <2> QED
    BY <1>2, <2>5, <2>6 DEF IsSubpicture
<1>5. ASSUME NEW p \in Subpictures, NEW i \in Images, CreateSubpicture(p, i), o # p
      PROVE  IsSubpicture(links, o) /\ Covered(o)' \subseteq Covered(o)
  <2>1. links'.sub[o] = links.sub[o] /\ links'.block = links.block
    BY <1>5, ResetSubpicture DEF CreateSubpicture
  <2> QED
    BY <1>1, <2>1 DEF Cover, IsSubpicture
<1>6. ASSUME NEW p \in Subpictures, DestroySubpicture(p)
      PROVE  o # p /\ IsSubpicture(links, o) /\ Covered(o)' \subseteq Covered(o)
  <2>1. PICK n : n = Len(links.sub[p])
    OBVIOUS
  <2>2. IsSubpicture(links, p)
    BY <1>6 DEF DestroySubpicture
  <2>3. n \in Nat
    BY <2>1, <2>2, SoundLists, EntryAt
  <2>4. PICK l \in SoundNow : l = Shedding(p, n)[n] /\ links' = [l EXCEPT !.sub[p] = NONE]
    BY <1>6, <2>1, AfterShedding
  <2>5. l \in Within(p, {})
    BY <2>2, <2>3, <2>4, LoopsStayWithin
  <2>6. links'.block = l.block /\ links'.sub[o] = IF o = p THEN NONE ELSE l.sub[o]
    BY <2>4, ResetSubpicture DEF SoundNow
  <2>7. o # p /\ links'.sub[o] = l.sub[o] /\ IsSubpicture(l, o)
    BY <2>6 DEF IsSubpicture
  <2>8. Covered(o)' \subseteq Covered(o) \cup (IF o = p THEN {} ELSE {}) /\ IsSubpicture(links, o)
    BY <1>2, <2>5, <2>6, <2>7
  <2> QED
    BY <2>7, <2>8
<1>7. ASSUME NEW p \in Subpictures, NEW q \in SurfaceLists, NEW r \in Rects,
             Associates(p, q, r)
      PROVE  /\ IsSubpicture(links, o)
             /\ Covered(o)' \subseteq Covered(o) \cup (IF o = p THEN r ELSE {})
  <2>1. IsSubpicture(links, p)
    BY <1>7, AssociatesSome
  <2>2. PICK n \in 0..Len(q) : links' = Associating(p, q, r)[n]
    BY <1>7, AssociatesSome
  <2>3. PICK l : l = links'
    OBVIOUS
  <2>4. l \in Within(p, r)
    BY <2>1, <2>2, <2>3, LoopsStayWithin
  <2> QED
    BY <1>2, <2>3, <2>4
<1>8. ASSUME NEW p \in Subpictures, NEW q \in SurfaceLists, DeassociateSubpicture(p, q)
      PROVE  IsSubpicture(links, o) /\ Covered(o)' \subseteq Covered(o)
  <2>1. PICK n \in 0..Len(q) : links' = Deassociating(p, q)[n]
    BY <1>8 DEF DeassociateSubpicture
  <2>2. PICK l : l = links'
    OBVIOUS
  <2>3. l \in Within(p, {})
    BY <2>1, <2>2, LoopsStayWithin
  <2>4. Covered(o)' \subseteq Covered(o) \cup (IF o = p THEN {} ELSE {}) /\ IsSubpicture(links, o)
    BY <1>2, <2>2, <2>3
  <2> QED
    BY <2>4
<1> QED
  BY <1>3, <1>4, <1>5, <1>6, <1>7, <1>8

(* What is covered lies within the subpicture.                             *)
LEMMA CoveredAreParts ==
  ASSUME links \in Sound, NEW o \in Subpictures, IsSubpicture(links, o)
  PROVE  Covered(o) \subseteq Parts
BY SoundLists, Constants DEF Covered, Associations

(* The pixels are kept by each step, if the application lets images stay   *)
(* while a subpicture shows them and writes them only while mapped.        *)
LEMMA PixelsStep ==
  ASSUME "pixels" \in AppRules, PixelsInv, [Next]_vars
  PROVE  PixelsInv'
<1> DEFINE Goal == (ImagesFit /\ NewAreBlank /\ CommitsAreKept)'
<1>1. /\ links \in Sound /\ ImagesFit /\ NewAreBlank /\ CommitsAreKept
      /\ image \in [Images -> ImageObjects \cup {NONE}] /\ MappedInTime
      /\ shows \in [Subpictures -> Images \cup {NONE}]
      /\ width \in [Subpictures -> Widths \cup {NONE}]
      /\ last_commit \in [Subpictures -> 0..MaxTime]
      /\ bitmap \in [Subpictures -> [Parts -> Pixels]]
  BY DEF PixelsInv, TypeInv, TypeOK
<1>2. TypeInv'
  BY TypeStep DEF PixelsInv
<1>3. \A i \in Images : IsImage(i) => image[i].mtime \in Nat
  BY <1>1 DEF IsImage, ImageObjects
<1>4. ASSUME UNCHANGED <<image, shows, width, last_commit, bitmap>>,
             \A o \in Subpictures : IsSubpicture(links', o) =>
               IsSubpicture(links, o) /\ Covered(o)' \subseteq Covered(o)
      PROVE  Goal
  <2>1. ImagesFit' /\ NewAreBlank'
    BY <1>1, <1>4 DEF ImagesFit, NewAreBlank, IsImage
  <2>2. CommitsAreKept'
    BY <1>1, <1>4 DEF CommitsAreKept
  <2> QED
    BY <2>1, <2>2
<1>5. ASSUME NEW s \in Surfaces, CreateSurface(s) \/ DestroySurface(s)
      PROVE  Goal
  <2>1. UNCHANGED <<image, shows, width, last_commit, bitmap>>
    BY <1>5 DEF CreateSurface, DestroySurface, subVars
  <2>2. \A o \in Subpictures : IsSubpicture(links', o) =>
          IsSubpicture(links, o) /\ Covered(o)' \subseteq Covered(o)
    BY <1>1, <1>5, CoveredStep
  <2> QED
    BY <1>4, <2>1, <2>2
<1>6. ASSUME NEW p \in Subpictures, NEW q \in SurfaceLists, DeassociateSubpicture(p, q)
      PROVE  Goal
  <2>1. UNCHANGED <<image, shows, width, last_commit, bitmap>>
    BY <1>6 DEF DeassociateSubpicture, subVars
  <2>2. \A o \in Subpictures : IsSubpicture(links', o) =>
          IsSubpicture(links, o) /\ Covered(o)' \subseteq Covered(o)
    BY <1>1, <1>6, CoveredStep
  <2> QED
    BY <1>4, <2>1, <2>2
<1>7. ASSUME NEW p \in Subpictures, NEW q \in SurfaceLists, NEW r \in Rects,
             Associates(p, q, r)
      PROVE  Goal
  <2>1. UNCHANGED <<image, shows, width, last_commit, bitmap>>
    BY <1>7, AssociatesSome
  <2>2. \A o \in Subpictures : IsSubpicture(links', o) =>
          /\ IsSubpicture(links, o)
          /\ Covered(o)' \subseteq Covered(o) \cup (IF o = p THEN r ELSE {})
    BY <1>1, <1>7, CoveredStep
  <2>3. r \subseteq Covered(p) \/ last_commit[p] = 0 \/ ~IsCommitted(p)
    BY <1>7, AssociatesSome DEF IsAssociable, Promised
  <2>4. ImagesFit' /\ NewAreBlank'
    BY <1>1, <2>1, <2>2 DEF ImagesFit, NewAreBlank, IsImage
  <2>5. ASSUME NEW o \in Subpictures, IsSubpicture(links', o),
               ~image[shows[o]].mapped, last_commit[o] = image[shows[o]].mtime,
               NEW x \in Covered(o)'
        PROVE  bitmap[o][x] = image[shows[o]].data
    <3>1. IsSubpicture(links, o) /\ x \in Covered(o) \cup (IF o = p THEN r ELSE {})
      BY <2>2, <2>5
    <3>2. CASE x \in Covered(o)
      BY <1>1, <2>5, <3>1, <3>2 DEF CommitsAreKept
    <3>3. CASE x \notin Covered(o)
      <4>1. o = p /\ x \in r
        BY <3>1, <3>3
      <4>2. last_commit[o] = 0
        BY <1>1, <1>3, <2>3, <2>5, <3>1, <3>3, <4>1 DEF IsCommitted, ImagesFit
      <4>3. x \in Parts
        BY <4>1, Constants
      <4>4. bitmap[o][x] = BLANK
        BY <1>1, <3>1, <4>2, <4>3 DEF CommitsAreKept
      <4>5. image[shows[o]].data = BLANK
        BY <1>1, <2>5, <3>1, <4>2 DEF ImagesFit, NewAreBlank
      <4> QED
        BY <4>4, <4>5
    <3> QED
      BY <3>2, <3>3
  <2>6. CommitsAreKept'
    BY <1>1, <2>1, <2>2, <2>5 DEF CommitsAreKept
  <2> QED
    BY <2>4, <2>6
<1>8. ASSUME NEW p \in Subpictures, DestroySubpicture(p)
      PROVE  Goal
  <2>1. UNCHANGED image /\ \A o \in Subpictures : o # p =>
          /\ shows'[o] = shows[o] /\ width'[o] = width[o]
          /\ last_commit'[o] = last_commit[o] /\ bitmap'[o] = bitmap[o]
    BY <1>1, <1>8 DEF DestroySubpicture
  <2>2. \A o \in Subpictures : IsSubpicture(links', o) =>
          o # p /\ IsSubpicture(links, o) /\ Covered(o)' \subseteq Covered(o)
    BY <1>1, <1>8, CoveredStep
  <2>3. ImagesFit' /\ NewAreBlank'
    BY <1>1, <2>1, <2>2 DEF ImagesFit, NewAreBlank, IsImage
  <2>4. CommitsAreKept'
    BY <1>1, <2>1, <2>2 DEF CommitsAreKept
  <2> QED
    BY <2>3, <2>4
<1>9. ASSUME NEW p \in Subpictures, NEW i \in Images, CreateSubpicture(p, i)
      PROVE  Goal
  <2>1. UNCHANGED image /\ \A o \in Subpictures : o # p =>
          /\ shows'[o] = shows[o] /\ width'[o] = width[o]
          /\ last_commit'[o] = last_commit[o] /\ bitmap'[o] = bitmap[o]
    BY <1>1, <1>9 DEF CreateSubpicture
  <2>2. /\ shows'[p] = i /\ width'[p] = image[i].width /\ last_commit'[p] = 0
        /\ \A x \in Parts : bitmap'[p][x] = BLANK
        /\ IsImage(i)
    BY <1>1, <1>9 DEF CreateSubpicture
  <2>3. \A o \in Subpictures : IsSubpicture(links', o) /\ o # p =>
          IsSubpicture(links, o) /\ Covered(o)' \subseteq Covered(o)
    BY <1>1, <1>9, CoveredStep
  <2>4. Covered(p)' = {}
    <3>1. links' = [links EXCEPT !.sub[p] = <<>>]
      BY <1>9 DEF CreateSubpicture
    <3>2. links \in Links
      BY <1>1, SoundLists
    <3>3. links'.sub[p] = <<>>
      BY <3>1, <3>2 DEF Links
    <3> QED
      BY <3>3, EmptyList DEF Covered, Distinct
  <2>5. ImagesFit'
    BY <1>1, <2>1, <2>2, <2>3 DEF ImagesFit, IsImage
  <2>6. NewAreBlank'
    BY <1>1, <2>1 DEF NewAreBlank, IsImage
  <2>7. ASSUME NEW o \in Subpictures, IsSubpicture(links', o)
        PROVE  /\ last_commit'[o] <= image'[shows'[o]].mtime
               /\ last_commit'[o] = 0 => \A x \in Parts : bitmap'[o][x] = BLANK
               /\ ~image'[shows'[o]].mapped /\ last_commit'[o] = image'[shows'[o]].mtime =>
                    \A x \in Covered(o)' : bitmap'[o][x] = image'[shows'[o]].data
    <3>1. CASE o = p
      BY <1>3, <2>1, <2>2, <2>4, <3>1
    <3>2. CASE o # p
      BY <1>1, <2>1, <2>3, <2>7, <3>2 DEF CommitsAreKept
    <3> QED
      BY <3>1, <3>2
  <2>8. CommitsAreKept'
    BY <2>7 DEF CommitsAreKept
  <2> QED
    BY <2>5, <2>6, <2>8
<1>10. ASSUME NEW p \in Subpictures, NEW i \in Images, SetSubpictureImage(p, i)
       PROVE  Goal
  <2>1. /\ UNCHANGED <<links, image, width, last_commit, bitmap>>
        /\ \A o \in Subpictures : shows'[o] = IF o = p THEN i ELSE shows[o]
        /\ IsImage(i) /\ last_commit[p] = 0 /\ image[i].width = width[p]
    BY <1>1, <1>10 DEF SetSubpictureImage, Promised
  <2>2. ImagesFit'
    BY <1>1, <2>1 DEF ImagesFit, IsImage
  <2>3. NewAreBlank'
    BY <1>1, <2>1 DEF NewAreBlank, IsImage
  <2>4. ASSUME NEW o \in Subpictures, IsSubpicture(links, o)
        PROVE  /\ last_commit[o] <= image[shows'[o]].mtime
               /\ last_commit[o] = 0 => \A x \in Parts : bitmap[o][x] = BLANK
               /\ ~image[shows'[o]].mapped /\ last_commit[o] = image[shows'[o]].mtime =>
                    \A x \in Covered(o) : bitmap[o][x] = image[shows'[o]].data
    <3>1. CASE o = p
      <4>1. shows'[o] = i /\ last_commit[o] = 0 /\ image[i].mtime \in Nat
        BY <1>3, <2>1, <3>1
      <4>2. \A x \in Parts : bitmap[o][x] = BLANK
        BY <1>1, <2>4, <4>1 DEF CommitsAreKept
      <4>3. Covered(o) \subseteq Parts
        BY <1>1, <2>4, CoveredAreParts
      <4>4. image[i].mtime = 0 => image[i].data = BLANK
        BY <1>1, <2>1 DEF NewAreBlank
      <4> QED
        BY <4>1, <4>2, <4>3, <4>4
    <3>2. CASE o # p
      BY <1>1, <2>1, <2>4, <3>2 DEF CommitsAreKept
    <3> QED
      BY <3>1, <3>2
  <2>5. CommitsAreKept'
    BY <2>1, <2>4 DEF CommitsAreKept, Covered
  <2> QED
    BY <2>2, <2>3, <2>5
<1>11. ASSUME NEW s \in Surfaces, RenderSubpictures(s)
       PROVE  Goal
  <2> DEFINE q == links.surface[s]
             sub(k) == links.block[q[k]].sub
  <2>1. /\ UNCHANGED <<links, image, shows, width>>
        /\ \E n \in 0..Len(q) : Commit({p \in {sub(k) : k \in 1..n} : ~IsCommitted(p)})
    BY <1>11 DEF RenderSubpictures
  <2>2. PICK n \in 0..Len(q) : Commit({p \in {sub(k) : k \in 1..n} : ~IsCommitted(p)})
    BY <2>1
  <2> DEFINE D == {p \in {sub(k) : k \in 1..n} : ~IsCommitted(p)}
  <2>3. \A p \in D : ~IsCommitted(p)
    OBVIOUS
  <2> HIDE DEF D
  <2>4. \A p \in Subpictures :
          /\ last_commit'[p] = IF p \in D THEN image[shows[p]].mtime ELSE last_commit[p]
          /\ \A x \in Parts : bitmap'[p][x] =
               IF p \in D /\ x \in Covered(p) THEN image[shows[p]].data ELSE bitmap[p][x]
    BY <2>2 DEF Commit, D
  <2>5. ImagesFit' /\ NewAreBlank'
    BY <1>1, <2>1 DEF ImagesFit, NewAreBlank, IsImage
  <2>6. ASSUME NEW o \in Subpictures, IsSubpicture(links, o)
        PROVE  /\ last_commit'[o] <= image[shows[o]].mtime
               /\ last_commit'[o] = 0 => \A x \in Parts : bitmap'[o][x] = BLANK
               /\ ~image[shows[o]].mapped /\ last_commit'[o] = image[shows[o]].mtime =>
                    \A x \in Covered(o) : bitmap'[o][x] = image[shows[o]].data
    <3>1. image[shows[o]].mtime \in Nat /\ last_commit[o] \in Nat
      BY <1>1, <1>3, <2>6 DEF ImagesFit
    <3>2. Covered(o) \subseteq Parts
      BY <1>1, <2>6, CoveredAreParts
    <3>3. CASE o \in D
      <4>1. last_commit'[o] = image[shows[o]].mtime /\ last_commit[o] < image[shows[o]].mtime
        BY <2>3, <2>4, <3>1, <3>3 DEF IsCommitted
      <4>2. \A x \in Covered(o) : bitmap'[o][x] = image[shows[o]].data
        BY <2>4, <3>2, <3>3
      <4> QED
        BY <3>1, <4>1, <4>2
    <3>4. CASE o \notin D
      <4>1. last_commit'[o] = last_commit[o] /\ \A x \in Parts : bitmap'[o][x] = bitmap[o][x]
        BY <2>4, <3>4
      <4> QED
        BY <1>1, <2>6, <3>2, <4>1 DEF CommitsAreKept
    <3> QED
      BY <3>3, <3>4
  <2>7. CommitsAreKept'
    BY <2>1, <2>6 DEF CommitsAreKept, Covered
  <2> QED
    BY <2>5, <2>7
<1>12. ASSUME NEW i \in Images,
              UNCHANGED <<links, shows, width, last_commit, bitmap>>,
              \A j \in Images : j # i => image'[j] = image[j],
              IsImage(i)' => (image'[i].mtime = 0 => ~image'[i].mapped /\ image'[i].data = BLANK),
              \A p \in Subpictures : IsSubpicture(links, p) /\ shows[p] = i =>
                /\ IsImage(i)' /\ image'[i].width = image[i].width
                /\ last_commit[p] <= image'[i].mtime
                /\ image'[i].mapped \/ last_commit[p] < image'[i].mtime
       PROVE  Goal
  <2>1. ImagesFit'
    BY <1>1, <1>12 DEF ImagesFit, IsImage
  <2>2. NewAreBlank'
    BY <1>1, <1>12 DEF NewAreBlank, IsImage
  <2>3. ASSUME NEW o \in Subpictures, IsSubpicture(links, o)
        PROVE  /\ last_commit[o] <= image'[shows[o]].mtime
               /\ last_commit[o] = 0 => \A x \in Parts : bitmap[o][x] = BLANK
               /\ ~image'[shows[o]].mapped /\ last_commit[o] = image'[shows[o]].mtime =>
                    \A x \in Covered(o) : bitmap[o][x] = image'[shows[o]].data
    <3>1. CASE shows[o] = i
      <4>1. last_commit[o] \in Nat /\ last_commit[o] = 0 => \A x \in Parts : bitmap[o][x] = BLANK
        BY <1>1, <2>3 DEF CommitsAreKept
      <4>2. image'[i].mapped \/ last_commit[o] < image'[i].mtime
        BY <1>12, <2>3, <3>1
      <4>3. last_commit[o] \in Nat /\ last_commit[o] <= image'[i].mtime
        BY <1>1, <1>12, <2>3, <3>1
      <4> QED
        BY <3>1, <4>1, <4>2, <4>3
    <3>2. CASE shows[o] # i
      BY <1>1, <1>12, <2>3, <3>2 DEF CommitsAreKept, ImagesFit
    <3> QED
      BY <3>1, <3>2
  <2>4. CommitsAreKept'
    BY <1>12, <2>3 DEF CommitsAreKept, Covered
  <2> QED
    BY <2>1, <2>2, <2>4
<1>13. \A p \in Subpictures : IsSubpicture(links, p) =>
         last_commit[p] \in Nat /\ last_commit[p] <= image[shows[p]].mtime /\ IsImage(shows[p])
  BY <1>1 DEF CommitsAreKept, ImagesFit
<1>14. ASSUME NEW i \in Images, DestroyImage(i)
       PROVE  Goal
  <2>1. /\ UNCHANGED <<links, shows, width, last_commit, bitmap>>
        /\ image' = [image EXCEPT ![i] = NONE]
        /\ \A p \in Subpictures : shows[p] # i
    BY <1>14 DEF DestroyImage, Promised, subVars
  <2>2. ~IsImage(i)' /\ \A j \in Images : j # i => image'[j] = image[j]
    BY <1>1, <2>1 DEF IsImage
  <2> QED
    BY <1>12, <2>1, <2>2
<1>15. ASSUME NEW i \in Images, NEW w \in Widths, CreateImage(i, w)
       PROVE  Goal
  <2>1. /\ UNCHANGED <<links, shows, width, last_commit, bitmap>> /\ ~IsImage(i)
        /\ image' = [image EXCEPT ![i] =
             [width |-> w, mapped |-> FALSE, mtime |-> 0, data |-> BLANK]]
    BY <1>15 DEF CreateImage, subVars
  <2>2. /\ \A j \in Images : j # i => image'[j] = image[j]
        /\ ~image'[i].mapped /\ image'[i].data = BLANK
    BY <1>1, <2>1
  <2> QED
    BY <1>12, <1>13, <2>1, <2>2
<1>16. ASSUME NEW i \in Images, MapBuffer(i)
       PROVE  Goal
  <2> DEFINE o == image[i]
             v == [width |-> o.width, mapped |-> TRUE, mtime |-> o.mtime + 1, data |-> o.data]
  <2>1. /\ UNCHANGED <<links, shows, width, last_commit, bitmap>>
        /\ IsImage(i) /\ o.mtime + 2 <= MaxTime
    BY <1>16 DEF MapBuffer, subVars
  <2>2. o \in ImageObjects
    BY <1>1, <2>1 DEF IsImage
  <2>3. image' = [image EXCEPT ![i] = v]
    BY <1>1, <1>16, <2>2 DEF MapBuffer, ImageObjects
  <2>4. /\ v \in ImageObjects /\ v.width = o.width
        /\ v.mtime = o.mtime + 1
    BY <2>1, <2>2, Constants DEF ImageObjects
  <2> HIDE DEF v
  <2>5. image'[i] = v /\ IsImage(i)' /\ \A j \in Images : j # i => image'[j] = image[j]
    BY <1>1, <2>3, <2>4, Constants DEF IsImage
  <2>6. v.mtime # 0 /\ \A p \in Subpictures : IsSubpicture(links, p) /\ shows[p] = i =>
          last_commit[p] <= v.mtime /\ last_commit[p] < v.mtime
    BY <1>3, <1>13, <2>1, <2>4
  <2> HIDE DEF o
  <2>7. image'[i].mtime # 0 /\ image'[i].width = image[i].width
    BY <2>4, <2>5, <2>6 DEF o
  <2>8. \A p \in Subpictures : IsSubpicture(links, p) /\ shows[p] = i =>
          /\ IsImage(i)' /\ image'[i].width = image[i].width
          /\ last_commit[p] <= image'[i].mtime
          /\ image'[i].mapped \/ last_commit[p] < image'[i].mtime
    BY <2>5, <2>6, <2>7
  <2> QED
    BY <1>12, <2>1, <2>5, <2>7, <2>8
<1>17. ASSUME NEW i \in Images, UnmapBuffer(i)
       PROVE  Goal
  <2> DEFINE o == image[i]
             v == [width |-> o.width, mapped |-> FALSE, mtime |-> o.mtime + 1, data |-> o.data]
  <2>1. /\ UNCHANGED <<links, shows, width, last_commit, bitmap>>
        /\ IsImage(i) /\ o.mtime < MaxTime
    BY <1>1, <1>17 DEF UnmapBuffer, MappedInTime, subVars
  <2>2. o \in ImageObjects
    BY <1>1, <2>1 DEF IsImage
  <2>3. image' = [image EXCEPT ![i] = v]
    BY <1>1, <1>17, <2>2 DEF UnmapBuffer, TimeUnmapped, ImageObjects
  <2>4. /\ v \in ImageObjects /\ v.width = o.width
        /\ v.mtime = o.mtime + 1
    BY <2>1, <2>2, Constants DEF ImageObjects
  <2> HIDE DEF v
  <2>5. image'[i] = v /\ IsImage(i)' /\ \A j \in Images : j # i => image'[j] = image[j]
    BY <1>1, <2>3, <2>4, Constants DEF IsImage
  <2>6. v.mtime # 0 /\ \A p \in Subpictures : IsSubpicture(links, p) /\ shows[p] = i =>
          last_commit[p] <= v.mtime /\ last_commit[p] < v.mtime
    BY <1>3, <1>13, <2>1, <2>4
  <2> HIDE DEF o
  <2>7. image'[i].mtime # 0 /\ image'[i].width = image[i].width
    BY <2>4, <2>5, <2>6 DEF o
  <2>8. \A p \in Subpictures : IsSubpicture(links, p) /\ shows[p] = i =>
          /\ IsImage(i)' /\ image'[i].width = image[i].width
          /\ last_commit[p] <= image'[i].mtime
          /\ image'[i].mapped \/ last_commit[p] < image'[i].mtime
    BY <2>5, <2>6, <2>7
  <2> QED
    BY <1>12, <2>1, <2>5, <2>7, <2>8
<1>18. ASSUME NEW i \in Images, NEW d \in Pixels,
              Write(i, d) \/ \E s \in Surfaces : GetImage(s, i, d)
       PROVE  Goal
  <2> DEFINE o == image[i]
             v == [width |-> o.width, mapped |-> o.mapped, mtime |-> o.mtime, data |-> d]
  <2>1. /\ UNCHANGED <<links, shows, width, last_commit, bitmap>>
        /\ IsImage(i) /\ o.mapped
    BY <1>18 DEF Write, GetImage, Promised, subVars
  <2>2. o \in ImageObjects
    BY <1>1, <2>1 DEF IsImage
  <2>3. image' = [image EXCEPT ![i] = v]
    BY <1>1, <1>18, <2>2 DEF Write, GetImage, Promised, ImageObjects
  <2>4. /\ v \in ImageObjects /\ v.width = o.width
        /\ v.mtime = o.mtime /\ v.mapped
    BY <2>1, <2>2, Constants DEF ImageObjects
  <2> HIDE DEF v
  <2>5. image'[i] = v /\ IsImage(i)' /\ \A j \in Images : j # i => image'[j] = image[j]
    BY <1>1, <2>3, <2>4, Constants DEF IsImage
  <2>6. v.mtime # 0 /\ \A p \in Subpictures : IsSubpicture(links, p) /\ shows[p] = i =>
          last_commit[p] <= v.mtime
    BY <1>1, <1>13, <2>1, <2>2, <2>4 DEF NewAreBlank
  <2> HIDE DEF o
  <2>7. image'[i].mtime # 0 /\ image'[i].width = image[i].width /\ image'[i].mapped
    BY <2>4, <2>5, <2>6 DEF o
  <2>8. \A p \in Subpictures : IsSubpicture(links, p) /\ shows[p] = i =>
          /\ IsImage(i)' /\ image'[i].width = image[i].width
          /\ last_commit[p] <= image'[i].mtime
          /\ image'[i].mapped \/ last_commit[p] < image'[i].mtime
    BY <2>5, <2>6, <2>7
  <2> QED
    BY <1>12, <2>1, <2>5, <2>7, <2>8
<1>19. ASSUME UNCHANGED vars
       PROVE  Goal
  <2>1. UNCHANGED <<links, image, shows, width, last_commit, bitmap>>
    BY <1>19 DEF vars, subVars
  <2>2. \A o \in Subpictures : IsSubpicture(links', o) =>
          IsSubpicture(links, o) /\ Covered(o)' \subseteq Covered(o)
    BY <2>1 DEF Covered
  <2> QED
    BY <1>4, <2>1, <2>2
<1> HIDE DEF Goal
<1>20. \A s \in Surfaces : CreateSurface(s) \/ DestroySurface(s) \/ RenderSubpictures(s) => Goal
  BY <1>5, <1>11
<1>21. \A p \in Subpictures :
         /\ DestroySubpicture(p) => Goal
         /\ \A i \in Images : CreateSubpicture(p, i) \/ SetSubpictureImage(p, i) => Goal
         /\ \A q \in SurfaceLists : DeassociateSubpicture(p, q) => Goal
         /\ \A q \in SurfaceLists, r \in Rects : Associates(p, q, r) => Goal
  BY <1>6, <1>7, <1>8, <1>9, <1>10
<1>22. \A i \in Images :
         /\ DestroyImage(i) \/ MapBuffer(i) \/ UnmapBuffer(i) => Goal
         /\ \A w \in Widths : CreateImage(i, w) => Goal
         /\ \A d \in Pixels : Write(i, d) \/ (\E s \in Surfaces : GetImage(s, i, d)) => Goal
  BY <1>14, <1>15, <1>16, <1>17, <1>18
<1>23. Next => Goal
  BY <1>20, <1>21, <1>22 DEF Next, Associates
<1> QED
  BY <1>2, <1>19, <1>23 DEF PixelsInv, Goal

(***************************************************************************)
(* The inductive invariant of committed pixels.  The upload is skipped by  *)
(* comparing times, so that it holds only while the application keeps the  *)
(* image a subpicture shows, replaces it only before the first upload,     *)
(* writes images only while they are mapped, and associates no new area of *)
(* a subpicture whose upload is current: "pixels" says so.                 *)
(***************************************************************************)
THEOREM PixelsInvariant ==
  ASSUME "pixels" \in AppRules
  PROVE  Spec => []PixelsInv
<1>1. Init => PixelsInv
  <2> SUFFICES ASSUME Init
               PROVE  PixelsInv
    OBVIOUS
  <2>1. (\A p \in Subpictures : ~IsSubpicture(links, p)) /\ \A i \in Images : ~IsImage(i)
    BY DEF Init, IsSubpicture, IsImage
  <2> QED
    BY <2>1, TypeInit DEF PixelsInv, ImagesFit, NewAreBlank, CommitsAreKept
<1>2. PixelsInv /\ [Next]_vars => PixelsInv'
  BY PixelsStep
<1> QED
  BY <1>1, <1>2, PTL DEF Spec

(***************************************************************************)
(* commit_subpicture skips the upload only when VDPAU has the pixels of    *)
(* the image, wherever the subpicture is associated, if the application    *)
(* keeps to "pixels".                                                      *)
(***************************************************************************)
THEOREM CommitsAreNewest ==
  ASSUME "pixels" \in AppRules
  PROVE  Spec => []CommittedIsNewest
<1>1. PixelsInv => CommittedIsNewest
  <2> SUFFICES ASSUME PixelsInv, NEW p \in Subpictures, IsSubpicture(links, p),
                      ~image[shows[p]].mapped, IsCommitted(p)
               PROVE  \A x \in Covered(p) : bitmap[p][x] = image[shows[p]].data
    BY DEF CommittedIsNewest
  <2>1. /\ image \in [Images -> ImageObjects \cup {NONE}]
        /\ last_commit \in [Subpictures -> 0..MaxTime]
        /\ ImagesFit /\ CommitsAreKept
    BY DEF PixelsInv, TypeInv, TypeOK
  <2>2. image[shows[p]] \in ImageObjects
    BY <2>1 DEF ImagesFit, IsImage
  <2>3. image[shows[p]].mtime \in Nat /\ last_commit[p] \in Nat
    BY <2>1, <2>2 DEF ImageObjects
  <2>4. last_commit[p] = image[shows[p]].mtime
    BY <2>1, <2>3 DEF CommitsAreKept, IsCommitted
  <2> QED
    BY <2>1, <2>4 DEF CommitsAreKept
<1> QED
  BY <1>1, PixelsInvariant, PTL

-----------------------------------------------------------------------------
(***************************************************************************)
(* Assertions.                                                             *)
(***************************************************************************)
(* The inductive invariant of the assertions.                              *)
RunInv == PixelsInv /\ LinksInv /\ NeverAborts

(* No step fails an assertion: lists that are taken apart are not empty,   *)
(* and what a surface renders exists and has the size of its image.        *)
LEMMA RunStep ==
  ASSUME {"once", "paired"} \subseteq AppRules, RunInv, [Next]_vars
  PROVE  NeverAborts'
<1>1. links \in Full /\ links \in Sound /\ ImagesFit /\ ~aborted
  BY DEF RunInv, PixelsInv, TypeInv, LinksInv, NeverAborts
<1>2. ASSUME NEW s \in Surfaces, DestroySurface(s)
      PROVE  ~aborted'
  <2>1. PICK n : n = Len(links.surface[s])
    OBVIOUS
  <2>2. IsSurface(links, s)
    BY <1>2 DEF DestroySurface
  <2>3. n \in Nat
    BY <1>1, <2>1, <2>2, SoundLists, EntryAt
  <2>4. \A k \in 0..(n - 1) : CanRelease(Releasing(s, n)[k], s)
    BY <1>1, <2>1, <2>2, <2>3, ReleasingFull
  <2>5. aborted' = \E k \in 0..(n - 1) : ~CanRelease(Releasing(s, n)[k], s)
    BY <1>2, <2>1 DEF DestroySurface
  <2> QED
    BY <2>4, <2>5
<1>3. ASSUME NEW p \in Subpictures, NEW q \in SurfaceLists, DeassociateSubpicture(p, q)
      PROVE  ~aborted'
  <2>1. \A k \in DOMAIN q : Pairs(links, p, q[k]) /\ \A j \in DOMAIN q : q[j] = q[k] => j = k
    BY <1>3 DEF DeassociateSubpicture, Promised
  <2> DEFINE f == Deassociating(p, q)
  <2>2. \A k \in 0..(Len(q) - 1) : Pairs(f[k], p, q[k + 1])
    BY <1>1, <2>1, DeassociatingFull
  <2>3. PICK n \in 0..Len(q) :
          /\ n < Len(q) => ~(IsSurface(links, q[n + 1]) /\ f[(n + 1) - 1].sub[p] # <<>>)
          /\ aborted' = (n < Len(q) /\ IsSurface(links, q[n + 1]))
    BY <1>3 DEF DeassociateSubpicture
  <2> HIDE DEF f
  <2>4. Len(q) \in Nat
    BY SurfaceListHolds
  <2>5. ASSUME n < Len(q), IsSurface(links, q[n + 1])
        PROVE  FALSE
    <3>1. n \in 0..(Len(q) - 1) /\ (n + 1) - 1 = n
      BY <2>3, <2>4, <2>5
    <3>2. f[n].sub[p] = <<>>
      BY <2>3, <2>5, <3>1
    <3>3. Range(f[n].sub[p]) # {}
      BY <2>2, <3>1 DEF Pairs
    <3> QED
      BY <3>2, <3>3, EmptyList DEF Distinct
  <2> QED
    BY <2>3, <2>5
<1>4. ASSUME NEW s \in Surfaces, RenderSubpictures(s)
      PROVE  ~aborted'
  <2> DEFINE q == links.surface[s]
             sub(k) == links.block[q[k]].sub
  <2>1. IsSurface(links, s)
    BY <1>4 DEF RenderSubpictures
  <2>2. PICK n \in 0..Len(q) :
          aborted' = (/\ n < Len(q)
                      /\ ~(/\ IsSubpicture(links, sub(n + 1))
                           /\ IsImage(shows[sub(n + 1)]) =>
                                width[sub(n + 1)] = image[shows[sub(n + 1)]].width))
    BY <1>4 DEF RenderSubpictures
  <2>3. q \in Seq(Blocks) /\ Range(q) \subseteq Allocated(links) /\ Len(q) \in Nat
    BY <1>1, <2>1, FullLists, SoundLists, EntryAt DEF OfSurface
  <2>4. ASSUME n < Len(q)
        PROVE  /\ IsSubpicture(links, sub(n + 1))
               /\ width[sub(n + 1)] = image[shows[sub(n + 1)]].width
    <3>1. n \in 0..Len(q) /\ Len(q) \in Nat
      BY <2>2, <2>3
    <3> HIDE DEF q
    <3>2. n + 1 \in 1..Len(q)
      BY <2>4, <3>1
    <3>3. q[n + 1] \in Allocated(links)
      BY <2>3, <3>2, EntryAt
    <3>4. IsSubpicture(links, sub(n + 1))
      BY <1>1, <3>3 DEF Full, ListedTwice
    <3>5. sub(n + 1) \in Subpictures
      BY <1>1, <2>1, <3>2, RenderedAreSubpictures DEF q
    <3> QED
      BY <1>1, <3>4, <3>5 DEF ImagesFit
  <2> QED
    BY <2>2, <2>4
<1>5. ASSUME NEW s \in Surfaces, CreateSurface(s)
      PROVE  ~aborted'
  BY <1>1, <1>5 DEF CreateSurface
<1>6. ASSUME NEW p \in Subpictures, NEW i \in Images,
             CreateSubpicture(p, i) \/ SetSubpictureImage(p, i)
      PROVE  ~aborted'
  BY <1>1, <1>6 DEF CreateSubpicture, SetSubpictureImage
<1>7. ASSUME NEW p \in Subpictures, DestroySubpicture(p)
      PROVE  ~aborted'
  BY <1>1, <1>7 DEF DestroySubpicture
<1>8. ASSUME NEW p \in Subpictures, NEW q \in SurfaceLists, NEW r \in Rects,
             Associates(p, q, r)
      PROVE  ~aborted'
  BY <1>1, <1>8, AssociatesSome
<1>9. ASSUME NEW i \in Images,
             \/ DestroyImage(i) \/ MapBuffer(i) \/ UnmapBuffer(i)
             \/ \E w \in Widths : CreateImage(i, w)
             \/ \E d \in Pixels : Write(i, d) \/ \E s \in Surfaces : GetImage(s, i, d)
      PROVE  ~aborted'
  BY <1>1, <1>9 DEF DestroyImage, MapBuffer, UnmapBuffer, CreateImage, Write, GetImage
<1>10. UNCHANGED vars => ~aborted'
  BY <1>1 DEF vars
<1> QED
  BY <1>2, <1>3, <1>4, <1>5, <1>6, <1>7, <1>8, <1>9, <1>10
     DEF NeverAborts, Next, Associates

(***************************************************************************)
(* No ASSERT of vdpau_subpic.c, nor of vaDestroySurfaces, fails, whichever *)
(* of surface and subpicture is destroyed first, if no pair is associated  *)
(* twice, only associated pairs are taken apart, and images stay while a   *)
(* subpicture shows them.                                                  *)
(***************************************************************************)
THEOREM NothingAborts ==
  ASSUME {"once", "paired", "pixels"} \subseteq AppRules
  PROVE  Spec => []NeverAborts
<1>1. Spec => []PixelsInv
  BY PixelsInvariant
<1>2. Spec => []LinksInv
  BY LinksInvariant
<1>3. Init => NeverAborts
  BY DEF Init, NeverAborts
<1>4. NeverAborts /\ PixelsInv /\ LinksInv /\ [Next]_vars => NeverAborts'
  BY RunStep DEF RunInv
<1> QED
  BY <1>1, <1>2, <1>3, <1>4, PTL DEF Spec
=============================================================================
