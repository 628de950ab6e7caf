---------------------------- MODULE MemMapProofs ----------------------------
(***************************************************************************)
(* Proofs about MemMap, for memory of any size and layout, descriptors of  *)
(* any size, and any number of changes made by event handlers.             *)
(***************************************************************************)
EXTENDS MemMap, FiniteSetTheorems, WellFoundedInduction, TLAPS

Page == 0..Pages - 1
Memories == [Page -> Types]
Starts(f) == {p \in Page : RunStart(f, p)}

\* A descriptor of the firmware, and one as it was read.
Descriptor == [type : Types \ {Hole}, start : Nat, pages : Nat]
ReadDescriptor == [type : Nat, start : Nat, pages : Nat]

-----------------------------------------------------------------------------
\* A set of natural numbers that is not empty has a least one.
LEMMA Least ==
  ASSUME NEW S, S \subseteq Nat, S # {}
  PROVE  \E x \in S : \A y \in S : x <= y
<1>1. PICK x \in S : \A y \in S : ~(<<y, x>> \in OpToRel(<, Nat))
  <2> DEFINE R == OpToRel(<, Nat)
  <2>1. IsWellFoundedOn(R, Nat)
    BY NatLessThanWellFounded
  <2> HIDE DEF R
  <2>2. \E x \in S : \A y \in S : ~(<<y, x>> \in R)
    BY <2>1, WFMin
  <2> QED BY <2>2 DEF R
<1>2. \A y \in S : ~(y < x)
  BY <1>1 DEF OpToRel
<1> QED BY <1>2

\* A run of pages of one type ends behind its first page, and within memory.
LEMMA RunEnds ==
  ASSUME NEW f \in Memories, NEW p \in Page
  PROVE  /\ RunEnd(f, p) \in p + 1..Pages
         /\ \A r \in p..RunEnd(f, p) - 1 : f[r] = f[p]
         /\ RunEnd(f, p) < Pages => f[RunEnd(f, p)] # f[p]
<1> USE MemMapAssumptions
<1> DEFINE S == {q \in p + 1..Pages : q < Pages => f[q] # f[p]}
<1>1. S \subseteq Nat /\ Pages \in S
  BY DEF Page
<1>2. PICK q \in S : \A r \in S : q <= r
  <2> HIDE DEF S
  <2> QED BY <1>1, Least
<1>3. \A r \in p..q - 1 : f[r] = f[p]
  BY <1>2 DEF Page
<1>4. \E x \in p + 1..Pages : /\ \A r \in p..x - 1 : f[r] = f[p]
                              /\ x < Pages => f[x] # f[p]
  BY <1>2, <1>3
<1> QED BY <1>4 DEF RunEnd

\* The elements of a set that are below x.
Below(S, x) == {t \in S : t < x}

\* A set of pages is finite.
LEMMA FinitePages ==
  ASSUME NEW S, S \subseteq Page
  PROVE  IsFiniteSet(S) /\ Cardinality(S) \in Nat /\ S \subseteq Nat
<1>1. IsFiniteSet(Page) /\ Page \subseteq Nat
  <2>1. 0 \in Int /\ Pages - 1 \in Int
    BY MemMapAssumptions
  <2> QED BY <2>1, FS_Interval DEF Page
<1>2. IsFiniteSet(S)
  BY <1>1, FS_Subset
<1> QED BY <1>1, <1>2, FS_CardinalityType

\* The elements of a set of pages can be counted from below: for each k there is one that
\* has k - 1 below it (the least k for which there were none leads to a contradiction).
LEMMA Ranked ==
  ASSUME NEW S, S \subseteq Page, NEW k \in 1..Cardinality(S)
  PROVE  \E s \in S : Cardinality(Below(S, s)) = k - 1
<1> DEFINE n == Cardinality(S)
           Ranks == {Cardinality(Below(S, s)) + 1 : s \in S}
           Bad == (1..n) \ Ranks
<1>1. IsFiniteSet(S) /\ n \in Nat /\ S \subseteq Nat
  BY FinitePages
<1>2. \A s \in S : Below(S, s) \subseteq S /\ \A t : t \in Below(S, s) <=> t \in S /\ t < s
  BY DEF Below
<1>3. \A s \in S : IsFiniteSet(Below(S, s)) /\ Cardinality(Below(S, s)) \in Nat
  BY <1>1, <1>2, FS_Subset, FS_CardinalityType
<1>4. Bad = {}
  <2>1. SUFFICES ASSUME Bad # {} PROVE FALSE
    OBVIOUS
  <2>2. PICK c \in Bad : \A d \in Bad : c <= d
    <3>1. Bad \subseteq Nat
      BY <1>1
    <3> HIDE DEF Bad
    <3> QED BY <2>1, <3>1, Least
  <2> HIDE DEF Ranks
  <2>3. c \in 1..n /\ c \notin Ranks /\ \A d \in 1..c - 1 : d \in Ranks
    BY <1>1, <2>2
  <2>4. CASE c = 1
    <3>1. S # {}
      BY <1>1, <2>3, FS_EmptySet
    <3>2. PICK s \in S : \A t \in S : s <= t
      BY <1>1, <3>1, Least
    <3>3. \A t \in S : ~(t < s)
      BY <1>1, <3>2
    <3>4. Below(S, s) = {}
      BY <1>2, <3>3
    <3>5. Cardinality(Below(S, s)) + 1 = 1
      BY <3>4, FS_EmptySet
    <3> QED BY <2>3, <2>4, <3>5 DEF Ranks
  <2>5. CASE c > 1
    <3>1. c - 1 \in Ranks
      BY <1>1, <2>3, <2>5
    <3>2. PICK b \in S : Cardinality(Below(S, b)) + 1 = c - 1
      BY <3>1 DEF Ranks
    <3> DEFINE Up == {t \in S : t > b}
               Low == Below(S, b) \cup {b}
    <3>3. IsFiniteSet(Low) /\ Cardinality(Low) = c - 1
      <4>1. b \notin Below(S, b)
        BY <1>1, <1>2
      <4>2. IsFiniteSet(Low) /\ Cardinality(Low) = Cardinality(Below(S, b)) + 1
        BY <1>3, <4>1, FS_AddElement
      <4> QED BY <3>2, <4>2
    <3>4. \A t \in S : t \in Low <=> ~(t > b)
      BY <1>1, <1>2
    <3>5. Up # {}
      <4>1. ASSUME Up = {} PROVE Low = S
        <5>1. \A t \in S : t \in Low
          BY <3>4, <4>1
        <5>2. Low \subseteq S
          BY <1>2
        <5> QED BY <5>1, <5>2
      <4>2. Cardinality(Low) # n
        BY <1>1, <2>3, <3>3
      <4> QED BY <4>1, <4>2
    <3>6. PICK s \in Up : \A t \in Up : s <= t
      <4>1. Up \subseteq Nat
        BY <1>1
      <4> HIDE DEF Up
      <4> QED BY <3>5, <4>1, Least
    <3>7. \A t \in S : t < s <=> ~(t > b)
      BY <1>1, <3>6
    <3>8. Below(S, s) = Low
      <4>1. \A t : t \in Below(S, s) <=> t \in Low
        BY <1>2, <3>4, <3>6, <3>7
      <4> QED BY <4>1
    <3>9. Cardinality(Below(S, s)) + 1 = c
      <4>1. Cardinality(Below(S, s)) = c - 1
        BY <3>3, <3>8
      <4> QED BY <4>1, <2>3, <1>1
    <3> QED BY <2>3, <3>6, <3>9 DEF Ranks
  <2> QED BY <1>1, <2>3, <2>4, <2>5
<1>5. PICK s \in S : Cardinality(Below(S, s)) + 1 = k
  BY <1>4
<1> QED BY <1>3, <1>5

\* The firmware's map: descriptor k is that of the k-th run of pages.
LEMMA DescriptorsAre ==
  ASSUME NEW f \in Memories
  PROVE  /\ Descriptors(f) \in Seq(Descriptor)
         /\ Len(Descriptors(f)) = Cardinality(Starts(f))
         /\ \A k \in DOMAIN Descriptors(f) : \E p \in Starts(f) :
              /\ Cardinality(Below(Starts(f), p)) = k - 1
              /\ Descriptors(f)[k] =
                   [type |-> f[p], start |-> p, pages |-> RunEnd(f, p) - p]
<1> DEFINE S == Starts(f)
           n == Cardinality(S)
           At(k) == CHOOSE s \in S : Cardinality(Below(S, s)) = k - 1
           d(k) == [type |-> f[At(k)], start |-> At(k), pages |-> RunEnd(f, At(k)) - At(k)]
<1>1. n \in Nat /\ S \subseteq Page
  BY FinitePages DEF Starts
<1>2. Descriptors(f) = [k \in 1..n |-> d(k)]
  BY Zenon DEF Descriptors, Starts, Below, Page
<1> HIDE DEF S
<1>3. ASSUME NEW k \in 1..n
      PROVE  At(k) \in S /\ Cardinality(Below(S, At(k))) = k - 1
  <2>1. \E s \in S : Cardinality(Below(S, s)) = k - 1
    BY <1>1, Ranked
  <2> QED BY <2>1
<1> HIDE DEF At
<1>4. ASSUME NEW k \in 1..n
      PROVE  d(k) \in Descriptor
  <2>1. At(k) \in Page /\ RunStart(f, At(k))
    BY <1>3 DEF S, Starts
  <2>2. RunEnd(f, At(k)) \in At(k) + 1..Pages
    BY <2>1, RunEnds
  <2>3. At(k) \in Nat /\ RunEnd(f, At(k)) - At(k) \in Nat
    BY <2>1, <2>2, MemMapAssumptions DEF Page
  <2>4. f[At(k)] \in Types \ {Hole}
    BY <2>1 DEF Memories, RunStart
  <2> QED BY <2>3, <2>4 DEF Descriptor
<1> HIDE DEF d
<1>5. Descriptors(f) \in Seq(Descriptor) /\ Len(Descriptors(f)) = n
      /\ DOMAIN Descriptors(f) = 1..n
  <2> HIDE DEF n
  <2> QED BY <1>1, <1>2, <1>4
<1>6. ASSUME NEW k \in DOMAIN Descriptors(f)
      PROVE  \E p \in S : /\ Cardinality(Below(S, p)) = k - 1
                          /\ Descriptors(f)[k] =
                               [type |-> f[p], start |-> p, pages |-> RunEnd(f, p) - p]
  <2>1. k \in 1..n
    BY <1>5
  <2>2. Descriptors(f)[k] = d(k)
    BY <1>2, <2>1
  <2> QED BY <1>3, <2>1, <2>2 DEF d
<1> QED BY <1>5, <1>6 DEF S

\* The types are told apart by their numbers.
LEMMA Codes ==
  /\ \A t \in Types \ {Hole} : Code[t] \in Nat /\ (Code[t] = 1 => t = "LoaderCode")
  /\ Code["LoaderCode"] = 1
BY DEF Types, RAMTypes, Hole, Code

-----------------------------------------------------------------------------
\* Quotient and remainder are the only ones.
LEMMA Unique ==
  ASSUME NEW size \in Nat, NEW q \in Nat, NEW q2 \in Nat, NEW r \in Nat, NEW r2 \in Nat,
         r < size, r2 < size, size * q + r = size * q2 + r2
  PROVE  q = q2 /\ r = r2
<1>1. ASSUME NEW a \in Nat, NEW b \in Nat, NEW s \in Nat, NEW t \in Nat, s < size, t < size,
             size * a + s = size * b + t, a < b
      PROVE  FALSE
  <2>1. PICK d \in Nat : b = a + 1 + d
    <3>1. b - a - 1 \in Nat /\ b = a + 1 + (b - a - 1)
      BY <1>1
    <3> QED BY <3>1
  <2>2. size * b = size * a + size + size * d
    BY <2>1
  <2>3. size * d \in Nat /\ size * a \in Nat
    OBVIOUS
  <2> QED BY <1>1, <2>2, <2>3
<1>2. ~(q < q2) /\ ~(q2 < q)
  BY <1>1
<1>3. q = q2
  BY <1>2
<1> QED BY <1>3

\* What div and mod compute.
LEMMA Division ==
  ASSUME NEW w \in Nat, NEW size \in Nat, size > 0
  PROVE  /\ w \div size \in Nat /\ w % size \in Nat /\ w % size < size
         /\ w = size * (w \div size) + (w % size)
OBVIOUS

\* The words of a descriptor are at consecutive places.
LEMMA NextWord ==
  ASSUME NEW w \in Nat, NEW size \in Nat, size > 0, NEW j \in Nat, (w % size) + j < size
  PROVE  (w + j) \div size = w \div size /\ (w + j) % size = (w % size) + j
<1> DEFINE q == w \div size
           r == w % size
           q2 == (w + j) \div size
           r2 == (w + j) % size
<1>1. q \in Nat /\ r \in Nat /\ w = size * q + r
  BY Division
<1>2. w + j \in Nat
  OBVIOUS
<1>3. q2 \in Nat /\ r2 \in Nat /\ r2 < size /\ w + j = size * q2 + r2
  BY <1>2, Division
<1>4. r + j \in Nat /\ r + j < size
  BY <1>1
<1> HIDE DEF q, r, q2, r2
<1>5. size * q + (r + j) = size * q2 + r2
  <2>1. size * q \in Nat /\ size * q2 \in Nat
    BY <1>1, <1>3
  <2> QED BY <1>1, <1>3, <2>1
<1>6. q = q2 /\ r + j = r2
  BY <1>1, <1>3, <1>4, <1>5, Unique
<1> QED BY <1>6 DEF q, r, q2, r2

\* A word of the buffer is a field of some descriptor, or 0.
LEMMA Words ==
  ASSUME NEW ds \in Seq(Descriptor), NEW size \in Nat, size > 0, NEW w \in Nat
  PROVE  /\ Word(ds, size, w) \in Nat
         /\ Word(ds, size, w) # 0 =>
              /\ w \div size + 1 \in DOMAIN ds /\ w % size \in {0, 1, 3, 4}
              /\ LET d == ds[w \div size + 1] IN
                 /\ w % size = 0 => Word(ds, size, w) = Code[d.type]
                 /\ w % size = 1 => Word(ds, size, w) = d.start * PageSize
                 /\ w % size = 3 => Word(ds, size, w) = d.pages
                 /\ w % size = 4 => Word(ds, size, w) = 15
<1> DEFINE k == w \div size + 1
           f == w % size
           W == Word(ds, size, w)
<1>1. k \in Nat /\ k > 0 /\ f \in Nat
  BY Division
<1>2. W = IF k <= Len(ds) /\ f < 5 THEN Fields(ds[k])[f + 1] ELSE 0
  BY DEF Word
<1> HIDE DEF k, f, W
<1>3. CASE k <= Len(ds) /\ f < 5
  <2>1. k \in DOMAIN ds /\ ds[k] \in Descriptor
    BY <1>1, <1>3
  <2>2. Code[ds[k].type] \in Nat /\ ds[k].start * PageSize \in Nat /\ ds[k].pages \in Nat
    <3>1. ds[k].type \in Types \ {Hole} /\ ds[k].start \in Nat /\ ds[k].pages \in Nat
      BY <2>1 DEF Descriptor
    <3> QED BY <3>1, Codes, SMT DEF PageSize
  <2>3. f \in {0, 1, 2, 3, 4}
    BY <1>1, <1>3
  <2>4. /\ f = 0 => W = Code[ds[k].type]
        /\ f = 1 => W = ds[k].start * PageSize
        /\ f = 2 => W = 0
        /\ f = 3 => W = ds[k].pages
        /\ f = 4 => W = 15
    BY <1>2, <1>3 DEF Fields
  <2>5. W \in Nat /\ (W # 0 => f \in {0, 1, 3, 4})
    BY <2>2, <2>3, <2>4
  <2> QED BY <2>1, <2>4, <2>5 DEF W, k, f
<1>4. CASE ~(k <= Len(ds) /\ f < 5)
  BY <1>2, <1>4 DEF W
<1> QED BY <1>3, <1>4

\* The fields of descriptor k are at their places.
LEMMA FieldWords ==
  ASSUME NEW ds \in Seq(Descriptor), NEW size \in Nat, size >= 5, NEW w \in Nat,
         w % size = 0, w \div size + 1 \in DOMAIN ds
  PROVE  LET d == ds[w \div size + 1] IN
         /\ Word(ds, size, w) = Code[d.type]
         /\ Word(ds, size, w + 1) = d.start * PageSize
         /\ Word(ds, size, w + 3) = d.pages
<1> DEFINE k == w \div size + 1
<1>1. ASSUME NEW j \in {0, 1, 3}
      PROVE  Word(ds, size, w + j) = Fields(ds[k])[j + 1]
  <2>1. (w + j) \div size = w \div size /\ (w + j) % size = j
    BY NextWord
  <2>2. k <= Len(ds) /\ j < 5
    OBVIOUS
  <2>3. (w + j) \div size + 1 = k
    BY <2>1
  <2> HIDE DEF k
  <2> QED BY <2>1, <2>2, <2>3 DEF Word
<1>2. /\ Word(ds, size, w) = Fields(ds[k])[1]
      /\ Word(ds, size, w + 1) = Fields(ds[k])[2]
      /\ Word(ds, size, w + 3) = Fields(ds[k])[4]
  BY <1>1
<1> HIDE DEF k
<1>3. /\ Word(ds, size, w) = Code[ds[k].type]
      /\ Word(ds, size, w + 1) = ds[k].start * PageSize
      /\ Word(ds, size, w + 3) = ds[k].pages
  BY <1>2 DEF Fields
<1> QED BY <1>3 DEF k

\* A descriptor as it ought to be read.
Exact(d) == [type |-> Code[d.type], start |-> d.start * PageSize, pages |-> d.pages]

\* GetMemoryMap takes three words for each descriptor it decodes.
LEMMA DecodedAre ==
  ASSUME NEW ds \in Seq(Descriptor), NEW size \in Nat, size >= 5
  PROVE  /\ Decoded(ds, size) \in Seq(ReadDescriptor)
         /\ DOMAIN Decoded(ds, size) = 1..(Len(ds) * size + 5) \div 6
         /\ \A k \in DOMAIN Decoded(ds, size) :
              /\ k \in Nat /\ k > 0
              /\ Decoded(ds, size)[k] =
                   [type |-> Word(ds, size, 6 * (k - 1)), start |-> Word(ds, size, 6 * (k - 1) + 1),
                    pages |-> Word(ds, size, 6 * (k - 1) + 3)]
<1> DEFINE n == (Len(ds) * size + 5) \div 6
           r(k) == [type |-> Word(ds, size, 6 * (k - 1)), start |-> Word(ds, size, 6 * (k - 1) + 1),
                    pages |-> Word(ds, size, 6 * (k - 1) + 3)]
<1>1. n \in Nat
  <2>1. Len(ds) \in Nat
    OBVIOUS
  <2>2. Len(ds) * size \in Nat
    BY <2>1
  <2>3. \A x \in Nat : (x + 5) \div 6 \in Nat
    OBVIOUS
  <2> QED BY <2>2, <2>3
<1>2. Decoded(ds, size) = [k \in 1..n |-> r(k)]
  <2>1. Len(ds) * size + Stride - 1 = Len(ds) * size + 5
    <3>1. \A x \in Nat : x + 6 - 1 = x + 5
      OBVIOUS
    <3>2. Len(ds) * size \in Nat
      OBVIOUS
    <3> QED BY <3>1, <3>2 DEF Stride
  <2> QED BY <2>1 DEF Decoded, Stride
<1>3. ASSUME NEW k \in 1..n
      PROVE  r(k) \in ReadDescriptor /\ k \in Nat /\ k > 0
  <2> HIDE DEF n
  <2>1. k \in Nat /\ k > 0
    BY <1>1
  <2>2. 6 * (k - 1) \in Nat /\ 6 * (k - 1) + 1 \in Nat /\ 6 * (k - 1) + 3 \in Nat
    BY <2>1
  <2>3. \A w \in Nat : Word(ds, size, w) \in Nat
    <3>1. size > 0
      OBVIOUS
    <3> QED BY <3>1, Words
  <2> QED BY <2>1, <2>2, <2>3 DEF ReadDescriptor
<1> HIDE DEF n, r
<1>4. Decoded(ds, size) \in Seq(ReadDescriptor) /\ DOMAIN Decoded(ds, size) = 1..n
  BY <1>1, <1>2, <1>3
<1>5. \A k \in 1..n : Decoded(ds, size)[k] = r(k)
  BY <1>2
<1> QED BY <1>3, <1>4, <1>5 DEF n, r

\* At whatever stride the map is read, what looks like the image is the image: no other word
\* is the number of LoaderCode with the address of the image behind it.
LEMMA ImageIsReal ==
  ASSUME NEW ds \in Seq(Descriptor), NEW size \in Nat, size >= 5,
         NEW k \in DOMAIN Decoded(ds, size), IsImage(Decoded(ds, size)[k])
  PROVE  \E j \in DOMAIN ds : /\ ds[j].type = "LoaderCode" /\ ds[j].start = RamStart
                              /\ Decoded(ds, size)[k].pages = ds[j].pages
<1> DEFINE w == 6 * (k - 1)
           j == w \div size + 1
           f == w % size
           d == ds[j]
<1>0. size > 0
  OBVIOUS
<1>1. w \in Nat
  <2>1. k \in Nat /\ k > 0
    BY DecodedAre
  <2> QED BY <2>1
<1>2. /\ Word(ds, size, w) = 1 /\ Word(ds, size, w + 1) = RamStart * PageSize
      /\ Decoded(ds, size)[k].pages = Word(ds, size, w + 3)
  <2>1. Decoded(ds, size)[k] = [type |-> Word(ds, size, w), start |-> Word(ds, size, w + 1),
                                pages |-> Word(ds, size, w + 3)]
    BY DecodedAre
  <2> HIDE DEF w
  <2> QED BY <2>1, Codes DEF IsImage
<1> HIDE DEF w
<1>3. /\ j \in DOMAIN ds /\ f \in {0, 1, 3, 4}
      /\ f = 1 => 1 = d.start * PageSize
      /\ f = 4 => 1 = 15
  <2>1. Word(ds, size, w) # 0
    BY <1>2
  <2> QED BY <1>0, <1>1, <1>2, <2>1, Words
<1>4. d \in Descriptor
  BY <1>3
<1> HIDE DEF d, j
<1>5. f = 0
  <2>1. f # 1
    <3>1. d.start \in Nat
      BY <1>4 DEF Descriptor
    <3> QED BY <1>3, <3>1, SMT DEF PageSize
  <2>2. f # 4
    BY <1>3
  <2>3. f # 3
    <3>1. SUFFICES ASSUME f = 3 PROVE FALSE
      OBVIOUS
    <3>2. (w + 1) % size = 4
      <4>1. (w % size) + 1 < size /\ (w % size) + 1 = 4 /\ 1 \in Nat
        BY <3>1
      <4> QED BY <1>0, <1>1, <3>1, <4>1, NextWord
    <3>3. RamStart * PageSize # 0 /\ RamStart * PageSize # 15
      BY MemMapAssumptions, SMT DEF PageSize
    <3>4. w + 1 \in Nat
      BY <1>1
    <3>5. Word(ds, size, w + 1) = 15
      <4>1. 4 # 0 /\ 4 # 1 /\ 4 # 3
        OBVIOUS
      <4> QED BY <1>0, <1>2, <3>2, <3>3, <3>4, <4>1, Words
    <3> QED BY <1>2, <3>3, <3>5
  <2> QED BY <1>3, <2>1, <2>2, <2>3
<1>6. /\ 1 = Code[d.type] /\ RamStart * PageSize = d.start * PageSize
      /\ Word(ds, size, w + 3) = d.pages
  BY <1>1, <1>2, <1>3, <1>5, FieldWords DEF d, j
<1>7. d.type = "LoaderCode"
  BY <1>4, <1>6, Codes DEF Descriptor
<1>8. d.start = RamStart
  <2>1. d.start \in Nat
    BY <1>4 DEF Descriptor
  <2> QED BY <1>6, <2>1, MemMapAssumptions, SMT DEF PageSize
<1> QED BY <1>2, <1>3, <1>6, <1>7, <1>8 DEF d

\* Descriptors of 48 bytes are read one by one.
LEMMA DecodedExactly ==
  ASSUME NEW ds \in Seq(Descriptor)
  PROVE  /\ DOMAIN Decoded(ds, Stride) = DOMAIN ds
         /\ \A k \in DOMAIN ds : Decoded(ds, Stride)[k] = Exact(ds[k])
<1> USE DEF Stride
<1>1. DOMAIN Decoded(ds, 6) = DOMAIN ds
  <2>1. Len(ds) \in Nat /\ DOMAIN ds = 1..Len(ds)
    OBVIOUS
  <2>2. (Len(ds) * 6 + 5) \div 6 = Len(ds)
    <3>1. \A x \in Nat : (x * 6 + 5) \div 6 = x
      OBVIOUS
    <3> QED BY <2>1, <3>1
  <2>3. 6 \in Nat /\ 6 >= 5
    OBVIOUS
  <2> QED BY <2>1, <2>2, <2>3, DecodedAre
<1>2. ASSUME NEW k \in DOMAIN ds
      PROVE  Decoded(ds, 6)[k] = Exact(ds[k])
  <2> DEFINE w == 6 * (k - 1)
  <2>1. w \in Nat /\ w % 6 = 0 /\ w \div 6 + 1 = k
    OBVIOUS
  <2>2. Decoded(ds, 6)[k] = [type |-> Word(ds, 6, w), start |-> Word(ds, 6, w + 1),
                             pages |-> Word(ds, 6, w + 3)]
    BY <1>1, DecodedAre
  <2> HIDE DEF w
  <2>3. /\ Word(ds, 6, w) = Code[ds[k].type] /\ Word(ds, 6, w + 1) = ds[k].start * PageSize
        /\ Word(ds, 6, w + 3) = ds[k].pages
    <3>1. 6 \in Nat /\ 6 >= 5 /\ w \div 6 + 1 \in DOMAIN ds
      BY <2>1
    <3> QED BY <2>1, <3>1, FieldWords
  <2> QED BY <2>2, <2>3 DEF Exact
<1> QED BY <1>1, <1>2

\* The first descriptor is read as it is, whatever the size; and none where there is none.
LEMMA DecodedFirst ==
  ASSUME NEW ds \in Seq(Descriptor), NEW size \in Nat, size >= 5,
         1 \in DOMAIN ds \cup DOMAIN Decoded(ds, size)
  PROVE  Decoded(ds, size)[1] = Exact(ds[1])
<1>1. Len(ds) \in Nat /\ DOMAIN ds = 1..Len(ds)
  OBVIOUS
<1>2. Len(ds) > 0
  <2>1. Len(ds) = 0 => (Len(ds) * size + 5) \div 6 = 0
    OBVIOUS
  <2> QED BY <1>1, <2>1, DecodedAre
<1>3. 1 \in DOMAIN Decoded(ds, size)
  <2>1. Len(ds) * size >= 5
    BY <1>1, <1>2
  <2>2. Len(ds) * size \in Nat
    BY <1>1
  <2>3. \A x \in Nat : x >= 5 => (x + 5) \div 6 \in Nat /\ (x + 5) \div 6 >= 1
    OBVIOUS
  <2> QED BY <2>1, <2>2, <2>3, DecodedAre
<1>4. Decoded(ds, size)[1] = [type |-> Word(ds, size, 0), start |-> Word(ds, size, 0 + 1),
                              pages |-> Word(ds, size, 0 + 3)]
  <2>1. 6 * (1 - 1) = 0 /\ 6 * (1 - 1) + 1 = 0 + 1 /\ 6 * (1 - 1) + 3 = 0 + 3
    OBVIOUS
  <2> QED BY <1>3, <2>1, DecodedAre
<1>5. 0 % size = 0 /\ 0 \div size + 1 = 1
  OBVIOUS
<1>6. /\ Word(ds, size, 0) = Code[ds[1].type] /\ Word(ds, size, 0 + 1) = ds[1].start * PageSize
      /\ Word(ds, size, 0 + 3) = ds[1].pages
  <2>1. 1 \in DOMAIN ds
    BY <1>1, <1>2
  <2>2. 0 \in Nat /\ 0 \div size + 1 \in DOMAIN ds
    BY <1>5, <2>1
  <2> QED BY <1>5, <2>2, FieldWords
<1> QED BY <1>4, <1>6 DEF Exact

-----------------------------------------------------------------------------
Using == {"main", "exit", "join", "done"}

StateTypes ==
  /\ pc \in {"heapMap", "locate", "alloc"} \cup Using
  /\ mem \in Memories /\ key \in Nat /\ DescriptorSize \in DescriptorSizes
  /\ m \in [descs : Seq(ReadDescriptor), key : Nat]
  /\ heapStart \in Nat /\ RamSize \in Nat
  /\ warned \in BOOLEAN /\ exited \in BOOLEAN

\* In memory f, the pages from the start of the image up to e are its code, and there is
\* no code right before it.
Image(f, e) ==
  /\ RamStart < e /\ e <= Pages
  /\ f[RamStart - 1] # "LoaderCode"
  /\ \A p \in RamStart..e - 1 : f[p] = "LoaderCode"

\* The pages from the end of the image up to e were allocated.
Allocated(f, e) ==
  /\ heapStart < e /\ e <= Pages
  /\ \A p \in heapStart..e - 1 : f[p] = "LoaderData"

\* What Locate will take for the image is the image, still, although the map may be old.
ImageInv ==
  /\ pc = "locate" => \A k \in DOMAIN m.descs :
                        IsImage(m.descs[k]) => Image(mem, RamStart + m.descs[k].pages)
  /\ pc = "alloc" /\ ~warned => Image(mem, heapStart)

\* From then on all of the runtime's memory is the program's.
OwnedInv == pc \in Using /\ ~warned => Image(mem, heapStart) /\ Allocated(mem, ramEnd)

\* The map that was read is that of the machine as long as its key is the current one, and
\* boot services have ended with such a one.
Current == m.descs = Decoded(Descriptors(mem), DescriptorSize)

MapInv ==
  /\ m.key <= key
  /\ pc = "exit" /\ m.key = key => Current
  /\ exited => Current
  /\ exited <=> pc \in {"join", "done"}

IInv == StateTypes /\ ImageInv /\ OwnedInv /\ MapInv

\* What a descriptor that was read consists of.
LEMMA ReadFields ==
  ASSUME NEW ds \in Seq(ReadDescriptor), NEW k \in DOMAIN ds
  PROVE  ds[k].type \in Nat /\ ds[k].start \in Nat /\ ds[k].pages \in Nat
<1>1. ds[k] \in ReadDescriptor
  OBVIOUS
<1> QED BY <1>1 DEF ReadDescriptor

\* The firmware's map is of its type.
LEMMA MapTypes ==
  ASSUME StateTypes
  PROVE  /\ Descriptors(mem) \in Seq(Descriptor)
         /\ DescriptorSize \in Nat /\ DescriptorSize >= 5
         /\ Decoded(Descriptors(mem), DescriptorSize) \in Seq(ReadDescriptor)
<1>1. Descriptors(mem) \in Seq(Descriptor)
  BY DescriptorsAre DEF StateTypes
<1>2. DescriptorSize \in Nat /\ DescriptorSize >= 5
  BY MemMapAssumptions DEF StateTypes
<1> QED BY <1>1, <1>2, DecodedAre

\* GetMemoryMap returns a map that is current.
LEMMA MapIsRead ==
  ASSUME StateTypes, GetMemoryMap
  PROVE  /\ m' \in [descs : Seq(ReadDescriptor), key : Nat] /\ m'.key = key
         /\ m'.descs = Decoded(Descriptors(mem), DescriptorSize)
<1> DEFINE ds == Decoded(Descriptors(mem), DescriptorSize)
<1>1. m' = [descs |-> ds, key |-> key] /\ ds \in Seq(ReadDescriptor) /\ key \in Nat
  BY MapTypes DEF GetMemoryMap, StateTypes
<1> HIDE DEF ds
<1>2. m' \in [descs : Seq(ReadDescriptor), key : Nat] /\ m'.key = key /\ m'.descs = ds
  BY <1>1
<1> QED BY <1>2 DEF ds

\* The descriptor that looks like the image covers pages of its code.
LEMMA ImageFound ==
  ASSUME StateTypes, NEW k \in DOMAIN Decoded(Descriptors(mem), DescriptorSize),
         IsImage(Decoded(Descriptors(mem), DescriptorSize)[k])
  PROVE  Image(mem, RamStart + Decoded(Descriptors(mem), DescriptorSize)[k].pages)
<1> DEFINE ds == Descriptors(mem)
           n == Decoded(ds, DescriptorSize)[k].pages
<1>1. PICK j \in DOMAIN ds : /\ ds[j].type = "LoaderCode" /\ ds[j].start = RamStart
                             /\ n = ds[j].pages
  BY MapTypes, ImageIsReal
<1>2. mem \in Memories
  BY DEF StateTypes
<1>3. PICK p \in Starts(mem) :
        ds[j] = [type |-> mem[p], start |-> p, pages |-> RunEnd(mem, p) - p]
  BY <1>2, DescriptorsAre
<1>4. p = RamStart /\ mem[p] = "LoaderCode" /\ n = RunEnd(mem, p) - p /\ p \in Page
  BY <1>1, <1>3 DEF Starts
<1>5. RunEnd(mem, p) \in p + 1..Pages /\ \A r \in p..RunEnd(mem, p) - 1 : mem[r] = mem[p]
  BY <1>2, <1>4, RunEnds
<1>6. RamStart + n = RunEnd(mem, p)
  BY <1>4, <1>5, MemMapAssumptions DEF Page
<1> HIDE DEF n
<1>7. Image(mem, RamStart + n)
  <2>1. mem[RamStart - 1] # "LoaderCode"
    BY <1>3, <1>4, MemMapAssumptions DEF Starts, RunStart
  <2> QED BY <1>4, <1>5, <1>6, <2>1, MemMapAssumptions DEF Image, Page
<1> QED BY <1>7 DEF n

\* At the start nothing is read and nothing is owned.
LEMMA Initial == Init => IInv
<1> SUFFICES ASSUME Init PROVE IInv
  OBVIOUS
<1>1. m \in [descs : Seq(ReadDescriptor), key : Nat] /\ m.key = 0 /\ key = 0
  BY DEF Init
<1>2. mem \in Memories
  BY MemMapAssumptions DEF Init, Memories, Page
<1>3. StateTypes
  BY <1>1, <1>2, MemMapAssumptions DEF Init, StateTypes
<1>4. ImageInv /\ OwnedInv
  BY DEF Init, ImageInv, OwnedInv, Using
<1>5. MapInv
  BY <1>1 DEF Init, MapInv
<1> QED BY <1>3, <1>4, <1>5 DEF IInv

\* An event handler changes pages that are not the program's, and the key.
LEMMA EventStep ==
  ASSUME IInv, Event
  PROVE  IInv'
<1> USE DEF runtime, table
<1>1. PICK p \in Page, t \in {"Conventional", "BootServicesData"} :
        mem[p] \in {"Conventional", "BootServicesData"} /\ mem' = [mem EXCEPT ![p] = t]
  BY DEF Event, Page
<1>2. ~exited /\ key' = key + 1
      /\ UNCHANGED <<pc, DescriptorSize, m, heapStart, RamSize, warned, exited>>
  BY DEF Event
<1>3. mem \in Memories /\ mem' \in Memories
  BY <1>1 DEF IInv, StateTypes, Memories, Types, RAMTypes
<1>4. /\ \A q \in Page : mem[q] \in {"LoaderCode", "LoaderData"} => mem'[q] = mem[q]
      /\ \A q \in Page : mem[q] # "LoaderCode" => mem'[q] # "LoaderCode"
  BY <1>1, <1>3 DEF Memories
<1>5. StateTypes'
  BY <1>2, <1>3 DEF IInv, StateTypes
<1>6. ASSUME NEW e \in Nat, Image(mem, e) PROVE Image(mem', e)
  <2>1. RamStart - 1 \in Page /\ \A q \in RamStart..e - 1 : q \in Page
    BY <1>6, MemMapAssumptions DEF Image, Page
  <2> QED BY <1>4, <1>6, <2>1 DEF Image
<1>7. ImageInv'
  <2>1. pc = "locate" => \A k \in DOMAIN m.descs :
                           IsImage(m.descs[k]) => Image(mem', RamStart + m.descs[k].pages)
    <3>1. \A k \in DOMAIN m.descs : RamStart + m.descs[k].pages \in Nat
      <4>1. m.descs \in Seq(ReadDescriptor)
        BY DEF IInv, StateTypes
      <4>2. \A k \in DOMAIN m.descs : m.descs[k].pages \in Nat
        BY <4>1, ReadFields
      <4> QED BY <4>2, MemMapAssumptions
    <3> QED BY <1>6, <3>1 DEF IInv, ImageInv
  <2>2. pc = "alloc" /\ ~warned => Image(mem', heapStart)
    BY <1>2, <1>6 DEF IInv, ImageInv, StateTypes
  <2> QED BY <1>2, <2>1, <2>2 DEF ImageInv, IsImage
<1>8. OwnedInv'
  <2>1. SUFFICES ASSUME pc \in Using, ~warned
                 PROVE  Image(mem', heapStart) /\ Allocated(mem', ramEnd)
    BY <1>2 DEF OwnedInv, ramEnd, Allocated
  <2>2. Image(mem, heapStart) /\ Allocated(mem, ramEnd)
    BY <2>1 DEF IInv, OwnedInv
  <2>3. \A q \in heapStart..ramEnd - 1 : q \in Page
    BY <2>2, MemMapAssumptions DEF IInv, StateTypes, ramEnd, Page, Allocated
  <2>4. Allocated(mem', ramEnd)
    BY <1>4, <2>2, <2>3 DEF Allocated
  <2> QED BY <1>6, <2>2, <2>4 DEF IInv, StateTypes
<1>9. MapInv'
  <2>1. m.key \in Nat /\ key \in Nat /\ m.key <= key
    BY DEF IInv, StateTypes, MapInv
  <2>2. m.key <= key' /\ m.key # key'
    BY <1>2, <2>1
  <2> QED BY <1>2, <2>2 DEF IInv, MapInv
<1> QED BY <1>5, <1>7, <1>8, <1>9 DEF IInv

\* allocateHeap reads the map, or warns.
LEMMA HeapMapStep ==
  ASSUME IInv, HeapMap
  PROVE  IInv'
<1> USE DEF firmware, table
<1>1. pc = "heapMap" /\ UNCHANGED <<mem, key, DescriptorSize, heapStart, RamSize, exited>>
  BY DEF HeapMap
<1>2. ~exited
  BY <1>1 DEF IInv, MapInv
<1>3. CASE GetMemoryMap /\ pc' = "locate" /\ UNCHANGED warned
  <2>1. /\ m' \in [descs : Seq(ReadDescriptor), key : Nat] /\ m'.key = key
        /\ m'.descs = Decoded(Descriptors(mem), DescriptorSize)
    BY <1>3, MapIsRead DEF IInv
  <2>2. StateTypes'
    BY <1>1, <1>3, <2>1 DEF IInv, StateTypes
  <2>3. ImageInv'
    <3>1. \A k \in DOMAIN m'.descs : IsImage(m'.descs[k]) => Image(mem, RamStart + m'.descs[k].pages)
      BY <2>1, ImageFound DEF IInv
    <3> QED BY <1>1, <1>3, <3>1 DEF ImageInv, IsImage
  <2>4. OwnedInv'
    BY <1>3 DEF OwnedInv, Using
  <2>5. MapInv'
    BY <1>1, <1>2, <1>3, <2>1 DEF IInv, StateTypes, MapInv
  <2> QED BY <2>2, <2>3, <2>4, <2>5 DEF IInv
<1>4. CASE warned' = TRUE /\ pc' = "main" /\ UNCHANGED m
  <2>1. StateTypes'
    BY <1>1, <1>4 DEF IInv, StateTypes, Using
  <2>2. ImageInv' /\ OwnedInv'
    BY <1>4 DEF ImageInv, OwnedInv
  <2>3. MapInv'
    BY <1>1, <1>2, <1>4 DEF IInv, MapInv
  <2> QED BY <2>1, <2>2, <2>3 DEF IInv
<1> QED BY <1>3, <1>4 DEF HeapMap

\* The heap starts where the image ends.
LEMMA LocateStep ==
  ASSUME IInv, Locate
  PROVE  IInv'
<1> USE DEF firmware, table
<1>1. pc = "locate" /\ pc' = "alloc"
      /\ UNCHANGED <<mem, key, DescriptorSize, m, exited>>
  BY DEF Locate
<1>2. m.descs \in Seq(ReadDescriptor)
  BY DEF IInv, StateTypes
<1>3. /\ heapStart' \in Nat /\ RamSize' \in Nat /\ warned' \in BOOLEAN
      /\ ~warned' => Image(mem, heapStart')
  <2>1. CASE warned' = TRUE /\ UNCHANGED <<heapStart, RamSize>>
    BY <2>1 DEF IInv, StateTypes
  <2>2. ASSUME NEW k \in DOMAIN m.descs, IsImage(m.descs[k]),
               heapStart' = PhysicalEnd(m.descs[k]) \div PageSize,
               RamSize' = IF k < Len(m.descs)
                          THEN heapStart' + m.descs[k + 1].pages - RamStart
                          ELSE RamSize,
               UNCHANGED warned
        PROVE  heapStart' \in Nat /\ RamSize' \in Nat /\ Image(mem, heapStart')
    <3>1. m.descs[k].start = RamStart * PageSize /\ m.descs[k].pages \in Nat
      BY <1>2, <2>2, ReadFields DEF IsImage
    <3>2. heapStart' = RamStart + m.descs[k].pages
      <4>1. ASSUME NEW a \in Nat, NEW b \in Nat
            PROVE  (a * PageSize + b * PageSize) \div PageSize = a + b
        BY SMT DEF PageSize
      <4>2. heapStart' = (RamStart * PageSize + m.descs[k].pages * PageSize) \div PageSize
        BY <2>2, <3>1, Zenon DEF PhysicalEnd
      <4> QED BY <3>1, <4>1, <4>2, MemMapAssumptions, Zenon
    <3>3. Image(mem, RamStart + m.descs[k].pages)
      BY <1>1, <2>2 DEF IInv, ImageInv
    <3>4. k < Len(m.descs) => m.descs[k + 1].pages \in Nat
      <4>1. k < Len(m.descs) => k + 1 \in DOMAIN m.descs
        BY <1>2
      <4> QED BY <1>2, <4>1, ReadFields
    <3>5. RamSize' \in Nat
      <4>1. CASE k < Len(m.descs)
        <5>1. PICK a \in Nat, b \in Nat : a = m.descs[k].pages /\ b = m.descs[k + 1].pages
          BY <3>1, <3>4, <4>1
        <5>2. RamSize' = RamStart + a + b - RamStart
          BY <2>2, <3>2, <4>1, <5>1
        <5> QED BY <5>2, MemMapAssumptions
      <4>2. CASE ~(k < Len(m.descs))
        BY <2>2, <4>2 DEF IInv, StateTypes
      <4> QED BY <4>1, <4>2
    <3> QED BY <3>1, <3>2, <3>3, <3>5, MemMapAssumptions
  <2> QED BY <2>1, <2>2 DEF Locate, IInv, StateTypes
<1>4. StateTypes'
  BY <1>1, <1>3 DEF IInv, StateTypes
<1>5. ImageInv'
  BY <1>1, <1>3 DEF ImageInv
<1>6. OwnedInv'
  BY <1>1 DEF OwnedInv, Using
<1>7. MapInv'
  BY <1>1 DEF IInv, MapInv
<1> QED BY <1>4, <1>5, <1>6, <1>7 DEF IInv

\* The firmware gives the very pages asked for, or allocateHeap warns.
LEMMA AllocatePagesStep ==
  ASSUME IInv, AllocatePages
  PROVE  IInv'
<1>1. pc = "alloc" /\ pc' = "main"
      /\ UNCHANGED <<DescriptorSize, m, heapStart, RamSize, exited>>
  BY DEF AllocatePages
<1>2. ~exited /\ ramEnd' = ramEnd
  BY <1>1 DEF IInv, MapInv, ramEnd
<1>3. CASE /\ CanAllocate
           /\ mem' = [p \in DOMAIN mem |-> IF p \in Heap THEN "LoaderData" ELSE mem[p]]
           /\ key' = key + 1
           /\ UNCHANGED warned
  <2>1. mem \in Memories /\ DOMAIN mem = Page
    BY DEF IInv, StateTypes, Memories
  <2>2. mem' \in Memories
    BY <1>3, <2>1 DEF Memories, Types, RAMTypes
  <2>3. StateTypes'
    BY <1>1, <1>3, <2>2 DEF IInv, StateTypes, Using
  <2>4. ImageInv'
    BY <1>1 DEF ImageInv
  <2>5. OwnedInv'
    <3>1. SUFFICES ASSUME ~warned
                   PROVE  Image(mem', heapStart) /\ Allocated(mem', ramEnd)
      BY <1>1, <1>2, <1>3 DEF OwnedInv, Allocated
    <3>2. Image(mem, heapStart)
      BY <1>1, <3>1 DEF IInv, ImageInv
    <3>3. heapStart < ramEnd /\ ramEnd <= Pages /\ ramEnd \in Nat /\ heapStart \in Nat
      BY <1>3, MemMapAssumptions DEF CanAllocate, ramEnd, IInv, StateTypes
    <3>4. \A p \in Page : mem'[p] = IF p \in Heap THEN "LoaderData" ELSE mem[p]
      BY <1>3, <2>1
    <3>5. Allocated(mem', ramEnd)
      <4>1. \A p \in heapStart..ramEnd - 1 : p \in Page
        BY <3>3, MemMapAssumptions DEF Page
      <4> QED BY <3>3, <3>4, <4>1 DEF Allocated, Heap
    <3>6. Image(mem', heapStart)
      <4>1. /\ RamStart - 1 \in Page /\ RamStart - 1 \notin Heap
            /\ \A p \in RamStart..heapStart - 1 : p \in Page /\ p \notin Heap
        BY <3>2, <3>3, MemMapAssumptions DEF Image, Page, Heap
      <4> QED BY <3>2, <3>4, <4>1 DEF Image
    <3> QED BY <3>5, <3>6
  <2>6. MapInv'
    <3>1. m.key \in Nat /\ key \in Nat /\ m.key <= key
      BY DEF IInv, StateTypes, MapInv
    <3>2. m.key <= key'
      BY <1>3, <3>1
    <3> QED BY <1>1, <1>2, <3>2 DEF MapInv
  <2> QED BY <2>3, <2>4, <2>5, <2>6 DEF IInv
<1>4. CASE warned' = TRUE /\ UNCHANGED <<mem, key>>
  <2>1. StateTypes'
    BY <1>1, <1>4 DEF IInv, StateTypes, Using
  <2>2. ImageInv' /\ OwnedInv'
    BY <1>1, <1>4 DEF ImageInv, OwnedInv
  <2>3. MapInv'
    BY <1>1, <1>2, <1>4 DEF IInv, MapInv
  <2> QED BY <2>1, <2>2, <2>3 DEF IInv
<1> QED BY <1>3, <1>4 DEF AllocatePages

\* The program's memory is left alone by the rest.
LEMMA Kept ==
  ASSUME IInv, pc \in Using, pc' \in Using,
         UNCHANGED <<mem, key, DescriptorSize, heapStart, RamSize, warned>>,
         m' \in [descs : Seq(ReadDescriptor), key : Nat], exited' \in BOOLEAN
  PROVE  StateTypes' /\ ImageInv' /\ OwnedInv'
<1>1. StateTypes'
  BY DEF IInv, StateTypes
<1>2. ImageInv'
  BY DEF ImageInv, Using
<1>3. OwnedInv'
  BY DEF IInv, OwnedInv, ramEnd, Allocated
<1> QED BY <1>1, <1>2, <1>3

\* ExitBootServices reads the map anew.
LEMMA ExitMapStep ==
  ASSUME IInv, ExitMap
  PROVE  IInv'
<1>1. pc = "main" /\ pc' = "exit" /\ GetMemoryMap
      /\ UNCHANGED <<mem, key, DescriptorSize, heapStart, RamSize, warned, exited>>
  BY DEF ExitMap, firmware, runtime
<1>2. /\ m' \in [descs : Seq(ReadDescriptor), key : Nat] /\ m'.key = key
      /\ m'.descs = Decoded(Descriptors(mem), DescriptorSize)
  BY <1>1, MapIsRead DEF IInv
<1>3. StateTypes' /\ ImageInv' /\ OwnedInv'
  BY <1>1, <1>2, Kept DEF Using, IInv, StateTypes
<1>4. MapInv'
  BY <1>1, <1>2 DEF IInv, StateTypes, MapInv, Current
<1> QED BY <1>3, <1>4 DEF IInv

\* Boot services end with the key of the map that was read, or not at all.
LEMMA ExitBootServicesStep ==
  ASSUME IInv, ExitBootServices
  PROVE  IInv'
<1>1. pc = "exit" /\ UNCHANGED <<mem, key, DescriptorSize, m, heapStart, RamSize, warned>>
  BY DEF ExitBootServices, firmware, runtime
<1>2. \/ m.key = key /\ exited' = TRUE /\ pc' = "join"
      \/ m.key # key /\ pc' = "main" /\ UNCHANGED exited
  BY DEF ExitBootServices
<1>3. StateTypes' /\ ImageInv' /\ OwnedInv'
  BY <1>1, <1>2, Kept DEF Using, IInv, StateTypes
<1>4. MapInv'
  BY <1>1, <1>2 DEF IInv, MapInv, Current
<1> QED BY <1>3, <1>4 DEF IInv

\* The conversion to E820 changes neither memory nor the map.
LEMMA JoinStep ==
  ASSUME IInv, Join \/ Joined
  PROVE  IInv'
<1>1. pc = "join" /\ pc' \in {"join", "done"}
      /\ UNCHANGED <<mem, key, DescriptorSize, m, heapStart, RamSize, warned, exited>>
  BY DEF Join, Joined, firmware, runtime
<1>2. StateTypes' /\ ImageInv' /\ OwnedInv'
  BY <1>1, Kept DEF Using, IInv, StateTypes
<1>3. MapInv'
  BY <1>1 DEF IInv, MapInv, Current
<1> QED BY <1>2, <1>3 DEF IInv

\* Every step keeps the inductive invariant.
LEMMA Step ==
  ASSUME IInv, [Next]_vars
  PROVE  IInv'
<1>1. CASE UNCHANGED vars
  <2>1. StateTypes' /\ MapInv'
    BY <1>1 DEF vars, IInv, StateTypes, MapInv, Current
  <2>2. ImageInv' /\ OwnedInv'
    BY <1>1 DEF vars, IInv, ImageInv, OwnedInv, Allocated, IsImage, ramEnd
  <2> QED BY <2>1, <2>2 DEF IInv
<1>2. CASE Next
  BY <1>2, EventStep, HeapMapStep, LocateStep, AllocatePagesStep, ExitMapStep,
     ExitBootServicesStep, JoinStep DEF Next
<1> QED BY <1>1, <1>2

-----------------------------------------------------------------------------
\* The inductive invariant holds in every reachable state: what allocateHeap takes for the
\* image is the image, the memory up to RamSize is the program's unless it warned, and the
\* map of ExitBootServices is current while its key is.
THEOREM Invariance == Spec => []IInv
<1>1. Init => IInv
  BY Initial
<1>2. IInv /\ [Next]_vars => IInv'
  BY Step
<1> QED BY <1>1, <1>2, PTL DEF Spec

\* Unless allocateHeap warned, all memory that the Go runtime may use is the program's: for
\* every layout, every size of descriptors (they are read at a stride of 48 bytes), and
\* whatever event handlers did between the reading of the map and the allocation.
THEOREM HeapIsOwned == Spec => []HeapOwned
<1>1. IInv => HeapOwned
  <2> SUFFICES ASSUME IInv, pc \notin {"heapMap", "locate", "alloc"}, ~warned,
                      NEW p \in RamStart..ramEnd - 1
               PROVE  mem[p] \in {"LoaderCode", "LoaderData"}
    BY DEF HeapOwned
  <2>1. Image(mem, heapStart) /\ Allocated(mem, ramEnd)
    BY DEF IInv, StateTypes, OwnedInv
  <2>2. p \in RamStart..heapStart - 1 \/ p \in heapStart..ramEnd - 1
    BY MemMapAssumptions DEF IInv, StateTypes, ramEnd
  <2> QED BY <2>1, <2>2 DEF Image, Allocated
<1> QED BY <1>1, Invariance, PTL

\* The map with which ExitBootServices succeeds is that of the machine when boot services
\* ended, as far as it can be read at a stride of 48 bytes.
THEOREM MapIsCurrent == Spec => []MapCurrent
<1>1. IInv => MapCurrent
  <2> SUFFICES ASSUME IInv, exited,
                      NEW k \in DOMAIN Descriptors(mem) \cup DOMAIN m.descs,
                      DescriptorSize = Stride \/ k = 1
               PROVE  m.descs[k] = Exact(Descriptors(mem)[k])
    BY DEF MapCurrent, Exact
  <2> DEFINE ds == Descriptors(mem)
  <2>1. m.descs = Decoded(ds, DescriptorSize)
    BY DEF IInv, MapInv, Current
  <2>2. ds \in Seq(Descriptor) /\ DescriptorSize \in Nat /\ DescriptorSize >= 5
    BY MapTypes DEF IInv
  <2> HIDE DEF ds
  <2>3. CASE DescriptorSize = Stride
    <3>1. DOMAIN m.descs = DOMAIN ds /\ \A j \in DOMAIN ds : m.descs[j] = Exact(ds[j])
      BY <2>1, <2>2, <2>3, DecodedExactly
    <3> QED BY <3>1 DEF ds
  <2>4. CASE k = 1
    <3>1. 1 \in DOMAIN ds \cup DOMAIN Decoded(ds, DescriptorSize)
      BY <2>1, <2>4 DEF ds
    <3>2. Decoded(ds, DescriptorSize)[1] = Exact(ds[1])
      BY <2>2, <3>1, DecodedFirst
    <3> QED BY <2>1, <2>4, <3>2 DEF ds
  <2> QED BY <2>3, <2>4
<1> QED BY <1>1, Invariance, PTL

-----------------------------------------------------------------------------
\* Of two elements the lower one has fewer below it.
LEMMA RankOrder ==
  ASSUME NEW S, S \subseteq Page, NEW p \in S, NEW q \in S, q < p
  PROVE  Cardinality(Below(S, q)) + 1 <= Cardinality(Below(S, p))
<1> DEFINE Q == Below(S, q)
           P == Below(S, p)
<1>1. S \subseteq Nat /\ Q \subseteq Page /\ P \subseteq Page
  BY FinitePages DEF Below
<1>2. q \notin Q /\ Q \cup {q} \subseteq P
  <2>1. /\ \A t : t \in Q <=> t \in S /\ t < q
        /\ \A t : t \in P <=> t \in S /\ t < p
    BY DEF Below
  <2>2. ~(q < q) /\ \A t \in S : t < q => t < p
    BY <1>1
  <2> HIDE DEF P, Q
  <2> QED BY <2>1, <2>2
<1> HIDE DEF P, Q
<1>3. IsFiniteSet(Q) /\ IsFiniteSet(P) /\ Cardinality(Q) \in Nat /\ Cardinality(P) \in Nat
  BY <1>1, FinitePages
<1>4. Cardinality(Q \cup {q}) = Cardinality(Q) + 1
  BY <1>2, <1>3, FS_AddElement
<1>5. Cardinality(Q \cup {q}) <= Cardinality(P)
  BY <1>2, <1>3, FS_Subset
<1> QED BY <1>4, <1>5 DEF P, Q

\* Each run of pages has its descriptor.
LEMMA RunIndex ==
  ASSUME NEW f \in Memories, NEW p \in Starts(f)
  PROVE  LET k == Cardinality(Below(Starts(f), p)) + 1 IN
         /\ k \in DOMAIN Descriptors(f)
         /\ Descriptors(f)[k] = [type |-> f[p], start |-> p, pages |-> RunEnd(f, p) - p]
<1> DEFINE S == Starts(f)
           B == Below(S, p)
           k == Cardinality(B) + 1
<1>1. S \subseteq Page /\ B \subseteq S
  BY DEF Starts, Below
<1>2. S \subseteq Nat /\ IsFiniteSet(S) /\ Cardinality(S) \in Nat
  BY <1>1, FinitePages
<1>3. p \notin B
  BY <1>2 DEF Below
<1>4. IsFiniteSet(B) /\ Cardinality(B) \in Nat
  <2>1. B \subseteq Page
    BY <1>1
  <2> HIDE DEF B
  <2> QED BY <2>1, FinitePages
<1>5. k \in 1..Cardinality(S)
  <2>1. Cardinality(B) <= Cardinality(S) /\ (Cardinality(S) = Cardinality(B) => S = B)
    BY <1>1, <1>2, FS_Subset
  <2>2. Cardinality(S) # Cardinality(B)
    BY <1>3, <2>1
  <2> HIDE DEF S, B
  <2> QED BY <1>2, <1>4, <2>1, <2>2
<1>6. k \in DOMAIN Descriptors(f)
  <2>1. Descriptors(f) \in Seq(Descriptor) /\ Len(Descriptors(f)) = Cardinality(S)
    BY DescriptorsAre
  <2> HIDE DEF k, S
  <2> QED BY <1>5, <2>1
<1>7. PICK q \in S :
        /\ Cardinality(Below(S, q)) = k - 1
        /\ Descriptors(f)[k] = [type |-> f[q], start |-> q, pages |-> RunEnd(f, q) - q]
  BY <1>6, DescriptorsAre
<1>8. Cardinality(Below(S, q)) = Cardinality(Below(S, p)) /\ Cardinality(Below(S, p)) \in Nat
  BY <1>4, <1>7
<1> HIDE DEF S
<1>9. q = p
  <2>1. p \in S /\ p \in Nat /\ q \in Nat
    BY <1>2 DEF S
  <2>2. ASSUME q < p PROVE FALSE
    <3>1. Cardinality(Below(S, q)) + 1 <= Cardinality(Below(S, p))
      BY <1>1, <2>1, <2>2, RankOrder
    <3> QED BY <1>8, <3>1
  <2>3. ASSUME p < q PROVE FALSE
    <3>1. Cardinality(Below(S, p)) + 1 <= Cardinality(Below(S, q))
      BY <1>1, <2>1, <2>3, RankOrder
    <3> QED BY <1>8, <3>1
  <2> QED BY <2>1, <2>2, <2>3
<1> QED BY <1>6, <1>7, <1>9 DEF S

\* A run ends where its type does.
LEMMA RunEndIs ==
  ASSUME NEW f \in Memories, NEW p \in Page, NEW e \in p + 1..Pages,
         \A r \in p..e - 1 : f[r] = f[p], e < Pages => f[e] # f[p]
  PROVE  RunEnd(f, p) = e
<1> DEFINE q == RunEnd(f, p)
<1>1. /\ q \in p + 1..Pages /\ \A r \in p..q - 1 : f[r] = f[p]
      /\ q < Pages => f[q] # f[p]
  BY RunEnds
<1> HIDE DEF q
<1>2. p \in Nat /\ Pages \in Nat
  BY MemMapAssumptions DEF Page
<1>3. ~(q < e)
  BY <1>1, <1>2
<1>4. ~(e < q)
  BY <1>1, <1>2
<1> QED BY <1>1, <1>2, <1>3, <1>4 DEF q

\* Descriptors are in the order of addresses, and do not overlap.
LEMMA Consecutive ==
  ASSUME NEW f \in Memories, NEW k \in DOMAIN Descriptors(f), k + 1 \in DOMAIN Descriptors(f)
  PROVE  Descriptors(f)[k].start + Descriptors(f)[k].pages <= Descriptors(f)[k + 1].start
<1> DEFINE S == Starts(f)
           ds == Descriptors(f)
<1>1. PICK p \in S : /\ Cardinality(Below(S, p)) = k - 1
                     /\ ds[k] = [type |-> f[p], start |-> p, pages |-> RunEnd(f, p) - p]
  BY DescriptorsAre
<1>2. PICK q \in S : /\ Cardinality(Below(S, q)) = k + 1 - 1
                     /\ ds[k + 1] = [type |-> f[q], start |-> q, pages |-> RunEnd(f, q) - q]
  BY DescriptorsAre
<1>3. S \subseteq Page /\ p \in Page /\ q \in Page /\ RunStart(f, q)
  BY DEF Starts
<1>4. k \in Nat /\ k > 0
  <2>1. ds \in Seq(Descriptor)
    BY DescriptorsAre
  <2> HIDE DEF ds
  <2> QED BY <2>1 DEF ds
<1>5. p \in Nat /\ q \in Nat /\ Pages \in Nat
  BY <1>3, MemMapAssumptions DEF Page
<1> HIDE DEF S
<1>6. p < q
  <2>1. p # q
    BY <1>1, <1>2, <1>4
  <2>2. ~(q < p)
    <3>1. SUFFICES ASSUME q < p PROVE FALSE
      OBVIOUS
    <3>2. Cardinality(Below(S, q)) + 1 <= Cardinality(Below(S, p))
      BY <1>3, <3>1, RankOrder
    <3> QED BY <1>1, <1>2, <1>4, <3>2
  <2> QED BY <1>5, <2>1, <2>2
<1>7. RunEnd(f, p) \in p + 1..Pages /\ \A r \in p..RunEnd(f, p) - 1 : f[r] = f[p]
  BY <1>3, RunEnds
<1>8. RunEnd(f, p) <= q
  <2>1. SUFFICES ASSUME q < RunEnd(f, p) PROVE FALSE
    BY <1>5, <1>7
  <2>2. f[q] = f[p] /\ f[q - 1] = f[p] /\ q # 0
    BY <1>5, <1>6, <1>7, <2>1
  <2> QED BY <1>3, <2>2 DEF RunStart
<1>9. ds[k].start + ds[k].pages = RunEnd(f, p)
  BY <1>1, <1>5, <1>7
<1> HIDE DEF ds
<1>10. ds[k].start + ds[k].pages <= ds[k + 1].start
  BY <1>2, <1>8, <1>9
<1> QED BY <1>10 DEF ds

\* The image and the allocated pages behind it are two descriptors, one after the other.
LEMMA TwoRuns ==
  ASSUME StateTypes, Image(mem, heapStart), Allocated(mem, ramEnd),
         ramEnd < Pages => mem[ramEnd] # "LoaderData"
  PROVE  LET ds == Descriptors(mem) IN
         \E k \in DOMAIN ds :
           /\ k + 1 \in DOMAIN ds
           /\ ds[k] = [type |-> "LoaderCode", start |-> RamStart, pages |-> heapStart - RamStart]
           /\ ds[k + 1] = [type |-> "LoaderData", start |-> heapStart,
                           pages |-> ramEnd - heapStart]
<1> DEFINE S == Starts(mem)
           k == Cardinality(Below(S, RamStart)) + 1
<1>1. /\ mem \in Memories /\ RamStart \in Nat /\ RamStart > 0 /\ heapStart \in Nat
      /\ ramEnd \in Nat /\ Pages \in Nat
  BY MemMapAssumptions DEF StateTypes, ramEnd
<1>2. RamStart < heapStart /\ heapStart < ramEnd /\ ramEnd <= Pages
  BY DEF Image, Allocated
<1>3. RamStart \in Page /\ heapStart \in Page
  BY <1>1, <1>2 DEF Page
<1>4. mem[RamStart] = "LoaderCode" /\ mem[heapStart] = "LoaderData"
      /\ mem[heapStart - 1] = "LoaderCode"
  BY <1>1, <1>2 DEF Image, Allocated
<1>5. RamStart \in S /\ heapStart \in S
  <2>1. RunStart(mem, RamStart)
    BY <1>1, <1>4 DEF RunStart, Hole, Image
  <2>2. RunStart(mem, heapStart)
    BY <1>4 DEF RunStart, Hole
  <2> QED BY <1>3, <2>1, <2>2 DEF Starts
<1>6. RunEnd(mem, RamStart) = heapStart
  <2>1. heapStart \in RamStart + 1..Pages
    BY <1>1, <1>2
  <2>2. \A r \in RamStart..heapStart - 1 : mem[r] = mem[RamStart]
    BY <1>4 DEF Image
  <2>3. mem[heapStart] # mem[RamStart]
    BY <1>4
  <2> QED BY <1>1, <1>3, <2>1, <2>2, <2>3, RunEndIs
<1>7. RunEnd(mem, heapStart) = ramEnd
  <2>1. ramEnd \in heapStart + 1..Pages
    BY <1>1, <1>2
  <2>2. \A r \in heapStart..ramEnd - 1 : mem[r] = mem[heapStart]
    BY <1>4 DEF Allocated
  <2>3. ramEnd < Pages => mem[ramEnd] # mem[heapStart]
    BY <1>4
  <2> QED BY <1>1, <1>3, <2>1, <2>2, <2>3, RunEndIs
<1>8. Cardinality(Below(S, heapStart)) = k
  <2> DEFINE B == Below(S, RamStart)
  <2>1. S \subseteq Page /\ S \subseteq Nat /\ \A t \in S : t = 0 \/ mem[t - 1] # mem[t]
    BY FinitePages DEF Starts, RunStart
  <2>2. B \subseteq Page /\ RamStart \notin B
    BY <2>1 DEF Below
  <2>3. IsFiniteSet(B)
    <3> HIDE DEF B
    <3> QED BY <2>2, FinitePages
  <2>4. \A t \in S : t < heapStart => t < RamStart \/ t = RamStart
    <3>1. SUFFICES ASSUME NEW t \in S, t < heapStart, RamStart < t PROVE FALSE
      BY <1>1, <2>1
    <3>2. t \in Nat /\ t # 0 /\ mem[t] = "LoaderCode" /\ mem[t - 1] = "LoaderCode"
      BY <1>1, <2>1, <3>1 DEF Image
    <3> QED BY <2>1, <3>2
  <2>5. Below(S, heapStart) = B \cup {RamStart}
    <3>1. \A t : t \in Below(S, heapStart) <=> t \in S /\ t < heapStart
      BY DEF Below
    <3>2. \A t : t \in B <=> t \in S /\ t < RamStart
      BY DEF Below
    <3>3. \A t \in S : t < RamStart => t < heapStart
      BY <1>1, <1>2, <2>1
    <3> HIDE DEF B, S
    <3>4. \A t : t \in Below(S, heapStart) <=> t \in B \cup {RamStart}
      BY <1>2, <1>5, <2>4, <3>1, <3>2, <3>3
    <3> QED BY <3>4
  <2> QED BY <2>2, <2>3, <2>5, FS_AddElement
<1> HIDE DEF k
<1>9. /\ k \in DOMAIN Descriptors(mem)
      /\ Descriptors(mem)[k] =
           [type |-> mem[RamStart], start |-> RamStart, pages |-> heapStart - RamStart]
  BY <1>1, <1>5, <1>6, RunIndex DEF k
<1>10. /\ k + 1 \in DOMAIN Descriptors(mem)
       /\ Descriptors(mem)[k + 1] =
            [type |-> mem[heapStart], start |-> heapStart, pages |-> ramEnd - heapStart]
  BY <1>1, <1>5, <1>7, <1>8, RunIndex
<1> QED BY <1>4, <1>9, <1>10

-----------------------------------------------------------------------------
E820Entry == [addr : Nat, size : Nat, type : E820Types]
End(e) == e.addr + e.size

\* Address a is in entry e of type t; descriptor d says that address a is of type t.
Says(e, a, t) == In(a, e.addr, e.size) /\ e.type = t
DescriptorSays(d, a, t) == Says(Entry(d), a, t)

TableTypes ==
  /\ i \in Nat /\ i > 0 /\ e820 \in Seq(E820Entry)
  /\ pc \notin {"join", "done"} => i = 1
  /\ pc = "done" => i > Len(m.descs)
  /\ i = 1 => e820 = <<>>
  /\ i > 1 => Len(e820) > 0

\* The table says what the descriptors converted so far say.
TableInv ==
  \A a \in Nat, t \in E820Types :
    (\E k \in 1..i - 1 : DescriptorSays(m.descs[k], a, t))
    <=> (\E k \in DOMAIN e820 : Says(e820[k], a, t))

\* Its last entry ends with the last of these descriptors, and each one before the next.
OrderInv ==
  DescriptorSize = Stride =>
    /\ \A k \in 1..Len(e820) - 1 : End(e820[k]) <= e820[k + 1].addr
    /\ i > 1 /\ i - 1 <= Len(m.descs) => End(e820[Len(e820)]) = End(Entry(m.descs[i - 1]))

\* Descriptors k and k + 1 are those of the image and of the heap.
ImageAt(k) ==
  /\ k \in DOMAIN m.descs /\ k + 1 \in DOMAIN m.descs
  /\ m.descs[k] = [type |-> 1, start |-> RamStart * PageSize, pages |-> heapStart - RamStart]
  /\ m.descs[k + 1] = [type |-> 2, start |-> heapStart * PageSize, pages |-> ramEnd - heapStart]
  /\ RamStart < heapStart /\ heapStart < ramEnd

\* The image begins an entry, the heap extends it, and nothing else does.
IsolatedInv ==
  exited => \A k \in Nat : ImageAt(k) =>
    /\ i = k + 1 => e820[Len(e820)] = Entry(m.descs[k])
    /\ i > k + 1 => \E j \in DOMAIN e820 : /\ e820[j].addr = RamStart * PageSize
                                          /\ e820[j].size = RamSize * PageSize

EInv == TableTypes /\ TableInv /\ OrderInv /\ IsolatedInv

\* The E820 types of the image's code and of its heap are the same.
LEMMA MemTypes ==
  /\ \A t \in Nat : MemType(t) \in E820Types
  /\ MemType(1) = "RAM" /\ MemType(2) = "RAM"
<1>1. \A t : MemType(t) \in E820Types
  BY Zenon DEF MemType, E820Types
<1> DEFINE R == {Code[ram] : ram \in RAMTypes}
<1>2. 1 \in R /\ 2 \in R
  <2>1. 1 = Code["LoaderCode"] /\ 2 = Code["LoaderData"]
    BY DEF Code
  <2> QED BY <2>1, Zenon DEF RAMTypes
<1>3. /\ 1 # Code["Persistent"] /\ 1 # Code["ACPIReclaim"] /\ 1 # Code["ACPINVS"]
      /\ 2 # Code["Persistent"] /\ 2 # Code["ACPIReclaim"] /\ 2 # Code["ACPINVS"]
  BY DEF Code
<1>4. MemType(1) = "RAM" /\ MemType(2) = "RAM"
  BY <1>2, <1>3, Zenon DEF MemType
<1> QED BY <1>1, <1>4

\* The entry of a descriptor.
LEMMA Entries ==
  ASSUME NEW ds \in Seq(ReadDescriptor), NEW k \in DOMAIN ds
  PROVE  /\ Entry(ds[k]) \in E820Entry
         /\ Entry(ds[k]).addr = ds[k].start /\ Entry(ds[k]).size = ds[k].pages * PageSize
         /\ Entry(ds[k]).type = MemType(ds[k].type)
<1>1. ds[k].type \in Nat /\ ds[k].start \in Nat /\ ds[k].pages \in Nat
  BY ReadFields
<1>2. ds[k].pages * PageSize \in Nat
  BY <1>1, SMT DEF PageSize
<1>3. MemType(ds[k].type) \in E820Types
  BY <1>1, MemTypes
<1> QED BY <1>1, <1>2, <1>3 DEF Entry, E820Entry

\* One turn of E820 either appends the entry of the descriptor, or adds its size to the
\* last entry, which ends where it begins and is of the same type.
LEMMA Turn ==
  ASSUME IInv, EInv, Join
  PROVE  LET e == Entry(m.descs[i])
             n == Len(e820) IN
         /\ i \in DOMAIN m.descs /\ e \in E820Entry /\ n \in Nat /\ e820' \in Seq(E820Entry)
         /\ \/ /\ ~(n > 0 /\ Joins(e820[n], e))
               /\ Len(e820') = n + 1 /\ e820'[n + 1] = e
               /\ \A j \in 1..n : e820'[j] = e820[j]
            \/ /\ n > 0 /\ Joins(e820[n], e)
               /\ Len(e820') = n /\ e820'[n] \in E820Entry
               /\ e820'[n].addr = e820[n].addr /\ e820'[n].size = e820[n].size + e.size
               /\ e820'[n].type = e820[n].type
               /\ \A j \in 1..n - 1 : e820'[j] = e820[j]
<1> DEFINE e == Entry(m.descs[i])
           n == Len(e820)
<1>1. m.descs \in Seq(ReadDescriptor) /\ i \in Nat /\ i > 0 /\ e820 \in Seq(E820Entry)
  BY DEF IInv, StateTypes, EInv, TableTypes
<1>2. i \in DOMAIN m.descs
  BY <1>1 DEF Join
<1>3. e \in E820Entry /\ n \in Nat
  BY <1>1, <1>2, Entries
<1>4. e820' = IF n > 0 /\ Joins(e820[n], e)
              THEN [e820 EXCEPT ![n].size = @ + e.size] ELSE Append(e820, e)
  BY DEF Join
<1> HIDE DEF e
<1>5. CASE ~(n > 0 /\ Joins(e820[n], e))
  <2>1. e820' = Append(e820, e)
    BY <1>4, <1>5
  <2>2. /\ e820' \in Seq(E820Entry) /\ Len(e820') = n + 1 /\ e820'[n + 1] = e
        /\ \A j \in 1..n : e820'[j] = e820[j]
    BY <1>1, <1>3, <2>1
  <2> QED BY <1>2, <1>3, <1>5, <2>2 DEF e
<1>6. CASE n > 0 /\ Joins(e820[n], e)
  <2> DEFINE l == [e820[n] EXCEPT !.size = @ + e.size]
  <2>1. n \in DOMAIN e820 /\ e820[n] \in E820Entry
    BY <1>1, <1>3, <1>6
  <2>2. /\ l \in E820Entry /\ l.addr = e820[n].addr /\ l.size = e820[n].size + e.size
        /\ l.type = e820[n].type
    BY <1>3, <2>1 DEF E820Entry
  <2>3. e820' = [e820 EXCEPT ![n] = l]
    BY <1>4, <1>6
  <2> HIDE DEF l
  <2>4. /\ e820' \in Seq(E820Entry) /\ Len(e820') = n /\ e820'[n] = l
        /\ \A j \in 1..n - 1 : e820'[j] = e820[j]
    BY <1>1, <2>1, <2>2, <2>3
  <2> QED BY <1>2, <1>3, <1>6, <2>2, <2>4 DEF e
<1> QED BY <1>5, <1>6

\* Before the conversion the table is empty.
LEMMA Fresh == StateTypes /\ i = 1 /\ e820 = <<>> /\ pc # "done" => EInv
<1> SUFFICES ASSUME StateTypes, i = 1, e820 = <<>>, pc # "done"
             PROVE  EInv
  OBVIOUS
<1>1. TableTypes
  BY DEF TableTypes
<1>2. TableInv
  BY DEF TableInv
<1>3. OrderInv
  BY DEF OrderInv
<1>4. ASSUME NEW k \in Nat, ImageAt(k) PROVE ~(i = k + 1) /\ ~(i > k + 1)
  <2>1. m.descs \in Seq(ReadDescriptor)
    BY DEF StateTypes
  <2>2. k > 0
    BY <1>4, <2>1 DEF ImageAt
  <2> QED BY <2>2
<1>5. IsolatedInv
  BY <1>4 DEF IsolatedInv
<1> QED BY <1>1, <1>2, <1>3, <1>5 DEF EInv

\* Two adjacent ranges are one.
LEMMA Ranges ==
  ASSUME NEW a \in Nat, NEW x \in Nat, NEW s \in Nat, NEW y \in Nat, NEW u \in Nat, x + s = y
  PROVE  In(a, x, s + u) <=> In(a, x, s) \/ In(a, y, u)
BY DEF In

\* The table says one descriptor more.
LEMMA TurnSays ==
  ASSUME IInv, EInv, Join
  PROVE  TableInv'
<1> DEFINE e == Entry(m.descs[i])
           n == Len(e820)
<1>1. i' = i + 1 /\ m' = m /\ i \in Nat /\ i > 0 /\ e820 \in Seq(E820Entry)
  BY DEF Join, EInv, TableTypes
<1>2. SUFFICES ASSUME NEW a \in Nat, NEW t \in E820Types
               PROVE  (\E k \in 1..i : DescriptorSays(m.descs[k], a, t))
                      <=> (\E k \in DOMAIN e820' : Says(e820'[k], a, t))
  <2>1. 1..i' - 1 = 1..i
    BY <1>1
  <2> QED BY <1>1, <1>2, <2>1 DEF TableInv
<1>3. (\E k \in 1..i : DescriptorSays(m.descs[k], a, t))
        <=> (\E k \in 1..i - 1 : DescriptorSays(m.descs[k], a, t)) \/ Says(e, a, t)
  <2>1. \A k : k \in 1..i <=> k \in 1..i - 1 \/ k = i
    BY <1>1
  <2> QED BY <2>1 DEF DescriptorSays
<1>4. (\E k \in 1..i - 1 : DescriptorSays(m.descs[k], a, t))
        <=> (\E k \in 1..n : Says(e820[k], a, t))
  <2>1. DOMAIN e820 = 1..n
    BY <1>1
  <2>2. TableInv
    BY DEF EInv
  <2> QED BY <1>2, <2>1, <2>2, Zenon DEF TableInv
<1>5. /\ e \in E820Entry /\ n \in Nat /\ e820' \in Seq(E820Entry)
      /\ \/ /\ ~(n > 0 /\ Joins(e820[n], e))
            /\ Len(e820') = n + 1 /\ e820'[n + 1] = e
            /\ \A j \in 1..n : e820'[j] = e820[j]
         \/ /\ n > 0 /\ Joins(e820[n], e)
            /\ Len(e820') = n
            /\ e820'[n].addr = e820[n].addr /\ e820'[n].size = e820[n].size + e.size
            /\ e820'[n].type = e820[n].type
            /\ \A j \in 1..n - 1 : e820'[j] = e820[j]
  BY Turn
<1> HIDE DEF e, n
<1>6. DOMAIN e820' = 1..Len(e820')
  BY <1>5
<1>7. CASE /\ Len(e820') = n + 1 /\ e820'[n + 1] = e
           /\ \A j \in 1..n : e820'[j] = e820[j]
  <2>1. \A k : k \in DOMAIN e820' <=> k \in 1..n \/ k = n + 1
    BY <1>5, <1>6, <1>7
  <2> QED BY <1>3, <1>4, <1>7, <2>1, Zenon
<1>8. CASE /\ n > 0 /\ Joins(e820[n], e)
           /\ Len(e820') = n
           /\ e820'[n].addr = e820[n].addr /\ e820'[n].size = e820[n].size + e.size
           /\ e820'[n].type = e820[n].type
           /\ \A j \in 1..n - 1 : e820'[j] = e820[j]
  <2>1. \A k : k \in 1..n <=> k \in 1..n - 1 \/ k = n
    BY <1>5, <1>8
  <2>2. Says(e820'[n], a, t) <=> Says(e820[n], a, t) \/ Says(e, a, t)
    <3>1. e820[n] \in E820Entry
      BY <1>1, <1>5, <1>8 DEF n
    <3>2. e820[n].addr \in Nat /\ e820[n].size \in Nat /\ e.addr \in Nat /\ e.size \in Nat
      BY <1>5, <3>1 DEF E820Entry
    <3>3. e820[n].type = e.type /\ e820[n].addr + e820[n].size = e.addr
      BY <1>8 DEF Joins
    <3>4. In(a, e820[n].addr, e820[n].size + e.size)
            <=> In(a, e820[n].addr, e820[n].size) \/ In(a, e.addr, e.size)
      BY <3>2, <3>3, Ranges
    <3> QED BY <1>8, <3>3, <3>4, Zenon DEF Says
  <2>3. DOMAIN e820' = 1..n
    BY <1>6, <1>8
  <2> QED BY <1>3, <1>4, <1>8, <2>1, <2>2, <2>3, Zenon
<1> QED BY <1>5, <1>7, <1>8

\* Descriptors of 48 bytes come in the order of addresses.
LEMMA ReadInOrder ==
  ASSUME IInv, exited, DescriptorSize = Stride,
         NEW k \in DOMAIN m.descs, k + 1 \in DOMAIN m.descs
  PROVE  End(Entry(m.descs[k])) <= Entry(m.descs[k + 1]).addr
<1> DEFINE ds == Descriptors(mem)
<1>1. mem \in Memories /\ ds \in Seq(Descriptor) /\ m.descs \in Seq(ReadDescriptor)
  BY MapTypes DEF IInv, StateTypes
<1>2. m.descs = Decoded(ds, Stride)
  BY DEF IInv, MapInv, Current
<1>3. DOMAIN m.descs = DOMAIN ds /\ \A j \in DOMAIN ds : m.descs[j] = Exact(ds[j])
  BY <1>1, <1>2, DecodedExactly
<1>4. ds[k].start + ds[k].pages <= ds[k + 1].start
  BY <1>1, <1>3, Consecutive
<1> HIDE DEF ds
<1>5. PICK x \in Nat, s \in Nat, y \in Nat : x = ds[k].start /\ s = ds[k].pages /\ y = ds[k + 1].start
  <2>1. ds[k] \in Descriptor /\ ds[k + 1] \in Descriptor
    BY <1>1, <1>3
  <2> QED BY <2>1 DEF Descriptor
<1>6. /\ Entry(m.descs[k]).addr = x * PageSize /\ Entry(m.descs[k]).size = s * PageSize
      /\ Entry(m.descs[k + 1]).addr = y * PageSize
  <2>1. /\ m.descs[k].start = x * PageSize /\ m.descs[k].pages = s
        /\ m.descs[k + 1].start = y * PageSize
    <3>1. m.descs[k] = Exact(ds[k]) /\ m.descs[k + 1] = Exact(ds[k + 1])
      BY <1>3
    <3>2. \A d : Exact(d).start = d.start * PageSize /\ Exact(d).pages = d.pages
      BY DEF Exact
    <3> QED BY <1>5, <3>1, <3>2, Zenon
  <2> QED BY <1>1, <2>1, Entries
<1>7. x * PageSize + s * PageSize <= y * PageSize
  BY <1>4, <1>5, SMT DEF PageSize
<1> QED BY <1>6, <1>7 DEF End

\* The descriptors come in the order of addresses, and so do the entries.
LEMMA TurnOrder ==
  ASSUME IInv, EInv, Join
  PROVE  OrderInv'
<1> DEFINE e == Entry(m.descs[i])
           n == Len(e820)
<1>1. /\ i' = i + 1 /\ m' = m /\ DescriptorSize' = DescriptorSize /\ i \in Nat /\ i > 0
      /\ e820 \in Seq(E820Entry) /\ exited /\ m.descs \in Seq(ReadDescriptor)
  BY DEF Join, firmware, IInv, StateTypes, MapInv, EInv, TableTypes
<1>2. SUFFICES ASSUME DescriptorSize = Stride
               PROVE  /\ \A k \in 1..Len(e820') - 1 : End(e820'[k]) <= e820'[k + 1].addr
                      /\ End(e820'[Len(e820')]) = End(e)
  <2>1. i' - 1 = i
    BY <1>1
  <2> QED BY <1>1, <1>2, <2>1 DEF OrderInv
<1>3. /\ i \in DOMAIN m.descs /\ e \in E820Entry /\ n \in Nat /\ e820' \in Seq(E820Entry)
      /\ \/ /\ Len(e820') = n + 1 /\ e820'[n + 1] = e
            /\ \A j \in 1..n : e820'[j] = e820[j]
         \/ /\ n > 0 /\ Joins(e820[n], e)
            /\ Len(e820') = n
            /\ e820'[n].addr = e820[n].addr /\ e820'[n].size = e820[n].size + e.size
            /\ \A j \in 1..n - 1 : e820'[j] = e820[j]
  BY Turn
<1>4. i > 1 => n > 0
  BY DEF EInv, TableTypes
<1>5. \A k \in 1..n - 1 : End(e820[k]) <= e820[k + 1].addr
  BY <1>2 DEF EInv, OrderInv
<1>6. n > 0 => End(e820[n]) <= e.addr
  <2>1. SUFFICES ASSUME n > 0 PROVE End(e820[n]) <= e.addr
    OBVIOUS
  <2>2. i > 1 /\ i - 1 \in DOMAIN m.descs /\ i - 1 <= Len(m.descs)
    <3>1. i # 1
      BY <1>1, <2>1 DEF EInv, TableTypes
    <3> QED BY <1>1, <1>3, <3>1
  <2>3. End(e820[n]) = End(Entry(m.descs[i - 1]))
    BY <1>2, <2>2 DEF EInv, OrderInv
  <2>4. i - 1 + 1 = i
    BY <1>1
  <2>5. End(Entry(m.descs[i - 1])) <= e.addr
    BY <1>1, <1>2, <1>3, <2>2, <2>4, ReadInOrder
  <2> QED BY <2>3, <2>5
<1> HIDE DEF e, n
<1>7. CASE /\ Len(e820') = n + 1 /\ e820'[n + 1] = e
           /\ \A j \in 1..n : e820'[j] = e820[j]
  <2>1. ASSUME NEW k \in 1..n
        PROVE  End(e820'[k]) <= e820'[k + 1].addr
    <3>1. CASE k = n
      <4>1. n > 0 /\ e820'[k] = e820[n] /\ e820'[k + 1] = e
        BY <1>3, <1>7, <3>1
      <4> QED BY <1>6, <4>1
    <3>2. CASE k # n
      <4>1. k \in 1..n - 1 /\ k + 1 \in 1..n
        BY <1>3, <3>2
      <4> QED BY <1>5, <1>7, <4>1
    <3> QED BY <3>1, <3>2
  <2>2. 1..Len(e820') - 1 = 1..n
    BY <1>3, <1>7
  <2> QED BY <1>7, <2>1, <2>2
<1>8. CASE /\ n > 0 /\ Joins(e820[n], e)
           /\ Len(e820') = n
           /\ e820'[n].addr = e820[n].addr /\ e820'[n].size = e820[n].size + e.size
           /\ \A j \in 1..n - 1 : e820'[j] = e820[j]
  <2>1. ASSUME NEW k \in 1..n - 1
        PROVE  End(e820'[k]) <= e820'[k + 1].addr
    <3>1. e820'[k] = e820[k] /\ e820'[k + 1].addr = e820[k + 1].addr
      <4>1. k + 1 \in 1..n - 1 \/ k + 1 = n
        BY <1>3
      <4> QED BY <1>8, <4>1
    <3> QED BY <1>5, <3>1
  <2>2. End(e820'[n]) = End(e)
    <3>1. e820[n] \in E820Entry
      BY <1>1, <1>3, <1>8 DEF n
    <3>2. e820[n].addr \in Nat /\ e820[n].size \in Nat /\ e.addr \in Nat /\ e.size \in Nat
      BY <1>3, <3>1 DEF E820Entry
    <3>3. e820[n].addr + e820[n].size = e.addr
      BY <1>8 DEF Joins
    <3>4. e820[n].addr + (e820[n].size + e.size) = e.addr + e.size
      BY <3>2, <3>3
    <3> QED BY <1>8, <3>4 DEF End
  <2> QED BY <1>8, <2>1, <2>2
<1> QED BY <1>3, <1>7, <1>8

\* The entry of the image is begun with it, joined with the heap, and then left alone.
LEMMA TurnIsolates ==
  ASSUME IInv, EInv, Join
  PROVE  IsolatedInv'
<1> DEFINE e == Entry(m.descs[i])
           n == Len(e820)
           Isolated(j) == e820[j].addr = RamStart * PageSize /\ e820[j].size = RamSize * PageSize
<1>1. /\ i' = i + 1 /\ m' = m /\ UNCHANGED <<heapStart, RamSize, exited>> /\ i \in Nat /\ i > 0
      /\ e820 \in Seq(E820Entry) /\ exited /\ m.descs \in Seq(ReadDescriptor)
  BY DEF Join, runtime, IInv, StateTypes, MapInv, EInv, TableTypes
<1>2. /\ i \in DOMAIN m.descs /\ e \in E820Entry /\ n \in Nat /\ e820' \in Seq(E820Entry)
      /\ \/ /\ ~(n > 0 /\ Joins(e820[n], e))
            /\ Len(e820') = n + 1 /\ e820'[n + 1] = e
            /\ \A j \in 1..n : e820'[j] = e820[j]
         \/ /\ n > 0 /\ Joins(e820[n], e)
            /\ Len(e820') = n
            /\ e820'[n].addr = e820[n].addr /\ e820'[n].size = e820[n].size + e.size
            /\ \A j \in 1..n - 1 : e820'[j] = e820[j]
  BY Turn
<1>3. SUFFICES ASSUME NEW k \in Nat, ImageAt(k)
               PROVE  /\ i = k => e820'[Len(e820')] = Entry(m.descs[k])
                      /\ i > k => \E j \in DOMAIN e820' :
                                    /\ e820'[j].addr = RamStart * PageSize
                                    /\ e820'[j].size = RamSize * PageSize
  <2>1. ASSUME NEW k \in Nat PROVE (i' = k + 1 <=> i = k) /\ (i' > k + 1 <=> i > k)
    BY <1>1
  <2>2. \A k \in Nat : ImageAt(k)' <=> ImageAt(k)
    BY <1>1 DEF ImageAt, ramEnd
  <2> QED BY <1>1, <1>3, <2>1, <2>2 DEF IsolatedInv
<1>4. /\ RamStart \in Nat /\ heapStart \in Nat /\ RamSize \in Nat /\ ramEnd = RamStart + RamSize
      /\ RamStart < heapStart /\ heapStart < ramEnd
  BY <1>3, MemMapAssumptions DEF IInv, StateTypes, ramEnd, ImageAt
<1>5. CASE i = k
  <2>1. e.addr = RamStart * PageSize
    BY <1>3, <1>5 DEF Entry, ImageAt
  <2>2. ~Joins(e820[n], e)
    BY <2>1 DEF Joins
  <2> HIDE DEF e
  <2>3. e820'[Len(e820')] = e
    BY <1>2, <2>2
  <2> QED BY <1>1, <1>5, <2>3 DEF e
<1>6. CASE i = k + 1
  <2>1. n > 0 /\ e820[n] = Entry(m.descs[k])
    <3>1. i > 1
      BY <1>1, <1>3, <1>6 DEF ImageAt
    <3> QED BY <1>1, <1>3, <1>6, <3>1 DEF EInv, TableTypes, IsolatedInv
  <2>2. /\ e820[n].addr = RamStart * PageSize /\ e820[n].size = (heapStart - RamStart) * PageSize
        /\ e820[n].type = "RAM"
    BY <1>3, <2>1, MemTypes DEF Entry, ImageAt
  <2>3. /\ e.addr = heapStart * PageSize /\ e.size = (ramEnd - heapStart) * PageSize
        /\ e.type = "RAM"
    BY <1>3, <1>6, MemTypes DEF Entry, ImageAt
  <2>4. /\ RamStart * PageSize + (heapStart - RamStart) * PageSize = heapStart * PageSize
        /\ heapStart * PageSize # RamStart * PageSize
        /\ heapStart * PageSize # ramEnd * PageSize
        /\ (heapStart - RamStart) * PageSize + (ramEnd - heapStart) * PageSize = RamSize * PageSize
    BY <1>4, SMT DEF PageSize
  <2>5. Joins(e820[n], e)
    BY <2>2, <2>3, <2>4, Zenon DEF Joins
  <2> HIDE DEF e, n
  <2>6. /\ Len(e820') = n /\ e820'[n].addr = e820[n].addr
        /\ e820'[n].size = e820[n].size + e.size
    BY <1>2, <2>1, <2>5
  <2>7. n \in DOMAIN e820'
    BY <1>2, <2>1, <2>6
  <2>8. e820'[n].addr = RamStart * PageSize /\ e820'[n].size = RamSize * PageSize
    BY <2>2, <2>3, <2>4, <2>6, Zenon
  <2>9. i # k
    BY <1>6
  <2> QED BY <2>7, <2>8, <2>9
<1>7. CASE i > k + 1
  <2>1. PICK j \in 1..n : Isolated(j)
    BY <1>1, <1>3, <1>7 DEF EInv, IsolatedInv
  <2>2. ~Joins(e820[n], e) \/ j # n
    <3>1. SUFFICES ASSUME j = n PROVE ~Joins(e820[n], e)
      OBVIOUS
    <3>2. RamStart * PageSize + RamSize * PageSize = ramEnd * PageSize
      BY <1>4, SMT DEF PageSize
    <3>3. e820[n].addr + e820[n].size = ramEnd * PageSize
      BY <2>1, <3>1, <3>2, Zenon
    <3> QED BY <3>3, Zenon DEF Joins
  <2> HIDE DEF e, n
  <2>3. j \in DOMAIN e820' /\ e820'[j] = e820[j]
    <3>1. CASE Len(e820') = n + 1 /\ \A x \in 1..n : e820'[x] = e820[x]
      BY <1>2, <2>1, <3>1
    <3>2. CASE Joins(e820[n], e) /\ Len(e820') = n /\ \A x \in 1..n - 1 : e820'[x] = e820[x]
      <4>1. j \in 1..n - 1
        BY <1>2, <2>1, <2>2, <3>2
      <4> QED BY <1>2, <3>2, <4>1
    <3> QED BY <1>2, <3>1, <3>2
  <2>4. i # k
    BY <1>7
  <2> QED BY <2>1, <2>3, <2>4
<1>8. i > k => i = k + 1 \/ i > k + 1
  BY <1>1
<1> QED BY <1>1, <1>5, <1>6, <1>7, <1>8

\* A turn of the conversion keeps the table's invariant.
LEMMA JoinTable ==
  ASSUME IInv, EInv, Join
  PROVE  EInv'
<1>1. TableTypes'
  <2>1. /\ pc = "join" /\ pc' = pc /\ i' = i + 1 /\ i \in Nat /\ i > 0
        /\ e820 \in Seq(E820Entry)
    BY DEF Join, EInv, TableTypes
  <2>2. e820' \in Seq(E820Entry) /\ Len(e820') > 0
    BY Turn
  <2>3. i' \in Nat /\ i' > 0 /\ i' # 1
    BY <2>1
  <2> QED BY <2>1, <2>2, <2>3 DEF TableTypes
<1> QED BY <1>1, TurnSays, TurnOrder, TurnIsolates DEF EInv

\* The other steps leave the table alone, and the map it is made from.
LEMMA OtherTable ==
  ASSUME IInv, IInv', EInv, Next \/ UNCHANGED vars, ~Join
  PROVE  EInv'
<1>1. i' = i /\ e820' = e820
  BY DEF Next, Event, HeapMap, Locate, AllocatePages, ExitMap, ExitBootServices, Joined,
         table, vars
<1>2. CASE pc \notin {"join", "done"}
  <2>1. pc' # "done"
    BY <1>2 DEF Next, Event, HeapMap, Locate, AllocatePages, ExitMap, ExitBootServices, Joined,
                vars
  <2>2. i = 1 /\ e820 = <<>>
    BY <1>2 DEF EInv, TableTypes
  <2>3. StateTypes' /\ i' = 1 /\ e820' = <<>> /\ pc' # "done"
    BY <1>1, <2>1, <2>2 DEF IInv
  <2>4. TableTypes' /\ TableInv' /\ OrderInv'
    BY <2>3 DEF TableTypes, TableInv, OrderInv
  <2>5. IsolatedInv'
    <3>1. m'.descs \in Seq(ReadDescriptor)
      BY <2>3 DEF StateTypes
    <3>2. ASSUME NEW k \in Nat, ImageAt(k)' PROVE ~(i' = k + 1) /\ ~(i' > k + 1)
      <4>1. k > 0
        BY <3>1, <3>2 DEF ImageAt
      <4> QED BY <2>3, <4>1
    <3> QED BY <3>2 DEF IsolatedInv
  <2> QED BY <2>4, <2>5 DEF EInv
<1>3. CASE pc \in {"join", "done"}
  <2>1. exited
    BY <1>3 DEF IInv, MapInv
  <2>2. /\ UNCHANGED <<m, DescriptorSize, heapStart, RamSize, exited>>
        /\ pc' \in {"join", "done"} /\ (pc' = "done" => pc = "done" \/ i > Len(m.descs))
    BY <1>3, <2>1 DEF Next, Event, HeapMap, Locate, AllocatePages, ExitMap, ExitBootServices,
         Joined, firmware, runtime, vars
  <2>3. TableTypes'
    BY <1>1, <1>3, <2>2 DEF EInv, TableTypes
  <2>4. TableInv' /\ OrderInv'
    BY <1>1, <2>2 DEF EInv, TableInv, OrderInv
  <2>5. IsolatedInv'
    BY <1>1, <2>2 DEF EInv, IsolatedInv, ImageAt, ramEnd
  <2> QED BY <2>3, <2>4, <2>5 DEF EInv
<1> QED BY <1>2, <1>3

\* What the loop of E820 keeps, in every reachable state.
THEOREM TableInvariance == Spec => []EInv
<1>1. Init => EInv
  <2>1. Init => StateTypes /\ i = 1 /\ e820 = <<>> /\ pc # "done"
    BY Initial DEF Init, IInv
  <2> QED BY <2>1, Fresh
<1>2. IInv /\ IInv' /\ EInv /\ [Next]_vars => EInv'
  BY JoinTable, OtherTable
<1> QED BY <1>1, <1>2, Invariance, PTL DEF Spec

\* The E820 map says of each page what the descriptors converted so far say; read from
\* descriptors of 48 bytes it is in order and without overlaps, and has the runtime's memory
\* as an entry of its own, unless loader data follows it.
THEOREM E820IsExact == Spec => []E820Exact
<1>1. IInv /\ EInv => E820Exact
  <2> SUFFICES ASSUME IInv, EInv PROVE E820Exact
    OBVIOUS
  <2>1. ASSUME NEW p \in 0..Pages - 1, NEW t \in E820Types
        PROVE  LET a == p * PageSize IN
               (\E k \in 1..i - 1 : /\ In(a, m.descs[k].start, m.descs[k].pages * PageSize)
                                    /\ MemType(m.descs[k].type) = t)
               <=> (\E k \in DOMAIN e820 : In(a, e820[k].addr, e820[k].size) /\ e820[k].type = t)
    <3>1. p * PageSize \in Nat
      BY MemMapAssumptions, SMT DEF PageSize
    <3>2. (\E k \in 1..i - 1 : DescriptorSays(m.descs[k], p * PageSize, t))
            <=> (\E k \in DOMAIN e820 : Says(e820[k], p * PageSize, t))
      BY <3>1 DEF EInv, TableInv
    <3> QED BY <3>2, Zenon DEF DescriptorSays, Says, Entry
  <2>2. ASSUME DescriptorSize = Stride
        PROVE  \A k \in 1..Len(e820) - 1 : e820[k].addr + e820[k].size <= e820[k + 1].addr
    BY <2>2 DEF EInv, OrderInv, End
  <2>3. ASSUME DescriptorSize = Stride, ramEnd \in DOMAIN mem => mem[ramEnd] # "LoaderData",
               pc = "done", ~warned
        PROVE  \E k \in DOMAIN e820 : e820[k].addr = RamStart * PageSize
                                      /\ e820[k].size = RamSize * PageSize
    <3> DEFINE ds == Descriptors(mem)
    <3>1. Image(mem, heapStart) /\ Allocated(mem, ramEnd) /\ exited /\ StateTypes
      BY <2>3 DEF IInv, OwnedInv, MapInv, Using
    <3>2. ramEnd < Pages => mem[ramEnd] # "LoaderData"
      <4>1. ramEnd < Pages => ramEnd \in Page
        BY MemMapAssumptions DEF IInv, StateTypes, ramEnd, Page
      <4> QED BY <2>3, <3>1, <4>1 DEF StateTypes, Memories
    <3>3. PICK k \in DOMAIN ds :
            /\ k + 1 \in DOMAIN ds
            /\ ds[k] = [type |-> "LoaderCode", start |-> RamStart, pages |-> heapStart - RamStart]
            /\ ds[k + 1] = [type |-> "LoaderData", start |-> heapStart,
                            pages |-> ramEnd - heapStart]
      BY <3>1, <3>2, TwoRuns
    <3>4. ds \in Seq(Descriptor) /\ m.descs = Decoded(ds, Stride)
      BY <2>3, <3>1, MapTypes DEF IInv, MapInv, Current
    <3>5. DOMAIN m.descs = DOMAIN ds /\ \A j \in DOMAIN ds : m.descs[j] = Exact(ds[j])
      BY <3>4, DecodedExactly
    <3> HIDE DEF ds
    <3>6. ImageAt(k)
      <4>1. Code["LoaderCode"] = 1 /\ Code["LoaderData"] = 2
        BY DEF Code
      <4> QED BY <3>1, <3>3, <3>5, <4>1 DEF ImageAt, Exact, Image, Allocated
    <3>7. k \in Nat /\ i > k + 1
      <4>1. k \in Nat /\ k + 1 <= Len(m.descs)
        BY <3>3, <3>4, <3>5, <3>1 DEF StateTypes
      <4>2. i > Len(m.descs) /\ i \in Nat /\ Len(m.descs) \in Nat
        BY <2>3, <3>1 DEF EInv, TableTypes, StateTypes
      <4> QED BY <4>1, <4>2
    <3> QED BY <3>1, <3>6, <3>7 DEF EInv, IsolatedInv
  <2> QED BY <2>1, <2>2, <2>3 DEF E820Exact, RuntimeIsolated
<1> QED BY <1>1, Invariance, TableInvariance, PTL
=============================================================================
