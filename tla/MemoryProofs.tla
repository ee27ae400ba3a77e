---------------------------- MODULE MemoryProofs ----------------------------
(***************************************************************************)
(* Proofs about UserMemory and Translations, for any number of processes   *)
(* and frames, any size of page and table, and any image: a frame has one  *)
(* owner, whatever forks, execs, growths, failures and waits do; what sbrk *)
(* may change; which steps can lose frames; and that a process reaches the *)
(* frame of another only after a shrink.                                   *)
(***************************************************************************)
EXTENDS Translations, FiniteSetTheorems, SequenceTheorems, TLAPS

-----------------------------------------------------------------------------
(* Numbers                                                                 *)

\* A set of naturals has a least element. The naturals are well-founded.
LEMMA LeastElement ==
  ASSUME NEW T, T \subseteq Nat, T # {}
  PROVE  \E x \in T : \A y \in T : x <= y
<1>1. \E x \in T : \A y \in T : ~(<<y, x>> \in OpToRel(<, Nat))
  BY NatLessThanWellFounded, WFMin
<1>2. PICK x \in T : \A y \in T : ~(<<y, x>> \in {ss \in Nat \X Nat : ss[1] < ss[2]})
  BY <1>1 DEF OpToRel
<1>3. ASSUME NEW y \in T PROVE x <= y
  <2>1. x \in Nat /\ y \in Nat /\ ~(<<y, x>> \in {ss \in Nat \X Nat : ss[1] < ss[2]})
    BY <1>2
  <2>2. QED
    BY <2>1
<1>4. QED
  BY <1>3

\* Induction over a loop's turns, for the set of turns after which it is as it
\* should be
LEMMA Induction ==
  ASSUME NEW S, 0 \in S, \A n \in Nat : n \in S => n + 1 \in S
  PROVE  \A n \in Nat : n \in S
<1> SUFFICES ASSUME Nat \ S # {} PROVE FALSE
  OBVIOUS
<1>1. PICK x \in Nat \ S : \A y \in Nat \ S : x <= y
  BY LeastElement
<1>2. x - 1 \in Nat /\ x - 1 \in S
  BY <1>1
<1>3. QED
  BY <1>1, <1>2

\* Sizes in pages: those of an image, and of a heap that grows from its end
LEMMA Sizes ==
  /\ PageSize \in Nat \ {0} /\ TableSpan \in Nat \ {0} /\ NPAGE \in Nat \ {0}
  /\ ImagePages \in Nat \ {0} /\ MaxSbrk \in Nat \ {0} /\ NFRAME \in Nat
  /\ ImageEnd \in Nat /\ StackPage \in Page /\ ImagePages <= StackPage
BY MemoryAssumption DEF ImageEnd, StackPage, Page

LEMMA RoundUpOfImage == PageRoundUp(ImageEnd) = ImagePages
<1> DEFINE r == (ImageEnd + PageSize - 1) \div PageSize
           m == (ImageEnd + PageSize - 1) % PageSize
<1>1. r \in Int /\ m \in 0 .. PageSize - 1 /\ ImageEnd + PageSize - 1 = PageSize * r + m
  BY Sizes
<1> HIDE DEF r, m
<1>2. PageSize * (ImagePages - r) = m - PageSize + 1
  BY <1>1, Sizes DEF ImageEnd
<1>3. ImagePages - r = 0
  <2>1. CASE ImagePages - r >= 1
    <3>1. PageSize * (ImagePages - r) >= PageSize
      BY <1>1, <2>1, Sizes
    <3>2. QED
      BY <1>1, <1>2, <3>1, Sizes
  <2>2. CASE ImagePages - r <= -1
    <3>1. PageSize * (ImagePages - r) <= -PageSize
      BY <1>1, <2>2, Sizes
    <3>2. QED
      BY <1>1, <1>2, <3>1, Sizes
  <2>3. QED
    BY <1>1, <2>1, <2>2, Sizes
<1>4. QED
  BY <1>1, <1>3, Sizes DEF PageRoundUp, r

LEMMA RoundUpOfGrowth ==
  ASSUME NEW n \in 1 .. MaxSbrk
  PROVE  /\ PageRoundUp(ImageEnd + n) \in Nat
         /\ ImagePages < PageRoundUp(ImageEnd + n) /\ PageRoundUp(ImageEnd + n) <= StackPage
<1> DEFINE a == ImageEnd + n
           r == (a + PageSize - 1) \div PageSize
           m == (a + PageSize - 1) % PageSize
<1>1. a \in Nat /\ ImagePages * PageSize < a /\ a <= StackPage * PageSize
  BY Sizes, MemoryAssumption DEF ImageEnd, StackPage
<1> HIDE DEF a
<1>2. r \in Int /\ m \in 0 .. PageSize - 1 /\ a + PageSize - 1 = PageSize * r + m
  BY <1>1, Sizes
<1>3. PageRoundUp(ImageEnd + n) = r
  BY DEF PageRoundUp, a
<1> HIDE DEF r, m
<1>4. ImagePages < r
  <2>1. SUFFICES ASSUME r <= ImagePages PROVE FALSE
    BY <1>2, Sizes
  <2>2. PageSize * r <= PageSize * ImagePages
    BY <1>2, <2>1, Sizes
  <2>3. QED
    BY <1>1, <1>2, <2>2, Sizes
<1>5. r <= StackPage
  <2>1. SUFFICES ASSUME r >= StackPage + 1 PROVE FALSE
    BY <1>2, Sizes DEF StackPage
  <2>2. PageSize * r >= PageSize * (StackPage + 1)
    BY <1>2, <2>1, Sizes DEF StackPage
  <2>3. PageSize * (StackPage + 1) = PageSize * StackPage + PageSize
    BY Sizes DEF StackPage
  <2>4. QED
    BY <1>1, <1>2, <2>2, <2>3, Sizes DEF StackPage
<1>6. QED
  BY <1>2, <1>3, <1>4, <1>5, Sizes

-----------------------------------------------------------------------------
(* Uses in the order of a walk                                             *)

LEMMA PageFinite == IsFiniteSet(Page) /\ Page \subseteq Nat
BY Sizes, FS_Interval DEF Page

\* A use is a number, and the root, the tables and the pages are told apart.
LEMMA UsesApart ==
  /\ Use \subseteq Int
  /\ \A q \in Page : RegionOf(q) \in Nat /\ Leaf(q) \in Use /\ Table(RegionOf(q)) \in Use
  /\ Root \in Use
  /\ \A q \in Page : Leaf(q) # Root
  /\ \A q, r \in Page : Leaf(q) # Table(RegionOf(r))
  /\ \A q, r \in Page : Leaf(q) = Leaf(r) => q = r
<1>1. ASSUME NEW q \in Page PROVE RegionOf(q) \in Nat
  BY Sizes DEF RegionOf, Page
<1>2. ASSUME NEW q \in Page, NEW r \in Nat
      PROVE  Table(r) \in Int /\ Leaf(q) # Table(r)
  <2>1. r * TableSpan \in Nat
    BY Sizes
  <2>2. 2 * r * TableSpan = 2 * (r * TableSpan)
    BY Sizes
  <2>3. QED
    BY <2>1, <2>2 DEF Table, Leaf, Page
<1>3. Leaf(0) \in Int /\ \A q \in Page : Leaf(q) \in Nat
  BY DEF Leaf, Page
<1>4. Use \subseteq Int
  BY <1>1, <1>2, <1>3 DEF Use, Root
<1>5. QED
  BY <1>1, <1>2, <1>3, <1>4 DEF Use, Root, Leaf, Page

LEMMA UseFinite == IsFiniteSet(Use)
<1> DEFINE ofPage == [q \in Page |-> {Table(RegionOf(q)), Leaf(q)}]
           sets == {ofPage[q] : q \in Page}
<1>1. ofPage \in Surjection(Page, sets)
  BY DEF Surjection
<1>2. IsFiniteSet(sets)
  BY <1>1, PageFinite, FS_Surjection
<1>3. \A T \in sets : IsFiniteSet(T)
  <2>1. \A x, y : IsFiniteSet({x} \cup {y})
    BY FS_Singleton, FS_Union
  <2>2. \A x, y : IsFiniteSet({x, y})
    <3>1. \A x, y : {x, y} = {x} \cup {y}
      OBVIOUS
    <3>2. QED
      BY <2>1, <3>1
  <2>3. QED
    BY <2>2
<1>4. Use = {Root} \cup UNION sets
  <2>1. \A q \in Page : ofPage[q] \in sets /\ Table(RegionOf(q)) \in ofPage[q] /\ Leaf(q) \in ofPage[q]
    OBVIOUS
  <2>2. \A T \in sets : \A u \in T : u \in Use
    BY DEF Use
  <2>3. Root \in Use
    BY DEF Use
  <2>4. \A u \in Use : u \in {Root} \cup UNION sets
    BY <2>1 DEF Use
  <2> HIDE DEF sets
  <2>5. QED
    BY <2>2, <2>3, <2>4
<1> HIDE DEF sets
<1>5. QED
  BY <1>2, <1>3, <1>4, FS_UNION, FS_Union, FS_Singleton

\* Some uses of a walk
Uses(uses) == uses \subseteq Int /\ IsFiniteSet(uses)

LEMMA UsesOf == ASSUME NEW uses, uses \subseteq Use PROVE Uses(uses)
BY UsesApart, UseFinite, FS_Subset DEF Uses

\* Nth numbers the uses from 1 on.
LEMMA NthNumbers ==
  ASSUME NEW uses, Uses(uses)
  PROVE  /\ Cardinality(uses) \in Nat
         /\ \A u \in uses : Nth(uses, u) \in 1 .. Cardinality(uses)
         /\ \A u, v \in uses : Nth(uses, u) = Nth(uses, v) => u = v
         /\ \A k \in 1 .. Cardinality(uses) : \E u \in uses : Nth(uses, u) = k
<1> DEFINE UpTo(u) == {v \in uses : v <= u}
           f == [u \in uses |-> Nth(uses, u)]
<1>1. Cardinality(uses) \in Nat /\ IsFiniteSet(uses)
  BY FS_CardinalityType DEF Uses
<1>2. ASSUME NEW u \in uses
      PROVE  /\ IsFiniteSet(UpTo(u)) /\ u \in UpTo(u)
             /\ Cardinality(UpTo(u)) \in 1 .. Cardinality(uses)
  <2>1. UpTo(u) \in SUBSET uses
    OBVIOUS
  <2>2. IsFiniteSet(UpTo(u)) /\ Cardinality(UpTo(u)) <= Cardinality(uses)
    BY <1>1, <2>1, FS_Subset
  <2>3. u \in UpTo(u)
    BY DEF Uses
  <2>4. Cardinality(UpTo(u)) \in Nat /\ Cardinality(UpTo(u)) # 0
    BY <2>2, <2>3, FS_CardinalityType, FS_EmptySet
  <2> HIDE DEF UpTo
  <2>5. QED
    BY <1>1, <2>2, <2>3, <2>4
<1>3. ASSUME NEW u \in uses, NEW v \in uses, u < v
      PROVE  Cardinality(UpTo(u)) < Cardinality(UpTo(v))
  <2>1. UpTo(u) \in SUBSET UpTo(v) /\ v \notin UpTo(u) /\ v \in UpTo(v)
    <3>1. u \in Int /\ v \in Int /\ \A w \in UpTo(u) : w \in Int /\ w \in uses /\ w <= u
      BY DEF Uses
    <3>2. \A w \in UpTo(u) : w \in UpTo(v)
      BY <1>3, <3>1
    <3>3. v \notin UpTo(u)
      BY <1>3, <3>1
    <3>4. QED
      BY <1>2, <3>2, <3>3
  <2>2. Cardinality(UpTo(u)) <= Cardinality(UpTo(v)) /\ Cardinality(UpTo(u)) # Cardinality(UpTo(v))
    BY <1>2, <2>1, FS_Subset
  <2> HIDE DEF UpTo
  <2>3. QED
    BY <1>2, <2>2
<1>4. \A u \in uses : f[u] = Cardinality(UpTo(u))
  BY DEF Nth
<1>5. \A u, v \in uses : f[u] = f[v] => u = v
  <2> HIDE DEF f, UpTo
  <2>1. \A u, v \in uses : u < v => f[u] # f[v]
    BY <1>2, <1>3, <1>4
  <2>2. QED
    BY <2>1 DEF Uses
<1>6. f \in [uses -> 1 .. Cardinality(uses)]
  BY <1>2, <1>4
<1>7. f \in Injection(uses, 1 .. Cardinality(uses))
  BY <1>5, <1>6 DEF Injection, IsInjective
<1>8. f \in Surjection(uses, 1 .. Cardinality(uses))
  <2>1. IsFiniteSet(1 .. Cardinality(uses)) /\ Cardinality(1 .. Cardinality(uses)) = Cardinality(uses)
    BY <1>1, FS_Interval
  <2>2. QED
    BY <1>7, <2>1, FS_Injection
<1>9. \A k \in 1 .. Cardinality(uses) : \E u \in uses : f[u] = k
  BY <1>8 DEF Surjection
<1>10. \A u \in uses : f[u] = Nth(uses, u)
  OBVIOUS
<1> HIDE DEF f
<1>11. QED
  BY <1>1, <1>5, <1>6, <1>9, <1>10

-----------------------------------------------------------------------------
(* A free list and a space that divide frames between them                 *)

Once(f) == \A j, k \in DOMAIN f : f[j] = f[k] => j = k
IsSpace(s) == DOMAIN s \subseteq Use /\ s \in [DOMAIN s -> Frame] /\ Once(s)
IsList(f) == f \in Seq(Frame) /\ Once(f)
Apart(f, s) == \A k \in DOMAIN f, u \in DOMAIN s : f[k] # s[u]
Split(f, s) == IsList(f) /\ IsSpace(s) /\ Apart(f, s)
Held(f, s) == Range(f) \cup FramesOf(s)

\* What is allocated comes off the end of the list, each frame for one use.
LEMMA AllocateSplits ==
  ASSUME IsList(free), NEW uses, uses \subseteq Use, Fits(uses)
  PROVE  LET rest == AfterAllocating(Cardinality(uses))
             made == Allocated(uses)
         IN  /\ Split(rest, made) /\ DOMAIN made = uses
             /\ Held(rest, made) = Range(free)
<1> DEFINE n == Cardinality(uses)
           rest == AfterAllocating(n)
           made == Allocated(uses)
           at(u) == Len(free) + 1 - Nth(uses, u)
<1>1. /\ free \in Seq(Frame) /\ Len(free) \in Nat /\ DOMAIN free = 1 .. Len(free)
      /\ \A k \in 1 .. Len(free) : free[k] \in Frame
      /\ \A j, k \in 1 .. Len(free) : free[j] = free[k] => j = k
  BY DEF IsList, Once
<1>2. /\ n \in Nat /\ n <= Len(free)
      /\ \A u \in uses : Nth(uses, u) \in 1 .. n
      /\ \A u, v \in uses : Nth(uses, u) = Nth(uses, v) => u = v
      /\ \A k \in 1 .. n : \E u \in uses : Nth(uses, u) = k
  BY UsesOf, NthNumbers DEF Fits
<1>3. /\ rest \in Seq(Frame) /\ Len(rest) = Len(free) - n /\ DOMAIN rest = 1 .. Len(free) - n
      /\ \A k \in 1 .. Len(free) - n : rest[k] = free[k]
  BY <1>1, <1>2 DEF AfterAllocating
<1>4. DOMAIN made = uses /\ \A u \in uses : made[u] = free[at(u)]
  BY DEF Allocated
<1>5. made = [u \in uses |-> made[u]]
  BY DEF Allocated
<1> HIDE DEF n, rest, made
<1>6. /\ \A u \in uses : at(u) \in Len(free) - n + 1 .. Len(free)
      /\ \A u, v \in uses : at(u) = at(v) => u = v
      /\ \A k \in Len(free) - n + 1 .. Len(free) : \E u \in uses : at(u) = k
  <2>1. \A u \in uses : at(u) \in Len(free) - n + 1 .. Len(free)
    BY <1>1, <1>2
  <2>2. \A u, v \in uses : at(u) = at(v) => u = v
    BY <1>1, <1>2
  <2>3. ASSUME NEW k \in Len(free) - n + 1 .. Len(free)
        PROVE  \E u \in uses : at(u) = k
    <3>1. Len(free) + 1 - k \in 1 .. n
      BY <1>1, <1>2
    <3>2. PICK u \in uses : Nth(uses, u) = Len(free) + 1 - k
      BY <1>2, <3>1
    <3>3. at(u) = k
      BY <1>1, <3>2
    <3>4. QED
      BY <3>3
  <2>4. QED
    BY <2>1, <2>2, <2>3
<1> HIDE DEF at
<1>7. IsSpace(made)
  <2>1. \A u \in uses : made[u] \in Frame
    BY <1>1, <1>2, <1>4, <1>6
  <2>2. \A u, v \in uses : made[u] = made[v] => u = v
    BY <1>1, <1>2, <1>4, <1>6
  <2>3. QED
    BY <1>4, <1>5, <2>1, <2>2 DEF IsSpace, Once
<1>8. IsList(rest)
  BY <1>1, <1>2, <1>3 DEF IsList, Once
<1>9. Apart(rest, made)
  <2>1. ASSUME NEW k \in 1 .. Len(free) - n, NEW u \in uses PROVE rest[k] # made[u]
    <3>1. k \in 1 .. Len(free) /\ at(u) \in 1 .. Len(free) /\ k # at(u)
      BY <1>1, <1>2, <1>6
    <3>2. QED
      BY <1>1, <1>3, <1>4, <3>1
  <2>2. QED
    BY <1>3, <1>4, <2>1 DEF Apart
<1>10. Held(rest, made) = Range(free)
  <2>1. \A x \in Held(rest, made) : x \in Range(free)
    BY <1>1, <1>2, <1>3, <1>4, <1>6 DEF Held, FramesOf, Range
  <2>2. ASSUME NEW k \in 1 .. Len(free)
        PROVE  free[k] \in Held(rest, made)
    <3>1. CASE k <= Len(free) - n
      BY <1>1, <1>2, <1>3, <3>1 DEF Held, Range
    <3>2. CASE k > Len(free) - n
      <4>1. PICK u \in uses : at(u) = k
        BY <1>1, <1>2, <1>6, <3>2
      <4>2. QED
        BY <1>4, <4>1 DEF Held, FramesOf
    <3>3. QED
      BY <1>1, <1>2, <3>1, <3>2
  <2>3. \A x \in Range(free) : x \in Held(rest, made)
    BY <1>1, <2>2 DEF Range
  <2>4. QED
    BY <2>1, <2>3
<1>11. QED
  BY <1>4, <1>7, <1>8, <1>9, <1>10 DEF Split, rest, made, n

\* What is deallocated goes to the end of the list and leaves the space.
LEMMA DeallocateSplits ==
  ASSUME NEW f, NEW s, Split(f, s), NEW uses \in SUBSET DOMAIN s
  PROVE  LET list == Deallocated(f, s, uses)
             rest == Without(s, uses)
         IN  /\ Split(list, rest) /\ Held(list, rest) = Held(f, s)
             /\ DOMAIN rest = DOMAIN s \ uses
             /\ \A u \in DOMAIN s \ uses : rest[u] = s[u]
<1> DEFINE n == Cardinality(uses)
           nth(k) == CHOOSE u \in uses : Nth(uses, u) = k
           given == [k \in 1 .. n |-> s[nth(k)]]
           list == Deallocated(f, s, uses)
           rest == Without(s, uses)
<1>1. /\ f \in Seq(Frame) /\ Len(f) \in Nat /\ DOMAIN f = 1 .. Len(f)
      /\ \A k \in 1 .. Len(f) : f[k] \in Frame
      /\ \A j, k \in 1 .. Len(f) : f[j] = f[k] => j = k
  BY DEF Split, IsList, Once
<1>2. /\ DOMAIN s \subseteq Use
      /\ \A u \in DOMAIN s : s[u] \in Frame
      /\ \A u, v \in DOMAIN s : s[u] = s[v] => u = v
      /\ \A k \in 1 .. Len(f), u \in DOMAIN s : f[k] # s[u]
  BY <1>1 DEF Split, IsSpace, Apart, Once
<1>3. /\ n \in Nat
      /\ \A u \in uses : Nth(uses, u) \in 1 .. n
      /\ \A u, v \in uses : Nth(uses, u) = Nth(uses, v) => u = v
      /\ \A k \in 1 .. n : \E u \in uses : Nth(uses, u) = k
  BY <1>2, UsesOf, NthNumbers
<1>4. /\ \A k \in 1 .. n : nth(k) \in uses /\ Nth(uses, nth(k)) = k
  BY <1>3
<1>5. \A u \in uses : nth(Nth(uses, u)) = u
  BY <1>3, <1>4
<1>6. list = f \o given
  BY DEF Deallocated
<1>7. /\ DOMAIN rest = DOMAIN s \ uses /\ \A u \in DOMAIN s \ uses : rest[u] = s[u]
      /\ rest = [u \in DOMAIN s \ uses |-> s[u]]
  BY DEF Without
<1> HIDE DEF n, nth, list, rest
<1>8. /\ given \in Seq(Frame) /\ Len(given) = n /\ DOMAIN given = 1 .. n
      /\ \A k \in 1 .. n : given[k] = s[nth(k)]
  <2>1. given \in [1 .. n -> Frame]
    BY <1>2, <1>4
  <2>2. QED
    BY <1>3, <2>1
<1> HIDE DEF given
<1>9. /\ list \in Seq(Frame) /\ DOMAIN list = 1 .. Len(f) + n
      /\ \A k \in 1 .. Len(f) : list[k] = f[k]
      /\ \A k \in Len(f) + 1 .. Len(f) + n : list[k] = s[nth(k - Len(f))]
  <2>1. list \in Seq(Frame) /\ Len(list) = Len(f) + n
    <3>1. f \in Seq(Frame) /\ given \in Seq(Frame) /\ Len(given) = n
      BY <1>1, <1>8
    <3>2. QED
      BY <1>6, <3>1, ConcatProperties
  <2>2. \A k \in 1 .. Len(f) : list[k] = f[k]
    BY <1>1, <1>3, <1>6, <1>8
  <2>3. ASSUME NEW k \in Len(f) + 1 .. Len(f) + n PROVE list[k] = s[nth(k - Len(f))]
    BY <1>1, <1>3, <1>6, <1>8
  <2>4. QED
    BY <2>1, <2>2, <2>3
<1>10. IsList(list)
  <2>1. ASSUME NEW j \in 1 .. Len(f) + n, NEW k \in 1 .. Len(f) + n, j < k, list[j] = list[k]
        PROVE  FALSE
    <3>1. CASE k <= Len(f)
      BY <1>1, <1>3, <1>9, <2>1, <3>1
    <3>2. CASE j <= Len(f) /\ k > Len(f)
      BY <1>1, <1>2, <1>3, <1>4, <1>9, <2>1, <3>2
    <3>3. CASE j > Len(f) /\ k > Len(f)
      <4>1. j - Len(f) \in 1 .. n /\ k - Len(f) \in 1 .. n
        BY <1>1, <1>3, <3>3
      <4>2. s[nth(j - Len(f))] = s[nth(k - Len(f))]
        <5>1. j \in Len(f) + 1 .. Len(f) + n /\ k \in Len(f) + 1 .. Len(f) + n
          BY <1>1, <1>3, <3>3
        <5>2. list[j] = s[nth(j - Len(f))] /\ list[k] = s[nth(k - Len(f))]
          BY <1>9, <5>1
        <5>3. QED
          BY <2>1, <5>2
      <4>3. nth(j - Len(f)) = nth(k - Len(f))
        BY <1>2, <1>4, <4>1, <4>2
      <4>4. j - Len(f) = k - Len(f)
        BY <1>4, <4>1, <4>3
      <4>5. QED
        BY <1>1, <1>3, <2>1, <4>4
    <3>4. QED
      BY <1>1, <1>3, <2>1, <3>1, <3>2, <3>3
  <2>2. \A j, k \in 1 .. Len(f) + n : list[j] = list[k] => j = k
    BY <1>1, <1>3, <2>1
  <2>3. QED
    BY <1>9, <2>2 DEF IsList, Once
<1>11. IsSpace(rest)
  BY <1>2, <1>7 DEF IsSpace, Once
<1>12. Apart(list, rest)
  <2>1. ASSUME NEW k \in 1 .. Len(f) + n, NEW u \in DOMAIN s \ uses PROVE list[k] # s[u]
    <3>1. CASE k <= Len(f)
      BY <1>1, <1>2, <1>3, <1>9, <3>1
    <3>2. CASE k > Len(f)
      <4>1. nth(k - Len(f)) \in uses /\ list[k] = s[nth(k - Len(f))]
        BY <1>1, <1>3, <1>4, <1>9, <3>2
      <4>2. QED
        BY <1>2, <4>1
    <3>3. QED
      BY <1>1, <1>3, <3>1, <3>2
  <2>2. QED
    BY <1>7, <1>9, <2>1 DEF Apart
<1>13. Held(list, rest) = Held(f, s)
  <2>1. ASSUME NEW k \in 1 .. Len(f) + n PROVE list[k] \in Held(f, s)
    <3>1. CASE k <= Len(f)
      BY <1>1, <1>3, <1>9, <3>1 DEF Held, Range
    <3>2. CASE k > Len(f)
      <4>1. nth(k - Len(f)) \in uses /\ list[k] = s[nth(k - Len(f))]
        BY <1>1, <1>3, <1>4, <1>9, <3>2
      <4>2. QED
        BY <4>1 DEF Held, FramesOf
    <3>3. QED
      BY <1>1, <1>3, <3>1, <3>2
  <2>2. \A k \in 1 .. Len(f) : f[k] \in Held(list, rest)
    BY <1>1, <1>3, <1>9 DEF Held, Range
  <2>3. ASSUME NEW u \in DOMAIN s PROVE s[u] \in Held(list, rest)
    <3>1. CASE u \in uses
      <4>1. Nth(uses, u) \in 1 .. n /\ nth(Nth(uses, u)) = u
        BY <1>3, <1>5, <3>1
      <4>2. PICK k \in 1 .. n : k = Nth(uses, u) /\ nth(k) = u
        BY <4>1
      <4>3. Len(f) + k \in Len(f) + 1 .. Len(f) + n /\ Len(f) + k - Len(f) = k
        BY <1>1, <1>3
      <4>4. list[Len(f) + k] = s[u]
        BY <1>9, <4>2, <4>3
      <4>5. Len(f) + k \in DOMAIN list
        BY <1>1, <1>3, <1>9
      <4>6. QED
        BY <4>4, <4>5 DEF Held, Range
    <3>2. CASE u \notin uses
      BY <1>7, <3>2 DEF Held, FramesOf
    <3>3. QED
      BY <3>1, <3>2
  <2>4. \A x \in Held(list, rest) : x \in Held(f, s)
    BY <1>7, <1>9, <2>1 DEF Held, Range, FramesOf
  <2>5. \A x \in Held(f, s) : x \in Held(list, rest)
    BY <1>1, <2>2, <2>3 DEF Held, Range, FramesOf
  <2>6. QED
    BY <2>4, <2>5
<1>14. QED
  BY <1>7, <1>10, <1>11, <1>12, <1>13 DEF Split, list, rest

-----------------------------------------------------------------------------
(* A growth, page by page                                                  *)

\* The last frame of the list goes to a use that had none.
LEMMA MapSplits ==
  ASSUME NEW f, NEW s, Split(f, s), Len(f) > 0, NEW use \in Use, use \notin DOMAIN s
  PROVE  LET rest == SubSeq(f, 1, Len(f) - 1)
             made == Mapped(s, use, f[Len(f)])
         IN  /\ Split(rest, made) /\ Held(rest, made) = Held(f, s)
             /\ DOMAIN made = DOMAIN s \cup {use}
             /\ \A u \in DOMAIN s : made[u] = s[u]
             /\ Len(rest) = Len(f) - 1 /\ \A k \in 1 .. Len(f) - 1 : rest[k] = f[k]
<1> DEFINE top == Len(f)
           rest == SubSeq(f, 1, top - 1)
           made == Mapped(s, use, f[top])
<1>1. /\ f \in Seq(Frame) /\ top \in Nat \ {0} /\ DOMAIN f = 1 .. top
      /\ \A k \in 1 .. top : f[k] \in Frame
      /\ \A j, k \in 1 .. top : f[j] = f[k] => j = k
  BY DEF Split, IsList, Once
<1>2. /\ DOMAIN s \subseteq Use
      /\ \A u \in DOMAIN s : s[u] \in Frame
      /\ \A u, v \in DOMAIN s : s[u] = s[v] => u = v
      /\ \A k \in 1 .. top, u \in DOMAIN s : f[k] # s[u]
  BY <1>1 DEF Split, IsSpace, Apart, Once
<1>3. /\ rest \in Seq(Frame) /\ Len(rest) = top - 1 /\ DOMAIN rest = 1 .. top - 1
      /\ \A k \in 1 .. top - 1 : rest[k] = f[k]
  BY <1>1
<1>4. /\ DOMAIN made = DOMAIN s \cup {use} /\ made[use] = f[top]
      /\ \A u \in DOMAIN s : made[u] = s[u]
      /\ made = [u \in DOMAIN s \cup {use} |-> made[u]]
  BY DEF Mapped
<1> HIDE DEF top, rest, made
<1>5. IsList(rest)
  BY <1>1, <1>3 DEF IsList, Once
<1>6. IsSpace(made)
  <2>1. \A u \in DOMAIN s \cup {use} : made[u] \in Frame
    BY <1>1, <1>2, <1>4
  <2>2. \A u, v \in DOMAIN s \cup {use} : made[u] = made[v] => u = v
    BY <1>1, <1>2, <1>4
  <2>3. QED
    BY <1>2, <1>4, <2>1, <2>2 DEF IsSpace, Once
<1>7. Apart(rest, made)
  <2>1. ASSUME NEW k \in 1 .. top - 1, NEW u \in DOMAIN s \cup {use} PROVE rest[k] # made[u]
    <3>1. k \in 1 .. top /\ top \in 1 .. top /\ k # top
      BY <1>1
    <3>2. QED
      BY <1>1, <1>2, <1>3, <1>4, <3>1
  <2>2. QED
    BY <1>3, <1>4, <2>1 DEF Apart
<1>8. Held(rest, made) = Held(f, s)
  <2>1. \A k \in 1 .. top : k \in 1 .. top - 1 \/ k = top
    BY <1>1
  <2>2. \A k \in 1 .. top - 1 : k \in 1 .. top
    BY <1>1
  <2>3. top \in 1 .. top
    BY <1>1
  <2>4. /\ \A k \in 1 .. top : f[k] \in Held(f, s)
        /\ \A u \in DOMAIN s : s[u] \in Held(f, s)
    BY <1>1 DEF Held, Range, FramesOf
  <2>5. \A x \in Held(rest, made) :
          (\E k \in 1 .. top - 1 : x = rest[k]) \/ (\E u \in DOMAIN made : x = made[u])
    BY <1>3 DEF Held, Range, FramesOf
  <2>6. ASSUME NEW x \in Held(rest, made) PROVE x \in Held(f, s)
    <3>1. CASE \E k \in 1 .. top - 1 : x = rest[k]
      BY <1>3, <2>2, <2>4, <3>1
    <3>2. CASE \E u \in DOMAIN made : x = made[u]
      BY <1>4, <2>3, <2>4, <3>2
    <3>3. QED
      BY <2>5, <3>1, <3>2
  <2>7. \A x \in Held(f, s) : x \in Held(rest, made)
    BY <1>1, <1>3, <1>4, <2>1 DEF Held, Range, FramesOf
  <2>8. QED
    BY <2>6, <2>7
<1>9. QED
  BY <1>3, <1>4, <1>5, <1>6, <1>7, <1>8 DEF Split, top, rest, made

LEMMA MapsCommute ==
  ASSUME NEW s, NEW u, NEW v, u # v, NEW x, NEW y
  PROVE  Mapped(Mapped(s, u, x), v, y) = Mapped(Mapped(s, v, y), u, x)
BY DEF Mapped

\* What one turn of alloc_uvm's loop makes of a state of its
Turn(g, q, h) ==
  /\ h = Growing(h.space, h.free, h.ok) /\ h.ok \in BOOLEAN
  /\ Split(h.free, h.space) /\ Held(h.free, h.space) = Held(g.free, g.space)
  /\ \A u \in DOMAIN g.space : u \in DOMAIN h.space /\ h.space[u] = g.space[u]
  /\ IF h.ok
       THEN /\ g.ok /\ q \notin PagesOf(g.space) /\ Table(RegionOf(q)) \in DOMAIN h.space
            /\ PagesOf(h.space) = PagesOf(g.space) \cup {q}
       ELSE PagesOf(h.space) = PagesOf(g.space)

LEMMA MapPageTurns ==
  ASSUME NEW g, g = Growing(g.space, g.free, g.ok), g.ok \in BOOLEAN,
         Split(g.free, g.space), NEW q \in Page
  PROVE  Turn(g, q, MapPage(g, q))
<1> DEFINE top == Len(g.free)
           table == Table(RegionOf(q))
           leaf == Leaf(q)
           h == MapPage(g, q)
<1>1. top \in Nat /\ g.free \in Seq(Frame)
  BY DEF Split, IsList
<1>2. /\ leaf \in Use /\ table \in Use /\ leaf # table
      /\ \A r \in Page : Leaf(r) # table /\ (Leaf(r) = leaf => r = q)
  BY UsesApart
<1> DEFINE next == Growing(Mapped(g.space, leaf, g.free[top]), SubSeq(g.free, 1, top - 1), TRUE)
           both == Growing(Mapped(Mapped(g.space, table, g.free[top - 1]), leaf, g.free[top]),
                           SubSeq(g.free, 1, top - 2), TRUE)
           fails == [g EXCEPT !.ok = FALSE]
<1>3. h = IF ~g.ok \/ top = 0 \/ leaf \in DOMAIN g.space THEN fails
          ELSE IF table \in DOMAIN g.space THEN next ELSE IF top > 1 THEN both ELSE fails
  BY DEF MapPage
<1> HIDE DEF table, leaf, h
<1>4. ASSUME h = fails PROVE Turn(g, q, h)
  <2>1. h.space = g.space /\ h.free = g.free /\ h.ok = FALSE /\ h = Growing(h.space, h.free, h.ok)
    BY <1>4 DEF Growing
  <2>2. QED
    BY <2>1 DEF Turn
<1>5. ASSUME g.ok, top # 0, leaf \notin DOMAIN g.space, table \in DOMAIN g.space, h = next
      PROVE  Turn(g, q, h)
  <2> DEFINE rest == SubSeq(g.free, 1, top - 1)
             made == Mapped(g.space, leaf, g.free[top])
  <2>1. h.space = made /\ h.free = rest /\ h.ok = TRUE /\ h = Growing(h.space, h.free, h.ok)
    BY <1>5 DEF Growing
  <2>2. /\ Split(rest, made) /\ Held(rest, made) = Held(g.free, g.space)
        /\ DOMAIN made = DOMAIN g.space \cup {leaf}
        /\ \A u \in DOMAIN g.space : made[u] = g.space[u]
        /\ Len(rest) = Len(g.free) - 1 /\ \A k \in 1 .. Len(g.free) - 1 : rest[k] = g.free[k]
    <3>1. Len(g.free) > 0 /\ leaf \in Use /\ leaf \notin DOMAIN g.space
      BY <1>1, <1>2, <1>5
    <3>2. QED
      BY <3>1, MapSplits
  <2> HIDE DEF rest, made
  <2>3. PagesOf(made) = PagesOf(g.space) \cup {q}
    BY <1>2, <2>2 DEF PagesOf, leaf
  <2>4. q \notin PagesOf(g.space)
    BY <1>5 DEF PagesOf, leaf
  <2>5. table \in DOMAIN made
    BY <1>5, <2>2
  <2>6. QED
    BY <1>5, <2>1, <2>2, <2>3, <2>4, <2>5 DEF Turn, table
<1>6. ASSUME g.ok, leaf \notin DOMAIN g.space, table \notin DOMAIN g.space, top > 1, h = both
      PROVE  Turn(g, q, h)
  <2> DEFINE rest == SubSeq(g.free, 1, top - 1)
             made == Mapped(g.space, leaf, g.free[top])
             rest2 == SubSeq(rest, 1, Len(rest) - 1)
             made2 == Mapped(made, table, rest[Len(rest)])
  <2>1. /\ Split(rest, made) /\ Held(rest, made) = Held(g.free, g.space)
        /\ DOMAIN made = DOMAIN g.space \cup {leaf}
        /\ \A u \in DOMAIN g.space : made[u] = g.space[u]
        /\ Len(rest) = top - 1 /\ \A k \in 1 .. top - 1 : rest[k] = g.free[k]
    <3>1. Len(g.free) > 0 /\ leaf \in Use
      BY <1>1, <1>2, <1>6
    <3>2. QED
      BY <1>6, <3>1, MapSplits
  <2>2. SubSeq(g.free, 1, top - 2) = rest2 /\ rest[Len(rest)] = g.free[top - 1]
    <3>1. rest[Len(rest)] = g.free[top - 1]
      BY <1>1, <1>6, <2>1
    <3>2. rest2 = SubSeq(rest, 1, top - 2)
      BY <1>1, <2>1
    <3>3. SubSeq(SubSeq(g.free, 1, top - 1), 1, top - 2) = SubSeq(g.free, 1, top - 2)
      BY <1>1, <1>6
    <3>4. QED
      BY <3>1, <3>2, <3>3
  <2>3. Mapped(Mapped(g.space, table, g.free[top - 1]), leaf, g.free[top]) = made2
    <3>1. Mapped(Mapped(g.space, table, g.free[top - 1]), leaf, g.free[top])
            = Mapped(made, table, g.free[top - 1])
      BY <1>2, MapsCommute
    <3> HIDE DEF made, rest
    <3>2. QED
      BY <2>2, <3>1
  <2>4. h = Growing(made2, rest2, TRUE)
    BY <1>6, <2>2, <2>3
  <2> HIDE DEF rest, made
  <2>5. /\ Split(rest2, made2) /\ Held(rest2, made2) = Held(rest, made)
        /\ DOMAIN made2 = DOMAIN made \cup {table}
        /\ \A u \in DOMAIN made : made2[u] = made[u]
        /\ Len(rest2) = Len(rest) - 1 /\ \A k \in 1 .. Len(rest) - 1 : rest2[k] = rest[k]
    <3>1. Len(rest) > 0 /\ table \notin DOMAIN made /\ table \in Use /\ Split(rest, made)
      BY <1>1, <1>2, <1>6, <2>1
    <3>2. QED
      BY <3>1, MapSplits
  <2> HIDE DEF rest2, made2
  <2>6. h.space = made2 /\ h.free = rest2 /\ h.ok = TRUE /\ h = Growing(h.space, h.free, h.ok)
    BY <2>4 DEF Growing
  <2>7. PagesOf(made2) = PagesOf(g.space) \cup {q}
    BY <1>2, <2>1, <2>5 DEF PagesOf, leaf
  <2>8. q \notin PagesOf(g.space)
    BY <1>6 DEF PagesOf, leaf
  <2>9. QED
    BY <1>6, <2>1, <2>5, <2>6, <2>7, <2>8 DEF Turn, table
<1>7. QED
  BY <1>1, <1>3, <1>4, <1>5, <1>6 DEF h

\* The loop is defined: a function gives the state after each of its turns.
LoopOf(p, first, last, g) ==
  g = [q \in first-1 .. last |->
         IF q = first - 1 THEN Growing(space[p], free, TRUE) ELSE MapPage(g[q - 1], q)]

LEMMA LoopIsDefined ==
  ASSUME NEW p, NEW first \in Int, NEW last \in Int, first - 1 <= last
  PROVE  \E g : LoopOf(p, first, last, g)
<1> DEFINE S == {n \in Nat : \E g : LoopOf(p, first, first - 1 + n, g)}
<1>1. 0 \in S
  <2> DEFINE g == [q \in first-1 .. first-1 |-> Growing(space[p], free, TRUE)]
  <2>1. LoopOf(p, first, first - 1 + 0, g)
    BY DEF LoopOf
  <2> HIDE DEF g
  <2>2. QED
    BY <2>1
<1>2. ASSUME NEW n \in Nat, n \in S PROVE n + 1 \in S
  <2>1. PICK g : LoopOf(p, first, first - 1 + n, g)
    BY <1>2
  <2> DEFINE D == first-1 .. first - 1 + (n + 1)
             h == [q \in D |-> IF q = first + n THEN MapPage(g[q - 1], q) ELSE g[q]]
  <2>2. /\ \A q \in first-1 .. first - 1 + n : q \in D /\ h[q] = g[q]
        /\ first + n \in D /\ h[first + n] = MapPage(g[first + n - 1], first + n)
        /\ \A q \in D : q = first + n \/ q \in first-1 .. first - 1 + n
    OBVIOUS
  <2>3. \A q \in first-1 .. first - 1 + n :
          g[q] = IF q = first - 1 THEN Growing(space[p], free, TRUE) ELSE MapPage(g[q - 1], q)
    BY <2>1 DEF LoopOf
  <2>4. DOMAIN h = D /\ h = [q \in D |-> h[q]]
    OBVIOUS
  <2> HIDE DEF h
  <2>5. ASSUME NEW q \in D
        PROVE  h[q] = IF q = first - 1 THEN Growing(space[p], free, TRUE) ELSE MapPage(h[q - 1], q)
    <3>1. CASE q = first + n
      <4>1. q - 1 \in first-1 .. first - 1 + n /\ q # first - 1
        BY <3>1
      <4>2. QED
        BY <2>2, <3>1, <4>1
    <3>2. CASE q \in first .. first - 1 + n
      <4>1. q - 1 \in first-1 .. first - 1 + n /\ q # first - 1 /\ q \in first-1 .. first - 1 + n
        BY <3>2
      <4>2. QED
        BY <2>2, <2>3, <4>1
    <3>3. CASE q = first - 1
      <4>1. q \in first-1 .. first - 1 + n
        BY <3>3
      <4>2. QED
        BY <2>2, <2>3, <3>3, <4>1
    <3>4. q = first + n \/ q \in first .. first - 1 + n \/ q = first - 1
      OBVIOUS
    <3> HIDE DEF D
    <3>5. QED
      BY <3>1, <3>2, <3>3, <3>4
  <2>6. LoopOf(p, first, first - 1 + (n + 1), h)
    BY <2>4, <2>5 DEF LoopOf
  <2>7. QED
    BY <2>6
<1> HIDE DEF S
<1>3. \A n \in Nat : n \in S
  BY <1>1, <1>2, Induction
<1>4. last - (first - 1) \in Nat /\ first - 1 + (last - (first - 1)) = last
  OBVIOUS
<1>5. last - (first - 1) \in S
  BY <1>3, <1>4
<1>6. QED
  BY <1>4, <1>5 DEF S

LEMMA AllocUvmLoops ==
  ASSUME NEW p, NEW first \in Int, NEW last \in Int, first - 1 <= last
  PROVE  \E g : LoopOf(p, first, last, g) /\ AllocUvm(p, first, last) = g[last]
<1> DEFINE grown == CHOOSE g : g = [q \in first-1 .. last |->
                      IF q = first - 1 THEN Growing(space[p], free, TRUE) ELSE MapPage(g[q - 1], q)]
<1>1. AllocUvm(p, first, last) = grown[last]
  BY DEF AllocUvm
<1>2. \E g : g = [q \in first-1 .. last |->
                IF q = first - 1 THEN Growing(space[p], free, TRUE) ELSE MapPage(g[q - 1], q)]
  <2>1. PICK g : LoopOf(p, first, last, g)
    BY LoopIsDefined
  <2>2. g = [q \in first-1 .. last |->
               IF q = first - 1 THEN Growing(space[p], free, TRUE) ELSE MapPage(g[q - 1], q)]
    BY <2>1 DEF LoopOf
  <2>3. QED
    BY <2>2
<1>3. LoopOf(p, first, last, grown)
  BY <1>2 DEF LoopOf
<1>4. QED
  BY <1>1, <1>3

\* The loop after page q: it has mapped the pages from the first up to some
\* page, all of them if it goes on, none of which was there before.
Mapping(p, first, m, g) ==
  /\ PagesOf(g.space) = PagesOf(space[p]) \cup (first .. m)
  /\ (first .. m) \cap PagesOf(space[p]) = {}
Grown(p, first, q, g) ==
  /\ g = Growing(g.space, g.free, g.ok) /\ g.ok \in BOOLEAN
  /\ Split(g.free, g.space) /\ Held(g.free, g.space) = Held(free, space[p])
  /\ \A u \in DOMAIN space[p] : u \in DOMAIN g.space /\ g.space[u] = space[p][u]
  /\ \E m \in first-1 .. q : Mapping(p, first, m, g) /\ (g.ok => m = q)
  /\ \A r \in PagesOf(g.space) : Table(RegionOf(r)) \in DOMAIN g.space

\* The tables that map the pages of a space are there.
TablesThere(s) == \A r \in PagesOf(s) : Table(RegionOf(r)) \in DOMAIN s

LEMMA TurnGrows ==
  ASSUME NEW p, NEW first \in Nat, NEW q \in Page, first <= q, NEW g, NEW h,
         Grown(p, first, q - 1, g), Turn(g, q, h)
  PROVE  Grown(p, first, q, h)
<1>1. q \in Nat /\ q - 1 \in Int
  BY PageFinite
<1>2. PICK m \in first-1 .. q - 1 : Mapping(p, first, m, g) /\ (g.ok => m = q - 1)
  BY DEF Grown
<1>3. CASE h.ok
  <2>1. first .. q = (first .. q - 1) \cup {q}
    BY <1>1
  <2>2. m = q - 1 /\ PagesOf(h.space) = PagesOf(g.space) \cup {q} /\ q \notin PagesOf(g.space)
    BY <1>2, <1>3 DEF Turn
  <2>3. Mapping(p, first, q, h)
    BY <1>2, <2>1, <2>2 DEF Mapping
  <2>4. \A r \in PagesOf(h.space) : Table(RegionOf(r)) \in DOMAIN h.space
    BY <1>3, <2>2 DEF Turn, Grown
  <2>5. q \in first-1 .. q
    BY <1>1
  <2>6. \E k \in first-1 .. q : Mapping(p, first, k, h) /\ (h.ok => k = q)
    BY <2>3, <2>5
  <2>7. QED
    BY <2>4, <2>6 DEF Turn, Grown
<1>4. CASE ~h.ok
  <2>1. PagesOf(h.space) = PagesOf(g.space)
    BY <1>4 DEF Turn
  <2>2. Mapping(p, first, m, h) /\ m \in first-1 .. q
    BY <1>1, <1>2, <2>1 DEF Mapping
  <2>3. \E k \in first-1 .. q : Mapping(p, first, k, h) /\ (h.ok => k = q)
    BY <1>4, <2>2
  <2>4. \A r \in PagesOf(h.space) : Table(RegionOf(r)) \in DOMAIN h.space
    BY <2>1 DEF Turn, Grown
  <2>5. QED
    BY <2>3, <2>4 DEF Turn, Grown
<1>5. QED
  BY <1>3, <1>4

\* alloc_uvm, over pages of user space
LEMMA AllocUvmGrows ==
  ASSUME NEW p, Split(free, space[p]), TablesThere(space[p]),
         NEW first \in Nat, NEW last \in Page, first <= last
  PROVE  Grown(p, first, last, AllocUvm(p, first, last))
<1>1. last \in Int /\ last \in Nat /\ \A q \in 0 .. last : q \in Page
  BY Sizes DEF Page
<1>2. PICK g : LoopOf(p, first, last, g) /\ AllocUvm(p, first, last) = g[last]
  BY <1>1, AllocUvmLoops
<1>3. /\ g[first - 1] = Growing(space[p], free, TRUE)
      /\ \A q \in first .. last : g[q] = MapPage(g[q - 1], q)
  <2>1. \A q \in first-1 .. last :
          g[q] = IF q = first - 1 THEN Growing(space[p], free, TRUE) ELSE MapPage(g[q - 1], q)
    BY <1>2 DEF LoopOf
  <2>2. first - 1 \in first-1 .. last /\ \A q \in first .. last : q \in first-1 .. last /\ q # first - 1
    BY <1>1
  <2>3. QED
    BY <2>1, <2>2
<1> DEFINE S == {n \in Nat : n <= last - (first - 1) => Grown(p, first, first - 1 + n, g[first - 1 + n])}
<1>4. 0 \in S
  <2> DEFINE i == g[first - 1]
  <2>1. i.space = space[p] /\ i.free = free /\ i.ok = TRUE /\ i = Growing(i.space, i.free, i.ok)
    BY <1>3 DEF Growing
  <2> HIDE DEF i
  <2>2. Mapping(p, first, first - 1, i)
    BY <2>1 DEF Mapping
  <2>3. Grown(p, first, first - 1, i)
    <3>1. first - 1 \in first-1 .. first - 1
      OBVIOUS
    <3>2. QED
      BY <2>1, <2>2, <3>1 DEF Grown, TablesThere
  <2>4. first - 1 + 0 = first - 1
    OBVIOUS
  <2>5. QED
    BY <2>3, <2>4 DEF i
<1>5. ASSUME NEW n \in Nat, n \in S PROVE n + 1 \in S
  <2> SUFFICES ASSUME n + 1 <= last - (first - 1)
               PROVE  Grown(p, first, first - 1 + (n + 1), g[first - 1 + (n + 1)])
    OBVIOUS
  <2> DEFINE q == first + n
  <2>1. q \in first .. last /\ q \in Page /\ first <= q /\ first - 1 + n = q - 1 /\ first - 1 + (n + 1) = q
    BY <1>1
  <2>2. Grown(p, first, q - 1, g[q - 1])
    <3>1. n <= last - (first - 1)
      BY <1>1
    <3>2. QED
      BY <1>5, <2>1, <3>1
  <2>3. g[q] = MapPage(g[q - 1], q)
    BY <1>3, <2>1
  <2> HIDE DEF q
  <2>4. Turn(g[q - 1], q, g[q])
    BY <2>1, <2>2, <2>3, MapPageTurns DEF Grown
  <2>5. QED
    BY <2>1, <2>2, <2>4, TurnGrows
<1> HIDE DEF S
<1>6. \A n \in Nat : n \in S
  BY <1>4, <1>5, Induction
<1>7. last - (first - 1) \in S /\ first - 1 + (last - (first - 1)) = last
  BY <1>1, <1>6
<1>8. QED
  BY <1>1, <1>2, <1>7 DEF S

\* Some pages leave a space; its root and its tables stay.
LEMMA LeavesRemoved ==
  ASSUME NEW s, NEW pages \in SUBSET PagesOf(s)
  PROVE  LET gone == {Leaf(q) : q \in pages}
             rest == Without(s, gone)
         IN  /\ gone \in SUBSET DOMAIN s
             /\ PagesOf(rest) = PagesOf(s) \ pages
             /\ TablesThere(s) => TablesThere(rest)
             /\ Root \in DOMAIN s => Root \in DOMAIN rest
<1> DEFINE gone == {Leaf(q) : q \in pages}
           rest == Without(s, gone)
<1>1. pages \subseteq Page /\ \A q \in pages : Leaf(q) \in DOMAIN s
  BY DEF PagesOf
<1>2. gone \in SUBSET DOMAIN s
  BY <1>1
<1>3. DOMAIN rest = DOMAIN s \ gone
  BY DEF Without
<1>4. /\ \A q \in Page : Leaf(q) \in gone <=> q \in pages
      /\ \A r \in Page : Table(RegionOf(r)) \notin gone
      /\ Root \notin gone
  BY <1>1, UsesApart
<1> HIDE DEF gone, rest
<1>5. PagesOf(rest) = PagesOf(s) \ pages
  BY <1>3, <1>4 DEF PagesOf
<1>6. TablesThere(s) => TablesThere(rest)
  BY <1>3, <1>4, <1>5 DEF TablesThere, PagesOf
<1>7. QED
  BY <1>2, <1>3, <1>4, <1>5, <1>6 DEF gone, rest

\* What a growth ends with, after the rollback of one that fails
GrownSpace(p, first, last) ==
  LET g == AllocUvm(p, first, last) IN IF g.ok THEN g ELSE Rollback(p, g)

LEMMA GrowthEnds ==
  ASSUME NEW p, Split(free, space[p]), TablesThere(space[p]),
         NEW first \in Nat, NEW last \in Page, first <= last
  PROVE  LET e == GrownSpace(p, first, last)
         IN  /\ Split(e.free, e.space) /\ Held(e.free, e.space) = Held(free, space[p])
             /\ \A u \in DOMAIN space[p] : u \in DOMAIN e.space /\ e.space[u] = space[p][u]
             /\ TablesThere(e.space)
             /\ \/ PagesOf(e.space) = PagesOf(space[p])
                \/ Mapping(p, first, last, e)
<1> DEFINE g == AllocUvm(p, first, last)
           e == GrownSpace(p, first, last)
<1>1. Grown(p, first, last, g)
  BY AllocUvmGrows
<1>2. e = IF g.ok THEN g ELSE Rollback(p, g)
  BY DEF GrownSpace
<1> HIDE DEF g, e
<1>3. PICK m \in first-1 .. last : Mapping(p, first, m, g) /\ (g.ok => m = last)
  BY <1>1 DEF Grown
<1>4. CASE g.ok
  BY <1>1, <1>2, <1>3, <1>4 DEF Grown, TablesThere, e
<1>5. CASE ~g.ok
  <2> DEFINE new == PagesOf(g.space) \ PagesOf(space[p])
             gone == {Leaf(q) : q \in new}
             rest == Without(g.space, gone)
             list == Deallocated(g.free, g.space, gone)
  <2>1. e = Rollback(p, g) /\ g = Growing(g.space, g.free, g.ok)
    BY <1>1, <1>2, <1>5 DEF Grown
  <2>2. Rollback(p, g) = [g EXCEPT !.space = rest, !.free = list]
    BY DEF Rollback
  <2>3. /\ gone \in SUBSET DOMAIN g.space
        /\ PagesOf(rest) = PagesOf(g.space) \ new
        /\ TablesThere(g.space) => TablesThere(rest)
        /\ Root \in DOMAIN g.space => Root \in DOMAIN rest
    BY LeavesRemoved
  <2>4. /\ Split(list, rest) /\ Held(list, rest) = Held(g.free, g.space)
        /\ DOMAIN rest = DOMAIN g.space \ gone
        /\ \A u \in DOMAIN g.space \ gone : rest[u] = g.space[u]
    <3> HIDE DEF gone
    <3> DEFINE s == g.space
               f == g.free
    <3>1. Split(f, s) /\ gone \in SUBSET DOMAIN s
      BY <1>1, <2>3 DEF Grown
    <3> HIDE DEF s, f
    <3>2. /\ Split(Deallocated(f, s, gone), Without(s, gone))
          /\ Held(Deallocated(f, s, gone), Without(s, gone)) = Held(f, s)
          /\ DOMAIN Without(s, gone) = DOMAIN s \ gone
          /\ \A u \in DOMAIN s \ gone : Without(s, gone)[u] = s[u]
      BY <3>1, DeallocateSplits
    <3>3. QED
      BY <3>2 DEF s, f
  <2> HIDE DEF rest, list
  <2>5. e.space = rest /\ e.free = list
    BY <2>1, <2>2 DEF Growing
  <2>6. \A u \in DOMAIN space[p] : u \notin gone
    BY DEF PagesOf
  <2>7. \A u \in DOMAIN space[p] : u \in DOMAIN rest /\ rest[u] = space[p][u]
    <3> HIDE DEF gone
    <3>1. QED
      BY <1>1, <2>4, <2>6 DEF Grown
  <2>8. PagesOf(space[p]) \subseteq PagesOf(g.space)
    BY <1>3 DEF Mapping
  <2>9. PagesOf(rest) = PagesOf(space[p])
    BY <2>3, <2>8
  <2>10. TablesThere(rest)
    BY <1>1, <2>3 DEF Grown, TablesThere
  <2>11. Held(list, rest) = Held(free, space[p])
    BY <1>1, <2>4 DEF Grown
  <2> HIDE DEF gone
  <2>12. QED
    BY <2>4, <2>5, <2>7, <2>9, <2>10, <2>11 DEF e
<1>6. QED
  BY <1>4, <1>5

-----------------------------------------------------------------------------
(* One owner                                                               *)

MemInv == TypeOK /\ SingleOwner /\ Reachable /\ BreakStays

\* In a state with single owners, the free list and any one space divide frames.
LEMMA OwnersSplit ==
  ASSUME MemInv, NEW p \in Pid
  PROVE  Split(free, space[p]) /\ TablesThere(space[p])
<1>1. /\ free \in Seq(Frame) /\ Once(free)
      /\ DOMAIN space[p] \subseteq Use /\ FramesOf(space[p]) \subseteq Frame
      /\ \A u, v \in DOMAIN space[p] : space[p][u] = space[p][v] => u = v
      /\ FramesOf(space[p]) \cap Range(free) = {}
  BY DEF MemInv, TypeOK, SingleOwner, Once
<1>2. space[p] = [u \in DOMAIN space[p] |-> space[p][u]]
  BY DEF MemInv, TypeOK
<1>3. IsSpace(space[p])
  BY <1>1, <1>2 DEF IsSpace, Once, FramesOf
<1>4. Apart(free, space[p])
  BY <1>1 DEF Apart, FramesOf, Range
<1>5. TablesThere(space[p])
  BY DEF MemInv, Reachable, TablesThere
<1>6. QED
  BY <1>1, <1>3, <1>4, <1>5 DEF Split, IsList

\* A step that replaces at most one space, by one that divides with the new
\* free list no other frames than they had
Moves(p, s) ==
  /\ space' = [space EXCEPT ![p] = s]
  /\ Split(free', s) /\ Held(free', s) \subseteq Held(free, space[p])

LEMMA MovesKeepOwners ==
  ASSUME MemInv, NEW p \in Pid, NEW s, Moves(p, s)
  PROVE  /\ SingleOwner'
         /\ space'[p] = s /\ \A q \in Pid : q # p => space'[q] = space[q]
         /\ free' \in Seq(Frame)
         /\ space' = [q \in Pid |-> [u \in DOMAIN space'[q] |-> space'[q][u]]]
         /\ \A q \in Pid : DOMAIN space'[q] \subseteq Use /\ FramesOf(space'[q]) \subseteq Frame
<1>1. /\ DOMAIN space = Pid
      /\ \A q \in Pid : space[q] = [u \in DOMAIN space[q] |-> space[q][u]]
      /\ \A q \in Pid : DOMAIN space[q] \subseteq Use /\ FramesOf(space[q]) \subseteq Frame
  BY DEF MemInv, TypeOK
<1>2. /\ DOMAIN space' = Pid /\ space'[p] = s
      /\ \A q \in Pid : q # p => space'[q] = space[q]
  BY <1>1 DEF Moves
<1>3. /\ free' \in Seq(Frame) /\ Once(free') /\ DOMAIN s \subseteq Use
      /\ s \in [DOMAIN s -> Frame] /\ Once(s) /\ Apart(free', s)
  BY DEF Moves, Split, IsList, IsSpace
<1>4. s = [u \in DOMAIN s |-> s[u]] /\ FramesOf(s) \subseteq Frame
  BY <1>3 DEF FramesOf
<1>5. space' = [q \in Pid |-> space'[q]]
  BY <1>1 DEF Moves
<1>6. \A q \in Pid : space'[q] = [u \in DOMAIN space'[q] |-> space'[q][u]]
  BY <1>1, <1>2, <1>4
<1>7. ASSUME NEW q \in Pid, q # p
      PROVE  FramesOf(space[q]) \cap Held(free', s) = {}
  <2>1. FramesOf(space[q]) \cap Range(free) = {}
    BY DEF MemInv, SingleOwner
  <2>2. FramesOf(space[q]) \cap FramesOf(space[p]) = {}
    BY <1>7 DEF MemInv, SingleOwner, FramesOf
  <2>3. QED
    BY <2>1, <2>2 DEF Moves, Held
<1>8. SingleOwner'
  <2>1. \A j, k \in DOMAIN free' : j # k => free'[j] # free'[k]
    BY <1>3 DEF Once
  <2>2. ASSUME NEW q \in Pid PROVE FramesOf(space'[q]) \cap Range(free') = {}
    <3>1. CASE q = p
      BY <1>2, <1>3, <3>1 DEF Apart, FramesOf, Range
    <3>2. CASE q # p
      BY <1>2, <1>7, <3>2 DEF Held
    <3>3. QED
      BY <3>1, <3>2
  <2>3. ASSUME NEW q \in Pid, NEW r \in Pid, NEW u \in DOMAIN space'[q], NEW v \in DOMAIN space'[r],
               space'[q][u] = space'[r][v]
        PROVE  q = r /\ u = v
    <3>1. CASE q = p /\ r = p
      BY <1>2, <1>3, <2>3, <3>1 DEF Once
    <3>2. CASE q # p /\ r # p
      BY <1>2, <2>3, <3>2 DEF MemInv, SingleOwner
    <3>3. CASE q # p /\ r = p
      <4>1. space[q][u] \in FramesOf(space[q]) /\ s[v] \in Held(free', s)
        BY <1>2, <2>3, <3>3 DEF FramesOf, Held
      <4>2. QED
        BY <1>2, <1>7, <2>3, <3>3, <4>1
    <3>4. CASE q = p /\ r # p
      <4>1. space[r][v] \in FramesOf(space[r]) /\ s[u] \in Held(free', s)
        BY <1>2, <2>3, <3>4 DEF FramesOf, Held
      <4>2. QED
        BY <1>2, <1>7, <2>3, <3>4, <4>1
    <3>5. QED
      BY <3>1, <3>2, <3>3, <3>4
  <2>4. QED
    BY <2>1, <2>2, <2>3 DEF SingleOwner
<1>9. QED
  BY <1>1, <1>2, <1>3, <1>4, <1>5, <1>6, <1>8

\* Where the new space and list hold all that was held, nothing is lost.
LEMMA MovesLoseNothing ==
  ASSUME MemInv, NEW p \in Pid, NEW s, Moves(p, s), Held(free', s) = Held(free, space[p])
  PROVE  Lost' = Lost
<1>1. space'[p] = s /\ \A q \in Pid : q # p => space'[q] = space[q]
  BY MovesKeepOwners
<1>2. \A x : (x \in Range(free') \/ \E q \in Pid : x \in FramesOf(space'[q]))
               <=> (x \in Held(free', s) \/ \E q \in Pid : q # p /\ x \in FramesOf(space[q]))
  BY <1>1 DEF Held
<1>3. \A x : (x \in Range(free) \/ \E q \in Pid : x \in FramesOf(space[q]))
               <=> (x \in Held(free, space[p]) \/ \E q \in Pid : q # p /\ x \in FramesOf(space[q]))
  BY DEF Held
<1>4. \A x : x \in UNION {FramesOf(space[q]) : q \in Pid} <=> \E q \in Pid : x \in FramesOf(space[q])
  OBVIOUS
<1>5. \A x : x \in UNION {FramesOf(space'[q]) : q \in Pid} <=> \E q \in Pid : x \in FramesOf(space'[q])
  OBVIOUS
<1>6. \A x : x \in Lost' <=> x \in Lost
  BY <1>2, <1>3, <1>4, <1>5 DEF Lost
<1>7. QED
  BY <1>6

-----------------------------------------------------------------------------
(* What each operation does to one space                                   *)

LEMMA ImageUsesAre ==
  ASSUME NEW s, DOMAIN s = ImageUses
  PROVE  /\ ImageUses \subseteq Use /\ Root \in DOMAIN s /\ TablesThere(s)
         /\ PagesOf(s) = (0 .. ImagePages-1) \cup {StackPage}
<1> DEFINE pages == (0 .. ImagePages-1) \cup {StackPage}
<1>1. pages \subseteq Page /\ 0 \in pages
  BY Sizes DEF Page
<1>2. \A u : u \in ImageUses <=> \E q \in pages : u \in {Root, Leaf(q), Table(RegionOf(q))}
  BY DEF ImageUses
<1> HIDE DEF pages
<1>3. \A q \in pages : Root \in ImageUses /\ Leaf(q) \in ImageUses /\ Table(RegionOf(q)) \in ImageUses
  BY <1>2
<1>4. ImageUses \subseteq Use
  BY <1>1, <1>2, UsesApart
<1>5. \A q \in Page : Leaf(q) \in ImageUses => q \in pages
  BY <1>1, <1>2, UsesApart
<1>6. PagesOf(s) = pages
  BY <1>1, <1>3, <1>5 DEF PagesOf
<1>7. TablesThere(s)
  BY <1>3, <1>6 DEF TablesThere
<1>8. QED
  BY <1>1, <1>3, <1>4, <1>6, <1>7 DEF pages

LEMMA NoSpaceIs == DOMAIN NoSpace = {} /\ FramesOf(NoSpace) = {} /\ PagesOf(NoSpace) = {}
BY DEF NoSpace, FramesOf, PagesOf

LEMMA ExecMoves ==
  ASSUME MemInv, NEW p \in Pid, Exec(p)
  PROVE  LET s == Allocated(ImageUses) IN Moves(p, s) /\ DOMAIN s = ImageUses
<1> DEFINE s == Allocated(ImageUses)
<1>1. IsList(free) /\ ImageUses \subseteq Use /\ Fits(ImageUses)
  <2>1. ImageUses \subseteq Use
    <3>1. DOMAIN [u \in ImageUses |-> 0] = ImageUses
      OBVIOUS
    <3>2. QED
      BY <3>1, ImageUsesAre
  <2>2. QED
    BY <2>1, OwnersSplit DEF Exec, Split
<1>2. /\ Split(AfterAllocating(Cardinality(ImageUses)), s) /\ DOMAIN s = ImageUses
      /\ Held(AfterAllocating(Cardinality(ImageUses)), s) = Range(free)
  BY <1>1, AllocateSplits
<1>3. space' = [space EXCEPT ![p] = s] /\ free' = AfterAllocating(Cardinality(ImageUses))
  BY DEF Exec
<1> HIDE DEF s
<1>4. QED
  BY <1>2, <1>3 DEF Moves, Held, s

LEMMA ForkMoves ==
  ASSUME MemInv, NEW p \in Pid, NEW c \in Pid, Fork(p, c)
  PROVE  LET s == Allocated(DOMAIN space[p])
         IN  /\ Moves(c, s) /\ DOMAIN s = DOMAIN space[p]
             /\ Held(free', s) = Held(free, space[c])
<1> DEFINE uses == DOMAIN space[p]
           s == Allocated(uses)
           list == AfterAllocating(Cardinality(uses))
<1>1. IsList(free) /\ uses \subseteq Use /\ Fits(uses)
  BY OwnersSplit DEF Fork, Split, MemInv, TypeOK
<1>2. Split(list, s) /\ DOMAIN s = uses /\ Held(list, s) = Range(free)
  <2> HIDE DEF uses
  <2>1. QED
    BY <1>1, AllocateSplits
<1>3. space' = [space EXCEPT ![c] = s] /\ free' = list
  BY DEF Fork
<1>4. space[c] = NoSpace
  BY DEF Fork, Unborn, MemInv, TypeOK
<1>5. Held(free, space[c]) = Range(free)
  BY <1>4, NoSpaceIs DEF Held
<1> HIDE DEF s, list
<1>6. QED
  BY <1>2, <1>3, <1>5 DEF Moves, s

LEMMA FailureMoves ==
  ASSUME MemInv, NEW p \in Pid, ExecFails(p) \/ \E c \in Pid : ForkFails(p, c)
  PROVE  Moves(p, space[p])
<1>1. free' = <<>> /\ space' = space
  BY DEF ExecFails, ForkFails
<1>2. space' = [space EXCEPT ![p] = space[p]]
  BY <1>1 DEF MemInv, TypeOK
<1>3. IsList(<<>>) /\ Apart(<<>>, space[p]) /\ Range(<<>>) = {}
  BY DEF IsList, Once, Apart, Range
<1>4. Split(<<>>, space[p])
  BY <1>3, OwnersSplit DEF Split
<1>5. QED
  BY <1>1, <1>2, <1>3, <1>4 DEF Moves, Held

\* A growth, from the end of the image on
LEMMA GrowMoves ==
  ASSUME MemInv, NEW p \in Pid, NEW n \in 1 .. MaxSbrk, SbrkGrow(p, n)
  PROVE  \E s : /\ Moves(p, s) /\ Held(free', s) = Held(free, space[p])
                /\ \A u \in DOMAIN space[p] : u \in DOMAIN s /\ s[u] = space[p][u]
                /\ TablesThere(s)
                /\ \/ PagesOf(s) = PagesOf(space[p])
                   \/ /\ PagesOf(s) = PagesOf(space[p]) \cup (ImagePages .. PageRoundUp(ImageEnd + n) - 1)
                      /\ (ImagePages .. PageRoundUp(ImageEnd + n) - 1) \cap PagesOf(space[p]) = {}
<1> DEFINE last == PageRoundUp(ImageEnd + n) - 1
           e == GrownSpace(p, ImagePages, last)
<1>1. heap[p] = ImageEnd /\ PageRoundUp(heap[p]) = ImagePages
  BY RoundUpOfImage DEF SbrkGrow, Running, MemInv, BreakStays
<1>2. ImagePages \in Nat /\ last \in Page /\ ImagePages <= last
  BY RoundUpOfGrowth, Sizes DEF Page, StackPage
<1>3. space' = [space EXCEPT ![p] = e.space] /\ free' = e.free
  BY <1>1 DEF SbrkGrow, GrownSpace
<1>4. /\ Split(e.free, e.space) /\ Held(e.free, e.space) = Held(free, space[p])
      /\ \A u \in DOMAIN space[p] : u \in DOMAIN e.space /\ e.space[u] = space[p][u]
      /\ TablesThere(e.space)
      /\ \/ PagesOf(e.space) = PagesOf(space[p])
         \/ Mapping(p, ImagePages, last, e)
  <2> HIDE DEF last
  <2>1. QED
    BY <1>2, OwnersSplit, GrowthEnds
<1> HIDE DEF e
<1>5. Moves(p, e.space) /\ Held(free', e.space) = Held(free, space[p])
  BY <1>3, <1>4 DEF Moves
<1>6. QED
  BY <1>4, <1>5 DEF Mapping

LEMMA ShrinkMoves ==
  ASSUME MemInv, NEW p \in Pid, NEW n \in 1 .. MaxSbrk, SbrkShrink(p, n)
  PROVE  \E s : /\ Moves(p, s) /\ Held(free', s) = Held(free, space[p])
                /\ TablesThere(s) /\ Root \in DOMAIN s
                /\ PagesOf(s) \subseteq PagesOf(space[p])
                /\ \A q \in PagesOf(space[p]) : q >= ImagePages => q \in PagesOf(s)
<1> DEFINE pages == {q \in PagesOf(space[p]) : q >= PageRoundUp(heap[p] - n) /\ q * PageSize < heap[p]}
           gone == {Leaf(q) : q \in pages}
           s == Without(space[p], gone)
           list == Deallocated(free, space[p], gone)
<1>1. heap[p] = ImageEnd /\ Root \in DOMAIN space[p]
  BY DEF SbrkShrink, Running, MemInv, BreakStays, TypeOK
<1>2. space' = [space EXCEPT ![p] = s] /\ free' = list
  BY DEF SbrkShrink
<1>3. \A q \in pages : q \in Nat /\ q < ImagePages
  <2>1. ASSUME NEW q \in pages PROVE q \in Nat /\ q * PageSize < ImagePages * PageSize
    BY <1>1, PageFinite DEF PagesOf, ImageEnd
  <2> HIDE DEF pages
  <2>2. ASSUME NEW q \in pages PROVE q < ImagePages
    BY <2>1, Sizes
  <2>3. QED
    BY <2>1, <2>2
<1>4. pages \in SUBSET PagesOf(space[p])
  OBVIOUS
<1> HIDE DEF pages
<1>5. /\ gone \in SUBSET DOMAIN space[p]
      /\ PagesOf(s) = PagesOf(space[p]) \ pages
      /\ TablesThere(space[p]) => TablesThere(s)
      /\ Root \in DOMAIN space[p] => Root \in DOMAIN s
  BY <1>4, LeavesRemoved
<1> HIDE DEF gone
<1>6. Split(list, s) /\ Held(list, s) = Held(free, space[p])
  <2> DEFINE old == space[p]
  <2>1. Split(free, old) /\ gone \in SUBSET DOMAIN old
    BY <1>5, OwnersSplit
  <2> HIDE DEF old
  <2>2. /\ Split(Deallocated(free, old, gone), Without(old, gone))
        /\ Held(Deallocated(free, old, gone), Without(old, gone)) = Held(free, old)
        /\ DOMAIN Without(old, gone) = DOMAIN old \ gone
        /\ \A u \in DOMAIN old \ gone : Without(old, gone)[u] = old[u]
    BY <2>1, DeallocateSplits
  <2>3. QED
    BY <2>2 DEF old
<1>7. \A q \in PagesOf(space[p]) : q >= ImagePages => q \in PagesOf(s)
  BY <1>3, <1>5, PageFinite, Sizes DEF PagesOf
<1> HIDE DEF s, list
<1>8. Moves(p, s) /\ Held(free', s) = Held(free, space[p])
  BY <1>2, <1>6 DEF Moves
<1>9. TablesThere(s) /\ Root \in DOMAIN s /\ PagesOf(s) \subseteq PagesOf(space[p])
  BY <1>1, <1>5, OwnersSplit
<1>10. QED
  BY <1>7, <1>8, <1>9

LEMMA ReapMoves ==
  ASSUME MemInv, NEW p \in Pid, Reap(p)
  PROVE  Moves(p, NoSpace) /\ Held(free', NoSpace) = Held(free, space[p])
<1> DEFINE old == space[p]
           uses == DOMAIN old
<1>1. Split(free, old) /\ uses \in SUBSET DOMAIN old
  BY OwnersSplit
<1>2. space' = [space EXCEPT ![p] = NoSpace] /\ free' = Deallocated(free, old, uses)
  BY DEF Reap
<1>3. Without(old, uses) = NoSpace
  BY DEF Without, NoSpace
<1> HIDE DEF old, uses
<1>4. /\ Split(Deallocated(free, old, uses), Without(old, uses))
      /\ Held(Deallocated(free, old, uses), Without(old, uses)) = Held(free, old)
      /\ DOMAIN Without(old, uses) = DOMAIN old \ uses
      /\ \A u \in DOMAIN old \ uses : Without(old, uses)[u] = old[u]
  BY <1>1, DeallocateSplits
<1>5. QED
  BY <1>2, <1>3, <1>4 DEF Moves, old

\* A space is where its process may have it: its root is there, its heap begins
\* at the break, and one who is not there has none.
Placed(st, h, s) ==
  IF st \in {"alive", "exited"}
    THEN /\ Root \in DOMAIN s /\ h = ImageEnd
         /\ \A q \in PagesOf(s) : q \in ImagePages .. StackPage-1 => ImagePages \in PagesOf(s)
    ELSE s = NoSpace

LEMMA AllPlaced == ASSUME MemInv, NEW p \in Pid PROVE Placed(stage[p], heap[p], space[p])
BY DEF MemInv, TypeOK, BreakStays, Placed

LEMMA MovesKeepInv ==
  ASSUME MemInv, NEW p \in Pid, NEW s, Moves(p, s), TablesThere(s), halted' \in BOOLEAN,
         NEW h \in Nat, heap' = [heap EXCEPT ![p] = h],
         NEW st \in {"none", "alive", "exited", "freed"}, stage' = [stage EXCEPT ![p] = st],
         Placed(st, h, s)
  PROVE  MemInv'
<1>1. /\ SingleOwner'
      /\ space'[p] = s /\ \A q \in Pid : q # p => space'[q] = space[q]
      /\ free' \in Seq(Frame)
      /\ space' = [q \in Pid |-> [u \in DOMAIN space'[q] |-> space'[q][u]]]
      /\ \A q \in Pid : DOMAIN space'[q] \subseteq Use /\ FramesOf(space'[q]) \subseteq Frame
  BY MovesKeepOwners
<1>2. heap \in [Pid -> Nat] /\ stage \in [Pid -> {"none", "alive", "exited", "freed"}]
  BY DEF MemInv, TypeOK
<1>3. /\ heap' \in [Pid -> Nat] /\ stage' \in [Pid -> {"none", "alive", "exited", "freed"}]
      /\ heap'[p] = h /\ stage'[p] = st
      /\ \A q \in Pid : q # p => heap'[q] = heap[q] /\ stage'[q] = stage[q]
  BY <1>2
<1>4. ASSUME NEW q \in Pid
      PROVE  Placed(stage'[q], heap'[q], space'[q]) /\ TablesThere(space'[q])
  <2>1. CASE q = p
    BY <1>1, <1>3, <2>1
  <2>2. CASE q # p
    BY <1>1, <1>3, <2>2, AllPlaced, OwnersSplit
  <2>3. QED
    BY <2>1, <2>2
<1>5. TypeOK'
  <2>1. \A q \in Pid : IF stage'[q] \in {"alive", "exited"} THEN Root \in DOMAIN space'[q]
                                                            ELSE space'[q] = NoSpace
    BY <1>4 DEF Placed
  <2>2. QED
    BY <1>1, <1>3, <2>1 DEF TypeOK
<1>6. Reachable'
  <2>1. \A q \in Pid : PagesOf(space'[q]) # {} => Root \in DOMAIN space'[q]
    BY <1>4, NoSpaceIs DEF Placed
  <2>2. QED
    BY <1>4, <2>1 DEF Reachable, TablesThere
<1>7. BreakStays'
  BY <1>4 DEF BreakStays, Placed
<1>8. QED
  BY <1>1, <1>5, <1>6, <1>7 DEF MemInv

\* What stays as it is
LEMMA Stays ==
  ASSUME MemInv, NEW p \in Pid
  PROVE  /\ stage[p] \in {"none", "alive", "exited", "freed"} /\ heap[p] \in Nat
         /\ stage = [stage EXCEPT ![p] = stage[p]] /\ heap = [heap EXCEPT ![p] = heap[p]]
         /\ space = [space EXCEPT ![p] = space[p]]
         /\ halted \in BOOLEAN
BY DEF MemInv, TypeOK

LEMMA InitMemory == ASSUME Init PROVE MemInv
<1> DEFINE n == Cardinality(ImageUses)
<1>1. ImageUses \subseteq Use
  <2>1. DOMAIN [u \in ImageUses |-> 0] = ImageUses
    OBVIOUS
  <2>2. QED
    BY <2>1, ImageUsesAre
<1>2. /\ n \in Nat /\ n <= NFRAME /\ NFRAME \in Nat
      /\ \A u \in ImageUses : Nth(ImageUses, u) \in 1 .. n
      /\ \A u, v \in ImageUses : Nth(ImageUses, u) = Nth(ImageUses, v) => u = v
  BY <1>1, UsesOf, NthNumbers, BootAssumption, Sizes
<1> DEFINE s0 == [u \in ImageUses |-> Nth(ImageUses, u) - 1]
<1>3. /\ space = [p \in Pid |-> IF p # 0 THEN NoSpace ELSE s0]
      /\ free = [k \in 1 .. NFRAME - n |-> NFRAME - k]
      /\ heap = [p \in Pid |-> IF p = 0 THEN ImageEnd ELSE 0]
      /\ stage = [p \in Pid |-> IF p = 0 THEN "alive" ELSE "none"]
      /\ halted = FALSE
  BY DEF Init
<1>4. /\ DOMAIN s0 = ImageUses /\ \A u \in ImageUses : s0[u] = Nth(ImageUses, u) - 1
      /\ s0 = [u \in DOMAIN s0 |-> s0[u]]
  OBVIOUS
<1> HIDE DEF n, s0
<1>5. /\ DOMAIN free = 1 .. NFRAME - n
      /\ \A k \in 1 .. NFRAME - n : free[k] = NFRAME - k /\ free[k] \in n .. NFRAME - 1
  BY <1>2, <1>3
<1>6. \A u \in ImageUses : s0[u] \in 0 .. n - 1
  BY <1>2, <1>4
<1>7. free \in Seq(Frame)
  <2>1. NFRAME - n \in Nat /\ \A k \in 1 .. NFRAME - n : NFRAME - k \in Frame
    BY <1>2 DEF Frame
  <2>2. QED
    BY <1>3, <2>1
<1>8. FramesOf(s0) \subseteq Frame
  BY <1>2, <1>4, <1>6 DEF FramesOf, Frame
<1>9. /\ Root \in DOMAIN s0 /\ TablesThere(s0)
      /\ PagesOf(s0) = (0 .. ImagePages-1) \cup {StackPage}
  BY <1>4, ImageUsesAre
<1>10. \A p \in Pid : space[p] = IF p # 0 THEN NoSpace ELSE s0
  BY <1>3
<1>11. TypeOK
  <2>1. space = [p \in Pid |-> [u \in DOMAIN space[p] |-> space[p][u]]]
    <3>1. \A p \in Pid : space[p] = [u \in DOMAIN space[p] |-> space[p][u]]
      BY <1>4, <1>10 DEF NoSpace
    <3>2. space = [p \in Pid |-> space[p]]
      BY <1>3
    <3>3. QED
      BY <3>1, <3>2
  <2>2. \A p \in Pid : DOMAIN space[p] \subseteq Use /\ FramesOf(space[p]) \subseteq Frame
    BY <1>1, <1>4, <1>8, <1>10, NoSpaceIs
  <2>3. heap \in [Pid -> Nat] /\ stage \in [Pid -> {"none", "alive", "exited", "freed"}]
    BY <1>3, Sizes
  <2>4. \A p \in Pid : IF stage[p] \in {"alive", "exited"} THEN Root \in DOMAIN space[p]
                                                           ELSE space[p] = NoSpace
    BY <1>3, <1>9, <1>10
  <2>5. QED
    BY <1>3, <1>7, <2>1, <2>2, <2>3, <2>4 DEF TypeOK
<1>12. SingleOwner
  <2>1. \A j, k \in DOMAIN free : j # k => free[j] # free[k]
    BY <1>2, <1>5
  <2>2. \A p \in Pid : FramesOf(space[p]) \cap Range(free) = {}
    <3>1. FramesOf(s0) \cap Range(free) = {}
      BY <1>2, <1>4, <1>5, <1>6 DEF FramesOf, Range
    <3>2. QED
      BY <1>10, <3>1, NoSpaceIs
  <2>3. \A p, q \in Pid : \A u \in DOMAIN space[p], v \in DOMAIN space[q] :
          space[p][u] = space[q][v] => p = q /\ u = v
    <3>1. \A u, v \in ImageUses : s0[u] = s0[v] => u = v
      BY <1>2, <1>4
    <3>2. \A p \in Pid : p # 0 => DOMAIN space[p] = {}
      BY <1>10, NoSpaceIs
    <3>3. \A p \in Pid : p = 0 => space[p] = s0
      BY <1>10
    <3>4. QED
      BY <1>4, <3>1, <3>2, <3>3
  <2>4. QED
    BY <2>1, <2>2, <2>3 DEF SingleOwner
<1>13. Reachable
  BY <1>9, <1>10, NoSpaceIs DEF Reachable, TablesThere
<1>14. BreakStays
  <2>1. \A p \in Pid : stage[p] \in {"alive", "exited"} => p = 0
    BY <1>3
  <2>2. \A p \in Pid : p = 0 => heap[p] = ImageEnd /\ space[p] = s0
    BY <1>3, <1>10
  <2>3. \A q \in PagesOf(s0) : q \notin ImagePages .. StackPage-1
    BY <1>9, Sizes DEF StackPage
  <2>4. QED
    BY <2>1, <2>2, <2>3 DEF BreakStays
<1>15. QED
  BY <1>11, <1>12, <1>13, <1>14 DEF MemInv

\* One step of one process, and no other
OneMove(p, s, h, st) ==
  /\ Moves(p, s) /\ TablesThere(s)
  /\ h \in Nat /\ heap' = [heap EXCEPT ![p] = h]
  /\ st \in {"none", "alive", "exited", "freed"} /\ stage' = [stage EXCEPT ![p] = st]
  /\ halted' \in BOOLEAN
  /\ Placed(st, h, s)

LEMMA OneMoveKeeps ==
  ASSUME MemInv, NEW p \in Pid, NEW s, NEW h, NEW st, OneMove(p, s, h, st)
  PROVE  MemInv'
BY MovesKeepInv DEF OneMove

\* The space of a process that makes a system call
LEMMA RunningIs ==
  ASSUME MemInv, NEW p \in Pid, Running(p)
  PROVE  /\ stage[p] = "alive" /\ heap[p] = ImageEnd /\ Root \in DOMAIN space[p]
         /\ \A q \in PagesOf(space[p]) : q \in ImagePages .. StackPage-1 => ImagePages \in PagesOf(space[p])
BY AllPlaced DEF Running, Placed

LEMMA ForkKeeps == ASSUME MemInv, NEW p \in Pid, NEW c \in Pid, Fork(p, c) PROVE MemInv'
<1> DEFINE s == Allocated(DOMAIN space[p])
<1>1. Moves(c, s) /\ DOMAIN s = DOMAIN space[p]
  BY ForkMoves
<1>2. Running(p)
  BY DEF Fork
<1> HIDE DEF s
<1>3. PagesOf(s) = PagesOf(space[p])
  BY <1>1 DEF PagesOf
<1>4. TablesThere(s)
  BY <1>1, <1>3, OwnersSplit DEF TablesThere
<1>5. Placed("alive", ImageEnd, s)
  BY <1>1, <1>2, <1>3, RunningIs DEF Placed
<1>6. /\ heap' = [heap EXCEPT ![c] = ImageEnd] /\ stage' = [stage EXCEPT ![c] = "alive"]
      /\ halted' \in BOOLEAN
  BY <1>2, RunningIs, Stays DEF Fork
<1>7. OneMove(c, s, ImageEnd, "alive")
  BY <1>1, <1>4, <1>5, <1>6, Sizes DEF OneMove
<1>8. QED
  BY <1>7, OneMoveKeeps

LEMMA ExecKeeps == ASSUME MemInv, NEW p \in Pid, Exec(p) PROVE MemInv'
<1> DEFINE s == Allocated(ImageUses)
<1>1. Moves(p, s) /\ DOMAIN s = ImageUses
  BY ExecMoves
<1> HIDE DEF s
<1>2. Root \in DOMAIN s /\ TablesThere(s) /\ PagesOf(s) = (0 .. ImagePages-1) \cup {StackPage}
  BY <1>1, ImageUsesAre
<1>3. Placed("alive", ImageEnd, s)
  <2>1. \A q \in PagesOf(s) : q \notin ImagePages .. StackPage-1
    BY <1>2, Sizes DEF StackPage
  <2>2. QED
    BY <1>2, <2>1 DEF Placed
<1>4. /\ heap' = [heap EXCEPT ![p] = ImageEnd] /\ stage' = [stage EXCEPT ![p] = "alive"]
      /\ halted' \in BOOLEAN
  BY Stays DEF Exec, Running
<1>5. OneMove(p, s, ImageEnd, "alive")
  BY <1>1, <1>2, <1>3, <1>4, Sizes DEF OneMove
<1>6. QED
  BY <1>5, OneMoveKeeps

LEMMA FailureKeeps ==
  ASSUME MemInv, NEW p \in Pid, ExecFails(p) \/ \E c \in Pid : ForkFails(p, c)
  PROVE  MemInv'
<1>1. Moves(p, space[p]) /\ TablesThere(space[p])
  BY FailureMoves, OwnersSplit
<1>2. heap' = heap /\ stage' = stage /\ halted' = halted
  BY DEF ExecFails, ForkFails
<1>3. OneMove(p, space[p], heap[p], stage[p])
  BY <1>1, <1>2, AllPlaced, Stays DEF OneMove
<1>4. QED
  BY <1>3, OneMoveKeeps

LEMMA GrowKeeps ==
  ASSUME MemInv, NEW p \in Pid, NEW n \in 1 .. MaxSbrk, SbrkGrow(p, n)
  PROVE  MemInv'
<1> DEFINE last == PageRoundUp(ImageEnd + n) - 1
<1>1. PICK s : /\ Moves(p, s) /\ Held(free', s) = Held(free, space[p])
               /\ \A u \in DOMAIN space[p] : u \in DOMAIN s /\ s[u] = space[p][u]
               /\ TablesThere(s)
               /\ \/ PagesOf(s) = PagesOf(space[p])
                  \/ /\ PagesOf(s) = PagesOf(space[p]) \cup (ImagePages .. last)
                     /\ (ImagePages .. last) \cap PagesOf(space[p]) = {}
  BY GrowMoves
<1>2. Running(p) /\ heap' = heap /\ stage' = stage /\ halted' = halted
  BY DEF SbrkGrow
<1>3. ImagePages \in ImagePages .. last /\ last < StackPage /\ last \in Int
  BY RoundUpOfGrowth, Sizes DEF StackPage
<1> HIDE DEF last
<1>4. /\ Root \in DOMAIN s
      /\ \A q \in PagesOf(s) : q \in ImagePages .. StackPage-1 => ImagePages \in PagesOf(s)
  BY <1>1, <1>2, <1>3, RunningIs
<1>5. Placed("alive", ImageEnd, s)
  BY <1>4 DEF Placed
<1>6. OneMove(p, s, ImageEnd, "alive")
  BY <1>1, <1>2, <1>5, RunningIs, Stays, Sizes DEF OneMove
<1>7. QED
  BY <1>6, OneMoveKeeps

LEMMA ShrinkKeeps ==
  ASSUME MemInv, NEW p \in Pid, NEW n \in 1 .. MaxSbrk, SbrkShrink(p, n)
  PROVE  MemInv'
<1>1. PICK s : /\ Moves(p, s) /\ Held(free', s) = Held(free, space[p])
               /\ TablesThere(s) /\ Root \in DOMAIN s
               /\ PagesOf(s) \subseteq PagesOf(space[p])
               /\ \A q \in PagesOf(space[p]) : q >= ImagePages => q \in PagesOf(s)
  BY ShrinkMoves
<1>2. Running(p) /\ heap' = heap /\ stage' = stage /\ halted' = halted
  BY DEF SbrkShrink
<1>3. \A q \in PagesOf(s) : q \in ImagePages .. StackPage-1 => ImagePages \in PagesOf(s)
  BY <1>1, <1>2, RunningIs, Sizes
<1>4. Placed("alive", ImageEnd, s)
  BY <1>1, <1>3 DEF Placed
<1>5. OneMove(p, s, ImageEnd, "alive")
  BY <1>1, <1>2, <1>4, RunningIs, Stays, Sizes DEF OneMove
<1>6. QED
  BY <1>5, OneMoveKeeps

LEMMA ReapKeeps == ASSUME MemInv, NEW p \in Pid, Reap(p) PROVE MemInv'
<1>1. Moves(p, NoSpace) /\ TablesThere(NoSpace) /\ Placed("freed", 0, NoSpace)
  BY ReapMoves, NoSpaceIs DEF TablesThere, Placed
<1>2. /\ heap' = [heap EXCEPT ![p] = 0] /\ stage' = [stage EXCEPT ![p] = "freed"]
      /\ halted' = halted
  BY DEF Reap
<1>3. OneMove(p, NoSpace, 0, "freed")
  BY <1>1, <1>2, Stays DEF OneMove
<1>4. QED
  BY <1>3, OneMoveKeeps

LEMMA ExitKeeps == ASSUME MemInv, NEW p \in Pid, Exit(p) PROVE MemInv'
<1>1. Moves(p, space[p])
  BY OwnersSplit, Stays DEF Exit, Moves
<1>2. /\ Running(p) /\ heap' = heap /\ stage' = [stage EXCEPT ![p] = "exited"]
      /\ halted' = halted
  BY DEF Exit
<1>3. Placed("exited", heap[p], space[p])
  BY <1>2, RunningIs DEF Placed
<1>4. OneMove(p, space[p], heap[p], "exited")
  BY <1>1, <1>2, <1>3, OwnersSplit, Stays DEF OneMove
<1>5. QED
  BY <1>4, OneMoveKeeps

LEMMA OverflowKeeps == ASSUME MemInv, NEW p \in Pid, SbrkOverflows(p) PROVE MemInv'
<1>1. Moves(p, space[p])
  BY OwnersSplit, Stays DEF SbrkOverflows, Moves
<1>2. heap' = heap /\ stage' = stage /\ halted' = TRUE
  BY DEF SbrkOverflows
<1>3. OneMove(p, space[p], heap[p], stage[p])
  BY <1>1, <1>2, AllPlaced, OwnersSplit, Stays DEF OneMove
<1>4. QED
  BY <1>3, OneMoveKeeps

LEMMA StutterKeeps == ASSUME MemInv, UNCHANGED vars PROVE MemInv'
BY DEF MemInv, vars, TypeOK, SingleOwner, Reachable, BreakStays

LEMMA StepMemory == ASSUME MemInv, [Next]_vars PROVE MemInv'
<1>1. ASSUME NEW p \in Pid, NEW c \in Pid, Fork(p, c) PROVE MemInv'
  BY <1>1, ForkKeeps
<1>2. CASE ForkFailure
  BY <1>2, FailureKeeps DEF ForkFailure
<1>3. CASE ExecFailure
  BY <1>3, FailureKeeps DEF ExecFailure
<1>4. ASSUME NEW p \in Pid, Exec(p) \/ Exit(p) \/ Reap(p) \/ SbrkOverflows(p) PROVE MemInv'
  BY <1>4, ExecKeeps, ExitKeeps, ReapKeeps, OverflowKeeps
<1>5. ASSUME NEW p \in Pid, NEW n \in 1 .. MaxSbrk, SbrkGrow(p, n) \/ SbrkShrink(p, n) PROVE MemInv'
  BY <1>5, GrowKeeps, ShrinkKeeps
<1>6. CASE UNCHANGED vars
  BY <1>6, StutterKeeps
<1>7. QED
  BY <1>1, <1>2, <1>3, <1>4, <1>5, <1>6 DEF Next

LEMMA MemoryAlways == Spec => []MemInv
<1>1. Init => MemInv
  BY InitMemory
<1>2. MemInv /\ [Next]_vars => MemInv'
  BY StepMemory
<1>3. QED
  BY <1>1, <1>2, PTL DEF Spec

\* A step that is no exec, and no fork that fails, has lost no frame.
LEMMA StepLoses ==
  ASSUME MemInv, [Next]_vars, Lost' # Lost
  PROVE  ForkFailure \/ ExecFailure \/ \E p \in Pid : Exec(p)
<1>1. ASSUME NEW p \in Pid, NEW c \in Pid, Fork(p, c) PROVE Lost' = Lost
  <2> DEFINE s == Allocated(DOMAIN space[p])
  <2>1. Moves(c, s) /\ Held(free', s) = Held(free, space[c])
    BY <1>1, ForkMoves
  <2> HIDE DEF s
  <2>2. QED
    BY <2>1, MovesLoseNothing
<1>2. ASSUME NEW p \in Pid, Exit(p) \/ SbrkOverflows(p) PROVE Lost' = Lost
  BY <1>2 DEF Exit, SbrkOverflows, Lost
<1>3. ASSUME NEW p \in Pid, Reap(p) PROVE Lost' = Lost
  BY <1>3, ReapMoves, MovesLoseNothing
<1>4. ASSUME NEW p \in Pid, NEW n \in 1 .. MaxSbrk, SbrkGrow(p, n) PROVE Lost' = Lost
  BY <1>4, GrowMoves, MovesLoseNothing
<1>5. ASSUME NEW p \in Pid, NEW n \in 1 .. MaxSbrk, SbrkShrink(p, n) PROVE Lost' = Lost
  BY <1>5, ShrinkMoves, MovesLoseNothing
<1>6. CASE UNCHANGED vars
  BY <1>6 DEF vars, Lost
<1>7. QED
  BY <1>1, <1>2, <1>3, <1>4, <1>5, <1>6 DEF Next

\* What one sbrk up does to the pages of its process
LEMMA StepGrows ==
  ASSUME MemInv, NEW p \in Pid, NEW n \in 1 .. MaxSbrk, SbrkGrow(p, n)
  PROVE  LET old == PagesOf(space[p])
             new == PagesOf(space'[p])
         IN  /\ new = old \/ new = old \cup (PageRoundUp(heap[p]) .. PageRoundUp(heap[p] + n) - 1)
             /\ \A u \in DOMAIN space[p] : u \in DOMAIN space'[p] /\ space'[p][u] = space[p][u]
             /\ (\E q \in old : q \in PageRoundUp(heap[p]) .. StackPage - 1) => new = old
<1> DEFINE last == PageRoundUp(ImageEnd + n) - 1
<1>1. PICK s : /\ Moves(p, s) /\ Held(free', s) = Held(free, space[p])
               /\ \A u \in DOMAIN space[p] : u \in DOMAIN s /\ s[u] = space[p][u]
               /\ TablesThere(s)
               /\ \/ PagesOf(s) = PagesOf(space[p])
                  \/ /\ PagesOf(s) = PagesOf(space[p]) \cup (ImagePages .. last)
                     /\ (ImagePages .. last) \cap PagesOf(space[p]) = {}
  BY GrowMoves
<1>2. space'[p] = s
  BY <1>1, MovesKeepOwners
<1>3. /\ heap[p] = ImageEnd /\ PageRoundUp(heap[p]) = ImagePages
      /\ \A q \in PagesOf(space[p]) : q \in ImagePages .. StackPage-1 => ImagePages \in PagesOf(space[p])
  BY RunningIs, RoundUpOfImage DEF SbrkGrow
<1>4. ImagePages \in ImagePages .. last
  BY RoundUpOfGrowth, Sizes
<1>5. PageRoundUp(heap[p] + n) - 1 = last
  BY <1>3
<1> HIDE DEF last
<1>6. QED
  BY <1>1, <1>2, <1>3, <1>4, <1>5

-----------------------------------------------------------------------------
(* The page table in use                                                   *)

TransInv == MemInv /\ TransTypeOK /\ StaleAfterShrinkOnly

\* Who runs is a process that has not exited.
LEMMA CurrentIs ==
  ASSUME TransInv, cur # Nobody
  PROVE  cur \in Pid /\ stage[cur] = "alive"
BY DEF TransInv, TransTypeOK

LEMMA TransStepIsStep == ASSUME TransInv, [TransNext]_<<vars, trans>> PROVE [Next]_vars
<1>1. ASSUME NEW p \in Pid, Switch(p) PROVE UNCHANGED vars
  BY <1>1 DEF Switch
<1>2. CASE Yield
  BY <1>2 DEF Yield
<1>3. ASSUME NEW q \in Page, Access(q) PROVE UNCHANGED vars
  BY <1>3 DEF Access, vars
<1>4. ASSUME cur # Nobody,
             CallFork \/ CallExec \/ CallExecFails \/ CallSbrk \/ CallSbrkShrink
               \/ CallSbrkOverflows \/ CallExit \/ CallWait
      PROVE  Next
  <2>1. cur \in Pid
    BY <1>4, CurrentIs
  <2>2. CASE CallFork
    BY <2>1, <2>2 DEF CallFork, Next, ForkFailure
  <2>3. CASE CallExec
    BY <2>1, <2>3 DEF CallExec, Next
  <2>4. CASE CallExecFails
    BY <2>1, <2>4 DEF CallExecFails, Next, ExecFailure
  <2>5. CASE CallSbrk
    BY <2>1, <2>5 DEF CallSbrk, Next
  <2>6. CASE CallSbrkShrink
    BY <2>1, <2>6 DEF CallSbrkShrink, Next
  <2>7. CASE CallSbrkOverflows
    BY <2>1, <2>7 DEF CallSbrkOverflows, Next
  <2>8. CASE CallExit
    BY <2>1, <2>8 DEF CallExit, Next
  <2>9. CASE CallWait
    BY <2>1, <2>9 DEF CallWait, Next
  <2>10. QED
    BY <1>4, <2>2, <2>3, <2>4, <2>5, <2>6, <2>7, <2>8, <2>9
<1>5. CASE UNCHANGED <<vars, trans>>
  BY <1>5
<1>6. QED
  BY <1>1, <1>2, <1>3, <1>4, <1>5 DEF TransNext

\* The frames of a running process are its own.
LEMMA ActiveOwns == ASSUME MemInv, TransTypeOK PROVE ActiveIsOwned
<1> SUFFICES ASSUME cur # Nobody
             PROVE  /\ Root \in DOMAIN space[cur]
                    /\ \A u \in DOMAIN space[cur] : space[cur][u] \notin Range(free)
  BY DEF ActiveIsOwned
<1>1. cur \in Pid /\ stage[cur] = "alive"
  BY DEF TransTypeOK
<1>2. Root \in DOMAIN space[cur]
  BY <1>1, AllPlaced DEF Placed
<1>3. FramesOf(space[cur]) \cap Range(free) = {}
  BY <1>1 DEF MemInv, SingleOwner
<1>4. QED
  BY <1>2, <1>3 DEF FramesOf

\* A step in which the process that runs goes on running with the translations
\* that it has
KeepsRunning ==
  /\ cur' = cur /\ tlb' = tlb /\ shrunk' = shrunk
  /\ stage'[cur] = "alive"
  /\ \A u \in DOMAIN space[cur] : u \in DOMAIN space'[cur] /\ space'[cur][u] = space[cur][u]

LEMMA RunningKeeps ==
  ASSUME TransInv, cur # Nobody, KeepsRunning
  PROVE  TransTypeOK' /\ StaleAfterShrinkOnly'
<1>1. TransTypeOK'
  BY CurrentIs DEF TransInv, TransTypeOK, KeepsRunning
<1>2. Coherent => Coherent'
  BY DEF Coherent, KeepsRunning
<1>3. QED
  BY <1>1, <1>2 DEF TransInv, StaleAfterShrinkOnly, KeepsRunning

LEMMA LoadKeeps ==
  ASSUME NEW p \in Pid \cup {Nobody}, LoadCr3(p), p # Nobody => stage'[p] = "alive"
  PROVE  TransTypeOK' /\ StaleAfterShrinkOnly'
BY DEF LoadCr3, TransTypeOK, StaleAfterShrinkOnly, Coherent

LEMMA CallsKeepRunning ==
  ASSUME TransInv, cur # Nobody, SameCr3,
         \/ \E c \in Pid : Fork(cur, c) \/ ForkFails(cur, c)
         \/ ExecFails(cur)
         \/ \E n \in 1 .. MaxSbrk : SbrkGrow(cur, n)
         \/ SbrkOverflows(cur)
         \/ \E c \in Pid : c # cur /\ Reap(c)
  PROVE  KeepsRunning
<1>1. MemInv /\ cur \in Pid /\ stage[cur] = "alive"
  BY CurrentIs DEF TransInv
<1>2. cur' = cur /\ tlb' = tlb /\ shrunk' = shrunk
  BY DEF SameCr3, trans
<1>3. DOMAIN stage = Pid
  BY <1>1 DEF MemInv, TypeOK
<1>4. ASSUME space' = space, stage' = stage PROVE KeepsRunning
  BY <1>1, <1>2, <1>4 DEF KeepsRunning
<1>5. ASSUME NEW c \in Pid, Fork(cur, c) PROVE KeepsRunning
  <2>1. c # cur
    BY <1>1, <1>5 DEF Fork, Unborn
  <2>2. Moves(c, Allocated(DOMAIN space[cur]))
    BY <1>1, <1>5, ForkMoves
  <2>3. space'[cur] = space[cur]
    BY <1>1, <2>1, <2>2, MovesKeepOwners
  <2>4. stage'[cur] = "alive"
    BY <1>1, <1>3, <1>5, <2>1 DEF Fork
  <2>5. QED
    BY <1>2, <2>3, <2>4 DEF KeepsRunning
<1>6. ASSUME NEW c \in Pid, c # cur, Reap(c) PROVE KeepsRunning
  <2>1. space'[cur] = space[cur]
    BY <1>1, <1>6, ReapMoves, MovesKeepOwners
  <2>2. stage'[cur] = "alive"
    BY <1>1, <1>3, <1>6 DEF Reap
  <2>3. QED
    BY <1>2, <2>1, <2>2 DEF KeepsRunning
<1>7. ASSUME NEW n \in 1 .. MaxSbrk, SbrkGrow(cur, n) PROVE KeepsRunning
  <2>1. \A u \in DOMAIN space[cur] : u \in DOMAIN space'[cur] /\ space'[cur][u] = space[cur][u]
    BY <1>1, <1>7, StepGrows
  <2>2. stage' = stage
    BY <1>7 DEF SbrkGrow
  <2>3. QED
    BY <1>1, <1>2, <2>1, <2>2 DEF KeepsRunning
<1>8. CASE ExecFails(cur) \/ SbrkOverflows(cur) \/ \E c \in Pid : ForkFails(cur, c)
  BY <1>4, <1>8 DEF ExecFails, SbrkOverflows, ForkFails
<1>9. QED
  BY <1>5, <1>6, <1>7, <1>8

LEMMA TransStep ==
  ASSUME TransInv, [TransNext]_<<vars, trans>> PROVE TransInv'
<1>1. MemInv'
  BY TransStepIsStep, StepMemory DEF TransInv
<1>2. ASSUME NEW p \in Pid, Switch(p) PROVE TransTypeOK' /\ StaleAfterShrinkOnly'
  BY <1>2, LoadKeeps DEF Switch, Running, vars
<1>3. ASSUME Yield PROVE TransTypeOK' /\ StaleAfterShrinkOnly'
  BY <1>3, LoadKeeps DEF Yield
<1>4. ASSUME NEW q \in Page, Access(q) PROVE TransTypeOK' /\ StaleAfterShrinkOnly'
  <2>1. cur \in Pid /\ stage[cur] = "alive"
    BY <1>4, CurrentIs DEF Access
  <2>2. FramesOf(space[cur]) \subseteq Frame
    BY <2>1 DEF TransInv, MemInv, TypeOK
  <2>3. space[cur][Leaf(q)] \in Frame
    BY <1>4, <2>2 DEF Access, FramesOf
  <2>4. UNCHANGED <<space, stage, cur, shrunk>> /\ tlb' = {<<q, space[cur][Leaf(q)]>>}
    BY <1>4 DEF Access, vars
  <2>5. TransTypeOK'
    BY <2>1, <2>3, <2>4 DEF TransTypeOK
  <2>6. Coherent'
    BY <1>4, <2>4 DEF Coherent, Access
  <2>7. QED
    BY <2>5, <2>6 DEF StaleAfterShrinkOnly
<1>5. ASSUME cur # Nobody,
             CallFork \/ CallExecFails \/ CallSbrk \/ CallSbrkOverflows \/ CallWait
      PROVE  TransTypeOK' /\ StaleAfterShrinkOnly'
  <2>1. KeepsRunning
    BY <1>5, CallsKeepRunning DEF CallFork, CallExecFails, CallSbrk, CallSbrkOverflows, CallWait
  <2>2. QED
    BY <1>5, <2>1, RunningKeeps
<1>6. ASSUME cur # Nobody, CallExec PROVE TransTypeOK' /\ StaleAfterShrinkOnly'
  BY <1>6, CurrentIs, LoadKeeps DEF CallExec, Exec
<1>7. ASSUME CallExit PROVE TransTypeOK' /\ StaleAfterShrinkOnly'
  BY <1>7, LoadKeeps DEF CallExit
<1>8. ASSUME cur # Nobody, CallSbrkShrink PROVE TransTypeOK' /\ StaleAfterShrinkOnly'
  <2>1. shrunk' = TRUE /\ cur' = cur /\ tlb' = tlb /\ stage' = stage
    BY <1>8 DEF CallSbrkShrink, SbrkShrink
  <2>2. QED
    BY <2>1 DEF TransInv, TransTypeOK, StaleAfterShrinkOnly
<1>9. ASSUME UNCHANGED <<vars, trans>> PROVE TransTypeOK' /\ StaleAfterShrinkOnly'
  BY <1>9 DEF TransInv, TransTypeOK, StaleAfterShrinkOnly, Coherent, vars, trans
<1>10. QED
  BY <1>1, <1>2, <1>3, <1>4, <1>5, <1>6, <1>7, <1>8, <1>9 DEF TransNext, TransInv

LEMMA TransAlways == TransSpec => []TransInv
<1>1. TransInit => TransInv
  BY InitMemory DEF TransInit, TransInv, TransTypeOK, StaleAfterShrinkOnly, Coherent
<1>2. TransInv /\ [TransNext]_<<vars, trans>> => TransInv'
  BY TransStep
<1>3. QED
  BY <1>1, <1>2, PTL DEF TransSpec

-----------------------------------------------------------------------------
(* The properties                                                          *)

\* Processes are served by frames that are theirs alone, in address spaces that
\* free_uvm can walk; the table in use is its process's.
THEOREM MemoryIsOwned == TransSpec => []MemoryInv
<1>1. TransInv => MemoryInv
  BY ActiveOwns DEF TransInv, MemInv, MemoryInv
<1>2. QED
  BY <1>1, TransAlways, PTL

\* No process reaches a frame that is not its own but by a translation cached
\* before a shrink.
THEOREM StaleIsRare == TransSpec => []StaleAfterShrinkOnly
<1>1. TransInv => StaleAfterShrinkOnly
  BY DEF TransInv
<1>2. QED
  BY <1>1, TransAlways, PTL

\* Processes with the processor are processes: UserMemory is what Translations
\* does to memory.
THEOREM TranslationsRefine == TransSpec => Spec
<1>1. TransInv /\ [TransNext]_<<vars, trans>> => [Next]_vars
  BY TransStepIsStep
<1>2. TransInit => Init
  BY DEF TransInit
<1>3. QED
  BY <1>1, <1>2, TransAlways, PTL DEF TransSpec, Spec

\* sbrk and wait lose no frames, and no fork that succeeds does.
THEOREM OnlyCopiesLose == Spec => LostByCopiesOnly
<1>1. MemInv /\ [Next]_vars =>
        [Lost' # Lost => ForkFailure \/ ExecFailure \/ \E p \in Pid : Exec(p)]_vars
  BY StepLoses
<1>2. QED
  BY <1>1, MemoryAlways, PTL DEF Spec, LostByCopiesOnly

\* sbrk maps all the pages that it is asked for or none, and moves none.
THEOREM GrowthIsWhole == Spec => GrowsWhollyOrNot
<1> DEFINE Whole ==
      \A p \in Pid, n \in 1 .. MaxSbrk : SbrkGrow(p, n) =>
        LET old == PagesOf(space[p])
            new == PagesOf(space'[p])
        IN  /\ new = old \/ new = old \cup (PageRoundUp(heap[p]) .. PageRoundUp(heap[p] + n) - 1)
            /\ \A u \in DOMAIN space[p] : u \in DOMAIN space'[p] /\ space'[p][u] = space[p][u]
            /\ (\E q \in old : q \in PageRoundUp(heap[p]) .. StackPage - 1) => new = old
<1>1. MemInv => Whole
  BY StepGrows
<1>2. MemInv /\ [Next]_vars => [Whole]_vars
  BY <1>1
<1>3. QED
  BY <1>2, MemoryAlways, PTL DEF Spec, GrowsWhollyOrNot

\* The same holds with the processor.
THEOREM TranslationsLose == TransSpec => LostByCopiesOnly /\ GrowsWhollyOrNot
BY TranslationsRefine, OnlyCopiesLose, GrowthIsWhole

=============================================================================
