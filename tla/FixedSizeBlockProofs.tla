------------------------ MODULE FixedSizeBlockProofs ------------------------
(***************************************************************************)
(* The heap never hands out a word twice, loses none and implements Heap,  *)
(* for every heap size, every set of block sizes and every set of layouts  *)
(* that HeapAssumption admits.                                             *)
(***************************************************************************)
EXTENDS FixedSizeBlock, WellFoundedInduction, FiniteSetTheorems, SequenceTheorems, TLAPS

-----------------------------------------------------------------------------
(* Operators                                                               *)

\* A set of numbers that is not empty has a least element: list_index finds one.
LEMMA LeastElement ==
  ASSUME NEW S \in SUBSET Nat, S # {}
  PROVE  \E m \in S : \A n \in S : m <= n
<1> DEFINE Less == {ss \in Nat \X Nat : ss[1] < ss[2]}
<1>1. IsWellFoundedOn(Less, Nat)
  BY NatLessThanWellFounded DEF OpToRel
<1> HIDE DEF Less
<1>2. \E m \in S : \A n \in S : ~ (<<n, m>> \in Less)
  BY <1>1, WFMin
<1>3. PICK m \in S : \A n \in S : ~ (<<n, m>> \in Less)
  BY <1>2
<1>4. \A n \in S : ~ (n < m)
  BY <1>3 DEF Less
<1> QED  BY <1>4

\* BlockSize is one of BLOCK_SIZES, large enough, and a multiple of the alignment.
LEMMA BlockSizeFits ==
  ASSUME NEW layout \in Layouts, HasList(layout)
  PROVE  /\ BlockSize(layout) \in BlockSizes /\ BlockSize(layout) \in Nat \ {0}
         /\ BlockSize(layout) >= layout.size /\ BlockSize(layout) >= layout.align
         /\ \E k \in 1 .. BlockSize(layout) : BlockSize(layout) = k * layout.align
<1>1. LargeEnough(layout) \in SUBSET Nat /\ LargeEnough(layout) # {}
  BY HeapAssumption DEF LargeEnough, HasList
<1>2. \E m \in LargeEnough(layout) : \A n \in LargeEnough(layout) : m <= n
  BY <1>1, LeastElement
<1>3. BlockSize(layout) \in LargeEnough(layout)
  BY <1>2 DEF BlockSize
<1> QED  BY <1>3, HeapAssumption DEF LargeEnough

\* An allocation has at least the words that it asked for.
LEMMA ReservedSuffices ==
  ASSUME NEW layout \in Layouts
  PROVE  /\ layout.size \in Nat \ {0} /\ layout.align \in Nat \ {0}
         /\ Reserved(layout) \in Nat \ {0} /\ Reserved(layout) >= layout.size
  BY BlockSizeFits, HeapAssumption DEF Reserved

\* Removing the head of a list leaves the others where they are.
LEMMA RestKeeps ==
  ASSUME NEW list \in Seq(Word), list # <<>>
  PROVE  /\ Len(list) \in Nat \ {0} /\ Head_(list) \in Word /\ Head_(list) = list[Len(list)]
         /\ Rest(list) \in Seq(Word) /\ Len(Rest(list)) = Len(list) - 1
         /\ \A i \in 1 .. Len(list) - 1 : Rest(list)[i] = list[i]
<1>1. Len(list) \in Nat \ {0} /\ \A i \in 1 .. Len(list) : list[i] \in Word
  BY EmptySeq
<1> DEFINE n == Len(list) - 1
<1>2. n \in Nat /\ \A i \in 1 .. n : list[i] \in Word
  BY <1>1
<1> HIDE DEF n
<1>3. 1 \in Int /\ n \in Int
  BY <1>2
<1>4. /\ SubSeq(list, 1, n) \in Seq(Word)
      /\ Len(SubSeq(list, 1, n)) = IF 1 <= n THEN n - 1 + 1 ELSE 0
      /\ \A i \in 1 .. n - 1 + 1 : SubSeq(list, 1, n)[i] = list[1 + i - 1]
  BY <1>2, <1>3, SubSeqProperties
<1>5. Rest(list) = SubSeq(list, 1, n)
  BY DEF Rest, n
<1>6. Rest(list) \in Seq(Word) /\ Len(Rest(list)) = n
  BY <1>2, <1>4, <1>5
<1>7. ASSUME NEW i \in 1 .. n
      PROVE  Rest(list)[i] = list[i]
  <2>1. i \in 1 .. n - 1 + 1 /\ 1 + i - 1 = i
    BY <1>2
  <2> QED  BY <1>4, <1>5, <2>1
<1> QED  BY <1>1, <1>6, <1>7 DEF Head_, n

\* So does adding a head.
LEMMA AppendKeeps ==
  ASSUME NEW list \in Seq(Word), NEW ptr \in Word
  PROVE  /\ Append(list, ptr) \in Seq(Word) /\ Len(Append(list, ptr)) = Len(list) + 1
         /\ \A i \in 1 .. Len(list) : Append(list, ptr)[i] = list[i]
         /\ Append(list, ptr)[Len(list) + 1] = ptr
<1>1. Append(list, ptr) \in Seq(Word) /\ Len(Append(list, ptr)) = Len(list) + 1
  OBVIOUS
<1>2. \A i \in 1 .. Len(list) : Append(list, ptr)[i] = list[i]
  OBVIOUS
<1>3. Append(list, ptr)[Len(list) + 1] = ptr
  OBVIOUS
<1> QED  BY <1>1, <1>2, <1>3

\* What is aligned to a multiple is aligned to the number.
LEMMA AlignedToFactor ==
  ASSUME NEW ptr \in Nat, NEW size \in Nat, NEW align \in Nat \ {0},
         Aligned(ptr, size), NEW k \in Nat, size = k * align
  PROVE  Aligned(ptr, align)
<1>1. PICK j \in 0 .. ptr : ptr = j * size
  BY DEF Aligned
<1>2. j * k \in Nat /\ ptr = (j * k) * align
  BY <1>1
<1>3. j * k <= (j * k) * align
  <2> DEFINE n == j * k
  <2>1. n \in Nat  BY <1>2
  <2> HIDE DEF n
  <2>2. n <= n * align  BY <2>1
  <2> QED  BY <2>2 DEF n
<1> QED  BY <1>2, <1>3 DEF Aligned

-----------------------------------------------------------------------------
(* Ranges of words                                                         *)

\* Ranges that share no word are disjoint ...
LEMMA NoCommonWord ==
  ASSUME NEW a \in Nat, NEW m \in Nat \ {0}, NEW b \in Nat, NEW n \in Nat \ {0},
         \A w \in Words(a, m) : w \notin Words(b, n)
  PROVE  Disjoint(a, m, b, n) /\ Disjoint(b, n, a, m)
<1>1. a \notin Words(b, n)
  BY DEF Words
<1>2. b \notin Words(a, m)
  BY DEF Words
<1> QED  BY <1>1, <1>2 DEF Words, Disjoint

\* ... and disjoint ranges share no word.
LEMMA DisjointWords ==
  ASSUME NEW a \in Nat, NEW m \in Nat, NEW b \in Nat, NEW n \in Nat,
         Disjoint(a, m, b, n) \/ Disjoint(b, n, a, m),
         NEW w \in Words(a, m)
  PROVE  w \notin Words(b, n)
  BY DEF Words, Disjoint

-----------------------------------------------------------------------------
(* The invariant                                                           *)

LEMMA InitInv == Init => IInv
<1> SUFFICES ASSUME Init PROVE IInv
  OBVIOUS
<1>1. TypeOK
  BY FS_EmptySet DEF Init, TypeOK
<1>2. \A s \in BlockSizes : DOMAIN lists[s] = {}
  BY DEF Init
<1> QED
  BY <1>1, <1>2 DEF Init, IInv, NoOverlap, LiveApart, ListedApart, LiveNotListed, FreeNotOwned,
                   NothingLost, InHeap, AllAligned

\* What the steps of alloc do to the ghost.
LEMMA RaisedType ==
  ASSUME TypeOK, NEW s \in BlockSizes
  PROVE  Raised(s) \in [BlockSizes -> Nat]
<1>1. Cardinality(LiveBlocks(s)) \in Nat
  BY FS_Subset, FS_CardinalityType DEF TypeOK, LiveBlocks
<1> QED  BY <1>1 DEF TypeOK, Raised

\* A block that moves from a list to its new owner
LEMMA TakeBlockInv ==
  ASSUME IInv, NEW layout \in Layouts, TakeBlock(layout)
  PROVE  IInv'
<1> DEFINE s0 == BlockSize(layout)
           n == Len(lists[s0])
           new == [ptr |-> lists[s0][n], layout |-> layout]
<1>1. s0 \in BlockSizes /\ s0 \in Nat \ {0} /\ Reserved(layout) = s0 /\ Alignment(layout) = s0
  BY BlockSizeFits DEF TakeBlock, Reserved, Alignment
<1>2. lists[s0] \in Seq(Word) /\ lists[s0] # <<>>
  BY <1>1 DEF IInv, TypeOK, TakeBlock
<1>3. /\ n \in Nat \ {0} /\ DOMAIN lists[s0] = 1 .. n /\ lists[s0][n] \in Word
      /\ Head_(lists[s0]) = lists[s0][n]
      /\ Rest(lists[s0]) \in Seq(Word) /\ DOMAIN Rest(lists[s0]) = 1 .. n - 1
      /\ \A i \in 1 .. n - 1 : Rest(lists[s0])[i] = lists[s0][i]
  BY <1>2, RestKeeps
<1>4. /\ live' = live \cup {new} /\ fallback' = fallback
      /\ lists' = [lists EXCEPT ![s0] = Rest(lists[s0])]
  BY <1>3 DEF TakeBlock, Allocated
<1>5. \A t \in BlockSizes : \A i \in DOMAIN lists'[t] :
        i \in DOMAIN lists[t] /\ lists'[t][i] = lists[t][i] /\ (t = s0 => i # n)
  BY <1>1, <1>3, <1>4 DEF IInv, TypeOK
<1>6. \A t \in BlockSizes : \A i \in DOMAIN lists[t] :
        \/ i \in DOMAIN lists'[t] /\ lists'[t][i] = lists[t][i]
        \/ t = s0 /\ i = n
  BY <1>1, <1>3, <1>4 DEF IInv, TypeOK
<1>7. n \in DOMAIN lists[s0]
  BY <1>3
<1>8. TypeOK'
  <2>1. IsFiniteSet(live')
    BY <1>4, FS_AddElement DEF IInv, TypeOK
  <2>2. peak' \in [BlockSizes -> Nat]
    BY <1>1, RaisedType DEF TakeBlock, IInv
  <2>3. new \in [ptr : Word, layout : Layouts]
    BY <1>3
  <2>4. live' \subseteq [ptr : Word, layout : Layouts]
    BY <1>4, <2>3 DEF IInv, TypeOK
  <2>5. lists' \in [BlockSizes -> Seq(Word)]
    BY <1>1, <1>3, <1>4 DEF IInv, TypeOK
  <2>6. fallback' \subseteq Word
    BY <1>4 DEF IInv, TypeOK
  <2> QED  BY <2>1, <2>2, <2>4, <2>5, <2>6 DEF TypeOK
<1> HIDE DEF s0, n
<1>9. new.ptr = lists[s0][n] /\ new.layout = layout
  OBVIOUS
<1> HIDE DEF new
<1>10. LiveApart'
  BY <1>1, <1>4, <1>7, <1>9 DEF IInv, NoOverlap, LiveApart, LiveNotListed, Disjoint
<1>11. ListedApart'
  BY <1>5 DEF IInv, NoOverlap, ListedApart
<1>12. LiveNotListed'
  <2> SUFFICES ASSUME NEW b \in live', NEW t \in BlockSizes, NEW i \in DOMAIN lists'[t]
               PROVE  Disjoint(b.ptr, Reserved(b.layout), lists'[t][i], t)
    BY DEF LiveNotListed
  <2>1. i \in DOMAIN lists[t] /\ lists'[t][i] = lists[t][i] /\ (t = s0 => i # n)
    BY <1>5
  <2>2. CASE b \in live
    BY <2>1, <2>2 DEF IInv, NoOverlap, LiveNotListed
  <2>3. CASE b = new
    BY <1>1, <1>7, <1>9, <2>1, <2>3 DEF IInv, NoOverlap, ListedApart
  <2> QED  BY <1>4, <2>2, <2>3
<1>13. FreeNotOwned'
  <2> SUFFICES ASSUME NEW w \in fallback
               PROVE  /\ \A b \in live' : w \notin Words(b.ptr, Reserved(b.layout))
                      /\ \A t \in BlockSizes : \A i \in DOMAIN lists'[t] :
                           w \notin Words(lists'[t][i], t)
    BY <1>4 DEF FreeNotOwned
  <2>1. \A b \in live : w \notin Words(b.ptr, Reserved(b.layout))
    BY DEF IInv, NoOverlap, FreeNotOwned
  <2>2. \A t \in BlockSizes : \A i \in DOMAIN lists[t] : w \notin Words(lists[t][i], t)
    BY DEF IInv, NoOverlap, FreeNotOwned
  <2>3. w \notin Words(new.ptr, Reserved(new.layout))
    BY <1>1, <1>7, <1>9, <2>2
  <2> QED  BY <1>4, <1>5, <2>1, <2>2, <2>3
<1>14. NothingLost'
  <2> SUFFICES ASSUME NEW w \in Word
               PROVE  \/ w \in fallback'
                      \/ \E b \in live' : w \in Words(b.ptr, Reserved(b.layout))
                      \/ \E t \in BlockSizes : \E i \in DOMAIN lists'[t] :
                           w \in Words(lists'[t][i], t)
    BY DEF NothingLost
  <2>1. CASE w \in fallback
    BY <1>4, <2>1
  <2>2. CASE \E b \in live : w \in Words(b.ptr, Reserved(b.layout))
    BY <1>4, <2>2
  <2>3. ASSUME NEW t \in BlockSizes, NEW i \in DOMAIN lists[t], w \in Words(lists[t][i], t)
        PROVE  \/ \E j \in DOMAIN lists'[t] : w \in Words(lists'[t][j], t)
               \/ w \in Words(new.ptr, Reserved(new.layout))
    BY <1>1, <1>6, <1>9, <2>3
  <2> QED  BY <1>4, <2>1, <2>2, <2>3 DEF IInv, NothingLost
<1>15. InHeap'
  <2>1. \A b \in live' : b.ptr + Reserved(b.layout) <= HeapSize
    BY <1>1, <1>4, <1>7, <1>9 DEF IInv, InHeap
  <2>2. \A t \in BlockSizes : \A i \in DOMAIN lists'[t] : lists'[t][i] + t <= HeapSize
    BY <1>5 DEF IInv, InHeap
  <2> QED  BY <2>1, <2>2 DEF InHeap
<1>16. AllAligned'
  <2>1. \A b \in live' : Aligned(b.ptr, Alignment(b.layout))
    BY <1>1, <1>4, <1>7, <1>9 DEF IInv, AllAligned
  <2>2. \A t \in BlockSizes : \A i \in DOMAIN lists'[t] : Aligned(lists'[t][i], t)
    BY <1>5 DEF IInv, AllAligned
  <2> QED  BY <2>1, <2>2 DEF AllAligned
<1> QED
  BY <1>8, <1>10, <1>11, <1>12, <1>13, <1>14, <1>15, <1>16 DEF IInv, NoOverlap

\* Memory that the fallback hands out, for a block or for a large allocation
LEMMA FallbackInv ==
  ASSUME IInv, NEW layout \in Layouts, NEW ptr \in Word,
         Words(ptr, Reserved(layout)) \subseteq fallback, Aligned(ptr, Alignment(layout)),
         Allocated(ptr, layout), fallback' = fallback \ Words(ptr, Reserved(layout)),
         lists' = lists, peak' \in [BlockSizes -> Nat]
  PROVE  IInv'
<1> DEFINE size == Reserved(layout)
           new == [ptr |-> ptr, layout |-> layout]
<1>1. size \in Nat \ {0} /\ ptr \in Nat /\ fallback \subseteq 0 .. HeapSize - 1
  BY ReservedSuffices, HeapAssumption DEF Word, IInv, TypeOK
<1>2. live' = live \cup {new} /\ new.ptr = ptr /\ new.layout = layout
  BY DEF Allocated
<1>3. \A b \in live : /\ b.ptr \in Nat /\ Reserved(b.layout) \in Nat \ {0}
                       /\ \A w \in Words(ptr, size) : w \notin Words(b.ptr, Reserved(b.layout))
  <2> TAKE b \in live
  <2>1. b.ptr \in Word /\ b.layout \in Layouts
    BY DEF IInv, TypeOK
  <2>2. b.ptr \in Nat /\ Reserved(b.layout) \in Nat \ {0}
    BY <2>1, ReservedSuffices DEF Word
  <2>3. \A w \in Words(ptr, size) : w \notin Words(b.ptr, Reserved(b.layout))
    BY DEF IInv, NoOverlap, FreeNotOwned
  <2> QED  BY <2>2, <2>3
<1>4. \A s \in BlockSizes : \A i \in DOMAIN lists[s] :
        /\ lists[s][i] \in Nat /\ s \in Nat \ {0}
        /\ \A w \in Words(ptr, size) : w \notin Words(lists[s][i], s)
  <2> TAKE s \in BlockSizes
  <2> TAKE i \in DOMAIN lists[s]
  <2>1. lists[s] \in Seq(Word)
    BY DEF IInv, TypeOK
  <2>2. lists[s][i] \in Nat /\ s \in Nat \ {0}
    BY <2>1, HeapAssumption DEF Word
  <2>3. \A w \in Words(ptr, size) : w \notin Words(lists[s][i], s)
    BY DEF IInv, NoOverlap, FreeNotOwned
  <2> QED  BY <2>2, <2>3
<1>5. TypeOK'
  <2>1. new \in [ptr : Word, layout : Layouts]
    OBVIOUS
  <2>2. IsFiniteSet(live')
    BY <1>2, FS_AddElement DEF IInv, TypeOK
  <2>3. live' \subseteq [ptr : Word, layout : Layouts]
    BY <1>2, <2>1 DEF IInv, TypeOK
  <2> QED  BY <2>2, <2>3 DEF IInv, TypeOK
<1> HIDE DEF size, new
<1>6. LiveApart'
  <2>1. \A b \in live : /\ Disjoint(ptr, size, b.ptr, Reserved(b.layout))
                         /\ Disjoint(b.ptr, Reserved(b.layout), ptr, size)
    BY <1>1, <1>3, NoCommonWord
  <2> QED  BY <1>2, <2>1 DEF IInv, NoOverlap, LiveApart, size
<1>7. LiveNotListed'
  <2>1. \A s \in BlockSizes : \A i \in DOMAIN lists[s] : Disjoint(ptr, size, lists[s][i], s)
    BY <1>1, <1>4, NoCommonWord
  <2> QED  BY <1>2, <2>1 DEF IInv, NoOverlap, LiveNotListed, size
<1>8. ListedApart'
  BY DEF IInv, NoOverlap, ListedApart
<1>9. FreeNotOwned'
  BY <1>2 DEF IInv, NoOverlap, FreeNotOwned
<1>10. NothingLost'
  BY <1>2 DEF IInv, NothingLost
<1>11. InHeap'
  <2>1. ptr + size - 1 \in Words(ptr, size)
    BY <1>1 DEF Words
  <2>2. ptr + size - 1 \in 0 .. HeapSize - 1
    BY <1>1, <2>1 DEF size
  <2>3. ptr + size <= HeapSize
    BY <1>1, <2>2, HeapAssumption
  <2> QED  BY <1>2, <2>3 DEF IInv, InHeap, size
<1>12. AllAligned'
  BY <1>2 DEF IInv, AllAligned
<1> QED
  BY <1>5, <1>6, <1>7, <1>8, <1>9, <1>10, <1>11, <1>12 DEF IInv, NoOverlap

LEMMA CutBlockInv ==
  ASSUME IInv, NEW layout \in Layouts, CutBlock(layout)
  PROVE  IInv'
<1>1. Reserved(layout) = BlockSize(layout) /\ Alignment(layout) = BlockSize(layout)
  BY DEF CutBlock, Reserved, Alignment
<1>2. peak' \in [BlockSizes -> Nat]
  BY BlockSizeFits, RaisedType DEF CutBlock, IInv
<1>3. PICK ptr \in Word :
        /\ FirstFit(ptr, BlockSize(layout), BlockSize(layout)) /\ Allocated(ptr, layout)
        /\ fallback' = fallback \ Words(ptr, BlockSize(layout))
  BY DEF CutBlock
<1> QED  BY <1>1, <1>2, <1>3, FallbackInv DEF CutBlock, FirstFit, Fits

LEMMA AllocLargeInv ==
  ASSUME IInv, NEW layout \in Layouts, AllocLarge(layout)
  PROVE  IInv'
<1>1. Reserved(layout) = layout.size /\ Alignment(layout) = layout.align
  BY DEF AllocLarge, Reserved, Alignment
<1>2. lists' = lists /\ peak' \in [BlockSizes -> Nat]
  BY DEF AllocLarge, IInv, TypeOK
<1>3. PICK ptr \in Word :
        /\ FirstFit(ptr, layout.size, layout.align) /\ Allocated(ptr, layout)
        /\ fallback' = fallback \ Words(ptr, layout.size)
  BY DEF AllocLarge
<1> QED  BY <1>1, <1>2, <1>3, FallbackInv DEF FirstFit, Fits

\* A block that goes back to the list it would be taken from
LEMMA FreeBlockInv ==
  ASSUME IInv, NEW b \in live, FreeBlock(b)
  PROVE  IInv'
<1> DEFINE s0 == BlockSize(b.layout)
           n == Len(lists[s0]) + 1
<1>0. b.ptr \in Word /\ b.layout \in Layouts
  BY DEF IInv, TypeOK
<1>1. s0 \in BlockSizes /\ Reserved(b.layout) = s0 /\ Alignment(b.layout) = s0
  BY <1>0, BlockSizeFits DEF FreeBlock, Reserved, Alignment
<1>2. lists[s0] \in Seq(Word)
  BY <1>1 DEF IInv, TypeOK
<1>3. /\ Append(lists[s0], b.ptr) \in Seq(Word)
      /\ DOMAIN Append(lists[s0], b.ptr) = 1 .. n /\ DOMAIN lists[s0] = 1 .. n - 1
      /\ n \in Nat \ {0} /\ Append(lists[s0], b.ptr)[n] = b.ptr
      /\ \A i \in 1 .. n - 1 : Append(lists[s0], b.ptr)[i] = lists[s0][i]
  BY <1>0, <1>2, AppendKeeps
<1>4. /\ live' = live \ {b} /\ fallback' = fallback /\ peak' = peak
      /\ lists' = [lists EXCEPT ![s0] = Append(lists[s0], b.ptr)]
  BY DEF FreeBlock
<1>5. \A t \in BlockSizes : \A i \in DOMAIN lists'[t] :
        \/ i \in DOMAIN lists[t] /\ lists'[t][i] = lists[t][i]
        \/ t = s0 /\ i = n /\ lists'[t][i] = b.ptr
  BY <1>1, <1>3, <1>4 DEF IInv, TypeOK
<1>6. \A t \in BlockSizes : \A i \in DOMAIN lists[t] :
        i \in DOMAIN lists'[t] /\ lists'[t][i] = lists[t][i]
  BY <1>1, <1>3, <1>4 DEF IInv, TypeOK
<1>7. n \in DOMAIN lists'[s0] /\ lists'[s0][n] = b.ptr
  BY <1>1, <1>3, <1>4 DEF IInv, TypeOK
<1>8. TypeOK'
  <2>1. IsFiniteSet(live')
    BY <1>4, FS_RemoveElement DEF IInv, TypeOK
  <2>2. lists' \in [BlockSizes -> Seq(Word)]
    BY <1>1, <1>3, <1>4 DEF IInv, TypeOK
  <2> QED  BY <1>4, <2>1, <2>2 DEF IInv, TypeOK
<1> HIDE DEF s0, n
<1>9. LiveApart'
  BY <1>4 DEF IInv, NoOverlap, LiveApart
<1>10. ListedApart'
  <2> SUFFICES ASSUME NEW s \in BlockSizes, NEW t \in BlockSizes,
                      NEW i \in DOMAIN lists'[s], NEW j \in DOMAIN lists'[t], s # t \/ i # j
               PROVE  Disjoint(lists'[s][i], s, lists'[t][j], t)
    BY DEF ListedApart
  <2> DEFINE Old(u, k) == k \in DOMAIN lists[u] /\ lists'[u][k] = lists[u][k]
             New(u, k) == u = s0 /\ k = n /\ lists'[u][k] = b.ptr
  <2>1. (Old(s, i) \/ New(s, i)) /\ (Old(t, j) \/ New(t, j))
    BY <1>5
  <2>2. CASE Old(s, i) /\ Old(t, j)
    BY <2>2 DEF IInv, NoOverlap, ListedApart
  <2>3. CASE New(s, i) /\ Old(t, j)
    BY <1>1, <2>3 DEF IInv, NoOverlap, LiveNotListed
  <2>4. CASE Old(s, i) /\ New(t, j)
    <3>1. Disjoint(b.ptr, s0, lists[s][i], s)
      BY <1>1, <2>4 DEF IInv, NoOverlap, LiveNotListed
    <3> QED  BY <2>4, <3>1 DEF Disjoint
  <2> QED  BY <2>1, <2>2, <2>3, <2>4
<1>11. LiveNotListed'
  <2> SUFFICES ASSUME NEW c \in live', NEW t \in BlockSizes, NEW i \in DOMAIN lists'[t]
               PROVE  Disjoint(c.ptr, Reserved(c.layout), lists'[t][i], t)
    BY DEF LiveNotListed
  <2>1. c \in live /\ c # b
    BY <1>4
  <2>2. CASE i \in DOMAIN lists[t] /\ lists'[t][i] = lists[t][i]
    BY <2>1, <2>2 DEF IInv, NoOverlap, LiveNotListed
  <2>3. CASE t = s0 /\ i = n /\ lists'[t][i] = b.ptr
    BY <1>1, <2>1, <2>3 DEF IInv, NoOverlap, LiveApart
  <2> QED  BY <1>5, <2>2, <2>3
<1>12. FreeNotOwned'
  <2> SUFFICES ASSUME NEW w \in fallback
               PROVE  /\ \A c \in live' : w \notin Words(c.ptr, Reserved(c.layout))
                      /\ \A t \in BlockSizes : \A i \in DOMAIN lists'[t] :
                           w \notin Words(lists'[t][i], t)
    BY <1>4 DEF FreeNotOwned
  <2>1. \A c \in live : w \notin Words(c.ptr, Reserved(c.layout))
    BY DEF IInv, NoOverlap, FreeNotOwned
  <2>2. \A t \in BlockSizes : \A i \in DOMAIN lists[t] : w \notin Words(lists[t][i], t)
    BY DEF IInv, NoOverlap, FreeNotOwned
  <2>3. w \notin Words(b.ptr, s0)
    BY <1>1, <2>1
  <2> QED  BY <1>4, <1>5, <2>1, <2>2, <2>3
<1>13. NothingLost'
  <2> SUFFICES ASSUME NEW w \in Word
               PROVE  \/ w \in fallback'
                      \/ \E c \in live' : w \in Words(c.ptr, Reserved(c.layout))
                      \/ \E t \in BlockSizes : \E i \in DOMAIN lists'[t] :
                           w \in Words(lists'[t][i], t)
    BY DEF NothingLost
  <2>1. CASE w \in fallback
    BY <1>4, <2>1
  <2>2. ASSUME NEW c \in live, w \in Words(c.ptr, Reserved(c.layout))
        PROVE  \/ c \in live'
               \/ \E t \in BlockSizes : \E i \in DOMAIN lists'[t] : w \in Words(lists'[t][i], t)
    BY <1>1, <1>4, <1>7, <2>2
  <2>3. ASSUME NEW t \in BlockSizes, NEW i \in DOMAIN lists[t], w \in Words(lists[t][i], t)
        PROVE  \E j \in DOMAIN lists'[t] : w \in Words(lists'[t][j], t)
    BY <1>6, <2>3
  <2> QED  BY <2>1, <2>2, <2>3 DEF IInv, NothingLost
<1>14. InHeap'
  <2>1. b.ptr + s0 <= HeapSize
    BY <1>1 DEF IInv, InHeap
  <2> QED  BY <1>4, <1>5, <2>1 DEF IInv, InHeap
<1>15. AllAligned'
  <2>1. Aligned(b.ptr, s0)
    BY <1>1 DEF IInv, AllAligned
  <2> QED  BY <1>4, <1>5, <2>1 DEF IInv, AllAligned
<1> QED
  BY <1>8, <1>9, <1>10, <1>11, <1>12, <1>13, <1>14, <1>15 DEF IInv, NoOverlap

\* An allocation that no list serves goes back to the fallback, and only that.
LEMMA FreeLargeInv ==
  ASSUME IInv, NEW b \in live, FreeLarge(b)
  PROVE  IInv'
<1>0. b.ptr \in Word /\ b.layout \in Layouts
  BY DEF IInv, TypeOK
<1>1. /\ Reserved(b.layout) = b.layout.size
      /\ b.ptr \in Nat /\ b.layout.size \in Nat \ {0} /\ Reserved(b.layout) \in Nat \ {0}
  BY <1>0, ReservedSuffices DEF FreeLarge, Reserved, Word
<1>2. /\ live' = live \ {b} /\ lists' = lists /\ peak' = peak
      /\ fallback' = fallback \cup Words(b.ptr, Reserved(b.layout))
  BY <1>1 DEF FreeLarge
<1>3. TypeOK'
  <2>1. IsFiniteSet(live')
    BY <1>2, FS_RemoveElement DEF IInv, TypeOK
  <2>2. b.ptr + Reserved(b.layout) <= HeapSize
    BY DEF IInv, InHeap
  <2>3. Words(b.ptr, Reserved(b.layout)) \subseteq Word
    BY <1>1, <2>2, HeapAssumption DEF Words, Word
  <2> QED  BY <1>2, <2>1, <2>3 DEF IInv, TypeOK
<1>4. LiveApart' /\ LiveNotListed'
  BY <1>2 DEF IInv, NoOverlap, LiveApart, LiveNotListed
<1>5. ListedApart'
  BY <1>2 DEF IInv, NoOverlap, ListedApart
<1>6. FreeNotOwned'
  <2>1. ASSUME NEW w \in Words(b.ptr, Reserved(b.layout)), NEW c \in live, c # b
        PROVE  w \notin Words(c.ptr, Reserved(c.layout))
    <3>1. c.ptr \in Word /\ c.layout \in Layouts
      BY DEF IInv, TypeOK
    <3>2. c.ptr \in Nat /\ Reserved(c.layout) \in Nat
      BY <3>1, ReservedSuffices DEF Word
    <3>3. Disjoint(b.ptr, Reserved(b.layout), c.ptr, Reserved(c.layout))
      BY <2>1 DEF IInv, NoOverlap, LiveApart
    <3> QED  BY <1>1, <3>2, <3>3, DisjointWords
  <2>2. ASSUME NEW w \in Words(b.ptr, Reserved(b.layout)),
               NEW s \in BlockSizes, NEW i \in DOMAIN lists[s]
        PROVE  w \notin Words(lists[s][i], s)
    <3>1. lists[s] \in Seq(Word)
      BY DEF IInv, TypeOK
    <3>2. lists[s][i] \in Nat /\ s \in Nat
      BY <3>1, HeapAssumption DEF Word
    <3>3. Disjoint(b.ptr, Reserved(b.layout), lists[s][i], s)
      BY DEF IInv, NoOverlap, LiveNotListed
    <3> QED  BY <1>1, <3>2, <3>3, DisjointWords
  <2> QED  BY <1>2, <2>1, <2>2 DEF IInv, NoOverlap, FreeNotOwned
<1>7. NothingLost'
  BY <1>2 DEF IInv, NothingLost
<1>8. InHeap'
  BY <1>2 DEF IInv, InHeap
<1>9. AllAligned'
  BY <1>2 DEF IInv, AllAligned
<1> QED
  BY <1>3, <1>4, <1>5, <1>6, <1>7, <1>8, <1>9 DEF IInv, NoOverlap

\* alloc and dealloc keep the invariant.
LEMMA StepInv == IInv /\ [Next]_vars => IInv'
<1> SUFFICES ASSUME IInv, [Next]_vars PROVE IInv'
  OBVIOUS
<1>1. CASE \E layout \in Layouts : TakeBlock(layout)
  BY <1>1, TakeBlockInv
<1>2. CASE \E layout \in Layouts : CutBlock(layout)
  BY <1>2, CutBlockInv
<1>3. CASE \E layout \in Layouts : AllocLarge(layout)
  BY <1>3, AllocLargeInv
<1>4. CASE \E b \in live : FreeBlock(b)
  BY <1>4, FreeBlockInv
<1>5. CASE \E b \in live : FreeLarge(b)
  BY <1>5, FreeLargeInv
<1>6. CASE UNCHANGED vars
  BY <1>6 DEF vars, IInv, TypeOK, NoOverlap, LiveApart, ListedApart, LiveNotListed, FreeNotOwned,
              NothingLost, InHeap, AllAligned
<1> QED
  BY <1>1, <1>2, <1>3, <1>4, <1>5, <1>6 DEF Next

\* In every state that alloc and dealloc reach, blocks are aligned, in the heap, apart from
\* each other and together all there is.
THEOREM Invariant == Spec => []IInv
<1>1. Init => IInv
  BY InitInv
<1>2. IInv /\ [Next]_vars => IInv'
  BY StepInv
<1> QED  BY <1>1, <1>2, PTL DEF Spec

\* The lists hold addresses of the heap and allocations have a layout that was asked for.
THEOREM TypeCorrect == Spec => []TypeOK
<1>1. IInv => TypeOK
  BY DEF IInv
<1> QED  BY <1>1, Invariant, PTL

\* No word has two owners, whatever the order of allocations and deallocations.
THEOREM NoWordTwice == Spec => []NoOverlap
<1>1. IInv => NoOverlap
  BY DEF IInv
<1> QED  BY <1>1, Invariant, PTL

\* No word of the heap is ever lost.
THEOREM NoWordLost == Spec => []NothingLost
<1>1. IInv => NothingLost
  BY DEF IInv
<1> QED  BY <1>1, Invariant, PTL

-----------------------------------------------------------------------------
(* What the lists keep from the fallback                                   *)

\* The block that alloc takes or cuts was not allocated before.
LEMMA NewBlock ==
  ASSUME IInv, NEW layout \in Layouts, TakeBlock(layout) \/ CutBlock(layout)
  PROVE  \E new : /\ new \notin live /\ live' = live \cup {new}
                  /\ new.layout = layout
<1>1. BlockSize(layout) \in BlockSizes /\ Reserved(layout) = BlockSize(layout)
      /\ BlockSize(layout) \in Nat \ {0}
  BY BlockSizeFits DEF TakeBlock, CutBlock, Reserved
<1>2. CASE TakeBlock(layout)
  <2> DEFINE list == lists[BlockSize(layout)]
             new == [ptr |-> list[Len(list)], layout |-> layout]
  <2>1. list \in Seq(Word) /\ list # <<>>
    BY <1>1, <1>2 DEF IInv, TypeOK, TakeBlock
  <2>2. Len(list) \in DOMAIN list /\ list[Len(list)] \in Nat /\ Head_(list) = list[Len(list)]
    BY <2>1, RestKeeps DEF Word
  <2>3. live' = live \cup {new}
    BY <1>2, <2>2 DEF TakeBlock, Allocated
  <2>4. ASSUME new \in live PROVE FALSE
    <3>1. Disjoint(new.ptr, Reserved(new.layout), list[Len(list)], BlockSize(layout))
      BY <1>1, <2>2, <2>4 DEF IInv, NoOverlap, LiveNotListed
    <3>2. Disjoint(list[Len(list)], BlockSize(layout), list[Len(list)], BlockSize(layout))
      BY <1>1, <3>1
    <3> HIDE DEF list
    <3> QED  BY <1>1, <2>2, <3>2 DEF Disjoint
  <2> QED  BY <2>3, <2>4
<1>3. CASE CutBlock(layout)
  <2>1. PICK ptr \in Word :
          /\ Words(ptr, BlockSize(layout)) \subseteq fallback /\ Allocated(ptr, layout)
    BY <1>3 DEF CutBlock, FirstFit, Fits
  <2> DEFINE new == [ptr |-> ptr, layout |-> layout]
  <2>2. ptr \in Words(ptr, BlockSize(layout))
    BY <1>1 DEF Words, Word
  <2>3. ASSUME new \in live PROVE FALSE
    <3>1. ptr \notin Words(new.ptr, Reserved(new.layout))
      BY <2>1, <2>2, <2>3 DEF IInv, NoOverlap, FreeNotOwned
    <3> QED  BY <1>1, <2>2, <3>1
  <2> QED  BY <2>1, <2>3 DEF Allocated
<1> QED  BY <1>2, <1>3

\* A block more is live of the size that alloc serves, and of no other.
LEMMA OneMoreLive ==
  ASSUME IInv, NEW layout \in Layouts, HasList(layout),
         NEW new, new \notin live, live' = live \cup {new}, new.layout = layout
  PROVE  \A s \in BlockSizes :
           /\ Cardinality(LiveBlocks(s)) \in Nat
           /\ Cardinality(LiveBlocks(s)') =
                IF s = BlockSize(layout) THEN Cardinality(LiveBlocks(s)) + 1
                                         ELSE Cardinality(LiveBlocks(s))
<1> TAKE s \in BlockSizes
<1>1. IsFiniteSet(LiveBlocks(s)) /\ Cardinality(LiveBlocks(s)) \in Nat
  BY FS_Subset, FS_CardinalityType DEF IInv, TypeOK, LiveBlocks
<1>2. new \notin LiveBlocks(s)
  BY DEF LiveBlocks
<1>3. CASE s = BlockSize(layout)
  <2>1. LiveBlocks(s)' = LiveBlocks(s) \cup {new}
    BY <1>3 DEF LiveBlocks
  <2> QED  BY <1>1, <1>2, <1>3, <2>1, FS_AddElement
<1>4. CASE s # BlockSize(layout)
  <2>1. LiveBlocks(s)' = LiveBlocks(s)
    BY <1>4 DEF LiveBlocks
  <2> QED  BY <1>1, <1>4, <2>1
<1> QED  BY <1>3, <1>4

\* One block less is live of the size that dealloc returns.
LEMMA OneLessLive ==
  ASSUME IInv, NEW b \in live, HasList(b.layout), live' = live \ {b}
  PROVE  \A s \in BlockSizes :
           /\ Cardinality(LiveBlocks(s)) \in Nat
           /\ Cardinality(LiveBlocks(s)') =
                IF s = BlockSize(b.layout) THEN Cardinality(LiveBlocks(s)) - 1
                                           ELSE Cardinality(LiveBlocks(s))
<1> TAKE s \in BlockSizes
<1>1. IsFiniteSet(LiveBlocks(s)) /\ Cardinality(LiveBlocks(s)) \in Nat
  BY FS_Subset, FS_CardinalityType DEF IInv, TypeOK, LiveBlocks
<1>2. CASE s = BlockSize(b.layout)
  <2>1. b \in LiveBlocks(s) /\ LiveBlocks(s)' = LiveBlocks(s) \ {b}
    BY <1>2 DEF LiveBlocks
  <2> QED  BY <1>1, <1>2, <2>1, FS_RemoveElement
<1>3. CASE s # BlockSize(b.layout)
  <2>1. LiveBlocks(s)' = LiveBlocks(s)
    BY <1>3 DEF LiveBlocks
  <2> QED  BY <1>1, <1>3, <2>1
<1> QED  BY <1>2, <1>3

\* alloc looks into the list before it cuts a block, so no step leaves a spare one.
LEMMA NoSpareStep ==
  ASSUME IInv, NoSpareBlocks, [Next]_vars
  PROVE  NoSpareBlocks'
<1>0. /\ lists \in [BlockSizes -> Seq(Word)] /\ peak \in [BlockSizes -> Nat]
      /\ \A s \in BlockSizes : Cardinality(LiveBlocks(s)) \in Nat /\ Len(lists[s]) \in Nat
  BY FS_Subset, FS_CardinalityType DEF IInv, TypeOK, LiveBlocks
<1>1. ASSUME NEW layout \in Layouts, TakeBlock(layout) PROVE NoSpareBlocks'
  <2> DEFINE s0 == BlockSize(layout)
  <2>1. PICK new : new \notin live /\ live' = live \cup {new} /\ new.layout = layout
    BY <1>1, NewBlock
  <2>2. HasList(layout) /\ s0 \in BlockSizes
    BY <1>1, BlockSizeFits DEF TakeBlock
  <2>3. \A s \in BlockSizes : Cardinality(LiveBlocks(s)') =
          IF s = s0 THEN Cardinality(LiveBlocks(s)) + 1 ELSE Cardinality(LiveBlocks(s))
    BY <2>1, <2>2, OneMoreLive
  <2>4. Len(lists[s0]) \in Nat \ {0} /\ Len(Rest(lists[s0])) = Len(lists[s0]) - 1
    BY <1>0, <1>1, <2>2, RestKeeps DEF TakeBlock
  <2>5. Len(lists[s0]) + Cardinality(LiveBlocks(s0)) = peak[s0]
    BY <2>2 DEF NoSpareBlocks
  <2>6. peak' = peak
    BY <1>0, <1>1, <2>2, <2>4, <2>5 DEF TakeBlock, Raised
  <2>7. lists' = [lists EXCEPT ![s0] = Rest(lists[s0])]
    BY <1>1 DEF TakeBlock
  <2> HIDE DEF s0
  <2>8. ASSUME NEW s \in BlockSizes
        PROVE  Len(lists'[s]) + Cardinality(LiveBlocks(s)') = peak'[s]
    <3>1. CASE s = s0
      <4>1. lists'[s] = Rest(lists[s0])
        BY <1>0, <2>7, <3>1
      <4>2. Len(lists'[s]) = Len(lists[s0]) - 1
        BY <2>4, <4>1
      <4>3. Cardinality(LiveBlocks(s)') = Cardinality(LiveBlocks(s0)) + 1
        BY <2>3, <3>1
      <4>4. Cardinality(LiveBlocks(s0)) \in Nat
        BY <1>0, <3>1
      <4>5. peak'[s] = peak[s0]
        BY <2>6, <3>1
      <4> QED  BY <2>4, <2>5, <4>2, <4>3, <4>4, <4>5
    <3>2. CASE s # s0
      BY <1>0, <2>3, <2>6, <2>7, <3>2 DEF NoSpareBlocks
    <3> QED  BY <3>1, <3>2
  <2> QED  BY <2>8 DEF NoSpareBlocks
<1>2. ASSUME NEW layout \in Layouts, CutBlock(layout) PROVE NoSpareBlocks'
  <2> DEFINE s0 == BlockSize(layout)
  <2>1. PICK new : new \notin live /\ live' = live \cup {new} /\ new.layout = layout
    BY <1>2, NewBlock
  <2>2. HasList(layout) /\ s0 \in BlockSizes
    BY <1>2, BlockSizeFits DEF CutBlock
  <2>3. \A s \in BlockSizes : Cardinality(LiveBlocks(s)') =
          IF s = s0 THEN Cardinality(LiveBlocks(s)) + 1 ELSE Cardinality(LiveBlocks(s))
    BY <2>1, <2>2, OneMoreLive
  <2>4. lists' = lists /\ Len(lists[s0]) = 0
    BY <1>0, <1>2, <2>2 DEF CutBlock
  <2>5. Len(lists[s0]) + Cardinality(LiveBlocks(s0)) = peak[s0]
    BY <2>2 DEF NoSpareBlocks
  <2>6. peak' = [peak EXCEPT ![s0] = peak[s0] + 1]
    <3>1. Cardinality(LiveBlocks(s0)) \in Nat /\ peak[s0] = Cardinality(LiveBlocks(s0))
      BY <1>0, <2>2, <2>4, <2>5
    <3>2. peak' = Raised(s0)
      BY <1>2 DEF CutBlock
    <3> HIDE DEF s0
    <3>3. Raised(s0) = [peak EXCEPT ![s0] = Cardinality(LiveBlocks(s0)) + 1]
      <4> DEFINE c == Cardinality(LiveBlocks(s0))
      <4>1. c + 1 > peak[s0]
        BY <3>1
      <4>2. Raised(s0) = [peak EXCEPT ![s0] = IF c + 1 > peak[s0] THEN c + 1 ELSE peak[s0]]
        BY DEF Raised
      <4> HIDE DEF c
      <4>3. Raised(s0) = [peak EXCEPT ![s0] = c + 1]
        BY <4>1, <4>2
      <4> QED  BY <4>3 DEF c
    <3> QED  BY <3>1, <3>2, <3>3
  <2> HIDE DEF s0
  <2>7. ASSUME NEW s \in BlockSizes
        PROVE  Len(lists'[s]) + Cardinality(LiveBlocks(s)') = peak'[s]
    <3>1. CASE s = s0
      <4>1. Cardinality(LiveBlocks(s)') = Cardinality(LiveBlocks(s0)) + 1
        BY <2>3, <3>1
      <4>2. Cardinality(LiveBlocks(s0)) \in Nat /\ Len(lists'[s]) = 0
        BY <1>0, <2>4, <3>1
      <4>3. peak[s0] = Cardinality(LiveBlocks(s0))
        BY <2>4, <2>5, <4>2
      <4>4. peak'[s] = peak[s0] + 1
        BY <1>0, <2>6, <3>1
      <4> QED  BY <4>1, <4>2, <4>3, <4>4
    <3>2. CASE s # s0
      BY <1>0, <2>3, <2>4, <2>6, <3>2 DEF NoSpareBlocks
    <3> QED  BY <3>1, <3>2
  <2> QED  BY <2>7 DEF NoSpareBlocks
<1>3. ASSUME NEW b \in live, FreeBlock(b) PROVE NoSpareBlocks'
  <2> DEFINE s0 == BlockSize(b.layout)
  <2>1. HasList(b.layout) /\ b.layout \in Layouts /\ b.ptr \in Word
    BY <1>3 DEF FreeBlock, IInv, TypeOK
  <2>2. s0 \in BlockSizes
    BY <2>1, BlockSizeFits
  <2>3. live' = live \ {b} /\ peak' = peak
        /\ lists' = [lists EXCEPT ![s0] = Append(lists[s0], b.ptr)]
    BY <1>3 DEF FreeBlock
  <2>4. \A s \in BlockSizes : Cardinality(LiveBlocks(s)') =
          IF s = s0 THEN Cardinality(LiveBlocks(s)) - 1 ELSE Cardinality(LiveBlocks(s))
    BY <2>1, <2>3, OneLessLive
  <2>5. Len(Append(lists[s0], b.ptr)) = Len(lists[s0]) + 1
    BY <1>0, <2>1, <2>2, AppendKeeps
  <2> HIDE DEF s0
  <2>6. ASSUME NEW s \in BlockSizes
        PROVE  Len(lists'[s]) + Cardinality(LiveBlocks(s)') = peak'[s]
    <3>1. CASE s = s0
      BY <1>0, <2>3, <2>4, <2>5, <3>1 DEF NoSpareBlocks
    <3>2. CASE s # s0
      BY <1>0, <2>3, <2>4, <3>2 DEF NoSpareBlocks
    <3> QED  BY <3>1, <3>2
  <2> QED  BY <2>6 DEF NoSpareBlocks
<1>4. CASE \E layout \in Layouts : AllocLarge(layout)
  BY <1>4 DEF AllocLarge, Allocated, NoSpareBlocks, LiveBlocks
<1>5. CASE \E b \in live : FreeLarge(b)
  BY <1>5 DEF FreeLarge, NoSpareBlocks, LiveBlocks
<1>6. CASE UNCHANGED vars
  BY <1>6 DEF vars, NoSpareBlocks, LiveBlocks
<1> QED
  BY <1>1, <1>2, <1>3, <1>4, <1>5, <1>6 DEF Next

\* Of each size there are never more blocks than were in use at one time.
THEOREM NoBlockSpare == Spec => []NoSpareBlocks
<1>1. Init => NoSpareBlocks
  <2> SUFFICES ASSUME Init, NEW s \in BlockSizes
               PROVE  Len(lists[s]) + Cardinality(LiveBlocks(s)) = peak[s]
    BY DEF NoSpareBlocks
  <2>1. LiveBlocks(s) = {} /\ lists[s] = <<>> /\ peak[s] = 0
    BY DEF Init, LiveBlocks
  <2> QED  BY <2>1, FS_EmptySet
<1>2. IInv /\ NoSpareBlocks /\ [Next]_vars => NoSpareBlocks'
  BY NoSpareStep
<1> QED  BY <1>1, <1>2, Invariant, PTL DEF Spec

-----------------------------------------------------------------------------
(* The refinement                                                          *)

\* alloc finds memory that Heap would allow, dealloc gives back what was allocated.
LEMMA AllocRefines ==
  ASSUME IInv, IInv', NEW layout \in Layouts, NEW ptr \in Word,
         Allocated(ptr, layout), [ptr |-> ptr, layout |-> layout] \notin live
  PROVE  Abstract!Next
<1> DEFINE new == [ptr |-> ptr, layout |-> layout]
<1>1. new \in live' /\ new.ptr = ptr /\ new.layout = layout
  BY DEF Allocated
<1>2. /\ layout.size \in Nat \ {0} /\ layout.align \in Nat \ {0} /\ ptr \in Nat
      /\ Reserved(layout) \in Nat /\ Reserved(layout) >= layout.size
  BY ReservedSuffices DEF Word
<1>3. ptr \in 0 .. HeapSize - layout.size
  <2>1. ptr + Reserved(layout) <= HeapSize
    BY <1>1 DEF IInv, InHeap
  <2> QED  BY <1>2, <2>1, HeapAssumption
<1>4. Aligned(ptr, layout.align)
  <2>1. Aligned(ptr, Alignment(layout))
    BY <1>1 DEF IInv, AllAligned
  <2>2. CASE HasList(layout)
    <3>1. PICK k \in 1 .. BlockSize(layout) : BlockSize(layout) = k * layout.align
      BY <2>2, BlockSizeFits
    <3>2. BlockSize(layout) \in Nat /\ k \in Nat
      BY <2>2, BlockSizeFits
    <3> QED  BY <1>2, <2>1, <2>2, <3>1, <3>2, AlignedToFactor DEF Alignment
  <2> QED  BY <2>1, <2>2 DEF Alignment
<1>5. ASSUME NEW b \in live
      PROVE  Abstract!Disjoint(ptr, layout.size, b.ptr, b.layout.size)
  <2>1. b.ptr \in Word /\ b.layout \in Layouts /\ b \in live' /\ b # new
    BY DEF IInv, TypeOK, Allocated
  <2>2. /\ b.layout.size \in Nat /\ b.ptr \in Nat
        /\ Reserved(b.layout) \in Nat /\ Reserved(b.layout) >= b.layout.size
    BY <2>1, ReservedSuffices DEF Word
  <2>3. Disjoint(new.ptr, Reserved(new.layout), b.ptr, Reserved(b.layout))
    BY <1>1, <2>1 DEF IInv, NoOverlap, LiveApart
  <2> HIDE DEF new
  <2> QED  BY <1>1, <1>2, <2>2, <2>3 DEF Disjoint, Abstract!Disjoint
<1>6. Abstract!Allocate(layout)
  BY <1>3, <1>4, <1>5 DEF Abstract!Allocate, Allocated, Aligned
<1> QED  BY <1>6 DEF Abstract!Next

\* The lists in front of the fallback implement the abstract allocator.
THEOREM Implements == Spec => ImplementsHeap
<1>1. Init => Abstract!Init
  BY DEF Init, Abstract!Init
<1>2. IInv /\ IInv' /\ [Next]_vars => [Abstract!Next]_live
  <2> SUFFICES ASSUME IInv, IInv', [Next]_vars PROVE [Abstract!Next]_live
    OBVIOUS
  <2>1. ASSUME NEW layout \in Layouts, NEW ptr \in Word, Allocated(ptr, layout)
        PROVE  [Abstract!Next]_live
    <3>1. CASE [ptr |-> ptr, layout |-> layout] \in live
      BY <2>1, <3>1 DEF Allocated
    <3>2. CASE [ptr |-> ptr, layout |-> layout] \notin live
      BY <2>1, <3>2, AllocRefines
    <3> QED  BY <3>1, <3>2
  <2>2. ASSUME NEW layout \in Layouts, TakeBlock(layout) PROVE [Abstract!Next]_live
    <3>1. lists[BlockSize(layout)] \in Seq(Word) /\ lists[BlockSize(layout)] # <<>>
      BY <2>2, BlockSizeFits DEF IInv, TypeOK, TakeBlock
    <3>2. Head_(lists[BlockSize(layout)]) \in Word
      BY <3>1, RestKeeps
    <3> QED  BY <2>1, <2>2, <3>2 DEF TakeBlock
  <2>3. CASE \E layout \in Layouts : CutBlock(layout) \/ AllocLarge(layout)
    BY <2>1, <2>3 DEF CutBlock, AllocLarge
  <2>4. CASE \E b \in live : FreeBlock(b) \/ FreeLarge(b)
    BY <2>4 DEF FreeBlock, FreeLarge, Abstract!Next, Abstract!Deallocate
  <2>5. CASE UNCHANGED vars
    BY <2>5 DEF vars
  <2> QED  BY <2>2, <2>3, <2>4, <2>5 DEF Next
<1> QED
  BY <1>1, <1>2, Invariant, PTL DEF Spec, ImplementsHeap, Abstract!Spec
=============================================================================
