--------------------------- MODULE FixedSizeBlock ---------------------------
(***************************************************************************)
(* The kernel's heap: a list of free blocks for each block size, in front  *)
(* of the linked_list_allocator, which serves what the lists cannot. A     *)
(* block goes back to the list of its size and never to the fallback. The  *)
(* allocator is behind one spin lock, so each call is one step.            *)
(*                                                                         *)
(* Addresses and sizes are in words of 8 bytes, the smallest block. An     *)
(* allocation that finds no memory returns null and changes nothing. The   *)
(* fallback is an external crate: it is the set of its free words, what it *)
(* rounds up to store its own links is left out.                           *)
(***************************************************************************)
EXTENDS Integers, Sequences, FiniteSets

CONSTANTS HeapSize,     \* HEAP_SIZE
          BlockSizes,   \* BLOCK_SIZES
          Layouts       \* what is asked for: [size, align]

\* All sizes and alignments are powers of two: the smaller one divides the larger.
ASSUME HeapAssumption ==
  /\ HeapSize \in Nat
  /\ IsFiniteSet(BlockSizes) /\ BlockSizes \subseteq Nat \ {0}
  /\ Layouts \subseteq [size : Nat \ {0}, align : Nat \ {0}]
  /\ \A s \in BlockSizes, layout \in Layouts :
       layout.align <= s => \E k \in 1 .. s : s = k * layout.align

VARIABLES lists,      \* list_heads: the free blocks of each size, the head last
          fallback,   \* the words that are free in the fallback allocator
          live,       \* allocations: an address and the layout it was asked for
          peak        \* ghost: the most blocks of each size that were live at one time

vars == <<lists, fallback, live, peak>>

Word == 0 .. HeapSize - 1
Words(ptr, size) == ptr .. ptr + size - 1
Disjoint(a, m, b, n) == a + m <= b \/ b + n <= a
Aligned(ptr, align) == \E k \in 0 .. ptr : ptr = k * align

-----------------------------------------------------------------------------
(* list_index                                                              *)

LargeEnough(layout) == {s \in BlockSizes : s >= layout.size /\ s >= layout.align}
HasList(layout) == LargeEnough(layout) # {}
BySizeOnly(layout) ==    \* mutant: the alignment is not looked at
  CHOOSE s \in BlockSizes :
    s >= layout.size /\ \A t \in BlockSizes : t >= layout.size => s <= t
BlockSize(layout) ==
  CHOOSE s \in LargeEnough(layout) : \A t \in LargeEnough(layout) : s <= t

\* The words that an allocation has for itself
Reserved(layout) == IF HasList(layout) THEN BlockSize(layout) ELSE layout.size

-----------------------------------------------------------------------------
(* alloc and dealloc                                                       *)

\* linked_list_allocator::Heap::allocate_first_fit
Fits(ptr, size, align) == Aligned(ptr, align) /\ Words(ptr, size) \subseteq fallback
FirstFit(ptr, size, align) ==
  /\ ptr \in Word /\ Fits(ptr, size, align)
  /\ \A lower \in 0 .. ptr - 1 : ~Fits(lower, size, align)

LiveBlocks(size) == {b \in live : HasList(b.layout) /\ BlockSize(b.layout) = size}
Raised(size) == LET n == Cardinality(LiveBlocks(size)) + 1
                IN [peak EXCEPT ![size] = IF n > @ THEN n ELSE @]
Allocated(ptr, layout) == live' = live \cup {[ptr |-> ptr, layout |-> layout]}

Head_(list) == list[Len(list)]
Rest(list) == SubSeq(list, 1, Len(list) - 1)

TakeBlock(layout) ==
  /\ HasList(layout) /\ lists[BlockSize(layout)] # <<>>
  /\ Allocated(Head_(lists[BlockSize(layout)]), layout)
  /\ lists' = [lists EXCEPT ![BlockSize(layout)] = Rest(@)]
  /\ peak' = Raised(BlockSize(layout))
  /\ UNCHANGED fallback

CutAnyway(layout) ==   \* mutant: alloc does not look into the list first
  /\ HasList(layout)
  /\ \E ptr \in Word :
       /\ FirstFit(ptr, BlockSize(layout), BlockSize(layout))
       /\ Allocated(ptr, layout)
       /\ fallback' = fallback \ Words(ptr, BlockSize(layout))
  /\ peak' = Raised(BlockSize(layout))
  /\ UNCHANGED lists
CutBlock(layout) ==
  /\ HasList(layout) /\ lists[BlockSize(layout)] = <<>>
  /\ \E ptr \in Word :
       /\ FirstFit(ptr, BlockSize(layout), BlockSize(layout))
       /\ Allocated(ptr, layout)
       /\ fallback' = fallback \ Words(ptr, BlockSize(layout))
  /\ peak' = Raised(BlockSize(layout))
  /\ UNCHANGED lists

AllocLarge(layout) ==
  /\ ~HasList(layout)
  /\ \E ptr \in Word :
       /\ FirstFit(ptr, layout.size, layout.align)
       /\ Allocated(ptr, layout)
       /\ fallback' = fallback \ Words(ptr, layout.size)
  /\ UNCHANGED <<lists, peak>>

FreeBySize(b) ==      \* mutant: dealloc chooses the list by the size alone
  /\ HasList(b.layout)
  /\ live' = live \ {b}
  /\ lists' = [lists EXCEPT ![BySizeOnly(b.layout)] = Append(@, b.ptr)]
  /\ UNCHANGED <<fallback, peak>>
FreeBlock(b) ==
  /\ HasList(b.layout)
  /\ live' = live \ {b}
  /\ lists' = [lists EXCEPT ![BlockSize(b.layout)] = Append(@, b.ptr)]
  /\ UNCHANGED <<fallback, peak>>

FreeLarge(b) ==
  /\ ~HasList(b.layout)
  /\ live' = live \ {b}
  /\ fallback' = fallback \cup Words(b.ptr, b.layout.size)
  /\ UNCHANGED <<lists, peak>>

Next ==
  \/ \E layout \in Layouts : TakeBlock(layout) \/ CutBlock(layout) \/ AllocLarge(layout)
  \/ \E b \in live : FreeBlock(b) \/ FreeLarge(b)

Init ==
  /\ lists = [s \in BlockSizes |-> <<>>]
  /\ fallback = Word
  /\ live = {}
  /\ peak = [s \in BlockSizes |-> 0]

Spec == Init /\ [][Next]_vars

-----------------------------------------------------------------------------
(* Properties                                                              *)

TypeOK ==
  /\ lists \in [BlockSizes -> Seq(Word)]
  /\ fallback \subseteq Word
  /\ live \subseteq [ptr : Word, layout : Layouts] /\ IsFiniteSet(live)
  /\ peak \in [BlockSizes -> Nat]

\* What is allocated, what waits in a list and what the fallback has are apart: a word
\* that two of them held would be overwritten by a list's link or by another owner.
LiveApart ==
  \A b, c \in live : b # c => Disjoint(b.ptr, Reserved(b.layout), c.ptr, Reserved(c.layout))
ListedApart ==
  \A s, t \in BlockSizes : \A i \in DOMAIN lists[s], j \in DOMAIN lists[t] :
    s # t \/ i # j => Disjoint(lists[s][i], s, lists[t][j], t)
LiveNotListed ==
  \A b \in live, s \in BlockSizes : \A i \in DOMAIN lists[s] :
    Disjoint(b.ptr, Reserved(b.layout), lists[s][i], s)
FreeNotOwned ==
  \A w \in fallback :
    /\ \A b \in live : w \notin Words(b.ptr, Reserved(b.layout))
    /\ \A s \in BlockSizes : \A i \in DOMAIN lists[s] : w \notin Words(lists[s][i], s)
NoOverlap == LiveApart /\ ListedApart /\ LiveNotListed /\ FreeNotOwned

\* Every word of the heap is allocated, in a list, or free in the fallback: init, alloc
\* and dealloc lose nothing.
NothingLost ==
  \A w \in Word :
    \/ w \in fallback
    \/ \E b \in live : w \in Words(b.ptr, Reserved(b.layout))
    \/ \E s \in BlockSizes : \E i \in DOMAIN lists[s] : w \in Words(lists[s][i], s)

\* Blocks never go back to the fallback, but of each size there are never more than were
\* in use at one time: what small allocations keep from large ones is bounded by that.
NoSpareBlocks ==
  \A s \in BlockSizes : Len(lists[s]) + Cardinality(LiveBlocks(s)) = peak[s]

\* The lists implement an allocator: aligned memory that nobody else has.
Abstract == INSTANCE Heap
ImplementsHeap == Abstract!Spec

\* Inductive: with it goes that every block is aligned to its size.
InHeap ==
  /\ \A b \in live : b.ptr + Reserved(b.layout) <= HeapSize
  /\ \A s \in BlockSizes : \A i \in DOMAIN lists[s] : lists[s][i] + s <= HeapSize
Alignment(layout) == IF HasList(layout) THEN BlockSize(layout) ELSE layout.align
AllAligned ==
  /\ \A b \in live : Aligned(b.ptr, Alignment(b.layout))
  /\ \A s \in BlockSizes : \A i \in DOMAIN lists[s] : Aligned(lists[s][i], s)
IInv == TypeOK /\ NoOverlap /\ NothingLost /\ InHeap /\ AllAligned
=============================================================================
