----------------------------- MODULE UserMemory -----------------------------
(***************************************************************************)
(* The memory of user processes: the frame allocator, and what fork, exec, *)
(* sbrk, exit and wait do to page tables and frames.                       *)
(*                                                                         *)
(* An address space is a function from its uses to the frames that serve   *)
(* them: the level-4 table, a table per region of pages (the three levels  *)
(* below the root are one), and the pages. Interrupts are off in a system  *)
(* call and the allocator's lock is held throughout, so each is one action.*)
(* A size is a number of bytes, for PageSize small. What a page contains is*)
(* left out, the guard page and the stack are one page, and which of the   *)
(* frames taken together serves which use is not told apart.               *)
(***************************************************************************)
EXTENDS Integers, Sequences, FiniteSets, Functions

CONSTANTS NPROCESS,       \* process slots that next_pid looks at
          NFRAME,         \* usable frames
          PageSize,       \* bytes of a page
          TableSpan,      \* pages that a table maps
          NPAGE,          \* pages of user space
          ImagePages,     \* pages of a program's segments
          MaxSbrk         \* bound: bytes asked of one sbrk, up or down

\* Neither sbrk's growth nor its shrinking leaves user space or meets the stack.
ASSUME MemoryAssumption ==
  /\ {NPROCESS, NFRAME, PageSize, TableSpan, NPAGE, ImagePages, MaxSbrk} \subseteq Nat \ {0}
  /\ ImagePages * PageSize + MaxSbrk <= (NPAGE - 1) * PageSize
  /\ MaxSbrk <= ImagePages * PageSize

VARIABLES free,    \* the frames to allocate, the next one last
          space,   \* the address space of each process
          heap,    \* heap_size
          stage,   \* the process: "none", "alive", "exited" or "freed"
          halted   \* has the kernel panicked?

vars == <<free, space, heap, stage, halted>>

Pid == 0 .. NPROCESS-1
Frame == 0 .. NFRAME-1
Page == 0 .. NPAGE-1
StackPage == NPAGE - 1
RegionOf(q) == q \div TableSpan

\* The uses, numbered in the order of a walk: the root, then each table and
\* the pages it maps.
Root == -2
Table(r) == 2 * r * TableSpan - 1
Leaf(q) == 2 * q
Use == {Root} \cup {Table(RegionOf(q)) : q \in Page} \cup {Leaf(q) : q \in Page}
NoSpace == [u \in {} |-> 0]

PagesOf(s) == {q \in Page : Leaf(q) \in DOMAIN s}
FramesOf(s) == {s[u] : u \in DOMAIN s}

TypeOK ==
  /\ free \in Seq(Frame)
  /\ space = [p \in Pid |-> [u \in DOMAIN space[p] |-> space[p][u]]]
  /\ \A p \in Pid : DOMAIN space[p] \subseteq Use /\ FramesOf(space[p]) \subseteq Frame
  /\ heap \in [Pid -> Nat]
  /\ stage \in [Pid -> {"none", "alive", "exited", "freed"}]
  /\ halted \in BOOLEAN
  /\ \A p \in Pid : IF stage[p] \in {"alive", "exited"} THEN Root \in DOMAIN space[p] ELSE space[p] = NoSpace

-----------------------------------------------------------------------------
(* The frame allocator                                                     *)

\* The place of u among some uses
Nth(uses, u) == Cardinality({v \in uses : v <= u})

\* allocate_frame for each of some uses: the space they make up
Allocated(uses) == [u \in uses |-> free[Len(free) + 1 - Nth(uses, u)]]
AfterAllocating(n) == SubSeq(free, 1, Len(free) - n)

\* deallocate_frame for each of some uses of a space
Deallocated(stack, s, uses) ==
  stack \o [k \in 1 .. Cardinality(uses) |-> s[CHOOSE u \in uses : Nth(uses, u) = k]]
Mapped(s, use, f) == [u \in DOMAIN s \cup {use} |-> IF u = use THEN f ELSE s[u]]
Without(s, uses) == [u \in DOMAIN s \ uses |-> s[u]]

-----------------------------------------------------------------------------
(* Images and copies: frames are taken one by one; when they run out, those*)
(* already taken are in a page table that nothing refers to.               *)

\* A process that may make a system call
Running(p) == stage[p] = "alive" /\ ~halted

ImageUses == UNION {{Root, Leaf(q), Table(RegionOf(q))} :
                      q \in (0 .. ImagePages-1) \cup {StackPage}}
ImageEnd == ImagePages * PageSize   \* pg_round_up(max_load_end)

\* Boot does not get past the image of init otherwise.
ASSUME BootAssumption == Cardinality(ImageUses) <= NFRAME

Fits(uses) == Cardinality(uses) <= Len(free)

\* prepare_exec_image and commit_exec: the old page table is not freed.
Exec(p) ==
  /\ Running(p) /\ Fits(ImageUses)
  /\ space' = [space EXCEPT ![p] = Allocated(ImageUses)]
  /\ free' = AfterAllocating(Cardinality(ImageUses))
  /\ heap' = [heap EXCEPT ![p] = ImageEnd]
  /\ UNCHANGED <<stage, halted>>

\* prepare_exec_image returns with the error of the failed allocation.
ExecFails(p) ==
  /\ Running(p) /\ ~Fits(ImageUses)
  /\ free' = <<>>
  /\ UNCHANGED <<space, heap, stage, halted>>

\* fork: copy_uvm takes a frame for each frame of the parent.
Unborn(c) == stage[c] = "none" /\ \A d \in Pid : stage[d] = "none" => c <= d
Fork(p, c) ==
  /\ Running(p) /\ Unborn(c) /\ Fits(DOMAIN space[p])
  /\ space' = [space EXCEPT ![c] = Allocated(DOMAIN space[p])]
  /\ free' = AfterAllocating(Cardinality(DOMAIN space[p]))
  /\ heap' = [heap EXCEPT ![c] = heap[p]]
  /\ stage' = [stage EXCEPT ![c] = "alive"]
  /\ UNCHANGED halted

ForkFails(p, c) ==
  /\ Running(p) /\ Unborn(c) /\ ~Fits(DOMAIN space[p])
  /\ free' = <<>>
  /\ UNCHANGED <<space, heap, stage, halted>>

-----------------------------------------------------------------------------
(* sbrk                                                                    *)

PageRoundUp(size) == (size + PageSize - 1) \div PageSize   \* as a page number

\* The state of alloc_uvm: its space, the free frames, and no error so far?
Growing(s, stack, ok) == [space |-> s, free |-> stack, ok |-> ok]

\* One turn of its loop: a frame for the page, then, if it is missing, one for
\* the table that maps it. A frame that does not come to be used goes back.
MapPage(g, q) ==
  LET top == Len(g.free)
      table == Table(RegionOf(q))
  IN  IF ~g.ok \/ top = 0 \/ Leaf(q) \in DOMAIN g.space
        THEN [g EXCEPT !.ok = FALSE]
      ELSE IF table \in DOMAIN g.space
        THEN Growing(Mapped(g.space, Leaf(q), g.free[top]), SubSeq(g.free, 1, top - 1), TRUE)
      ELSE IF top > 1
        THEN Growing(Mapped(Mapped(g.space, table, g.free[top - 1]), Leaf(q), g.free[top]),
                     SubSeq(g.free, 1, top - 2), TRUE)
      ELSE [g EXCEPT !.ok = FALSE]

\* The loop from page first up to page last
AllocUvm(p, first, last) ==
  LET grown[q \in first-1 .. last] ==
        IF q = first - 1 THEN Growing(space[p], free, TRUE) ELSE MapPage(grown[q - 1], q)
  IN  grown[last]

\* rollback_alloc_uvm: the pages that this call has mapped; the tables stay.
KeepsEntries(p, g) ==   \* mutant: the rollback does not clear the entries
  LET new == {Leaf(q) : q \in PagesOf(g.space) \ PagesOf(space[p])}
  IN  [g EXCEPT !.free = Deallocated(@, g.space, new)]
FreesAboveBreak(p, g) ==   \* mutant: the rollback frees all pages above heap_size
  LET new == {Leaf(q) : q \in {r \in PagesOf(g.space) : r >= PageRoundUp(heap[p])} \ {StackPage}}
  IN  [g EXCEPT !.space = Without(@, new), !.free = Deallocated(@, g.space, new)]
Rollback(p, g) ==
  LET new == {Leaf(q) : q \in PagesOf(g.space) \ PagesOf(space[p])}
  IN  [g EXCEPT !.space = Without(@, new), !.free = Deallocated(@, g.space, new)]

\* grow_process_heap is given a copy of the process: heap_size is not stored.
SbrkGrow(p, n) ==
  /\ Running(p)
  /\ LET g == AllocUvm(p, PageRoundUp(heap[p]), PageRoundUp(heap[p] + n) - 1)
         end == IF g.ok THEN g ELSE Rollback(p, g)
     IN  /\ space' = [space EXCEPT ![p] = end.space]
         /\ free' = end.free
  /\ UNCHANGED <<heap, stage, halted>>

\* dealloc_uvm, in a build whose arithmetic wraps.
SbrkShrink(p, n) ==
  /\ Running(p)
  /\ LET gone == {Leaf(q) : q \in {r \in PagesOf(space[p]) :
                    r >= PageRoundUp(heap[p] - n) /\ r * PageSize < heap[p]}}
     IN  /\ space' = [space EXCEPT ![p] = Without(@, gone)]
         /\ free' = Deallocated(free, space[p], gone)
  /\ UNCHANGED <<heap, stage, halted>>

\* old_size + n as usize overflows for every negative n: a panic, in a build
\* that checks arithmetic (the dev profile).
SbrkOverflows(p) ==
  /\ Running(p)
  /\ halted' = TRUE
  /\ UNCHANGED <<free, space, heap, stage>>

-----------------------------------------------------------------------------
(* exit and wait                                                           *)

\* exit keeps the address space; init does not exit.
Exit(p) ==
  /\ p # 0 /\ Running(p)
  /\ stage' = [stage EXCEPT ![p] = "exited"]
  /\ UNCHANGED <<free, space, heap, halted>>

\* wait frees a child (who may wait for whom: Lifecycle): free_uvm gives back
\* all its frames.
LeavesTables(p) ==   \* mutant: only the pages are given back, and the root
  /\ stage[p] = "exited" /\ ~halted
  /\ LET given == {Root} \cup {Leaf(q) : q \in PagesOf(space[p])}
     IN  free' = Deallocated(free, space[p], given)
  /\ space' = [space EXCEPT ![p] = NoSpace]
  /\ heap' = [heap EXCEPT ![p] = 0]
  /\ stage' = [stage EXCEPT ![p] = "freed"]
  /\ UNCHANGED halted
Reap(p) ==
  /\ stage[p] = "exited" /\ ~halted
  /\ free' = Deallocated(free, space[p], DOMAIN space[p])
  /\ space' = [space EXCEPT ![p] = NoSpace]
  /\ heap' = [heap EXCEPT ![p] = 0]
  /\ stage' = [stage EXCEPT ![p] = "freed"]
  /\ UNCHANGED halted

-----------------------------------------------------------------------------
\* create_user_process_from_path: init has its image, and nobody else is there.
Init ==
  LET n == Cardinality(ImageUses)
  IN  /\ free = [k \in 1 .. NFRAME - n |-> NFRAME - k]
      /\ space = [p \in Pid |-> IF p # 0 THEN NoSpace
                    ELSE [u \in ImageUses |-> Nth(ImageUses, u) - 1]]
      /\ heap = [p \in Pid |-> IF p = 0 THEN ImageEnd ELSE 0]
      /\ stage = [p \in Pid |-> IF p = 0 THEN "alive" ELSE "none"]
      /\ halted = FALSE

ForkFailure == \E p, c \in Pid : ForkFails(p, c)
ExecFailure == \E p \in Pid : ExecFails(p)

Next ==
  \/ \E p, c \in Pid : Fork(p, c)
  \/ ForkFailure
  \/ ExecFailure
  \/ \E p \in Pid : Exec(p) \/ Exit(p) \/ Reap(p) \/ SbrkOverflows(p)
  \/ \E p \in Pid, n \in 1 .. MaxSbrk : SbrkGrow(p, n) \/ SbrkShrink(p, n)

Spec == Init /\ [][Next]_vars

-----------------------------------------------------------------------------
(* Properties                                                              *)

\* A frame has one owner: it is free once, or serves one use of one space. A
\* rollback, a shrink or a wait that gave back a frame still mapped, or a fork
\* that shared one, would let a process write to another's memory.
SingleOwner ==
  /\ \A j, k \in DOMAIN free : j # k => free[j] # free[k]
  /\ \A p \in Pid : FramesOf(space[p]) \cap Range(free) = {}
  /\ \A p, q \in Pid : \A u \in DOMAIN space[p], v \in DOMAIN space[q] :
       space[p][u] = space[q][v] => p = q /\ u = v

\* A mapped page has the table that maps it, so that free_uvm finds it.
Reachable ==
  \A p \in Pid : \A q \in PagesOf(space[p]) :
    {Root, Table(RegionOf(q))} \subseteq DOMAIN space[p]

\* The break is the end of the image: no sbrk moves it, and no two of them map
\* pages that are apart.
BreakStays ==
  \A p \in Pid : stage[p] \in {"alive", "exited"} =>
    /\ heap[p] = ImageEnd
    /\ \A q \in PagesOf(space[p]) : q \in ImagePages .. StackPage-1 => ImagePages \in PagesOf(space[p])

\* The frames that neither the allocator nor a process has
Lost == Frame \ (Range(free) \cup UNION {FramesOf(space[p]) : p \in Pid})

\* Frames are lost by an exec, which forgets the old address space, and by an
\* exec or a fork that runs out of frames, which forgets the new one; never by
\* sbrk, its failures included, nor by wait.
LostByCopiesOnly ==
  [][Lost' # Lost => ForkFailure \/ ExecFailure \/ \E p \in Pid : Exec(p)]_vars

\* sbrk up maps all the pages asked for or, if it fails halfway, none; it never
\* touches a page that was there. The break it starts from is not moved
\* (memory/syscalls.rs:13), so where the heap has grown already, nothing does.
GrowsWhollyOrNot ==
  [][\A p \in Pid, n \in 1 .. MaxSbrk : SbrkGrow(p, n) =>
       LET old == PagesOf(space[p])
           new == PagesOf(space'[p])
       IN  /\ new = old \/ new = old \cup (PageRoundUp(heap[p]) .. PageRoundUp(heap[p] + n) - 1)
           /\ \A u \in DOMAIN space[p] : u \in DOMAIN space'[p] /\ space'[p][u] = space[p][u]
           /\ (\E q \in old : q \in PageRoundUp(heap[p]) .. StackPage - 1) => new = old]_vars

=============================================================================
