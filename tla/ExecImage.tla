------------------------------ MODULE ExecImage -----------------------------
(***************************************************************************)
(* prepare_exec_image: the LOAD segments of a program file are mapped,     *)
(* cleared and copied page by page into a new address space, with a guard  *)
(* page and a stack at its top; afterwards sbrk maps pages above them. One *)
(* action is one turn of a loop. Whether a frame is left for a page is in  *)
(* UserMemory; here there always is one.                                   *)
(*                                                                         *)
(* An address counts bytes. Above a page are three tables, as below the    *)
(* level-4 table. Byte k of the file is k + 1, so that a program can tell  *)
(* it from other bytes and from 0. Address and size overflows are left out,*)
(* the ELF header is well formed.                                          *)
(***************************************************************************)
EXTENDS Integers, Sequences

CONSTANTS PageSize, TableSpan,     \* bytes of a page, entries of a table
          NPAGE, StackPages,       \* pages of user space, of which the stack
          FileSize,                \* bytes of the file
          Headers,                 \* program headers that a file may have
          MaxHeaders,              \* bound: headers of a file
          MaxSbrk                  \* bound: bytes asked of one sbrk

\* A program header; load says whether its type is LOAD.
Header == [load : BOOLEAN, vaddr : Nat, offset : Nat, filesz : Nat, memsz : Nat, write : BOOLEAN]

\* The guard page and the stack have one table, as USER_STACK_TOP is the end of one.
ASSUME ImageAssumption ==
  /\ {PageSize, TableSpan, StackPages} \subseteq Nat \ {0}
  /\ NPAGE \in Nat /\ StackPages < TableSpan /\ TableSpan <= NPAGE /\ NPAGE % TableSpan = 0
  /\ {FileSize, MaxHeaders, MaxSbrk} \subseteq Nat
  /\ Headers \subseteq Header
  /\ \A h \in Headers : h.vaddr + h.memsz <= NPAGE * PageSize

VARIABLES pc,      \* the loop that runs; "ready" or "failed" after it
          read,    \* the headers read so far; the last is the one being loaded
          next,    \* page: the page to map next
          done,    \* cleared or written: bytes of the segment
          end,     \* max_load_end
          pages,   \* the mapped pages: their bytes, and two flags of the entry
          tables   \* the tables above them, each with the two flags of the entry for it

vars == <<pc, read, next, done, end, pages, tables>>

PageOf(a) == a \div PageSize
PT(q) == q \div TableSpan
PD(q) == PT(q) \div TableSpan
PDPT(q) == PD(q) \div TableSpan
Above(q) == {<<"pt", PT(q)>>, <<"pd", PD(q)>>, <<"pdpt", PDPT(q)>>}
Zeros == [k \in 0 .. PageSize - 1 |-> 0]
GuardPage == NPAGE - StackPages - 1
StackStart == NPAGE - StackPages
Segment == read[Len(read)]

-----------------------------------------------------------------------------
(* map_page: a cleared frame. map_to makes the tables on all three levels  *)
(* allow at least what the page does.                                      *)

Entry(write, user) == [bytes |-> Zeros, write |-> write, user |-> user]
With(f, S, entry) == [x \in DOMAIN f \cup S |-> IF x \in S THEN entry ELSE f[x]]
MapTo(q, write, user) ==
  LET Old(r) == IF r \in DOMAIN tables THEN tables[r] ELSE [write |-> FALSE, user |-> FALSE]
      Raised(r) == [write |-> Old(r).write \/ write, user |-> Old(r).user \/ user]
  IN  /\ pages' = With(pages, {q}, Entry(write, user))
      /\ tables' = [r \in DOMAIN tables \cup Above(q) |->
                      IF r \in Above(q) THEN Raised(r) ELSE tables[r]]

-----------------------------------------------------------------------------
(* load_elf_segments                                                       *)

\* A new level-4 table
Begin ==
  /\ pc \in {"ready", "failed"}
  /\ pc' = "headers"
  /\ read' = <<>> /\ next' = 0 /\ done' = 0 /\ end' = 0
  /\ pages' = [q \in {} |-> Entry(FALSE, FALSE)]
  /\ tables' = [r \in {} |-> [write |-> FALSE, user |-> FALSE]]

Larger(a, b) == IF a > b THEN a ELSE b

SkipHeader(h) ==
  /\ pc = "headers" /\ Len(read) < MaxHeaders
  /\ ~h.load \/ (h.memsz >= h.filesz /\ h.memsz = 0)
  /\ read' = Append(read, h)
  /\ UNCHANGED <<pc, next, done, end, pages, tables>>

RejectHeader(h) ==
  /\ pc = "headers" /\ Len(read) < MaxHeaders /\ h.load
  /\ h.memsz < h.filesz \/ (h.memsz > 0 /\ h.offset + h.filesz > FileSize)
  /\ read' = Append(read, h)
  /\ pc' = "failed"
  /\ UNCHANGED <<next, done, end, pages, tables>>

EndsAtFile(h) ==   \* mutant: the end of the segment is that of its bytes in the file
  /\ pc = "headers" /\ Len(read) < MaxHeaders /\ h.load
  /\ h.memsz >= h.filesz /\ h.memsz > 0 /\ h.offset + h.filesz <= FileSize
  /\ read' = Append(read, h)
  /\ end' = Larger(end, h.vaddr + h.filesz)
  /\ next' = PageOf(h.vaddr) /\ pc' = "map"
  /\ UNCHANGED <<done, pages, tables>>
TakeHeader(h) ==
  /\ pc = "headers" /\ Len(read) < MaxHeaders /\ h.load
  /\ h.memsz >= h.filesz /\ h.memsz > 0 /\ h.offset + h.filesz <= FileSize
  /\ read' = Append(read, h)
  /\ end' = Larger(end, h.vaddr + h.memsz)
  /\ next' = PageOf(h.vaddr) /\ pc' = "map"
  /\ UNCHANGED <<done, pages, tables>>

LastPage == PageOf(Segment.vaddr + Segment.memsz - 1)

\* ensure_user_page_mapping: a page that segments share allows what any of them does. Only
\* its own entry is changed.
SetsFlags ==   \* mutant: the later segment decides alone
  /\ pc = "map" /\ next <= LastPage
  /\ IF next \in DOMAIN pages
       THEN pages' = [pages EXCEPT ![next].write = Segment.write] /\ UNCHANGED tables
       ELSE MapTo(next, Segment.write, TRUE)
  /\ next' = next + 1
  /\ UNCHANGED <<pc, read, done, end>>
EnsurePage ==
  /\ pc = "map" /\ next <= LastPage
  /\ IF next \in DOMAIN pages
       THEN /\ pages' = [pages EXCEPT ![next].write = @ \/ Segment.write, ![next].user = TRUE]
            /\ UNCHANGED tables
       ELSE MapTo(next, Segment.write, TRUE)
  /\ next' = next + 1
  /\ UNCHANGED <<pc, read, done, end>>

EnsureEnds ==
  /\ pc = "map" /\ next > LastPage
  /\ pc' = "zero" /\ done' = 0
  /\ UNCHANGED <<read, next, end, pages, tables>>

\* The part of a range that is in one page: from its byte vaddr + done on, size bytes in all.
\* A page that is not mapped would be an error; TLC would report it as a deadlock.
Address == Segment.vaddr + done
ToCopy(size) == LET room == PageSize - (Address % PageSize)
                IN  IF room < size - done THEN room ELSE size - done
Store(bytes) ==
  LET q == PageOf(Address)
      first == Address % PageSize
      At(k) == IF k - first \in DOMAIN bytes THEN bytes[k - first] ELSE pages[q].bytes[k]
  IN  /\ q \in DOMAIN pages
      /\ pages' = [pages EXCEPT ![q].bytes = [k \in 0 .. PageSize - 1 |-> At(k)]]

\* zero_user_range
ZeroChunk ==
  /\ pc = "zero" /\ done < Segment.memsz
  /\ Store([k \in 0 .. ToCopy(Segment.memsz) - 1 |-> 0])
  /\ done' = done + ToCopy(Segment.memsz)
  /\ UNCHANGED <<pc, read, next, end, tables>>

ZeroEnds ==
  /\ pc = "zero" /\ done = Segment.memsz
  /\ pc' = "copy" /\ done' = 0
  /\ UNCHANGED <<read, next, end, pages, tables>>

\* copy_to_user_pagetable
CopyRestarts ==   \* mutant: every page gets the first bytes of the segment
  /\ pc = "copy" /\ done < Segment.filesz
  /\ Store([k \in 0 .. ToCopy(Segment.filesz) - 1 |-> Segment.offset + k + 1])
  /\ done' = done + ToCopy(Segment.filesz)
  /\ UNCHANGED <<pc, read, next, end, tables>>
CopyChunk ==
  /\ pc = "copy" /\ done < Segment.filesz
  /\ Store([k \in 0 .. ToCopy(Segment.filesz) - 1 |-> Segment.offset + done + k + 1])
  /\ done' = done + ToCopy(Segment.filesz)
  /\ UNCHANGED <<pc, read, next, end, tables>>

CopyEnds ==
  /\ pc = "copy" /\ done = Segment.filesz
  /\ pc' = "headers" /\ done' = 0
  /\ UNCHANGED <<read, next, end, pages, tables>>

-----------------------------------------------------------------------------
(* prepare_exec_image: the guard page, then the stack                      *)

HeadersEnd ==
  /\ pc = "headers"
  /\ pc' = "stack" /\ next' = GuardPage
  /\ UNCHANGED <<read, done, end, pages, tables>>

MapStackPage ==
  /\ pc = "stack" /\ next < NPAGE /\ next \notin DOMAIN pages
  /\ MapTo(next, TRUE, next # GuardPage)
  /\ next' = next + 1
  /\ UNCHANGED <<pc, read, done, end>>

\* map_to does not replace a mapping.
StackTaken ==
  /\ pc = "stack" /\ next < NPAGE /\ next \in DOMAIN pages
  /\ pc' = "failed"
  /\ UNCHANGED <<read, next, done, end, pages, tables>>

Ready ==
  /\ pc = "stack" /\ next = NPAGE
  /\ pc' = "ready"
  /\ UNCHANGED <<read, next, done, end, pages, tables>>

-----------------------------------------------------------------------------
(* alloc_uvm, for a program that has its image. A page in the way undoes   *)
(* what the call has mapped, but not its tables. walk_pagetable, unlike    *)
(* map_to, leaves the tables as they are that it finds.                    *)

HeapPage == PageOf(end + PageSize - 1)   \* heap_size, the page at pg_round_up(max_load_end)

SbrkGrow(n) ==
  /\ pc = "ready"
  /\ LET wanted == HeapPage .. PageOf((HeapPage * PageSize + n) + PageSize - 1) - 1
         met == {q \in wanted : \A b \in HeapPage .. q - 1 : b \notin DOMAIN pages}
         new == (UNION {Above(q) : q \in met}) \ DOMAIN tables
     IN  /\ tables' = With(tables, new, [write |-> TRUE, user |-> TRUE])
         /\ pages' = IF wanted \cap DOMAIN pages # {} THEN pages
                     ELSE With(pages, wanted, Entry(TRUE, TRUE))
  /\ UNCHANGED <<pc, read, next, done, end>>

-----------------------------------------------------------------------------

Init ==
  /\ pc = "headers"
  /\ read = <<>> /\ next = 0 /\ done = 0 /\ end = 0
  /\ pages = [q \in {} |-> Entry(FALSE, FALSE)]
  /\ tables = [r \in {} |-> [write |-> FALSE, user |-> FALSE]]

Next ==
  \/ Begin
  \/ \E h \in Headers : SkipHeader(h) \/ RejectHeader(h) \/ TakeHeader(h)
  \/ EnsurePage \/ EnsureEnds \/ ZeroChunk \/ ZeroEnds \/ CopyChunk \/ CopyEnds
  \/ HeadersEnd \/ MapStackPage \/ StackTaken \/ Ready
  \/ \E n \in 1 .. MaxSbrk : SbrkGrow(n)

Spec == Init /\ [][Next]_vars

-----------------------------------------------------------------------------
(* Properties                                                              *)

Flags == [write : BOOLEAN, user : BOOLEAN]

\* Every mapped page has a table, and its bytes come from the file or are cleared.
TypeOK ==
  /\ pc \in {"headers", "map", "zero", "copy", "stack", "ready", "failed"}
  /\ read \in Seq(Headers) /\ (pc \in {"map", "zero", "copy"} => read # <<>>)
  /\ next \in 0 .. NPAGE /\ done \in Nat /\ end \in 0 .. NPAGE * PageSize
  /\ DOMAIN pages \subseteq 0 .. NPAGE - 1
  /\ \A q \in DOMAIN pages :
       /\ pages[q] \in [bytes : [0 .. PageSize - 1 -> 0 .. FileSize], write : BOOLEAN, user : BOOLEAN]
       /\ Above(q) \subseteq DOMAIN tables
  /\ tables \in [DOMAIN tables -> Flags]

\* The segments of the image, and the pages that each is on
Loaded == {i \in DOMAIN read : read[i].load /\ read[i].memsz > 0}
On(i) == PageOf(read[i].vaddr) .. PageOf(read[i].vaddr + read[i].memsz - 1)
ImagePages == UNION {On(i) : i \in Loaded}

\* The last segment at an address says what is there.
ByteAt(a) ==
  LET here == {i \in Loaded : read[i].vaddr <= a /\ a < read[i].vaddr + read[i].memsz}
  IN  IF here = {} THEN 0
      ELSE LET i == CHOOSE i \in here : \A j \in here : j <= i
           IN IF a < read[i].vaddr + read[i].filesz THEN read[i].offset + (a - read[i].vaddr) + 1
                                                     ELSE 0

\* A program finds its file in memory, and zeros around it, wherever segments begin and end
\* in a page, whatever pages they share and whichever overwrites the other.
ImageIsFile ==
  pc = "ready" =>
    \A q \in ImagePages : \A k \in 0 .. PageSize - 1 :
      q \in DOMAIN pages /\ pages[q].bytes[k] = ByteAt((q * PageSize) + k)

\* What the processor allows a program: the entry and the tables above it have to agree.
MayRead(q) == q \in DOMAIN pages /\ pages[q].user /\ \A r \in Above(q) : tables[r].user
MayWrite(q) == MayRead(q) /\ pages[q].write /\ \A r \in Above(q) : tables[r].write

\* A table can be written through if one of the pages below it has been mapped for a
\* writable segment, or if it is newer than the image, or if the stack is below it too.
\* ensure_user_page_mapping does not change it for a page that an earlier segment is on, nor
\* alloc_uvm for the heap: a new table of pages does not help where a read-only segment has
\* made the tables above it.
Writable(i) == read[i].write
FirstOn(q) == CHOOSE i \in Loaded : q \in On(i) /\ \A j \in Loaded : q \in On(j) => i <= j
Allows(r) ==
  LET here == {q \in ImagePages : r \in Above(q)}
  IN  here = {} \/ r \in Above(GuardPage) \/ \E q \in here : Writable(FirstOn(q))
TablesAllow(q) == \A r \in Above(q) : Allows(r)

\* All of the image can be read, and what a writable segment is on can be written, and nothing
\* else; all this wherever the tables allow it, which they do if no read-only segment
\* shares a page with the writable one, as in the linker scripts of the programs.
Rights ==
  pc = "ready" =>
    \A q \in ImagePages :
      /\ MayRead(q)
      /\ MayWrite(q) <=> (\E i \in Loaded : q \in On(i) /\ Writable(i)) /\ TablesAllow(q)
      /\ (\A i \in Loaded : q \in On(i) => Writable(i)) => MayWrite(q)

\* Below the stack, which a program can write, is a page that it cannot touch, whatever
\* the image and however the heap has grown.
StackGuarded ==
  pc = "ready" => /\ \A q \in StackStart .. NPAGE - 1 : MayWrite(q)
                  /\ GuardPage \in DOMAIN pages /\ ~MayRead(GuardPage)

ImageInv == TypeOK /\ Rights /\ StackGuarded

\* The heap starts above the image, so that nothing is in the way of an sbrk up to the guard
\* page; it has no holes, and the program can read it, and write it just where the tables on
\* all levels allow it: where only read-only segments have made them, sbrk succeeds and the
\* first write to the heap is a page fault (walk_pagetable, va.rs:97-149).
HeapIsOpen ==
  pc = "ready" =>
    /\ HeapPage <= GuardPage /\ ImagePages \cap (HeapPage .. GuardPage) = {}
    /\ \A q \in DOMAIN pages \ (ImagePages \cup (GuardPage .. NPAGE - 1)) :
         /\ MayRead(q) /\ (MayWrite(q) <=> TablesAllow(q)) /\ pages[q].bytes = Zeros
         /\ HeapPage .. q \subseteq DOMAIN pages
=============================================================================
