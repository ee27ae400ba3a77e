--------------------------- MODULE ExecImageProofs ---------------------------
(***************************************************************************)
(* Proofs about ExecImage, for pages, address spaces, files and program    *)
(* headers of any size and number: what the loader leaves in memory, which *)
(* pages a program may touch, and where its heap can grow.                 *)
(***************************************************************************)
EXTENDS ExecImage, WellFoundedInduction, TLAPS

-----------------------------------------------------------------------------
(* The inductive invariant                                                 *)

Busy == pc \in {"map", "zero", "copy"}
UserAddress == 0 .. (NPAGE * PageSize) - 1
Byte(a) == pages[PageOf(a)].bytes[a % PageSize]

\* A segment has an address; what it has there
Covers(i, a) == read[i].vaddr <= a /\ a < read[i].vaddr + read[i].memsz
Content(i, a) ==
  IF a < read[i].vaddr + read[i].filesz THEN read[i].offset + (a - read[i].vaddr) + 1 ELSE 0

\* The first m segments say that b is at a.
Says(m, a, b) ==
  \/ b = 0 /\ \A i \in Loaded : i <= m => ~Covers(i, a)
  \/ \E i \in Loaded : /\ i <= m /\ Covers(i, a) /\ b = Content(i, a)
                       /\ \A j \in Loaded : j <= m /\ Covers(j, a) => j <= i

\* No header that is loaded was rejected, and the end of the image is the last one's.
GoodHeaders ==
  /\ \A i \in Loaded : read[i].memsz >= read[i].filesz /\ read[i].offset + read[i].filesz <= FileSize
  /\ Busy => Len(read) \in Loaded
  /\ \A i \in Loaded : read[i].vaddr + read[i].memsz <= end
  /\ end = 0 \/ \E i \in Loaded : end = read[i].vaddr + read[i].memsz

\* The pages that have been mapped for a segment
Mapped(i, q) == q \in On(i) /\ (pc = "map" /\ i = Len(read) => q < next)
MappedPages ==
  /\ \A i \in Loaded : \A q \in On(i) : Mapped(i, q) => q \in DOMAIN pages
  /\ \A q \in DOMAIN pages :
       \/ \E i \in Loaded : Mapped(i, q)
       \/ pc = "stack" /\ q \in GuardPage .. next - 1
       \/ pc = "ready" /\ (q >= GuardPage \/ (q >= HeapPage /\ HeapPage .. q \subseteq DOMAIN pages))
  /\ pc = "map" => next \in PageOf(Segment.vaddr) .. LastPage + 1
  /\ pc = "stack" => /\ next \in GuardPage .. NPAGE /\ GuardPage .. next - 1 \subseteq DOMAIN pages
                     /\ \A q \in ImagePages : q \notin GuardPage .. next - 1
  /\ pc = "ready" => /\ GuardPage .. NPAGE - 1 \subseteq DOMAIN pages
                     /\ \A q \in ImagePages : q < GuardPage

Entries ==
  \A q \in DOMAIN pages :
    LET image == \E i \in Loaded : Mapped(i, q)
    IN  /\ image => /\ pages[q].user
                    /\ pages[q].write = (\E i \in Loaded : Mapped(i, q) /\ Writable(i))
        /\ ~image => /\ pages[q].user = (q # GuardPage) /\ pages[q].write
                     /\ pages[q].bytes = Zeros

Opener(i, q) == i \in Loaded /\ Mapped(i, q) /\ \A j \in Loaded : q \in On(j) => i <= j
Tables ==
  \A r \in DOMAIN tables :
    /\ pc # "ready" => \E q \in DOMAIN pages : r \in Above(q)
    /\ tables[r].user \/ (pc = "stack" /\ r \in Above(GuardPage) /\ next = GuardPage + 1)
    /\ tables[r].write =
         \/ \E q \in ImagePages : r \in Above(q) /\ \E i \in Loaded : Opener(i, q) /\ Writable(i)
         \/ r \in Above(GuardPage) /\ (pc = "ready" \/ (pc = "stack" /\ next > GuardPage))
         \/ pc = "ready" /\ \A q \in ImagePages : r \notin Above(q)

Bytes ==
  \A a \in UserAddress : PageOf(a) \in DOMAIN pages =>
    CASE pc = "map" -> Says(Len(read) - 1, a, Byte(a))
      [] pc = "zero" -> IF Covers(Len(read), a) /\ a < Address THEN Byte(a) = 0
                        ELSE Says(Len(read) - 1, a, Byte(a))
      [] pc = "copy" -> IF ~Covers(Len(read), a) THEN Says(Len(read) - 1, a, Byte(a))
                        ELSE Byte(a) = IF a < Address THEN Content(Len(read), a) ELSE 0
      [] OTHER -> Says(Len(read), a, Byte(a))

Sound == GoodHeaders /\ MappedPages /\ Entries /\ Tables /\ Bytes
IInv == TypeOK /\ (pc # "failed" => Sound)

-----------------------------------------------------------------------------
(* Pages                                                                   *)

Page == 0 .. NPAGE - 1
InPage == 0 .. PageSize - 1

LEMMA Sizes ==
  /\ PageSize \in Nat \ {0} /\ TableSpan \in Nat \ {0} /\ NPAGE \in Nat \ {0}
  /\ StackPages \in Nat \ {0} /\ FileSize \in Nat /\ GuardPage \in Page
BY ImageAssumption DEF GuardPage, Page

\* An address is a page and an offset in it, in one way.
LEMMA Split ==
  ASSUME NEW a \in Nat
  PROVE  /\ PageOf(a) \in Nat /\ a % PageSize \in InPage
         /\ a = PageSize * PageOf(a) + (a % PageSize)
BY Sizes DEF PageOf, InPage

LEMMA SplitOnce ==
  ASSUME NEW d \in Nat \ {0}, NEW q \in Int, NEW r \in Int, NEW m \in 0 .. d - 1, NEW n \in 0 .. d - 1,
         d * q + m = d * r + n
  PROVE  q = r /\ m = n
<1>1. d * (q - r) = n - m
  OBVIOUS
<1>2. CASE q - r >= 1
  <2>1. d * (q - r) >= d
    BY <1>2
  <2>2. QED
    BY <1>1, <2>1
<1>3. CASE q - r <= -1
  <2>1. d * (q - r) <= -d
    BY <1>3
  <2>2. QED
    BY <1>1, <2>1
<1>4. q = r
  BY <1>2, <1>3
<1>5. QED
  BY <1>1, <1>4

LEMMA Joined ==
  ASSUME NEW q \in Nat, NEW k \in InPage
  PROVE  PageOf((q * PageSize) + k) = q /\ ((q * PageSize) + k) % PageSize = k
<1> DEFINE a == (q * PageSize) + k
           r == PageOf(a)
           m == a % PageSize
<1>1. a \in Nat
  BY Sizes DEF InPage
<1>2. r \in Nat /\ m \in InPage /\ a = PageSize * r + m
  BY <1>1, Split
<1>3. a = PageSize * q + k
  BY Sizes DEF InPage
<1> HIDE DEF a, r, m
<1>4. PageSize * q + k = PageSize * r + m /\ q \in Int /\ r \in Int
      /\ k \in 0 .. PageSize - 1 /\ m \in 0 .. PageSize - 1
  BY <1>2, <1>3 DEF InPage
<1>5. q = r /\ k = m
  BY <1>4, SplitOnce, Sizes
<1>6. QED
  BY <1>5 DEF a, r, m

LEMMA PageOrder ==
  ASSUME NEW a \in Nat, NEW b \in Nat, a <= b
  PROVE  PageOf(a) <= PageOf(b)
<1> DEFINE q == PageOf(a)
           r == PageOf(b)
           m == a % PageSize
           n == b % PageSize
<1>1. q \in Nat /\ r \in Nat /\ m \in InPage /\ n \in InPage
  BY Split
<1>2. a = PageSize * q + m /\ b = PageSize * r + n
  BY Split
<1> HIDE DEF q, r, m, n
<1>3. SUFFICES ASSUME r + 1 <= q PROVE FALSE
  BY <1>1 DEF q, r
<1>4. PageSize * (r + 1) <= PageSize * q /\ PageSize * (r + 1) = PageSize * r + PageSize
  BY <1>1, <1>3, Sizes
<1>5. QED
  BY <1>1, <1>2, <1>4, Sizes DEF InPage

\* An address below the start of a page is in an earlier page.
LEMMA PageBelow ==
  ASSUME NEW a \in Nat, NEW q \in Nat
  PROVE  a < q * PageSize <=> PageOf(a) < q
<1> DEFINE r == PageOf(a)
           m == a % PageSize
<1>1. r \in Nat /\ m \in InPage /\ a = PageSize * r + m
  BY Split
<1> HIDE DEF r, m
<1>2. CASE r < q
  <2>1. PageSize * (r + 1) <= PageSize * q /\ PageSize * (r + 1) = PageSize * r + PageSize
    BY <1>1, <1>2, Sizes
  <2>2. q * PageSize = PageSize * q /\ PageSize * q \in Int /\ PageSize * r \in Int
    BY <1>1, Sizes
  <2>3. QED
    BY <1>1, <1>2, <2>1, <2>2, Sizes DEF InPage, r
<1>3. CASE ~(r < q)
  <2>1. PageSize * q <= PageSize * r
    BY <1>1, <1>3, Sizes
  <2>2. q * PageSize = PageSize * q /\ PageSize * q \in Int /\ PageSize * r \in Int
    BY <1>1, Sizes
  <2>3. QED
    BY <1>1, <1>3, <2>1, <2>2, Sizes DEF InPage, r
<1>4. QED
  BY <1>2, <1>3

LEMMA PageOfAddress ==
  ASSUME NEW a \in UserAddress
  PROVE  a \in Nat /\ PageOf(a) \in Page /\ a % PageSize \in InPage
<1>1. a \in Nat /\ a < NPAGE * PageSize
  BY Sizes DEF UserAddress
<1>2. PageOf(a) < NPAGE
  BY <1>1, PageBelow, Sizes
<1>3. PageOf(a) \in Nat /\ a % PageSize \in InPage
  BY <1>1, Split
<1>4. QED
  BY <1>1, <1>2, <1>3, Sizes DEF Page

LEMMA AddressOf ==
  ASSUME NEW q \in Page, NEW k \in InPage
  PROVE  (q * PageSize) + k \in UserAddress
<1> DEFINE a == (q * PageSize) + k
<1>1. a \in Nat /\ q \in Nat /\ q < NPAGE
  BY Sizes DEF InPage, Page
<1>2. PageOf(a) = q
  BY <1>1, Joined
<1>3. a < NPAGE * PageSize
  BY <1>1, <1>2, PageBelow, Sizes
<1> HIDE DEF a
<1>4. NPAGE * PageSize \in Int
  BY Sizes
<1>5. a \in UserAddress
  BY <1>1, <1>3, <1>4 DEF UserAddress
<1>6. QED
  BY <1>5 DEF a

\* An address a little above another, and its page
LEMMA WithinPage ==
  ASSUME NEW a \in Nat, NEW b \in Nat, NEW t \in Nat, t <= PageSize - (a % PageSize)
  PROVE  (a <= b /\ b < a + t) <=>
           (PageOf(b) = PageOf(a) /\ (b % PageSize) - (a % PageSize) \in 0 .. t - 1
              /\ (b % PageSize) - (a % PageSize) = b - a)
<1> DEFINE q == PageOf(a)
           m == a % PageSize
           r == PageOf(b)
           n == b % PageSize
<1>1. q \in Nat /\ r \in Nat /\ m \in InPage /\ n \in InPage
  BY Split
<1>2. a = PageSize * q + m /\ b = PageSize * r + n
  BY Split
<1>3. t <= PageSize - m
  OBVIOUS
<1> HIDE DEF q, m, r, n
<1>4. ASSUME a <= b, b < a + t PROVE r = q
  <2> DEFINE k == m + (b - a)
  <2>1. k \in 0 .. PageSize - 1 /\ b = PageSize * q + k /\ PageSize * q + k = PageSize * r + n
    BY <1>1, <1>2, <1>3, <1>4, Sizes DEF InPage
  <2> HIDE DEF k
  <2>2. QED
    BY <1>1, <2>1, SplitOnce, Sizes DEF InPage
<1>5. ASSUME r = q PROVE n - m = b - a
  <2>1. PageSize * q \in Int
    BY <1>1, Sizes
  <2>2. QED
    BY <1>1, <1>2, <1>5, <2>1 DEF InPage
<1>6. QED
  BY <1>1, <1>4, <1>5 DEF q, m, r, n, InPage

-----------------------------------------------------------------------------
(* Segments                                                                *)

LEMMA HeaderType ==
  ASSUME NEW h \in Headers
  PROVE  /\ h.load \in BOOLEAN /\ h.write \in BOOLEAN
         /\ h.vaddr \in Nat /\ h.offset \in Nat /\ h.filesz \in Nat /\ h.memsz \in Nat
         /\ h.vaddr + h.memsz <= NPAGE * PageSize
BY ImageAssumption DEF Header

LEMMA SegmentType ==
  ASSUME TypeOK, NEW i \in Loaded
  PROVE  /\ i \in 1 .. Len(read) /\ read[i] \in Headers /\ Len(read) \in Nat
         /\ read[i].vaddr \in Nat /\ read[i].offset \in Nat
         /\ read[i].filesz \in Nat /\ read[i].memsz \in Nat \ {0} /\ read[i].write \in BOOLEAN
         /\ read[i].vaddr + read[i].memsz <= NPAGE * PageSize
<1>1. read \in Seq(Headers) /\ i \in DOMAIN read /\ read[i].memsz > 0
  BY DEF TypeOK, Loaded
<1>2. i \in 1 .. Len(read) /\ read[i] \in Headers /\ Len(read) \in Nat
  BY <1>1
<1>3. QED
  BY <1>1, <1>2, HeaderType

\* The pages of a segment are in user space, its addresses in its pages.
LEMMA SegmentPages ==
  ASSUME TypeOK, NEW i \in Loaded
  PROVE  /\ PageOf(read[i].vaddr) \in Page /\ PageOf(read[i].vaddr + read[i].memsz - 1) \in Page
         /\ PageOf(read[i].vaddr) <= PageOf(read[i].vaddr + read[i].memsz - 1)
         /\ On(i) \subseteq Page
         /\ \A a \in Nat : Covers(i, a) => PageOf(a) \in On(i)
<1> DEFINE v == read[i].vaddr
           m == read[i].memsz
<1>1. v \in Nat /\ m \in Nat \ {0} /\ v + m <= NPAGE * PageSize /\ NPAGE * PageSize \in Nat
  BY SegmentType, Sizes
<1> HIDE DEF v, m
<1>2. v \in UserAddress /\ v + m - 1 \in UserAddress /\ v <= v + m - 1
  BY <1>1 DEF UserAddress
<1>3. PageOf(v) \in Page /\ PageOf(v + m - 1) \in Page
  BY <1>2, PageOfAddress
<1>4. ASSUME NEW a \in Nat, v <= a, a < v + m
      PROVE  PageOf(a) \in PageOf(v) .. PageOf(v + m - 1)
  <2>1. a <= v + m - 1 /\ v + m - 1 \in Nat
    BY <1>1, <1>4
  <2>2. PageOf(v) <= PageOf(a) /\ PageOf(a) <= PageOf(v + m - 1)
    BY <1>1, <1>4, <2>1, PageOrder
  <2>3. PageOf(a) \in Nat
    BY Split
  <2>4. QED
    BY <1>3, <2>2, <2>3 DEF Page
<1>5. PageOf(v) <= PageOf(v + m - 1)
  BY <1>1, <1>2, PageOrder
<1>6. On(i) = PageOf(v) .. PageOf(v + m - 1) /\ \A a : Covers(i, a) <=> v <= a /\ a < v + m
  BY DEF On, Covers, v, m
<1>7. On(i) \subseteq Page
  BY <1>3, <1>6, Sizes DEF Page
<1>8. QED
  BY <1>3, <1>4, <1>5, <1>6, <1>7 DEF v, m

LEMMA ImagePagesIn == TypeOK => ImagePages \subseteq Page
BY SegmentPages DEF ImagePages

\* What depends on the headers read does not change while they do not.
LEMMA SameHeaders ==
  ASSUME UNCHANGED read
  PROVE  /\ Loaded' = Loaded /\ ImagePages' = ImagePages /\ Segment' = Segment /\ LastPage' = LastPage
         /\ \A i : On(i)' = On(i)
         /\ \A i, a : Covers(i, a)' = Covers(i, a) /\ Content(i, a)' = Content(i, a)
         /\ \A i : Writable(i)' = Writable(i)
         /\ \A m, a, b : Says(m, a, b)' <=> Says(m, a, b)
<1>1. Loaded' = Loaded
  BY DEF Loaded
<1>2. \A i : On(i)' = On(i) /\ Writable(i)' = Writable(i)
  BY DEF On, Writable
<1>3. \A i, a : Covers(i, a)' = Covers(i, a) /\ Content(i, a)' = Content(i, a)
  BY DEF Covers, Content
<1>4. ImagePages' = ImagePages /\ Segment' = Segment /\ LastPage' = LastPage
  BY <1>1, <1>2 DEF ImagePages, Segment, LastPage
<1>5. \A m, a, b : Says(m, a, b)' <=> Says(m, a, b)
  BY DEF Says, Loaded, Covers, Content
<1>6. QED
  BY <1>1, <1>2, <1>3, <1>4, <1>5

\* A header more: is it a segment, and what the others say is the same.
LEMMA OneHeaderMore ==
  ASSUME TypeOK, NEW h \in Headers, read' = Append(read, h)
  PROVE  /\ Len(read') = Len(read) + 1 /\ Segment' = h /\ Len(read) \in Nat
         /\ read' \in Seq(Headers) /\ read' # <<>>
         /\ Loaded' = Loaded \cup (IF h.load /\ h.memsz > 0 THEN {Len(read) + 1} ELSE {})
         /\ Len(read) + 1 \notin Loaded /\ read'[Len(read) + 1] = h
         /\ \A i \in Loaded : /\ read'[i] = read[i] /\ On(i)' = On(i) /\ Writable(i)' = Writable(i)
                              /\ i \in Nat /\ i <= Len(read)
         /\ \A i \in Loaded : \A a : Covers(i, a)' = Covers(i, a) /\ Content(i, a)' = Content(i, a)
         /\ \A m, a, b : m = Len(read) /\ Says(m, a, b) => Says(m, a, b)'
         /\ ~(h.load /\ h.memsz > 0) =>
              \A m, a, b : m = Len(read) /\ Says(m, a, b) => Says(m + 1, a, b)'
<1> DEFINE n == Len(read)
<1>1. /\ read \in Seq(Headers) /\ n \in Nat /\ read' \in Seq(Headers) /\ Len(read') = n + 1
      /\ DOMAIN read' = 1 .. n + 1 /\ DOMAIN read = 1 .. n
      /\ read'[n + 1] = h /\ \A i \in 1 .. n : read'[i] = read[i]
  BY DEF TypeOK
<1> HIDE DEF n
<1>2. \A i \in Loaded : i \in 1 .. n
  BY <1>1 DEF Loaded
<1>3. Loaded' = Loaded \cup (IF h.load /\ h.memsz > 0 THEN {n + 1} ELSE {})
  <2>1. \A i : i \in 1 .. n + 1 <=> i \in 1 .. n \/ i = n + 1
    BY <1>1
  <2>2. \A i : i \in Loaded' <=> i \in Loaded \/ (i = n + 1 /\ h.load /\ h.memsz > 0)
    BY <1>1, <2>1 DEF Loaded
  <2>3. QED
    BY <2>2
<1>4. \A i \in Loaded : /\ read'[i] = read[i] /\ On(i)' = On(i) /\ Writable(i)' = Writable(i)
                        /\ i \in Nat /\ i <= n
  BY <1>1, <1>2 DEF On, Writable
<1>5. \A i \in Loaded : \A a : Covers(i, a)' = Covers(i, a) /\ Content(i, a)' = Content(i, a)
  BY <1>4 DEF Covers, Content
<1>6. ASSUME NEW m, NEW a, NEW b, m = n, Says(m, a, b) PROVE Says(m, a, b)'
  <2>1. ~(n + 1 <= m)
    BY <1>1, <1>6
  <2>2. \A j \in Loaded' : j <= m => j \in Loaded
    BY <1>3, <2>1
  <2>3. CASE b = 0 /\ \A i \in Loaded : i <= m => ~Covers(i, a)
    <3>1. \A i \in Loaded' : i <= m => ~(Covers(i, a)')
      BY <1>5, <2>2, <2>3
    <3>2. QED
      BY <1>1, <2>3, <3>1 DEF Says
  <2>4. CASE \E i \in Loaded : /\ i <= m /\ Covers(i, a) /\ b = Content(i, a)
                               /\ \A j \in Loaded : j <= m /\ Covers(j, a) => j <= i
    <3>1. PICK i \in Loaded : /\ i <= m /\ Covers(i, a) /\ b = Content(i, a)
                              /\ \A j \in Loaded : j <= m /\ Covers(j, a) => j <= i
      BY <2>4
    <3>2. i \in Loaded' /\ i <= m /\ Covers(i, a)' /\ b = Content(i, a)'
      BY <1>3, <1>5, <3>1
    <3>3. \A j \in Loaded' : j <= m /\ Covers(j, a)' => j <= i
      BY <1>5, <2>2, <3>1
    <3>4. QED
      BY <3>2, <3>3 DEF Says
  <2>5. QED
    BY <1>6, <2>3, <2>4 DEF Says
<1>7. n + 1 \notin Loaded
  BY <1>1, <1>2
<1>10. ASSUME ~(h.load /\ h.memsz > 0), NEW m, NEW a, NEW b, m = n, Says(m, a, b)
       PROVE  Says(m + 1, a, b)'
  <2>1. Says(m, a, b)'
    BY <1>6, <1>10
  <2>2. \A i \in Loaded' : i <= m /\ i <= m + 1
    BY <1>1, <1>2, <1>3, <1>10
  <2>3. QED
    BY <2>1, <2>2 DEF Says
<1>8. read' # <<>> /\ Segment' = h
  BY <1>1 DEF Segment
<1>11. QED
  BY <1>1, <1>3, <1>4, <1>5, <1>6, <1>7, <1>8, <1>10 DEF n

-----------------------------------------------------------------------------
(* Memory                                                                  *)

PageEntry == [bytes : [0 .. PageSize - 1 -> 0 .. FileSize], write : BOOLEAN, user : BOOLEAN]
MemoryOK ==
  /\ DOMAIN pages \subseteq Page
  /\ \A q \in DOMAIN pages : pages[q] \in PageEntry /\ Above(q) \subseteq DOMAIN tables
  /\ tables \in [DOMAIN tables -> Flags]

LEMMA TypeParts ==
  TypeOK <=> /\ pc \in {"headers", "map", "zero", "copy", "stack", "ready", "failed"}
             /\ read \in Seq(Headers) /\ (Busy => read # <<>>)
             /\ next \in 0 .. NPAGE /\ done \in Nat /\ end \in 0 .. NPAGE * PageSize
             /\ MemoryOK
BY DEF TypeOK, MemoryOK, Page, PageEntry, Busy

LEMMA EntryType ==
  ASSUME NEW w \in BOOLEAN, NEW u \in BOOLEAN
  PROVE  /\ Entry(w, u) \in PageEntry /\ Entry(w, u).write = w /\ Entry(w, u).user = u
         /\ Entry(w, u).bytes = Zeros /\ \A k \in InPage : Zeros[k] = 0
<1>1. 0 \in 0 .. FileSize
  BY Sizes
<1>2. Zeros \in [0 .. PageSize - 1 -> 0 .. FileSize]
  BY <1>1 DEF Zeros
<1>3. QED
  BY <1>2 DEF Entry, PageEntry, Zeros, InPage

\* map_page: a page more, and its tables
LEMMA MapToIs ==
  ASSUME MemoryOK, NEW p \in Page, NEW w \in BOOLEAN, NEW u \in BOOLEAN, MapTo(p, w, u),
         p \notin DOMAIN pages
  PROVE  /\ MemoryOK'
         /\ DOMAIN pages' = DOMAIN pages \cup {p} /\ pages'[p] = Entry(w, u)
         /\ \A q \in DOMAIN pages : pages'[q] = pages[q]
         /\ DOMAIN tables' = DOMAIN tables \cup Above(p)
         /\ \A r \in DOMAIN tables : r \notin Above(p) => tables'[r] = tables[r]
         /\ \A r \in Above(p) :
              /\ tables'[r].write = ((r \in DOMAIN tables /\ tables[r].write) \/ w)
              /\ tables'[r].user = ((r \in DOMAIN tables /\ tables[r].user) \/ u)
<1> DEFINE T == Above(p)
           Old(r) == IF r \in DOMAIN tables THEN tables[r] ELSE [write |-> FALSE, user |-> FALSE]
           Raised(r) == [write |-> Old(r).write \/ w, user |-> Old(r).user \/ u]
<1>1. /\ pages' = With(pages, {p}, Entry(w, u))
      /\ tables' = [r \in DOMAIN tables \cup T |-> IF r \in T THEN Raised(r) ELSE tables[r]]
  BY DEF MapTo
<1>2. \A r : Old(r) \in Flags
  BY DEF MemoryOK, Flags
<1>3. \A r : /\ Raised(r) \in Flags
             /\ Raised(r).write = (Old(r).write \/ w) /\ Raised(r).user = (Old(r).user \/ u)
  BY <1>2 DEF Flags
<1>4. \A r : /\ Old(r).write = (r \in DOMAIN tables /\ tables[r].write)
             /\ Old(r).user = (r \in DOMAIN tables /\ tables[r].user)
  BY <1>2 DEF MemoryOK, Flags
<1> HIDE DEF Raised, Old
<1>5. /\ DOMAIN pages' = DOMAIN pages \cup {p} /\ pages'[p] = Entry(w, u)
      /\ \A q \in DOMAIN pages : q # p => pages'[q] = pages[q]
  BY <1>1 DEF With
<1> HIDE DEF T
<1>6. /\ DOMAIN tables' = DOMAIN tables \cup T /\ \A r \in T : tables'[r] = Raised(r)
      /\ \A r \in DOMAIN tables : r \notin T => tables'[r] = tables[r]
  BY <1>1
<1>7. MemoryOK'
  <2>1. DOMAIN pages' \subseteq Page
    BY <1>5 DEF MemoryOK
  <2>2. \A q \in DOMAIN pages' : pages'[q] \in PageEntry /\ Above(q) \subseteq DOMAIN tables'
    BY <1>5, <1>6, EntryType DEF MemoryOK, T
  <2>3. \A r \in DOMAIN tables' : tables'[r] \in Flags
    BY <1>3, <1>6 DEF MemoryOK
  <2>4. tables' \in [DOMAIN tables' -> Flags]
    BY <1>1, <2>3
  <2>5. QED
    BY <2>1, <2>2, <2>4 DEF MemoryOK
<1>8. \A q \in DOMAIN pages : pages'[q] = pages[q]
  BY <1>5
<1>9. \A r \in T : /\ tables'[r].write = ((r \in DOMAIN tables /\ tables[r].write) \/ w)
                   /\ tables'[r].user = ((r \in DOMAIN tables /\ tables[r].user) \/ u)
  BY <1>3, <1>4, <1>6
<1>10. QED
  BY <1>5, <1>6, <1>7, <1>8, <1>9 DEF T

\* A turn of zero_user_range or of copy_to_user_pagetable changes these bytes only.
LEMMA StoreIs ==
  ASSUME MemoryOK, UNCHANGED tables, Address \in Nat, NEW t \in Nat, t <= PageSize - (Address % PageSize),
         NEW bytes, bytes \in [0 .. t - 1 -> 0 .. FileSize], Store(bytes)
  PROVE  /\ MemoryOK' /\ DOMAIN pages' = DOMAIN pages
         /\ \A q \in DOMAIN pages : pages'[q].write = pages[q].write /\ pages'[q].user = pages[q].user
         /\ \A a \in Nat : PageOf(a) \in DOMAIN pages =>
              Byte(a)' = IF Address <= a /\ a < Address + t THEN bytes[a - Address] ELSE Byte(a)
<1> DEFINE p == PageOf(Address)
           first == Address % PageSize
           At(k) == IF k - first \in 0 .. t - 1 THEN bytes[k - first] ELSE pages[p].bytes[k]
           new == [k \in 0 .. PageSize - 1 |-> At(k)]
<1>1. p \in DOMAIN pages /\ pages' = [pages EXCEPT ![p].bytes = new]
  BY DEF Store
<1>2. new \in [0 .. PageSize - 1 -> 0 .. FileSize]
  <2>1. pages[p].bytes \in [0 .. PageSize - 1 -> 0 .. FileSize]
    BY <1>1 DEF MemoryOK, PageEntry
  <2>2. \A k \in 0 .. PageSize - 1 : At(k) \in 0 .. FileSize
    <3> HIDE DEF p, first
    <3> QED  BY <2>1
  <2> HIDE DEF At
  <2>3. QED
    BY <2>2
<1>3. \A k \in InPage : new[k] = At(k)
  BY DEF InPage
<1> HIDE DEF p, new
<1>4. /\ DOMAIN pages' = DOMAIN pages
      /\ \A q \in DOMAIN pages : q # p => pages'[q] = pages[q]
      /\ pages'[p].bytes = new /\ pages'[p].write = pages[p].write /\ pages'[p].user = pages[p].user
      /\ pages'[p] \in PageEntry
  BY <1>1, <1>2 DEF MemoryOK, PageEntry
<1>5. MemoryOK'
  BY <1>4 DEF MemoryOK
<1>6. ASSUME NEW a \in Nat, PageOf(a) \in DOMAIN pages
      PROVE  Byte(a)' = IF Address <= a /\ a < Address + t THEN bytes[a - Address] ELSE Byte(a)
  <2>1. (Address <= a /\ a < Address + t) <=>
           (PageOf(a) = p /\ (a % PageSize) - first \in 0 .. t - 1 /\ (a % PageSize) - first = a - Address)
    BY WithinPage DEF p
  <2>2. Byte(a)' = pages'[PageOf(a)].bytes[a % PageSize] /\ Byte(a) = pages[PageOf(a)].bytes[a % PageSize]
    BY DEF Byte
  <2>3. a % PageSize \in InPage
    BY Split
  <2>4. CASE PageOf(a) # p
    BY <1>4, <1>6, <2>1, <2>2, <2>4
  <2>5. CASE PageOf(a) = p
    <3>1. Byte(a)' = At(a % PageSize)
      BY <1>3, <1>4, <2>2, <2>3, <2>5
    <3>2. CASE (a % PageSize) - first \in 0 .. t - 1
      <4>1. (a % PageSize) - first = a - Address
        <5>1. Address \in Nat /\ PageOf(a) = PageOf(Address)
          BY <2>5 DEF p
        <5>2. Address = PageSize * PageOf(Address) + first /\ a = PageSize * PageOf(a) + (a % PageSize)
          BY Split
        <5>3. PageSize * PageOf(a) \in Int /\ first \in Int /\ a % PageSize \in Int
          BY Split, Sizes DEF InPage
        <5> DEFINE x == PageSize * PageOf(a)
                   y == a % PageSize
        <5>4. Address = x + first /\ a = x + y /\ x \in Int /\ first \in Int /\ y \in Int
          BY <5>1, <5>2, <5>3
        <5> HIDE DEF x, y, first
        <5>5. y - first = a - Address
          BY <5>4
        <5>6. QED
          BY <5>5 DEF y, first
      <4>2. QED
        BY <2>1, <2>5, <3>1, <3>2, <4>1
    <3>3. CASE ~((a % PageSize) - first \in 0 .. t - 1)
      BY <2>1, <2>2, <2>5, <3>1, <3>3
    <3>4. QED
      BY <3>2, <3>3
  <2>6. QED
    BY <2>4, <2>5
<1>7. QED
  BY <1>4, <1>5, <1>6

LEMMA ToCopyIs ==
  ASSUME Address \in Nat, done \in Nat, NEW size \in Nat, done < size
  PROVE  /\ ToCopy(size) \in Nat /\ ToCopy(size) <= size - done
         /\ ToCopy(size) <= PageSize - (Address % PageSize)
<1> DEFINE room == PageSize - (Address % PageSize)
<1>1. room \in Nat
  BY Split, Sizes DEF InPage
<1> HIDE DEF room
<1>2. ToCopy(size) = IF room < size - done THEN room ELSE size - done
  BY DEF ToCopy, room
<1>3. QED
  BY <1>1, <1>2 DEF room

-----------------------------------------------------------------------------
(* Headers                                                                 *)

\* An image without a page
LEMMA InitInv == Init => IInv
<1> SUFFICES ASSUME Init PROVE IInv
  OBVIOUS
<1>1. /\ read = <<>> /\ Loaded = {} /\ ImagePages = {} /\ DOMAIN pages = {} /\ DOMAIN tables = {}
      /\ pc = "headers" /\ next = 0 /\ done = 0 /\ end = 0
  BY DEF Init, Loaded, ImagePages
<1>2. TypeOK
  <2>1. NPAGE * PageSize \in Nat /\ NPAGE \in Nat
    BY Sizes
  <2>2. tables \in [DOMAIN tables -> Flags]
    BY <1>1 DEF Init
  <2>3. read \in Seq(Headers)
    BY <1>1
  <2>4. QED
    BY <1>1, <2>1, <2>2, <2>3 DEF TypeOK
<1>3. Sound
  BY <1>1 DEF Sound, GoodHeaders, MappedPages, Entries, Tables, Bytes, Busy
<1>4. QED
  BY <1>2, <1>3 DEF IInv

LEMMA BeginInv == Begin => IInv'
<1>1. Begin => Init'
  BY DEF Begin, Init
<1>2. Init' => IInv'
  BY InitInv, PTL
<1>3. QED
  BY <1>1, <1>2

\* Whatever fails leaves pages and tables that are well formed.
LEMMA RejectInv ==
  ASSUME IInv, NEW h \in Headers, RejectHeader(h)
  PROVE  IInv'
<1>1. pc' = "failed" /\ read' = Append(read, h) /\ UNCHANGED <<next, done, end, pages, tables>>
  BY DEF RejectHeader
<1>2. TypeOK
  BY DEF IInv
<1>3. read' \in Seq(Headers)
  BY <1>1, <1>2, OneHeaderMore
<1>4. TypeOK'
  BY <1>1, <1>2, <1>3 DEF TypeOK
<1>5. QED
  BY <1>1, <1>4 DEF IInv

LEMMA TakenInv ==
  ASSUME IInv, StackTaken
  PROVE  IInv'
<1>1. pc' = "failed" /\ UNCHANGED <<read, next, done, end, pages, tables>>
  BY DEF StackTaken
<1>2. TypeOK'
  BY <1>1 DEF IInv, TypeOK
<1>3. QED
  BY <1>1, <1>2 DEF IInv

LEMMA SkipInv ==
  ASSUME IInv, NEW h \in Headers, SkipHeader(h)
  PROVE  IInv'
<1>1. /\ pc = "headers" /\ pc' = "headers" /\ read' = Append(read, h)
      /\ UNCHANGED <<next, done, end, pages, tables>>
      /\ ~(h.load /\ h.memsz > 0)
  BY HeaderType DEF SkipHeader
<1>2. TypeOK /\ Sound
  BY <1>1 DEF IInv
<1>3. /\ Loaded' = Loaded /\ Len(read') = Len(read) + 1 /\ Len(read) \in Nat
      /\ read' \in Seq(Headers)
      /\ \A i \in Loaded : /\ read'[i] = read[i] /\ On(i)' = On(i) /\ Writable(i)' = Writable(i)
                           /\ i \in Nat /\ i <= Len(read)
      /\ \A m, a, b : m = Len(read) /\ Says(m, a, b) => Says(m + 1, a, b)'
  BY <1>1, <1>2, OneHeaderMore
<1>4. TypeOK'
  BY <1>1, <1>2, <1>3 DEF TypeOK
<1>5. GoodHeaders'
  BY <1>1, <1>2, <1>3 DEF Sound, GoodHeaders, Busy
<1>6. ImagePages' = ImagePages
  BY <1>3 DEF ImagePages
<1>7. \A i \in Loaded : \A q : Mapped(i, q)' <=> Mapped(i, q)
  BY <1>1, <1>3 DEF Mapped
<1>8. MappedPages'
  BY <1>1, <1>2, <1>3, <1>7 DEF Sound, MappedPages
<1>9. Entries'
  BY <1>1, <1>2, <1>3, <1>7 DEF Sound, Entries
<1>10. \A i, q : Opener(i, q)' <=> Opener(i, q)
  BY <1>3, <1>7 DEF Opener
<1>11. Tables'
  BY <1>1, <1>2, <1>3, <1>6, <1>10 DEF Sound, Tables
<1>12. Bytes'
  <2>1. \A a : Byte(a)' = Byte(a)
    BY <1>1 DEF Byte
  <2>2. \A a \in UserAddress : PageOf(a) \in DOMAIN pages => Says(Len(read), a, Byte(a))
    BY <1>1, <1>2 DEF Sound, Bytes
  <2>3. ASSUME NEW a \in UserAddress, PageOf(a) \in DOMAIN pages
        PROVE  Says(Len(read), a, Byte(a))'
    <3> DEFINE m == Len(read)
               b == Byte(a)
    <3>1. Says(m, a, b)
      BY <2>2, <2>3
    <3>2. Len(read)' = m + 1 /\ Byte(a)' = b
      BY <1>3, <2>1
    <3>3. PICK k, c : k = m /\ c = b /\ Says(k, a, c)
      BY <3>1
    <3>4. Says(k + 1, a, c)'
      BY <1>3, <3>3
    <3>5. Len(read)' = k + 1 /\ Byte(a)' = c
      BY <3>2, <3>3
    <3>6. QED
      BY <3>4, <3>5 DEF Says
  <2>4. QED
    BY <1>1, <2>3 DEF Bytes
<1>13. QED
  BY <1>4, <1>5, <1>8, <1>9, <1>11, <1>12 DEF IInv, Sound

LEMMA TakeInv ==
  ASSUME IInv, NEW h \in Headers, TakeHeader(h)
  PROVE  IInv'
<1>0. PICK n : n = Len(read)
  OBVIOUS
<1>1. /\ pc = "headers" /\ pc' = "map" /\ read' = Append(read, h)
      /\ end' = Larger(end, h.vaddr + h.memsz) /\ next' = PageOf(h.vaddr)
      /\ UNCHANGED <<done, pages, tables>>
      /\ h.load /\ h.memsz > 0 /\ h.memsz >= h.filesz /\ h.offset + h.filesz <= FileSize
  BY DEF TakeHeader
<1>2. TypeOK /\ Sound
  BY <1>1 DEF IInv
<1>3. /\ Loaded' = Loaded \cup {n + 1} /\ Len(read') = n + 1 /\ n \in Nat
      /\ n + 1 \notin Loaded /\ read'[n + 1] = h /\ Segment' = h
      /\ read' \in Seq(Headers) /\ read' # <<>>
      /\ \A i \in Loaded : /\ read'[i] = read[i] /\ On(i)' = On(i) /\ Writable(i)' = Writable(i)
                           /\ i \in Nat /\ i <= n
      /\ \A m, a, b : m = Len(read) /\ Says(m, a, b) => Says(m, a, b)'
  BY <1>0, <1>1, <1>2, OneHeaderMore
<1>4. /\ h.vaddr \in Nat /\ h.memsz \in Nat \ {0} /\ h.vaddr + h.memsz <= NPAGE * PageSize
      /\ end \in 0 .. NPAGE * PageSize /\ NPAGE * PageSize \in Nat
  <2>1. end \in 0 .. NPAGE * PageSize
    BY <1>2, TypeParts
  <2>2. NPAGE * PageSize \in Nat
    BY Sizes
  <2>3. h.vaddr \in Nat /\ h.memsz \in Nat /\ h.vaddr + h.memsz <= NPAGE * PageSize
    BY HeaderType
  <2>4. h.memsz \in Nat \ {0}
    BY <1>1, <2>3
  <2>5. QED
    BY <2>1, <2>2, <2>3, <2>4
<1>5. /\ end' \in 0 .. NPAGE * PageSize /\ end <= end' /\ h.vaddr + h.memsz <= end'
      /\ end' = end \/ end' = h.vaddr + h.memsz
  BY <1>1, <1>4 DEF Larger
<1> DEFINE first == PageOf(h.vaddr)
           last == PageOf(h.vaddr + h.memsz - 1)
<1>6. first \in Page /\ last \in Page /\ first <= last
  <2>1. h.vaddr \in UserAddress /\ h.vaddr + h.memsz - 1 \in UserAddress
        /\ h.vaddr <= h.vaddr + h.memsz - 1
    BY <1>4 DEF UserAddress
  <2>2. QED
    BY <2>1, PageOfAddress, PageOrder
<1>7. next' = first /\ LastPage' = last /\ PageOf(Segment.vaddr)' = first /\ On(n + 1)' = first .. last
  <2>1. LastPage' = PageOf(Segment'.vaddr + Segment'.memsz - 1) /\ PageOf(Segment.vaddr)' = PageOf(Segment'.vaddr)
    BY DEF LastPage, PageOf
  <2>2. On(n + 1)' = PageOf(read'[n + 1].vaddr) .. PageOf(read'[n + 1].vaddr + read'[n + 1].memsz - 1)
    BY DEF On, PageOf
  <2>3. QED
    BY <1>1, <1>3, <2>1, <2>2
<1> HIDE DEF first, last
<1>8. TypeOK'
  <2>1. next' \in 0 .. NPAGE
    BY <1>6, <1>7, Sizes DEF Page
  <2>2. QED
    BY <1>1, <1>2, <1>3, <1>5, <2>1 DEF TypeOK
<1>9. GoodHeaders'
  <2>1. \A i \in Loaded : /\ read[i].memsz >= read[i].filesz
                          /\ read[i].offset + read[i].filesz <= FileSize
                          /\ read[i].vaddr + read[i].memsz <= end
    BY <1>2 DEF Sound, GoodHeaders
  <2>2. \A i \in Loaded : read[i].vaddr + read[i].memsz <= end'
    <3>1. TAKE i \in Loaded
    <3>2. read[i].vaddr \in Nat /\ read[i].memsz \in Nat
      BY <1>2, SegmentType
    <3>3. QED
      BY <1>4, <1>5, <2>1, <3>2
  <2>3. end' = 0 \/ \E i \in Loaded' : end' = read'[i].vaddr + read'[i].memsz
    BY <1>2, <1>3, <1>5 DEF Sound, GoodHeaders
  <2>4. \A i \in Loaded' : /\ read'[i].memsz >= read'[i].filesz
                           /\ read'[i].offset + read'[i].filesz <= FileSize
                           /\ read'[i].vaddr + read'[i].memsz <= end'
    BY <1>1, <1>3, <1>5, <2>1, <2>2
  <2>5. Len(read') \in Loaded'
    BY <1>3
  <2>6. QED
    BY <2>3, <2>4, <2>5 DEF GoodHeaders
<1>10. /\ \A i \in Loaded : \A q : Mapped(i, q)' <=> Mapped(i, q)
       /\ \A q : ~(Mapped(n + 1, q)')
  <2>1. \A i \in Loaded : i # n + 1
    BY <1>3
  <2>2. \A q \in first .. last : ~(q < first)
    BY <1>6 DEF Page
  <2>3. QED
    BY <1>1, <1>3, <1>7, <2>1, <2>2 DEF Mapped
<1>11. \A q : (\E i \in Loaded' : Mapped(i, q)') <=> \E i \in Loaded : Mapped(i, q)
  BY <1>3, <1>10
<1>12. MappedPages'
  <2>1. /\ \A i \in Loaded : \A q \in On(i) : Mapped(i, q) => q \in DOMAIN pages
        /\ \A q \in DOMAIN pages : \E i \in Loaded : Mapped(i, q)
    BY <1>1, <1>2 DEF Sound, MappedPages
  <2>2. \A i \in Loaded' : \A q \in On(i)' : Mapped(i, q)' => q \in DOMAIN pages'
    BY <1>1, <1>3, <1>10, <2>1
  <2>3. \A q \in DOMAIN pages' : \E i \in Loaded' : Mapped(i, q)'
    BY <1>1, <1>11, <2>1
  <2>4. next' \in first .. last + 1
    BY <1>6, <1>7 DEF Page
  <2>5. next' \in PageOf(Segment.vaddr)' .. LastPage' + 1
    BY <1>7, <2>4
  <2>6. QED
    BY <1>1, <2>2, <2>3, <2>5 DEF MappedPages
<1>13. Entries'
  <2>1. \A q : (\E i \in Loaded' : Mapped(i, q)' /\ Writable(i)')
                  <=> \E i \in Loaded : Mapped(i, q) /\ Writable(i)
    BY <1>3, <1>10
  <2>2. QED
    BY <1>1, <1>2, <1>11, <2>1 DEF Sound, Entries
<1>14. \A q : (\E i \in Loaded' : Opener(i, q)' /\ Writable(i)')
                 <=> \E i \in Loaded : Opener(i, q) /\ Writable(i)
  <2>1. \A q : ~(Opener(n + 1, q)')
    BY <1>10 DEF Opener
  <2>2. ASSUME NEW i \in Loaded, NEW q PROVE Opener(i, q)' <=> Opener(i, q)
    <3>1. i \in Loaded' /\ i <= n + 1
      BY <1>3
    <3>2. (\A j \in Loaded' : q \in On(j)' => i <= j) <=> \A j \in Loaded : q \in On(j) => i <= j
      BY <1>3, <3>1
    <3>3. QED
      BY <1>10, <3>1, <3>2 DEF Opener
  <2>3. QED
    BY <1>3, <2>1, <2>2
<1>15. Tables'
  <2>1. \A q, i : i \in Loaded /\ Opener(i, q) => q \in ImagePages
    BY DEF Opener, Mapped, ImagePages
  <2>2. \A q, i : i \in Loaded' /\ Opener(i, q)' => q \in ImagePages'
    BY DEF Opener, Mapped, ImagePages
  <2>3. \A r : (\E q \in ImagePages' : r \in Above(q) /\ \E i \in Loaded' : Opener(i, q)' /\ Writable(i)')
                <=> \E q \in ImagePages : r \in Above(q) /\ \E i \in Loaded : Opener(i, q) /\ Writable(i)
    BY <1>14, <2>1, <2>2
  <2>4. \A r \in DOMAIN tables :
          /\ \E q \in DOMAIN pages : r \in Above(q)
          /\ tables[r].user
          /\ tables[r].write = \E q \in ImagePages : r \in Above(q) /\ \E i \in Loaded : Opener(i, q) /\ Writable(i)
    BY <1>1, <1>2 DEF Sound, Tables
  <2>5. QED
    BY <1>1, <2>3, <2>4 DEF Tables
<1>16. Bytes'
  <2>1. \A a : Byte(a)' = Byte(a)
    BY <1>1 DEF Byte
  <2>2. \A a \in UserAddress : PageOf(a) \in DOMAIN pages => Says(Len(read), a, Byte(a))
    BY <1>1, <1>2 DEF Sound, Bytes
  <2>3. ASSUME NEW a \in UserAddress, PageOf(a) \in DOMAIN pages
        PROVE  Says(Len(read) - 1, a, Byte(a))'
    <3>1. PICK k, c : k = Len(read) /\ c = Byte(a) /\ Says(k, a, c)
      BY <2>2, <2>3
    <3>2. Says(k, a, c)'
      BY <1>3, <3>1
    <3>3. Len(read)' - 1 = k /\ Byte(a)' = c
      BY <1>0, <1>3, <2>1, <3>1
    <3>4. QED
      BY <3>2, <3>3 DEF Says
  <2>4. QED
    BY <1>1, <2>3 DEF Bytes
<1>17. QED
  BY <1>8, <1>9, <1>12, <1>13, <1>15, <1>16 DEF IInv, Sound

-----------------------------------------------------------------------------
(* The pages of a segment                                                  *)

\* The segment that is being loaded
LEMMA Current ==
  ASSUME TypeOK, GoodHeaders, Busy, NEW n, n = Len(read)
  PROVE  /\ n \in Loaded /\ n \in Nat /\ Segment = read[n] /\ n - 1 \in Nat
         /\ Segment.memsz \in Nat \ {0} /\ Segment.vaddr \in Nat /\ Segment.filesz \in Nat
         /\ Segment.offset \in Nat /\ Segment.filesz <= Segment.memsz /\ Segment.write \in BOOLEAN
         /\ Segment.offset + Segment.filesz <= FileSize
         /\ On(n) = PageOf(Segment.vaddr) .. LastPage
         /\ PageOf(Segment.vaddr) \in Page /\ LastPage \in Page /\ PageOf(Segment.vaddr) <= LastPage
         /\ \A i \in Loaded : i \in Nat /\ i <= n
<1>1. n \in Loaded /\ Segment = read[n]
  BY DEF GoodHeaders, Segment
<1>2. /\ n \in 1 .. n /\ n \in Nat
      /\ read[n].vaddr \in Nat /\ read[n].offset \in Nat
      /\ read[n].filesz \in Nat /\ read[n].memsz \in Nat \ {0} /\ read[n].write \in BOOLEAN
  BY <1>1, SegmentType
<1>3. read[n].memsz >= read[n].filesz /\ read[n].offset + read[n].filesz <= FileSize
  BY <1>1 DEF GoodHeaders
<1>4. /\ PageOf(read[n].vaddr) \in Page /\ PageOf(read[n].vaddr + read[n].memsz - 1) \in Page
      /\ PageOf(read[n].vaddr) <= PageOf(read[n].vaddr + read[n].memsz - 1)
  BY <1>1, SegmentPages
<1>5. \A i \in Loaded : i \in Nat /\ i <= n
  BY <1>2, SegmentType
<1>6. On(n) = PageOf(Segment.vaddr) .. LastPage /\ LastPage = PageOf(read[n].vaddr + read[n].memsz - 1)
  BY <1>1 DEF On, LastPage
<1>7. QED
  BY <1>1, <1>2, <1>3, <1>4, <1>5, <1>6

\* What ensure_user_page_mapping does to the page and to its tables
LEMMA EnsurePageIs ==
  ASSUME MemoryOK, EnsurePage, next \in Page, Segment.write \in BOOLEAN,
         \A r \in DOMAIN tables : tables[r].user
  PROVE  /\ MemoryOK' /\ DOMAIN pages' = DOMAIN pages \cup {next}
         /\ \A q \in DOMAIN pages : q # next => pages'[q] = pages[q]
         /\ pages'[next].user
         /\ pages'[next].write = ((next \in DOMAIN pages /\ pages[next].write) \/ Segment.write)
         /\ \A k \in InPage : pages'[next].bytes[k] =
              IF next \in DOMAIN pages THEN pages[next].bytes[k] ELSE 0
         /\ DOMAIN tables' = DOMAIN tables \cup Above(next)
         /\ \A r \in DOMAIN tables : r \notin Above(next) => tables'[r] = tables[r]
         /\ \A r \in Above(next) :
              /\ tables'[r].user
              /\ tables'[r].write = ((r \in DOMAIN tables /\ tables[r].write) \/ (next \notin DOMAIN pages /\ Segment.write))
<1>1. CASE next \in DOMAIN pages
  <2>1. /\ pages' = [pages EXCEPT ![next].write = @ \/ Segment.write, ![next].user = TRUE]
        /\ UNCHANGED tables
    BY <1>1 DEF EnsurePage
  <2>2. /\ pages[next] \in PageEntry /\ Above(next) \subseteq DOMAIN tables
        /\ \A r \in Above(next) : tables[r].user /\ tables[r].write \in BOOLEAN
    BY <1>1 DEF MemoryOK, Flags
  <2>3. /\ DOMAIN pages' = DOMAIN pages
        /\ \A q \in DOMAIN pages : q # next => pages'[q] = pages[q]
        /\ pages'[next].user /\ pages'[next].write = (pages[next].write \/ Segment.write)
        /\ pages'[next].bytes = pages[next].bytes
        /\ pages'[next] \in PageEntry
    BY <1>1, <2>1, <2>2 DEF PageEntry
  <2>4. MemoryOK'
    BY <2>1, <2>3 DEF MemoryOK
  <2>5. DOMAIN pages = DOMAIN pages \cup {next} /\ DOMAIN tables = DOMAIN tables \cup Above(next)
    BY <1>1, <2>2
  <2>6. \A r \in Above(next) :
          /\ tables'[r].user
          /\ tables'[r].write = ((r \in DOMAIN tables /\ tables[r].write) \/ (next \notin DOMAIN pages /\ Segment.write))
    BY <1>1, <2>1, <2>2
  <2>7. pages'[next].write = ((next \in DOMAIN pages /\ pages[next].write) \/ Segment.write)
    <3>1. pages[next].write \in BOOLEAN
      BY <2>2 DEF PageEntry
    <3>2. QED
      BY <1>1, <2>3, <3>1
  <2>8. \A k \in InPage : pages'[next].bytes[k] =
          IF next \in DOMAIN pages THEN pages[next].bytes[k] ELSE 0
    BY <1>1, <2>3
  <2>9. \A r \in DOMAIN tables : r \notin Above(next) => tables'[r] = tables[r]
    BY <2>1
  <2>10. DOMAIN pages' = DOMAIN pages \cup {next} /\ DOMAIN tables' = DOMAIN tables \cup Above(next)
    BY <2>1, <2>3, <2>5
  <2>11. QED
    BY <2>3, <2>4, <2>6, <2>7, <2>8, <2>9, <2>10
<1>2. CASE next \notin DOMAIN pages
  <2> DEFINE w == Segment.write
  <2>1. w \in BOOLEAN /\ TRUE \in BOOLEAN /\ MapTo(next, w, TRUE)
    BY <1>2 DEF EnsurePage
  <2> HIDE DEF w
  <2>2. /\ MemoryOK'
        /\ DOMAIN pages' = DOMAIN pages \cup {next} /\ pages'[next] = Entry(w, TRUE)
        /\ \A q \in DOMAIN pages : pages'[q] = pages[q]
        /\ DOMAIN tables' = DOMAIN tables \cup Above(next)
        /\ \A r \in DOMAIN tables : r \notin Above(next) => tables'[r] = tables[r]
        /\ \A r \in Above(next) :
             /\ tables'[r].write = ((r \in DOMAIN tables /\ tables[r].write) \/ w)
             /\ tables'[r].user = ((r \in DOMAIN tables /\ tables[r].user) \/ TRUE)
    BY <1>2, <2>1, MapToIs
  <2>3. pages'[next].user /\ pages'[next].write = w /\ \A k \in InPage : pages'[next].bytes[k] = 0
    BY <2>1, <2>2, EntryType
  <2>4. QED
    BY <1>2, <2>2, <2>3 DEF w
<1>3. QED
  BY <1>1, <1>2

LEMMA EnsureInv ==
  ASSUME IInv, EnsurePage
  PROVE  IInv'
<1>0. PICK n : n = Len(read)
  OBVIOUS
<1>1. /\ pc = "map" /\ pc' = "map" /\ next <= LastPage /\ next' = next + 1
      /\ UNCHANGED <<read, done, end>>
  BY DEF EnsurePage
<1>2. TypeOK /\ GoodHeaders /\ MappedPages /\ Entries /\ Tables /\ Bytes /\ Busy
  BY <1>1 DEF IInv, Sound, Busy
<1>3. /\ n \in Loaded /\ n \in Nat /\ Segment = read[n] /\ n - 1 \in Nat
      /\ Segment.write \in BOOLEAN /\ On(n) = PageOf(Segment.vaddr) .. LastPage
      /\ PageOf(Segment.vaddr) \in Page /\ LastPage \in Page
      /\ \A i \in Loaded : i \in Nat /\ i <= n
  BY <1>0, <1>2, Current
<1>4. next \in PageOf(Segment.vaddr) .. LastPage + 1
  BY <1>1, <1>2 DEF MappedPages
<1>5. next \in On(n) /\ next \in Page /\ next \in Nat /\ next' \in 0 .. NPAGE
      /\ next' \in PageOf(Segment.vaddr) .. LastPage + 1
  BY <1>1, <1>3, <1>4, Sizes DEF Page
<1>6. /\ Loaded' = Loaded /\ ImagePages' = ImagePages /\ Segment' = Segment /\ LastPage' = LastPage
      /\ \A i : On(i)' = On(i) /\ Writable(i)' = Writable(i)
      /\ \A m, a, b : Says(m, a, b)' <=> Says(m, a, b)
      /\ Len(read') = n
  BY <1>0, <1>1, SameHeaders
<1>7. \A i \in Loaded : \A q : Mapped(i, q)' <=> Mapped(i, q) \/ (i = n /\ q = next)
  <2>0. TAKE i \in Loaded
  <2>1. TAKE q
  <2>2. q \in On(n) => q \in Nat
    BY <1>3 DEF Page
  <2>3. CASE i = n
    <3>1. q \in Nat => (q < next' <=> q < next \/ q = next)
      BY <1>1, <1>5
    <3>2. (Mapped(i, q)' <=> q \in On(n) /\ q < next') /\ (Mapped(i, q) <=> q \in On(n) /\ q < next)
      BY <1>0, <1>1, <1>6, <2>3 DEF Mapped
    <3>3. QED
      BY <1>5, <2>2, <2>3, <3>1, <3>2
  <2>4. CASE i # n
    BY <1>0, <1>1, <1>6, <2>4 DEF Mapped
  <2>5. QED
    BY <2>3, <2>4
<1>8. /\ \A i \in Loaded : \A q : Mapped(i, q) => q \in DOMAIN pages
      /\ \A q \in DOMAIN pages : \E i \in Loaded : Mapped(i, q)
      /\ ~Mapped(n, next)
      /\ \A i \in Loaded : \A q : Mapped(i, q) => q \in On(i)
      /\ \A i \in Loaded : \A q : i # n /\ q \in On(i) => Mapped(i, q)
  <2>1. \A i \in Loaded : \A q : Mapped(i, q) => q \in On(i)
    BY DEF Mapped
  <2>2. /\ \A i \in Loaded : \A q \in On(i) : Mapped(i, q) => q \in DOMAIN pages
        /\ \A q \in DOMAIN pages : \E i \in Loaded : Mapped(i, q)
    BY <1>1, <1>2 DEF MappedPages
  <2>3. ~Mapped(n, next) /\ \A i \in Loaded : \A q : i # n /\ q \in On(i) => Mapped(i, q)
    BY <1>0, <1>1, <1>5 DEF Mapped
  <2>4. QED
    BY <2>1, <2>2, <2>3
<1>9. GoodHeaders'
  BY <1>1, <1>2, <1>6 DEF GoodHeaders, Busy
<1>10. next \in ImagePages
  BY <1>3, <1>5 DEF ImagePages
<1>11. \A q \in DOMAIN pages :
         /\ pages[q].user
         /\ pages[q].write = (\E i \in Loaded : Mapped(i, q) /\ Writable(i))
  BY <1>2, <1>8 DEF Entries
<1>12. \A r \in DOMAIN tables :
         /\ \E q \in DOMAIN pages : r \in Above(q)
         /\ tables[r].user
         /\ tables[r].write = \E q \in ImagePages : r \in Above(q) /\ \E i \in Loaded : Opener(i, q) /\ Writable(i)
  BY <1>1, <1>2 DEF Tables
<1>13. \A a \in UserAddress : PageOf(a) \in DOMAIN pages => Says(n - 1, a, Byte(a))
  BY <1>0, <1>1, <1>2 DEF Bytes
<1>14. Writable(n) = Segment.write
  BY <1>3 DEF Writable
<1>15. MemoryOK
  BY <1>2, TypeParts
<1>16. /\ MemoryOK' /\ DOMAIN pages' = DOMAIN pages \cup {next}
       /\ \A q \in DOMAIN pages : q # next => pages'[q] = pages[q]
       /\ pages'[next].user
       /\ pages'[next].write = ((next \in DOMAIN pages /\ pages[next].write) \/ Segment.write)
       /\ \A k \in InPage : pages'[next].bytes[k] =
            IF next \in DOMAIN pages THEN pages[next].bytes[k] ELSE 0
       /\ DOMAIN tables' = DOMAIN tables \cup Above(next)
       /\ \A r \in DOMAIN tables : r \notin Above(next) => tables'[r] = tables[r]
       /\ \A r \in Above(next) :
            /\ tables'[r].user
            /\ tables'[r].write = ((r \in DOMAIN tables /\ tables[r].write) \/ (next \notin DOMAIN pages /\ Segment.write))
  BY <1>3, <1>5, <1>12, <1>15, EnsurePageIs
<1>17. TypeOK'
  BY <1>1, <1>2, <1>5, <1>16 DEF TypeOK, MemoryOK, Page, PageEntry
<1>18. MappedPages'
  <2>1. \A i \in Loaded : \A q \in On(i) : Mapped(i, q)' => q \in DOMAIN pages'
    BY <1>7, <1>8, <1>16
  <2>2. \A q \in DOMAIN pages' : \E i \in Loaded : Mapped(i, q)'
    BY <1>3, <1>7, <1>8, <1>16
  <2>3. next' \in PageOf(Segment'.vaddr) .. LastPage' + 1
    BY <1>5, <1>6
  <2>4. QED
    BY <1>1, <1>6, <2>1, <2>2, <2>3 DEF MappedPages, PageOf
<1>19. Entries'
  <2>1. ASSUME NEW q \in DOMAIN pages'
        PROVE  /\ \E i \in Loaded' : Mapped(i, q)'
               /\ pages'[q].user
               /\ pages'[q].write = (\E i \in Loaded' : Mapped(i, q)' /\ Writable(i)')
    <3>1. CASE q = next
      <4>1. \E i \in Loaded : Mapped(i, q)'
        BY <1>3, <1>7, <3>1
      <4>2. (\E i \in Loaded : Mapped(i, q)' /\ Writable(i))
               <=> ((\E i \in Loaded : Mapped(i, q) /\ Writable(i)) \/ Segment.write)
        BY <1>3, <1>7, <1>14, <3>1
      <4>3. (\E i \in Loaded : Mapped(i, q) /\ Writable(i)) <=> next \in DOMAIN pages /\ pages[next].write
        BY <1>8, <1>11, <3>1
      <4>4. pages'[next].write \in BOOLEAN
        BY <1>16 DEF MemoryOK, PageEntry
      <4>5. QED
        BY <1>6, <1>16, <3>1, <4>1, <4>2, <4>3, <4>4
    <3>2. CASE q # next
      <4>1. q \in DOMAIN pages /\ pages'[q] = pages[q]
        BY <1>16, <2>1, <3>2
      <4>2. \A i \in Loaded : Mapped(i, q)' <=> Mapped(i, q)
        BY <1>7, <3>2
      <4>3. QED
        BY <1>6, <1>8, <1>11, <4>1, <4>2
    <3>3. QED
      BY <3>1, <3>2
  <2>2. QED
    BY <2>1 DEF Entries
<1>20. \A i, q : Opener(i, q)' <=> Opener(i, q) \/ (i = n /\ q = next /\ next \notin DOMAIN pages)
  <2>1. ASSUME NEW i \in Loaded, NEW q
        PROVE  Opener(i, q)' <=> Opener(i, q) \/ (i = n /\ q = next /\ next \notin DOMAIN pages)
    <3>1. Opener(i, q)' <=> Mapped(i, q)' /\ \A j \in Loaded : q \in On(j) => i <= j
      BY <1>6, <2>1 DEF Opener
    <3>2. CASE i = n /\ q = next
      <4>1. ~Opener(i, q) /\ Mapped(i, q)'
        BY <1>7, <1>8, <3>2 DEF Opener
      <4>2. (\A j \in Loaded : next \in On(j) => n <= j) <=> \A j \in Loaded : j # n => next \notin On(j)
        BY <1>3
      <4>3. (\A j \in Loaded : j # n => next \notin On(j)) <=> next \notin DOMAIN pages
        BY <1>8
      <4>4. QED
        BY <3>1, <3>2, <4>1, <4>2, <4>3
    <3>3. CASE ~(i = n /\ q = next)
      BY <1>7, <2>1, <3>1, <3>3 DEF Opener
    <3>4. QED
      BY <3>2, <3>3
  <2>2. QED
    BY <1>3, <1>6, <2>1 DEF Opener
<1>21. Tables'
  <2>1. ASSUME NEW r \in DOMAIN tables'
        PROVE  /\ \E q \in DOMAIN pages' : r \in Above(q)
               /\ tables'[r].user
               /\ tables'[r].write = \E q \in ImagePages' : r \in Above(q) /\ \E i \in Loaded' : Opener(i, q)' /\ Writable(i)'
    <3>1. \E q \in DOMAIN pages' : r \in Above(q)
      BY <1>12, <1>16
    <3>2. (\E q \in ImagePages' : r \in Above(q) /\ \E i \in Loaded' : Opener(i, q)' /\ Writable(i)')
            <=> \/ \E q \in ImagePages : r \in Above(q) /\ \E i \in Loaded : Opener(i, q) /\ Writable(i)
                \/ r \in Above(next) /\ next \notin DOMAIN pages /\ Segment.write
      BY <1>3, <1>6, <1>10, <1>14, <1>20
    <3>3. tables'[r].write \in BOOLEAN
      BY <1>16, <2>1 DEF MemoryOK, Flags
    <3>4. CASE r \notin Above(next)
      BY <1>12, <1>16, <3>1, <3>2, <3>4
    <3>5. CASE r \in Above(next)
      <4>1. (\E q \in ImagePages : r \in Above(q) /\ \E i \in Loaded : Opener(i, q) /\ Writable(i))
              => r \in DOMAIN tables /\ tables[r].write
        <5>1. SUFFICES ASSUME NEW q \in ImagePages, r \in Above(q),
                              NEW i \in Loaded, Opener(i, q), Writable(i)
                       PROVE  r \in DOMAIN tables /\ tables[r].write
          OBVIOUS
        <5>2. q \in DOMAIN pages
          BY <1>8, <5>1 DEF Opener
        <5>3. r \in DOMAIN tables
          BY <1>15, <5>1, <5>2 DEF MemoryOK
        <5>4. QED
          BY <1>12, <3>5, <5>1, <5>3
      <4>2. r \in DOMAIN tables /\ tables[r].write
              => \E q \in ImagePages : r \in Above(q) /\ \E i \in Loaded : Opener(i, q) /\ Writable(i)
        BY <1>12, <3>5
      <4>3. QED
        BY <1>16, <3>1, <3>2, <3>3, <3>5, <4>1, <4>2
    <3>6. QED
      BY <3>4, <3>5
  <2>2. QED
    BY <1>1, <2>1 DEF Tables
<1>22. Bytes'
  <2>1. ASSUME NEW a \in UserAddress, PageOf(a) \in DOMAIN pages'
        PROVE  Says(n - 1, a, Byte(a)')
    <3>1. a \in Nat /\ a % PageSize \in InPage
      BY PageOfAddress
    <3>2. Byte(a)' = pages'[PageOf(a)].bytes[a % PageSize] /\ Byte(a) = pages[PageOf(a)].bytes[a % PageSize]
      BY DEF Byte
    <3>3. CASE PageOf(a) \in DOMAIN pages
      <4>1. Byte(a)' = Byte(a)
        BY <1>16, <3>1, <3>2, <3>3
      <4>2. QED
        BY <1>13, <3>3, <4>1
    <3>4. CASE PageOf(a) \notin DOMAIN pages
      <4>1. PageOf(a) = next /\ Byte(a)' = 0
        BY <1>16, <2>1, <3>1, <3>2, <3>4
      <4>2. \A i \in Loaded : i <= n - 1 => ~Covers(i, a)
        <5>1. SUFFICES ASSUME NEW i \in Loaded, i <= n - 1, Covers(i, a) PROVE FALSE
          OBVIOUS
        <5>2. PageOf(a) \in On(i)
          BY <1>2, <3>1, <5>1, SegmentPages
        <5>3. i # n
          BY <1>3, <5>1
        <5>4. QED
          BY <1>8, <3>4, <5>2, <5>3
      <4>3. QED
        BY <4>1, <4>2 DEF Says
    <3>5. QED
      BY <3>3, <3>4
  <2>2. ASSUME NEW a \in UserAddress, PageOf(a) \in DOMAIN pages'
        PROVE  Says(Len(read) - 1, a, Byte(a))'
    <3>1. PICK m, b : m = n - 1 /\ b = Byte(a)' /\ Says(m, a, b)
      BY <2>1, <2>2
    <3>2. Says(m, a, b)' /\ m = Len(read)' - 1
      BY <1>6, <3>1
    <3>3. QED
      BY <3>1, <3>2 DEF Says
  <2>3. QED
    BY <1>1, <2>2 DEF Bytes
<1>23. QED
  BY <1>9, <1>17, <1>18, <1>19, <1>21, <1>22 DEF IInv, Sound

-----------------------------------------------------------------------------
(* The bytes of a segment                                                  *)

\* Once a segment has its pages, what is written changes none of their rights.
LEMMA RightsStay ==
  ASSUME TypeOK, GoodHeaders, MappedPages, Entries, Tables,
         pc \in {"map", "zero", "copy"}, pc = "map" => next > LastPage,
         pc' \in {"zero", "copy", "headers"}, UNCHANGED <<read, end, tables>>,
         DOMAIN pages' = DOMAIN pages,
         \A q \in DOMAIN pages : pages'[q].write = pages[q].write /\ pages'[q].user = pages[q].user
  PROVE  GoodHeaders' /\ MappedPages' /\ Entries' /\ Tables'
<1>0. PICK n : n = Len(read)
  OBVIOUS
<1>1. Busy
  BY DEF Busy
<1>2. /\ n \in Loaded /\ On(n) = PageOf(Segment.vaddr) .. LastPage
      /\ PageOf(Segment.vaddr) \in Page /\ LastPage \in Page
  BY <1>0, <1>1, Current
<1>3. /\ Loaded' = Loaded /\ ImagePages' = ImagePages
      /\ \A i : On(i)' = On(i) /\ Writable(i)' = Writable(i)
      /\ Len(read') = n
  BY <1>0, SameHeaders
<1>4. GoodHeaders'
  BY <1>0, <1>2, <1>3 DEF GoodHeaders, Busy
<1>5. \A i, q : Mapped(i, q)' <=> q \in On(i)
  BY <1>3 DEF Mapped
<1>6. \A i, q : Mapped(i, q) <=> q \in On(i)
  <2>1. TAKE i, q
  <2>2. CASE pc = "map" /\ i = n
    <3>1. next \in Nat
      BY Sizes DEF TypeOK
    <3>2. q \in On(n) => q < next
      BY <1>2, <2>2, <3>1 DEF Page
    <3>3. QED
      BY <2>2, <3>2 DEF Mapped
  <2>3. CASE ~(pc = "map" /\ i = n)
    BY <1>0, <2>3 DEF Mapped
  <2>4. QED
    BY <2>2, <2>3
<1>7. \A q \in DOMAIN pages : \E i \in Loaded : q \in On(i)
  BY <1>6 DEF MappedPages
<1>8. \A i \in Loaded : \A q \in On(i) : q \in DOMAIN pages
  BY <1>6 DEF MappedPages
<1>9. MappedPages'
  BY <1>3, <1>5, <1>7, <1>8 DEF MappedPages
<1>10. Entries'
  <2>1. \A q \in DOMAIN pages : pages[q].user
           /\ pages[q].write = (\E i \in Loaded : q \in On(i) /\ Writable(i))
    BY <1>6, <1>7 DEF Entries
  <2>2. \A q \in DOMAIN pages' : pages'[q].user /\ (\E i \in Loaded' : Mapped(i, q)')
           /\ pages'[q].write = (\E i \in Loaded' : Mapped(i, q)' /\ Writable(i)')
    BY <1>3, <1>5, <1>7, <2>1
  <2>3. QED
    BY <2>2 DEF Entries
<1>11. \A i, q : Opener(i, q)' <=> Opener(i, q)
  BY <1>3, <1>5, <1>6 DEF Opener
<1>12. Tables'
  <2>1. \A r \in DOMAIN tables :
          /\ \E q \in DOMAIN pages : r \in Above(q)
          /\ tables[r].user
          /\ tables[r].write = \E q \in ImagePages : r \in Above(q) /\ \E i \in Loaded : Opener(i, q) /\ Writable(i)
    BY DEF Tables
  <2>2. \A r \in DOMAIN tables' :
          /\ \E q \in DOMAIN pages' : r \in Above(q)
          /\ tables'[r].user
          /\ tables'[r].write = \E q \in ImagePages' : r \in Above(q) /\ \E i \in Loaded' : Opener(i, q)' /\ Writable(i)'
    BY <1>3, <1>11, <2>1
  <2>3. QED
    BY <2>2 DEF Tables
<1>13. QED
  BY <1>4, <1>9, <1>10, <1>12

LEMMA EnsureEndsInv ==
  ASSUME IInv, EnsureEnds
  PROVE  IInv'
<1>0. PICK n : n = Len(read)
  OBVIOUS
<1>1. /\ pc = "map" /\ next > LastPage /\ pc' = "zero" /\ done' = 0
      /\ UNCHANGED <<read, next, end, pages, tables>>
  BY DEF EnsureEnds
<1>2. TypeOK /\ GoodHeaders /\ MappedPages /\ Entries /\ Tables /\ Bytes /\ Busy
  BY <1>1 DEF IInv, Sound, Busy
<1>3. TypeOK'
  BY <1>1, <1>2 DEF TypeOK
<1>4. GoodHeaders' /\ MappedPages' /\ Entries' /\ Tables'
  BY <1>1, <1>2, RightsStay
<1>5. /\ Segment.vaddr \in Nat /\ Segment = read[n]
  BY <1>0, <1>2, Current
<1>6. /\ Segment' = Segment /\ Len(read') = n
      /\ \A i, a : Covers(i, a)' = Covers(i, a)
      /\ \A m, a, b : Says(m, a, b)' <=> Says(m, a, b)
  BY <1>0, <1>1, SameHeaders
<1>7. Address' = Segment.vaddr
  BY <1>1, <1>5, <1>6 DEF Address
<1>8. ASSUME NEW a \in UserAddress, PageOf(a) \in DOMAIN pages
      PROVE  ~(Covers(n, a) /\ a < Address') /\ Says(n - 1, a, Byte(a))' /\ Covers(n, a)' = Covers(n, a)
  <2>1. Says(n - 1, a, Byte(a))
    BY <1>0, <1>1, <1>2, <1>8 DEF Bytes
  <2>2. PICK m, b : m = n - 1 /\ b = Byte(a) /\ Says(m, a, b)
    BY <2>1
  <2>3. Says(m, a, b)' /\ b = Byte(a)'
    BY <1>1, <1>6, <2>2 DEF Byte
  <2>4. Says(n - 1, a, Byte(a))'
    BY <2>2, <2>3 DEF Says
  <2>5. a \in Nat
    BY PageOfAddress
  <2>6. ~(Covers(n, a) /\ a < Address')
    BY <1>5, <1>7, <2>5 DEF Covers
  <2>7. QED
    BY <1>6, <2>4, <2>6
<1>9. Bytes'
  <2>1. ASSUME NEW a \in UserAddress, PageOf(a) \in DOMAIN pages'
        PROVE  ~(Covers(Len(read), a)' /\ a < Address') /\ Says(Len(read) - 1, a, Byte(a))'
    BY <1>1, <1>6, <1>8, <2>1 DEF Says, Covers
  <2>2. QED
    BY <1>1, <2>1 DEF Bytes
<1>10. QED
  BY <1>3, <1>4, <1>9 DEF IInv, Sound

LEMMA ZeroChunkInv ==
  ASSUME IInv, ZeroChunk
  PROVE  IInv'
<1>0. PICK n : n = Len(read)
  OBVIOUS
<1>1. /\ pc = "zero" /\ pc' = "zero" /\ done < Segment.memsz
      /\ Store([k \in 0 .. ToCopy(Segment.memsz) - 1 |-> 0])
      /\ done' = done + ToCopy(Segment.memsz)
      /\ UNCHANGED <<read, next, end, tables>>
  BY DEF ZeroChunk
<1>2. TypeOK /\ GoodHeaders /\ MappedPages /\ Entries /\ Tables /\ Bytes /\ Busy
  BY <1>1 DEF IInv, Sound, Busy
<1>3. /\ Segment.vaddr \in Nat /\ Segment.memsz \in Nat /\ Segment = read[n] /\ done \in Nat
  BY <1>0, <1>2, Current DEF TypeOK
<1>4. Address \in Nat /\ Address = Segment.vaddr + done
  BY <1>3 DEF Address
<1> DEFINE t == ToCopy(Segment.memsz)
           z == [k \in 0 .. t - 1 |-> 0]
<1>5. t \in Nat /\ t <= Segment.memsz - done /\ t <= PageSize - (Address % PageSize)
  BY <1>1, <1>3, <1>4, ToCopyIs
<1>6. z \in [0 .. t - 1 -> 0 .. FileSize] /\ Store(z) /\ \A k \in 0 .. t - 1 : z[k] = 0
  BY <1>1, Sizes
<1> HIDE DEF t, z
<1>7. MemoryOK
  BY <1>2, TypeParts
<1>8. /\ MemoryOK' /\ DOMAIN pages' = DOMAIN pages
      /\ \A q \in DOMAIN pages : pages'[q].write = pages[q].write /\ pages'[q].user = pages[q].user
      /\ \A a \in Nat : PageOf(a) \in DOMAIN pages =>
           Byte(a)' = IF Address <= a /\ a < Address + t THEN z[a - Address] ELSE Byte(a)
  BY <1>1, <1>4, <1>5, <1>6, <1>7, StoreIs
<1>9. done' = done + t
  BY <1>1 DEF t
<1>10. TypeOK'
  BY <1>1, <1>2, <1>3, <1>5, <1>8, <1>9 DEF TypeOK, MemoryOK, Page, PageEntry
<1>11. GoodHeaders' /\ MappedPages' /\ Entries' /\ Tables'
  BY <1>1, <1>2, <1>8, RightsStay
<1>12. /\ Segment' = Segment /\ Len(read') = n
       /\ \A i, a : Covers(i, a)' = Covers(i, a)
       /\ \A m, a, b : Says(m, a, b)' <=> Says(m, a, b)
  BY <1>0, <1>1, SameHeaders
<1>13. Address' = Address + t
  BY <1>3, <1>4, <1>5, <1>9, <1>12 DEF Address
<1>14. ASSUME NEW a \in UserAddress, PageOf(a) \in DOMAIN pages
       PROVE  IF Covers(n, a)' /\ a < Address' THEN Byte(a)' = 0 ELSE Says(n - 1, a, Byte(a))'
  <2>1. a \in Nat
    BY PageOfAddress
  <2>2. IF Covers(n, a) /\ a < Address THEN Byte(a) = 0 ELSE Says(n - 1, a, Byte(a))
    BY <1>0, <1>1, <1>2, <1>14 DEF Bytes
  <2>3. Byte(a)' = IF Address <= a /\ a < Address + t THEN z[a - Address] ELSE Byte(a)
    BY <1>8, <1>14, <2>1
  <2>4. CASE Address <= a /\ a < Address + t
    <3>1. a - Address \in 0 .. t - 1
      BY <1>4, <1>5, <2>1, <2>4
    <3>2. Byte(a)' = 0
      BY <1>6, <2>3, <2>4, <3>1
    <3>3. Covers(n, a)
      BY <1>3, <1>4, <1>5, <2>1, <2>4 DEF Covers
    <3>4. QED
      BY <1>12, <1>13, <2>4, <3>2, <3>3
  <2>5. CASE ~(Address <= a /\ a < Address + t)
    <3>1. a < Address <=> a < Address + t
      BY <1>4, <1>5, <2>1, <2>5
    <3>2. PICK m, b : m = n - 1 /\ b = Byte(a)
      OBVIOUS
    <3>3. Byte(a)' = b
      BY <2>3, <2>5, <3>2
    <3>4. IF Covers(n, a)' /\ a < Address' THEN b = 0 ELSE Says(m, a, b)'
      BY <1>12, <1>13, <2>2, <3>1, <3>2
    <3>5. QED
      BY <3>2, <3>3, <3>4 DEF Says
  <2>6. QED
    BY <2>4, <2>5
<1>15. Bytes'
  BY <1>1, <1>8, <1>12, <1>14 DEF Bytes, Says, Covers
<1>16. QED
  BY <1>10, <1>11, <1>15 DEF IInv, Sound

LEMMA ZeroEndsInv ==
  ASSUME IInv, ZeroEnds
  PROVE  IInv'
<1>0. PICK n : n = Len(read)
  OBVIOUS
<1>1. /\ pc = "zero" /\ done = Segment.memsz /\ pc' = "copy" /\ done' = 0
      /\ UNCHANGED <<read, next, end, pages, tables>>
  BY DEF ZeroEnds
<1>2. TypeOK /\ GoodHeaders /\ MappedPages /\ Entries /\ Tables /\ Bytes /\ Busy
  BY <1>1 DEF IInv, Sound, Busy
<1>3. TypeOK'
  BY <1>1, <1>2 DEF TypeOK
<1>4. GoodHeaders' /\ MappedPages' /\ Entries' /\ Tables'
  BY <1>1, <1>2, RightsStay
<1>5. Segment.vaddr \in Nat /\ Segment.memsz \in Nat /\ Segment = read[n]
  BY <1>0, <1>2, Current
<1>6. /\ Segment' = Segment /\ Len(read') = n
      /\ \A i, a : Covers(i, a)' = Covers(i, a)
      /\ \A m, a, b : Says(m, a, b)' <=> Says(m, a, b)
  BY <1>0, <1>1, SameHeaders
<1>7. Address' = Segment.vaddr /\ Address = Segment.vaddr + Segment.memsz
  BY <1>1, <1>5, <1>6 DEF Address
<1>8. ASSUME NEW a \in UserAddress, PageOf(a) \in DOMAIN pages
      PROVE  IF ~(Covers(n, a)') THEN Says(n - 1, a, Byte(a))' ELSE ~(a < Address') /\ Byte(a)' = 0
  <2>1. a \in Nat
    BY PageOfAddress
  <2>2. IF Covers(n, a) /\ a < Address THEN Byte(a) = 0 ELSE Says(n - 1, a, Byte(a))
    BY <1>0, <1>1, <1>2, <1>8 DEF Bytes
  <2>3. Covers(n, a) => a < Address /\ ~(a < Address')
    BY <1>5, <1>7, <2>1 DEF Covers
  <2>4. PICK m, b : m = n - 1 /\ b = Byte(a)
    OBVIOUS
  <2>5. Byte(a)' = b
    BY <1>1, <2>4 DEF Byte
  <2>6. IF ~(Covers(n, a)') THEN Says(m, a, b)' ELSE ~(a < Address') /\ b = 0
    BY <1>6, <2>2, <2>3, <2>4
  <2>7. QED
    BY <2>4, <2>5, <2>6 DEF Says
<1>9. Bytes'
  BY <1>1, <1>6, <1>8 DEF Bytes, Says, Covers
<1>10. QED
  BY <1>3, <1>4, <1>9 DEF IInv, Sound

LEMMA CopyChunkInv ==
  ASSUME IInv, CopyChunk
  PROVE  IInv'
<1>0. PICK n : n = Len(read)
  OBVIOUS
<1>1. /\ pc = "copy" /\ pc' = "copy" /\ done < Segment.filesz
      /\ Store([k \in 0 .. ToCopy(Segment.filesz) - 1 |-> Segment.offset + done + k + 1])
      /\ done' = done + ToCopy(Segment.filesz)
      /\ UNCHANGED <<read, next, end, tables>>
  BY DEF CopyChunk
<1>2. TypeOK /\ GoodHeaders /\ MappedPages /\ Entries /\ Tables /\ Bytes /\ Busy
  BY <1>1 DEF IInv, Sound, Busy
<1>3. /\ Segment.vaddr \in Nat /\ Segment.memsz \in Nat /\ Segment.filesz \in Nat /\ Segment.offset \in Nat
      /\ Segment.filesz <= Segment.memsz /\ Segment.offset + Segment.filesz <= FileSize
      /\ Segment = read[n] /\ done \in Nat
  BY <1>0, <1>2, Current DEF TypeOK
<1>4. Address \in Nat /\ Address = Segment.vaddr + done
  BY <1>3 DEF Address
<1> DEFINE t == ToCopy(Segment.filesz)
           z == [k \in 0 .. t - 1 |-> Segment.offset + done + k + 1]
<1>5. t \in Nat /\ t <= Segment.filesz - done /\ t <= PageSize - (Address % PageSize)
  BY <1>1, <1>3, <1>4, ToCopyIs
<1>6. z \in [0 .. t - 1 -> 0 .. FileSize] /\ Store(z)
      /\ \A k \in 0 .. t - 1 : z[k] = Segment.offset + done + k + 1
  <2>1. Store(z)
    BY <1>1
  <2> HIDE DEF t
  <2>2. \A k \in 0 .. t - 1 : Segment.offset + done + k + 1 \in 0 .. FileSize
    BY <1>3, <1>5, Sizes
  <2>3. QED
    BY <2>1, <2>2
<1> HIDE DEF t, z
<1>7. MemoryOK
  BY <1>2, TypeParts
<1>8. /\ MemoryOK' /\ DOMAIN pages' = DOMAIN pages
      /\ \A q \in DOMAIN pages : pages'[q].write = pages[q].write /\ pages'[q].user = pages[q].user
      /\ \A a \in Nat : PageOf(a) \in DOMAIN pages =>
           Byte(a)' = IF Address <= a /\ a < Address + t THEN z[a - Address] ELSE Byte(a)
  BY <1>1, <1>4, <1>5, <1>6, <1>7, StoreIs
<1>9. done' = done + t
  BY <1>1 DEF t
<1>10. TypeOK'
  BY <1>1, <1>2, <1>3, <1>5, <1>8, <1>9 DEF TypeOK, MemoryOK, Page, PageEntry
<1>11. GoodHeaders' /\ MappedPages' /\ Entries' /\ Tables'
  BY <1>1, <1>2, <1>8, RightsStay
<1>12. /\ Segment' = Segment /\ Len(read') = n
       /\ \A i, a : Covers(i, a)' = Covers(i, a) /\ Content(i, a)' = Content(i, a)
       /\ \A m, a, b : Says(m, a, b)' <=> Says(m, a, b)
  BY <1>0, <1>1, SameHeaders
<1>13. Address' = Address + t
  BY <1>3, <1>4, <1>5, <1>9, <1>12 DEF Address
<1>14. ASSUME NEW a \in UserAddress, PageOf(a) \in DOMAIN pages
       PROVE  IF ~(Covers(n, a)') THEN Says(n - 1, a, Byte(a))'
              ELSE Byte(a)' = IF a < Address' THEN Content(n, a)' ELSE 0
  <2>1. a \in Nat
    BY PageOfAddress
  <2>2. IF ~Covers(n, a) THEN Says(n - 1, a, Byte(a))
        ELSE Byte(a) = IF a < Address THEN Content(n, a) ELSE 0
    BY <1>0, <1>1, <1>2, <1>14 DEF Bytes
  <2>3. Byte(a)' = IF Address <= a /\ a < Address + t THEN z[a - Address] ELSE Byte(a)
    BY <1>8, <1>14, <2>1
  <2>4. CASE Address <= a /\ a < Address + t
    <3>1. a - Address \in 0 .. t - 1
      BY <1>4, <1>5, <2>1, <2>4
    <3>2. Byte(a)' = Segment.offset + done + (a - Address) + 1
      BY <1>6, <2>3, <2>4, <3>1
    <3>3. Covers(n, a) /\ a < Segment.vaddr + Segment.filesz
      BY <1>3, <1>4, <1>5, <2>1, <2>4 DEF Covers
    <3>4. Content(n, a) = Segment.offset + (a - Segment.vaddr) + 1
      BY <1>3, <3>3 DEF Content
    <3>5. Byte(a)' = Content(n, a)
      BY <1>3, <1>4, <2>1, <3>2, <3>4
    <3>6. QED
      BY <1>12, <1>13, <2>4, <3>3, <3>5
  <2>5. CASE ~(Address <= a /\ a < Address + t)
    <3>1. a < Address <=> a < Address + t
      BY <1>4, <1>5, <2>1, <2>5
    <3>2. PICK m, b : m = n - 1 /\ b = Byte(a)
      OBVIOUS
    <3>3. Byte(a)' = b
      BY <2>3, <2>5, <3>2
    <3>4. IF ~(Covers(n, a)') THEN Says(m, a, b)'
          ELSE b = IF a < Address' THEN Content(n, a)' ELSE 0
      BY <1>12, <1>13, <2>2, <3>1, <3>2
    <3>5. QED
      BY <3>2, <3>3, <3>4 DEF Says
  <2>6. QED
    BY <2>4, <2>5
<1>15. Bytes'
  BY <1>1, <1>8, <1>12, <1>14 DEF Bytes, Says, Covers, Content
<1>16. QED
  BY <1>10, <1>11, <1>15 DEF IInv, Sound

\* The last of the segments that have an address says what is there.
LEMMA LastSays ==
  ASSUME TypeOK, NEW n, n \in Loaded, n \in Nat, \A i \in Loaded : i \in Nat /\ i <= n, NEW a, NEW b
  PROVE  /\ Covers(n, a) /\ b = Content(n, a) => Says(n, a, b)
         /\ ~Covers(n, a) /\ Says(n - 1, a, b) => Says(n, a, b)
<1>1. Covers(n, a) /\ b = Content(n, a) => Says(n, a, b)
  BY DEF Says
<1>2. ASSUME ~Covers(n, a), Says(n - 1, a, b)
      PROVE  Says(n, a, b)
  <2>1. \A i \in Loaded : Covers(i, a) => i <= n - 1 /\ i <= n
    BY <1>2
  <2>2. CASE b = 0 /\ \A i \in Loaded : i <= n - 1 => ~Covers(i, a)
    BY <2>1, <2>2 DEF Says
  <2>3. CASE \E i \in Loaded : /\ i <= n - 1 /\ Covers(i, a) /\ b = Content(i, a)
                               /\ \A j \in Loaded : j <= n - 1 /\ Covers(j, a) => j <= i
    BY <2>1, <2>3 DEF Says
  <2>4. QED
    BY <1>2, <2>2, <2>3 DEF Says
<1>3. QED
  BY <1>1, <1>2

LEMMA CopyEndsInv ==
  ASSUME IInv, CopyEnds
  PROVE  IInv'
<1>0. PICK n : n = Len(read)
  OBVIOUS
<1>1. /\ pc = "copy" /\ done = Segment.filesz /\ pc' = "headers" /\ done' = 0
      /\ UNCHANGED <<read, next, end, pages, tables>>
  BY DEF CopyEnds
<1>2. TypeOK /\ GoodHeaders /\ MappedPages /\ Entries /\ Tables /\ Bytes /\ Busy
  BY <1>1 DEF IInv, Sound, Busy
<1>3. TypeOK'
  BY <1>1, <1>2 DEF TypeOK
<1>4. GoodHeaders' /\ MappedPages' /\ Entries' /\ Tables'
  BY <1>1, <1>2, RightsStay
<1>5. /\ Segment.vaddr \in Nat /\ Segment.filesz \in Nat /\ Segment = read[n]
      /\ n \in Loaded /\ n \in Nat /\ \A i \in Loaded : i \in Nat /\ i <= n
  BY <1>0, <1>2, Current
<1>6. /\ Len(read') = n /\ \A m, a, b : Says(m, a, b)' <=> Says(m, a, b)
  BY <1>0, <1>1, SameHeaders
<1>7. Address = Segment.vaddr + Segment.filesz
  BY <1>1 DEF Address
<1>8. ASSUME NEW a \in UserAddress, PageOf(a) \in DOMAIN pages
      PROVE  Says(n, a, Byte(a))'
  <2>1. IF ~Covers(n, a) THEN Says(n - 1, a, Byte(a))
        ELSE Byte(a) = IF a < Address THEN Content(n, a) ELSE 0
    BY <1>0, <1>1, <1>2, <1>8 DEF Bytes
  <2>2. Covers(n, a) => Byte(a) = Content(n, a)
    BY <1>5, <1>7, <2>1 DEF Content
  <2>3. Says(n, a, Byte(a))
    BY <1>2, <1>5, <2>1, <2>2, LastSays
  <2>4. PICK b : b = Byte(a) /\ Says(n, a, b)
    BY <2>3
  <2>5. Says(n, a, b)' /\ b = Byte(a)'
    BY <1>1, <1>6, <2>4 DEF Byte
  <2>6. QED
    BY <2>5 DEF Says
<1>9. Bytes'
  BY <1>1, <1>6, <1>8 DEF Bytes, Says
<1>10. QED
  BY <1>3, <1>4, <1>9 DEF IInv, Sound

-----------------------------------------------------------------------------
(* The stack                                                               *)

\* The guard page and the stack are under the same tables.
LEMMA OneRegion ==
  ASSUME NEW q \in GuardPage .. NPAGE - 1
  PROVE  Above(q) = Above(GuardPage)
<1> DEFINE T == TableSpan
           k == NPAGE \div TableSpan
           z == NPAGE % TableSpan
<1>1. T \in Nat \ {0} /\ k \in Nat /\ z = 0 /\ NPAGE = T * k + z
      /\ NPAGE \in Nat /\ GuardPage \in Nat /\ GuardPage >= NPAGE - T
  BY ImageAssumption, Sizes DEF GuardPage, Page
<1> HIDE DEF T, k, z
<1>2. ASSUME NEW p \in GuardPage .. NPAGE - 1 PROVE p \div T = k - 1
  <2> DEFINE r == p \div T
             m == p % T
             d == p - T * (k - 1)
  <2>1. p \in Nat /\ r \in Nat /\ m \in 0 .. T - 1 /\ p = T * r + m
    BY <1>1
  <2> HIDE DEF r, m
  <2>2. T * (k - 1) = NPAGE - T
    BY <1>1
  <2>3. d \in 0 .. T - 1 /\ p = T * (k - 1) + d
    BY <1>1, <1>2, <2>1, <2>2
  <2> HIDE DEF d
  <2>4. T * r + m = T * (k - 1) + d /\ r \in Int /\ k - 1 \in Int
    BY <1>1, <2>1, <2>3
  <2>5. r = k - 1
    BY <1>1, <2>1, <2>3, <2>4, SplitOnce
  <2>6. QED
    BY <2>5 DEF r
<1>3. GuardPage \in GuardPage .. NPAGE - 1
  BY <1>1, ImageAssumption DEF GuardPage
<1>4. QED
  BY <1>2, <1>3 DEF Above, PT, PD, PDPT, T

LEMMA HeadersEndInv ==
  ASSUME IInv, HeadersEnd
  PROVE  IInv'
<1>1. /\ pc = "headers" /\ pc' = "stack" /\ next' = GuardPage
      /\ UNCHANGED <<read, done, end, pages, tables>>
  BY DEF HeadersEnd
<1>2. TypeOK /\ GoodHeaders /\ MappedPages /\ Entries /\ Tables /\ Bytes
  BY <1>1 DEF IInv, Sound
<1>3. GuardPage \in Nat /\ GuardPage <= NPAGE /\ NPAGE \in Nat /\ GuardPage .. GuardPage - 1 = {}
      /\ ~(GuardPage > GuardPage)
  BY Sizes DEF Page
<1>4. TypeOK'
  BY <1>1, <1>2, <1>3 DEF TypeOK
<1>5. /\ Loaded' = Loaded /\ ImagePages' = ImagePages
      /\ \A i : On(i)' = On(i) /\ Writable(i)' = Writable(i)
      /\ \A m, a, b : Says(m, a, b)' <=> Says(m, a, b)
      /\ Len(read') = Len(read)
  BY <1>1, SameHeaders
<1>6. GoodHeaders'
  BY <1>1, <1>2, <1>5 DEF GoodHeaders, Busy
<1>7. \A i, q : (Mapped(i, q)' <=> Mapped(i, q)) /\ (Mapped(i, q) <=> q \in On(i))
  BY <1>1, <1>5 DEF Mapped
<1>8. MappedPages'
  BY <1>1, <1>2, <1>3, <1>5, <1>7 DEF MappedPages
<1>9. Entries'
  BY <1>1, <1>2, <1>5, <1>7 DEF Entries
<1>10. \A i, q : Opener(i, q)' <=> Opener(i, q)
  BY <1>5, <1>7 DEF Opener
<1>11. Tables'
  BY <1>1, <1>2, <1>3, <1>5, <1>10 DEF Tables
<1>12. Bytes'
  <2>1. ASSUME NEW a \in UserAddress, PageOf(a) \in DOMAIN pages
        PROVE  Says(Len(read), a, Byte(a))'
    <3>1. Says(Len(read), a, Byte(a))
      BY <1>1, <1>2, <2>1 DEF Bytes
    <3>2. PICK m, b : m = Len(read) /\ b = Byte(a) /\ Says(m, a, b)
      BY <3>1
    <3>3. Says(m, a, b)' /\ b = Byte(a)' /\ m = Len(read)'
      BY <1>1, <1>5, <3>2 DEF Byte
    <3>4. QED
      BY <3>3 DEF Says
  <2>2. QED
    BY <1>1, <2>1 DEF Bytes
<1>13. QED
  BY <1>4, <1>6, <1>8, <1>9, <1>11, <1>12 DEF IInv, Sound

LEMMA MapStackInv ==
  ASSUME IInv, MapStackPage
  PROVE  IInv'
<1>1. /\ pc = "stack" /\ pc' = "stack" /\ next < NPAGE /\ next \notin DOMAIN pages
      /\ MapTo(next, TRUE, next # GuardPage) /\ next' = next + 1
      /\ UNCHANGED <<read, done, end>>
  BY DEF MapStackPage
<1>2. TypeOK /\ GoodHeaders /\ MappedPages /\ Entries /\ Tables /\ Bytes
  BY <1>1 DEF IInv, Sound
<1>3. /\ next \in GuardPage .. NPAGE - 1 /\ next \in Page /\ next \in Nat /\ GuardPage \in Nat /\ NPAGE \in Nat
      /\ next' \in GuardPage .. NPAGE /\ next' \in 0 .. NPAGE
      /\ GuardPage .. next' - 1 = (GuardPage .. next - 1) \cup {next}
      /\ next' > GuardPage
  <2>1. next \in GuardPage .. NPAGE /\ next \in 0 .. NPAGE
    BY <1>1, <1>2 DEF MappedPages, TypeOK
  <2>2. next \in GuardPage .. NPAGE - 1 /\ next \in Page /\ next \in Nat /\ GuardPage \in Nat /\ NPAGE \in Nat
    BY <1>1, <2>1, Sizes DEF Page
  <2>3. \A q : q \in GuardPage .. next \/ q \in GuardPage .. next - 1 => q \in Int
    BY <2>2
  <2>4. GuardPage .. next = (GuardPage .. next - 1) \cup {next}
    BY <2>2
  <2>5. QED
    BY <1>1, <2>2, <2>4
<1>4. MemoryOK
  BY <1>2, TypeParts
<1> DEFINE u == next # GuardPage
           G == Above(GuardPage)
<1>5. /\ MemoryOK' /\ DOMAIN pages' = DOMAIN pages \cup {next} /\ pages'[next] = Entry(TRUE, u)
      /\ \A q \in DOMAIN pages : pages'[q] = pages[q]
      /\ DOMAIN tables' = DOMAIN tables \cup G
      /\ \A r \in DOMAIN tables : r \notin G => tables'[r] = tables[r]
      /\ \A r \in G : /\ tables'[r].write = ((r \in DOMAIN tables /\ tables[r].write) \/ TRUE)
                      /\ tables'[r].user = ((r \in DOMAIN tables /\ tables[r].user) \/ u)
  <2>1. Above(next) = G
    BY <1>3, OneRegion
  <2>2. u \in BOOLEAN /\ TRUE \in BOOLEAN /\ MapTo(next, TRUE, u)
    BY <1>1
  <2> HIDE DEF u, G
  <2>3. /\ MemoryOK' /\ DOMAIN pages' = DOMAIN pages \cup {next} /\ pages'[next] = Entry(TRUE, u)
        /\ \A q \in DOMAIN pages : pages'[q] = pages[q]
        /\ DOMAIN tables' = DOMAIN tables \cup Above(next)
        /\ \A r \in DOMAIN tables : r \notin Above(next) => tables'[r] = tables[r]
        /\ \A r \in Above(next) :
             /\ tables'[r].write = ((r \in DOMAIN tables /\ tables[r].write) \/ TRUE)
             /\ tables'[r].user = ((r \in DOMAIN tables /\ tables[r].user) \/ u)
    BY <1>1, <1>3, <1>4, <2>2, MapToIs
  <2>4. QED
    BY <2>1, <2>3
<1>6. /\ Entry(TRUE, u).write = TRUE /\ Entry(TRUE, u).user = u
      /\ Entry(TRUE, u).bytes = Zeros /\ \A k \in InPage : Zeros[k] = 0
  BY EntryType
<1>7. TypeOK'
  BY <1>1, <1>2, <1>3, <1>5 DEF TypeOK, MemoryOK, Page, PageEntry
<1>8. /\ Loaded' = Loaded /\ ImagePages' = ImagePages
      /\ \A i : On(i)' = On(i) /\ Writable(i)' = Writable(i)
      /\ \A m, a, b : Says(m, a, b)' <=> Says(m, a, b)
      /\ Len(read') = Len(read)
  BY <1>1, SameHeaders
<1>9. GoodHeaders'
  BY <1>1, <1>2, <1>8 DEF GoodHeaders, Busy
<1>10. \A i, q : (Mapped(i, q)' <=> q \in On(i)) /\ (Mapped(i, q) <=> q \in On(i))
  BY <1>1, <1>8 DEF Mapped
<1>11. /\ \A i \in Loaded : \A q \in On(i) : q \in DOMAIN pages
       /\ \A q \in DOMAIN pages : (\E i \in Loaded : q \in On(i)) \/ q \in GuardPage .. next - 1
       /\ GuardPage .. next - 1 \subseteq DOMAIN pages
       /\ \A q \in ImagePages : q \notin GuardPage .. next - 1
  BY <1>1, <1>2, <1>10 DEF MappedPages
<1>12. \A i \in Loaded : next \notin On(i)
  BY <1>1, <1>11
<1>13. next \notin ImagePages /\ next' - 1 = next
  BY <1>1, <1>3, <1>12 DEF ImagePages
<1> HIDE DEF u, G
<1>14. MappedPages'
  <2>1. \A i \in Loaded' : \A q \in On(i)' : Mapped(i, q)' => q \in DOMAIN pages'
    BY <1>5, <1>8, <1>11
  <2>2. \A q \in DOMAIN pages' : (\E i \in Loaded' : Mapped(i, q)') \/ q \in GuardPage .. next' - 1
    BY <1>3, <1>5, <1>8, <1>10, <1>11
  <2>3. GuardPage .. next' - 1 \subseteq DOMAIN pages'
    BY <1>3, <1>5, <1>11
  <2>4. \A q \in ImagePages' : q \notin GuardPage .. next' - 1
    BY <1>3, <1>8, <1>11, <1>13
  <2>5. QED
    BY <1>1, <1>3, <2>1, <2>2, <2>3, <2>4 DEF MappedPages
<1>15. Entries'
  <2>1. ASSUME NEW q \in DOMAIN pages', q # next
        PROVE  /\ (\E i \in Loaded : q \in On(i)) =>
                    pages'[q].user /\ pages'[q].write = (\E i \in Loaded : q \in On(i) /\ Writable(i))
               /\ ~(\E i \in Loaded : q \in On(i)) =>
                    pages'[q].user = (q # GuardPage) /\ pages'[q].write /\ pages'[q].bytes = Zeros
    <3>1. q \in DOMAIN pages /\ pages'[q] = pages[q]
      BY <1>5, <2>1
    <3>2. QED
      BY <1>2, <1>10, <3>1 DEF Entries
  <2>2. /\ ~(\E i \in Loaded : next \in On(i))
        /\ pages'[next].user = (next # GuardPage) /\ pages'[next].write /\ pages'[next].bytes = Zeros
    BY <1>5, <1>6, <1>12 DEF u
  <2>3. ASSUME NEW q \in DOMAIN pages'
        PROVE  /\ (\E i \in Loaded' : Mapped(i, q)') =>
                    pages'[q].user /\ pages'[q].write = (\E i \in Loaded' : Mapped(i, q)' /\ Writable(i)')
               /\ ~(\E i \in Loaded' : Mapped(i, q)') =>
                    pages'[q].user = (q # GuardPage) /\ pages'[q].write /\ pages'[q].bytes = Zeros
    <3>1. CASE q = next
      BY <1>8, <1>10, <2>2, <3>1
    <3>2. CASE q # next
      BY <1>8, <1>10, <2>1, <3>2
    <3>3. QED
      BY <3>1, <3>2
  <2>4. QED
    BY <2>3 DEF Entries, GuardPage, Zeros
<1>16. \A i, q : Opener(i, q)' <=> Opener(i, q)
  BY <1>8, <1>10 DEF Opener
<1>17. Tables'
  <2>1. ASSUME NEW r \in DOMAIN tables'
        PROVE  /\ \E q \in DOMAIN pages' : r \in Above(q)
               /\ tables'[r].user \/ (r \in G /\ next' = GuardPage + 1)
               /\ tables'[r].write =
                    \/ \E q \in ImagePages' : r \in Above(q) /\ \E i \in Loaded' : Opener(i, q)' /\ Writable(i)'
                    \/ r \in G
    <3>1. CASE r \in G
      <4>1. \E q \in DOMAIN pages' : r \in Above(q)
        BY <1>3, <1>5, <3>1, OneRegion DEF G
      <4>2. tables'[r].write = TRUE
        BY <1>5, <3>1
      <4>3. CASE next = GuardPage
        BY <1>1, <3>1, <4>1, <4>2, <4>3
      <4>4. CASE next # GuardPage
        BY <1>5, <3>1, <4>1, <4>2, <4>4 DEF u
      <4>5. QED
        BY <4>3, <4>4
    <3>2. CASE r \notin G
      <4>1. r \in DOMAIN tables /\ tables'[r] = tables[r]
        BY <1>5, <2>1, <3>2
      <4>2. /\ \E q \in DOMAIN pages : r \in Above(q)
            /\ tables[r].user
            /\ tables[r].write = \E q \in ImagePages : r \in Above(q) /\ \E i \in Loaded : Opener(i, q) /\ Writable(i)
        BY <1>1, <1>2, <3>2, <4>1 DEF Tables, G
      <4>3. (\E q \in ImagePages' : r \in Above(q) /\ \E i \in Loaded' : Opener(i, q)' /\ Writable(i)')
              <=> \E q \in ImagePages : r \in Above(q) /\ \E i \in Loaded : Opener(i, q) /\ Writable(i)
        BY <1>8, <1>16
      <4>4. \E q \in DOMAIN pages' : r \in Above(q)
        BY <1>5, <4>2
      <4>5. QED
        BY <3>2, <4>1, <4>2, <4>3, <4>4
    <3>3. QED
      BY <3>1, <3>2
  <2>2. QED
    BY <1>1, <1>3, <2>1 DEF Tables, G, Above, GuardPage
<1>18. Bytes'
  <2>1. ASSUME NEW a \in UserAddress, PageOf(a) \in DOMAIN pages'
        PROVE  Says(Len(read), a, Byte(a))'
    <3>1. PICK m, b : m = Len(read) /\ b = Byte(a)'
      OBVIOUS
    <3>2. Says(m, a, b)
      <4>1. a \in Nat /\ a % PageSize \in InPage
        BY PageOfAddress
      <4>2. CASE PageOf(a) \in DOMAIN pages
        <5>1. Byte(a)' = Byte(a)
          BY <1>5, <4>2 DEF Byte
        <5>2. Says(Len(read), a, Byte(a))
          BY <1>1, <1>2, <2>1, <4>2 DEF Bytes
        <5>3. QED
          BY <3>1, <5>1, <5>2
      <4>3. CASE PageOf(a) \notin DOMAIN pages
        <5>1. b = 0
          BY <1>5, <1>6, <2>1, <3>1, <4>1, <4>3 DEF Byte
        <5>2. \A i \in Loaded : ~Covers(i, a)
          BY <1>2, <1>11, <4>1, <4>3, SegmentPages
        <5>3. QED
          BY <5>1, <5>2 DEF Says
      <4>4. QED
        BY <4>2, <4>3
    <3>3. Says(m, a, b)' /\ m = Len(read)'
      BY <1>8, <3>1, <3>2
    <3>4. QED
      BY <3>1, <3>3 DEF Says
  <2>2. QED
    BY <1>1, <2>1 DEF Bytes
<1>19. QED
  BY <1>7, <1>9, <1>14, <1>15, <1>17, <1>18 DEF IInv, Sound

\* A table that no image page is under is that of the stack.
LEMMA ReadyInv ==
  ASSUME IInv, Ready
  PROVE  IInv'
<1>1. /\ pc = "stack" /\ pc' = "ready" /\ next = NPAGE
      /\ UNCHANGED <<read, next, done, end, pages, tables>>
  BY DEF Ready
<1>2. TypeOK /\ GoodHeaders /\ MappedPages /\ Entries /\ Tables /\ Bytes
  BY <1>1 DEF IInv, Sound
<1>3. /\ GuardPage \in Nat /\ NPAGE \in Nat /\ NPAGE > GuardPage /\ NPAGE # GuardPage + 1
  BY Sizes DEF Page, GuardPage
<1>4. TypeOK'
  BY <1>1, <1>2 DEF TypeOK
<1>5. /\ Loaded' = Loaded /\ ImagePages' = ImagePages
      /\ \A i : On(i)' = On(i) /\ Writable(i)' = Writable(i)
      /\ \A m, a, b : Says(m, a, b)' <=> Says(m, a, b)
      /\ Len(read') = Len(read)
  BY <1>1, SameHeaders
<1>6. GoodHeaders'
  BY <1>1, <1>2, <1>5 DEF GoodHeaders, Busy
<1>7. \A i, q : (Mapped(i, q)' <=> Mapped(i, q)) /\ (Mapped(i, q) <=> q \in On(i))
  BY <1>1, <1>5 DEF Mapped
<1>8. /\ \A i \in Loaded : \A q \in On(i) : Mapped(i, q) => q \in DOMAIN pages
      /\ \A q \in DOMAIN pages : (\E i \in Loaded : Mapped(i, q)) \/ q \in GuardPage .. NPAGE - 1
      /\ GuardPage .. NPAGE - 1 \subseteq DOMAIN pages
      /\ \A q \in ImagePages : q \notin GuardPage .. NPAGE - 1
  BY <1>1, <1>2 DEF MappedPages
<1>9. \A q \in ImagePages : q < GuardPage
  BY <1>2, <1>3, <1>8, ImagePagesIn DEF Page
<1>10. \A q \in GuardPage .. NPAGE - 1 : q >= GuardPage
  BY <1>3
<1>11. MappedPages'
  BY <1>1, <1>3, <1>5, <1>7, <1>8, <1>9, <1>10 DEF MappedPages
<1>12. Entries'
  BY <1>1, <1>2, <1>5, <1>7 DEF Entries
<1>13. \A i, q : Opener(i, q)' <=> Opener(i, q)
  BY <1>5, <1>7 DEF Opener
<1>14. Tables'
  <2> DEFINE Opened(r) == \E q \in ImagePages : r \in Above(q) /\ \E i \in Loaded : Opener(i, q) /\ Writable(i)
  <2>1. ASSUME NEW r \in DOMAIN tables
        PROVE  /\ tables[r].user
               /\ tables[r].write = (Opened(r) \/ r \in Above(GuardPage))
               /\ (\A q \in ImagePages : r \notin Above(q)) => r \in Above(GuardPage)
    <3>1. /\ \E q \in DOMAIN pages : r \in Above(q)
          /\ tables[r].user
          /\ tables[r].write = (Opened(r) \/ r \in Above(GuardPage))
      BY <1>1, <1>2, <1>3 DEF Tables
    <3>2. PICK q \in DOMAIN pages : r \in Above(q)
      BY <3>1
    <3>3. q \in GuardPage .. NPAGE - 1 => r \in Above(GuardPage)
      BY <3>2, OneRegion
    <3>4. (\E i \in Loaded : Mapped(i, q)) => q \in ImagePages
      BY <1>7 DEF ImagePages
    <3>5. QED
      BY <1>8, <3>1, <3>2, <3>3, <3>4
  <2>2. \A r : Opened(r) <=>
          \E q \in ImagePages' : r \in Above(q) /\ \E i \in Loaded' : Opener(i, q)' /\ Writable(i)'
    BY <1>5, <1>13
  <2> HIDE DEF Opened
  <2>3. ASSUME NEW r \in DOMAIN tables'
        PROVE  /\ tables'[r].user
               /\ tables'[r].write =
                    \/ \E q \in ImagePages' : r \in Above(q) /\ \E i \in Loaded' : Opener(i, q)' /\ Writable(i)'
                    \/ r \in Above(GuardPage)
                    \/ \A q \in ImagePages' : r \notin Above(q)
    BY <1>1, <1>5, <2>1, <2>2
  <2>4. QED
    BY <1>1, <2>3 DEF Tables, Above, GuardPage
<1>15. Bytes'
  <2>1. ASSUME NEW a \in UserAddress, PageOf(a) \in DOMAIN pages
        PROVE  Says(Len(read), a, Byte(a))'
    <3>1. Says(Len(read), a, Byte(a))
      BY <1>1, <1>2, <2>1 DEF Bytes
    <3>2. PICK m, b : m = Len(read) /\ b = Byte(a) /\ Says(m, a, b)
      BY <3>1
    <3>3. Says(m, a, b)' /\ b = Byte(a)' /\ m = Len(read)'
      BY <1>1, <1>5, <3>2 DEF Byte
    <3>4. QED
      BY <3>3 DEF Says
  <2>2. QED
    BY <1>1, <2>1 DEF Bytes
<1>16. QED
  BY <1>4, <1>6, <1>11, <1>12, <1>14, <1>15 DEF IInv, Sound

-----------------------------------------------------------------------------
(* The heap                                                                *)

\* It starts above the image, and at most at the guard page.
LEMMA HeapBelowGuard ==
  ASSUME IInv, pc = "ready"
  PROVE  /\ HeapPage \in Nat /\ HeapPage <= GuardPage
         /\ \A q \in ImagePages : q < HeapPage
<1>1. TypeOK /\ GoodHeaders /\ MappedPages /\ end \in Nat /\ PageSize \in Nat \ {0} /\ GuardPage \in Nat
  BY Sizes DEF IInv, Sound, TypeOK, Page
<1>2. \A i \in Loaded : i \in Loaded /\ On(i) \subseteq ImagePages
  BY DEF ImagePages
<1>3. \A q \in ImagePages : q < GuardPage /\ q \in Nat
  BY <1>1, ImagePagesIn, Sizes DEF MappedPages, Page
<1> DEFINE e == end + PageSize - 1
<1>4. e \in Nat /\ HeapPage = PageOf(e)
  BY <1>1 DEF HeapPage
<1>5. \A n \in Nat : n * PageSize \in Nat /\ (n + 1) * PageSize = (n * PageSize) + PageSize
  BY <1>1
\* The page after that of an address below end is at most the heap's, and the other way round.
<1>6. ASSUME NEW n \in Nat PROVE n < HeapPage <=> n * PageSize < end
  <2>1. e < (n + 1) * PageSize <=> PageOf(e) < n + 1
    BY <1>4, PageBelow
  <2>2. PageOf(e) \in Nat
    BY <1>4, Split
  <2>3. e < (n + 1) * PageSize <=> ~(n * PageSize < end)
    BY <1>1, <1>5
  <2>4. QED
    BY <1>4, <2>1, <2>2, <2>3
<1>7. HeapPage \in Nat
  BY <1>4, Split
<1>8. HeapPage <= GuardPage
  <2>1. CASE end = 0
    BY <1>1, <1>5, <1>6, <1>7, <2>1
  <2>2. CASE end # 0
    <3>1. PICK i \in Loaded : end = read[i].vaddr + read[i].memsz
      BY <1>1, <2>2 DEF GoodHeaders
    <3> DEFINE v == read[i].vaddr
               m == read[i].memsz
    <3>2. v \in Nat /\ m \in Nat \ {0}
      BY <1>1, SegmentType
    <3>3. PageOf(v + m - 1) \in On(i)
      <4>1. PageOf(v) <= PageOf(v + m - 1) /\ PageOf(v) \in Page /\ PageOf(v + m - 1) \in Page
        BY <1>1, SegmentPages
      <4>2. On(i) = PageOf(v) .. PageOf(v + m - 1)
        BY DEF On
      <4> HIDE DEF v, m
      <4>3. QED
        BY <4>1, <4>2, Sizes DEF Page
    <3>4. PageOf(v + m - 1) < GuardPage
      BY <1>2, <1>3, <3>3
    <3> HIDE DEF v, m
    <3>5. v + m - 1 \in Nat
      BY <3>2
    <3>6. v + m - 1 < GuardPage * PageSize
      BY <1>1, <3>4, <3>5, PageBelow
    <3>7. end = v + m
      BY <3>1 DEF v, m
    <3>8. ~(GuardPage * PageSize < end)
      BY <1>1, <1>5, <3>2, <3>6, <3>7
    <3>9. QED
      BY <1>1, <1>6, <1>7, <3>8
  <2>3. QED
    BY <2>1, <2>2
<1>9. ASSUME NEW q \in ImagePages PROVE q < HeapPage
  <2>1. PICK i \in Loaded : q \in On(i)
    BY DEF ImagePages
  <2> DEFINE v == read[i].vaddr
             m == read[i].memsz
  <2>2. v \in Nat /\ m \in Nat \ {0} /\ v + m <= end
    BY <1>1, SegmentType DEF GoodHeaders
  <2>3. q <= PageOf(v + m - 1) /\ q \in Nat
    <3>1. PageOf(v) \in Page /\ PageOf(v + m - 1) \in Page
      BY <1>1, SegmentPages
    <3>2. q \in PageOf(v) .. PageOf(v + m - 1)
      BY <2>1 DEF On
    <3> HIDE DEF v, m
    <3>3. QED
      BY <1>3, <3>1, <3>2, Sizes DEF Page
  <2> HIDE DEF v, m
  <2>4. v + m - 1 \in Nat
    BY <2>2
  <2>5. v + m - 1 < q * PageSize <=> PageOf(v + m - 1) < q
    BY <2>3, <2>4, PageBelow
  <2>6. PageOf(v + m - 1) \in Nat
    BY <2>4, Split
  <2>7. q * PageSize < end
    BY <1>1, <1>5, <2>2, <2>3, <2>5, <2>6
  <2>8. QED
    BY <1>6, <2>3, <2>7
<1>10. QED
  BY <1>7, <1>8, <1>9

\* What alloc_uvm does: pages up to the guard page at most, and all of them or none, and
\* tables without a page of the image.
LEMMA SbrkIs ==
  ASSUME IInv, NEW n \in Nat, SbrkGrow(n)
  PROVE  /\ MemoryOK'
         /\ \E S : /\ DOMAIN pages' = DOMAIN pages \cup S /\ S \cap DOMAIN pages = {}
                   /\ \A q \in S : /\ q \in Page /\ q \in HeapPage .. GuardPage - 1
                                   /\ HeapPage .. q \subseteq DOMAIN pages'
                                   /\ pages'[q] = Entry(TRUE, TRUE)
         /\ \A q \in DOMAIN pages : pages'[q] = pages[q]
         /\ DOMAIN tables \subseteq DOMAIN tables'
         /\ \A r \in DOMAIN tables : tables'[r] = tables[r]
         /\ \A r \in DOMAIN tables' \ DOMAIN tables : tables'[r].write /\ tables'[r].user
<1> DEFINE H == HeapPage
           X == PageOf((HeapPage * PageSize + n) + PageSize - 1) - 1
           wanted == H .. X
           met == {q \in wanted : \A b \in H .. q - 1 : b \notin DOMAIN pages}
           new == (UNION {Above(q) : q \in met}) \ DOMAIN tables
           taken == wanted \cap DOMAIN pages # {}
           S == IF taken THEN {} ELSE wanted
<1>1. /\ pc = "ready" /\ UNCHANGED <<pc, read, next, done, end>>
      /\ tables' = With(tables, new, [write |-> TRUE, user |-> TRUE])
      /\ pages' = IF taken THEN pages ELSE With(pages, wanted, Entry(TRUE, TRUE))
  BY DEF SbrkGrow
<1>2. H \in Nat /\ H <= GuardPage /\ GuardPage \in Nat /\ GuardPage < NPAGE /\ NPAGE \in Nat
  BY <1>1, HeapBelowGuard, Sizes DEF Page
<1>3. X \in Int
  <2>1. (H * PageSize + n) + PageSize - 1 \in Nat
    BY <1>2, Sizes
  <2>2. PageOf((H * PageSize + n) + PageSize - 1) \in Nat
    BY <2>1, Split
  <2>3. QED
    BY <2>2
<1>4. GuardPage \in DOMAIN pages
  <2>1. GuardPage .. NPAGE - 1 \subseteq DOMAIN pages
    BY <1>1 DEF IInv, Sound, MappedPages
  <2>2. QED
    BY <1>2, <2>1
<1>5. MemoryOK
  BY TypeParts DEF IInv
<1> HIDE DEF H, X
<1>6. ASSUME ~taken
      PROVE  \A q \in wanted : /\ q \in Page /\ q \in H .. GuardPage - 1 /\ q \in met
                               /\ H .. q \subseteq wanted
  <2>1. TAKE q \in wanted
  <2>2. q \in Int /\ H <= q /\ q <= X
    BY <1>2, <1>3
  <2>3. GuardPage \notin wanted
    BY <1>4, <1>6
  <2>4. q < GuardPage
    BY <1>2, <1>3, <2>2, <2>3
  <2>5. H .. q \subseteq wanted /\ H .. q - 1 \subseteq wanted
    BY <1>2, <1>3, <2>2
  <2>6. q \in met
    BY <1>6, <2>5
  <2>7. QED
    BY <1>2, <2>2, <2>4, <2>5, <2>6 DEF Page
<1> HIDE DEF met
<1>7. /\ DOMAIN tables' = DOMAIN tables \cup new
      /\ \A r \in DOMAIN tables : tables'[r] = tables[r]
      /\ \A r \in DOMAIN tables' \ DOMAIN tables : tables'[r] = [write |-> TRUE, user |-> TRUE]
  BY <1>1 DEF With
<1> HIDE DEF wanted
<1>8. /\ DOMAIN pages' = DOMAIN pages \cup S /\ S \cap DOMAIN pages = {}
      /\ \A q \in S : pages'[q] = Entry(TRUE, TRUE)
      /\ \A q \in DOMAIN pages : pages'[q] = pages[q]
  BY <1>1 DEF With
<1>9. \A q \in S : /\ q \in Page /\ q \in H .. GuardPage - 1 /\ H .. q \subseteq S /\ q \in met
  BY <1>6
<1>10. \A q \in S : Above(q) \subseteq DOMAIN tables'
  BY <1>7, <1>9
<1> HIDE DEF S, new
<1>11. MemoryOK'
  <2>1. DOMAIN pages' \subseteq Page
    BY <1>5, <1>8, <1>9 DEF MemoryOK
  <2>2. Entry(TRUE, TRUE) \in PageEntry
    BY EntryType
  <2>3. \A q \in DOMAIN pages' : pages'[q] \in PageEntry /\ Above(q) \subseteq DOMAIN tables'
    BY <1>5, <1>7, <1>8, <1>10, <2>2 DEF MemoryOK
  <2>4. \A r \in DOMAIN tables' : tables'[r] \in Flags
    <3>1. [write |-> TRUE, user |-> TRUE] \in Flags
      BY DEF Flags
    <3>2. QED
      BY <1>5, <1>7, <3>1 DEF MemoryOK
  <2>5. tables' \in [DOMAIN tables' -> Flags]
    BY <1>1, <2>4 DEF With
  <2>6. QED
    BY <2>1, <2>3, <2>5 DEF MemoryOK
<1>12. \A q \in S : /\ q \in Page /\ q \in H .. GuardPage - 1
                    /\ H .. q \subseteq DOMAIN pages'
                    /\ pages'[q] = Entry(TRUE, TRUE)
  BY <1>8, <1>9
<1>13. DOMAIN pages' = DOMAIN pages \cup S /\ S \cap DOMAIN pages = {}
  BY <1>8
<1>14. \A r \in DOMAIN tables' \ DOMAIN tables : tables'[r].write /\ tables'[r].user
  BY <1>7
<1>15. /\ \A q \in DOMAIN pages : pages'[q] = pages[q]
       /\ DOMAIN tables \subseteq DOMAIN tables'
       /\ \A r \in DOMAIN tables : tables'[r] = tables[r]
  BY <1>7, <1>8
<1>16. QED
  BY <1>11, <1>12, <1>13, <1>14, <1>15 DEF H

LEMMA SbrkInv ==
  ASSUME IInv, NEW n \in Nat, SbrkGrow(n)
  PROVE  IInv'
<1>1. pc = "ready" /\ pc' = "ready" /\ UNCHANGED <<read, next, done, end>>
  BY DEF SbrkGrow
<1>2. TypeOK /\ GoodHeaders /\ MappedPages /\ Entries /\ Tables /\ Bytes
  BY <1>1 DEF IInv, Sound
<1>3. /\ MemoryOK'
      /\ \A q \in DOMAIN pages : pages'[q] = pages[q]
      /\ DOMAIN tables \subseteq DOMAIN tables'
      /\ \A r \in DOMAIN tables : tables'[r] = tables[r]
      /\ \A r \in DOMAIN tables' \ DOMAIN tables : tables'[r].write /\ tables'[r].user
  BY SbrkIs
<1>4. PICK S :
      /\ DOMAIN pages' = DOMAIN pages \cup S /\ S \cap DOMAIN pages = {}
      /\ \A q \in S : /\ q \in Page /\ q \in HeapPage .. GuardPage - 1
                      /\ HeapPage .. q \subseteq DOMAIN pages'
                      /\ pages'[q] = Entry(TRUE, TRUE)
  BY SbrkIs
<1>5. TypeOK'
  BY <1>1, <1>2, <1>3 DEF TypeOK, MemoryOK, Page, PageEntry
<1>6. /\ Loaded' = Loaded /\ ImagePages' = ImagePages
      /\ \A i : On(i)' = On(i) /\ Writable(i)' = Writable(i)
      /\ \A m, a, b : Says(m, a, b)' <=> Says(m, a, b)
      /\ Len(read') = Len(read)
  BY <1>1, SameHeaders
<1>7. GoodHeaders'
  BY <1>1, <1>2, <1>6 DEF GoodHeaders, Busy
<1>8. \A i, q : (Mapped(i, q)' <=> q \in On(i)) /\ (Mapped(i, q) <=> q \in On(i))
  BY <1>1, <1>6 DEF Mapped
<1>9. /\ \A i \in Loaded : \A q \in On(i) : q \in DOMAIN pages
      /\ \A q \in DOMAIN pages :
           \/ \E i \in Loaded : q \in On(i)
           \/ q >= GuardPage \/ (q >= HeapPage /\ HeapPage .. q \subseteq DOMAIN pages)
      /\ GuardPage .. NPAGE - 1 \subseteq DOMAIN pages
      /\ \A q \in ImagePages : q < GuardPage
  BY <1>1, <1>2, <1>8 DEF MappedPages
<1>10. \A q \in S : q >= HeapPage /\ q # GuardPage
  <2>1. HeapPage \in Nat /\ GuardPage \in Nat
    BY <1>1, HeapBelowGuard, Sizes DEF Page
  <2>2. \A q \in S : q \in HeapPage .. GuardPage - 1
    BY <1>4
  <2> HIDE DEF Page
  <2>3. QED
    BY <2>1, <2>2
<1>11. \A q \in S : \A i \in Loaded : q \notin On(i)
  BY <1>4, <1>9
<1>12. MappedPages'
  <2>1. \A i \in Loaded' : \A q \in On(i)' : Mapped(i, q)' => q \in DOMAIN pages'
    BY <1>4, <1>6, <1>9
  <2>2. HeapPage' = HeapPage
    BY <1>1 DEF HeapPage, PageOf
  <2>3. \A q \in DOMAIN pages' :
           \/ \E i \in Loaded' : Mapped(i, q)'
           \/ q >= GuardPage \/ (q >= HeapPage' /\ HeapPage' .. q \subseteq DOMAIN pages')
    <3>1. TAKE q \in DOMAIN pages'
    <3>2. CASE q \in S
      BY <1>4, <1>10, <2>2, <3>2
    <3>3. CASE q \in DOMAIN pages
      <4>1. HeapPage .. q \subseteq DOMAIN pages => HeapPage' .. q \subseteq DOMAIN pages'
        BY <1>4, <2>2
      <4>2. QED
        BY <1>6, <1>8, <1>9, <2>2, <3>3, <4>1
    <3>4. QED
      BY <1>4, <3>2, <3>3
  <2>4. GuardPage .. NPAGE - 1 \subseteq DOMAIN pages'
    BY <1>4, <1>9
  <2>5. \A q \in ImagePages' : q < GuardPage
    BY <1>6, <1>9
  <2>6. QED
    BY <1>1, <2>1, <2>3, <2>4, <2>5 DEF MappedPages, GuardPage
<1>13. Entries'
  <2>1. /\ Entry(TRUE, TRUE).write = TRUE /\ Entry(TRUE, TRUE).user = TRUE
        /\ Entry(TRUE, TRUE).bytes = Zeros
    BY EntryType
  <2>2. ASSUME NEW q \in S
        PROVE  /\ ~(\E i \in Loaded : q \in On(i))
               /\ pages'[q].user = (q # GuardPage) /\ pages'[q].write /\ pages'[q].bytes = Zeros
    BY <1>4, <1>10, <1>11, <2>1, <2>2
  <2>3. ASSUME NEW q \in DOMAIN pages
        PROVE  /\ (\E i \in Loaded : q \in On(i)) =>
                    pages'[q].user /\ pages'[q].write = (\E i \in Loaded : q \in On(i) /\ Writable(i))
               /\ ~(\E i \in Loaded : q \in On(i)) =>
                    pages'[q].user = (q # GuardPage) /\ pages'[q].write /\ pages'[q].bytes = Zeros
    <3>1. pages'[q] = pages[q]
      BY <1>3, <2>3
    <3>2. QED
      BY <1>2, <1>8, <3>1 DEF Entries
  <2>4. ASSUME NEW q \in DOMAIN pages'
        PROVE  /\ (\E i \in Loaded' : Mapped(i, q)') =>
                    pages'[q].user /\ pages'[q].write = (\E i \in Loaded' : Mapped(i, q)' /\ Writable(i)')
               /\ ~(\E i \in Loaded' : Mapped(i, q)') =>
                    pages'[q].user = (q # GuardPage) /\ pages'[q].write /\ pages'[q].bytes = Zeros
    <3>1. CASE q \in S
      BY <1>6, <1>8, <2>2, <3>1
    <3>2. CASE q \in DOMAIN pages
      BY <1>6, <1>8, <2>3, <3>2
    <3>3. QED
      BY <1>4, <3>1, <3>2
  <2>5. QED
    BY <2>4 DEF Entries, GuardPage, Zeros
<1>14. \A i, q : Opener(i, q)' <=> Opener(i, q)
  BY <1>6, <1>8 DEF Opener
<1>15. Tables'
  <2> DEFINE Opened(r) == \E q \in ImagePages : r \in Above(q) /\ \E i \in Loaded : Opener(i, q) /\ Writable(i)
             Empty(r) == \A q \in ImagePages : r \notin Above(q)
  <2>1. ASSUME NEW r \in DOMAIN tables
        PROVE  /\ tables'[r].user
               /\ tables'[r].write = (Opened(r) \/ r \in Above(GuardPage) \/ Empty(r))
    <3>1. tables'[r] = tables[r]
      BY <1>3, <2>1
    <3>2. tables[r].user /\ tables[r].write = (Opened(r) \/ r \in Above(GuardPage) \/ Empty(r))
      BY <1>1, <1>2 DEF Tables
    <3>3. QED
      BY <3>1, <3>2
  <2>2. ASSUME NEW r \in DOMAIN tables' \ DOMAIN tables PROVE Empty(r)
    <3>1. ASSUME NEW q \in ImagePages PROVE Above(q) \subseteq DOMAIN tables
      <4>1. q \in DOMAIN pages
        BY <1>9, <3>1 DEF ImagePages
      <4>2. QED
        BY <1>2, <4>1, TypeParts DEF MemoryOK
    <3>2. QED
      BY <2>2, <3>1
  <2>3. /\ \A r : Opened(r) <=>
              \E q \in ImagePages' : r \in Above(q) /\ \E i \in Loaded' : Opener(i, q)' /\ Writable(i)'
        /\ \A r : Empty(r) <=> \A q \in ImagePages' : r \notin Above(q)
    BY <1>6, <1>14
  <2> HIDE DEF Opened, Empty
  <2>4. MemoryOK'
    BY <1>3
  <2>5. ASSUME NEW r \in DOMAIN tables'
        PROVE  /\ tables'[r].user
               /\ tables'[r].write = (Opened(r) \/ r \in Above(GuardPage) \/ Empty(r))
    <3>1. CASE r \in DOMAIN tables
      BY <2>1, <3>1
    <3>2. CASE r \notin DOMAIN tables
      <4>1. tables'[r].write \in BOOLEAN
        BY <2>4, <2>5 DEF MemoryOK, Flags
      <4>2. QED
        BY <1>3, <2>2, <2>5, <3>2, <4>1
    <3>3. QED
      BY <3>1, <3>2
  <2>6. ASSUME NEW r \in DOMAIN tables'
        PROVE  /\ tables'[r].user
               /\ tables'[r].write =
                    \/ \E q \in ImagePages' : r \in Above(q) /\ \E i \in Loaded' : Opener(i, q)' /\ Writable(i)'
                    \/ r \in Above(GuardPage)
                    \/ \A q \in ImagePages' : r \notin Above(q)
    BY <2>3, <2>5, <2>6
  <2>7. QED
    BY <1>1, <2>6 DEF Tables, Above, GuardPage
<1>16. Bytes'
  <2>1. ASSUME NEW a \in UserAddress, PageOf(a) \in DOMAIN pages'
        PROVE  Says(Len(read), a, Byte(a))'
    <3>1. PICK m, b : m = Len(read) /\ b = Byte(a)'
      OBVIOUS
    <3>2. Says(m, a, b)
      <4>1. a \in Nat /\ a % PageSize \in InPage
        BY PageOfAddress
      <4>2. CASE PageOf(a) \in DOMAIN pages
        <5>1. Byte(a)' = Byte(a)
          BY <1>3, <4>2 DEF Byte
        <5>2. Says(Len(read), a, Byte(a))
          BY <1>1, <1>2, <2>1, <4>2 DEF Bytes
        <5>3. QED
          BY <3>1, <5>1, <5>2
      <4>3. CASE PageOf(a) \in S
        <5>1. Entry(TRUE, TRUE).bytes = Zeros /\ \A k \in InPage : Zeros[k] = 0
          BY EntryType
        <5>2. b = 0
          BY <1>4, <3>1, <4>1, <4>3, <5>1 DEF Byte
        <5>3. \A i \in Loaded : ~Covers(i, a)
          BY <1>2, <1>11, <4>1, <4>3, SegmentPages
        <5>4. QED
          BY <5>2, <5>3 DEF Says
      <4>4. QED
        BY <1>4, <2>1, <4>2, <4>3
    <3>3. Says(m, a, b)' /\ m = Len(read)'
      BY <1>6, <3>1, <3>2
    <3>4. QED
      BY <3>1, <3>3 DEF Says
  <2>2. QED
    BY <1>1, <2>1 DEF Bytes
<1>17. QED
  BY <1>5, <1>7, <1>12, <1>13, <1>15, <1>16 DEF IInv, Sound

-----------------------------------------------------------------------------
(* The invariant, and what it says when a program is ready                 *)

LEMMA StutterInv ==
  ASSUME IInv, UNCHANGED vars
  PROVE  IInv'
<1>1. TypeOK' <=> TypeOK
  BY DEF vars, TypeOK
<1>2. /\ \A i, q : Mapped(i, q)' <=> Mapped(i, q)
      /\ \A i, q : Opener(i, q)' <=> Opener(i, q)
  BY DEF vars, Mapped, Opener, On, Loaded
<1>3. GoodHeaders' <=> GoodHeaders
  BY DEF vars, GoodHeaders, Loaded, Busy
<1>4. MappedPages' <=> MappedPages
  BY DEF vars, MappedPages, Mapped, On, Loaded, ImagePages, HeapPage, LastPage, Segment
<1>5. Entries' <=> Entries
  BY DEF vars, Entries, Mapped, On, Loaded, Writable
<1>6. Tables' <=> Tables
  BY DEF vars, Tables, Opener, Mapped, On, Loaded, Writable, ImagePages
<1>7. Bytes' <=> Bytes
  BY DEF vars, Bytes, Byte, Says, Covers, Content, Loaded, Address, Segment
<1>8. QED
  BY <1>1, <1>3, <1>4, <1>5, <1>6, <1>7 DEF IInv, Sound, vars

\* Whatever the headers say and however far the heap has grown, the headers taken, the pages,
\* their tables and their bytes agree at every turn of prepare_exec_image and of alloc_uvm.
THEOREM Invariance == Spec => []IInv
<1>1. Init => IInv
  BY InitInv
<1>2. IInv /\ [Next]_vars => IInv'
  <2> SUFFICES ASSUME IInv, [Next]_vars PROVE IInv'
    OBVIOUS
  <2>1. CASE Begin
    BY <2>1, BeginInv
  <2>2. ASSUME NEW h \in Headers, SkipHeader(h) \/ RejectHeader(h) \/ TakeHeader(h) PROVE IInv'
    BY <2>2, SkipInv, RejectInv, TakeInv
  <2>3. CASE EnsurePage
    BY <2>3, EnsureInv
  <2>4. CASE EnsureEnds
    BY <2>4, EnsureEndsInv
  <2>5. CASE ZeroChunk
    BY <2>5, ZeroChunkInv
  <2>6. CASE ZeroEnds
    BY <2>6, ZeroEndsInv
  <2>7. CASE CopyChunk
    BY <2>7, CopyChunkInv
  <2>8. CASE CopyEnds
    BY <2>8, CopyEndsInv
  <2>9. CASE HeadersEnd
    BY <2>9, HeadersEndInv
  <2>10. CASE MapStackPage
    BY <2>10, MapStackInv
  <2>11. CASE StackTaken
    BY <2>11, TakenInv
  <2>12. CASE Ready
    BY <2>12, ReadyInv
  <2>13. ASSUME NEW n \in 1 .. MaxSbrk, SbrkGrow(n) PROVE IInv'
    <3>1. n \in Nat
      BY ImageAssumption
    <3>2. QED
      BY <2>13, <3>1, SbrkInv
  <2>14. CASE UNCHANGED vars
    BY <2>14, StutterInv
  <2>15. QED
    BY <2>1, <2>2, <2>3, <2>4, <2>5, <2>6, <2>7, <2>8, <2>9, <2>10, <2>11, <2>12, <2>13, <2>14
    DEF Next
<1>3. QED
  BY <1>1, <1>2, PTL DEF Spec

\* A set of naturals has a least element.
LEMMA LeastElement ==
  ASSUME NEW T, T \subseteq Nat, T # {}
  PROVE  \E x \in T : \A y \in T : x <= y
<1>1. PICK x \in T : \A y \in T : ~(<<y, x>> \in OpToRel(<, Nat))
  BY NatLessThanWellFounded, WFMin
<1>2. ASSUME NEW y \in T PROVE x <= y
  <2>1. x \in Nat /\ y \in Nat /\ ~(<<y, x>> \in {ss \in Nat \X Nat : ss[1] < ss[2]})
    BY <1>1 DEF OpToRel
  <2>2. QED
    BY <2>1
<1>3. QED
  BY <1>2

\* The tables of a page of the image let it be written as the first segment on it does.
LEMMA FirstOpens ==
  ASSUME IInv, pc = "ready", NEW q \in ImagePages
  PROVE  /\ FirstOn(q) \in Loaded /\ q \in On(FirstOn(q))
         /\ (\E i \in Loaded : Opener(i, q) /\ Writable(i)) <=> Writable(FirstOn(q))
<1>1. \A i \in Loaded : i \in Nat
  BY SegmentType DEF IInv
<1> DEFINE T == {i \in Loaded : q \in On(i)}
<1>2. T \subseteq Nat /\ T # {}
  BY <1>1 DEF ImagePages
<1>3. \E i \in T : \A j \in T : i <= j
  <2> HIDE DEF T
  <2> QED  BY <1>2, LeastElement
<1>4. \E i \in Loaded : q \in On(i) /\ \A j \in Loaded : q \in On(j) => i <= j
  BY <1>3
<1>5. /\ FirstOn(q) \in Loaded /\ q \in On(FirstOn(q))
      /\ \A j \in Loaded : q \in On(j) => FirstOn(q) <= j
  BY <1>4 DEF FirstOn
<1>6. \A i : Opener(i, q) <=> i \in Loaded /\ q \in On(i) /\ \A j \in Loaded : q \in On(j) => i <= j
  BY DEF Opener, Mapped
<1>7. \A i : Opener(i, q) <=> i = FirstOn(q)
  <2>1. ASSUME NEW i, Opener(i, q) PROVE i = FirstOn(q)
    <3>1. i \in Loaded /\ i <= FirstOn(q) /\ FirstOn(q) <= i
      BY <1>5, <1>6, <2>1
    <3>2. i \in Nat /\ FirstOn(q) \in Nat
      BY <1>1, <1>5, <3>1
    <3>3. QED
      BY <3>1, <3>2
  <2>2. QED
    BY <1>5, <1>6, <2>1
<1>8. QED
  BY <1>5, <1>7

LEMMA ReadyTables ==
  ASSUME IInv, pc = "ready", NEW r \in DOMAIN tables
  PROVE  tables[r].user /\ (tables[r].write <=> Allows(r))
<1>1. /\ tables[r].user
      /\ tables[r].write =
           \/ \E q \in ImagePages : r \in Above(q) /\ \E i \in Loaded : Opener(i, q) /\ Writable(i)
           \/ r \in Above(GuardPage)
           \/ \A q \in ImagePages : r \notin Above(q)
  BY DEF IInv, Sound, Tables
<1>2. (\E q \in ImagePages : r \in Above(q) /\ \E i \in Loaded : Opener(i, q) /\ Writable(i))
        <=> \E q \in ImagePages : r \in Above(q) /\ Writable(FirstOn(q))
  BY FirstOpens
<1>3. Allows(r) <=> \/ \E q \in ImagePages : r \in Above(q) /\ Writable(FirstOn(q))
                    \/ r \in Above(GuardPage)
                    \/ \A q \in ImagePages : r \notin Above(q)
  BY DEF Allows
<1>4. QED
  BY <1>1, <1>2, <1>3

\* The tables above a page allow writing where the segments have made them do so.
LEMMA AboveAllows ==
  ASSUME IInv, pc = "ready", NEW q \in DOMAIN pages
  PROVE  /\ \A r \in Above(q) : tables[r].user
         /\ (\A r \in Above(q) : tables[r].write) <=> TablesAllow(q)
<1>1. Above(q) \subseteq DOMAIN tables
  BY TypeParts DEF IInv, MemoryOK
<1>2. \A r \in Above(q) : tables[r].user /\ (tables[r].write <=> Allows(r))
  BY <1>1, ReadyTables
<1>3. QED
  BY <1>2 DEF TablesAllow

\* The pages of a program that is ready, and where they come from
LEMMA ReadyPages ==
  ASSUME IInv, pc = "ready"
  PROVE  /\ \A q \in ImagePages :
              /\ q \in DOMAIN pages /\ q < GuardPage
              /\ pages[q].user /\ pages[q].write = \E i \in Loaded : q \in On(i) /\ Writable(i)
         /\ \A q \in DOMAIN pages :
              /\ q \in Page /\ Above(q) \subseteq DOMAIN tables
              /\ q \notin ImagePages =>
                   /\ pages[q].user = (q # GuardPage) /\ pages[q].write /\ pages[q].bytes = Zeros
                   /\ q >= GuardPage \/ (q >= HeapPage /\ HeapPage .. q \subseteq DOMAIN pages)
         /\ GuardPage .. NPAGE - 1 \subseteq DOMAIN pages
<1>1. TypeOK /\ MappedPages /\ Entries /\ MemoryOK
  BY TypeParts DEF IInv, Sound
<1>2. \A i, q : Mapped(i, q) <=> q \in On(i)
  BY DEF Mapped
<1>3. \A q : q \in ImagePages <=> \E i \in Loaded : q \in On(i)
  BY DEF ImagePages
<1>4. \A q \in ImagePages : q \in DOMAIN pages /\ q < GuardPage
  BY <1>1, <1>2, <1>3 DEF MappedPages
<1>5. \A q \in ImagePages : pages[q].user /\ pages[q].write = \E i \in Loaded : q \in On(i) /\ Writable(i)
  BY <1>1, <1>2, <1>3, <1>4 DEF Entries
<1>6. ASSUME NEW q \in DOMAIN pages, q \notin ImagePages
      PROVE  /\ pages[q].user = (q # GuardPage) /\ pages[q].write /\ pages[q].bytes = Zeros
             /\ q >= GuardPage \/ (q >= HeapPage /\ HeapPage .. q \subseteq DOMAIN pages)
  <2>1. ~(\E i \in Loaded : Mapped(i, q))
    BY <1>2, <1>3, <1>6
  <2>2. pages[q].user = (q # GuardPage) /\ pages[q].write /\ pages[q].bytes = Zeros
    BY <1>1, <2>1 DEF Entries
  <2>3. q >= GuardPage \/ (q >= HeapPage /\ HeapPage .. q \subseteq DOMAIN pages)
    BY <1>1, <2>1 DEF MappedPages
  <2>4. QED
    BY <2>2, <2>3
<1>7. \A q \in DOMAIN pages : q \in Page /\ Above(q) \subseteq DOMAIN tables
  BY <1>1 DEF MemoryOK
<1>8. GuardPage .. NPAGE - 1 \subseteq DOMAIN pages
  BY <1>1 DEF MappedPages
<1>9. QED
  BY <1>4, <1>5, <1>6, <1>7, <1>8

\* What the segments say of an address is what the last of them has there.
LEMMA SaysByte ==
  ASSUME IInv, NEW a \in Nat, NEW b, Says(Len(read), a, b)
  PROVE  ByteAt(a) = b
<1> DEFINE here == {i \in Loaded : Covers(i, a)}
<1>1. \A i \in Loaded : i \in Nat /\ i <= Len(read)
  BY SegmentType DEF IInv
<1>2. ByteAt(a) = IF here = {} THEN 0 ELSE Content(CHOOSE i \in here : \A j \in here : j <= i, a)
  BY DEF ByteAt, Covers, Content
<1>3. CASE here = {}
  <2>1. \A i \in Loaded : ~Covers(i, a)
    BY <1>3
  <2>2. b = 0
    BY <2>1 DEF Says
  <2>3. QED
    BY <1>2, <1>3, <2>2
<1>4. CASE here # {}
  <2>1. PICK i \in here : b = Content(i, a) /\ \A j \in here : j <= i
    BY <1>1, <1>4 DEF Says
  <2> DEFINE m == CHOOSE x \in here : \A j \in here : j <= x
  <2>2. m \in here /\ \A j \in here : j <= m
    BY <2>1
  <2> HIDE DEF m
  <2>3. m <= i /\ i <= m /\ m \in Nat /\ i \in Nat
    BY <1>1, <2>1, <2>2
  <2>4. m = i
    BY <2>3
  <2>5. QED
    BY <1>2, <1>4, <2>1, <2>4 DEF m
<1>5. QED
  BY <1>3, <1>4

-----------------------------------------------------------------------------
(* The theorems                                                            *)

\* The pages of a loaded program hold its file, and zeros around it, wherever its
\* segments begin, whatever pages they share and whichever overwrites the other.
THEOREM FileIsLoaded == Spec => []ImageIsFile
<1>1. IInv => ImageIsFile
  <2> SUFFICES ASSUME IInv, pc = "ready", NEW q \in ImagePages, NEW k \in 0 .. PageSize - 1
               PROVE  q \in DOMAIN pages /\ pages[q].bytes[k] = ByteAt((q * PageSize) + k)
    BY DEF ImageIsFile
  <2>1. q \in DOMAIN pages /\ q \in Page /\ q \in Nat /\ k \in InPage
    <3>1. q \in DOMAIN pages /\ q \in Page
      BY ReadyPages
    <3>2. q \in Nat /\ k \in InPage
      BY <3>1, Sizes DEF Page, InPage
    <3>3. QED
      BY <3>1, <3>2
  <2> DEFINE a == (q * PageSize) + k
  <2>2. a \in UserAddress /\ PageOf(a) = q /\ a % PageSize = k
    BY <2>1, AddressOf, Joined
  <2> HIDE DEF a
  <2>3. a \in Nat
    BY <2>2, PageOfAddress
  <2>4. Byte(a) = pages[q].bytes[k]
    BY <2>2 DEF Byte
  <2>5. Says(Len(read), a, Byte(a))
    BY <2>1, <2>2 DEF IInv, Sound, Bytes
  <2>6. ByteAt(a) = Byte(a)
    BY <2>3, <2>5, SaysByte
  <2>7. QED
    BY <2>1, <2>4, <2>6 DEF a
<1>2. QED
  BY <1>1, Invariance, PTL

\* What the processor lets a program do with its image, its stack and the guard page
\* below it.
THEOREM ImageIsProtected == Spec => []ImageInv
<1>1. IInv => Rights
  <2> SUFFICES ASSUME IInv, pc = "ready", NEW q \in ImagePages
               PROVE  /\ MayRead(q)
                      /\ MayWrite(q) <=> (\E i \in Loaded : q \in On(i) /\ Writable(i)) /\ TablesAllow(q)
                      /\ (\A i \in Loaded : q \in On(i) => Writable(i)) => MayWrite(q)
    BY DEF Rights
  <2>1. /\ q \in DOMAIN pages /\ Above(q) \subseteq DOMAIN tables /\ pages[q].user
        /\ pages[q].write = \E i \in Loaded : q \in On(i) /\ Writable(i)
    BY ReadyPages
  <2>2. /\ \A r \in Above(q) : tables[r].user
        /\ (\A r \in Above(q) : tables[r].write) <=> TablesAllow(q)
    BY <2>1, AboveAllows
  <2>3. MayRead(q)
    BY <2>1, <2>2 DEF MayRead
  <2>4. MayWrite(q) <=> (\E i \in Loaded : q \in On(i) /\ Writable(i)) /\ TablesAllow(q)
    BY <2>1, <2>2, <2>3 DEF MayWrite
  <2>5. ASSUME \A i \in Loaded : q \in On(i) => Writable(i) PROVE MayWrite(q)
    <3>1. FirstOn(q) \in Loaded /\ q \in On(FirstOn(q))
      BY FirstOpens
    <3>2. Writable(FirstOn(q))
      BY <2>5, <3>1
    <3>3. TablesAllow(q)
      BY <3>2 DEF TablesAllow, Allows
    <3>4. QED
      BY <2>4, <3>1, <3>2, <3>3
  <2>6. QED
    BY <2>3, <2>4, <2>5
<1>2. IInv => StackGuarded
  <2> SUFFICES ASSUME IInv, pc = "ready"
               PROVE  /\ \A q \in StackStart .. NPAGE - 1 : MayWrite(q)
                      /\ GuardPage \in DOMAIN pages /\ ~MayRead(GuardPage)
    BY DEF StackGuarded
  <2>1. GuardPage \in Nat /\ StackStart = GuardPage + 1 /\ NPAGE \in Nat /\ GuardPage <= NPAGE - 1
    BY Sizes DEF Page, GuardPage, StackStart
  <2>2. ASSUME NEW q \in GuardPage .. NPAGE - 1
        PROVE  /\ q \in DOMAIN pages /\ q \notin ImagePages /\ Above(q) \subseteq DOMAIN tables
               /\ pages[q].user = (q # GuardPage) /\ pages[q].write
               /\ \A r \in Above(q) : tables[r].user /\ tables[r].write
    <3>1. q \in DOMAIN pages
      BY ReadyPages
    <3>2. q \notin ImagePages
      <4>1. q \in ImagePages => q < GuardPage
        BY ReadyPages
      <4>2. ~(q < GuardPage)
        BY <2>1
      <4>3. QED
        BY <4>1, <4>2
    <3>3. /\ Above(q) \subseteq DOMAIN tables
          /\ pages[q].user = (q # GuardPage) /\ pages[q].write
      BY <3>1, <3>2, ReadyPages
    <3>4. TablesAllow(q)
      BY OneRegion DEF TablesAllow, Allows
    <3>5. \A r \in Above(q) : tables[r].user /\ tables[r].write
      BY <3>1, <3>4, AboveAllows
    <3>6. QED
      BY <3>1, <3>2, <3>3, <3>5
  <2>3. ASSUME NEW q \in StackStart .. NPAGE - 1 PROVE MayWrite(q)
    <3>1. q \in GuardPage .. NPAGE - 1 /\ q # GuardPage
      BY <2>1
    <3>2. QED
      BY <2>2, <3>1 DEF MayWrite, MayRead
  <2>4. GuardPage \in GuardPage .. NPAGE - 1
    BY <2>1
  <2>5. GuardPage \in DOMAIN pages /\ ~MayRead(GuardPage)
    BY <2>2, <2>4 DEF MayRead
  <2>6. QED
    BY <2>3, <2>5
<1>3. IInv => ImageInv
  BY <1>1, <1>2 DEF IInv, ImageInv
<1>4. QED
  BY <1>3, Invariance, PTL

\* The heap starts above the image and has no holes, and what sbrk has given a program
\* it can read, and write just where the tables on all levels allow it: not where it grows
\* into new tables below ones that only read-only segments have made.
THEOREM HeapGrowsOpen == Spec => []HeapIsOpen
<1>1. IInv => HeapIsOpen
  <2> SUFFICES ASSUME IInv, pc = "ready"
               PROVE  /\ HeapPage <= GuardPage /\ ImagePages \cap (HeapPage .. GuardPage) = {}
                      /\ \A q \in DOMAIN pages \ (ImagePages \cup (GuardPage .. NPAGE - 1)) :
                           /\ MayRead(q) /\ (MayWrite(q) <=> TablesAllow(q))
                           /\ pages[q].bytes = Zeros
                           /\ HeapPage .. q \subseteq DOMAIN pages
    BY DEF HeapIsOpen
  <2>1. HeapPage \in Nat /\ HeapPage <= GuardPage /\ \A q \in ImagePages : q < HeapPage
    BY HeapBelowGuard
  <2>2. GuardPage \in Nat /\ NPAGE \in Nat /\ GuardPage < NPAGE
    BY Sizes DEF Page
  <2>3. ImagePages \cap (HeapPage .. GuardPage) = {}
    <3>1. ImagePages \subseteq Nat
      BY ImagePagesIn, Sizes DEF Page, IInv
    <3>2. QED
      BY <2>1, <2>2, <3>1
  <2>4. ASSUME NEW q \in DOMAIN pages \ (ImagePages \cup (GuardPage .. NPAGE - 1))
        PROVE  /\ MayRead(q) /\ (MayWrite(q) <=> TablesAllow(q))
               /\ pages[q].bytes = Zeros
               /\ HeapPage .. q \subseteq DOMAIN pages
    <3>1. /\ q \in Page /\ Above(q) \subseteq DOMAIN tables
          /\ pages[q].user = (q # GuardPage) /\ pages[q].write /\ pages[q].bytes = Zeros
          /\ q >= GuardPage \/ (q >= HeapPage /\ HeapPage .. q \subseteq DOMAIN pages)
      BY ReadyPages
    <3>2. ~(q >= GuardPage)
      BY <2>2, <3>1 DEF Page
    <3>3. q # GuardPage
      BY <2>2, <3>2
    <3>4. /\ \A r \in Above(q) : tables[r].user
          /\ (\A r \in Above(q) : tables[r].write) <=> TablesAllow(q)
      BY AboveAllows
    <3>5. MayRead(q)
      BY <3>1, <3>3, <3>4 DEF MayRead
    <3>6. MayWrite(q) <=> TablesAllow(q)
      BY <3>1, <3>4, <3>5 DEF MayWrite
    <3>7. QED
      BY <3>1, <3>2, <3>5, <3>6
  <2>5. QED
    BY <2>1, <2>3, <2>4
<1>2. QED
  BY <1>1, Invariance, PTL
=============================================================================
