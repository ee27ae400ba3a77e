----------------------------- MODULE CopyProofs -----------------------------
(***************************************************************************)
(* Proofs about UserCopy, for any size of page, memory, status and text    *)
(* and any number of children: what a wait delivers or loses, which memory *)
(* the kernel writes, what print_str prints and when a pointer can stop the*)
(* kernel.                                                                 *)
(***************************************************************************)
EXTENDS UserCopy, SequenceTheorems, TLAPS

-----------------------------------------------------------------------------
(* Pages                                                                   *)

LEMMA Sizes ==
  /\ PageSize \in Nat \ {0} /\ NPAGE \in Nat \ {0} /\ StatusBytes \in Nat \ {0}
  /\ NCHILD \in Nat \ {0} /\ PrintLimit \in Nat /\ UserTop \in 1 .. NPAGE - 2
BY CopyAssumption

\* An address is a page and an offset in it, in one way.
LEMMA Split ==
  ASSUME NEW a \in Nat
  PROVE  /\ a \div PageSize \in Nat /\ a % PageSize \in 0 .. PageSize - 1
         /\ a = PageSize * (a \div PageSize) + (a % PageSize)
BY Sizes

LEMMA SplitOnce ==
  ASSUME NEW q \in Int, NEW r \in Int, NEW m \in 0 .. PageSize - 1, NEW n \in 0 .. PageSize - 1,
         PageSize * q + m = PageSize * r + n
  PROVE  q = r
<1>1. PageSize * (q - r) = n - m
  BY Sizes
<1>2. CASE q - r >= 1
  <2>1. PageSize * (q - r) >= PageSize
    BY <1>2, Sizes
  <2>2. QED
    BY <1>1, <2>1, Sizes
<1>3. CASE q - r <= -1
  <2>1. PageSize * (q - r) <= -PageSize
    BY <1>3, Sizes
  <2>2. QED
    BY <1>1, <2>1, Sizes
<1>4. QED
  BY <1>2, <1>3

LEMMA PageOrder ==
  ASSUME NEW a \in Nat, NEW b \in Nat, a <= b
  PROVE  a \div PageSize <= b \div PageSize
<1> DEFINE q == a \div PageSize
           r == b \div PageSize
           m == a % PageSize
           n == b % PageSize
<1>1. q \in Nat /\ r \in Nat /\ m \in 0 .. PageSize - 1 /\ n \in 0 .. PageSize - 1
  BY Split
<1>2. a = PageSize * q + m /\ b = PageSize * r + n
  BY Split
<1> HIDE DEF q, r, m, n
<1>3. SUFFICES ASSUME r + 1 <= q PROVE FALSE
  BY <1>1 DEF q, r
<1>4. PageSize * (r + 1) <= PageSize * q /\ PageSize * (r + 1) = PageSize * r + PageSize
  BY <1>1, <1>3, Sizes
<1>5. QED
  BY <1>1, <1>2, <1>4, Sizes

\* The bytes up to the end of the page of a are in that page.
LEMMA SamePage ==
  ASSUME NEW a \in Nat, NEW b \in Nat, a <= b, b < a + (PageSize - (a % PageSize))
  PROVE  b \div PageSize = a \div PageSize
<1> DEFINE q == a \div PageSize
           m == a % PageSize
           d == b - a
<1>1. q \in Nat /\ m \in 0 .. PageSize - 1 /\ a = PageSize * q + m
      /\ d \in Nat /\ b = a + d /\ d < PageSize - m
  BY Split, Sizes
<1>2. b = PageSize * q + (m + d) /\ m + d \in 0 .. PageSize - 1
  <2> HIDE DEF q, m, d
  <2> QED  BY <1>1, Sizes
<1>3. /\ b \div PageSize \in Nat /\ b % PageSize \in 0 .. PageSize - 1
      /\ b = PageSize * (b \div PageSize) + (b % PageSize)
  BY Split
<1>4. QED
  BY <1>1, <1>2, <1>3, SplitOnce

\* Nothing before the start of a page is in it.
LEMMA PageStart ==
  ASSUME NEW a \in Nat, NEW b \in Nat, a % PageSize = 0, b < a
  PROVE  b \div PageSize < a \div PageSize
<1> DEFINE q == a \div PageSize
           r == b \div PageSize
           n == b % PageSize
<1>1. q \in Nat /\ r \in Nat /\ n \in 0 .. PageSize - 1
  BY Split
<1>2. a = PageSize * q + (a % PageSize) /\ b = PageSize * r + n
  BY Split
<1> HIDE DEF q, r, n
<1>3. SUFFICES ASSUME q <= r PROVE FALSE
  BY <1>1 DEF q, r
<1>4. PageSize * q <= PageSize * r
  BY <1>1, <1>3, Sizes
<1>5. a = PageSize * q
  BY <1>1, <1>2, Sizes
<1>6. QED
  BY <1>1, <1>2, <1>4, <1>5, Sizes

\* An address below the start of a page is in an earlier page.
LEMMA PageBelow ==
  ASSUME NEW a \in Nat, NEW q \in Nat
  PROVE  a < q * PageSize <=> a \div PageSize < q
<1> DEFINE r == a \div PageSize
           m == a % PageSize
<1>1. r \in Nat /\ m \in 0 .. PageSize - 1 /\ a = PageSize * r + m
  BY Split
<1> HIDE DEF r, m
<1>2. q * PageSize = PageSize * q /\ PageSize * q \in Int /\ PageSize * r \in Int
  BY <1>1, Sizes
<1>3. CASE r < q
  <2>1. PageSize * (r + 1) <= PageSize * q /\ PageSize * (r + 1) = PageSize * r + PageSize
    BY <1>1, <1>3, Sizes
  <2>2. QED
    BY <1>1, <1>2, <1>3, <2>1, Sizes DEF r
<1>4. CASE ~(r < q)
  <2>1. PageSize * q <= PageSize * r
    BY <1>1, <1>4, Sizes
  <2>2. QED
    BY <1>1, <1>2, <1>4, <2>1, Sizes DEF r
<1>5. QED
  BY <1>3, <1>4

LEMMA PageInMemory ==
  ASSUME NEW a \in Address
  PROVE  /\ a \in Nat /\ a \div PageSize \in Page
         /\ a \div PageSize # NPAGE - 1 =>
              /\ a + (PageSize - (a % PageSize)) \in Address
              /\ (a + (PageSize - (a % PageSize))) % PageSize = 0
<1> DEFINE q == a \div PageSize
           m == a % PageSize
<1>1. a \in Nat /\ a < NPAGE * PageSize
  BY Sizes DEF Address
<1>2. q \in Nat /\ m \in 0 .. PageSize - 1 /\ a = PageSize * q + m
  BY <1>1, Split
<1> HIDE DEF q, m
<1>3. q < NPAGE
  <2>1. SUFFICES ASSUME NPAGE <= q PROVE FALSE
    BY <1>2, Sizes
  <2>2. PageSize * NPAGE <= PageSize * q
    BY <1>2, <2>1, Sizes
  <2>3. QED
    BY <1>1, <1>2, <2>2, Sizes
<1>4. ASSUME q # NPAGE - 1
      PROVE  /\ a + (PageSize - m) \in Address
             /\ (a + (PageSize - m)) % PageSize = 0
  <2>1. a + (PageSize - m) = PageSize * (q + 1) /\ q + 1 <= NPAGE - 1
    BY <1>2, <1>3, <1>4, Sizes
  <2>2. /\ PageSize * (q + 1) <= PageSize * (NPAGE - 1)
        /\ PageSize * (NPAGE - 1) = NPAGE * PageSize - PageSize
        /\ PageSize * (q + 1) \in Nat
    BY <1>2, <2>1, Sizes
  <2>3. PageSize * (q + 1) \in Address
    BY <2>2, Sizes DEF Address
  <2>4. (PageSize * (q + 1)) % PageSize = 0
    <3> DEFINE b == PageSize * (q + 1)
    <3>1. /\ b \div PageSize \in Nat /\ b % PageSize \in 0 .. PageSize - 1
          /\ b = PageSize * (b \div PageSize) + (b % PageSize)
      BY <2>2, Split
    <3>2. b = PageSize * (q + 1) + 0
      BY <2>2
    <3>3. b \div PageSize = q + 1
      BY <1>2, <3>1, <3>2, SplitOnce, Sizes
    <3> HIDE DEF b
    <3>4. b % PageSize = b - PageSize * (b \div PageSize)
      BY <3>1, <2>2, Sizes DEF b
    <3>5. QED
      BY <2>2, <3>3, <3>4 DEF b
  <2>5. QED
    BY <2>1, <2>3, <2>4
<1>5. QED
  BY <1>1, <1>2, <1>3, <1>4, Sizes DEF Page, q, m

-----------------------------------------------------------------------------
(* A chunk                                                                 *)

LEMMA Types ==
  ASSUME CopyInv
  PROVE  /\ ptr \in Nat /\ ptr \in Address /\ len \in Int /\ done \in Nat /\ child \in Child
         /\ mem \in [Address -> Byte] /\ access \in [Page -> Access]
         /\ stage \in [Child -> {"absent", "alive", "zombie", "reaped"}]
         /\ Va \in Nat
<1>1. /\ ptr \in Address /\ len \in -1 .. PrintLimit \cup {StatusBytes}
      /\ done \in 0 .. PrintLimit \cup 0 .. StatusBytes /\ child \in Child
      /\ mem \in [Address -> Byte] /\ access \in [Page -> Access]
      /\ stage \in [Child -> {"absent", "alive", "zombie", "reaped"}]
  BY DEF CopyInv, TypeOK
<1>2. ptr \in Nat /\ len \in Int /\ done \in Nat
  BY <1>1, Sizes DEF Address
<1>3. QED
  BY <1>1, <1>2 DEF Va

\* What an entry that allows something, or is in the window, says of the address
LEMMA KindsAt ==
  ASSUME CopyInv, NEW a \in Address
  PROVE  /\ AccessAt(a) # "unmapped" => a \div PageSize # NPAGE - 1
         /\ AccessAt(a) \in Readable => InUserSpace(a)
         /\ AccessAt(a) = "window" => a \div PageSize > UserTop
<1> DEFINE q == a \div PageSize
<1>1. /\ PageKinds(access) /\ UserTop \in 1 .. NPAGE - 2 /\ NPAGE \in Nat
      /\ a \in Nat /\ q \in 0 .. NPAGE - 1
  BY PageInMemory, Sizes DEF CopyInv, Page
<1>2. InUserSpace(a) <=> q < UserTop
  BY <1>1, PageBelow DEF InUserSpace
<1>3. AccessAt(a) = access[q]
  BY DEF AccessAt
<1> HIDE DEF q
<1>4. \/ q = 0 \/ q \in 1 .. UserTop - 1 \/ q = UserTop
      \/ q \in UserTop + 1 .. NPAGE - 2 \/ q = NPAGE - 1
  BY <1>1
<1>5. /\ q \in {0, NPAGE - 1} => access[q] = "unmapped"
      /\ q = UserTop => access[q] \in {"unmapped", "hole"}
      /\ q \in 1 .. UserTop - 1 => access[q] \in UserPages
      /\ q \in UserTop + 1 .. NPAGE - 2 => access[q] \in {"kernel", "window"}
  BY <1>1 DEF PageKinds, KernelPages
<1>6. access[q] # "unmapped" => q # NPAGE - 1
  BY <1>5
<1>7. access[q] \in Readable => q < UserTop
  BY <1>1, <1>4, <1>5 DEF Readable
<1>8. access[q] = "window" => q > UserTop
  BY <1>1, <1>4, <1>5 DEF UserPages
<1>9. QED
  BY <1>2, <1>3, <1>6, <1>7, <1>8 DEF q

Copyable == Readable \cup {"window"}

LEMMA Chunk ==
  ASSUME CopyInv, NEW kinds, kinds \subseteq Copyable, CopyLoop(kinds), done < len,
         AccessAt(Va) \in kinds
  PROVE  /\ ToCopy \in 1 .. len - done /\ Va + ToCopy \in Address
         /\ done + ToCopy = len \/ (Va + ToCopy) % PageSize = 0
         /\ \A a \in Address : Va <= a /\ a < Va + ToCopy => AccessAt(a) = AccessAt(Va)
         /\ ToCopy <= PageSize - (Va % PageSize)
<1> DEFINE room == PageSize - (Va % PageSize)
<1>1. Va \in Address /\ Va \in Nat /\ done \in Nat /\ len \in Int
  BY Types DEF CopyLoop
<1>2. Va \div PageSize # NPAGE - 1
  BY <1>1, KindsAt DEF Copyable, Readable
<1>3. room \in 1 .. PageSize /\ Va + room \in Address /\ (Va + room) % PageSize = 0
  <2>1. Va % PageSize \in 0 .. PageSize - 1
    BY <1>1, Split
  <2>2. room \in 1 .. PageSize
    BY <2>1, Sizes
  <2>3. QED
    BY <1>1, <1>2, <2>2, PageInMemory
<1>4. ToCopy = IF room < len - done THEN room ELSE len - done
  BY DEF ToCopy
<1>5. \A a \in Address : Va <= a /\ a < Va + room => AccessAt(a) = AccessAt(Va)
  BY <1>1, SamePage DEF AccessAt, Address
<1> HIDE DEF room
<1>6. ToCopy \in 1 .. len - done /\ ToCopy <= room
  BY <1>1, <1>3, <1>4, Sizes
<1>7. Va + ToCopy \in Address
  BY <1>1, <1>3, <1>6, Sizes DEF Address
<1>8. done + ToCopy = len \/ ToCopy = room
  BY <1>1, <1>3, <1>4
<1>9. \A a \in Address : a < Va + ToCopy => a < Va + room
  BY <1>1, <1>3, <1>6 DEF Address
<1>10. QED
  BY <1>3, <1>5, <1>6, <1>7, <1>8, <1>9 DEF room

\* What is copied from an address in user space on ends below the window.
LEMMA NoWindow ==
  ASSUME CopyInv, NEW kinds, kinds \subseteq Copyable, CopyLoop(kinds), InUserSpace(ptr)
  PROVE  /\ AccessAt(Va) # "window"
         /\ \A a \in Copied : AccessAt(a) # "window"
<1> DEFINE T == UserTop * PageSize
<1>1. /\ ptr \in Nat /\ Va \in Nat /\ Va \in Address /\ UserTop \in 1 .. NPAGE - 2 /\ NPAGE \in Nat
      /\ ptr < T /\ UserTop \in Nat
  BY Types, Sizes DEF CopyLoop, InUserSpace
<1>2. T \in Nat /\ T < (UserTop + 1) * PageSize /\ T + PageSize <= NPAGE * PageSize
  <2>1. /\ PageSize * (UserTop + 1) = PageSize * UserTop + PageSize
        /\ PageSize * (UserTop + 1) <= PageSize * NPAGE
    BY <1>1, Sizes
  <2>2. PageSize * UserTop \in Nat /\ PageSize * NPAGE \in Nat /\ PageSize * (UserTop + 1) \in Nat
    BY <1>1, Sizes
  <2>3. QED
    BY <1>1, <2>1, <2>2, Sizes
<1>3. T \div PageSize = UserTop
  <2>1. T \div PageSize \in Nat
    BY <1>2, Split
  <2>2. T \div PageSize < UserTop + 1 /\ ~(T \div PageSize < UserTop)
    BY <1>1, <1>2, PageBelow
  <2>3. QED
    BY <1>1, <2>1, <2>2
<1>4. T \in Address
  BY <1>2, Sizes DEF Address
<1>5. AccessAt(T) \notin kinds
  BY <1>3 DEF CopyInv, PageKinds, AccessAt, Copyable, Readable
<1>6. ASSUME NEW a \in Address, AccessAt(a) = "window" PROVE T < a
  <2>1. a \in Nat /\ a \div PageSize > UserTop
    BY <1>6, KindsAt, PageInMemory
  <2>2. a \div PageSize \in Nat
    BY <2>1, Split
  <2>3. ~(a < (UserTop + 1) * PageSize)
    BY <1>1, <2>1, <2>2, PageBelow
  <2>4. QED
    BY <1>1, <1>2, <2>1, <2>3, Sizes
<1>7. ~(T < Va)
  BY <1>1, <1>2, <1>4, <1>5 DEF CopyLoop, Copied
<1>8. \A a \in Copied : a \in Address /\ a \in Nat /\ a < Va
  BY DEF Copied, Address
<1>9. QED
  BY <1>1, <1>2, <1>6, <1>7, <1>8

LEMMA NextChunk ==
  ASSUME CopyInv, NEW kinds, kinds \subseteq Copyable, CopyLoop(kinds), done < len,
         AccessAt(Va) \in kinds, done' = done + ToCopy, UNCHANGED <<ptr, len, access>>
  PROVE  /\ CopyLoop(kinds)' /\ Va' = Va + ToCopy
         /\ Copied \subseteq Copied'
         /\ \A a \in Copied' : a \in Copied \/ (Va <= a /\ a < Va + ToCopy)
         /\ \A a \in Address : a \in Copied \/ (Va <= a /\ a < Va + ToCopy) => a \in Copied'
<1>1. /\ ToCopy \in 1 .. len - done /\ Va + ToCopy \in Address
      /\ done + ToCopy = len \/ (Va + ToCopy) % PageSize = 0
      /\ \A a \in Address : Va <= a /\ a < Va + ToCopy => AccessAt(a) = AccessAt(Va)
  BY Chunk
<1>2. ptr \in Nat /\ Va \in Nat /\ len \in Int /\ done \in Nat /\ Va = ptr + done
  BY Types DEF Va
<1>3. Va' = Va + ToCopy
  BY <1>1, <1>2 DEF Va
<1>4. \A a \in Address : a \in Copied' <=> a \in Copied \/ (Va <= a /\ a < Va + ToCopy)
  BY <1>1, <1>2, <1>3 DEF Copied, Address
<1>5. done' \in 0 .. len' /\ Va' \in Address /\ (done' \in {0, len'} \/ Va' % PageSize = 0)
  BY <1>1, <1>2, <1>3
<1>6. \A a \in Address : AccessAt(a)' = AccessAt(a)
  BY DEF AccessAt
<1>7. \A a \in Copied' : AccessAt(a)' \in kinds
  BY <1>1, <1>4, <1>6 DEF Copied, CopyLoop
<1>8. CopyLoop(kinds)'
  BY <1>5, <1>7 DEF CopyLoop
<1>9. Copied \subseteq Address /\ Copied' \subseteq Address
  BY DEF Copied, Address
<1>10. QED
  BY <1>3, <1>4, <1>8, <1>9

\* The bytes of memory as a sequence
LEMMA BytesAre ==
  ASSUME CopyInv, NEW a \in Nat, NEW n \in Nat, a + n \in Address
  PROVE  /\ Bytes(a, n) \in Seq(Byte \cup Stray) /\ Len(Bytes(a, n)) = n
         /\ \A k \in 1 .. n : Bytes(a, n)[k] = mem[a + k - 1]
<1> DEFINE S == Byte \cup Stray
<1>1. \A k \in 1 .. n : mem[a + k - 1] \in S
  <2>1. \A k \in 1 .. n : a + k - 1 \in Address
    BY Sizes DEF Address
  <2>2. QED
    BY <2>1, Types
<1> HIDE DEF S
<1>2. Bytes(a, n) = [k \in 1 .. n |-> mem[a + k - 1]]
  BY DEF Bytes
<1>3. Bytes(a, n) \in Seq(S) /\ Len(Bytes(a, n)) = n
  BY <1>1, <1>2
<1>4. \A k \in 1 .. n : Bytes(a, n)[k] = mem[a + k - 1]
  BY <1>2
<1>5. QED
  BY <1>3, <1>4 DEF S

-----------------------------------------------------------------------------
(* Steps that end a call, stop the kernel or change a child                *)

StageKeeps ==
  /\ stage' \in [Child -> {"absent", "alive", "zombie", "reaped"}]
  /\ \A c \in Child : stage[c] = "reaped" => stage'[c] = "reaped"

LEMMA StageUpdate ==
  ASSUME CopyInv, NEW c \in Child, stage[c] # "reaped",
         NEW s \in {"alive", "zombie", "reaped"}, stage' = [stage EXCEPT ![c] = s]
  PROVE  StageKeeps
BY Types DEF StageKeeps

LEMMA SmallValues == /\ NULL \in Address /\ 0 \in -1 .. PrintLimit /\ 1 \in Child
                     /\ 0 \in 0 .. PrintLimit /\ <<>> \in Seq(Byte \cup Stray) /\ Len(<<>>) = 0
                     /\ NPAGE * PageSize \in Nat \ {0} /\ Child \subseteq 1 .. MaxRet
BY Sizes DEF NULL, Address, Child, MaxRet

LEMMA PrintsInv ==
  ASSUME CopyInv, NEW v \in Error .. MaxRet, NEW text \in Seq(Byte \cup Stray), Len(text) <= PrintLimit,
         Prints(v, text), StageKeeps, UNCHANGED <<mem, access>>
  PROVE  CopyInv'
<1>1. /\ pc' = "user" /\ ret' = v /\ printed' = text
      /\ ptr' = NULL /\ len' = 0 /\ done' = 0 /\ buf' = <<>> /\ child' = 1
  BY DEF Prints
<1>2. TypeOK'
  BY <1>1, SmallValues, Sizes, Types DEF TypeOK, StageKeeps
<1>3. StopsKnown' /\ Loops'
  BY <1>1 DEF StopsKnown, Loops
<1>4. Delivered'
  BY <1>1 DEF CopyInv, Delivered, StageKeeps
<1>5. QED
  BY <1>2, <1>3, <1>4 DEF CopyInv, PageKinds

LEMMA ReturnInv ==
  ASSUME CopyInv, NEW v \in Error .. MaxRet, Return(v), StageKeeps, UNCHANGED <<mem, access>>
  PROVE  CopyInv'
<1> DEFINE nothing == <<>>
<1>1. nothing \in Seq(Byte \cup Stray) /\ Len(nothing) <= PrintLimit /\ Prints(v, nothing)
  BY SmallValues, Sizes DEF Return
<1> HIDE DEF nothing
<1>2. QED
  BY <1>1, PrintsInv

LEMMA StopInv ==
  ASSUME CopyInv, Stop, UNCHANGED <<stage, mem, access>>,
         len < 0 \/ \E a \in Span : AccessAt(a) \in {"hole", "window"}
  PROVE  CopyInv'
<1>1. pc' = "stopped" /\ UNCHANGED <<ptr, len, done, buf, child, ret, printed, stage, mem, access>>
  BY DEF Stop
<1>2. TypeOK'
  BY <1>1 DEF CopyInv, TypeOK
<1>3. StopsKnown'
  BY <1>1 DEF StopsKnown, Span, AccessAt
<1>4. Loops' /\ Delivered' /\ PageKinds(access)'
  BY <1>1 DEF CopyInv, Loops, Delivered, PageKinds
<1>5. QED
  BY <1>2, <1>3, <1>4 DEF CopyInv

\* The next byte to copy is in the span.
LEMMA VaInSpan ==
  ASSUME CopyInv, NEW kinds, CopyLoop(kinds), done < len
  PROVE  Va \in Span
<1>1. ptr \in Nat /\ done \in Nat /\ len \in Int /\ Va = ptr + done /\ Va \in Address
  BY Types DEF Va, CopyLoop
<1>2. ptr <= Va /\ Va < ptr + len
  BY <1>1
<1>3. QED
  BY <1>1, <1>2 DEF Span

-----------------------------------------------------------------------------
(* The invariant                                                           *)

LEMMA InitInv == Init => CopyInv
<1> SUFFICES ASSUME Init PROVE CopyInv
  OBVIOUS
<1>1. /\ pc = "user" /\ ptr = NULL /\ len = 0 /\ done = 0 /\ buf = <<>> /\ child = 1
      /\ stage = [c \in Child |-> "absent"] /\ mem = [a \in Address |-> <<0, a>>]
      /\ access \in [Page -> Access] /\ PageKinds(access)
      /\ ret = 0 /\ printed = <<>>
  BY DEF Init
<1>2. mem \in [Address -> Byte]
  BY <1>1 DEF Byte
<1>3. ret \in Error .. MaxRet
  BY <1>1, Sizes DEF Error, MaxRet
<1>4. TypeOK
  BY <1>1, <1>2, <1>3, SmallValues, Sizes DEF TypeOK
<1>5. Delivered
  <2>1. \A a \in Address : mem[a][1] = 0
    BY <1>1
  <2>2. QED
    BY <2>1 DEF Delivered, Child
<1>6. QED
  BY <1>1, <1>4, <1>5 DEF CopyInv, StopsKnown, Loops, PageKinds

\* A loop starts with nothing copied.
LEMMA LoopStarts ==
  ASSUME NEW kinds, done' = 0, ptr' \in Address, len' \in Nat
  PROVE  CopyLoop(kinds)' /\ Copied' = {}
<1>1. Va' = ptr' /\ ptr' \in Nat
  <2>1. ptr' \in Nat
    BY SmallValues DEF Address
  <2>2. Va' = ptr' + 0
    BY DEF Va
  <2>3. \A x \in Nat : x + 0 = x
    OBVIOUS
  <2>4. QED
    BY <2>1, <2>2, <2>3, Zenon
<1>2. Copied' = {}
  BY <1>1 DEF Copied, Address
<1>3. QED
  BY <1>1, <1>2 DEF CopyLoop

LEMMA PrintStrInv ==
  ASSUME CopyInv, NEW a \in Address, NEW n \in Int, PrintStr(a, n)
  PROVE  CopyInv'
<1>1. /\ pc = "user" /\ n \in 0 .. PrintLimit
      /\ pc' = "print" /\ ptr' = a /\ len' = n /\ done' = 0 /\ buf' = <<>>
      /\ UNCHANGED <<child, stage, mem, access, ret, printed>>
  BY DEF PrintStr
<1>2. TypeOK'
  BY <1>1, SmallValues, Sizes DEF CopyInv, TypeOK
<1>3. CopyLoop(Readable \cup {"window"})'
  BY <1>1, LoopStarts
<1>4. Len(buf') = done' /\ \A k \in 1 .. done' : FALSE
  BY <1>1, SmallValues
<1>5. Loops'
  BY <1>1, <1>3, <1>4 DEF Loops
<1>6. QED
  BY <1>1, <1>2, <1>5 DEF CopyInv, StopsKnown, Delivered, PageKinds

LEMMA PrintPanicsInv ==
  ASSUME CopyInv, NEW a \in Address, NEW n \in -1 .. PrintLimit + 1, PrintPanics(a, n)
  PROVE  CopyInv'
<1>1. /\ n = -1 /\ pc' = "stopped" /\ len' = n
      /\ UNCHANGED <<ptr, done, buf, child, stage, mem, access, ret, printed>>
  BY Sizes DEF PrintPanics
<1>2. TypeOK'
  BY <1>1, Sizes DEF CopyInv, TypeOK
<1>3. StopsKnown' /\ Loops' /\ Delivered' /\ PageKinds(access)'
  BY <1>1 DEF CopyInv, StopsKnown, Loops, Delivered, PageKinds
<1>4. QED
  BY <1>2, <1>3 DEF CopyInv

\* Whatever a chunk adds to the buffer: what is in memory, unless the entry is astray
LEMMA ReadInv ==
  ASSUME CopyInv, pc = "print", done < len, AccessAt(Va) \in Copyable,
         NEW s \in Seq(Byte \cup Stray), Len(s) = ToCopy,
         AccessAt(Va) # "window" => \A k \in 1 .. ToCopy : s[k] = mem[Va + k - 1],
         buf' = buf \o s, done' = done + ToCopy,
         UNCHANGED <<pc, ptr, len, child, stage, mem, access, ret, printed>>
  PROVE  CopyInv'
<1> DEFINE n == ToCopy
           t == buf
<1>1. /\ len <= PrintLimit /\ CopyLoop(Copyable) /\ Len(t) = done /\ t \in Seq(Byte \cup Stray)
      /\ \A k \in 1 .. done : AccessAt(ptr + k - 1) # "window" => t[k] = mem[ptr + k - 1]
  BY DEF CopyInv, Loops, TypeOK, Copyable
<1>2. /\ n \in 1 .. len - done /\ Va + n \in Address
      /\ \A a \in Address : Va <= a /\ a < Va + n => AccessAt(a) = AccessAt(Va)
  BY <1>1, Chunk
<1>3. CopyLoop(Copyable)'
  BY <1>1, NextChunk
<1>4. ptr \in Nat /\ done \in Nat /\ len \in Int /\ Va = ptr + done /\ n \in Nat
  BY <1>2, Types DEF Va
<1> HIDE DEF n, t
<1>5. /\ t \o s \in Seq(Byte \cup Stray) /\ Len(t \o s) = done + n
      /\ \A k \in 1 .. done + n : (t \o s)[k] = IF k <= done THEN t[k] ELSE s[k - done]
  <2> DEFINE S == Byte \cup Stray
  <2>1. t \in Seq(S) /\ s \in Seq(S) /\ Len(t) = done /\ Len(s) = n /\ done \in Nat /\ n \in Nat
    BY <1>1, <1>4 DEF n
  <2> HIDE DEF S
  <2>2. /\ t \o s \in Seq(S) /\ Len(t \o s) = done + n
        /\ \A k \in 1 .. done + n : (t \o s)[k] = IF k <= done THEN t[k] ELSE s[k - done]
    BY <2>1, ConcatProperties
  <2>3. QED
    BY <2>2 DEF S
<1>6. ASSUME NEW k \in 1 .. done + n, AccessAt(ptr + k - 1) # "window"
      PROVE  (t \o s)[k] = mem[ptr + k - 1]
  <2>1. CASE k <= done
    BY <1>1, <1>4, <1>5, <1>6, <2>1
  <2>2. CASE ~(k <= done)
    <3>1. k - done \in 1 .. n /\ Va + (k - done) - 1 = ptr + k - 1 /\ ptr + k - 1 \in Nat
          /\ Va <= ptr + k - 1 /\ ptr + k - 1 < Va + n
      BY <1>4, <2>2
    <3>2. ptr + k - 1 \in Address
      BY <1>2, <3>1, Sizes DEF Address
    <3>3. AccessAt(Va) # "window"
      BY <1>2, <1>6, <3>1, <3>2
    <3>4. s[k - done] = mem[Va + (k - done) - 1]
      BY <3>1, <3>3 DEF n
    <3>5. QED
      BY <1>4, <1>5, <2>2, <3>1, <3>4
  <2>3. QED
    BY <2>1, <2>2
<1>7. done + n \in 0 .. PrintLimit
  BY <1>1, <1>2, <1>4, Sizes
<1>8. buf' = t \o s /\ done' = done + n
  BY DEF n, t
<1>9. TypeOK'
  <2>1. done' \in 0 .. PrintLimit /\ Len(buf') <= PrintLimit /\ buf' \in Seq(Byte \cup Stray)
    BY <1>4, <1>5, <1>7, <1>8
  <2>2. UNCHANGED <<pc, ptr, len, child, stage, mem, access, ret, printed>>
    OBVIOUS
  <2>3. QED
    BY <2>1, <2>2 DEF CopyInv, TypeOK
<1>10. \A k \in 1 .. done' : AccessAt(ptr + k - 1)' # "window" => buf'[k] = mem'[ptr' + k - 1]
  <2>1. UNCHANGED <<ptr, mem, access>>
    OBVIOUS
  <2>2. QED
    BY <1>6, <1>8, <2>1 DEF AccessAt
<1>11. Loops'
  BY <1>1, <1>3, <1>5, <1>8, <1>10 DEF Loops, Copyable
<1>12. QED
  BY <1>9, <1>11 DEF CopyInv, StopsKnown, Delivered, PageKinds

LEMMA ReadChunkInv ==
  ASSUME CopyInv, ReadChunk PROVE CopyInv'
<1>1. /\ pc = "print" /\ done < len /\ AccessAt(Va) \in Readable
      /\ buf' = buf \o Bytes(Va, ToCopy) /\ done' = done + ToCopy
      /\ UNCHANGED <<pc, ptr, len, child, stage, mem, access, ret, printed>>
  BY DEF ReadChunk
<1>2. AccessAt(Va) \in Copyable /\ CopyLoop(Copyable)
  BY <1>1 DEF CopyInv, Loops, Copyable
<1>3. ToCopy \in Nat /\ Va + ToCopy \in Address /\ Va \in Nat
  BY <1>1, <1>2, Chunk, Types
<1> DEFINE s == Bytes(Va, ToCopy)
<1>4. s \in Seq(Byte \cup Stray) /\ Len(s) = ToCopy /\ \A k \in 1 .. ToCopy : s[k] = mem[Va + k - 1]
  BY <1>3, BytesAre
<1>5. buf' = buf \o s
  BY <1>1
<1> HIDE DEF s
<1>6. QED
  BY <1>1, <1>2, <1>4, <1>5, ReadInv

LEMMA ReadAstrayInv ==
  ASSUME CopyInv, ReadAstray PROVE CopyInv'
<1>1. /\ pc = "print" /\ done < len /\ AccessAt(Va) = "window" /\ done' = done + ToCopy
      /\ UNCHANGED <<pc, ptr, len, child, stage, mem, access, ret, printed>>
  BY DEF ReadAstray
<1>2. PICK s \in [1 .. ToCopy -> Stray] : buf' = buf \o s
  BY DEF ReadAstray
<1>3. AccessAt(Va) \in Copyable /\ CopyLoop(Copyable)
  BY <1>1 DEF CopyInv, Loops, Copyable
<1>4. ToCopy \in Nat
  BY <1>1, <1>3, Chunk, Types
<1>5. s \in Seq(Byte \cup Stray) /\ Len(s) = ToCopy
  BY <1>2, <1>4
<1>6. QED
  BY <1>1, <1>2, <1>3, <1>5, ReadInv

LEMMA ReadFailsInv ==
  ASSUME CopyInv, ReadFails PROVE CopyInv'
<1>1. /\ pc = "print" /\ done < len /\ UNCHANGED <<stage, mem, access>>
      /\ Return(MaxRet) \/ (AccessAt(Va) \in {"hole", "window"} /\ Stop)
  BY DEF ReadFails
<1>2. CASE AccessAt(Va) \in {"hole", "window"} /\ Stop
  <2>1. CopyLoop(Readable \cup {"window"})
    BY <1>1 DEF CopyInv, Loops
  <2>2. Va \in Span
    BY <1>1, <2>1, VaInSpan
  <2>3. QED
    BY <1>1, <1>2, <2>2, StopInv
<1>3. CASE Return(MaxRet)
  <2>1. StageKeeps
    BY <1>1, Types DEF StageKeeps
  <2>2. MaxRet \in Error .. MaxRet
    BY Sizes DEF Error, MaxRet
  <2>3. QED
    BY <1>1, <1>3, <2>1, <2>2, ReturnInv
<1>4. QED
  BY <1>1, <1>2, <1>3

LEMMA PrintEndsInv ==
  ASSUME CopyInv, PrintEnds PROVE CopyInv'
<1>1. /\ UNCHANGED <<stage, mem, access>>
      /\ Prints(0, buf) \/ Return(MaxRet)
  BY DEF PrintEnds
<1>2. StageKeeps
  BY <1>1, Types DEF StageKeeps
<1>3. MaxRet \in Error .. MaxRet /\ 0 \in Error .. MaxRet
  BY Sizes DEF Error, MaxRet
<1>4. buf \in Seq(Byte \cup Stray) /\ Len(buf) <= PrintLimit
  BY DEF CopyInv, TypeOK
<1>5. QED
  BY <1>1, <1>2, <1>3, <1>4, ReturnInv, PrintsInv

LEMMA ForkInv ==
  ASSUME CopyInv, NEW c \in Child, Fork(c) PROVE CopyInv'
<1>1. StageKeeps
  BY StageUpdate DEF Fork
<1>2. c \in Error .. MaxRet
  BY Sizes DEF Child, Error, MaxRet
<1>3. QED
  BY <1>1, <1>2, ReturnInv DEF Fork

LEMMA ExitInv ==
  ASSUME CopyInv, NEW c \in Child, Exit(c) PROVE CopyInv'
<1>1. /\ pc \in {"user", "wait"} /\ stage[c] = "alive"
      /\ stage' = [stage EXCEPT ![c] = "zombie"]
      /\ UNCHANGED <<pc, ptr, len, done, buf, child, mem, access, ret, printed>>
  BY DEF Exit
<1>2. StageKeeps
  BY <1>1, StageUpdate
<1>3. TypeOK'
  BY <1>1, <1>2 DEF CopyInv, TypeOK, StageKeeps
<1>4. StopsKnown' /\ Loops' /\ PageKinds(access)'
  BY <1>1 DEF CopyInv, StopsKnown, Loops, PageKinds
<1>5. Delivered'
  BY <1>1, <1>2 DEF CopyInv, Delivered, StageKeeps
<1>6. QED
  BY <1>3, <1>4, <1>5 DEF CopyInv

LEMMA SysWaitInv ==
  ASSUME CopyInv, NEW a \in Address, SysWait(a) PROVE CopyInv'
<1>1. /\ pc = "user" /\ pc' = "wait" /\ ptr' = a
      /\ UNCHANGED <<len, done, buf, child, stage, mem, access, ret, printed>>
  BY DEF SysWait
<1>2. TypeOK'
  BY <1>1 DEF CopyInv, TypeOK
<1>3. StopsKnown' /\ Loops' /\ Delivered' /\ PageKinds(access)'
  BY <1>1 DEF CopyInv, StopsKnown, Loops, Delivered, PageKinds
<1>4. QED
  BY <1>2, <1>3 DEF CopyInv

LEMMA ReapInv ==
  ASSUME CopyInv, Reap PROVE CopyInv'
<1>1. PICK c \in Child :
        /\ stage[c] = "zombie" /\ stage' = [stage EXCEPT ![c] = "reaped"]
        /\ IF ptr = NULL THEN Return(c)
           ELSE /\ pc' = "status" /\ child' = c /\ len' = StatusBytes
                /\ UNCHANGED <<ptr, done, buf, ret, printed>>
  BY DEF Reap
<1>2. pc = "wait" /\ UNCHANGED <<mem, access>>
  BY DEF Reap
<1>3. StageKeeps
  BY <1>1, StageUpdate
<1>4. CASE ptr = NULL
  <2>1. c \in Error .. MaxRet
    BY Sizes DEF Child, Error, MaxRet
  <2>2. QED
    BY <1>1, <1>2, <1>3, <1>4, <2>1, ReturnInv
<1>5. CASE ptr # NULL
  <2>1. /\ pc' = "status" /\ child' = c /\ len' = StatusBytes
        /\ UNCHANGED <<ptr, done, buf, ret, printed>>
    BY <1>1, <1>5
  <2>2. done = 0 /\ buf = <<>>
    BY <1>2 DEF CopyInv, Loops
  <2>3. stage'[c] = "reaped"
    BY <1>1, Types
  <2>4. TypeOK'
    BY <1>2, <1>3, <2>1, <2>3 DEF CopyInv, TypeOK, StageKeeps
  <2>5. CopyLoop(Writable \cup {"window"})' /\ Copied' = {}
    BY <2>1, <2>2, LoopStarts, Types, Sizes
  <2>6. StopsKnown' /\ Loops' /\ PageKinds(access)'
    BY <1>2, <2>1, <2>2, <2>5 DEF CopyInv, StopsKnown, Loops, PageKinds
  <2>7. \A a \in Address : mem[a][1] # c
    BY <1>1 DEF CopyInv, Delivered
  <2>8. Delivered'
    BY <1>2, <1>3, <2>1, <2>7 DEF CopyInv, Delivered, StageKeeps
  <2>9. QED
    BY <2>4, <2>6, <2>8 DEF CopyInv
<1>6. QED
  BY <1>4, <1>5

\* What is written at x: the next bytes of the status, and nothing elsewhere
LEMMA WrittenIs ==
  ASSUME CopyInv, len = StatusBytes, ToCopy \in 1 .. len - done, NEW x \in Nat
  PROVE  /\ Written(x, ToCopy) \in [Address -> Byte]
         /\ \A a \in Address :
              IF x <= a /\ a < x + ToCopy
                THEN /\ done + (a - x) + 1 \in 1 .. StatusBytes
                     /\ Written(x, ToCopy)[a] = <<child, done + (a - x) + 1>>
                ELSE Written(x, ToCopy)[a] = mem[a]
<1> DEFINE n == ToCopy
           w == Written(x, ToCopy)
<1>1. /\ done \in Nat /\ len \in Int /\ child \in Child /\ mem \in [Address -> Byte]
      /\ Address \subseteq Int /\ n \in 1 .. len - done /\ len = StatusBytes
  BY Types DEF Address
<1>2. w = [b \in Address |-> IF b \in x .. x + n - 1 THEN Status(child)[done + (b - x) + 1] ELSE mem[b]]
  BY DEF Written
<1> HIDE DEF w, n
<1>3. ASSUME NEW a \in Address
      PROVE  IF x <= a /\ a < x + n
               THEN /\ done + (a - x) + 1 \in 1 .. StatusBytes
                    /\ w[a] = <<child, done + (a - x) + 1>> /\ w[a] \in Byte
               ELSE w[a] = mem[a]
  <2>1. a \in Int /\ (a \in x .. x + n - 1 <=> x <= a /\ a < x + n)
    BY <1>1
  <2>2. CASE x <= a /\ a < x + n
    <3>1. done + (a - x) + 1 \in 1 .. StatusBytes
      BY <1>1, <2>1, <2>2
    <3>2. Status(child)[done + (a - x) + 1] = <<child, done + (a - x) + 1>>
      BY <3>1 DEF Status
    <3>3. <<child, done + (a - x) + 1>> \in Byte
      BY <1>1, <3>1 DEF Byte
    <3>4. QED
      BY <1>2, <2>1, <2>2, <3>1, <3>2, <3>3
  <2>3. CASE ~(x <= a /\ a < x + n)
    BY <1>2, <2>1, <2>3
  <2>4. QED
    BY <2>2, <2>3
<1>4. w \in [Address -> Byte]
  <2>1. \A a \in Address : w[a] \in Byte
    BY <1>1, <1>3
  <2>2. QED
    BY <1>2, <2>1
<1>5. QED
  BY <1>3, <1>4 DEF w, n

\* What a chunk writes: the bytes of the status, in the chunk and nowhere else
LEMMA ChunkWritten ==
  ASSUME CopyInv, WriteChunk
  PROVE  /\ pc = "status" /\ done < len /\ AccessAt(Va) \in Writable /\ len = StatusBytes
         /\ CopyLoop(Writable \cup {"window"}) /\ done' = done + ToCopy
         /\ UNCHANGED <<pc, ptr, len, buf, child, stage, access, ret, printed>>
         /\ ToCopy \in 1 .. len - done /\ Va + ToCopy \in Address
         /\ mem' \in [Address -> Byte]
         /\ \A a \in Address :
              IF Va <= a /\ a < Va + ToCopy
                THEN /\ a - ptr + 1 \in 1 .. StatusBytes
                     /\ mem'[a] = <<child, a - ptr + 1>>
                     /\ AccessAt(a) \in Writable
                ELSE mem'[a] = mem[a]
<1>1. /\ pc = "status" /\ done < len /\ AccessAt(Va) \in Writable
      /\ mem' = Written(Va, ToCopy) /\ done' = done + ToCopy
      /\ UNCHANGED <<pc, ptr, len, buf, child, stage, access, ret, printed>>
  BY DEF WriteChunk
<1>2. len = StatusBytes /\ CopyLoop(Writable \cup {"window"})
  BY <1>1 DEF CopyInv, Loops
<1>3. /\ ToCopy \in 1 .. len - done /\ Va + ToCopy \in Address
      /\ \A a \in Address : Va <= a /\ a < Va + ToCopy => AccessAt(a) = AccessAt(Va)
  BY <1>1, <1>2, Chunk DEF Copyable, Writable, Readable
<1>4. ptr \in Nat /\ done \in Nat /\ Va = ptr + done /\ Va \in Nat /\ Address \subseteq Int
  BY Types DEF Va, Address
<1>5. /\ mem' \in [Address -> Byte]
      /\ \A a \in Address :
           IF Va <= a /\ a < Va + ToCopy
             THEN /\ done + (a - Va) + 1 \in 1 .. StatusBytes
                  /\ mem'[a] = <<child, done + (a - Va) + 1>>
             ELSE mem'[a] = mem[a]
  BY <1>1, <1>2, <1>3, <1>4, WrittenIs
<1>6. \A a \in Address : done + (a - Va) + 1 = a - ptr + 1
  BY <1>4
<1>7. QED
  BY <1>1, <1>2, <1>3, <1>5, <1>6

LEMMA WriteChunkInv ==
  ASSUME CopyInv, WriteChunk PROVE CopyInv'
<1>1. /\ pc = "status" /\ done < len /\ AccessAt(Va) \in Writable /\ len = StatusBytes
      /\ CopyLoop(Writable \cup {"window"}) /\ done' = done + ToCopy
      /\ UNCHANGED <<pc, ptr, len, buf, child, stage, access, ret, printed>>
      /\ ToCopy \in 1 .. len - done /\ Va + ToCopy \in Address
      /\ mem' \in [Address -> Byte]
  BY ChunkWritten
<1>2. \A a \in Address : IF Va <= a /\ a < Va + ToCopy
                            THEN /\ a - ptr + 1 \in 1 .. StatusBytes
                                 /\ mem'[a] = <<child, a - ptr + 1>>
                                 /\ AccessAt(a) \in Writable
                            ELSE mem'[a] = mem[a]
  BY ChunkWritten
<1>3. /\ CopyLoop(Writable \cup {"window"})' /\ Copied \subseteq Copied'
      /\ \A a \in Copied' : a \in Copied \/ (Va <= a /\ a < Va + ToCopy)
      /\ \A a \in Address : Va <= a /\ a < Va + ToCopy => a \in Copied'
  BY <1>1, NextChunk DEF Copyable, Writable, Readable
<1>4. ptr \in Nat /\ done \in Nat /\ len \in Int /\ Va = ptr + done /\ child \in Child
  BY Types DEF Va
<1>5. TypeOK'
  <2>1. done' \in 0 .. StatusBytes
    BY <1>1, <1>4
  <2>2. QED
    BY <1>1, <2>1 DEF CopyInv, TypeOK
<1>6. \A a \in Copied' : AccessAt(a)' \in Writable => mem'[a] = Status(child)'[a - ptr' + 1]
  <2> SUFFICES ASSUME NEW a \in Copied', AccessAt(a) \in Writable
               PROVE  mem'[a] = Status(child)[a - ptr + 1]
    BY <1>1 DEF Status, AccessAt
  <2>1. a \in Address /\ Address \subseteq Int
    BY DEF Copied, Address
  <2>2. CASE Va <= a /\ a < Va + ToCopy
    BY <1>2, <2>1, <2>2 DEF Status
  <2>3. CASE ~(Va <= a /\ a < Va + ToCopy)
    <3>1. a \in Copied /\ mem'[a] = mem[a]
      BY <1>2, <1>3, <2>1, <2>3
    <3>2. QED
      BY <1>1, <3>1 DEF CopyInv, Loops
  <2>4. QED
    BY <2>2, <2>3
<1>7. Loops'
  BY <1>1, <1>3, <1>6 DEF CopyInv, Loops
<1>8. Delivered'
  <2> SUFFICES ASSUME NEW a \in Address, NEW c \in Child, mem'[a][1] = c
               PROVE  stage[c] = "reaped" /\ InUserSpace(a) /\ (c = child /\ InUserSpace(ptr) => a \in Copied')
    BY <1>1 DEF Delivered
  <2>1. CASE Va <= a /\ a < Va + ToCopy
    <3>1. c = child /\ InUserSpace(a)
      BY <1>2, <2>1, KindsAt DEF Writable, Readable
    <3>2. QED
      BY <1>1, <1>3, <2>1, <3>1 DEF CopyInv, TypeOK
  <2>2. CASE ~(Va <= a /\ a < Va + ToCopy)
    BY <1>1, <1>2, <1>3, <2>2 DEF CopyInv, Delivered
  <2>3. QED
    BY <2>1, <2>2
<1>9. QED
  BY <1>1, <1>5, <1>7, <1>8 DEF CopyInv, StopsKnown, PageKinds

\* A status whose pointer leads into the window may come to lie anywhere in user space.
LEMMA WriteAstrayInv ==
  ASSUME CopyInv, WriteAstray PROVE CopyInv'
<1>1. /\ pc = "status" /\ done < len /\ AccessAt(Va) = "window" /\ done' = done + ToCopy
      /\ UNCHANGED <<ptr, len, buf, child, stage, access, ret, printed>>
      /\ pc' \in {"status", "astray"}
  BY DEF WriteAstray
<1>2. len = StatusBytes /\ CopyLoop(Writable \cup {"window"})
  BY <1>1 DEF CopyInv, Loops
<1>3. ToCopy \in 1 .. len - done /\ ToCopy <= PageSize - (Va % PageSize)
  BY <1>1, <1>2, Chunk DEF Copyable, Writable, Readable
<1>4. ~InUserSpace(ptr)
  BY <1>1, <1>2, NoWindow DEF Copyable, Writable, Readable
<1>5. ptr \in Nat /\ done \in Nat /\ len \in Int /\ Va \in Nat /\ child \in Child /\ stage[child] = "reaped"
      /\ mem \in [Address -> Byte] /\ Address \subseteq Nat
  BY <1>1, Types DEF CopyInv, TypeOK, Address
<1>6. /\ mem' \in [Address -> Byte]
      /\ \A a \in Address : mem'[a] = mem[a] \/ (mem'[a][1] = child /\ InUserSpace(a))
  <2>1. CASE UNCHANGED mem
    BY <1>5, <2>1
  <2>2. CASE \E q \in OwnPage : mem' = Written((q * PageSize) + (Va % PageSize), ToCopy)
    <3>1. PICK q \in OwnPage : mem' = Written((q * PageSize) + (Va % PageSize), ToCopy)
      BY <2>2
    <3> DEFINE m == Va % PageSize
               x == (q * PageSize) + m
    <3>2. q \in 1 .. UserTop - 1 /\ UserTop \in Nat /\ m \in 0 .. PageSize - 1
      BY <1>5, Split, Sizes DEF OwnPage
    <3> HIDE DEF m
    <3>3. x \in Nat /\ x + ToCopy <= UserTop * PageSize
      <4>1. /\ PageSize * (q + 1) <= PageSize * UserTop /\ PageSize * (q + 1) = PageSize * q + PageSize
            /\ PageSize * q = q * PageSize /\ PageSize * UserTop = UserTop * PageSize
            /\ PageSize * q \in Nat /\ PageSize * UserTop \in Nat
        BY <3>2, Sizes
      <4>2. ToCopy \in Nat /\ ToCopy <= PageSize - m
        BY <1>3, <1>5 DEF m
      <4>3. QED
        BY <3>2, <4>1, <4>2, Sizes
    <3> HIDE DEF x
    <3>4. mem' = Written(x, ToCopy)
      BY <3>1 DEF x, m
    <3>5. /\ mem' \in [Address -> Byte]
          /\ \A a \in Address : IF x <= a /\ a < x + ToCopy
                                  THEN mem'[a] = <<child, done + (a - x) + 1>> ELSE mem'[a] = mem[a]
      BY <1>2, <1>3, <3>3, <3>4, WrittenIs
    <3>6. ASSUME NEW a \in Address, x <= a, a < x + ToCopy PROVE InUserSpace(a)
      <4>1. a \in Nat /\ ToCopy \in Nat /\ UserTop * PageSize \in Nat
        BY <1>3, <1>5, <3>2, Sizes
      <4>2. QED
        BY <3>3, <3>6, <4>1 DEF InUserSpace
    <3>7. QED
      BY <3>5, <3>6
  <2>3. QED
    BY <2>1, <2>2 DEF WriteAstray
<1>7. /\ CopyLoop(Writable \cup {"window"})'
      /\ Va' = Va + ToCopy
  BY <1>1, <1>2, NextChunk DEF Copyable, Writable, Readable
<1>8. TypeOK'
  <2>1. done' \in 0 .. StatusBytes
    BY <1>1, <1>2, <1>3, <1>5
  <2>2. QED
    BY <1>1, <1>5, <1>6, <2>1 DEF CopyInv, TypeOK
<1>9. \A a \in Copied' : AccessAt(a)' \notin Writable
  <2> SUFFICES ASSUME NEW a \in Address, ptr <= a PROVE AccessAt(a) \notin Writable
    BY <1>1 DEF Copied, AccessAt
  <2>1. ~InUserSpace(a)
    BY <1>4, <1>5, Sizes DEF InUserSpace
  <2>2. QED
    BY <2>1, KindsAt DEF Writable, Readable
<1>10. Loops'
  BY <1>1, <1>2, <1>7, <1>9 DEF CopyInv, Loops
<1>11. Delivered'
  <2> SUFFICES ASSUME NEW a \in Address, NEW c \in Child, mem'[a][1] = c
               PROVE  stage[c] = "reaped" /\ InUserSpace(a)
    BY <1>1, <1>4 DEF Delivered, InUserSpace
  <2>1. CASE mem'[a] = mem[a]
    BY <2>1 DEF CopyInv, Delivered
  <2>2. CASE mem'[a][1] = child /\ InUserSpace(a)
    BY <1>5, <2>2
  <2>3. QED
    BY <1>6, <2>1, <2>2
<1>12. QED
  BY <1>1, <1>8, <1>10, <1>11 DEF CopyInv, StopsKnown, PageKinds

LEMMA WriteFailsInv ==
  ASSUME CopyInv, WriteFails PROVE CopyInv'
<1>1. /\ pc = "status" /\ done < len /\ UNCHANGED <<stage, mem, access>>
      /\ Return(Error) \/ (AccessAt(Va) \in {"hole", "window"} /\ Stop)
  BY DEF WriteFails
<1>2. CASE AccessAt(Va) \in {"hole", "window"} /\ Stop
  <2>1. CopyLoop(Writable \cup {"window"})
    BY <1>1 DEF CopyInv, Loops
  <2>2. Va \in Span
    BY <1>1, <2>1, VaInSpan
  <2>3. QED
    BY <1>1, <1>2, <2>2, StopInv
<1>3. CASE Return(Error)
  <2>1. StageKeeps
    BY <1>1, Types DEF StageKeeps
  <2>2. Error \in Error .. MaxRet
    BY Sizes DEF Error, MaxRet
  <2>3. QED
    BY <1>1, <1>3, <2>1, <2>2, ReturnInv
<1>4. QED
  BY <1>1, <1>2, <1>3

\* Steps that only return: a refused text, a wait for nobody, a status told
LEMMA JustReturnsInv ==
  ASSUME CopyInv, NEW v \in {Error, MaxRet, child}, Return(v), UNCHANGED <<stage, mem, access>>
  PROVE  CopyInv'
<1>1. StageKeeps
  BY Types DEF StageKeeps
<1>2. v \in Error .. MaxRet
  BY Types, Sizes DEF Error, MaxRet, Child
<1>3. QED
  BY <1>1, <1>2, ReturnInv

LEMMA StepInv == CopyInv /\ [Next]_vars => CopyInv'
<1> SUFFICES ASSUME CopyInv, [Next]_vars PROVE CopyInv'
  OBVIOUS
<1>1. ASSUME NEW a \in Address, NEW n \in -1 .. PrintLimit + 1,
             PrintRefused(a, n) \/ PrintPanics(a, n) \/ PrintStr(a, n)
      PROVE  CopyInv'
  <2>1. n \in Int
    BY Sizes
  <2>2. QED
    BY <1>1, <2>1, JustReturnsInv, PrintPanicsInv, PrintStrInv DEF PrintRefused
<1>2. CASE ReadChunk \/ ReadAstray \/ ReadFails \/ PrintEnds
  BY <1>2, ReadChunkInv, ReadAstrayInv, ReadFailsInv, PrintEndsInv
<1>3. CASE \E c \in Child : Fork(c) \/ Exit(c)
  BY <1>3, ForkInv, ExitInv
<1>4. CASE \E a \in Address : SysWait(a)
  BY <1>4, SysWaitInv
<1>5. CASE Reap \/ WriteChunk \/ WriteAstray \/ WriteFails
  BY <1>5, ReapInv, WriteChunkInv, WriteAstrayInv, WriteFailsInv
<1>6. CASE WaitForNobody \/ StatusEnds
  BY <1>6, JustReturnsInv DEF WaitForNobody, StatusEnds
<1>7. CASE UNCHANGED vars
  <2>1. UNCHANGED <<pc, ptr, len, done, buf, child, stage, mem, access, ret, printed>>
    BY <1>7 DEF vars
  <2>2. TypeOK' /\ StopsKnown' /\ PageKinds(access)'
    BY <2>1 DEF CopyInv, TypeOK, StopsKnown, Span, AccessAt, PageKinds
  <2>3. Loops'
    BY <2>1 DEF CopyInv, Loops, CopyLoop, Copied, Va, AccessAt, Bytes, Status
  <2>4. Delivered'
    BY <2>1 DEF CopyInv, Delivered, Copied, Va
  <2>5. QED
    BY <2>2, <2>3, <2>4 DEF CopyInv
<1>8. QED
  BY <1>1, <1>2, <1>3, <1>4, <1>5, <1>6, <1>7 DEF Next

\* What the loops keep holds between any two chunks: no pointer into user space stops the
\* kernel, but a negative length does, an address that is not canonical and a pointer into the
\* window of physical memory may; and every chunk before the current one is copied.
THEOREM CopiesAreSafe == Spec => []CopyInv
BY InitInv, StepInv, PTL DEF Spec

-----------------------------------------------------------------------------
(* What the kernel writes                                                  *)

\* Which steps write
LEMMA Writers ==
  ASSUME Next, mem' # mem
  PROVE  WriteChunk \/ WriteAstray
BY DEF Next, PrintRefused, PrintPanics, PrintStr, ReadChunk, ReadAstray, ReadFails, PrintEnds,
   Fork, Exit, SysWait, Reap, WaitForNobody, WriteFails, StatusEnds

LEMMA StepWrites ==
  ASSUME CopyInv, Next, NEW a \in Address, mem'[a] # mem[a]
  PROVE  pc = "status" /\ (AccessAt(Va) = "window" \/ (a \in Span /\ AccessAt(a) \in Writable))
<1>1. CASE WriteChunk
  <2>1. /\ pc = "status" /\ done < len
        /\ ToCopy \in 1 .. len - done
        /\ Va <= a /\ a < Va + ToCopy /\ AccessAt(a) \in Writable
    BY <1>1, ChunkWritten
  <2>2. ptr \in Nat /\ done \in Nat /\ len \in Int /\ Va = ptr + done /\ a \in Int
    BY Types DEF Va, Address
  <2>3. a \in Span
    BY <2>1, <2>2 DEF Span
  <2>4. QED
    BY <2>1, <2>3
<1>2. CASE WriteAstray
  BY <1>2 DEF WriteAstray
<1>3. QED
  BY <1>1, <1>2, Writers

LEMMA StepAstray ==
  ASSUME Next, pc' = "astray"
  PROVE  pc = "status" /\ AccessAt(Va) = "window"
BY DEF Next, PrintRefused, PrintPanics, PrintStr, ReadChunk, ReadAstray, ReadFails, PrintEnds, Return,
   Prints, Stop, Fork, Exit, SysWait, Reap, WaitForNobody, WriteChunk, WriteAstray, WriteFails, StatusEnds

\* copy_to_user writes the bytes of a status where the entry of the page has WRITABLE, page
\* by page, and nothing else in the kernel's copies writes into the memory of a process,
\* unless the pointer leads into the window of physical memory.
THEOREM OnlyStatusIsWritten == Spec => WritesStatusOnly
<1> DEFINE Step ==
      /\ \A a \in Address : mem'[a] # mem[a] =>
           pc = "status" /\ (AccessAt(Va) = "window" \/ (a \in Span /\ AccessAt(a) \in Writable))
      /\ pc' = "astray" => pc = "astray" \/ (pc = "status" /\ AccessAt(Va) = "window")
<1>1. CopyInv /\ [Next]_vars => [Step]_vars
  BY StepWrites, StepAstray
<1>2. QED
  BY <1>1, CopiesAreSafe, PTL DEF Spec, WritesStatusOnly

-----------------------------------------------------------------------------
(* What a wait delivers                                                    *)

\* At the end of a loop, everything is copied.
LEMMA AllCopied ==
  ASSUME CopyInv, done = len
  PROVE  Copied = Span
BY DEF Copied, Span, Va

\* Among the bytes of a status that is not all written, those that are in the
\* memory lie before the first page that may not be written.
LEMMA WrittenBefore ==
  ASSUME CopyInv, pc = "status", done = len \/ AccessAt(Va) \notin Writable, NEW a \in Span
  PROVE  mem[a] = Status(child)[a - ptr + 1] <=>
           \A b \in Span : b \div PageSize <= a \div PageSize => AccessAt(b) \in Writable
<1>1. /\ len = StatusBytes /\ CopyLoop(Writable \cup {"window"})
      /\ \A b \in Copied : AccessAt(b) \in Writable => mem[b] = Status(child)[b - ptr + 1]
  BY DEF CopyInv, Loops
<1>2. /\ ptr \in Nat /\ done \in Nat /\ len \in Int /\ Va = ptr + done /\ child \in Child
      /\ Address \subseteq Nat /\ Span \subseteq Address /\ a \in Address
      /\ Va \in Address /\ Va \in Nat /\ a \in Nat
  BY <1>1, Types DEF Va, Span, Address, CopyLoop
<1>3. done # len => Va \in Span /\ done < len
  <2>1. done # len => done < len
    BY <1>1, <1>2 DEF CopyLoop
  <2>2. QED
    BY <1>1, <2>1, VaInSpan
<1>4. ptr <= a /\ a < ptr + len
  BY DEF Span
<1>5. a - ptr + 1 \in 1 .. StatusBytes /\ Status(child)[a - ptr + 1] = <<child, a - ptr + 1>>
  BY <1>1, <1>2, <1>4 DEF Status
<1>6. CASE ~InUserSpace(ptr)
  <2>1. ~InUserSpace(a)
    BY <1>2, <1>4, <1>6, Sizes DEF InUserSpace
  <2>2. AccessAt(a) \notin Writable
    BY <1>2, <2>1, KindsAt DEF Writable, Readable
  <2>3. mem[a][1] # child
    BY <1>2, <2>1 DEF CopyInv, Delivered
  <2>4. a \div PageSize <= a \div PageSize
    BY <1>2, Split
  <2>5. QED
    BY <1>5, <2>2, <2>3, <2>4
<1>7. InUserSpace(ptr) => \A b \in Copied : AccessAt(b) \in Writable
  BY <1>1, NoWindow DEF CopyLoop, Copyable, Writable, Readable
<1>8. CASE InUserSpace(ptr) /\ a \in Copied
  <2>1. ptr <= a /\ a < Va
    BY <1>8 DEF Copied
  <2>2. ASSUME NEW b \in Span, b \div PageSize <= a \div PageSize
        PROVE  AccessAt(b) \in Writable
    <3>1. b \in Nat /\ b \in Address /\ ptr <= b
      BY <1>2 DEF Span
    <3>2. CASE b < Va
      BY <1>8, <1>7, <3>1, <3>2 DEF Copied
    <3>3. CASE Va <= b
      <4>1. done # len
        BY <1>2, <3>3, AllCopied DEF Span
      <4>2. Va % PageSize = 0
        BY <1>1, <1>2, <2>1, <4>1 DEF CopyLoop
      <4>3. a \div PageSize < Va \div PageSize
        BY <1>2, <2>1, <4>2, PageStart
      <4>4. Va \div PageSize <= b \div PageSize
        BY <1>2, <3>1, <3>3, PageOrder
      <4>5. /\ a \div PageSize \in Nat /\ b \div PageSize \in Nat
            /\ Va \div PageSize \in Nat
        BY <1>2, <3>1, Split
      <4> DEFINE A == a \div PageSize
                 B == b \div PageSize
                 V == Va \div PageSize
      <4>6. A \in Nat /\ B \in Nat /\ V \in Nat /\ A < V /\ V <= B /\ B <= A
        BY <2>2, <4>3, <4>4, <4>5
      <4> HIDE DEF A, B, V
      <4>7. QED
        BY <4>6
    <3>4. QED
      BY <1>2, <3>1, <3>2, <3>3
  <2>3. QED
    BY <1>1, <1>8, <1>7, <2>2
<1>9. CASE InUserSpace(ptr) /\ a \notin Copied
  <2>1. Va <= a
    BY <1>2, <1>4, <1>9 DEF Copied
  <2>2. Va \div PageSize <= a \div PageSize
    BY <1>2, <2>1, PageOrder
  <2>3. done # len
    BY <1>2, <1>4, <2>1
  <2>4. mem[a][1] # child
    BY <1>2, <1>9 DEF CopyInv, Delivered
  <2>5. mem[a] # Status(child)[a - ptr + 1]
    BY <1>5, <2>4
  <2>6. QED
    BY <1>3, <2>2, <2>3, <2>5
<1>10. QED
  BY <1>8, <1>9, <1>6

\* What StatusToldOrLost says of a step
Told ==
  pc = "status" /\ pc' # "status" =>
    /\ Allowed(Writable) => pc' = "user" /\ ret' = child
    /\ pc' = "user" => ret' = Error \/ (ret' = child /\ Allowed(Writable \cup {"window"}))
    /\ \A a \in Span :
         mem'[a] = Status(child)[a - ptr + 1] <=>
           \A b \in Span : b \div PageSize <= a \div PageSize => AccessAt(b) \in Writable

LEMMA StepTells == CopyInv /\ [Next]_vars => [Told]_vars
<1> SUFFICES ASSUME CopyInv, Next, pc = "status", pc' # "status" PROVE Told
  BY DEF Told
<1>1. WriteFails \/ WriteAstray \/ StatusEnds
  BY DEF Next, PrintRefused, PrintPanics, PrintStr, ReadChunk, ReadAstray, ReadFails, PrintEnds,
     Fork, Exit, SysWait, Reap, WaitForNobody, WriteChunk
<1>2. len = StatusBytes /\ CopyLoop(Writable \cup {"window"})
  BY DEF CopyInv, Loops
<1>3. CASE WriteFails \/ WriteAstray
  <2>1. /\ done < len /\ AccessAt(Va) \notin Writable /\ mem' = mem
        /\ pc' \in {"stopped", "astray"} \/ (pc' = "user" /\ ret' = Error)
    BY <1>3 DEF WriteFails, WriteAstray, Stop, Return, Prints, Writable
  <2>2. Va \in Span
    BY <1>2, <2>1, VaInSpan
  <2>3. ~Allowed(Writable)
    BY <2>1, <2>2 DEF Allowed
  <2>4. \A a \in Span : mem'[a] = Status(child)[a - ptr + 1] <=>
           \A b \in Span : b \div PageSize <= a \div PageSize => AccessAt(b) \in Writable
    BY <2>1, WrittenBefore
  <2>5. QED
    BY <2>1, <2>3, <2>4 DEF Told
<1>4. CASE StatusEnds
  <2>1. done = len /\ mem' = mem /\ pc' = "user" /\ ret' = child
    BY <1>4 DEF StatusEnds, Return, Prints
  <2>2. Allowed(Writable \cup {"window"})
    BY <1>2, <2>1, AllCopied DEF CopyLoop, Allowed
  <2>3. \A a \in Span : mem'[a] = Status(child)[a - ptr + 1] <=>
           \A b \in Span : b \div PageSize <= a \div PageSize => AccessAt(b) \in Writable
    BY <2>1, WrittenBefore
  <2>4. QED
    BY <2>1, <2>2, <2>3 DEF Told
<1>5. QED
  BY <1>1, <1>3, <1>4

\* A wait that has reaped a child tells the child's pid and its whole status where every byte
\* for it has an entry with WRITABLE. If copy_to_user finds one without, after it has written
\* the pages before, it tells neither: the status is lost with the child. Only with a pointer
\* into the window it may tell the pid and have written elsewhere.
THEOREM StatusIsToldOrLost == Spec => StatusToldOrLost
BY StepTells, CopiesAreSafe, PTL DEF Spec, StatusToldOrLost, Told

-----------------------------------------------------------------------------
(* What is printed                                                         *)

LEMMA StepPrintsOwn ==
  ASSUME CopyInv, Next, pc = "print", pc' = "user", ret' = 0
  PROVE  /\ Allowed(Readable \cup {"window"}) /\ Len(printed') = len
         /\ \A k \in 1 .. len : AccessAt(ptr + k - 1) # "window" => printed'[k] = mem[ptr + k - 1]
<1>1. MaxRet # 0
  BY Sizes DEF MaxRet
<1>2. PrintEnds
  BY <1>1 DEF Next, PrintRefused, PrintPanics, PrintStr, ReadChunk, ReadAstray, ReadFails, Return, Prints,
     Stop, Fork, Exit, SysWait, Reap, WaitForNobody, WriteChunk, WriteAstray, WriteFails, StatusEnds
<1>3. done = len /\ printed' = buf
  BY <1>1, <1>2 DEF PrintEnds, Return, Prints
<1>4. /\ CopyLoop(Readable \cup {"window"}) /\ Len(buf) = done
      /\ \A k \in 1 .. done : AccessAt(ptr + k - 1) # "window" => buf[k] = mem[ptr + k - 1]
  BY DEF CopyInv, Loops
<1>5. Allowed(Readable \cup {"window"})
  BY <1>3, <1>4, AllCopied DEF Allowed, CopyLoop
<1>6. QED
  BY <1>3, <1>4, <1>5

\* print_str prints the bytes at the pointer that it was given, all of them and in
\* their order, and only if each lies in a page that the process may read; or in the window
\* of physical memory, where it prints any bytes of that memory instead.
THEOREM OwnTextIsPrinted == Spec => PrintsOwnText
<1> DEFINE Step ==
      pc = "print" /\ pc' = "user" /\ ret' = 0 =>
        /\ Allowed(Readable \cup {"window"}) /\ Len(printed') = len
        /\ \A k \in 1 .. len : AccessAt(ptr + k - 1) # "window" => printed'[k] = mem[ptr + k - 1]
<1>1. CopyInv /\ [Next]_vars => [Step]_vars
  BY StepPrintsOwn
<1>2. QED
  BY <1>1, CopiesAreSafe, PTL DEF Spec, PrintsOwnText

=============================================================================
