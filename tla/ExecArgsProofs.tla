--------------------------- MODULE ExecArgsProofs ---------------------------
(***************************************************************************)
(* Arguments arrive, the stack stays aligned and in its pages, for all     *)
(* limits and stack sizes that the two assumptions of ExecArgs admit.      *)
(***************************************************************************)
EXTENDS ExecArgs, SequenceTheorems, WellFoundedInduction, TLAPS

-----------------------------------------------------------------------------
(* Strings                                                                 *)

\* A set of numbers that is not empty has a least element.
LEMMA LeastElement ==
  ASSUME NEW S \in SUBSET Nat, S # {}
  PROVE  \E m \in S : \A n \in S : m <= n
<1> DEFINE Less == {ss \in Nat \X Nat : ss[1] < ss[2]}
<1>1. IsWellFoundedOn(Less, Nat)
  BY NatLessThanWellFounded DEF OpToRel
<1> HIDE DEF Less
<1>2. PICK m \in S : \A n \in S : ~ (<<n, m>> \in Less)
  BY <1>1, WFMin
<1>3. \A n \in S : ~ (n < m)
  BY <1>2 DEF Less
<1> QED  BY <1>3

\* An array is a sequence.
LEMMA ArrayIsSequence ==
  ASSUME NEW S, NEW n \in Nat, NEW f \in [1 .. n -> S]
  PROVE  f \in Seq(S) /\ Len(f) = n
<1>1. f \in Seq(S)
  BY SeqDef
<1>2. Len(f) \in Nat /\ DOMAIN f = 1 .. Len(f)
  BY <1>1, LenProperties
<1> QED  BY <1>1, <1>2

\* The first NUL decides, and only that.
LEMMA StrLenIs ==
  ASSUME NEW bytes, Len(bytes) \in Nat, NEW n \in 0 .. Len(bytes),
         \A k \in 1 .. n : bytes[k] # NUL, n < Len(bytes) => bytes[n + 1] = NUL
  PROVE  StrLen(bytes) = n
<1> DEFINE Is(m) == (\A k \in 1 .. m : bytes[k] # NUL) /\ (m < Len(bytes) => bytes[m + 1] = NUL)
<1>1. Is(n)
  OBVIOUS
<1>2. ASSUME NEW m \in 0 .. Len(bytes), Is(m) PROVE m = n
  <2>1. CASE m < n
    <3>1. m + 1 \in 1 .. n /\ m < Len(bytes)
      BY <2>1
    <3> QED  BY <1>2, <3>1
  <2>2. CASE n < m
    <3>1. n + 1 \in 1 .. m /\ n < Len(bytes)
      BY <2>2
    <3> QED  BY <1>2, <3>1
  <2> QED  BY <2>1, <2>2
<1>3. StrLen(bytes) = CHOOSE m \in 0 .. Len(bytes) : Is(m)
  BY DEF StrLen
<1> HIDE DEF Is
<1> QED  BY <1>1, <1>2, <1>3

\* Every sequence of bytes has a string length.
LEMMA StrLenFacts ==
  ASSUME NEW S, NEW bytes \in Seq(S)
  PROVE  /\ StrLen(bytes) \in 0 .. Len(bytes) /\ Len(bytes) \in Nat
         /\ \A k \in 1 .. StrLen(bytes) : bytes[k] # NUL
         /\ StrLen(bytes) < Len(bytes) => bytes[StrLen(bytes) + 1] = NUL
<1>1. Len(bytes) \in Nat
  BY LenProperties
<1> DEFINE nuls == {k \in 1 .. Len(bytes) : bytes[k] = NUL}
<1>2. CASE nuls = {}
  <2>1. \A k \in 1 .. Len(bytes) : bytes[k] # NUL
    BY <1>2
  <2>2. StrLen(bytes) = Len(bytes)
    BY <1>1, <2>1, StrLenIs
  <2> QED  BY <1>1, <2>1, <2>2
<1>3. CASE nuls # {}
  <2>1. nuls \in SUBSET Nat
    OBVIOUS
  <2>2. PICK m \in nuls : \A k \in nuls : m <= k
    BY <1>3, <2>1, LeastElement
  <2>3. m \in 1 .. Len(bytes) /\ bytes[m] = NUL
    OBVIOUS
  <2>4. \A k \in 1 .. m - 1 : bytes[k] # NUL
    BY <1>1, <2>2, <2>3
  <2> DEFINE n == m - 1
  <2>5. n \in 0 .. Len(bytes) /\ n + 1 = m
    BY <1>1, <2>3
  <2>6. \A k \in 1 .. n : bytes[k] # NUL
    BY <2>4
  <2> HIDE DEF n
  <2>7. StrLen(bytes) = n
    BY <1>1, <2>3, <2>5, <2>6, StrLenIs
  <2> QED  BY <1>1, <2>3, <2>5, <2>6, <2>7
<1> QED  BY <1>2, <1>3

\* The string is free of NUL.
LEMMA UpToNulFacts ==
  ASSUME NEW bytes \in Seq(Char \cup {NUL})
  PROVE  /\ UpToNul(bytes) \in Seq(Char) /\ Len(UpToNul(bytes)) = StrLen(bytes)
         /\ StrLen(bytes) \in Nat
<1>1. StrLen(bytes) \in 0 .. Len(bytes) /\ Len(bytes) \in Nat
      /\ \A k \in 1 .. StrLen(bytes) : bytes[k] # NUL
  BY StrLenFacts
<1>2. \A k \in 1 .. StrLen(bytes) : bytes[k] \in Char
  BY <1>1, ElementOfSeq
<1>3. UpToNul(bytes) \in [1 .. StrLen(bytes) -> Char]
  BY <1>2 DEF UpToNul
<1> QED  BY <1>1, <1>3, ArrayIsSequence

\* Two arrays with the same bytes up to a NUL hold the same string.
LEMMA SameString ==
  ASSUME NEW a, Len(a) \in Nat, NEW b, NEW n \in 0 .. Len(a),
         \A k \in 1 .. n : a[k] = b[k] /\ b[k] # NUL,
         n < Len(a) => a[n + 1] = NUL
  PROVE  UpToNul(a) = [k \in 1 .. n |-> b[k]]
<1>1. StrLen(a) = n
  BY StrLenIs
<1> QED  BY <1>1 DEF UpToNul

\* copy_c_string keeps the string of an argument within its limit, and ends it; the kernel
\* finds the end if the string is shorter than MAX_ARG_LEN.
LEMMA CStringFacts ==
  ASSUME NEW bytes \in Seq(Char \cup {NUL}), Len(bytes) <= ExecMaxArgLen
  PROVE  /\ UpToNul(CString(bytes)) = UpToNul(bytes)
         /\ Terminated(CString(bytes)) <=> StrLen(bytes) < MaxArgLen
<1> DEFINE buf == CString(bytes)
           n == StrLen(bytes)
           size == ExecMaxArgLen + 1
<1>1. /\ n \in 0 .. Len(bytes) /\ Len(bytes) \in Nat /\ DOMAIN bytes = 1 .. Len(bytes)
      /\ \A k \in 1 .. n : bytes[k] # NUL
      /\ n < Len(bytes) => bytes[n + 1] = NUL
  BY StrLenFacts, LenProperties
<1>2. size \in Nat /\ Len(bytes) < size /\ MaxArgLen \in Nat \ {0} /\ MaxArgLen <= size
  BY <1>1, ArgsAssumption
<1>3. \A k \in 1 .. Len(bytes) : bytes[k] \in Char \cup {NUL}
  BY ElementOfSeq
<1>4. buf = [k \in 1 .. size |-> IF k \in DOMAIN bytes THEN bytes[k] ELSE NUL]
  BY DEF CString
<1> HIDE DEF buf, n, size
<1>5. buf \in [1 .. size -> Char \cup {NUL}]
  BY <1>1, <1>3, <1>4
<1>6. Len(buf) = size
  BY <1>2, <1>5, ArrayIsSequence
<1>7. n < size /\ \A k \in 1 .. n : buf[k] = bytes[k]
  BY <1>1, <1>2, <1>4
<1>8. buf[n + 1] = NUL
  <2>1. n + 1 \in 1 .. size
    BY <1>1, <1>2
  <2> QED  BY <1>1, <1>4, <2>1
<1>9. UpToNul(buf) = [k \in 1 .. n |-> bytes[k]]
  <2>1. n \in 0 .. Len(buf) /\ Len(buf) \in Nat
    BY <1>1, <1>2, <1>6
  <2> QED  BY <1>1, <1>7, <1>8, <2>1, SameString
<1>10. UpToNul(buf) = UpToNul(bytes)
  BY <1>9 DEF UpToNul, n
<1>11. CASE n < MaxArgLen
  <2>1. n + 1 \in 1 .. MaxArgLen
    BY <1>1, <1>2, <1>11
  <2> QED  BY <1>8, <1>10, <1>11, <2>1 DEF Terminated, buf, n
<1>12. CASE ~ (n < MaxArgLen)
  <2>1. \A k \in 1 .. MaxArgLen : k \in 1 .. n
    BY <1>1, <1>2, <1>12
  <2>2. \A k \in 1 .. MaxArgLen : buf[k] # NUL
    BY <1>1, <1>7, <2>1
  <2> QED  BY <1>10, <1>12, <2>2 DEF Terminated, buf, n
<1> QED  BY <1>11, <1>12

-----------------------------------------------------------------------------
(* The stack                                                               *)

LEMMA RoundDownFacts ==
  ASSUME NEW a \in Int
  PROVE  /\ RoundDown(a, 8) \in Int /\ RoundDown(a, 8) <= a /\ a < RoundDown(a, 8) + 8
         /\ RoundDown(a, 16) \in Int /\ RoundDown(a, 16) <= a /\ a < RoundDown(a, 16) + 16
         /\ RoundDown(a, 16) % 16 = 0
  BY DEF RoundDown

\* A word is found again where copy_u64_slice_to_user has put it.
LEMMA BytesFacts ==
  ASSUME NEW words, NEW n \in Nat, n = Len(words), NEW i \in 1 .. n, NEW k \in 0 .. 7
  PROVE  /\ 8 * (i - 1) + k + 1 \in 1 .. 8 * n
         /\ Bytes(words)[8 * (i - 1) + k + 1] = WordByte(words[i], k)
<1> DEFINE b == 8 * (i - 1) + k + 1
<1>1. b \in 1 .. 8 * n
  OBVIOUS
<1>2. (b - 1) \div 8 + 1 = i /\ (b - 1) % 8 = k
  OBVIOUS
<1> HIDE DEF b
<1>3. Bytes(words)[b] = WordByte(words[i], k)
  BY <1>1, <1>2 DEF Bytes
<1> QED  BY <1>1, <1>3 DEF b

\* copy_to_user_pagetable writes the bytes it is given and nothing else.
LEMMA WithBytesFacts ==
  ASSUME DOMAIN stack = 0 .. StackTop - 1,
         NEW at \in Nat, NEW bytes, NEW n \in Nat, DOMAIN bytes = 1 .. n, at + n <= StackTop
  PROVE  /\ DOMAIN WithBytes(at, bytes) = 0 .. StackTop - 1
         /\ \A k \in 1 .. n : WithBytes(at, bytes)[at + k - 1] = bytes[k]
         /\ \A a \in 0 .. StackTop - 1 : at + n <= a => WithBytes(at, bytes)[a] = stack[a]
<1>1. StackTop \in Nat
  BY ArgsAssumption
<1>2. DOMAIN WithBytes(at, bytes) = 0 .. StackTop - 1
  BY DEF WithBytes
<1>3. ASSUME NEW k \in 1 .. n PROVE WithBytes(at, bytes)[at + k - 1] = bytes[k]
  <2>1. at + k - 1 \in 0 .. StackTop - 1 /\ at + k - 1 - at + 1 = k
    BY <1>1
  <2> QED  BY <2>1 DEF WithBytes
<1>4. ASSUME NEW a \in 0 .. StackTop - 1, at + n <= a PROVE WithBytes(at, bytes)[a] = stack[a]
  <2>1. a - at + 1 \notin 1 .. n
    BY <1>1, <1>4
  <2> QED  BY <2>1 DEF WithBytes
<1> QED  BY <1>2, <1>3, <1>4

\* What n arguments take is bounded, and the most they can take fits.
LEMMA DepthFacts ==
  ASSUME NEW n \in 0 .. MaxArgc
  PROVE  /\ Depth(n) \in Nat /\ Depth(n) <= Depth(MaxArgc) /\ Depth(0) = 0
         /\ Depth(n + 1) = Depth(n) + MaxArgLen + 7
         /\ StackTop - Depth(n) - 8 * (n + 1) - 15 - 24 >= StackTop - StackBytes
         /\ StackTop - StackBytes >= 0
<1>1. MaxArgc \in Nat /\ MaxArgLen \in Nat /\ StackTop \in Nat /\ StackBytes \in Nat
      /\ StackBytes <= StackTop
  BY ArgsAssumption
<1> DEFINE c == MaxArgLen + 7
<1>2. c \in Nat
  BY <1>1
<1>3. Depth(n) = n * c /\ Depth(MaxArgc) = MaxArgc * c /\ Depth(n + 1) = (n + 1) * c
      /\ Depth(0) = 0 * c
  BY DEF Depth
<1>4. MaxArgc * c + 8 * (MaxArgc + 1) + 15 + 24 <= StackBytes
  BY StackAssumption
<1> HIDE DEF c
<1>5. MaxArgc * c \in Nat /\ n * c \in Nat /\ n * c <= MaxArgc * c /\ (n + 1) * c = n * c + c /\ 0 * c = 0
  BY <1>1, <1>2
<1>6. Depth(n) \in Nat /\ Depth(n) <= Depth(MaxArgc) /\ Depth(0) = 0 /\ Depth(n + 1) = Depth(n) + c
  BY <1>3, <1>5
<1>7. Depth(MaxArgc) \in Nat /\ Depth(MaxArgc) + 8 * (MaxArgc + 1) + 15 + 24 <= StackBytes
  BY <1>3, <1>4, <1>5
<1>8. Depth(n) + 8 * (n + 1) + 15 + 24 <= StackBytes
  BY <1>1, <1>6, <1>7
<1>9. StackTop - Depth(n) - 8 * (n + 1) - 15 - 24 >= StackTop - StackBytes
  BY <1>1, <1>6, <1>8
<1> QED  BY <1>1, <1>6, <1>9 DEF c

-----------------------------------------------------------------------------
(* The invariant                                                           *)

LEMMA InitInv == Init => IInv
<1> SUFFICES ASSUME Init PROVE IInv
  OBVIOUS
<1>1. StackTop \in Nat /\ StackTop % 16 = 0 /\ StackBytes \in Nat /\ MaxArgc \in Nat
      /\ MaxArgLen \in Nat
  BY ArgsAssumption
<1>2. Len(<<>>) = 0 /\ \A S : <<>> \in Seq(S)
  BY EmptySeq
<1>3. TypeOK /\ InStack
  BY <1>1, <1>2 DEF Init, TypeOK, InStack, Limits
<1>4. PanicsAtLimit /\ LibraryCopied
  BY DEF Init, PanicsAtLimit, LibraryCopied
<1>5. Copied
  BY <1>2 DEF Init, Copied
<1>6. Deep
  <2>1. Depth(0) = 0
    BY <1>1, DepthFacts
  <2> QED  BY <1>1, <1>2, <2>1 DEF Init, Deep
<1>7. Pushed
  BY <1>2 DEF Init, Pushed
<1>8. Started
  <2>1. (StackTop - 8) % 16 = 8
    BY <1>1
  <2> QED  BY <1>2, <2>1 DEF Init, Started
<1> QED  BY <1>3, <1>4, <1>5, <1>6, <1>7, <1>8 DEF IInv

\* A request is a list of byte strings.
LEMMA RequestType ==
  ASSUME NEW req \in Requests
  PROVE  /\ req \in Seq(Seq(Char \cup {NUL})) /\ Len(req) \in Nat /\ DOMAIN req = 1 .. Len(req)
         /\ \A i \in DOMAIN req : req[i] \in Seq(Char \cup {NUL})
  BY ArgsAssumption, LenProperties, ElementOfSeq

\* A program keeps its arguments while it runs, whatever calls to exec fail meanwhile.
LEMMA StartedKept ==
  ASSUME Started, UNCHANGED <<program, given>>
  PROVE  Started'
  BY DEF Started, Arg, WordAt, CStr

\* The calls: nothing is copied yet.
LEMMA CallsInv ==
  ASSUME IInv, NEW req \in Requests, LibraryRefuses(req) \/ LibraryCalls(req)
  PROVE  IInv'
<1>1. req \in Seq(Seq(Char \cup {NUL})) /\ Len(req) \in Nat
  BY RequestType
<1>2. Started' /\ InStack'
  BY StartedKept DEF LibraryRefuses, LibraryCalls, IInv, InStack
<1>3. CASE LibraryRefuses(req)
  <2>1. TypeOK'
    BY <1>1, <1>3 DEF LibraryRefuses, IInv, TypeOK, Limits
  <2>2. PanicsAtLimit' /\ Copied' /\ LibraryCopied' /\ Deep' /\ Pushed'
    BY <1>3 DEF LibraryRefuses, PanicsAtLimit, Copied, LibraryCopied, Deep, Pushed
  <2> QED  BY <1>2, <2>1, <2>2 DEF IInv
<1>4. CASE LibraryCalls(req)
  <2>1. Len(<<>>) = 0 /\ \A S : <<>> \in Seq(S)
    BY EmptySeq
  <2>2. TypeOK'
    <3>1. kargv' \in Seq(Seq(Char)) /\ Limits(kargv')
      BY <1>4, <2>1, ArgsAssumption DEF LibraryCalls, Limits
    <3> QED  BY <1>1, <1>4, <3>1 DEF LibraryCalls, IInv, TypeOK
  <2>3. Copied'
    BY <1>1, <1>4, <2>1 DEF LibraryCalls, Copied
  <2>4. PanicsAtLimit' /\ LibraryCopied' /\ Deep' /\ Pushed'
    BY <1>4 DEF LibraryCalls, PanicsAtLimit, LibraryCopied, Deep, Pushed
  <2> QED  BY <1>2, <2>2, <2>3, <2>4 DEF IInv
<1> QED  BY <1>3, <1>4

LEMMA NullArgvInv ==
  ASSUME IInv, NullArgv
  PROVE  IInv'
<1>1. Len(<<>>) = 0 /\ \A S : <<>> \in Seq(S)
  BY EmptySeq
<1>2. Started' /\ InStack'
  BY StartedKept DEF NullArgv, IInv, InStack
<1>3. TypeOK'
  <2>1. kargv' \in Seq(Seq(Char)) /\ Limits(kargv') /\ asked' \in Seq(Seq(Char \cup {NUL}))
    BY <1>1, ArgsAssumption DEF NullArgv, Limits
  <2> QED  BY <2>1 DEF NullArgv, IInv, TypeOK
<1>4. Copied'
  BY <1>1 DEF NullArgv, Copied
<1>5. PanicsAtLimit' /\ LibraryCopied' /\ Deep' /\ Pushed'
  BY DEF NullArgv, PanicsAtLimit, LibraryCopied, Deep, Pushed
<1> QED  BY <1>2, <1>3, <1>4, <1>5 DEF IInv

\* What copy_argv finds in the caller's memory
LEMMA CallerMemory ==
  ASSUME IInv, pc = "copy", NextArg <= MaxArgc
  PROVE  /\ Len(kargv) \in Nat /\ Len(asked) \in Nat /\ DOMAIN asked = 1 .. Len(asked)
         /\ DOMAIN kargv = 1 .. Len(kargv)
         /\ NextArg \in 1 .. ExecMaxArgc + 1 /\ NextArg = Len(kargv) + 1
         /\ Len(kargv) <= Len(asked) /\ ~TooMuch(asked)
         /\ user.argv[NextArg] # 0 <=> NextArg \in DOMAIN asked
         /\ NextArg \in DOMAIN asked =>
              /\ user.bufs[user.argv[NextArg]] = CString(asked[NextArg])
              /\ asked[NextArg] \in Seq(Char \cup {NUL}) /\ Len(asked[NextArg]) <= ExecMaxArgLen
<1>1. /\ Len(kargv) \in Nat /\ Len(asked) \in Nat /\ DOMAIN asked = 1 .. Len(asked)
      /\ DOMAIN kargv = 1 .. Len(kargv)
      /\ \A i \in DOMAIN asked : asked[i] \in Seq(Char \cup {NUL})
  BY LenProperties, ElementOfSeq DEF IInv, TypeOK
<1>2. Len(kargv) <= Len(asked) /\ ~TooMuch(asked) /\ user = Passed(asked)
  BY DEF IInv, Copied, LibraryCopied
<1>3. NextArg \in 1 .. ExecMaxArgc + 1 /\ NextArg = Len(kargv) + 1 /\ NextArg # 0
  BY <1>1, ArgsAssumption DEF NextArg
<1>4. user.argv[NextArg] = IF NextArg \in DOMAIN asked THEN NextArg ELSE 0
  BY <1>2, <1>3 DEF Passed
<1>5. ASSUME NEW i \in DOMAIN asked
      PROVE  user.bufs[i] = CString(asked[i]) /\ Len(asked[i]) <= ExecMaxArgLen
  <2>1. Len(asked[i]) \in Nat /\ ExecMaxArgLen \in Nat
    BY <1>1, LenProperties, ArgsAssumption
  <2> QED  BY <1>2, <2>1 DEF Passed, TooMuch
<1> QED  BY <1>1, <1>2, <1>3, <1>4, <1>5

\* copy_argv copies the next string, or panics because it is too long.
LEMMA CopyArgInv ==
  ASSUME IInv, CopyArg
  PROVE  IInv'
<1> DEFINE arg == asked[NextArg]
           n == Len(kargv)
<1>1. /\ n \in Nat /\ Len(asked) \in Nat /\ DOMAIN asked = 1 .. Len(asked)
      /\ n < Len(asked) /\ n < MaxArgc /\ DOMAIN kargv = 1 .. n
      /\ NextArg = n + 1 /\ NextArg \in DOMAIN asked /\ ~TooMuch(asked)
      /\ user.bufs[user.argv[NextArg]] = CString(arg)
      /\ arg \in Seq(Char \cup {NUL}) /\ Len(arg) <= ExecMaxArgLen
  BY CallerMemory, ArgsAssumption DEF CopyArg
<1>2. /\ UpToNul(CString(arg)) = UpToNul(arg) /\ UpToNul(arg) \in Seq(Char)
      /\ Len(UpToNul(arg)) = StrLen(arg) /\ StrLen(arg) \in Nat
      /\ Terminated(CString(arg)) <=> StrLen(arg) < MaxArgLen
  BY <1>1, CStringFacts, UpToNulFacts
<1>3. Started' /\ InStack' /\ pc = "copy"
  BY StartedKept DEF CopyArg, IInv, InStack
<1> HIDE DEF arg, n
<1>4. CASE Terminated(CString(arg))
  <2>1. kargv' = Append(kargv, UpToNul(arg)) /\ pc' = "copy"
        /\ UNCHANGED <<asked, user, sp, ptrs, stack>>
    BY <1>1, <1>2, <1>3, <1>4 DEF CopyArg
  <2>2. kargv \in Seq(Seq(Char))
    BY DEF IInv, TypeOK
  <2>3. /\ kargv' \in Seq(Seq(Char)) /\ Len(kargv') = n + 1 /\ DOMAIN kargv' = 1 .. n + 1
        /\ \A i \in 1 .. n : kargv'[i] = kargv[i]
        /\ kargv'[n + 1] = UpToNul(arg)
    BY <1>2, <2>1, <2>2 DEF n
  <2>4. Limits(kargv')
    <3>1. \A i \in 1 .. n : Len(kargv[i]) < MaxArgLen
      BY <1>1 DEF IInv, TypeOK, Limits
    <3>2. Len(kargv') <= MaxArgc
      BY <1>1, <2>3, ArgsAssumption
    <3>3. ASSUME NEW i \in DOMAIN kargv' PROVE Len(kargv'[i]) < MaxArgLen
      <4>1. i \in 1 .. n \/ i = n + 1
        BY <1>1, <2>3
      <4> QED  BY <1>2, <1>4, <2>3, <3>1, <4>1
    <3> QED  BY <3>2, <3>3 DEF Limits
  <2>5. TypeOK'
    BY <2>1, <2>3, <2>4 DEF IInv, TypeOK
  <2>6. Copied'
    <3>1. ASSUME NEW i \in DOMAIN kargv' PROVE kargv'[i] = UpToNul(asked[i])
      <4>1. i \in 1 .. n \/ i = n + 1
        BY <1>1, <2>3
      <4>2. CASE i \in 1 .. n
        BY <1>1, <1>3, <2>3, <4>2 DEF IInv, Copied
      <4>3. CASE i = n + 1
        BY <1>1, <2>3, <4>3 DEF arg
      <4> QED  BY <4>1, <4>2, <4>3
    <3> QED  BY <1>1, <2>1, <2>3, <3>1 DEF Copied
  <2>7. PanicsAtLimit' /\ LibraryCopied' /\ Deep' /\ Pushed'
    BY <1>3, <2>1 DEF IInv, PanicsAtLimit, LibraryCopied, Deep, Pushed
  <2> QED  BY <1>3, <2>5, <2>6, <2>7 DEF IInv
<1>5. CASE ~Terminated(CString(arg))
  <2>1. pc' = "panic" /\ UNCHANGED <<asked, user, kargv, sp, ptrs, stack>>
    BY <1>1, <1>5 DEF CopyArg
  <2>2. TypeOK'
    BY <2>1 DEF IInv, TypeOK
  <2>3. PanicsAtLimit'
    <3>1. StrLen(asked[NextArg]) >= MaxArgLen
      BY <1>2, <1>5, ArgsAssumption DEF arg
    <3> QED  BY <1>1, <2>1, <3>1 DEF PanicsAtLimit, TooMuch
  <2>4. Copied' /\ LibraryCopied' /\ Deep' /\ Pushed'
    BY <2>1 DEF Copied, LibraryCopied, Deep, Pushed
  <2> QED  BY <1>3, <2>2, <2>3, <2>4 DEF IInv
<1> QED  BY <1>4, <1>5

\* The null pointer ends the list where the caller's list ends, or it comes too late.
LEMMA CopyLastInv ==
  ASSUME IInv, CopyEnds \/ TooManyArguments
  PROVE  IInv'
<1>1. Started' /\ InStack' /\ pc = "copy" /\ UNCHANGED <<asked, user, kargv, sp, ptrs, stack>>
  BY StartedKept DEF CopyEnds, TooManyArguments, IInv, InStack
<1>2. pc' \in {"prepare", "panic"}
  BY DEF CopyEnds, TooManyArguments
<1>3. TypeOK'
  BY <1>1, <1>2 DEF IInv, TypeOK
<1>4. LibraryCopied' /\ Deep' /\ Pushed'
  BY <1>1, <1>2 DEF LibraryCopied, Deep, Pushed
<1>5. CASE CopyEnds
  <2>1. Len(kargv) = Len(asked)
    <3>1. /\ Len(kargv) \in Nat /\ Len(asked) \in Nat /\ Len(kargv) <= Len(asked)
          /\ Len(kargv) + 1 \notin 1 .. Len(asked)
      BY <1>5, CallerMemory DEF CopyEnds
    <3> QED  BY <3>1
  <2> QED  BY <1>1, <1>3, <1>4, <1>5, <2>1 DEF CopyEnds, IInv, Copied, PanicsAtLimit
<1>6. CASE TooManyArguments
  <2>1. Len(kargv) \in Nat /\ Len(asked) \in Nat
    BY LenProperties DEF IInv, TypeOK
  <2>2. Len(asked) >= MaxArgc
    BY <1>1, <1>6, <2>1, ArgsAssumption DEF TooManyArguments, NextArg, IInv, Copied
  <2> QED  BY <1>1, <1>3, <1>4, <1>6, <2>2
           DEF TooManyArguments, IInv, Copied, LibraryCopied, PanicsAtLimit, TooMuch
<1> QED  BY <1>5, <1>6

LEMMA PrepareInv ==
  ASSUME IInv, PrepareFails \/ Prepare
  PROVE  IInv'
<1>1. Started' /\ pc = "prepare" /\ UNCHANGED <<asked, user, kargv>>
  BY StartedKept DEF PrepareFails, Prepare, IInv
<1>2. CASE PrepareFails
  BY <1>1, <1>2 DEF PrepareFails, IInv, TypeOK, InStack, Copied, LibraryCopied, PanicsAtLimit,
                    Deep, Pushed
<1>3. CASE Prepare
  <2>1. Len(<<>>) = 0 /\ \A S : <<>> \in Seq(S)
    BY EmptySeq
  <2>2. StackTop \in Nat /\ StackBytes \in Nat /\ Len(kargv) \in Nat
    BY ArgsAssumption, LenProperties DEF IInv, TypeOK
  <2>3. TypeOK' /\ InStack'
    BY <1>1, <1>3, <2>1, <2>2 DEF Prepare, IInv, TypeOK, InStack
  <2>4. Copied' /\ LibraryCopied' /\ PanicsAtLimit'
    BY <1>1, <1>3 DEF Prepare, IInv, Copied, LibraryCopied, PanicsAtLimit
  <2>5. Deep'
    <3>1. Depth(0) = 0
      BY ArgsAssumption, DepthFacts
    <3> QED  BY <1>3, <2>1, <2>2, <3>1 DEF Prepare, Deep
  <2>6. Pushed'
    BY <1>3, <2>1 DEF Prepare, Pushed
  <2> QED  BY <1>1, <2>3, <2>4, <2>5, <2>6 DEF IInv
<1> QED  BY <1>2, <1>3

\* The kernel's copy as setup_user_stack sees it
LEMMA KernelCopy ==
  ASSUME IInv
  PROVE  /\ Len(kargv) \in 0 .. MaxArgc /\ DOMAIN kargv = 1 .. Len(kargv)
         /\ Len(ptrs) \in Nat /\ DOMAIN ptrs = 1 .. Len(ptrs)
         /\ \A i \in 1 .. Len(ptrs) : ptrs[i] \in Nat
         /\ \A i \in 1 .. Len(kargv) :
              /\ kargv[i] \in Seq(Char) /\ Len(kargv[i]) \in Nat /\ Len(kargv[i]) < MaxArgLen
              /\ DOMAIN kargv[i] = 1 .. Len(kargv[i])
              /\ \A k \in 1 .. Len(kargv[i]) : kargv[i][k] \in Char /\ kargv[i][k] # NUL
         /\ sp \in Int /\ DOMAIN stack = 0 .. StackTop - 1 /\ StackTop \in Nat
<1>1. /\ Len(kargv) \in 0 .. MaxArgc /\ DOMAIN kargv = 1 .. Len(kargv)
      /\ Len(ptrs) \in Nat /\ DOMAIN ptrs = 1 .. Len(ptrs)
      /\ \A i \in 1 .. Len(ptrs) : ptrs[i] \in Nat
      /\ sp \in Int /\ DOMAIN stack = 0 .. StackTop - 1 /\ StackTop \in Nat
  BY LenProperties, ElementOfSeq, ArgsAssumption DEF IInv, TypeOK, Limits
<1>2. ASSUME NEW i \in 1 .. Len(kargv)
      PROVE  /\ kargv[i] \in Seq(Char) /\ Len(kargv[i]) \in Nat /\ Len(kargv[i]) < MaxArgLen
             /\ DOMAIN kargv[i] = 1 .. Len(kargv[i])
             /\ \A k \in 1 .. Len(kargv[i]) : kargv[i][k] \in Char /\ kargv[i][k] # NUL
  <2>1. kargv[i] \in Seq(Char) /\ Len(kargv[i]) < MaxArgLen
    BY <1>1, ElementOfSeq DEF IInv, TypeOK, Limits
  <2> QED  BY <2>1, LenProperties, ElementOfSeq, ArgsAssumption
<1> QED  BY <1>1, <1>2

\* A string goes below everything that is on the stack already.
LEMMA PushArgInv ==
  ASSUME IInv, PushArg
  PROVE  IInv'
<1> DEFINE m == Len(ptrs)
           arg == kargv[m + 1]
           n == Len(arg)
           at == RoundDown(sp - (n + 1), 8)
           bytes == Append(arg, NUL)
<1>1. /\ m \in Nat /\ m + 1 \in 1 .. Len(kargv) /\ Len(kargv) \in 0 .. MaxArgc
      /\ m \in 0 .. MaxArgc /\ DOMAIN kargv = 1 .. Len(kargv)
      /\ \A i \in 1 .. m : ptrs[i] \in Nat
      /\ sp \in Int /\ DOMAIN stack = 0 .. StackTop - 1 /\ StackTop \in Nat
      /\ MaxArgLen \in Nat /\ MaxArgc \in Nat
  BY KernelCopy, ArgsAssumption DEF PushArg
<1>2. /\ arg \in Seq(Char) /\ n \in Nat /\ n < MaxArgLen
      /\ \A k \in 1 .. n : arg[k] \in Char
  BY <1>1, KernelCopy
<1>3. /\ pc = "push" /\ pc' = "push" /\ sp' = at /\ stack' = WithBytes(at, bytes)
      /\ ptrs' = Append(ptrs, at)
      /\ UNCHANGED <<asked, user, kargv, program, given>>
  BY DEF PushArg
<1>4. /\ Depth(m) \in Nat /\ Depth(m + 1) = Depth(m) + MaxArgLen + 7
      /\ Depth(m + 1) <= Depth(MaxArgc) /\ StackTop - StackBytes >= 0 /\ StackBytes \in Nat
      /\ StackTop - Depth(m + 1) >= StackTop - StackBytes
  <2>1. m + 1 \in 0 .. MaxArgc
    BY <1>1
  <2>2. StackBytes \in Nat
    BY ArgsAssumption
  <2> HIDE DEF m
  <2>3. /\ Depth(m) \in Nat /\ Depth(m + 1) = Depth(m) + MaxArgLen + 7
        /\ StackTop - StackBytes >= 0
    BY <1>1, DepthFacts
  <2> DEFINE d == m + 1
  <2>4. d \in Nat /\ d \in 0 .. MaxArgc
    BY <1>1, <2>1
  <2> HIDE DEF d
  <2>5. /\ Depth(d) \in Nat /\ Depth(d) <= Depth(MaxArgc)
        /\ StackTop - Depth(d) - 8 * (d + 1) - 15 - 24 >= StackTop - StackBytes
    BY <2>4, DepthFacts
  <2>6. Depth(d) <= Depth(MaxArgc) /\ StackTop - Depth(d) >= StackTop - StackBytes
    BY <1>1, <2>2, <2>4, <2>5
  <2> QED  BY <2>2, <2>3, <2>6 DEF d
<1>5. sp >= StackTop - Depth(m) /\ sp <= StackTop
  BY <1>3 DEF IInv, Deep
<1>6. /\ at \in Int /\ at + n + 1 <= sp /\ at >= StackTop - Depth(m + 1)
      /\ at \in Nat /\ at + (n + 1) <= StackTop /\ at >= StackTop - StackBytes
  <2>1. sp - (n + 1) \in Int
    BY <1>1, <1>2
  <2>2. at \in Int /\ at <= sp - (n + 1) /\ sp - (n + 1) < at + 8
    BY <2>1, RoundDownFacts
  <2> HIDE DEF at, n, m
  <2> QED  BY <1>1, <1>2, <1>4, <1>5, <2>2
<1>7. /\ DOMAIN bytes = 1 .. n + 1 /\ bytes[n + 1] = NUL
      /\ \A k \in 1 .. n : bytes[k] = arg[k]
  <2>1. arg \in Seq(Char \cup {NUL})
    BY <1>2, SeqMonotonic
  <2> HIDE DEF arg
  <2> QED  BY <1>2, <2>1
<1> HIDE DEF m, arg, n, at, bytes
<1>8. /\ DOMAIN stack' = 0 .. StackTop - 1
      /\ \A k \in 1 .. n + 1 : stack'[at + k - 1] = bytes[k]
      /\ \A a \in 0 .. StackTop - 1 : at + (n + 1) <= a => stack'[a] = stack[a]
  <2> DEFINE size == n + 1
  <2>1. size \in Nat /\ at + size <= StackTop /\ at \in Nat /\ DOMAIN bytes = 1 .. size
    BY <1>2, <1>6, <1>7
  <2> HIDE DEF size
  <2>2. /\ DOMAIN WithBytes(at, bytes) = 0 .. StackTop - 1
        /\ \A k \in 1 .. size : WithBytes(at, bytes)[at + k - 1] = bytes[k]
        /\ \A a \in 0 .. StackTop - 1 : at + size <= a => WithBytes(at, bytes)[a] = stack[a]
    BY <1>1, <2>1, WithBytesFacts
  <2> QED  BY <1>3, <2>2 DEF size
<1>. StackTop \in Nat /\ m \in Nat /\ n \in Nat /\ at \in Nat
  BY <1>1, <1>2, <1>6
<1>9. /\ ptrs' \in Seq(Nat) /\ Len(ptrs') = m + 1 /\ ptrs'[m + 1] = at
      /\ \A i \in 1 .. m : ptrs'[i] = ptrs[i]
  <2>1. ptrs \in Seq(Nat)
    BY DEF IInv, TypeOK
  <2> QED  BY <1>3, <1>6, <2>1 DEF m
<1>10. TypeOK'
  BY <1>1, <1>3, <1>6, <1>8, <1>9 DEF IInv, TypeOK
<1>11. Started' /\ InStack'
  BY <1>3, <1>6, StartedKept DEF IInv, InStack
<1>12. Copied' /\ LibraryCopied' /\ PanicsAtLimit'
  BY <1>3 DEF IInv, Copied, LibraryCopied, PanicsAtLimit
<1>13. Deep'
  BY <1>1, <1>2, <1>3, <1>5, <1>6, <1>9 DEF Deep
<1>14. Pushed'
  <2> DEFINE Keeps(i) ==
               /\ sp' <= ptrs'[i] /\ ptrs'[i] + Len(kargv'[i]) < StackTop
               /\ \A k \in 1 .. Len(kargv'[i]) : stack'[ptrs'[i] + k - 1] = kargv'[i][k]
               /\ stack'[ptrs'[i] + Len(kargv'[i])] = NUL
  <2>1. ASSUME NEW i \in 1 .. m PROVE Keeps(i)
    <3>1. /\ sp <= ptrs[i] /\ ptrs[i] + Len(kargv[i]) < StackTop
          /\ \A k \in 1 .. Len(kargv[i]) : stack[ptrs[i] + k - 1] = kargv[i][k]
          /\ stack[ptrs[i] + Len(kargv[i])] = NUL
      BY <1>3 DEF IInv, Pushed, Placed, m
    <3>2. ptrs[i] \in Nat /\ Len(kargv[i]) \in Nat /\ at + (n + 1) <= ptrs[i]
      BY <1>1, <1>2, <1>6, <3>1, KernelCopy
    <3>3. \A k \in 1 .. Len(kargv[i]) : stack'[ptrs[i] + k - 1] = kargv[i][k]
      <4> TAKE k \in 1 .. Len(kargv[i])
      <4>1. ptrs[i] + k - 1 \in 0 .. StackTop - 1 /\ at + (n + 1) <= ptrs[i] + k - 1
        <5>1. ptrs[i] + Len(kargv[i]) < StackTop
          BY <3>1
        <5> QED  BY <3>2, <5>1
      <4> QED  BY <1>8, <3>1, <4>1
    <3>4. stack'[ptrs[i] + Len(kargv[i])] = NUL
      <4>1. /\ ptrs[i] + Len(kargv[i]) \in 0 .. StackTop - 1
            /\ at + (n + 1) <= ptrs[i] + Len(kargv[i])
        <5>1. ptrs[i] + Len(kargv[i]) < StackTop
          BY <3>1
        <5> QED  BY <3>2, <5>1
      <4> QED  BY <1>8, <3>1, <4>1
    <3>5. sp' <= ptrs[i]
      BY <1>2, <1>3, <1>6, <3>2
    <3> QED  BY <1>3, <1>9, <3>1, <3>3, <3>4, <3>5
  <2>2. Keeps(m + 1)
    <3>1. ptrs'[m + 1] = at /\ kargv'[m + 1] = arg /\ sp' = at
      BY <1>3, <1>9 DEF arg
    <3>2. \A k \in 1 .. n : stack'[at + k - 1] = arg[k]
      BY <1>2, <1>7, <1>8
    <3>3. stack'[at + n] = NUL
      <4>1. n + 1 \in 1 .. n + 1 /\ at + (n + 1) - 1 = at + n
        BY <1>2, <1>6
      <4>2. stack'[at + (n + 1) - 1] = bytes[n + 1]
        BY <1>8, <4>1
      <4> QED  BY <1>7, <4>1, <4>2
    <3>4. Len(kargv'[m + 1]) = n /\ at + n < StackTop
      BY <1>6, <3>1 DEF n
    <3>5. sp' <= ptrs'[m + 1]
      BY <3>1
    <3> QED  BY <3>1, <3>2, <3>3, <3>4, <3>5
  <2>3. \A i \in 1 .. m + 1 : i \in 1 .. m \/ i = m + 1
    OBVIOUS
  <2> HIDE DEF Keeps
  <2>4. \A i \in 1 .. m + 1 : Keeps(i)
    BY <2>1, <2>2, <2>3
  <2>5. pc' = "push" /\ Len(ptrs') = m + 1
    BY <1>3, <1>9
  <2> QED  BY <2>4, <2>5 DEF Pushed, Placed, Keeps
<1> QED  BY <1>10, <1>11, <1>12, <1>13, <1>14 DEF IInv

\* The array of pointers goes below the strings, on a multiple of 16.
LEMMA PushArgvInv ==
  ASSUME IInv, PushArgv
  PROVE  IInv'
<1> DEFINE m == Len(kargv)
           words == Append(ptrs, 0)
           size == 8 * (m + 1)
           at == RoundDown(sp - size, 16)
<1>1. /\ m \in 0 .. MaxArgc /\ m \in Nat /\ Len(ptrs) = m /\ DOMAIN kargv = 1 .. m
      /\ \A i \in 1 .. m : ptrs[i] \in Nat
      /\ sp \in Int /\ DOMAIN stack = 0 .. StackTop - 1 /\ StackTop \in Nat
  BY KernelCopy DEF PushArgv
<1>2. \A i \in 1 .. m : Len(kargv[i]) \in Nat
  BY KernelCopy
<1>3. words \in Seq(Nat) /\ Len(words) = m + 1 /\ \A i \in 1 .. m : words[i] = ptrs[i]
  <2>1. ptrs \in Seq(Nat)
    BY DEF IInv, TypeOK
  <2> QED  BY <1>1, <2>1
<1>4. /\ pc = "push" /\ pc' = "frame" /\ ptrs' = words
      /\ UNCHANGED <<asked, user, kargv, program, given>>
      /\ sp' = at /\ stack' = WithBytes(at, Bytes(words))
  <2>1. size = 8 * Len(words)
    BY <1>3
  <2> HIDE DEF size
  <2>2. at = RoundDown(sp - 8 * Len(words), 16)
    BY <2>1
  <2> QED  BY <2>2 DEF PushArgv
<1>5. /\ Depth(m) \in Nat /\ StackTop - Depth(m) - 8 * (m + 1) - 15 - 24 >= StackTop - StackBytes
      /\ StackTop - StackBytes >= 0 /\ StackBytes \in Nat
  BY <1>1, DepthFacts, ArgsAssumption
<1>6. sp >= StackTop - Depth(m) /\ sp <= StackTop
  BY <1>1, <1>4 DEF IInv, Deep
<1>7. size \in Nat /\ size = 8 * (m + 1)
  BY <1>1
<1>8. DOMAIN Bytes(words) = 1 .. size
  BY <1>3 DEF Bytes
<1>9. \A i \in 1 .. m, k \in 0 .. 7 :
         8 * (i - 1) + k + 1 \in 1 .. size
         /\ Bytes(words)[8 * (i - 1) + k + 1] = WordByte(ptrs[i], k)
  <2> DEFINE n == m + 1
  <2>1. n \in Nat /\ n = Len(words) /\ size = 8 * n /\ \A i \in 1 .. m : i \in 1 .. n
    BY <1>1, <1>3
  <2> HIDE DEF n, words, size, m
  <2>2. \A i \in 1 .. n, k \in 0 .. 7 :
           8 * (i - 1) + k + 1 \in 1 .. 8 * n
           /\ Bytes(words)[8 * (i - 1) + k + 1] = WordByte(words[i], k)
    BY <2>1, BytesFacts
  <2> QED  BY <1>3, <2>1, <2>2
<1>10. /\ at \in Int /\ at + size <= sp /\ sp - size < at + 16 /\ at % 16 = 0
  <2>1. sp - size \in Int
    BY <1>1, <1>7
  <2>2. /\ at \in Int /\ at <= sp - size /\ sp - size < at + 16 /\ at % 16 = 0
    BY <2>1, RoundDownFacts
  <2> HIDE DEF at, size, m
  <2> QED  BY <1>1, <1>7, <2>2
<1> HIDE DEF words, size, at
<1>11. /\ at >= StackTop - Depth(m) - 8 * (m + 1) - 15 /\ at >= StackTop - StackBytes
       /\ at \in Nat /\ at + size <= StackTop
  <2> DEFINE d == Depth(m)
  <2>1. /\ at \in Int /\ at + size <= sp /\ sp - size < at + 16
        /\ sp \in Int /\ sp >= StackTop - d /\ sp <= StackTop
        /\ size \in Nat /\ d \in Nat /\ StackTop \in Nat /\ StackBytes \in Nat
        /\ StackTop - d - size - 15 - 24 >= StackTop - StackBytes /\ StackTop - StackBytes >= 0
    BY <1>1, <1>5, <1>6, <1>7, <1>10
  <2> HIDE DEF d, m
  <2>2. /\ at >= StackTop - d - size - 15 /\ at >= StackTop - StackBytes
        /\ at \in Nat /\ at + size <= StackTop
    BY <2>1
  <2> QED  BY <1>7, <2>2 DEF d
<1> HIDE DEF m
<1>12. /\ DOMAIN stack' = 0 .. StackTop - 1
       /\ \A k \in 1 .. size : stack'[at + k - 1] = Bytes(words)[k]
       /\ \A a \in 0 .. StackTop - 1 : at + size <= a => stack'[a] = stack[a]
  BY <1>1, <1>4, <1>7, <1>8, <1>11, WithBytesFacts
<1>. StackTop \in Nat /\ m \in Nat /\ size \in Nat /\ at \in Nat
  BY <1>1, <1>7, <1>11
<1>13. TypeOK'
  <2>1. ptrs' \in Seq(Nat)
    BY <1>3, <1>4
  <2> QED  BY <1>4, <1>12, <2>1 DEF IInv, TypeOK
<1>14. Started' /\ InStack'
  BY <1>4, <1>11, StartedKept DEF IInv, InStack
<1>15. Copied' /\ LibraryCopied' /\ PanicsAtLimit'
  BY <1>4 DEF IInv, Copied, LibraryCopied, PanicsAtLimit
<1>16. Deep'
  <2>1. sp' >= StackTop - Depth(m) - 8 * (m + 1) - 15 /\ sp' % 16 = 0 /\ sp' + 8 * (m + 1) <= StackTop
    BY <1>4, <1>7, <1>10, <1>11
  <2>2. Len(kargv') = m
    BY <1>4 DEF m
  <2> QED  BY <1>4, <2>1, <2>2 DEF Deep
<1>17. Pushed'
  <2> DEFINE Keeps(i) ==
               /\ sp' <= ptrs'[i] /\ ptrs'[i] + Len(kargv'[i]) < StackTop
               /\ \A k \in 1 .. Len(kargv'[i]) : stack'[ptrs'[i] + k - 1] = kargv'[i][k]
               /\ stack'[ptrs'[i] + Len(kargv'[i])] = NUL
  <2>1. ASSUME NEW i \in 1 .. m
        PROVE  /\ Keeps(i) /\ sp' + 8 * (m + 1) <= ptrs'[i]
               /\ \A k \in 0 .. 7 : stack'[sp' + 8 * (i - 1) + k] = WordByte(ptrs'[i], k)
    <3>1. /\ sp <= ptrs[i] /\ ptrs[i] + Len(kargv[i]) < StackTop
          /\ \A k \in 1 .. Len(kargv[i]) : stack[ptrs[i] + k - 1] = kargv[i][k]
          /\ stack[ptrs[i] + Len(kargv[i])] = NUL
      BY <1>1, <1>4 DEF IInv, Pushed, Placed
    <3>2. ptrs[i] \in Nat /\ Len(kargv[i]) \in Nat /\ at + size <= ptrs[i] /\ ptrs'[i] = ptrs[i]
      <4>1. ptrs[i] \in Nat /\ Len(kargv[i]) \in Nat /\ ptrs'[i] = ptrs[i]
        BY <1>1, <1>2, <1>3, <1>4
      <4>2. at + size <= sp /\ sp <= ptrs[i] /\ sp \in Int
        BY <1>1, <1>10, <3>1
      <4> QED  BY <4>1, <4>2
    <3>3. \A k \in 1 .. Len(kargv[i]) : stack'[ptrs[i] + k - 1] = kargv[i][k]
      <4> TAKE k \in 1 .. Len(kargv[i])
      <4>1. ptrs[i] + Len(kargv[i]) < StackTop
        BY <3>1
      <4>2. ptrs[i] + k - 1 \in 0 .. StackTop - 1 /\ at + size <= ptrs[i] + k - 1
        BY <3>2, <4>1
      <4> QED  BY <1>12, <3>1, <4>2
    <3>4. stack'[ptrs[i] + Len(kargv[i])] = NUL
      <4>1. ptrs[i] + Len(kargv[i]) < StackTop
        BY <3>1
      <4>2. /\ ptrs[i] + Len(kargv[i]) \in 0 .. StackTop - 1
            /\ at + size <= ptrs[i] + Len(kargv[i])
        BY <3>2, <4>1
      <4> QED  BY <1>12, <3>1, <4>2
    <3>5. Keeps(i)
      BY <1>4, <3>1, <3>2, <3>3, <3>4
    <3>6. sp' + 8 * (m + 1) <= ptrs'[i]
      BY <1>4, <1>7, <3>2
    <3>7. ASSUME NEW k \in 0 .. 7 PROVE stack'[sp' + 8 * (i - 1) + k] = WordByte(ptrs'[i], k)
      <4> DEFINE b == 8 * (i - 1) + k + 1
      <4>1. b \in 1 .. size /\ Bytes(words)[b] = WordByte(ptrs[i], k)
        BY <1>9
      <4>2. at + b - 1 = at + 8 * (i - 1) + k
        OBVIOUS
      <4> HIDE DEF b
      <4> QED  BY <1>4, <1>12, <3>2, <4>1, <4>2
    <3> HIDE DEF Keeps
    <3> QED  BY <3>5, <3>6, <3>7
  <2>2. pc' = "frame" /\ Len(ptrs') = m + 1 /\ Len(kargv') = m
    BY <1>3, <1>4 DEF m
  <2> HIDE DEF Keeps
  <2> QED  BY <2>1, <2>2 DEF Pushed, Placed, Keeps
<1> QED  BY <1>13, <1>14, <1>15, <1>16, <1>17 DEF IInv

\* The last 24 bytes leave what is above them alone, and main starts.
LEMMA PushFrameInv ==
  ASSUME IInv, PushFrame
  PROVE  IInv'
<1> DEFINE m == Len(kargv)
           at == sp - 24
           words == <<-1, m, sp>>
<1>1. /\ m \in 0 .. MaxArgc /\ m \in Nat /\ DOMAIN kargv = 1 .. m
      /\ Len(ptrs) \in Nat /\ DOMAIN ptrs = 1 .. Len(ptrs)
      /\ \A i \in 1 .. Len(ptrs) : ptrs[i] \in Nat
      /\ sp \in Int /\ DOMAIN stack = 0 .. StackTop - 1 /\ StackTop \in Nat
      /\ \A i \in 1 .. m :
           /\ kargv[i] \in Seq(Char) /\ Len(kargv[i]) \in Nat
           /\ \A k \in 1 .. Len(kargv[i]) : kargv[i][k] # NUL
  BY KernelCopy
<1>2. /\ pc = "frame" /\ pc' = "user" /\ sp' = at /\ stack' = WithBytes(at, Bytes(words))
      /\ program' = [argc |-> m, argv |-> sp, rsp |-> at, stack |-> stack']
      /\ given' = asked /\ UNCHANGED <<asked, user, kargv, ptrs>>
  BY DEF PushFrame
<1>3. /\ sp >= StackTop - Depth(m) - 8 * (m + 1) - 15
      /\ sp % 16 = 0 /\ sp + 8 * (m + 1) <= StackTop
  BY <1>2 DEF IInv, Deep
<1>4. /\ Depth(m) \in Nat /\ StackTop - Depth(m) - 8 * (m + 1) - 15 - 24 >= StackTop - StackBytes
      /\ StackTop - StackBytes >= 0 /\ StackBytes \in Nat
  BY <1>1, DepthFacts, ArgsAssumption
<1>5. Len(asked) = m /\ DOMAIN asked = 1 .. m /\ asked \in Seq(Seq(Char \cup {NUL}))
      /\ \A i \in 1 .. m : kargv[i] = UpToNul(asked[i])
  <2>1. asked \in Seq(Seq(Char \cup {NUL})) /\ Len(asked) = m
        /\ \A i \in DOMAIN kargv : kargv[i] = UpToNul(asked[i])
    BY <1>2 DEF IInv, TypeOK, Copied
  <2> QED  BY <1>1, <2>1, LenProperties
<1>6. DOMAIN Bytes(words) = 1 .. 24
  BY DEF Bytes
<1> HIDE DEF at, words
<1>7. at \in Nat /\ at + 24 = sp /\ at + 24 <= StackTop /\ at >= StackTop - StackBytes
  <2> DEFINE d == Depth(m)
  <2>1. /\ sp \in Int /\ sp >= StackTop - d - 8 * (m + 1) - 15 /\ sp + 8 * (m + 1) <= StackTop
        /\ StackTop - d - 8 * (m + 1) - 15 - 24 >= StackTop - StackBytes
        /\ StackTop - StackBytes >= 0 /\ d \in Nat /\ m \in Nat
        /\ StackTop \in Nat /\ StackBytes \in Nat
    BY <1>1, <1>3, <1>4
  <2> HIDE DEF d, m
  <2> QED  BY <2>1 DEF at
<1> HIDE DEF m
<1>. StackTop \in Nat /\ m \in Nat /\ at \in Nat /\ sp \in Nat
  BY <1>1, <1>7
<1>8. /\ DOMAIN stack' = 0 .. StackTop - 1
      /\ \A a \in 0 .. StackTop - 1 : sp <= a => stack'[a] = stack[a]
  <2> DEFINE size == 24
             bytes == Bytes(words)
  <2>1. size \in Nat /\ DOMAIN bytes = 1 .. size /\ at + size <= StackTop
    BY <1>6, <1>7
  <2>2. stack' = WithBytes(at, bytes) /\ at + size = sp
    BY <1>2, <1>7
  <2> HIDE DEF size, bytes
  <2>3. /\ DOMAIN WithBytes(at, bytes) = 0 .. StackTop - 1
        /\ \A a \in 0 .. StackTop - 1 :
             at + size <= a => WithBytes(at, bytes)[a] = stack[a]
    BY <1>1, <2>1, WithBytesFacts
  <2> QED  BY <2>2, <2>3
<1>9. TypeOK'
  BY <1>2, <1>7, <1>8 DEF IInv, TypeOK
<1>10. InStack'
  BY <1>2, <1>7 DEF InStack
<1>11. Copied' /\ LibraryCopied' /\ PanicsAtLimit' /\ Deep' /\ Pushed'
  BY <1>2 DEF Copied, LibraryCopied, PanicsAtLimit, Deep, Pushed
<1>12. program'.argc = Len(given') /\ program'.rsp % 16 = 8 /\ program'.argv % 8 = 0
  <2>1. (sp - 24) % 16 = 8 /\ sp % 8 = 0
    BY <1>3
  <2> QED  BY <1>2, <1>5, <2>1 DEF at
<1>13. ASSUME NEW i \in 1 .. m
       PROVE  \E p \in 1 .. StackTop - 1 :
                /\ \A k \in 0 .. 7 : program'.stack[program'.argv + 8 * (i - 1) + k] = WordByte(p, k)
                /\ UpToNul([k \in 1 .. StackTop - p |-> program'.stack[p + k - 1]])
                     = UpToNul(asked[i])
  <2> DEFINE p == ptrs[i]
             n == Len(kargv[i])
             f == [k \in 1 .. StackTop - p |-> stack'[p + k - 1]]
  <2>1. /\ Len(ptrs) = m + 1
        /\ sp <= p /\ p + n < StackTop
        /\ \A k \in 1 .. n : stack[p + k - 1] = kargv[i][k]
        /\ stack[p + n] = NUL
        /\ sp + 8 * (m + 1) <= p
        /\ \A k \in 0 .. 7 : stack[sp + 8 * (i - 1) + k] = WordByte(p, k)
    BY <1>2 DEF IInv, Pushed, Placed, m
  <2>2. p \in Nat /\ n \in Nat /\ \A k \in 1 .. n : kargv[i][k] # NUL
    <3>1. i \in 1 .. Len(ptrs)
      BY <2>1
    <3> QED  BY <1>1, <3>1
  <2> HIDE DEF p, n
  <2>. p \in Nat /\ n \in Nat /\ sp <= p /\ p + n < StackTop /\ sp + 8 * (m + 1) <= p
    BY <2>1, <2>2
  <2>3. p \in 1 .. StackTop - 1
    BY <2>1, <2>2
  <2>4. ASSUME NEW k \in 0 .. 7 PROVE stack'[sp + 8 * (i - 1) + k] = WordByte(p, k)
    <3>1. sp + 8 * (i - 1) + k \in 0 .. StackTop - 1 /\ sp <= sp + 8 * (i - 1) + k
      OBVIOUS
    <3> QED  BY <1>8, <2>1, <3>1
  <2>5. \A k \in 1 .. n : f[k] = kargv[i][k]
    <3> TAKE k \in 1 .. n
    <3>1. p + k - 1 \in 0 .. StackTop - 1 /\ sp <= p + k - 1 /\ k \in 1 .. StackTop - p
      OBVIOUS
    <3> QED  BY <1>8, <2>1, <3>1
  <2>6. n + 1 \in 1 .. StackTop - p /\ f[n + 1] = NUL
    <3>1. /\ p + n \in 0 .. StackTop - 1 /\ sp <= p + n /\ n + 1 \in 1 .. StackTop - p
          /\ p + (n + 1) - 1 = p + n
      OBVIOUS
    <3> QED  BY <1>8, <2>1, <3>1
  <2> DEFINE rest == StackTop - p
  <2>7. rest \in Nat /\ n \in 0 .. rest
    BY <2>1, <2>2
  <2>8. Len(f) = rest
    <3>1. f \in [1 .. rest -> {stack'[a] : a \in Int}]
      BY <2>2, <2>7
    <3> HIDE DEF f, rest
    <3> QED  BY <2>7, <3>1, ArrayIsSequence
  <2> HIDE DEF f, rest
  <2>9. UpToNul(f) = [k \in 1 .. n |-> kargv[i][k]]
    <3> DEFINE text == kargv[i]
    <3>1. /\ Len(f) \in Nat /\ n \in 0 .. Len(f) /\ f[n + 1] = NUL
          /\ \A k \in 1 .. n : f[k] = text[k] /\ text[k] # NUL
      BY <2>2, <2>5, <2>6, <2>7, <2>8
    <3> HIDE DEF text
    <3>2. UpToNul(f) = [k \in 1 .. n |-> text[k]]
      BY <3>1, SameString
    <3> QED  BY <3>2 DEF text
  <2>10. [k \in 1 .. n |-> kargv[i][k]] = kargv[i]
    BY <1>1 DEF n, m
  <2>11. UpToNul(f) = UpToNul(asked[i])
    BY <1>5, <2>9, <2>10
  <2>12. program'.stack = stack' /\ program'.argv = sp
    BY <1>2
  <2> QED  BY <2>3, <2>4, <2>11, <2>12 DEF f
<1>14. Started'
  BY <1>2, <1>5, <1>12, <1>13 DEF Started, Arg, WordAt, CStr
<1> QED  BY <1>9, <1>10, <1>11, <1>14 DEF IInv

LEMMA StepInv == IInv /\ [Next]_vars => IInv'
<1> SUFFICES ASSUME IInv, [Next]_vars PROVE IInv'
  OBVIOUS
<1>1. ASSUME NEW req \in Requests, LibraryRefuses(req) \/ LibraryCalls(req) PROVE IInv'
  BY <1>1, CallsInv
<1>2. CASE NullArgv
  BY <1>2, NullArgvInv
<1>3. CASE CopyArg
  BY <1>3, CopyArgInv
<1>4. CASE CopyEnds \/ TooManyArguments
  BY <1>4, CopyLastInv
<1>5. CASE PrepareFails \/ Prepare
  BY <1>5, PrepareInv
<1>6. CASE PushArg
  BY <1>6, PushArgInv
<1>7. CASE PushArgv
  BY <1>7, PushArgvInv
<1>8. CASE PushFrame
  BY <1>8, PushFrameInv
<1>9. CASE UNCHANGED vars
  <2>1. Started'
    BY <1>9, StartedKept DEF vars, IInv
  <2> QED  BY <1>9, <2>1 DEF vars, IInv, TypeOK, InStack, PanicsAtLimit, Copied, LibraryCopied,
                             Deep, Pushed, Placed
<1> QED  BY <1>1, <1>2, <1>3, <1>4, <1>5, <1>6, <1>7, <1>8, <1>9 DEF Next

-----------------------------------------------------------------------------
(* The theorems                                                            *)

\* All of it, along every sequence of calls of exec (syscall/mod.rs, exec/mod.rs).
THEOREM Invariant == Spec => []IInv
<1>1. Init => IInv
  BY InitInv
<1>2. IInv /\ [Next]_vars => IInv'
  BY StepInv
<1> QED  BY <1>1, <1>2, PTL DEF Spec

\* The kernel's copy of the arguments is within MAX_ARGC and MAX_ARG_LEN (copy_argv).
THEOREM TypeCorrect == Spec => []TypeOK
<1>1. IInv => TypeOK
  BY DEF IInv
<1> QED  BY <1>1, Invariant, PTL

\* A program's args() yields what exec was called with, however long the list, the strings
\* and the stack are, and main starts with the alignment of the System V ABI (copy_argv,
\* setup_user_stack, lang_start, Args::next).
THEOREM ArgumentsArrive == Spec => []ArgsArrive
<1>1. IInv => ArgsArrive
  BY DEF IInv, Started, ArgsArrive
<1> QED  BY <1>1, Invariant, PTL

\* setup_user_stack writes to the pages of the stack only.
THEOREM StaysInStack == Spec => []InStack
<1>1. IInv => InStack
  BY DEF IInv
<1> QED  BY <1>1, Invariant, PTL

\* Below its limits copy_argv does not fail (sys_exec).
THEOREM PanicsOnlyAtLimit == Spec => []PanicsAtLimit
<1>1. IInv => PanicsAtLimit
  BY DEF IInv
<1> QED  BY <1>1, Invariant, PTL
=============================================================================
