------------------------------ MODULE ExecArgs ------------------------------
(***************************************************************************)
(* The way of the arguments of exec: the user library copies them to its   *)
(* stack, sys_exec copies them into the kernel, setup_user_stack lays them *)
(* out on the stack of the new program, whose args() reads them. The       *)
(* kernel runs this system call without a break, so there is one caller.   *)
(*                                                                         *)
(* Addresses count bytes. A word is eight bytes that remember its value    *)
(* and their place in it; the word 0 is eight times NUL. A panic stops the *)
(* kernel.                                                                 *)
(***************************************************************************)
EXTENDS Integers, Sequences

CONSTANTS MaxArgc, MaxArgLen,           \* the kernel's limits
          ExecMaxArgc, ExecMaxArgLen,   \* the user library's limits
          StackTop, StackBytes,         \* the stack of a new program
          Char,                         \* bytes other than NUL
          Requests                      \* argument lists that programs ask for

NUL == <<0, 0, 0>>
WordByte(v, k) == IF v = 0 THEN NUL ELSE <<2, v, k>>
Fresh == <<3, 0, 0>>                    \* what a frame held before

ASSUME ArgsAssumption ==
  /\ MaxArgc \in Nat \ {0} /\ MaxArgLen \in Nat \ {0}
  /\ ExecMaxArgc \in Nat /\ MaxArgc <= ExecMaxArgc + 1
  /\ ExecMaxArgLen \in Nat /\ MaxArgLen <= ExecMaxArgLen + 1
  /\ StackTop \in Nat /\ StackTop % 16 = 0
  /\ StackBytes \in Nat /\ StackBytes <= StackTop
  /\ NUL \notin Char
  /\ Requests \subseteq Seq(Seq(Char \cup {NUL}))

\* The largest argument list fits into the stack: 4383 of 32768 bytes.
ASSUME StackAssumption ==
  MaxArgc * (MaxArgLen + 7) + 8 * (MaxArgc + 1) + 15 + 24 <= StackBytes

VARIABLES pc,        \* where the call is; "user" outside of it
          asked,     \* the arguments of the latest call
          user,      \* what the library has put on the caller's stack
          kargv,     \* argv: the kernel's copy
          sp, ptrs,  \* setup_user_stack's stack pointer, and the pointers so far
          stack,     \* the stack under construction
          program,   \* what the running program was started with
          given      \* ghost: the arguments of the exec that started it

vars == <<pc, asked, user, kargv, sp, ptrs, stack, program, given>>

RoundDown(a, n) == a - (a % n)

\* The bytes before the first NUL
StrLen(bytes) ==
  CHOOSE n \in 0 .. Len(bytes) :
    (\A k \in 1 .. n : bytes[k] # NUL) /\ (n < Len(bytes) => bytes[n + 1] = NUL)
UpToNul(bytes) == [k \in 1 .. StrLen(bytes) |-> bytes[k]]

-----------------------------------------------------------------------------
(* The user library: exec                                                  *)

TooMuch(req) == Len(req) > ExecMaxArgc \/ \E i \in DOMAIN req : Len(req[i]) > ExecMaxArgLen

LibraryRefuses(req) ==
  /\ pc = "user" /\ TooMuch(req)
  /\ asked' = req
  /\ UNCHANGED <<pc, user, kargv, sp, ptrs, stack, program, given>>

\* arg_bufs and argv_ptrs, both cleared; a pointer is the index of a buffer.
CString(bytes) ==
  [k \in 1 .. ExecMaxArgLen + 1 |-> IF k \in DOMAIN bytes THEN bytes[k] ELSE NUL]
Passed(req) ==
  [argv |-> [i \in 1 .. ExecMaxArgc + 1 |-> IF i \in DOMAIN req THEN i ELSE 0],
   bufs |-> [i \in DOMAIN req |-> CString(req[i])]]
LibraryCalls(req) ==
  /\ pc = "user" /\ ~TooMuch(req)
  /\ asked' = req
  /\ user' = Passed(req)
  /\ kargv' = <<>> /\ pc' = "copy"
  /\ UNCHANGED <<sp, ptrs, stack, program, given>>

-----------------------------------------------------------------------------
(* sys_exec: copy_argv and copy_cstr_from_user                             *)

\* A program may pass no argv at all.
NullArgv ==
  /\ pc = "user"
  /\ asked' = <<>> /\ kargv' = <<>> /\ pc' = "prepare"
  /\ UNCHANGED <<user, sp, ptrs, stack, program, given>>

NextArg == Len(kargv) + 1
TerminatedBefore(buf) == \E k \in 1 .. MaxArgLen - 1 : buf[k] = NUL   \* mutant
Terminated(buf) == \E k \in 1 .. MaxArgLen : buf[k] = NUL

CopyArg ==
  /\ pc = "copy" /\ NextArg <= MaxArgc /\ user.argv[NextArg] # 0
  /\ LET buf == user.bufs[user.argv[NextArg]]
     IN IF Terminated(buf) THEN kargv' = Append(kargv, UpToNul(buf)) /\ UNCHANGED pc
                           ELSE pc' = "panic" /\ UNCHANGED kargv
  /\ UNCHANGED <<asked, user, sp, ptrs, stack, program, given>>

CopyEnds ==
  /\ pc = "copy" /\ NextArg <= MaxArgc /\ user.argv[NextArg] = 0
  /\ pc' = "prepare"
  /\ UNCHANGED <<asked, user, kargv, sp, ptrs, stack, program, given>>

TooManyArguments ==
  /\ pc = "copy" /\ NextArg > MaxArgc
  /\ pc' = "panic"
  /\ UNCHANGED <<asked, user, kargv, sp, ptrs, stack, program, given>>

-----------------------------------------------------------------------------
(* exec: prepare_exec_image, setup_user_stack and commit_exec              *)

\* No such program, a bad image or no frame left: the caller goes on as it was.
PrepareFails ==
  /\ pc = "prepare"
  /\ pc' = "user"
  /\ UNCHANGED <<asked, user, kargv, sp, ptrs, stack, program, given>>

PrepareOnTop ==   \* mutant: the stack pointer is not set back
  /\ pc = "prepare"
  /\ ptrs' = <<>> /\ stack' = [a \in 0 .. StackTop - 1 |-> Fresh]
  /\ pc' = "push"
  /\ UNCHANGED <<asked, user, kargv, sp, program, given>>
Prepare ==
  /\ pc = "prepare"
  /\ sp' = StackTop /\ ptrs' = <<>> /\ stack' = [a \in 0 .. StackTop - 1 |-> Fresh]
  /\ pc' = "push"
  /\ UNCHANGED <<asked, user, kargv, program, given>>

WithBytes(at, bytes) ==
  [a \in DOMAIN stack |-> IF a - at + 1 \in DOMAIN bytes THEN bytes[a - at + 1] ELSE stack[a]]
Bytes(words) == [b \in 1 .. 8 * Len(words) |-> WordByte(words[(b - 1) \div 8 + 1], (b - 1) % 8)]

PushArg ==
  /\ pc = "push" /\ Len(ptrs) < Len(kargv)
  /\ LET arg == kargv[Len(ptrs) + 1]
         at == RoundDown(sp - (Len(arg) + 1), 8)
     IN sp' = at /\ stack' = WithBytes(at, Append(arg, NUL)) /\ ptrs' = Append(ptrs, at)
  /\ UNCHANGED <<pc, asked, user, kargv, program, given>>

PushArgv8 ==     \* mutant: argv is aligned like an argument
  /\ pc = "push" /\ Len(ptrs) = Len(kargv)
  /\ LET words == Append(ptrs, 0)
         at == RoundDown(sp - 8 * Len(words), 8)
     IN sp' = at /\ stack' = WithBytes(at, Bytes(words)) /\ ptrs' = words
  /\ pc' = "frame"
  /\ UNCHANGED <<asked, user, kargv, program, given>>
PushArgv ==
  /\ pc = "push" /\ Len(ptrs) = Len(kargv)
  /\ LET words == Append(ptrs, 0)
         at == RoundDown(sp - 8 * Len(words), 16)
     IN sp' = at /\ stack' = WithBytes(at, Bytes(words)) /\ ptrs' = words
  /\ pc' = "frame"
  /\ UNCHANGED <<asked, user, kargv, program, given>>

\* The return address of main, argc and argv; main finds argc and argv in registers.
PushFrame ==
  /\ pc = "frame"
  /\ LET at == sp - 24
     IN /\ sp' = at /\ stack' = WithBytes(at, Bytes(<<-1, Len(kargv), sp>>))
        /\ program' = [argc |-> Len(kargv), argv |-> sp, rsp |-> at, stack |-> stack']
  /\ given' = asked
  /\ pc' = "user"
  /\ UNCHANGED <<asked, user, kargv, ptrs>>

Next ==
  \/ \E req \in Requests : LibraryRefuses(req) \/ LibraryCalls(req)
  \/ NullArgv \/ CopyArg \/ CopyEnds \/ TooManyArguments
  \/ PrepareFails \/ Prepare \/ PushArg \/ PushArgv \/ PushFrame

\* The first program is started without arguments, through the same prepare_exec_image.
Init ==
  /\ pc = "push" /\ asked = <<>> /\ kargv = <<>> /\ given = <<>>
  /\ user = Passed(<<>>)
  /\ sp = StackTop /\ ptrs = <<>> /\ stack = [a \in 0 .. StackTop - 1 |-> Fresh]
  /\ program = [argc |-> 0, argv |-> 0, rsp |-> StackTop - 8, stack |-> stack]

Spec == Init /\ [][Next]_vars

-----------------------------------------------------------------------------
(* What the program reads: lang_start, args() and Args::next               *)

WordAt(a, v) == \A k \in 0 .. 7 : program.stack[a + k] = WordByte(v, k)
CStr(a) == UpToNul([k \in 1 .. StackTop - a |-> program.stack[a + k - 1]])
Arg(i, bytes) ==
  \E p \in 1 .. StackTop - 1 : WordAt(program.argv + 8 * (i - 1), p) /\ CStr(p) = bytes

-----------------------------------------------------------------------------
(* Properties                                                              *)

Limits(argv) == /\ Len(argv) <= MaxArgc
                /\ \A i \in DOMAIN argv : Len(argv[i]) < MaxArgLen

\* In the kernel every argument is within its limits, and there are as many pointers as
\* arguments that have been pushed.
TypeOK ==
  /\ pc \in {"user", "copy", "prepare", "push", "frame", "panic"}
  /\ asked \in Seq(Seq(Char \cup {NUL}))
  /\ kargv \in Seq(Seq(Char)) /\ Limits(kargv)
  /\ sp \in Int /\ ptrs \in Seq(Nat) /\ DOMAIN stack = 0 .. StackTop - 1
  /\ pc = "push" => Len(ptrs) <= Len(kargv)

\* A program starts as main expects: it reads the arguments that exec was called with, each
\* up to its first NUL, whatever the calls that failed in between, with argv where words are
\* read and the stack as a call would leave it, for any number and lengths of arguments.
ArgsArrive ==
  pc = "user" =>
    /\ program.argc = Len(given)
    /\ \A i \in DOMAIN given : Arg(i, UpToNul(given[i]))
    /\ program.rsp % 16 = 8 /\ program.argv % 8 = 0

\* setup_user_stack stays in the pages it was given: below them is the guard page, which
\* the kernel, but not the program, can write.
InStack == sp >= StackTop - StackBytes

\* The kernel panics over what the library let through only when one of the kernel's limits
\* is reached; with the same number on both sides that is one argument or one byte less than
\* the library promises.
PanicsAtLimit ==
  pc = "panic" =>
    /\ ~TooMuch(asked)
    /\ Len(asked) >= MaxArgc \/ \E i \in DOMAIN asked : StrLen(asked[i]) >= MaxArgLen

\* Inductive: what the copies hold at each stage, and how far down the stack has grown.
Copied ==
  pc \in {"copy", "prepare", "push", "frame"} =>
    /\ pc = "copy" => Len(kargv) <= Len(asked)
    /\ pc # "copy" => Len(kargv) = Len(asked)
    /\ \A i \in DOMAIN kargv : kargv[i] = UpToNul(asked[i])
LibraryCopied == pc = "copy" => ~TooMuch(asked) /\ user = Passed(asked)
Depth(n) == n * (MaxArgLen + 7)
Deep ==
  /\ pc = "push" => sp >= StackTop - Depth(Len(ptrs)) /\ sp <= StackTop
  /\ pc = "frame" => /\ sp >= StackTop - Depth(Len(kargv)) - 8 * (Len(kargv) + 1) - 15
                     /\ sp % 16 = 0 /\ sp + 8 * (Len(kargv) + 1) <= StackTop
Placed(i) ==
  /\ sp <= ptrs[i] /\ ptrs[i] + Len(kargv[i]) < StackTop
  /\ \A k \in 1 .. Len(kargv[i]) : stack[ptrs[i] + k - 1] = kargv[i][k]
  /\ stack[ptrs[i] + Len(kargv[i])] = NUL
Pushed ==
  /\ pc = "push" => \A i \in 1 .. Len(ptrs) : Placed(i)
  /\ pc = "frame" =>
       /\ Len(ptrs) = Len(kargv) + 1
       /\ \A i \in 1 .. Len(kargv) :
            /\ Placed(i) /\ sp + 8 * (Len(kargv) + 1) <= ptrs[i]
            /\ \A k \in 0 .. 7 : stack[sp + 8 * (i - 1) + k] = WordByte(ptrs[i], k)
Started ==
  /\ program.argc = Len(given) /\ \A i \in DOMAIN given : Arg(i, UpToNul(given[i]))
  /\ program.rsp % 16 = 8 /\ program.argv % 8 = 0
IInv == TypeOK /\ InStack /\ PanicsAtLimit /\ Copied /\ LibraryCopied /\ Deep /\ Pushed /\ Started
=============================================================================
