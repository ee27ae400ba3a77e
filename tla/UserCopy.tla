------------------------------ MODULE UserCopy ------------------------------
(***************************************************************************)
(* What the kernel copies from and to the memory of a process: the bytes   *)
(* of print_str and the exit statuses that wait delivers. One process      *)
(* calls, which nobody kills; its children exit at any time, but not in the*)
(* middle of a call: interrupts are off until it waits. One action is one  *)
(* turn of a loop.                                                         *)
(*                                                                         *)
(* A page is not mapped, mapped for the kernel (the guard page), readable, *)
(* writable, or writable but for the tables above it ("shut"), which only  *)
(* the processor looks at; or its addresses are not canonical ("hole"). No *)
(* pointer is too high to be copied from or to. In the kernel's half is    *)
(* the window of physical memory, which is mapped with large pages:        *)
(* walk_pagetable takes such a page for a table and what it holds, any     *)
(* word of the memory, for the entry of a page. Byte k of the status of    *)
(* child c is <<c, k>>.                                                    *)
(***************************************************************************)
EXTENDS Integers, Sequences

CONSTANTS PageSize, NPAGE,
          UserTop,          \* the first page after user space
          StatusBytes,      \* 8, of an i64
          PrintLimit,       \* the longest text to print
          NCHILD,           \* bound: children of the process
          Text              \* bytes that make up UTF-8, from those that memory holds

ASSUME CopyAssumption ==
  /\ {PageSize, NPAGE, StatusBytes, NCHILD} \subseteq Nat \ {0} /\ PrintLimit \in Nat
  /\ UserTop \in 1 .. NPAGE - 2

VARIABLES pc, ptr, len,   \* the call in progress; "user" when there is none
          done, buf,      \* copied: bytes so far, and those that were copied in
          child,          \* the pid to report
          stage,          \* of each child
          mem, access,    \* the memory of the process and what its pages allow
          ret,            \* what the latest call returned
          printed         \* what the latest call printed

vars == <<pc, ptr, len, done, buf, child, stage, mem, access, ret, printed>>

Address == 0 .. (NPAGE * PageSize) - 1
Page == 0 .. NPAGE - 1
Child == 1 .. NCHILD
Access == {"unmapped", "kernel", "read", "shut", "write", "window", "hole"}
Readable == {"read", "shut", "write"}
Writable == {"shut", "write"}
Error == -1
MaxRet == NCHILD + 1      \* SysRet::MAX, print_str's error: more than any pid
NULL == 0
AccessAt(a) == access[a \div PageSize]
Byte == {<<0, a>> : a \in Address} \cup Child \X (1 .. StatusBytes)
Stray == {-1} \X {0, 1}   \* bytes of any frame
Status(c) == [k \in 1 .. StatusBytes |-> <<c, k>>]

TypeOK ==
  /\ pc \in {"user", "print", "wait", "status", "stopped", "astray"}
  /\ ptr \in Address /\ len \in -1 .. PrintLimit \cup {StatusBytes}
  /\ done \in 0 .. PrintLimit \cup 0 .. StatusBytes
  /\ \A b \in {buf, printed} : Len(b) <= PrintLimit /\ b \in Seq(Byte \cup Stray)
  /\ child \in Child
  /\ stage \in [Child -> {"absent", "alive", "zombie", "reaped"}]
  /\ mem \in [Address -> Byte] /\ access \in [Page -> Access]
  /\ ret \in Error .. MaxRet
  /\ pc = "status" => stage[child] = "reaped"

\* The end of a call, whose variables go with it: to the user, with a value; or a panic or
\* page fault in the kernel, which halts
Prints(value, text) ==
  /\ pc' = "user" /\ ret' = value /\ printed' = text
  /\ ptr' = NULL /\ len' = 0 /\ done' = 0 /\ buf' = <<>> /\ child' = 1
Return(value) == Prints(value, <<>>)
Stop == pc' = "stopped" /\ UNCHANGED <<ptr, len, done, buf, child, ret, printed>>

-----------------------------------------------------------------------------
(* A chunk: the part of what is left that is in one page.                  *)

Va == ptr + done
ToCopy == LET room == PageSize - (Va % PageSize) IN IF room < len - done THEN room ELSE len - done

-----------------------------------------------------------------------------
(* print_str                                                               *)

PrintRefused(a, n) ==
  /\ pc = "user"
  /\ n > PrintLimit \/ a = NULL
  /\ Return(MaxRet)
  /\ UNCHANGED <<stage, mem, access>>

\* A negative length, as a usize, is more than a vector can hold.
PrintPanics(a, n) ==
  /\ pc = "user" /\ a # NULL /\ n < 0
  /\ pc' = "stopped" /\ len' = n
  /\ UNCHANGED <<ptr, done, buf, child, stage, mem, access, ret, printed>>

PrintStr(a, n) ==
  /\ pc = "user" /\ a # NULL /\ n \in 0 .. PrintLimit
  /\ pc' = "print" /\ ptr' = a /\ len' = n /\ done' = 0 /\ buf' = <<>>
  /\ UNCHANGED <<child, stage, mem, access, ret, printed>>

\* copy_bytes_from_user
Bytes(a, n) == [k \in 1 .. n |-> mem[a + k - 1]]
ReadSamePage ==    \* mutant: every chunk starts where the first did
  /\ pc = "print" /\ done < len /\ AccessAt(Va) \in Readable
  /\ buf' = buf \o Bytes(ptr, ToCopy) /\ done' = done + ToCopy
  /\ UNCHANGED <<pc, ptr, len, child, stage, mem, access, ret, printed>>
ReadChunk ==
  /\ pc = "print" /\ done < len /\ AccessAt(Va) \in Readable
  /\ buf' = buf \o Bytes(Va, ToCopy) /\ done' = done + ToCopy
  /\ UNCHANGED <<pc, ptr, len, child, stage, mem, access, ret, printed>>

\* The entry is any word: of a page that the user may read, or not, or that is not there
ReadAstray ==
  /\ pc = "print" /\ done < len /\ AccessAt(Va) = "window"
  /\ \E s \in [1 .. ToCopy -> Stray] : buf' = buf \o s
  /\ done' = done + ToCopy
  /\ UNCHANGED <<pc, ptr, len, child, stage, mem, access, ret, printed>>

ReadExpects ==     \* mutant: an address that is not mapped is expected to be
  /\ pc = "print" /\ done < len
  /\ \/ AccessAt(Va) \in {"kernel", "window"} /\ Return(MaxRet)
     \/ AccessAt(Va) \in {"unmapped", "hole", "window"} /\ Stop
  /\ UNCHANGED <<stage, mem, access>>
ReadFails ==
  /\ pc = "print" /\ done < len
  /\ \/ AccessAt(Va) \in {"unmapped", "kernel", "window"} /\ Return(MaxRet)
     \/ AccessAt(Va) \in {"hole", "window"} /\ Stop
  /\ UNCHANGED <<stage, mem, access>>

\* What is not UTF-8 is not printed.
PrintEnds ==
  /\ pc = "print" /\ done = len
  /\ IF \A k \in 1 .. len : buf[k] \in Text THEN Prints(0, buf) ELSE Return(MaxRet)
  /\ UNCHANGED <<stage, mem, access>>

-----------------------------------------------------------------------------
(* Children, and wait                                                      *)

Fork(c) ==
  /\ pc = "user"
  /\ stage[c] = "absent" /\ \A d \in 1 .. c - 1 : stage[d] # "absent"
  /\ stage' = [stage EXCEPT ![c] = "alive"] /\ Return(c)
  /\ UNCHANGED <<mem, access>>

Exit(c) ==
  /\ pc \in {"user", "wait"} /\ stage[c] = "alive"
  /\ stage' = [stage EXCEPT ![c] = "zombie"]
  /\ UNCHANGED <<pc, ptr, len, done, buf, child, mem, access, ret, printed>>

SysWait(a) ==
  /\ pc = "user"
  /\ pc' = "wait" /\ ptr' = a
  /\ UNCHANGED <<len, done, buf, child, stage, mem, access, ret, printed>>

\* The child is gone when its status is about to be copied.
Reap ==
  /\ pc = "wait"
  /\ \E c \in Child :
       /\ stage[c] = "zombie" /\ \A d \in 1 .. c - 1 : stage[d] # "zombie"
       /\ stage' = [stage EXCEPT ![c] = "reaped"]
       /\ IF ptr = NULL THEN Return(c)
          ELSE /\ pc' = "status" /\ child' = c /\ len' = StatusBytes
               /\ UNCHANGED <<ptr, done, buf, ret, printed>>
  /\ UNCHANGED <<mem, access>>

WaitForNobody ==
  /\ pc = "wait" /\ \A c \in Child : stage[c] \in {"absent", "reaped"}
  /\ Return(Error)
  /\ UNCHANGED <<stage, mem, access>>

\* copy_to_user: n bytes from a on, of the status after those that are done
Written(a, n) == [b \in Address |-> IF b \in a .. a + n - 1 THEN Status(child)[done + (b - a) + 1]
                                                             ELSE mem[b]]
WriteUnchecked ==   \* mutant: WRITABLE is not tested
  /\ pc = "status" /\ done < len /\ AccessAt(Va) \in Readable
  /\ mem' = Written(Va, ToCopy) /\ done' = done + ToCopy
  /\ UNCHANGED <<pc, ptr, len, buf, child, stage, access, ret, printed>>
WriteToPageEnd ==   \* mutant: what does not fit into the first page is dropped
  /\ pc = "status" /\ done < len /\ AccessAt(Va) \in Writable
  /\ mem' = Written(Va, ToCopy) /\ done' = len
  /\ UNCHANGED <<pc, ptr, len, buf, child, stage, access, ret, printed>>
WriteChunk ==
  /\ pc = "status" /\ done < len /\ AccessAt(Va) \in Writable
  /\ mem' = Written(Va, ToCopy) /\ done' = done + ToCopy
  /\ UNCHANGED <<pc, ptr, len, buf, child, stage, access, ret, printed>>

\* Any frame is written: one of this process, or of nobody that the model knows, or a page
\* table or the kernel, and then nothing is known from there on.
OwnPage == {q \in 1 .. UserTop - 1 : access[q] # "unmapped"}
WriteAstray ==
  /\ pc = "status" /\ done < len /\ AccessAt(Va) = "window"
  /\ \/ pc' = "status" /\ \E q \in OwnPage : mem' = Written((q * PageSize) + (Va % PageSize), ToCopy)
     \/ pc' \in {"status", "astray"} /\ UNCHANGED mem
  /\ done' = done + ToCopy
  /\ UNCHANGED <<ptr, len, buf, child, stage, access, ret, printed>>

\* The bytes in the pages before stay written.
WriteFails ==
  /\ pc = "status" /\ done < len
  /\ \/ AccessAt(Va) \in {"unmapped", "kernel", "read", "window"} /\ Return(Error)
     \/ AccessAt(Va) \in {"hole", "window"} /\ Stop
  /\ UNCHANGED <<stage, mem, access>>

StatusEnds ==
  /\ pc = "status" /\ done = len
  /\ Return(child)
  /\ UNCHANGED <<stage, mem, access>>

-----------------------------------------------------------------------------

\* Page 0 is not a user's. The page after user space stands for the addresses up to the
\* kernel's half. Nothing is mapped for a user at the end of all addresses, and the window
\* does not reach it: ptr + copied does not pass it.
UserPages == {"unmapped", "kernel", "read", "shut", "write"}
KernelPages == {"kernel", "window"}   \* one that is not mapped is like one of the kernel's
PageKinds(f) ==
  /\ f[0] = "unmapped" /\ f[UserTop] \in {"unmapped", "hole"} /\ f[NPAGE - 1] = "unmapped"
  /\ \A q \in 1 .. UserTop - 1 : f[q] \in UserPages
  /\ \A q \in UserTop + 1 .. NPAGE - 2 : f[q] \in KernelPages

Init ==
  /\ pc = "user" /\ ptr = NULL /\ len = 0 /\ done = 0 /\ buf = <<>> /\ child = 1
  /\ stage = [c \in Child |-> "absent"]
  /\ mem = [a \in Address |-> <<0, a>>]
  /\ access \in {f \in [Page -> Access] : PageKinds(f)}
  /\ ret = 0 /\ printed = <<>>

Next ==
  \/ \E a \in Address, n \in -1 .. PrintLimit + 1 :
       PrintRefused(a, n) \/ PrintPanics(a, n) \/ PrintStr(a, n)
  \/ ReadChunk \/ ReadAstray \/ ReadFails \/ PrintEnds
  \/ \E c \in Child : Fork(c) \/ Exit(c)
  \/ \E a \in Address : SysWait(a)
  \/ Reap \/ WaitForNobody \/ WriteChunk \/ WriteAstray \/ WriteFails \/ StatusEnds

Spec == Init /\ [][Next]_vars

-----------------------------------------------------------------------------
(* Properties                                                              *)

Span == {a \in Address : ptr <= a /\ a < ptr + len}
Allowed(kinds) == \A a \in Span : AccessAt(a) \in kinds

\* A wait that has reaped a child (ksyscall.rs:135) tells its pid and its
\* whole status where each byte for it has an entry with WRITABLE. Otherwise the
\* status is lost, and with it the pid, unless the pointer leads into the window;
\* of the status, what lies before the first page without is written.
StatusToldOrLost == [][
  pc = "status" /\ pc' # "status" =>
    /\ Allowed(Writable) => pc' = "user" /\ ret' = child
    /\ pc' = "user" => ret' = Error \/ (ret' = child /\ Allowed(Writable \cup {"window"}))
    /\ \A a \in Span :
         mem'[a] = Status(child)[a - ptr + 1] <=>
           \A b \in Span : b \div PageSize <= a \div PageSize => AccessAt(b) \in Writable ]_vars

\* In the memory of a process the kernel writes nothing but the bytes of a status, where
\* the page's own entry has WRITABLE (copy_to_user, syscall/mod.rs:267), which is more than
\* where the process may write; with a pointer into the window it may write anywhere.
WritesStatusOnly == [][
  /\ \A a \in Address : mem'[a] # mem[a] =>
       pc = "status" /\ (AccessAt(Va) = "window" \/ (a \in Span /\ AccessAt(a) \in Writable))
  /\ pc' = "astray" => pc = "astray" \/ (pc = "status" /\ AccessAt(Va) = "window") ]_vars

\* What print_str prints is what the process has in its memory, in order, and
\* could have read there (copy_bytes_from_user, syscall/mod.rs:147), but for the bytes
\* that the window has instead, which may be anyone's.
PrintsOwnText == [][
  pc = "print" /\ pc' = "user" /\ ret' = 0 =>
    /\ Allowed(Readable \cup {"window"}) /\ Len(printed') = len
    /\ \A k \in 1 .. len : AccessAt(ptr + k - 1) # "window" => printed'[k] = mem[ptr + k - 1] ]_vars

\* No pointer into user space stops the kernel: it takes a negative length of a text, an
\* address that is not canonical (Vec::with_capacity, VirtAddr::new), or one in the window.
StopsKnown == pc = "stopped" => len < 0 \/ \E a \in Span : AccessAt(a) \in {"hole", "window"}

\* What the loops keep, between the chunks: the bytes so far were accessible and
\* are copied, the next chunk starts a page, and of the bytes of a status no
\* others are in the memory, if the pointer is into user space.
Copied == {a \in Address : ptr <= a /\ a < Va}
InUserSpace(a) == a < UserTop * PageSize
CopyLoop(kinds) ==
  /\ done \in 0 .. len /\ Va \in Address
  /\ done \in {0, len} \/ Va % PageSize = 0
  /\ \A a \in Copied : AccessAt(a) \in kinds
Loops ==
  /\ pc = "print" => /\ len <= PrintLimit /\ CopyLoop(Readable \cup {"window"})
                     /\ Len(buf) = done
                     /\ \A k \in 1 .. done : AccessAt(ptr + k - 1) # "window" => buf[k] = mem[ptr + k - 1]
  /\ pc = "status" => /\ len = StatusBytes /\ CopyLoop(Writable \cup {"window"})
                      /\ \A a \in Copied : AccessAt(a) \in Writable => mem[a] = Status(child)[a - ptr + 1]
  /\ pc \in {"user", "wait", "status"} => buf = <<>>
  /\ pc \in {"user", "wait"} => done = 0
Delivered == \A a \in Address, c \in Child :
  mem[a][1] = c => /\ stage[c] = "reaped" /\ InUserSpace(a)
                   /\ pc = "status" /\ c = child /\ InUserSpace(ptr) => a \in Copied
CopyInv == TypeOK /\ StopsKnown /\ Loops /\ Delivered /\ PageKinds(access)
=============================================================================
