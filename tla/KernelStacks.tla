---------------------------- MODULE KernelStacks ----------------------------
(***************************************************************************)
(* Kernel, with the kernel stack of each thread, which the heap provides:  *)
(* made with the thread and given back with it. The heap has room for a    *)
(* number of them besides what else is in it; it serves the first place    *)
(* that is free.                                                           *)
(***************************************************************************)
EXTENDS Kernel, FiniteSets

CONSTANT NSTACK    \* kernel stacks that the heap has room for

\* Boot needs the keyboard thread's and that of init.
ASSUME StackAssumption == NSTACK \in Nat /\ NSTACK >= 2

VARIABLES kstack,    \* of each thread: its stack, or NoStack
          taken      \* the stacks that the heap has given out

stacks == <<kstack, taken>>

Stack == 1 .. NSTACK
NoStack == 0
Available == Stack \ taken

\* setup_kstack, of a new thread
FirstAvailable(s) == s \in Available /\ \A r \in Available : s <= r
ForkWithStack ==
  /\ SysFork \/ SysForkCopyFails
  /\ \E t \in Tid, s \in Stack :
       /\ NextTid(t) /\ FirstAvailable(s)
       /\ kstack' = [kstack EXCEPT ![t] = s]
       /\ taken' = taken \cup {s}

\* The null of an allocation that fails is not looked at: the trap frame is
\* written below STACK_SIZE, where no page is mapped.
ForkBeforePid ==   \* mutant: the thread is created before the pid is chosen
  /\ InSyscall
  /\ ~NoTid /\ Available = {}
  /\ mode' = "fault"
  /\ UNCHANGED <<threads, procs, cpu, cr3, kernelGs, timerExits, stacks>>
ForkWithoutStack ==
  /\ InSyscall
  /\ ~NoPid /\ ~NoTid /\ Available = {}
  /\ mode' = "fault"
  /\ UNCHANGED <<threads, procs, cpu, cr3, kernelGs, timerExits, stacks>>

\* free_process, of a thread that has one
Reset(t) == threads[t].state # "Unused" /\ threads'[t].state = "Unused"
WaitKeepsStack ==   \* mutant: the thread is reset, its stack is not freed
  /\ SysWait \/ SysWaitAgain
  /\ kstack' = [t \in Tid |-> IF Reset(t) THEN NoStack ELSE kstack[t]]
  /\ UNCHANGED taken
WaitFreesStack ==
  /\ SysWait \/ SysWaitAgain
  /\ kstack' = [t \in Tid |-> IF Reset(t) THEN NoStack ELSE kstack[t]]
  /\ taken' = taken \ {kstack[t] : t \in {u \in Tid : Reset(u)}}

StacksInit ==
  /\ Init
  /\ kstack = [t \in Tid |-> IF t \in {KeyboardTid, InitTid} THEN t + 1 ELSE NoStack]
  /\ taken = {1, 2}

StacksNext ==
  \/ ForkWithStack \/ ForkWithoutStack \/ WaitFreesStack
  \/ /\ \/ Dispatch \/ TakeLocks \/ Enter \/ Timer \/ TimerReturn
        \/ UserFault \/ SyscallEntry \/ KilledInSyscall \/ SyscallReturn \/ HltLoop
        \/ SysForkTableFull \/ SysExec \/ SysExecPanics \/ SysExit \/ SysKill \/ SysOther
     /\ UNCHANGED stacks

StacksSpec == StacksInit /\ [][StacksNext]_<<vars, stacks>>

-----------------------------------------------------------------------------
(* Properties                                                              *)

InUse(t) == threads[t].state # "Unused"

\* Every thread in the table, and no other, has a stack, and has it alone: the
\* stack of a process goes with it when its parent waits, from a thread on
\* another stack (thread/uprocess/mod.rs:198, kmem.rs:18).
StacksOwned ==
  /\ taken = {kstack[t] : t \in {u \in Tid : InUse(u)}} /\ taken \subseteq Stack
  /\ \A t \in Tid : kstack[t] # NoStack <=> InUse(t)
  /\ \A t, u \in Tid : InUse(t) /\ InUse(u) /\ t # u => kstack[t] # kstack[u]

\* However processes come and go, the heap has a stack for every process that
\* the table has a slot for. Only the threads that failed forks leave behind
\* can use them up, NSTACK - NPROCESS + 1 of them (kmem.rs:22).
Embryos == {t \in Tid : threads[t].state = "Embryo"}
StacksSuffice ==
  [][ForkWithoutStack => Cardinality(Embryos) >= NSTACK - NPROCESS + 1]_<<vars, stacks>>
=============================================================================
