------------------------------- MODULE Locks --------------------------------
(***************************************************************************)
(* The kernel's spin locks on its one processor. A lock that is held by a  *)
(* context which cannot go on, and wanted by one that runs with interrupts *)
(* off, is never free again: the kernel hangs.                             *)
(*                                                                         *)
(* A piece of code is the sequence of what it does to locks and to the     *)
(* interrupt flag. A thread is a stack of frames: its own code, and on top *)
(* of it a system call or the interrupt handlers that nest. Which system   *)
(* call a program makes and when a device interrupts is arbitrary; what the*)
(* code computes, and whose child is whose, is left out. The locks of the  *)
(* output devices are only taken under CONSOLE's.                          *)
(***************************************************************************)
EXTENDS Integers, Sequences

CONSTANTS NTHREAD,     \* threads: the keyboard's, init's and those of its descendants
          MaxFrames    \* bound: nested frames of a thread

ASSUME LocksAssumption == NTHREAD \in Nat /\ NTHREAD >= 2 /\ MaxFrames \in Nat /\ MaxFrames >= 2

VARIABLES frames,    \* each thread's stack of frames, the innermost one last
          holder,    \* who holds each lock: a thread and the depth of its frame
          running,   \* the thread that has the processor
          turn,      \* current_tid: the thread dispatched last
          life,      \* "none", "ready" or "zombie"
          started    \* SCHEDULER_STARTED

lockVars == <<frames, holder, running, turn, life, started>>

Tid == 0 .. NTHREAD-1
KeyboardTid == 0
InitTid == 1
Boot == -1                 \* kernel_main, and then the scheduler's loop
Thread == Tid \cup {Boot}

Lock == {"THREAD_TABLE", "CPU", "PROCESS_TABLE", "FRAME_ALLOCATOR", "ALLOCATOR",
         "CONSOLE", "PICS", "TICKS", "KERNEL_PAGE_TABLE_FRAME", "PHYSICAL_MEMORY_OFFSET"}
Nobody == <<>>

-----------------------------------------------------------------------------
(* Pieces of code                                                          *)

Acquire(l) == <<[do |-> "lock", lock |-> l]>>
Release(l) == <<[do |-> "unlock", lock |-> l]>>
Holding(l, body) == Acquire(l) \o body \o Release(l)   \* a guard and its block
Take(l) == Holding(l, <<>>)                            \* a guard dropped at once
Do(what) == <<[do |-> what]>>

WithoutInterrupts(body) == Do("mask") \o body \o Do("unmask")

CurrentPid == Take("THREAD_TABLE")
CurrentProcess == CurrentPid \o Take("PROCESS_TABLE")
Heap == Take("ALLOCATOR")                 \* an allocation or a deallocation
Println == Take("CONSOLE")                  \* _print, where interrupts are off already
KilledTest == Holding("CPU", CurrentProcess)
KernelPageTable == Take("KERNEL_PAGE_TABLE_FRAME")

\* The vector of argument pointers is allocated under the guard.
PrepareExecImage == Holding("FRAME_ALLOCATOR", Take("PHYSICAL_MEMORY_OFFSET") \o Heap)
AllocProc == Take("PROCESS_TABLE") \o Take("THREAD_TABLE") \o Heap \o Take("THREAD_TABLE")
MarkRunnable == Take("THREAD_TABLE")

FerriosInit == Take("CPU") \o Take("PICS") \o Do("unmask")
ConsoleInit == Take("CONSOLE")
ConsoleGetKept == Holding("CONSOLE", WithoutInterrupts(Println))  \* mutant: the guard outlives get()
ConsoleGet == Take("CONSOLE")
MemoryInit == KernelPageTable \o Take("PHYSICAL_MEMORY_OFFSET") \o Take("FRAME_ALLOCATOR")
CreateKernelThread == Take("THREAD_TABLE") \o Holding("THREAD_TABLE", Heap)
CreateUserProcess ==
  PrepareExecImage \o AllocProc \o Take("THREAD_TABLE") \o Take("PROCESS_TABLE") \o MarkRunnable
BootCode ==
  Println \o FerriosInit \o ConsoleInit \o WithoutInterrupts(Println) \o ConsoleGet \o MemoryInit
  \o Holding("FRAME_ALLOCATOR", Heap) \o Heap
  \o CreateKernelThread \o CreateUserProcess \o Do("mask") \o Do("schedule")

\* To a user's page table or to the kernel's, depending on the thread chosen.
SchedulerLoop ==
  Holding("THREAD_TABLE", Holding("CPU", Take("PROCESS_TABLE") \o KernelPageTable))
  \o Do("dispatch")

\* All trampolines take both locks with interrupts enabled.
Trampoline == Holding("THREAD_TABLE", Take("CPU"))
UserCode == Trampoline \o Do("user")

\* The keyboard thread allocates until both of its tasks have been polled once.
KeyboardCode == Trampoline \o Heap \o Heap \o Do("idle")
PrintKey == WithoutInterrupts(Println)

\* The guards are dropped before the switch.
Switch(what) == KernelPageTable \o Holding("THREAD_TABLE", Take("CPU")) \o Do(what)
GuardsKept ==                         \* mutant: on_yield keeps its guards across the switch
  KernelPageTable \o Holding("THREAD_TABLE", Take("CPU") \o Do("yield")) \o Do("unmask")
OnYield == Switch("yield") \o Do("unmask")

Exit == Holding("CPU", CurrentPid) \o Take("PROCESS_TABLE") \o Take("THREAD_TABLE") \o Switch("exit")

\* Interrupt handlers
Tick == Take("PICS") \o Take("TICKS")
TimerAtBoot == Tick
TimerInKernel == Tick \o OnYield
TimerForgets == Tick \o KilledTest \o KilledTest   \* mutant: no yield from user mode
TimerInUser == Tick \o KilledTest \o KilledTest \o OnYield
TimerKills == Tick \o KilledTest \o Exit
Input == Take("PICS")
KeyWarned == Println \o Take("PICS")   \* the scancode queue is full, or not there yet

\* System calls, between the two killed tests of syscall_dispatch
Entry == KilledTest \o Take("CPU") \o Take("THREAD_TABLE")
SyscallOf(body) == Entry \o body \o KilledTest
PrintNum == Println
\* A copy that fails says so under FRAME_ALLOCATOR: the path that fails and the one that
\* prints are joined.
PrintStr == KilledTest \o Take("PHYSICAL_MEMORY_OFFSET")
              \o Holding("FRAME_ALLOCATOR", Heap \o Println) \o Println \o Heap
ForkKeepsCpu ==   \* mutant: no drop(cpu) before the child's thread is filled in
  Acquire("CPU") \o CurrentProcess \o AllocProc
  \o Acquire("FRAME_ALLOCATOR") \o Take("PHYSICAL_MEMORY_OFFSET") \o Take("CPU")
  \o Take("THREAD_TABLE") \o Holding("PROCESS_TABLE", MarkRunnable)
  \o Release("FRAME_ALLOCATOR") \o Release("CPU") \o Do("spawn")
Fork ==
  Acquire("CPU") \o CurrentProcess \o AllocProc
  \o Acquire("FRAME_ALLOCATOR") \o Take("PHYSICAL_MEMORY_OFFSET") \o Release("CPU")
  \o Take("THREAD_TABLE") \o Take("THREAD_TABLE")
  \o Holding("PROCESS_TABLE", MarkRunnable) \o Release("FRAME_ALLOCATOR") \o Do("spawn")
CommitExec == Holding("CPU", CurrentPid) \o Take("PROCESS_TABLE") \o Take("THREAD_TABLE")
                \o Take("CPU") \o Take("PROCESS_TABLE") \o Take("THREAD_TABLE") \o Take("CPU")
Exec == Heap \o PrepareExecImage \o CommitExec \o Heap
FreeProcess == Holding("THREAD_TABLE", Heap)
                 \o Holding("FRAME_ALLOCATOR", Take("PHYSICAL_MEMORY_OFFSET") \o Heap)
                 \o Take("PROCESS_TABLE")
CopyToUser == KilledTest \o Take("PHYSICAL_MEMORY_OFFSET") \o Holding("FRAME_ALLOCATOR", Println)
Kill == Take("PROCESS_TABLE")
Sbrk == Holding("CPU", CurrentPid)
          \o Holding("PROCESS_TABLE", Take("PHYSICAL_MEMORY_OFFSET")
               \o Holding("FRAME_ALLOCATOR", Take("PHYSICAL_MEMORY_OFFSET") \o Heap))
GetPid == Holding("CPU", CurrentPid)
Uptime == Take("TICKS")

Code == [
  boot |-> BootCode, scheduler |-> SchedulerLoop,
  keyboard |-> KeyboardCode, user |-> UserCode, print_key |-> PrintKey,
  timer_boot |-> TimerAtBoot, timer_kernel |-> TimerInKernel,
  timer_user |-> TimerInUser, timer_kills |-> TimerKills,
  input |-> Input, key_warned |-> KeyWarned,
  print_num |-> SyscallOf(PrintNum), print_str |-> SyscallOf(PrintStr),
  fork |-> SyscallOf(Fork), exec |-> SyscallOf(Exec), exit |-> Entry \o Exit,
  kill |-> SyscallOf(Kill), sbrk |-> SyscallOf(Sbrk), getpid |-> SyscallOf(GetPid),
  uptime |-> SyscallOf(Uptime),
  \* wait: the search for a child, and what follows from each of its results
  wait |-> Entry \o KilledTest \o Take("PROCESS_TABLE") \o Do("search"),
  wait_reaps |-> FreeProcess \o Do("reap") \o CopyToUser \o KilledTest,
  wait_yields |-> Switch("yield") \o Take("PROCESS_TABLE") \o Do("search"),
  wait_fails |-> KilledTest]

-----------------------------------------------------------------------------
(* Threads                                                                 *)

Frame(prog, masked) == [prog |-> prog, pc |-> 1, masked |-> masked]

Depth == Len(frames[running])
Top == frames[running][Depth]
AtEnd(frame) == frame.pc > Len(Code[frame.prog])
Op(frame) == IF AtEnd(frame) THEN [do |-> "return"] ELSE Code[frame.prog][frame.pc]
Advanced(frame) == [frame EXCEPT !.pc = @ + 1]

SetTop(frame) == frames' = [frames EXCEPT ![running][Depth] = frame]
Push(frame) == frames' = [frames EXCEPT ![running] = Append(@, frame)]

Lock_ ==
  /\ Op(Top).do = "lock" /\ holder[Op(Top).lock] = Nobody
  /\ holder' = [holder EXCEPT ![Op(Top).lock] = <<running, Depth>>]
  /\ SetTop(Advanced(Top))
  /\ UNCHANGED <<running, turn, life, started>>

Unlock ==
  /\ Op(Top).do = "unlock"
  /\ holder' = [holder EXCEPT ![Op(Top).lock] = Nobody]
  /\ SetTop(Advanced(Top))
  /\ UNCHANGED <<running, turn, life, started>>

SetInterruptFlag ==
  /\ Op(Top).do \in {"mask", "unmask"}
  /\ SetTop([Advanced(Top) EXCEPT !.masked = Op(Top).do = "mask"])
  /\ UNCHANGED <<holder, running, turn, life, started>>

\* The end of a system call, of a handler or of an output
Return ==
  /\ AtEnd(Top)
  /\ frames' = [frames EXCEPT ![running] = SubSeq(@, 1, Depth - 1)]
  /\ UNCHANGED <<holder, running, turn, life, started>>

StartScheduler ==
  /\ Op(Top).do = "schedule"
  /\ started' = TRUE
  /\ SetTop(Frame("scheduler", TRUE))
  /\ UNCHANGED <<holder, running, turn, life>>

\* The keyboard thread is always ready, so the scheduler never halts.
FindNext(after) == LET Ahead(i) == (after + i) % NTHREAD
                       first == CHOOSE i \in 1 .. NTHREAD : /\ life[Ahead(i)] = "ready"
                                  /\ \A j \in 1 .. i-1 : life[Ahead(j)] # "ready"
                   IN Ahead(first)

Dispatch ==
  /\ Op(Top).do = "dispatch"
  /\ running' = FindNext(turn) /\ turn' = running'
  /\ SetTop(Frame("scheduler", TRUE))
  /\ UNCHANGED <<holder, life, started>>

Yield ==
  /\ Op(Top).do = "yield"
  /\ running' = Boot
  /\ SetTop(Advanced(Top))
  /\ UNCHANGED <<holder, turn, life, started>>

ExitThread ==
  /\ Op(Top).do = "exit"
  /\ life' = [life EXCEPT ![running] = "zombie"]
  /\ frames' = [frames EXCEPT ![running] = <<>>]
  /\ running' = Boot
  /\ UNCHANGED <<holder, turn, started>>

SpawnThread ==
  /\ Op(Top).do = "spawn"
  /\ \E t \in Tid :
       /\ life[t] = "none"
       /\ life' = [life EXCEPT ![t] = "ready"]
       /\ frames' = [frames EXCEPT ![running][Depth] = Advanced(Top),
                                   ![t] = <<Frame("user", FALSE)>>]
  /\ UNCHANGED <<holder, running, turn, started>>

\* Interrupts are off from the search to the reaping, so the zombie is still there.
Search ==
  /\ Op(Top).do = "search"
  /\ \E result \in {"wait_reaps", "wait_yields", "wait_fails"} :
       /\ result = "wait_reaps" => \E t \in Tid : life[t] = "zombie"
       /\ SetTop(Frame(result, TRUE))
  /\ UNCHANGED <<holder, running, turn, life, started>>

ReapThread ==
  /\ Op(Top).do = "reap"
  /\ \E t \in Tid : life[t] = "zombie" /\ life' = [life EXCEPT ![t] = "none"]
  /\ SetTop(Advanced(Top))
  /\ UNCHANGED <<holder, running, turn, started>>

Step == \/ Lock_ \/ Unlock \/ SetInterruptFlag \/ Return \/ StartScheduler \/ Dispatch
        \/ Yield \/ ExitThread \/ SpawnThread \/ Search \/ ReapThread

-----------------------------------------------------------------------------
(* What comes from outside: programs and devices                           *)

Syscalls == {"print_num", "print_str", "fork", "exec", "exit", "kill", "sbrk", "getpid",
             "uptime", "wait"}

\* init's exit is a panic, which Kernel describes.
Syscall ==
  /\ Op(Top).do = "user"
  /\ \E call \in Syscalls :
       /\ call = "fork" => \E t \in Tid : life[t] = "none"
       /\ call = "exit" => running # InitTid
       /\ Push(Frame(call, TRUE))
  /\ UNCHANGED <<holder, running, turn, life, started>>

\* A scancode that decodes to a character
KeyDecoded ==
  /\ Op(Top).do = "idle"
  /\ Push(Frame("print_key", FALSE))
  /\ UNCHANGED <<holder, running, turn, life, started>>

Handle(handler) ==
  /\ ~Top.masked /\ Depth < MaxFrames
  /\ Push(Frame(handler, TRUE))
  /\ UNCHANGED <<holder, running, turn, life, started>>

Timer ==
  \/ ~started /\ Handle("timer_boot")
  \/ started /\ Op(Top).do # "user" /\ Handle("timer_kernel")
  \/ Op(Top).do = "user" /\ Handle("timer_user")
  \/ Op(Top).do = "user" /\ running # InitTid /\ Handle("timer_kills")

\* Before the keyboard thread has run there is no scancode queue; later it may be full.
Device == Handle("input") \/ Handle("key_warned")

LocksNext == Step \/ Syscall \/ KeyDecoded \/ Timer \/ Device

\* Boot creates the threads of the keyboard and of init; none of them runs before it ends.
LocksInit ==
  /\ frames = [t \in Thread |-> CASE t = Boot -> <<Frame("boot", TRUE)>>
                                  [] t = KeyboardTid -> <<Frame("keyboard", FALSE)>>
                                  [] t = InitTid -> <<Frame("user", FALSE)>>
                                  [] OTHER -> <<>>]
  /\ holder = [l \in Lock |-> Nobody]
  /\ running = Boot /\ turn = NTHREAD - 1
  /\ life = [t \in Tid |-> IF t \in {KeyboardTid, InitTid} THEN "ready" ELSE "none"]
  /\ started = FALSE

LocksSpec == LocksInit /\ [][LocksNext]_lockVars

\* A handler takes less time than passes between two ticks, and devices interrupt more
\* rarely than instructions follow each other: code that may be interrupted goes on.
InterruptibleStep(t, depth) == running = t /\ Depth = depth /\ ~Top.masked /\ Step

LocksFairSpec ==
  /\ LocksSpec /\ WF_lockVars(Step) /\ SF_lockVars(Timer)
  /\ \A t \in {Boot, KeyboardTid}, depth \in 1 .. MaxFrames : SF_lockVars(InterruptibleStep(t, depth))

-----------------------------------------------------------------------------
(* Properties                                                              *)

FrameType == [prog : DOMAIN Code, pc : Nat \ {0}, masked : BOOLEAN]

\* Types; and the threads that can be scheduled are those that have code to run.
LocksTypeOK ==
  /\ frames \in [Thread -> Seq(FrameType)]
  /\ \A t \in Thread : \A d \in 1 .. Len(frames[t]) :
       frames[t][d].pc <= Len(Code[frames[t][d].prog]) + 1
  /\ \A t \in Tid : (life[t] = "ready") = (frames[t] # <<>>)
  /\ holder \in [Lock -> {Nobody} \cup (Thread \X (1 .. MaxFrames))]
  /\ running \in Thread /\ turn \in Tid
  /\ life \in [Tid -> {"none", "ready", "zombie"}] /\ started \in BOOLEAN

\* The processor spins on a held lock; with interrupts off, nothing else can happen.
Spins == Op(Top).do = "lock" /\ holder[Op(Top).lock] # Nobody
Stuck == Spins /\ Top.masked

BootOutput == Op(Top).lock = "CONSOLE" /\ holder["CONSOLE"] = <<Boot, 1>> /\ Top.prog = "key_warned"
TrampolineTick ==
  Op(Top).lock = "THREAD_TABLE" /\ holder["THREAD_TABLE"] = <<running, 1>> /\ Top.prog = "timer_kernel"
KeyboardHeap ==
  Op(Top).lock = "ALLOCATOR" /\ holder["ALLOCATOR"] = <<KeyboardTid, 1>> /\ running # KeyboardTid

\* A lock is found held where the kernel hangs on it and nowhere else, which is in three
\* ways: a key is pressed while boot holds the console's lock with interrupts enabled; a
\* tick strikes in a trampoline; a system call wants the heap, whose lock the preempted
\* keyboard thread holds. No lock is ever waited for and then had.
KnownDeadlocks == Spins => Top.masked /\ (BootOutput \/ TrampolineTick \/ KeyboardHeap)

\* No thread is switched away from while it holds a lock, except the keyboard thread
\* in an allocation: on_yield, on_syscall_yield and the scheduler drop their guards.
SuspendedHoldsHeapOnly ==
  \A l \in Lock : holder[l] # Nobody =>
    \/ holder[l][1] = running
    \/ l = "ALLOCATOR" /\ holder[l] = <<KeyboardTid, 1>> /\ started

\* The locks that a piece of code has taken and not given back before its pc-th operation
HeldAt(code, pc) ==
  {l \in Lock : \E i \in 1 .. pc-1 :
     /\ code[i].do = "lock" /\ code[i].lock = l
     /\ \A j \in i+1 .. pc-1 : ~(code[j].do = "unlock" /\ code[j].lock = l)}

Held(frame) == HeldAt(Code[frame.prog], frame.pc)

\* A lock is held by the one frame that is between taking it and giving it back.
HoldersAreInside ==
  /\ \A t \in Thread : \A d \in 1 .. Len(frames[t]) :
       \A l \in Held(frames[t][d]) : holder[l] = <<t, d>>
  /\ \A l \in Lock : holder[l] # Nobody =>
       \E t \in Thread : \E d \in 1 .. Len(frames[t]) :
         holder[l] = <<t, d>> /\ l \in Held(frames[t][d])

\* A thread's own code and, for other threads than boot's, the place in it from which the
\* frames that are no interrupt in the kernel are entered, and these frames
OwnCode(t) == CASE t = Boot -> IF started THEN "scheduler" ELSE "boot"
                [] t = KeyboardTid -> "keyboard"
                [] OTHER -> "user"
Gate(t) == IF t = KeyboardTid THEN "idle" ELSE "user"
Entered(t) ==
  IF t = KeyboardTid THEN {"print_key"}
  ELSE Syscalls \cup {"timer_user", "timer_kills", "wait_reaps", "wait_yields", "wait_fails"}
Handlers(t) == {IF t = Boot THEN "timer_boot" ELSE "timer_kernel", "input", "key_warned"}

\* A frame lies on an interruptible one: a handler on any, the others on the thread's own code.
Nesting ==
  \A t \in Thread :
    /\ Len(frames[t]) <= MaxFrames
    /\ frames[t] # <<>> => frames[t][1].prog = OwnCode(t) /\ ~AtEnd(frames[t][1])
    /\ \A d \in 2 .. Len(frames[t]) :
         /\ ~frames[t][d-1].masked
         /\ \/ frames[t][d].prog \in Handlers(t)
            \/ /\ t # Boot /\ d = 2
               /\ frames[t][2].prog \in Entered(t) /\ Op(frames[t][1]).do = Gate(t)

\* Which code runs with interrupts enabled: boot after FerriosInit, a thread's own code,
\* the output of a key before its writing, and what has only to return after enabling them
Interruptible(frame) ==
  \/ frame.prog = "boot" /\ frame.pc > Len(Println \o FerriosInit)
  \/ frame.prog \in {"keyboard", "user"}
  \/ frame.prog = "print_key" /\ frame.pc = 1
  \/ frame.prog \in {"print_key", "timer_kernel", "timer_user"} /\ AtEnd(frame)
Masking ==
  \A t \in Thread : \A d \in 1 .. Len(frames[t]) :
    /\ ~frames[t][d].masked => Interruptible(frames[t][d])
    /\ frames[t][d].prog \in {"keyboard", "user"} => ~frames[t][d].masked

\* A tick in a trampoline that holds THREAD_TABLE comes as far as asking for it.
TicksWait ==
  \A t \in Tid : Len(frames[t]) >= 2 /\ "THREAD_TABLE" \in Held(frames[t][1]) =>
    \/ frames[t][2].prog \in {"input", "key_warned"}
    \/ frames[t][2].prog = "timer_kernel" /\ frames[t][2].pc <= Len(Tick \o KernelPageTable) + 1

\* The threads wait for boot, the keyboard's never ends, and whatever runs has code.
Scheduling ==
  /\ running # Boot => started /\ life[running] = "ready"
  /\ life[KeyboardTid] = "ready" /\ frames[Boot] # <<>>

LocksInv == /\ LocksTypeOK /\ HoldersAreInside /\ Nesting /\ Masking /\ TicksWait /\ Scheduling
            /\ SuspendedHoldsHeapOnly

\* Boot reaches the scheduler, whatever interrupts it, unless a key press hangs it.
BootEnds == <>(started \/ (Stuck /\ BootOutput))

\* The heap's lock, kept by the keyboard thread while others run, comes free again,
\* unless somebody asks for it before, or a tick strikes in a trampoline; or the kernel is
\* stopped by what this module leaves out, a fault of a program or a panic of exec.
HeapComesFree ==
  (holder["ALLOCATOR"] = <<KeyboardTid, 1>>)
    ~> (holder["ALLOCATOR"] = Nobody \/ (Stuck /\ (KeyboardHeap \/ TrampolineTick)))
=============================================================================
