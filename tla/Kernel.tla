------------------------------- MODULE Kernel -------------------------------
(***************************************************************************)
(* FerriOS after boot: one processor, a keyboard thread in the kernel, the *)
(* init process, and the processes they create. User programs are          *)
(* arbitrary: they may issue any system call at any time, or fault. The    *)
(* timer interrupts wherever interrupts are enabled.                       *)
(***************************************************************************)
EXTENDS Processes

-----------------------------------------------------------------------------
(* Trampolines and the timer.                                              *)

\* Every trampoline takes THREAD_TABLE and CPU with interrupts enabled ...
TakeLocks ==
  /\ At("start")
  /\ threads' = [threads EXCEPT ![Current].at = "locked"]
  /\ UNCHANGED <<procs, cpu, cr3, kernelGs, mode, timerExits>>

\* ... and releases them before it enters user mode or the thread's function.
Enter ==
  /\ At("locked")
  /\ threads' = [threads EXCEPT ![Current].at =
                   IF CurrentPid = None THEN "kernel" ELSE "user"]
  /\ UNCHANGED <<procs, cpu, cr3, kernelGs, mode, timerExits>>

\* A tick outside user mode: yield. The handler enables interrupts before it
\* returns, so it can itself be interrupted; nested handlers return one after
\* another to the place that the first of them interrupted.
TimerInKernel ==
  /\ AtSome({"start", "kernel"} \cup Ticks)
  /\ OnYield(IF threads[Current].at \in Ticks
               THEN threads[Current].at ELSE Tick(threads[Current].at))
  /\ UNCHANGED <<procs, timerExits>>

TimerInUser ==
  /\ At("user") /\ ~CurrentProcess.killed
  /\ OnYield("tick_user")
  /\ UNCHANGED <<procs, timerExits>>

\* A tick in a killed process exits through the system call's path.
TickIgnoresKilled ==   \* mutant: the handler does not exit a killed process
  /\ At("user") /\ CurrentProcess.killed
  /\ OnYield("tick_user")
  /\ UNCHANGED <<procs, timerExits>>
TimerKills ==
  /\ At("user") /\ CurrentProcess.killed
  /\ Exit
  /\ timerExits' = ~timerExits

\* A tick while the trampoline holds its locks: on_yield spins on them.
TimerSpins ==
  /\ At("locked")
  /\ mode' = "spin"
  /\ UNCHANGED <<threads, procs, cpu, cr3, kernelGs, timerExits>>

Timer == TimerInKernel \/ TimerInUser \/ TimerKills \/ TimerSpins

\* The handler's iretq
TimerReturn ==
  /\ AtSome(Ticks)
  /\ threads' = [threads EXCEPT ![Current].at = Under(threads[Current].at)]
  /\ UNCHANGED <<procs, cpu, cr3, kernelGs, mode, timerExits>>

-----------------------------------------------------------------------------
(* User mode and the system call path.                                     *)

\* The page fault handler never returns, nor resumes anyone else.
UserFault ==
  /\ At("user")
  /\ mode' = "fault"
  /\ UNCHANGED <<threads, procs, cpu, cr3, kernelGs, timerExits>>

\* swapgs, then a store through GS: it faults when GS is now the user's.
SyscallEntry ==
  /\ At("user")
  /\ kernelGs' = ~kernelGs
  /\ IF kernelGs
       THEN mode' = "fault" /\ UNCHANGED <<threads, cpu>>
       ELSE /\ threads' = [threads EXCEPT ![Current].at = "syscall"]
            /\ cpu' = [cpu EXCEPT !.saved_user_rsp = Current]
            /\ UNCHANGED mode
  /\ UNCHANGED <<procs, cr3, timerExits>>

InSyscall == At("syscall") /\ ~CurrentProcess.killed

SysFork == InSyscall /\ Fork /\ UNCHANGED timerExits
SysForkCopyFails == InSyscall /\ ForkCopyFails /\ UNCHANGED timerExits
SysForkTableFull == InSyscall /\ ForkTableFull /\ UNCHANGED timerExits
SysExec == InSyscall /\ Exec /\ UNCHANGED timerExits
SysExit == InSyscall /\ Exit /\ UNCHANGED timerExits
SysKill == InSyscall /\ (\E p \in Pid : Kill(p)) /\ UNCHANGED timerExits
SysWait == InSyscall /\ WaitLoop(CurrentProcess.killed) /\ UNCHANGED timerExits

\* wait, switched back to: the next turn of its loop
SysWaitAgain ==
  /\ At("wait")
  /\ WaitLoop(threads[Current].wait_killed)
  /\ UNCHANGED timerExits

\* sys_exec expects its arguments to be readable and short enough.
SysExecPanics == InSyscall /\ Panic("exec panic") /\ UNCHANGED timerExits

\* print_num, print_str, getpid, uptime, sbrk, an unknown number, a failed exec
SysOther ==
  /\ InSyscall
  /\ Return(threads)
  /\ UNCHANGED <<procs, cpu, cr3, kernelGs, mode, timerExits>>

\* syscall_dispatch tests the flag before and after the handler.
KilledInSyscall ==
  /\ AtSome({"syscall", "sysret"}) /\ CurrentProcess.killed
  /\ Exit
  /\ UNCHANGED timerExits

\* The user RSP is loaded through GS, then swapgs and sysretq.
SyscallReturn ==
  /\ At("sysret") /\ ~CurrentProcess.killed
  /\ IF kernelGs
       THEN /\ kernelGs' = FALSE
            /\ threads' = [threads EXCEPT ![Current].at = "user"]
            /\ UNCHANGED mode
       ELSE mode' = "fault" /\ UNCHANGED <<threads, kernelGs>>
  /\ UNCHANGED <<procs, cpu, cr3, timerExits>>

\* A panic or a fault ends in a loop with nothing left to run.
HltLoop == mode \in Stops \ {"idle"} /\ UNCHANGED vars

Syscall == \/ SysFork \/ SysForkCopyFails \/ SysForkTableFull
           \/ SysExec \/ SysExecPanics \/ SysExit \/ SysKill
           \/ SysWait \/ SysWaitAgain \/ SysOther

-----------------------------------------------------------------------------
(* The specification. Boot ends in scheduler() with the keyboard thread and*)
(* init's thread runnable.                                                 *)

Init ==
  /\ threads = [t \in Tid |->
       IF t = KeyboardTid THEN NewThread(None, "Runnable", None)
       ELSE IF t = InitTid THEN NewThread(INIT_PID, "Runnable", t)
       ELSE NoThread]
  /\ procs = [p \in Pid |->
       IF p = INIT_PID THEN NewProcess(p, None, InitTid) ELSE NoProcess]
  /\ cpu = [current_tid |-> None, saved_user_rsp |-> None]
  /\ cr3 = KernelTable
  /\ kernelGs = FALSE
  /\ mode = "scheduler"
  /\ timerExits = FALSE

Next == \/ Dispatch \/ TakeLocks \/ Enter
        \/ Timer \/ TimerReturn
        \/ UserFault \/ SyscallEntry \/ Syscall \/ KilledInSyscall \/ SyscallReturn
        \/ HltLoop

Spec == Init /\ [][Next]_vars

\* The processor keeps executing, and the interval timer keeps ticking: an
\* interrupt raised while they are disabled is pending until they are enabled.
\* A user thread that is given the processor again and again eventually gets past
\* the few instructions of a trampoline or of the end of the handler, which
\* take a small part of the period between two ticks.
Fairness == /\ WF_vars(Next)
            /\ SF_vars(Timer)
            /\ \A t \in Tid \ {KeyboardTid} :
                 /\ SF_vars(Current = t /\ TakeLocks)
                 /\ SF_vars(Current = t /\ TimerReturn)
FairSpec == Spec /\ Fairness

-----------------------------------------------------------------------------
(* Safety.                                                                 *)

Halted == mode \in Stops

\* The kernel's expectations about itself are met: on_yield finds its thread
\* Running, the scheduler finds a process with a page table behind every user
\* thread, and it always finds a thread to run.
SelfChecksHold == mode \notin SelfChecks

\* At most one thread is Running, the one CPU names; when a thread has the
\* processor it is that one, although the scheduler marks the next thread
\* before the previous one and a system call yields without changing its state.
OneRunning ==
  /\ \A t \in Tid : threads[t].state = "Running" => t = Current
  /\ mode = "run" => threads[Current].state = "Running"

\* A live or exited process owns exactly one thread, in the matching state, and
\* a thread that was made runnable belongs to such a process, although slots of
\* both tables are chosen, filled and reset in separate critical sections.
Matches(p, t) ==
  /\ procs[p].pid = p /\ threads[t].pid = p
  /\ procs[p].state = "Alive" => threads[t].state \in {"Runnable", "Running"}
  /\ procs[p].state = "Zombie" => threads[t].state = "Zombie"
TablesAgree ==
  /\ \A p \in Pid : procs[p].state \in {"Alive", "Zombie"} =>
       procs[p].tid \in Tid /\ Matches(p, procs[p].tid)
  /\ \A t \in Tid :
       threads[t].state \in {"Runnable", "Running", "Zombie"} /\ threads[t].pid # None
         => /\ procs[threads[t].pid].state \in {"Alive", "Zombie"}
            /\ procs[threads[t].pid].tid = t

\* A system call returns on the user stack it came from, or on the one exec
\* built, whichever system calls used the CPU's only slot for it in between.
OwnStack == At("sysret") => cpu.saved_user_rsp = Current

\* A thread executes on its own live process's page table (the keyboard thread
\* on the kernel's), across preemption, yields, exec and the freeing of others.
OwnAddressSpace ==
  mode = "run" =>
    IF CurrentPid = None
      THEN cr3 = KernelTable
      ELSE CurrentProcess.state = "Alive" /\ cr3 = CurrentProcess.page_table

\* GS is the kernel's exactly inside a system call, except for one reversal by
\* each exit of a killed process from the timer handler, which swaps GS once.
InKernelCall == AtSome({"syscall", "wait", "sysret"})
GsByParity ==
  mode \in {"scheduler", "run"} =>
    kernelGs = IF InKernelCall THEN ~timerExits ELSE timerExits

\* No thread that is runnable is passed over twice: each choice of the
\* scheduler brings the scan closer to every other runnable thread.
RoundRobin ==
  [][mode = "scheduler" /\ mode' = "run" =>
       \A t \in Tid : Runnable(t) /\ t # cpu'.current_tid =>
          /\ threads'[t].state = "Runnable"
          /\ Distance(cpu'.current_tid, t) < Distance(ScanFrom, t)]_vars

\* What nobody is there to clean up stays for good. A process whose parent has
\* exited is never reaped, whoever waits, and keeps its slot, its thread and its
\* page table's owner (exit leaves its children as they are,
\* thread/uprocess/syscalls.rs:123). The slot of a process that was reaped never
\* holds another: wait puts an unused structure back, and the next pid is looked
\* for among the empty slots (thread/uprocess/mod.rs:147). A thread that a failed
\* fork left behind is never reset (syscalls.rs:31).
Orphan(p) ==
  procs[p].state \in {"Alive", "Zombie"} /\ p # INIT_PID
    /\ procs[procs[p].ppid].state # "Alive"
LeftForGood ==
  [][ /\ \A p \in Pid : Orphan(p) =>
           /\ procs'[p].state \in {"Alive", "Zombie"}
           /\ procs'[p].ppid = procs[p].ppid /\ procs'[p].tid = procs[p].tid
      /\ \A p \in Pid : procs[p].state = "Unused" => procs'[p].state = "Unused"
      /\ \A t \in Tid : threads[t].state = "Embryo" => threads'[t] = threads[t] ]_vars

-----------------------------------------------------------------------------
(* The inductive invariant: the safety invariants above, and what they need*)
(* of the states in between.                                               *)

Schedulable(t) == threads[t].state \in {"Runnable", "Running"}
HasProcessor(t) == mode = "run" /\ t = Current

\* wait's own test of the killed flag never succeeds: it reads a copy made when
\* the flag had just been seen clear.
WaitTestIsDead == \A t \in Tid : ~threads[t].wait_killed

\* The keyboard thread is the only thread without a process that was ever made
\* runnable, and nothing ends it: this is why the scheduler never idles.
KeyboardReady ==
  /\ threads[KeyboardTid].pid = None
  /\ Schedulable(KeyboardTid)
  /\ \A t \in Tid \ {KeyboardTid} : Schedulable(t) => threads[t].pid # None

\* Init never exits: with two threads to run at any time, the scheduler never
\* chooses the thread that ran last, which it would mark Runnable again.
InitLives == procs[INIT_PID].state = "Alive"

\* Every process in the table that has not been reaped has a page table, and
\* no two processes ever share one.
OwnTable == \A p \in Pid : procs[p].state \in {"Alive", "Zombie"} =>
              procs[p].page_table \in PageTable /\ procs[p].page_table[1] = p

\* Where a thread is while it does not have the processor, and which places
\* belong to the kernel's thread and which to user threads
KernelPlaces == {"start", "locked", "kernel", "tick_start", "tick_kernel"}
Suspended(t) ==
  \/ threads[t].state = "Runnable" /\ threads[t].at \in {"start"} \cup Ticks
  \/ threads[t].at = "wait" /\ threads[t].rsp3 = t
Placed(t) ==
  /\ ~HasProcessor(t) /\ mode \in {"scheduler", "run"} => Suspended(t)
  /\ threads[t].at \notin {"none", "dead"}
  /\ threads[t].pid = None => threads[t].at \in KernelPlaces
  /\ threads[t].pid # None => threads[t].at \notin {"kernel", "tick_kernel"}
Places == \A t \in Tid : Schedulable(t) => Placed(t)

\* The CPU's slot for the user RSP belongs to the system call in progress.
SlotIsOwn == InKernelCall => cpu.saved_user_rsp = Current

IInv == /\ TypeOK /\ SelfChecksHold /\ OneRunning /\ TablesAgree
        /\ KeyboardReady /\ InitLives /\ OwnTable /\ Places /\ SlotIsOwn
        /\ OwnAddressSpace /\ GsByParity /\ WaitTestIsDead
        /\ mode = "run" => Current # None

-----------------------------------------------------------------------------
(* The abstract view.                                                      *)

\* What the process table shows of each process's life
StageOf(s) == CASE s = "None" -> "absent" [] s = "Alive" -> "alive"
                [] s = "Zombie" -> "zombie" [] s = "Unused" -> "reaped"
Life == INSTANCE Lifecycle WITH
  Proc <- Pid, Root <- INIT_PID, NoParent <- None,
  life <- [p \in Pid |-> StageOf(procs[p].state)],
  parent <- [p \in Pid |-> procs[p].ppid]

\* fork, exit, kill and wait implement the abstract life of processes.
ImplementsLifecycle == Life!Spec

-----------------------------------------------------------------------------
(* Liveness, unless the kernel stops.                                      *)

\* Every runnable thread is eventually given the processor.
RunnableRuns ==
  \A t \in Tid : Runnable(t) ~> (Halted \/ (mode = "run" /\ Current = t))

Waiting(p) == procs[p].state = "Alive" /\ threads[procs[p].tid].at = "wait"

\* A parent suspended in wait while it has an exited child leaves wait.
WaitReturns ==
  \A p \in Pid, c \in Pid :
    (Waiting(p) /\ procs[c].state = "Zombie" /\ procs[c].ppid = p)
      ~> (Halted \/ ~Waiting(p))

\* A killed process that is not suspended in wait exits, wherever the flag
\* found it: computing, preempted, in a system call or not yet started.
KilledDies ==
  \A p \in Pid :
    (procs[p].state = "Alive" /\ procs[p].killed /\ ~Waiting(p))
      ~> (Halted \/ procs[p].state # "Alive")

-----------------------------------------------------------------------------
(* What the source says of itself and does not hold.                       *)

\* The scheduler runs with the user's GS (on_syscall_yield's comment).
SchedulerGsIsUser == mode = "scheduler" => ~kernelGs

=============================================================================
