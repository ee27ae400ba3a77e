------------------------------- MODULE Tables -------------------------------
(***************************************************************************)
(* The two tables of the kernel (THREAD_TABLE, PROCESS_TABLE), the CPU     *)
(* structure and the machine registers a context switch has to keep right. *)
(* Data is reduced to what the properties tell apart:                      *)
(*   - a user stack pointer is the tid of the thread that last set it;     *)
(*   - a page table is <<pid, n>>, the n-th address space of process pid   *)
(*     (n counts its successful execs), or KernelTable;                    *)
(*   - a process has one thread, threads[0] of the source: add_thread is   *)
(*     called once per process;                                            *)
(*   - kernel stacks are left out: kernel_syscall_rsp and TSS.rsp0 always  *)
(*     are those of the thread that was dispatched last.                   *)
(***************************************************************************)
EXTENDS Integers

CONSTANTS NTHREAD,    \* length of THREAD_TABLE
          NPROCESS,   \* length of PROCESS_TABLE
          MaxExec,    \* bound: successful execs per process
          None        \* Option::None

\* Boot creates two threads (0, 1) and process 0, and both scans for a free
\* slot stop one short of the end of the table.
ASSUME SizesAssumption == /\ NTHREAD \in Nat /\ NTHREAD >= 3
                          /\ NPROCESS \in Nat /\ NPROCESS >= 2
                          /\ MaxExec \in Nat
ASSUME NoneAssumption == None \notin Nat /\ None \notin Nat \X Nat

VARIABLES threads,    \* THREAD_TABLE
          procs,      \* PROCESS_TABLE
          cpu,        \* CPU: current_tid and saved_user_rsp
          cr3,        \* the active page table
          kernelGs,   \* does GS hold the kernel's base?
          mode,       \* who has the processor, or why it stopped
          timerExits  \* ghost: parity of the exits done by the timer handler

vars == <<threads, procs, cpu, cr3, kernelGs, mode, timerExits>>

Tid == 0 .. NTHREAD-1
Pid == 0 .. NPROCESS-1
Scanned == 0 .. NPROCESS-2   \* the slots next_pid, wait and kill look at

KeyboardTid == 0
InitTid == 1
INIT_PID == 0

\* Sleeping is declared too, and no code ever enters it.
ThreadState == {"Unused", "Embryo", "Runnable", "Running", "Zombie"}
ProcessState == {"None", "Unused", "Alive", "Zombie"}

\* Where the thread is, or will go on when it is switched to. "start" is a
\* trampoline before it takes its locks, "locked" the trampoline holding them,
\* "tick_x" the timer handler that interrupted x, about to return to it;
\* "wait" is inside the wait system call, suspended or just resumed.
Interrupted == {"start", "user", "kernel"}
Tick(x) == CASE x = "start" -> "tick_start"
             [] x = "user" -> "tick_user"
             [] x = "kernel" -> "tick_kernel"
Ticks == {"tick_start", "tick_user", "tick_kernel"}
Under(x) == CASE x = "tick_start" -> "start"
              [] x = "tick_user" -> "user"
              [] x = "tick_kernel" -> "kernel"
Place == Interrupted \cup Ticks
           \cup {"none", "locked", "syscall", "wait", "sysret", "dead"}

KernelTable == <<None, 0>>
PageTable == Pid \X (0 .. MaxExec)

\* Thread::new(), and a thread that starts in one of the trampolines
NoThread == [state |-> "Unused", pid |-> None, at |-> "none", rsp3 |-> None,
             wait_killed |-> FALSE]
NewThread(pid, state, rsp3) ==
  [state |-> state, pid |-> pid, at |-> "start", rsp3 |-> rsp3,
   wait_killed |-> FALSE]

\* An empty slot, the structure free_process leaves in the slot of a reaped
\* process (its pid is 0), and that of a new process
NoProcess == [state |-> "None", pid |-> None, ppid |-> None, tid |-> None,
              page_table |-> None, killed |-> FALSE]
FreedProcess == [state |-> "Unused", pid |-> 0, ppid |-> None, tid |-> None,
                 page_table |-> None, killed |-> FALSE]
SharesPageTable(pid, ppid, tid) ==   \* mutant: the child runs on its parent's table
  [state |-> "Alive", pid |-> pid, ppid |-> ppid, tid |-> tid,
   page_table |-> <<IF ppid = None THEN pid ELSE ppid, 0>>, killed |-> FALSE]
NewProcess(pid, ppid, tid) ==
  [state |-> "Alive", pid |-> pid, ppid |-> ppid, tid |-> tid,
   page_table |-> <<pid, 0>>, killed |-> FALSE]

\* Reasons why nothing runs any more; all but the last four are assertions or
\* expectations of the kernel about itself.
SelfChecks == {"not running", "no page table", "idle"}
Stops == SelfChecks \cup {"exit returned", "exec panic", "fault", "spin"}

Thread == [state: ThreadState, pid: Pid \cup {None}, at: Place,
           rsp3: Tid \cup {None}, wait_killed: BOOLEAN]
Process == [state: ProcessState, pid: Pid \cup {None},
            ppid: Pid \cup {None}, tid: Tid \cup {None},
            page_table: PageTable \cup {None}, killed: BOOLEAN]

\* The type invariant: every variable holds values of the source's types.
TypeOK ==
  /\ threads \in [Tid -> Thread]
  /\ procs \in [Pid -> Process]
  /\ cpu \in [current_tid: Tid \cup {None}, saved_user_rsp: Tid \cup {None}]
  /\ cr3 \in PageTable \cup {KernelTable}
  /\ kernelGs \in BOOLEAN
  /\ mode \in {"scheduler", "run"} \cup Stops
  /\ timerExits \in BOOLEAN

Current == cpu.current_tid
CurrentPid == threads[Current].pid
CurrentProcess == procs[CurrentPid]

\* The running thread is at place x: the processor executes its code.
At(x) == mode = "run" /\ threads[Current].at = x
AtSome(X) == mode = "run" /\ threads[Current].at \in X

\* next_tid: the first unused slot, the last slot of the table never considered
NextTid(t) == /\ t \in 0 .. NTHREAD-2
              /\ threads[t].state = "Unused"
              /\ \A u \in 0 .. t-1 : threads[u].state # "Unused"
NoTid == \A t \in 0 .. NTHREAD-2 : threads[t].state # "Unused"

\* next_pid: the first slot that holds no process structure at all
NextPid(p) == /\ p \in Scanned
              /\ procs[p].state = "None"
              /\ \A q \in 0 .. p-1 : procs[q].state # "None"
NoPid == \A p \in Scanned : procs[p].state # "None"

=============================================================================
