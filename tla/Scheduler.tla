----------------------------- MODULE Scheduler ------------------------------
(***************************************************************************)
(* The round-robin scheduler: the scheduler loop, and the two ways in which*)
(* a thread gives the processor back to it.                                *)
(***************************************************************************)
EXTENDS Tables

\* How many slots after a the cyclic scan visits b, the slot itself last
VisitsItselfFirst(a, b) ==   \* mutant: the scan starts at the current slot
  IF b >= a THEN b - a ELSE b - a + NTHREAD
Distance(a, b) == IF b > a THEN b - a ELSE b - a + NTHREAD
ScanFrom == IF Current = None THEN NTHREAD - 1 ELSE Current

Runnable(t) == threads[t].state = "Runnable"

LowestRunnable(t) ==   \* mutant: every scan starts at slot 0
  /\ t \in Tid \ {Current}
  /\ Runnable(t)
  /\ \A u \in Tid \ {Current} : Runnable(u) => t <= u
\* find_next_runnable_thread: the runnable thread that the scan meets first
NextRunnable(t) ==
  /\ t \in Tid
  /\ Runnable(t)
  /\ \A u \in Tid : Runnable(u) => Distance(ScanFrom, t) <= Distance(ScanFrom, u)

\* The thread states after the choice of t, in the order of the source: t is
\* marked Running before the previous thread, still Running if it yielded from
\* a system call, goes back to Runnable.
AfterChoice(t) ==
  LET chosen == [threads EXCEPT ![t].state = "Running"]
  IN  IF Current # None /\ chosen[Current].state = "Running"
        THEN [chosen EXCEPT ![Current].state = "Runnable"]
        ELSE chosen

\* The page table that t runs on; the source expects a process to have one.
TableOf(t) ==
  IF threads[t].pid = None THEN KernelTable ELSE procs[threads[t].pid].page_table
NoTable(t) == threads[t].pid # None /\ procs[threads[t].pid].page_table = None

\* One turn of the scheduler's loop. A thread suspended by on_syscall_yield
\* executes its second swapgs as soon as it is switched to.
SwitchWithoutSwapgs(t) ==   \* mutant: no swapgs after the switch back
  /\ threads' = AfterChoice(t)
  /\ IF NoTable(t)
       THEN /\ mode' = "no page table"
            /\ UNCHANGED <<cpu, cr3, kernelGs>>
       ELSE /\ mode' = "run"
            /\ cpu' = [current_tid |-> t, saved_user_rsp |-> threads[t].rsp3]
            /\ cr3' = TableOf(t)
            /\ UNCHANGED kernelGs
SwitchTo(t) ==
  /\ threads' = AfterChoice(t)
  /\ IF NoTable(t)
       THEN /\ mode' = "no page table"
            /\ UNCHANGED <<cpu, cr3, kernelGs>>
       ELSE /\ mode' = "run"
            /\ cpu' = [current_tid |-> t, saved_user_rsp |-> threads[t].rsp3]
            /\ cr3' = TableOf(t)
            /\ kernelGs' = IF threads[t].at = "wait" THEN ~kernelGs ELSE kernelGs

Dispatch ==
  /\ mode = "scheduler"
  /\ UNCHANGED <<procs, timerExits>>
  /\ IF \E t \in Tid : Runnable(t)
       THEN \E t \in Tid : NextRunnable(t) /\ SwitchTo(t)
       ELSE mode' = "idle" /\ UNCHANGED <<threads, cpu, cr3, kernelGs>>

\* on_yield, from the timer handler: the thread goes on in that handler.
OnYield(place) ==
  /\ cr3' = KernelTable
  /\ UNCHANGED <<cpu, kernelGs>>
  /\ IF threads[Current].state # "Running"
       THEN mode' = "not running" /\ UNCHANGED threads
       ELSE /\ mode' = "scheduler"
            /\ threads' = [threads EXCEPT ![Current].state = "Runnable",
                                          ![Current].at = place]

\* on_syscall_yield, with the thread table as its caller has changed it: the
\* state is left alone, the user RSP saved, and the first swapgs executed.
YieldKeepsRsp(table, place) ==   \* mutant: the user RSP is not saved
  /\ cr3' = KernelTable
  /\ threads' = [table EXCEPT ![Current].at = place]
  /\ kernelGs' = ~kernelGs
  /\ mode' = "scheduler"
  /\ UNCHANGED cpu
OnSyscallYield(table, place) ==
  /\ cr3' = KernelTable
  /\ threads' = [table EXCEPT ![Current].rsp3 = cpu.saved_user_rsp,
                              ![Current].at = place]
  /\ kernelGs' = ~kernelGs
  /\ mode' = "scheduler"
  /\ UNCHANGED cpu

=============================================================================
