----------------------------- MODULE Processes ------------------------------
(***************************************************************************)
(* The system calls that create, replace, end, reap and mark processes. A  *)
(* system call runs with interrupts off: it is one action, up to the place *)
(* where it yields.                                                        *)
(***************************************************************************)
EXTENDS Scheduler

\* A handler that runs to its end leaves the thread at the return path.
Return(table) == threads' = [table EXCEPT ![Current].at = "sysret"]

\* The handler stops the whole kernel: a panic inside a system call
Panic(reason) ==
  mode' = reason /\ UNCHANGED <<threads, procs, cpu, cr3, kernelGs>>

\* fork: the pid is chosen first, then the tid; the child starts where its
\* parent's system call returns, on the parent's user RSP.
Fork ==
  \E p \in Pid, t \in Tid :
    /\ NextPid(p) /\ NextTid(t)
    /\ Return([threads EXCEPT ![t] = NewThread(p, "Runnable", cpu.saved_user_rsp)])
    /\ procs' = [procs EXCEPT ![p] = NewProcess(p, CurrentPid, t)]
    /\ UNCHANGED <<cpu, cr3, kernelGs, mode>>

\* fork whose copy_uvm runs out of frames: alloc_proc has already put the
\* child's thread into the table, and nothing takes it out.
ForkCopyFails ==
  \E p \in Pid, t \in Tid :
    /\ NextPid(p) /\ NextTid(t)
    /\ Return([threads EXCEPT ![t] = NewThread(p, "Embryo", t)])
    /\ UNCHANGED <<procs, cpu, cr3, kernelGs, mode>>

ForkTableFull ==
  /\ NoPid \/ NoTid
  /\ Return(threads)
  /\ UNCHANGED <<procs, cpu, cr3, kernelGs, mode>>

\* commit_exec: a new address space and a new user stack, effective at once.
ExecKeepsCr3 ==   \* mutant: the new page table is not activated
  LET n == CurrentProcess.page_table[2] + 1
  IN  /\ n <= MaxExec
      /\ procs' = [procs EXCEPT ![CurrentPid].page_table = <<CurrentPid, n>>]
      /\ Return([threads EXCEPT ![Current].rsp3 = Current])
      /\ cpu' = [cpu EXCEPT !.saved_user_rsp = Current]
      /\ UNCHANGED <<cr3, kernelGs, mode>>
Exec ==
  LET n == CurrentProcess.page_table[2] + 1
  IN  /\ n <= MaxExec
      /\ procs' = [procs EXCEPT ![CurrentPid].page_table = <<CurrentPid, n>>]
      /\ Return([threads EXCEPT ![Current].rsp3 = Current])
      /\ cpu' = [cpu EXCEPT !.saved_user_rsp = Current]
      /\ cr3' = <<CurrentPid, n>>
      /\ UNCHANGED <<kernelGs, mode>>

\* exit: Zombie on both tables, then to the scheduler for good. For init the
\* function returns an error, and its caller panics.
Exit ==
  LET t == CurrentProcess.tid
      zombie == IF threads[t].pid = CurrentPid
                  THEN [threads EXCEPT ![t].state = "Zombie"] ELSE threads
  IN  IF CurrentPid = INIT_PID
        THEN Panic("exit returned")
        ELSE /\ procs' = [procs EXCEPT ![CurrentPid].state = "Zombie"]
             /\ OnSyscallYield(zombie, "dead")

ReapsAnyone == Scanned \ {CurrentPid}   \* mutant: ppid is not compared
Children == {p \in Scanned : procs[p].ppid = CurrentPid}
MissesLastSlot ==   \* mutant: the scan for a zombie stops one slot early
  {p \in Children : p < NPROCESS-2 /\ procs[p].state = "Zombie"}
ZombieChildren == {p \in Children : procs[p].state = "Zombie"}

\* wait takes the process out of its slot, and free_process resets its thread
\* and its page table and puts an unused structure back; when one of its
\* checks fails the slot stays empty.
Reap(p) ==
  LET t == procs[p].tid
      owned == threads[t].pid = procs[p].pid
  IN  /\ Return(IF owned THEN [threads EXCEPT ![t] = NoThread] ELSE threads)
      /\ procs' = [procs EXCEPT ![p] =
                     IF owned /\ procs[p].page_table # cr3
                       THEN FreedProcess ELSE NoProcess]

\* One turn of wait's loop; "killed" is the flag as it was at the call.
WaitLoop(killed) ==
  \/ \E p \in ZombieChildren :
       /\ \A q \in ZombieChildren : p <= q
       /\ Reap(p)
       /\ UNCHANGED <<cpu, cr3, kernelGs, mode>>
  \/ /\ ZombieChildren = {}
     /\ Children = {} \/ killed
     /\ Return(threads)
     /\ UNCHANGED <<procs, cpu, cr3, kernelGs, mode>>
  \/ /\ ZombieChildren = {} /\ Children # {} /\ ~killed
     /\ OnSyscallYield([threads EXCEPT ![Current].wait_killed = killed], "wait")
     /\ UNCHANGED procs

\* kill: the first slot whose structure carries the pid is marked.
HasPid(i, p) == procs[i].pid = p
Kill(p) ==
  /\ Return(threads)
  /\ \/ \E i \in Scanned : /\ HasPid(i, p)
                           /\ \A j \in 0 .. i-1 : ~HasPid(j, p)
                           /\ procs' = [procs EXCEPT ![i].killed = TRUE]
     \/ (\A i \in Scanned : ~HasPid(i, p)) /\ UNCHANGED procs
  /\ UNCHANGED <<cpu, cr3, kernelGs, mode>>

=============================================================================
