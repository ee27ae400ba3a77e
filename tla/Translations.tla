---------------------------- MODULE Translations ----------------------------
(***************************************************************************)
(* UserMemory with the processor that runs the processes: the active page  *)
(* table and the translations that the processor has cached. A write to CR3*)
(* clears them (no page of a user is global), and nothing else in the code *)
(* does for a user's page. The kernel itself reaches frames through its own*)
(* mapping of all memory only.                                             *)
(***************************************************************************)
EXTENDS UserMemory

CONSTANT Nobody    \* the kernel's page table is active

ASSUME NobodyAssumption == Nobody \notin Pid

VARIABLES cur,     \* whose page table is active
          tlb,     \* the cached translation that is followed, <<page, frame>>
          shrunk   \* ghost: has a heap shrunk since CR3 was written?

trans == <<cur, tlb, shrunk>>

LoadCr3(p) == cur' = p /\ tlb' = {} /\ shrunk' = FALSE
SameCr3 == UNCHANGED trans

\* The scheduler gives the processor to a process; a process gives it back.
Switch(p) ==
  /\ cur = Nobody /\ Running(p)
  /\ LoadCr3(p)
  /\ UNCHANGED vars
Yield ==
  /\ cur # Nobody /\ ~halted
  /\ LoadCr3(Nobody)
  /\ UNCHANGED vars

\* The process touches a page, and the processor keeps what it has found. No
\* translation has an effect on another or on a step, so following any one of
\* those that are cached, or none, stands for all of them.
Access(q) ==
  /\ cur # Nobody /\ ~halted
  /\ Leaf(q) \in DOMAIN space[cur] /\ tlb = {}
  /\ tlb' = {<<q, space[cur][Leaf(q)]>>}
  /\ UNCHANGED <<cur, shrunk, vars>>

\* The system calls of the process that runs
CallFork == (\E c \in Pid : Fork(cur, c) \/ ForkFails(cur, c)) /\ SameCr3
ExecKeepsCr3 == Exec(cur) /\ SameCr3   \* mutant: commit_exec does not write CR3
CallExec == Exec(cur) /\ LoadCr3(cur)
CallExecFails == ExecFails(cur) /\ SameCr3
CallSbrk == (\E n \in 1 .. MaxSbrk : SbrkGrow(cur, n)) /\ SameCr3
CallSbrkShrink ==
  /\ \E n \in 1 .. MaxSbrk : SbrkShrink(cur, n)
  /\ shrunk' = TRUE /\ UNCHANGED <<cur, tlb>>
CallSbrkOverflows == SbrkOverflows(cur) /\ SameCr3
CallExit == Exit(cur) /\ LoadCr3(Nobody)
CallWait == (\E c \in Pid : c # cur /\ Reap(c)) /\ SameCr3

TransInit == Init /\ cur = Nobody /\ tlb = {} /\ shrunk = FALSE

TransNext ==
  \/ \E p \in Pid : Switch(p)
  \/ Yield
  \/ \E q \in Page : Access(q)
  \/ /\ cur # Nobody
     /\ \/ CallFork \/ CallExec \/ CallExecFails \/ CallSbrk \/ CallSbrkShrink
        \/ CallSbrkOverflows \/ CallExit \/ CallWait

TransSpec == TransInit /\ [][TransNext]_<<vars, trans>>

-----------------------------------------------------------------------------
(* Properties                                                              *)

TransTypeOK ==
  /\ cur \in Pid \cup {Nobody}
  /\ tlb \in SUBSET (Page \X Frame)
  /\ cur # Nobody => stage[cur] = "alive"

\* What a cached translation leads to is what the page table says.
Coherent ==
  \A e \in tlb : Leaf(e[1]) \in DOMAIN space[cur] /\ space[cur][Leaf(e[1])] = e[2]

\* A process reaches a frame that is not its own only between a shrink of its
\* heap, which flushes nothing (memory/umem.rs:245), and the next write to CR3:
\* not by an exec, by a growth that is rolled back, or by what others free.
StaleAfterShrinkOnly == shrunk \/ Coherent

\* No process runs on a page table whose root has been given back, the contract
\* of free_uvm (memory/umem.rs:275), though wait frees while others run.
ActiveIsOwned ==
  cur # Nobody => /\ Root \in DOMAIN space[cur]
                  /\ \A u \in DOMAIN space[cur] : space[cur][u] \notin Range(free)

\* What must be true of memory at all times: every frame has one owner, whoever
\* grows, fails, forks, exits or is reaped; free_uvm's walk finds all that is
\* mapped; the pages that sbrk adds begin at the break; and the page table in use
\* is nobody else's.
MemoryInv ==
  TypeOK /\ TransTypeOK /\ SingleOwner /\ Reachable /\ BreakStays /\ ActiveIsOwned
=============================================================================
