---------------------------- MODULE KernelProofs ----------------------------
(***************************************************************************)
(* Proofs about Kernel, for every size of the two tables and every bound on*)
(* execs: IInv is inductive; the safety invariants and round-robin follow; *)
(* Kernel implements Lifecycle; and with KernelStacks, every thread has a  *)
(* kernel stack of its own, and all of the above.                          *)
(***************************************************************************)
EXTENDS KernelStacks, FiniteSetTheorems, TLAPS

-----------------------------------------------------------------------------
(* Updates of one thread keep the type of the thread table.                *)

\* A thread whose state is set is still a thread (the scheduler, exit).
LEMMA SetState ==
  ASSUME NEW f \in [Tid -> Thread], NEW t \in Tid, NEW s \in ThreadState
  PROVE  [f EXCEPT ![t].state = s] \in [Tid -> Thread]
BY DEF Thread

\* A thread that moves to another place is still a thread.
LEMMA SetPlace ==
  ASSUME NEW f \in [Tid -> Thread], NEW t \in Tid, NEW place \in Place
  PROVE  [f EXCEPT ![t].at = place] \in [Tid -> Thread]
BY DEF Thread

\* A thread that stores wait's copy of the flag is still a thread.
LEMMA SetSnapshot ==
  ASSUME NEW f \in [Tid -> Thread], NEW t \in Tid, NEW b \in BOOLEAN
  PROVE  [f EXCEPT ![t].wait_killed = b] \in [Tid -> Thread]
BY DEF Thread

\* on_yield sets the state and the place of one thread.
LEMMA SetStatePlace ==
  ASSUME NEW f \in [Tid -> Thread], NEW t \in Tid, NEW s \in ThreadState,
         NEW place \in Place
  PROVE  [f EXCEPT ![t].state = s, ![t].at = place] \in [Tid -> Thread]
<1>1. [[f[t] EXCEPT !.state = s] EXCEPT !.at = place] \in Thread
  BY DEF Thread
<1>2. [f EXCEPT ![t].state = s, ![t].at = place]
        = [f EXCEPT ![t] = [[f[t] EXCEPT !.state = s] EXCEPT !.at = place]]
  OBVIOUS
<1>3. QED
  BY <1>1, <1>2

\* on_syscall_yield sets the stack pointer and the place of one thread.
LEMMA SetRspPlace ==
  ASSUME NEW f \in [Tid -> Thread], NEW t \in Tid, NEW r \in Tid \cup {None},
         NEW place \in Place
  PROVE  [f EXCEPT ![t].rsp3 = r, ![t].at = place] \in [Tid -> Thread]
<1>1. [[f[t] EXCEPT !.rsp3 = r] EXCEPT !.at = place] \in Thread
  BY DEF Thread
<1>2. [f EXCEPT ![t].rsp3 = r, ![t].at = place]
        = [f EXCEPT ![t] = [[f[t] EXCEPT !.rsp3 = r] EXCEPT !.at = place]]
  OBVIOUS
<1>3. QED
  BY <1>1, <1>2

\* The values of Tick and Under.
LEMMA UnderTick ==
  /\ Under("tick_start") = "start" /\ Under("tick_user") = "user"
  /\ Under("tick_kernel") = "kernel"
  /\ Tick("start") = "tick_start" /\ Tick("user") = "tick_user"
  /\ Tick("kernel") = "tick_kernel"
BY DEF Under, Tick

-----------------------------------------------------------------------------
(* Who runs                                                                *)

\* Whoever has the processor is a Running thread, and unless it is the
\* keyboard's it owns a live process whose page table is active.
LEMMA CurrentThread ==
  ASSUME IInv, mode = "run"
  PROVE  /\ Current \in Tid
         /\ threads[Current].state = "Running"
         /\ CurrentPid \in Pid \cup {None}
         /\ CurrentPid # None =>
              /\ CurrentPid \in Pid
              /\ CurrentProcess.state = "Alive"
              /\ CurrentProcess.tid = Current
              /\ CurrentProcess.page_table = cr3
<1> USE DEF IInv
<1>1. Current \in Tid
  BY DEF TypeOK, Current
<1>2. threads[Current].state = "Running"
  BY DEF OneRunning
<1>3. CurrentPid \in Pid \cup {None}
  BY <1>1 DEF TypeOK, Thread, CurrentPid
<1>4. CurrentPid # None =>
        CurrentPid \in Pid /\ CurrentProcess.tid = Current
  BY <1>1, <1>2, <1>3 DEF TablesAgree, CurrentPid, CurrentProcess
<1>5. CurrentPid # None =>
        CurrentProcess.state = "Alive" /\ CurrentProcess.page_table = cr3
  BY DEF OwnAddressSpace
<1>6. QED
  BY <1>1, <1>2, <1>3, <1>4, <1>5

\* Only the keyboard thread has no process, so a system call always has one.
LEMMA CallerProcess ==
  ASSUME IInv, mode = "run",
         threads[Current].at \notin KernelPlaces
  PROVE  CurrentPid # None
BY CurrentThread
   DEF IInv, Places, Placed, Suspended, KernelPlaces, Schedulable, CurrentPid

-----------------------------------------------------------------------------
(* One lemma per kind of step: it preserves the inductive invariant.       *)

\* The places inside a system call
CallPlaces == {"syscall", "wait", "sysret"}

\* The steps after which the running thread is at another place, and in which
\* nothing else changes but killed flags, the CPU's stack slot and GS: trampolines,
\* iretq, syscall entry and return, and the system calls that only return.
LEMMA MoveInv ==
  ASSUME IInv, mode = "run", mode' = "run",
         NEW place \in Place \ {"none", "dead"},
         threads' = [threads EXCEPT ![Current].at = place],
         CurrentPid = None => place \in KernelPlaces,
         CurrentPid # None => place \notin {"kernel", "tick_kernel"},
         procs' \in [Pid -> Process],
         \A p \in Pid : /\ procs'[p].state = procs[p].state
                        /\ procs'[p].pid = procs[p].pid
                        /\ procs'[p].tid = procs[p].tid
                        /\ procs'[p].page_table = procs[p].page_table,
         cpu' \in [current_tid: Tid \cup {None}, saved_user_rsp: Tid \cup {None}],
         Current' = Current,
         place \in CallPlaces => cpu'.saved_user_rsp = Current,
         kernelGs' = (IF place \in CallPlaces THEN ~timerExits ELSE timerExits),
         UNCHANGED <<cr3, timerExits>>
  PROVE  IInv'
<1> USE DEF IInv
<1>1. Current \in Tid
  BY NoneAssumption DEF TypeOK, Current
<1>2. \A t \in Tid : /\ threads'[t].state = threads[t].state
                     /\ threads'[t].pid = threads[t].pid
                     /\ threads'[t].rsp3 = threads[t].rsp3
                     /\ threads'[t].wait_killed = threads[t].wait_killed
                     /\ threads'[t].at = IF t = Current THEN place ELSE threads[t].at
  BY <1>1 DEF TypeOK, Thread
<1>3. TypeOK'
  BY <1>1 DEF TypeOK, Thread
<1>4. SelfChecksHold'
  BY DEF SelfChecksHold, SelfChecks
<1>5. OneRunning'
  BY <1>1, <1>2 DEF OneRunning, Tid
<1>6. TablesAgree'
  <2>1. (\A p \in Pid : procs[p].state \in {"Alive", "Zombie"} =>
          procs[p].tid \in Tid /\ Matches(p, procs[p].tid))'
    BY <1>2 DEF TablesAgree, Matches
  <2>2. \A t \in Tid : threads[t].pid # None => threads[t].pid \in Pid
    BY DEF TypeOK, Thread
  <2>3. QED
    BY <1>2, <2>1, <2>2 DEF TablesAgree
<1>7. KeyboardReady'
  BY <1>2, SizesAssumption DEF KeyboardReady, Schedulable, KeyboardTid, Tid
<1>8. OwnTable' /\ InitLives'
  BY SizesAssumption DEF OwnTable, InitLives, INIT_PID, Pid
<1>9. Places'
  BY <1>1, <1>2
     DEF Places, Placed, Suspended, KernelPlaces, Schedulable, HasProcessor,
         CurrentPid, Current
<1>10. SlotIsOwn' /\ GsByParity'
  BY <1>1, <1>2 DEF SlotIsOwn, GsByParity, InKernelCall, AtSome, CallPlaces
<1>11. OwnAddressSpace'
  <2>1. CurrentPid' = CurrentPid /\ (CurrentPid # None => CurrentPid \in Pid)
    BY <1>1, <1>2 DEF TypeOK, Thread, CurrentPid
  <2>2. QED
    BY <2>1 DEF OwnAddressSpace, CurrentProcess
<1>12. WaitTestIsDead'
  BY <1>1, <1>2 DEF WaitTestIsDead
<1>13. QED
  BY <1>1, <1>3, <1>4, <1>5, <1>6, <1>7, <1>8, <1>9, <1>10, <1>11, <1>12,
     NoneAssumption

\* A panic, a fault or a spin leaves both tables as they were.
LEMMA StopInv ==
  ASSUME IInv, mode' \in Stops \ SelfChecks,
         UNCHANGED <<threads, procs, cpu, cr3>>,
         kernelGs' \in BOOLEAN, timerExits' \in BOOLEAN
  PROVE  IInv'
<1> USE DEF IInv
<1>0. mode' # "run" /\ mode' # "scheduler" /\ Current' = Current
  BY DEF Stops, SelfChecks, Current
<1>1. TypeOK'
  BY DEF TypeOK
<1>2. SelfChecksHold'
  BY DEF SelfChecksHold
<1>3. OneRunning' /\ TablesAgree' /\ WaitTestIsDead' /\ KeyboardReady' /\ OwnTable'
       /\ InitLives'
  BY <1>0 DEF OneRunning, TablesAgree, Matches, WaitTestIsDead, KeyboardReady,
              OwnTable, Schedulable, InitLives
<1>4. Places' /\ SlotIsOwn' /\ OwnAddressSpace' /\ GsByParity'
  BY <1>0
     DEF Places, Placed, Suspended, KernelPlaces, SlotIsOwn, OwnAddressSpace,
         GsByParity, Schedulable,
              HasProcessor, InKernelCall, AtSome
<1>5. QED
  BY <1>0, <1>1, <1>2, <1>3, <1>4

\* on_yield: the timer hands the processor back, in the handler.
LEMMA TimerYieldInv ==
  ASSUME IInv, mode = "run", ~InKernelCall,
         NEW place \in Ticks,
         CurrentPid = None => place # "tick_user",
         CurrentPid # None => place # "tick_kernel",
         OnYield(place),
         UNCHANGED <<procs, timerExits>>
  PROVE  IInv'
<1> USE DEF IInv
<1>0. /\ Current \in Tid /\ Current' = Current
      /\ threads[Current].state = "Running"
      /\ mode' = "scheduler" /\ cr3' = KernelTable
      /\ threads' = [threads EXCEPT ![Current].state = "Runnable",
                                    ![Current].at = place]
      /\ UNCHANGED <<cpu, kernelGs>>
  BY CurrentThread DEF OnYield, Current
<1>1. \A t \in Tid : /\ t # Current => threads'[t] = threads[t]
                     /\ threads'[t].pid = threads[t].pid
                     /\ threads'[t].wait_killed = threads[t].wait_killed
  BY <1>0 DEF TypeOK, Thread
<1>2. threads'[Current].state = "Runnable" /\ threads'[Current].at = place
  BY <1>0 DEF TypeOK, Thread
<1>3. TypeOK'
  <2>1. threads' \in [Tid -> Thread]
    BY <1>0, SetStatePlace DEF TypeOK, Place, ThreadState
  <2>2. QED
    BY <1>0, <2>1 DEF TypeOK
<1>4. SelfChecksHold'
  BY <1>0 DEF SelfChecksHold, SelfChecks
<1>5. OneRunning'
  BY <1>0, <1>1, <1>2 DEF OneRunning
<1>6. TablesAgree'
  <2>1. (\A p \in Pid : procs[p].state \in {"Alive", "Zombie"} =>
          procs[p].tid \in Tid /\ Matches(p, procs[p].tid))'
    BY <1>1, <1>2, CurrentThread DEF TablesAgree, Matches
  <2>2. \A t \in Tid : threads[t].pid # None => threads[t].pid \in Pid
    BY DEF TypeOK, Thread
  <2>3. QED
    BY <1>1, <1>2, <2>1, <2>2, CurrentThread DEF TablesAgree
<1>7. KeyboardReady'
  <2>1. KeyboardTid \in Tid
    BY SizesAssumption DEF KeyboardTid, Tid
  <2>2. \A t \in Tid : Schedulable(t)' <=> Schedulable(t)
    BY <1>0, <1>1, <1>2 DEF Schedulable
  <2>3. QED
    BY <1>1, <2>1, <2>2 DEF KeyboardReady
<1>8. /\ OwnTable' /\ InitLives' /\ WaitTestIsDead' /\ OwnAddressSpace'
      /\ SlotIsOwn' /\ GsByParity'
  BY <1>0, <1>1
     DEF OwnTable, InitLives, WaitTestIsDead, OwnAddressSpace, SlotIsOwn,
         GsByParity,
                    InKernelCall, AtSome
<1>9. Places'
  <2> SUFFICES ASSUME NEW t \in Tid, Schedulable(t)'
               PROVE  Placed(t)'
    BY DEF Places
  <2>1. CASE t = Current
    BY <1>1, <1>2, <2>1 DEF Ticks, CurrentPid, Placed, Suspended, KernelPlaces
  <2>2. CASE t # Current
    BY <1>0, <1>1, <2>2
       DEF Places, Placed, Suspended, KernelPlaces, Schedulable, HasProcessor
  <2>3. QED
    BY <2>1, <2>2
<1>10. QED
  BY <1>0, <1>3, <1>4, <1>5, <1>6, <1>7, <1>8, <1>9

\* on_syscall_yield from wait: the thread stays Running in the table.
LEMMA WaitYieldInv ==
  ASSUME IInv, InKernelCall,
         OnSyscallYield([threads EXCEPT ![Current].wait_killed = FALSE], "wait"),
         UNCHANGED <<procs, timerExits>>
  PROVE  IInv'
<1> USE DEF IInv
<1>0. /\ Current \in Tid /\ Current' = Current /\ mode = "run"
      /\ mode' = "scheduler" /\ cr3' = KernelTable
      /\ UNCHANGED cpu
      /\ kernelGs' = ~kernelGs
  BY CurrentThread DEF OnSyscallYield, Current, InKernelCall, AtSome
<1>caller. CurrentPid # None /\ cpu.saved_user_rsp = Current
  BY <1>0, CurrentThread
     DEF Places, Placed, Suspended, KernelPlaces, InKernelCall, AtSome,
         Schedulable, CurrentPid, SlotIsOwn
<1>1. \A t \in Tid : /\ t # Current => threads'[t] = threads[t]
                     /\ threads'[t].pid = threads[t].pid
                     /\ threads'[t].state = threads[t].state
  BY <1>0 DEF TypeOK, Thread, OnSyscallYield
<1>2. /\ threads'[Current].rsp3 = Current /\ threads'[Current].at = "wait"
      /\ threads'[Current].wait_killed = FALSE
  BY <1>0, <1>caller DEF TypeOK, Thread, OnSyscallYield
<1>3. TypeOK'
  <2>1. threads' \in [Tid -> Thread]
    <3>1. [threads EXCEPT ![Current].wait_killed = FALSE] \in [Tid -> Thread]
      BY <1>0, SetSnapshot DEF TypeOK
    <3>2. cpu.saved_user_rsp \in Tid \cup {None}
      BY DEF TypeOK
    <3>3. QED
      BY <1>0, <3>1, <3>2, SetRspPlace DEF Place, OnSyscallYield
  <2>2. QED
    BY <1>0, <2>1 DEF TypeOK
<1>4. SelfChecksHold'
  BY <1>0 DEF SelfChecksHold, SelfChecks
<1>5. OneRunning'
  BY <1>0, <1>1, <1>2 DEF OneRunning
<1>6. TablesAgree'
  <2>1. (\A p \in Pid : procs[p].state \in {"Alive", "Zombie"} =>
          procs[p].tid \in Tid /\ Matches(p, procs[p].tid))'
    BY <1>1 DEF TablesAgree, Matches
  <2>2. \A t \in Tid : threads[t].pid # None => threads[t].pid \in Pid
    BY DEF TypeOK, Thread
  <2>3. QED
    BY <1>1, <2>1, <2>2 DEF TablesAgree
<1>7. KeyboardReady'
  BY <1>0, <1>1, SizesAssumption DEF KeyboardReady, Schedulable, KeyboardTid, Tid
<1>8. OwnTable' /\ InitLives' /\ WaitTestIsDead' /\ OwnAddressSpace' /\ SlotIsOwn'
  BY <1>0, <1>1, <1>2
     DEF OwnTable, InitLives, WaitTestIsDead, OwnAddressSpace, SlotIsOwn,
         InKernelCall, AtSome
<1>9. GsByParity'
  BY <1>0 DEF GsByParity, InKernelCall, AtSome, TypeOK
<1>10. Places'
  BY <1>0, <1>caller, <1>1, <1>2, CurrentThread
     DEF Places, Placed, Suspended, KernelPlaces, Schedulable, HasProcessor,
         CurrentPid
<1>11. QED
  BY <1>0, <1>3, <1>4, <1>5, <1>6, <1>7, <1>8, <1>9, <1>10

\* exit, from a system call or from the timer: thread and process become
\* zombies together, and GS is reversed (without a match, from the timer).
LEMMA ExitInv ==
  ASSUME IInv, mode = "run", CurrentPid # None, Exit,
         timerExits' = (IF InKernelCall THEN timerExits ELSE ~timerExits)
  PROVE  IInv'
<1> USE DEF IInv
<1>1. CASE CurrentPid = INIT_PID
  <2>1. mode' = "exit returned" /\ UNCHANGED <<threads, procs, cpu, cr3, kernelGs>>
    BY <1>1 DEF Exit, Panic
  <2>2. QED
    BY <2>1, StopInv DEF Stops, SelfChecks, TypeOK
<1>2. CASE CurrentPid # INIT_PID
  <2> DEFINE p == CurrentPid
             c == Current
  <2>0. /\ c \in Tid /\ p \in Pid /\ c' = c
        /\ procs[p].state = "Alive" /\ procs[p].tid = c /\ threads[c].pid = p
        /\ threads[c].state = "Running"
        /\ procs' = [procs EXCEPT ![p].state = "Zombie"]
        /\ OnSyscallYield([threads EXCEPT ![c].state = "Zombie"], "dead")
    BY <1>2, CurrentThread
       DEF Exit, OnSyscallYield, Current, CurrentProcess, CurrentPid
  <2>1. /\ mode' = "scheduler" /\ cr3' = KernelTable /\ kernelGs' = ~kernelGs
        /\ UNCHANGED cpu
    BY <2>0 DEF OnSyscallYield
  <2>2. \A t \in Tid : /\ t # c => threads'[t] = threads[t]
                       /\ threads'[t].pid = threads[t].pid
                       /\ threads'[t].wait_killed = threads[t].wait_killed
    BY <2>0 DEF TypeOK, Thread, OnSyscallYield
  <2>3. threads'[c].state = "Zombie"
    BY <2>0 DEF TypeOK, Thread, OnSyscallYield
  <2>4. \A q \in Pid : /\ q # p => procs'[q] = procs[q]
                       /\ procs'[q].pid = procs[q].pid
                       /\ procs'[q].tid = procs[q].tid
                       /\ procs'[q].page_table = procs[q].page_table
    BY <2>0 DEF TypeOK, Process
  <2>5. procs'[p].state = "Zombie"
    BY <2>0 DEF TypeOK, Process
  <2>6. TypeOK'
    <3>1. [threads EXCEPT ![c].state = "Zombie"] \in [Tid -> Thread]
      BY <2>0, SetState DEF TypeOK, ThreadState
    <3>2. cpu.saved_user_rsp \in Tid \cup {None}
      BY DEF TypeOK
    <3>3. threads' \in [Tid -> Thread]
      <4>1. "dead" \in Place
        BY DEF Place
      <4>2. threads' = [[threads EXCEPT ![c].state = "Zombie"]
                          EXCEPT ![c].rsp3 = cpu.saved_user_rsp, ![c].at = "dead"]
        BY <2>0 DEF OnSyscallYield
      <4>3. c \in Tid
        BY <2>0
      <4> HIDE DEF c
      <4>4. QED
        BY <3>1, <3>2, <4>1, <4>2, <4>3, SetRspPlace
    <3>4. procs' \in [Pid -> Process]
      BY <2>0 DEF TypeOK, Process, ProcessState
    <3>5. QED
      BY <2>1, <3>3, <3>4 DEF TypeOK
  <2>7. SelfChecksHold' /\ OneRunning' /\ WaitTestIsDead'
    BY <2>0, <2>1, <2>2, <2>3
       DEF SelfChecksHold, SelfChecks, OneRunning, WaitTestIsDead
  <2>8. TablesAgree'
    <3>1. (\A q \in Pid : procs[q].state \in {"Alive", "Zombie"} =>
             procs[q].tid \in Tid /\ Matches(q, procs[q].tid))'
      BY <2>0, <2>2, <2>3, <2>4, <2>5 DEF TablesAgree, Matches
    <3>2. \A t \in Tid : threads[t].pid # None => threads[t].pid \in Pid
      BY DEF TypeOK, Thread
    <3>3. QED
      BY <2>0, <2>2, <2>3, <2>4, <2>5, <3>1, <3>2 DEF TablesAgree
  <2>9. KeyboardReady'
    <3>1. KeyboardTid \in Tid /\ KeyboardTid # c
      BY <2>0, SizesAssumption DEF KeyboardReady, KeyboardTid, Tid
    <3>2. QED
      BY <2>2, <2>3, <3>1 DEF KeyboardReady, Schedulable
  <2>10. OwnTable' /\ InitLives'
    BY <1>2, <2>0, <2>4, <2>5 DEF OwnTable, InitLives
  <2>11. Places'
    BY <2>1, <2>2, <2>3
       DEF Places, Placed, Suspended, KernelPlaces, Schedulable, HasProcessor
  <2>12. SlotIsOwn' /\ OwnAddressSpace'
    BY <2>1 DEF SlotIsOwn, OwnAddressSpace, InKernelCall, AtSome
  <2>13. GsByParity'
    BY <2>1 DEF GsByParity, InKernelCall, AtSome, TypeOK
  <2>14. QED
    BY <2>1, <2>6, <2>7, <2>8, <2>9, <2>10, <2>11, <2>12, <2>13
<1>3. QED
  BY <1>1, <1>2

\* fork: a child and its thread are added; the caller goes on to return.
LEMMA ForkInv ==
  ASSUME IInv, At("syscall"), Fork, UNCHANGED timerExits
  PROVE  IInv'
<1> USE DEF IInv
<1>1. PICK p \in Pid, t \in Tid :
        /\ NextPid(p) /\ NextTid(t)
        /\ Return([threads EXCEPT ![t] = NewThread(p, "Runnable", cpu.saved_user_rsp)])
        /\ procs' = [procs EXCEPT ![p] = NewProcess(p, CurrentPid, t)]
        /\ UNCHANGED <<cpu, cr3, kernelGs, mode>>
  BY DEF Fork
<1> DEFINE c == Current
           new == NewThread(p, "Runnable", cpu.saved_user_rsp)
<1>2. /\ c \in Tid /\ c' = c /\ mode = "run" /\ mode' = "run"
      /\ threads[c].state = "Running" /\ CurrentPid # None /\ CurrentPid \in Pid
      /\ procs[CurrentPid].state = "Alive" /\ procs[CurrentPid].tid = c
      /\ InKernelCall
  BY <1>1, CurrentThread
     DEF At, Places, Placed, Suspended, KernelPlaces, Schedulable, CurrentPid,
         CurrentProcess, Current,
                             InKernelCall, AtSome
<1>3. /\ threads[t].state = "Unused" /\ t # c
      /\ procs[p].state = "None" /\ p # CurrentPid
  BY <1>1, <1>2 DEF NextTid, NextPid
<1>4. \A u \in Tid : /\ u \notin {c, t} => threads'[u] = threads[u]
                     /\ u # t => threads'[u].state = threads[u].state
                     /\ u # t => threads'[u].pid = threads[u].pid
                     /\ u # t => threads'[u].wait_killed = threads[u].wait_killed
  BY <1>1, <1>2, <1>3 DEF TypeOK, Thread, Return
<1>5. /\ threads'[t] = new
      /\ threads'[c].at = "sysret"
  BY <1>1, <1>2, <1>3 DEF TypeOK, Thread, Return
<1>6. /\ new.state = "Runnable" /\ new.pid = p /\ new.at = "start"
      /\ new.wait_killed = FALSE
  BY DEF NewThread
<1>7. /\ \A q \in Pid : q # p => procs'[q] = procs[q]
      /\ procs'[p].state = "Alive" /\ procs'[p].pid = p /\ procs'[p].tid = t
      /\ procs'[p].page_table = <<p, 0>>
  BY <1>1 DEF TypeOK, NewProcess
<1>8. <<p, 0>> \in PageTable /\ p # None
  BY SizesAssumption, NoneAssumption DEF PageTable, Pid
<1>9. TypeOK'
  <2>1. new \in Thread
    BY <1>1 DEF NewThread, Thread, ThreadState, Place, Interrupted, TypeOK
  <2>2. [threads EXCEPT ![t] = new] \in [Tid -> Thread]
    BY <2>1 DEF TypeOK
  <2>3. threads' \in [Tid -> Thread]
    BY <1>1, <1>2, <2>2, SetPlace DEF Return, Place
  <2>4. NewProcess(p, CurrentPid, t) \in Process
    BY <1>2, <1>8 DEF NewProcess, Process, ProcessState
  <2>5. procs' \in [Pid -> Process]
    BY <1>1, <2>4 DEF TypeOK
  <2>6. QED
    BY <1>1, <2>3, <2>5 DEF TypeOK
<1>10. SelfChecksHold' /\ OneRunning' /\ WaitTestIsDead'
  BY <1>1, <1>2, <1>3, <1>4, <1>5, <1>6
     DEF SelfChecksHold, SelfChecks, OneRunning, WaitTestIsDead
<1>11. TablesAgree'
  <2>1. (\A q \in Pid : procs[q].state \in {"Alive", "Zombie"} =>
           procs[q].tid \in Tid /\ Matches(q, procs[q].tid))'
    <3> SUFFICES ASSUME NEW q \in Pid, procs'[q].state \in {"Alive", "Zombie"}
                 PROVE  procs'[q].tid \in Tid /\ Matches(q, procs[q].tid)'
      OBVIOUS
    <3>1. CASE q = p
      BY <1>5, <1>6, <1>7, <3>1 DEF Matches
    <3>2. CASE q # p
      <4>1. procs[q].tid \in Tid /\ Matches(q, procs[q].tid) /\ procs'[q] = procs[q]
        BY <1>7, <3>2 DEF TablesAgree
      <4>2. procs[q].tid # t
        BY <1>3, <1>7, <3>2, <4>1 DEF Matches
      <4>3. QED
        BY <1>4, <4>1, <4>2 DEF Matches
    <3>3. QED
      BY <3>1, <3>2
  <2>2. \A u \in Tid : threads[u].pid # None => threads[u].pid \in Pid
    BY DEF TypeOK, Thread
  <2>3. QED
    BY <1>3, <1>4, <1>5, <1>6, <1>7, <2>1, <2>2 DEF TablesAgree
<1>12. KeyboardReady'
  <2>1. KeyboardTid \in Tid /\ KeyboardTid # t
    BY <1>3, SizesAssumption DEF KeyboardReady, Schedulable, KeyboardTid, Tid
  <2>2. QED
    BY <1>4, <1>5, <1>6, <1>8, <2>1 DEF KeyboardReady, Schedulable
<1>13. OwnTable' /\ InitLives'
  BY <1>3, <1>7, <1>8, SizesAssumption DEF OwnTable, InitLives, INIT_PID, Pid
<1>14. Places'
  <2> SUFFICES ASSUME NEW u \in Tid, Schedulable(u)'
               PROVE  Placed(u)'
    BY DEF Places
  <2>1. CASE u = t
    BY <1>5, <1>6, <1>8, <2>1 DEF Placed, Suspended, KernelPlaces
  <2>2. CASE u = c
    BY <1>2, <1>3, <1>4, <1>5, <2>2
       DEF HasProcessor, CurrentPid, Placed, Suspended, KernelPlaces
  <2>3. CASE u \notin {c, t}
    BY <1>1, <1>2, <1>4, <2>3
       DEF Places, Placed, Suspended, KernelPlaces, Schedulable, HasProcessor
  <2>4. QED
    BY <2>1, <2>2, <2>3
<1>15. SlotIsOwn' /\ GsByParity'
  BY <1>1, <1>2, <1>5 DEF SlotIsOwn, GsByParity, InKernelCall, AtSome
<1>16. OwnAddressSpace'
  <2>1. CurrentPid' = CurrentPid
    BY <1>2, <1>3, <1>4 DEF CurrentPid
  <2>2. QED
    BY <1>1, <1>2, <1>3, <1>7, <2>1 DEF OwnAddressSpace, CurrentProcess
<1>17. QED
  BY <1>1, <1>2, <1>9, <1>10, <1>11, <1>12, <1>13, <1>14, <1>15, <1>16

\* fork that fails half-way: the thread it leaves behind is never schedulable.
LEMMA ForkCopyFailsInv ==
  ASSUME IInv, At("syscall"), ForkCopyFails, UNCHANGED timerExits
  PROVE  IInv'
<1> USE DEF IInv
<1>1. PICK p \in Pid, t \in Tid :
        /\ NextPid(p) /\ NextTid(t)
        /\ Return([threads EXCEPT ![t] = NewThread(p, "Embryo", t)])
        /\ UNCHANGED <<procs, cpu, cr3, kernelGs, mode>>
  BY DEF ForkCopyFails
<1> DEFINE c == Current
           new == NewThread(p, "Embryo", t)
<1>2. /\ c \in Tid /\ c' = c /\ mode = "run" /\ mode' = "run"
      /\ threads[c].state = "Running" /\ CurrentPid # None /\ InKernelCall
  BY <1>1, CurrentThread
     DEF At, Places, Placed, Suspended, KernelPlaces, Schedulable, CurrentPid,
         Current, InKernelCall, AtSome
<1>3. threads[t].state = "Unused" /\ t # c
  BY <1>1, <1>2 DEF NextTid
<1>4. \A u \in Tid : /\ u \notin {c, t} => threads'[u] = threads[u]
                     /\ u # t => threads'[u].state = threads[u].state
                     /\ u # t => threads'[u].pid = threads[u].pid
                     /\ u # t => threads'[u].wait_killed = threads[u].wait_killed
  BY <1>1, <1>2, <1>3 DEF TypeOK, Thread, Return
<1>5. /\ threads'[t].state = "Embryo" /\ threads'[t].wait_killed = FALSE
      /\ threads'[c].at = "sysret"
  <2>1. new.state = "Embryo" /\ new.wait_killed = FALSE
    BY DEF NewThread
  <2>2. threads'[t] = new /\ threads'[c].at = "sysret"
    BY <1>1, <1>2, <1>3 DEF TypeOK, Thread, Return
  <2>3. QED
    BY <2>1, <2>2
<1>6. TypeOK'
  <2>1. new \in Thread
    BY <1>1 DEF NewThread, Thread, ThreadState, Place, Interrupted
  <2>2. [threads EXCEPT ![t] = new] \in [Tid -> Thread]
    BY <2>1 DEF TypeOK
  <2>3. threads' \in [Tid -> Thread]
    BY <1>1, <1>2, <2>2, SetPlace DEF Return, Place
  <2>4. QED
    BY <1>1, <2>3 DEF TypeOK
<1>7. SelfChecksHold' /\ OneRunning' /\ WaitTestIsDead'
  BY <1>1, <1>2, <1>3, <1>4, <1>5
     DEF SelfChecksHold, SelfChecks, OneRunning, WaitTestIsDead
<1>8. TablesAgree'
  <2>1. (\A q \in Pid : procs[q].state \in {"Alive", "Zombie"} =>
           procs[q].tid \in Tid /\ Matches(q, procs[q].tid))'
    <3> SUFFICES ASSUME NEW q \in Pid, procs[q].state \in {"Alive", "Zombie"}
                 PROVE  procs[q].tid \in Tid /\ Matches(q, procs[q].tid)'
      BY <1>1
    <3>1. procs[q].tid \in Tid /\ Matches(q, procs[q].tid)
      BY DEF TablesAgree
    <3>2. procs[q].tid # t
      BY <1>3, <3>1 DEF Matches
    <3>3. QED
      BY <1>1, <1>4, <3>1, <3>2 DEF Matches
  <2>2. \A u \in Tid : threads[u].pid # None => threads[u].pid \in Pid
    BY DEF TypeOK, Thread
  <2>3. QED
    BY <1>1, <1>4, <1>5, <2>1, <2>2 DEF TablesAgree
<1>9. KeyboardReady'
  <2>1. KeyboardTid \in Tid /\ KeyboardTid # t
    BY <1>3, SizesAssumption DEF KeyboardReady, Schedulable, KeyboardTid, Tid
  <2>2. QED
    BY <1>4, <1>5, <2>1 DEF KeyboardReady, Schedulable
<1>10. OwnTable' /\ InitLives'
  BY <1>1 DEF OwnTable, InitLives
<1>11. Places'
  <2> SUFFICES ASSUME NEW u \in Tid, Schedulable(u)'
               PROVE  Placed(u)'
    BY DEF Places
  <2>1. u # t
    BY <1>5 DEF Schedulable
  <2>2. CASE u = c
    BY <1>2, <1>3, <1>4, <1>5, <2>2
       DEF HasProcessor, CurrentPid, Placed, Suspended, KernelPlaces
  <2>3. CASE u # c
    BY <1>1, <1>2, <1>4, <2>1, <2>3
       DEF Places, Placed, Suspended, KernelPlaces, Schedulable, HasProcessor
  <2>4. QED
    BY <2>2, <2>3
<1>12. SlotIsOwn' /\ GsByParity'
  BY <1>1, <1>2, <1>5 DEF SlotIsOwn, GsByParity, InKernelCall, AtSome
<1>13. OwnAddressSpace'
  BY <1>1, <1>2, <1>3, <1>4 DEF OwnAddressSpace, CurrentProcess, CurrentPid
<1>14. QED
  BY <1>1, <1>2, <1>6, <1>7, <1>8, <1>9, <1>10, <1>11, <1>12, <1>13

\* When wait reaps a child, the checks of free_process succeed: the child owns
\* its thread, which is not the caller's, and its page table is not active.
LEMMA ReapFrees ==
  ASSUME IInv, InKernelCall, NEW p \in ZombieChildren, Reap(p)
  PROVE  /\ procs' = [procs EXCEPT ![p] = FreedProcess]
         /\ threads' = [[threads EXCEPT ![procs[p].tid] = NoThread]
                          EXCEPT ![Current].at = "sysret"]
         /\ procs[p].tid \in Tid \ {Current}
<1> USE DEF IInv
<1>1. /\ mode = "run" /\ CurrentPid \in Pid
      /\ procs[CurrentPid].state = "Alive" /\ procs[CurrentPid].tid = Current
      /\ procs[CurrentPid].page_table = cr3
  BY CurrentThread
     DEF Places, Placed, Suspended, KernelPlaces, Schedulable, CurrentPid,
         CurrentProcess,
                       InKernelCall, AtSome
<1>2. p \in Pid /\ procs[p].state = "Zombie" /\ p # CurrentPid
  BY <1>1, SizesAssumption DEF ZombieChildren, Children, Scanned, Pid
<1>3. /\ procs[p].tid \in Tid /\ threads[procs[p].tid].pid = p /\ procs[p].pid = p
      /\ procs[p].tid # Current
  BY <1>1, <1>2, CurrentThread DEF TablesAgree, Matches
<1>4. procs[p].page_table # cr3
  BY <1>1, <1>2 DEF OwnTable
<1>5. QED
  BY <1>3, <1>4 DEF Reap, Return

\* wait reaps a child: its thread and its process leave the tables together.
LEMMA ReapInv ==
  ASSUME IInv, InKernelCall, NEW p \in ZombieChildren, Reap(p),
         UNCHANGED <<cpu, cr3, kernelGs, mode, timerExits>>
  PROVE  IInv'
<1> USE DEF IInv
<1> DEFINE c == Current
           t == procs[p].tid
<1>1. /\ c \in Tid /\ c' = c /\ mode = "run" /\ mode' = "run"
      /\ threads[c].state = "Running" /\ CurrentPid # None /\ CurrentPid \in Pid
      /\ procs[CurrentPid].state = "Alive" /\ procs[CurrentPid].tid = c
      /\ procs[CurrentPid].page_table = cr3
  BY CurrentThread
     DEF Places, Placed, Suspended, KernelPlaces, Schedulable, CurrentPid,
         CurrentProcess, Current,
                       InKernelCall, AtSome
<1>2. p \in Pid /\ procs[p].state = "Zombie" /\ p # CurrentPid
  BY <1>1, SizesAssumption DEF ZombieChildren, Children, Scanned, Pid
<1>3. /\ t \in Tid /\ t # c
      /\ threads[t].pid = p /\ procs[p].pid = p /\ threads[t].state = "Zombie"
  BY <1>1, <1>2 DEF TablesAgree, Matches
<1>5. /\ threads' = [[threads EXCEPT ![t] = NoThread] EXCEPT ![c].at = "sysret"]
      /\ procs' = [procs EXCEPT ![p] = FreedProcess]
  BY ReapFrees
<1>6. /\ NoThread.state = "Unused" /\ NoThread.wait_killed = FALSE
      /\ FreedProcess.state = "Unused"
  BY DEF NoThread, FreedProcess
<1>7. \A u \in Tid : /\ u \notin {c, t} => threads'[u] = threads[u]
                     /\ u # t => threads'[u].state = threads[u].state
                     /\ u # t => threads'[u].pid = threads[u].pid
                     /\ u # t => threads'[u].wait_killed = threads[u].wait_killed
  BY <1>1, <1>3, <1>5 DEF TypeOK, Thread
<1>8. threads'[t] = NoThread /\ threads'[c].at = "sysret"
  BY <1>1, <1>3, <1>5 DEF TypeOK, Thread
<1>9. /\ \A q \in Pid : q # p => procs'[q] = procs[q]
      /\ procs'[p] = FreedProcess
  BY <1>2, <1>5 DEF TypeOK
<1>10. TypeOK'
  <2>1. NoThread \in Thread
    BY DEF NoThread, Thread, ThreadState, Place
  <2>2. [threads EXCEPT ![t] = NoThread] \in [Tid -> Thread]
    BY <2>1 DEF TypeOK
  <2>3. threads' \in [Tid -> Thread]
    BY <1>1, <1>5, <2>2, SetPlace DEF Place
  <2>4. FreedProcess \in Process
    BY SizesAssumption DEF FreedProcess, Process, ProcessState, Pid
  <2>5. procs' \in [Pid -> Process]
    BY <1>5, <2>4 DEF TypeOK
  <2>6. QED
    BY <2>3, <2>5 DEF TypeOK
<1>11. SelfChecksHold' /\ OneRunning' /\ WaitTestIsDead'
  BY <1>1, <1>3, <1>6, <1>7, <1>8
     DEF SelfChecksHold, SelfChecks, OneRunning, WaitTestIsDead
<1>12. TablesAgree'
  <2>1. (\A q \in Pid : procs[q].state \in {"Alive", "Zombie"} =>
           procs[q].tid \in Tid /\ Matches(q, procs[q].tid))'
    <3> SUFFICES ASSUME NEW q \in Pid, procs'[q].state \in {"Alive", "Zombie"}
                 PROVE  procs'[q].tid \in Tid /\ Matches(q, procs[q].tid)'
      OBVIOUS
    <3>1. q # p /\ procs'[q] = procs[q]
      BY <1>6, <1>9
    <3>2. procs[q].tid \in Tid /\ Matches(q, procs[q].tid)
      BY <3>1 DEF TablesAgree
    <3>3. procs[q].tid # t
      BY <1>3, <3>1, <3>2 DEF Matches
    <3>4. QED
      BY <1>7, <3>1, <3>2, <3>3 DEF Matches
  <2>2. ASSUME NEW u \in Tid, threads'[u].pid # None,
               threads'[u].state \in {"Runnable", "Running", "Zombie"}
        PROVE  /\ procs'[threads'[u].pid].state \in {"Alive", "Zombie"}
               /\ procs'[threads'[u].pid].tid = u
    <3>1. u # t /\ threads'[u].pid = threads[u].pid /\ threads'[u].state = threads[u].state
      BY <1>6, <1>7, <1>8, <2>2
    <3>2. /\ threads[u].pid \in Pid
          /\ procs[threads[u].pid].state \in {"Alive", "Zombie"}
          /\ procs[threads[u].pid].tid = u
      BY <2>2, <3>1 DEF TablesAgree, TypeOK, Thread
    <3>3. threads[u].pid # p
      BY <3>1, <3>2
    <3>4. QED
      BY <1>9, <3>1, <3>2, <3>3
  <2>3. QED
    BY <2>1, <2>2 DEF TablesAgree
<1>13. KeyboardReady'
  <2>1. KeyboardTid \in Tid /\ KeyboardTid # t
    BY <1>3, SizesAssumption DEF KeyboardReady, Schedulable, KeyboardTid, Tid
  <2>2. QED
    BY <1>6, <1>7, <1>8, <2>1 DEF KeyboardReady, Schedulable
<1>14. OwnTable' /\ InitLives'
  BY <1>2, <1>6, <1>9, SizesAssumption DEF OwnTable, InitLives, INIT_PID, Pid
<1>15. Places'
  <2> SUFFICES ASSUME NEW u \in Tid, Schedulable(u)'
               PROVE  Placed(u)'
    BY DEF Places
  <2>1. u # t
    BY <1>6, <1>8 DEF Schedulable
  <2>2. CASE u = c
    BY <1>1, <1>7, <1>8, <2>1, <2>2
       DEF HasProcessor, CurrentPid, Placed, Suspended, KernelPlaces
  <2>3. CASE u # c
    BY <1>1, <1>7, <2>1, <2>3
       DEF Places, Placed, Suspended, KernelPlaces, Schedulable, HasProcessor
  <2>4. QED
    BY <2>2, <2>3
<1>16. SlotIsOwn' /\ GsByParity'
  BY <1>1, <1>8 DEF SlotIsOwn, GsByParity, InKernelCall, AtSome
<1>17. OwnAddressSpace'
  <2>1. CurrentPid' = CurrentPid
    BY <1>1, <1>3, <1>7 DEF CurrentPid
  <2>2. QED
    BY <1>1, <1>2, <1>9, <2>1 DEF OwnAddressSpace, CurrentProcess
<1>18. QED
  BY <1>1, <1>10, <1>11, <1>12, <1>13, <1>14, <1>15, <1>16, <1>17

\* exec: the process gets a new page table, active at once.
LEMMA ExecInv ==
  ASSUME IInv, At("syscall"), Exec, UNCHANGED timerExits
  PROVE  IInv'
<1> USE DEF IInv
<1> DEFINE c == Current
           p == CurrentPid
           n == CurrentProcess.page_table[2] + 1
<1>1. /\ c \in Tid /\ c' = c /\ mode = "run" /\ mode' = "run"
      /\ threads[c].state = "Running" /\ p # None /\ p \in Pid
      /\ procs[p].state = "Alive" /\ procs[p].tid = c
      /\ InKernelCall
  BY CurrentThread
     DEF At, Places, Placed, Suspended, KernelPlaces, Schedulable, CurrentPid,
         CurrentProcess, Current, Exec,
                       InKernelCall, AtSome, TypeOK
<1>2. <<p, n>> \in PageTable
  <2>1. CurrentProcess.page_table \in PageTable
    BY <1>1 DEF OwnTable, CurrentProcess
  <2>2. QED
    BY <1>1, <2>1, SizesAssumption DEF Exec, PageTable
<1>3. /\ threads' = [[threads EXCEPT ![c].rsp3 = c] EXCEPT ![c].at = "sysret"]
      /\ procs' = [procs EXCEPT ![p].page_table = <<p, n>>]
      /\ cpu' = [cpu EXCEPT !.saved_user_rsp = c]
      /\ cr3' = <<p, n>>
      /\ UNCHANGED <<kernelGs, mode>>
  BY DEF Exec, Return
<1>4. \A u \in Tid : /\ u # c => threads'[u] = threads[u]
                     /\ threads'[u].state = threads[u].state
                     /\ threads'[u].pid = threads[u].pid
                     /\ threads'[u].wait_killed = threads[u].wait_killed
  BY <1>1, <1>3 DEF TypeOK, Thread
<1>5. threads'[c].at = "sysret" /\ cpu'.saved_user_rsp = c
  BY <1>1, <1>3 DEF TypeOK, Thread
<1>6. \A q \in Pid : /\ q # p => procs'[q] = procs[q]
                     /\ procs'[q].state = procs[q].state
                     /\ procs'[q].pid = procs[q].pid
                     /\ procs'[q].tid = procs[q].tid
  BY <1>1, <1>3 DEF TypeOK, Process
<1>7. procs'[p].page_table = <<p, n>>
  BY <1>1, <1>3 DEF TypeOK, Process
<1> HIDE DEF n
<1>8. TypeOK'
  <2>1. threads' \in [Tid -> Thread]
    <3>1. [threads EXCEPT ![c].rsp3 = c] \in [Tid -> Thread]
      BY <1>1 DEF TypeOK, Thread
    <3>2. QED
      BY <1>1, <1>3, <3>1, SetPlace DEF Place
  <2>2. procs' \in [Pid -> Process]
    BY <1>1, <1>2, <1>3 DEF TypeOK, Process
  <2>3. QED
    BY <1>1, <1>2, <1>3, <2>1, <2>2 DEF TypeOK
<1>9. SelfChecksHold' /\ OneRunning' /\ WaitTestIsDead'
  BY <1>1, <1>4 DEF SelfChecksHold, SelfChecks, OneRunning, WaitTestIsDead
<1>10. TablesAgree'
  <2>1. (\A q \in Pid : procs[q].state \in {"Alive", "Zombie"} =>
           procs[q].tid \in Tid /\ Matches(q, procs[q].tid))'
    BY <1>4, <1>6 DEF TablesAgree, Matches
  <2>2. \A u \in Tid : threads[u].pid # None => threads[u].pid \in Pid
    BY DEF TypeOK, Thread
  <2>3. QED
    BY <1>4, <1>6, <2>1, <2>2 DEF TablesAgree
<1>11. KeyboardReady'
  BY <1>4, SizesAssumption DEF KeyboardReady, Schedulable, KeyboardTid, Tid
<1>12. OwnTable' /\ InitLives'
  <2>1. <<p, n>>[1] = p
    OBVIOUS
  <2>2. QED
    BY <1>2, <1>6, <1>7, <2>1, SizesAssumption
       DEF OwnTable, InitLives, INIT_PID, Pid
<1>13. Places'
  <2> SUFFICES ASSUME NEW u \in Tid, Schedulable(u)'
               PROVE  Placed(u)'
    BY DEF Places
  <2>1. CASE u = c
    BY <1>1, <1>4, <1>5, <2>1
       DEF HasProcessor, CurrentPid, Placed, Suspended, KernelPlaces
  <2>2. CASE u # c
    BY <1>1, <1>4, <2>2
       DEF Places, Placed, Suspended, KernelPlaces, Schedulable, HasProcessor
  <2>3. QED
    BY <2>1, <2>2
<1>14. SlotIsOwn' /\ GsByParity'
  BY <1>1, <1>3, <1>5 DEF SlotIsOwn, GsByParity, InKernelCall, AtSome
<1>15. OwnAddressSpace'
  <2>1. CurrentPid' = p
    BY <1>1, <1>4 DEF CurrentPid
  <2>2. QED
    BY <1>1, <1>3, <1>6, <1>7, <2>1 DEF OwnAddressSpace, CurrentProcess
<1>16. QED
  BY <1>1, <1>8, <1>9, <1>10, <1>11, <1>12, <1>13, <1>14, <1>15

\* A system call that changes at most killed flags, and returns.
LEMMA ReturnInv ==
  ASSUME IInv, InKernelCall, Return(threads),
         procs' \in [Pid -> Process],
         \A p \in Pid : /\ procs'[p].state = procs[p].state
                        /\ procs'[p].pid = procs[p].pid
                        /\ procs'[p].tid = procs[p].tid
                        /\ procs'[p].page_table = procs[p].page_table,
         UNCHANGED <<cpu, cr3, kernelGs, mode, timerExits>>
  PROVE  IInv'
<1> USE DEF KernelPlaces
<1>1. mode = "run" /\ mode' = "run" /\ Current' = Current
  BY DEF InKernelCall, AtSome, Current
<1>2. CurrentPid # None
  BY <1>1, CallerProcess DEF InKernelCall, AtSome
<1>3. "sysret" \in Place \ {"none", "dead"} /\ "sysret" \in CallPlaces
  BY DEF Place, CallPlaces
<1>4. /\ cpu.saved_user_rsp = Current /\ kernelGs = ~timerExits
      /\ cpu \in [current_tid: Tid \cup {None}, saved_user_rsp: Tid \cup {None}]
  BY <1>1 DEF IInv, SlotIsOwn, GsByParity, TypeOK
<1>5. QED
  BY <1>1, <1>2, <1>3, <1>4, MoveInv DEF Return

\* kill
LEMMA KillInv ==
  ASSUME IInv, InKernelCall, NEW k \in Pid, Kill(k), UNCHANGED timerExits
  PROVE  IInv'
<1>1. procs \in [Pid -> Process] /\ Scanned \subseteq Pid
  BY SizesAssumption DEF IInv, TypeOK, Scanned, Pid
<1>2. /\ procs' \in [Pid -> Process]
      /\ \A p \in Pid : /\ procs'[p].state = procs[p].state
                        /\ procs'[p].pid = procs[p].pid
                        /\ procs'[p].tid = procs[p].tid
                        /\ procs'[p].page_table = procs[p].page_table
  <2>1. CASE \E i \in Scanned : procs' = [procs EXCEPT ![i].killed = TRUE]
    <3>1. PICK i \in Pid : procs' = [procs EXCEPT ![i].killed = TRUE]
      BY <1>1, <2>1
    <3>2. procs' \in [Pid -> Process]
      BY <1>1, <3>1 DEF Process
    <3>3. QED
      BY <1>1, <3>1, <3>2 DEF Process
  <2>2. CASE UNCHANGED procs
    BY <1>1, <2>2
  <2>3. QED
    BY <2>1, <2>2 DEF Kill
<1>3. QED
  BY <1>2, ReturnInv DEF Kill

\* Whenever wait tests its copy of the killed flag, the copy is FALSE.
LEMMA WaitsWithFalse ==
  ASSUME IInv, SysWait \/ SysWaitAgain
  PROVE  InKernelCall /\ WaitLoop(FALSE) /\ UNCHANGED timerExits
<1> USE DEF KernelPlaces
<1>1. mode = "run" /\ InKernelCall
  BY DEF SysWait, SysWaitAgain, InSyscall, At, InKernelCall, AtSome
<1>2. CASE SysWait
  <2>1. CurrentPid \in Pid
    BY <1>1, CallerProcess, CurrentThread DEF InKernelCall, AtSome
  <2>2. CurrentProcess.killed = FALSE
    BY <1>2, <2>1 DEF SysWait, InSyscall, IInv, TypeOK, Process, CurrentProcess
  <2>3. QED
    BY <1>1, <1>2, <2>2 DEF SysWait
<1>3. CASE SysWaitAgain
  <2>1. threads[Current].wait_killed = FALSE
    BY <1>1, CurrentThread DEF IInv, WaitTestIsDead, TypeOK, Thread
  <2>2. QED
    BY <1>1, <1>3, <2>1 DEF SysWaitAgain
<1>4. QED
  BY <1>2, <1>3

\* A turn of the loop of wait: reap, give up, or yield.
LEMMA WaitLoopInv ==
  ASSUME IInv, InKernelCall, WaitLoop(FALSE), UNCHANGED timerExits
  PROVE  IInv'
<1>1. CASE \E p \in ZombieChildren : Reap(p) /\ UNCHANGED <<cpu, cr3, kernelGs, mode>>
  BY <1>1, ReapInv
<1>2. CASE Return(threads) /\ UNCHANGED <<procs, cpu, cr3, kernelGs, mode>>
  BY <1>2, ReturnInv DEF IInv, TypeOK
<1>3. CASE /\ OnSyscallYield([threads EXCEPT ![Current].wait_killed = FALSE], "wait")
           /\ UNCHANGED procs
  BY <1>3, WaitYieldInv
<1>4. QED
  BY <1>1, <1>2, <1>3 DEF WaitLoop

-----------------------------------------------------------------------------
(* The scheduler's turn                                                    *)

\* Whenever the scheduler looks for a thread, one is runnable besides the one
\* that ran last: the keyboard's or init's.
LEMMA TwoReady ==
  ASSUME IInv, mode = "scheduler"
  PROVE  /\ Current \in Tid \cup {None}
         /\ \E t \in Tid : Runnable(t)
         /\ Current \in Tid => \E t \in Tid \ {Current} : Runnable(t)
<1> USE DEF IInv
<1>1. Current \in Tid \cup {None}
  BY DEF TypeOK, Current
<1>2. KeyboardTid \in Tid /\ Schedulable(KeyboardTid) /\ threads[KeyboardTid].pid = None
  BY SizesAssumption DEF KeyboardReady, KeyboardTid, Tid
<1>3. PICK i \in Tid : Schedulable(i) /\ threads[i].pid = INIT_PID
  <2>1. INIT_PID \in Pid
    BY SizesAssumption DEF INIT_PID, Pid
  <2>2. QED
    BY <2>1 DEF TablesAgree, Matches, InitLives, Schedulable
<1>4. i # KeyboardTid
  BY <1>2, <1>3, NoneAssumption DEF INIT_PID
<1>5. Runnable(KeyboardTid)
  BY <1>2
     DEF Places, Placed, Suspended, KernelPlaces, Runnable, Schedulable,
         HasProcessor
<1>6. Current \in Tid /\ Current # i => Runnable(i)
  BY <1>3 DEF OneRunning, Runnable, Schedulable
<1>7. QED
  BY <1>1, <1>2, <1>4, <1>5, <1>6

\* The scheduler never chooses the thread that ran last, which it would first
\* mark Running and then, as the previous thread, Runnable.
LEMMA NotItself ==
  ASSUME IInv, mode = "scheduler", NEW t \in Tid, NextRunnable(t)
  PROVE  t # Current
<1> SUFFICES ASSUME t = Current PROVE FALSE
  OBVIOUS
<1>1. PICK u \in Tid \ {Current} : Runnable(u)
  BY TwoReady
<1>2. ScanFrom = t
  BY NoneAssumption DEF ScanFrom, Tid
<1>3. Distance(t, t) <= Distance(t, u)
  BY <1>1, <1>2 DEF NextRunnable
<1>4. Distance(t, t) = NTHREAD /\ Distance(t, u) < NTHREAD
  BY <1>1, SizesAssumption DEF Distance, Tid
<1>5. QED
  BY <1>1, <1>3, <1>4, SizesAssumption DEF Distance, Tid

\* What the step that dispatches t does
Chosen(t) ==
  /\ t # Current /\ threads[t].state = "Runnable"
  /\ threads[t].pid # None =>
       /\ procs[threads[t].pid].state = "Alive"
       /\ procs[threads[t].pid].page_table \in PageTable
  /\ mode' = "run"
  /\ cpu' = [current_tid |-> t, saved_user_rsp |-> threads[t].rsp3]
  /\ cr3' = TableOf(t)
  /\ kernelGs' = IF threads[t].at = "wait" THEN ~kernelGs ELSE kernelGs
  /\ threads' \in [Tid -> Thread]
  /\ threads'[t].state = "Running"
  /\ \A u \in Tid \ {t} : threads'[u].state =
        IF threads[u].state = "Running" THEN "Runnable" ELSE threads[u].state
  /\ \A u \in Tid : /\ threads'[u].pid = threads[u].pid
                     /\ threads'[u].at = threads[u].at
                     /\ threads'[u].rsp3 = threads[u].rsp3
                     /\ threads'[u].wait_killed = threads[u].wait_killed

\* The scheduler always finds a thread, and a page table to run it on.
LEMMA DispatchStep ==
  ASSUME IInv, Dispatch
  PROVE  \E t \in Tid : NextRunnable(t) /\ Chosen(t)
<1> USE DEF IInv
<1>1. mode = "scheduler" /\ UNCHANGED <<procs, timerExits>>
  BY DEF Dispatch
<1>2. PICK t \in Tid : NextRunnable(t) /\ SwitchTo(t)
  BY <1>1, TwoReady DEF Dispatch
<1>3. t # Current /\ threads[t].state = "Runnable" /\ Schedulable(t)
  BY <1>1, <1>2, NotItself DEF NextRunnable, Runnable, Schedulable
<1>4. \A u \in Tid : /\ threads[u].pid \in Pid \cup {None}
                     /\ threads[u].pid = None <=> threads[u].pid \notin Pid
  BY NoneAssumption DEF TypeOK, Thread, Pid
<1>5. threads[t].pid # None =>
        /\ procs[threads[t].pid].state = "Alive"
        /\ procs[threads[t].pid].tid = t
        /\ procs[threads[t].pid].page_table \in PageTable
  BY <1>3, <1>4 DEF TablesAgree, Matches, OwnTable
<1>6. ~NoTable(t)
  <2>1. None \notin PageTable
    BY NoneAssumption, SizesAssumption DEF PageTable, Pid
  <2>2. QED
    BY <1>5, <2>1 DEF NoTable
<1>7. /\ threads' = AfterChoice(t)
      /\ mode' = "run"
      /\ cpu' = [current_tid |-> t, saved_user_rsp |-> threads[t].rsp3]
      /\ cr3' = TableOf(t)
      /\ kernelGs' = IF threads[t].at = "wait" THEN ~kernelGs ELSE kernelGs
  BY <1>2, <1>6 DEF SwitchTo
<1>8. Current' = t /\ cpu'.saved_user_rsp = threads[t].rsp3
  BY <1>7 DEF Current
<1>9. /\ AfterChoice(t) \in [Tid -> Thread]
      /\ AfterChoice(t)[t].state = "Running"
      /\ \A u \in Tid \ {t} : AfterChoice(t)[u].state =
            IF threads[u].state = "Running" THEN "Runnable" ELSE threads[u].state
      /\ \A u \in Tid : /\ AfterChoice(t)[u].pid = threads[u].pid
                        /\ AfterChoice(t)[u].at = threads[u].at
                        /\ AfterChoice(t)[u].rsp3 = threads[u].rsp3
                        /\ AfterChoice(t)[u].wait_killed = threads[u].wait_killed
  <2> DEFINE chosen == [threads EXCEPT ![t].state = "Running"]
  <2>1. /\ chosen \in [Tid -> Thread]
        /\ chosen[t].state = "Running"
        /\ \A u \in Tid : u # t => chosen[u] = threads[u]
        /\ \A u \in Tid : /\ chosen[u].pid = threads[u].pid
                          /\ chosen[u].at = threads[u].at
                          /\ chosen[u].rsp3 = threads[u].rsp3
                          /\ chosen[u].wait_killed = threads[u].wait_killed
    BY DEF TypeOK, Thread, ThreadState
  <2>2. AfterChoice(t) = IF Current # None /\ chosen[Current].state = "Running"
                           THEN [chosen EXCEPT ![Current].state = "Runnable"]
                           ELSE chosen
    BY DEF AfterChoice
  <2>3. \A u \in Tid : threads[u].state = "Running" => u = Current
    BY DEF OneRunning
  <2> HIDE DEF chosen
  <2>4. CASE Current # None /\ chosen[Current].state = "Running"
    <3>1. Current \in Tid
      BY <1>1, <2>4, TwoReady
    <3>2. AfterChoice(t) = [chosen EXCEPT ![Current].state = "Runnable"]
      BY <2>2, <2>4
    <3>3. AfterChoice(t) \in [Tid -> Thread]
      <4>1. "Runnable" \in ThreadState
        BY DEF ThreadState
      <4>2. [chosen EXCEPT ![Current].state = "Runnable"] \in [Tid -> Thread]
        BY <2>1, <3>1, <4>1, SetState
      <4>3. QED
        BY <3>2, <4>2
    <3>4. /\ AfterChoice(t)[Current].state = "Runnable"
          /\ \A u \in Tid : u # Current => AfterChoice(t)[u] = chosen[u]
          /\ \A u \in Tid : /\ AfterChoice(t)[u].pid = chosen[u].pid
                            /\ AfterChoice(t)[u].at = chosen[u].at
                            /\ AfterChoice(t)[u].rsp3 = chosen[u].rsp3
                            /\ AfterChoice(t)[u].wait_killed = chosen[u].wait_killed
      BY <2>1, <3>1, <3>2 DEF Thread
    <3>5. threads[Current].state = "Running"
      BY <1>3, <2>1, <2>4, <3>1
    <3>6. QED
      BY <1>3, <2>1, <2>3, <3>1, <3>3, <3>4, <3>5
  <2>5. CASE ~(Current # None /\ chosen[Current].state = "Running")
    <3>1. \A u \in Tid : threads[u].state # "Running"
      BY <1>3, <2>1, <2>3, <2>5, NoneAssumption DEF Tid
    <3>2. QED
      BY <2>1, <2>2, <2>5, <3>1
  <2>6. QED
    BY <2>4, <2>5
<1>10. /\ \A u \in Tid \ {t} : threads'[u].state =
            IF threads[u].state = "Running" THEN "Runnable" ELSE threads[u].state
       /\ threads'[t].state = "Running"
       /\ \A u \in Tid : /\ threads'[u].pid = threads[u].pid
                         /\ threads'[u].at = threads[u].at
                         /\ threads'[u].rsp3 = threads[u].rsp3
                         /\ threads'[u].wait_killed = threads[u].wait_killed
       /\ \A u \in Tid : Schedulable(u)' <=> Schedulable(u)
  BY <1>3, <1>7, <1>9 DEF Schedulable
<1>11. QED
  BY <1>2, <1>3, <1>5, <1>7, <1>9, <1>10 DEF Chosen

\* One turn of the scheduler, including the second swapgs of a suspended wait.
LEMMA DispatchInv ==
  ASSUME IInv, Dispatch
  PROVE  IInv'
<1> USE DEF IInv
<1>1. mode = "scheduler" /\ UNCHANGED <<procs, timerExits>>
  BY DEF Dispatch
<1>2. PICK t \in Tid : Chosen(t)
  BY DispatchStep
<1>3. t # Current /\ threads[t].state = "Runnable" /\ Schedulable(t)
  BY <1>2 DEF Chosen, Schedulable
<1>4. \A u \in Tid : /\ threads[u].pid \in Pid \cup {None}
                     /\ threads[u].pid = None <=> threads[u].pid \notin Pid
  BY NoneAssumption DEF TypeOK, Thread, Pid
<1>5. threads[t].pid # None =>
        /\ procs[threads[t].pid].state = "Alive"
        /\ procs[threads[t].pid].page_table \in PageTable
  BY <1>2 DEF Chosen
<1>6. /\ mode' = "run"
      /\ cpu' = [current_tid |-> t, saved_user_rsp |-> threads[t].rsp3]
      /\ cr3' = TableOf(t)
      /\ kernelGs' = IF threads[t].at = "wait" THEN ~kernelGs ELSE kernelGs
  BY <1>2 DEF Chosen
<1>7. Current' = t /\ cpu'.saved_user_rsp = threads[t].rsp3
  BY <1>6 DEF Current
<1>8. threads' \in [Tid -> Thread]
  BY <1>2 DEF Chosen
<1>9. /\ \A u \in Tid \ {t} : threads'[u].state =
           IF threads[u].state = "Running" THEN "Runnable" ELSE threads[u].state
      /\ threads'[t].state = "Running"
      /\ \A u \in Tid : /\ threads'[u].pid = threads[u].pid
                        /\ threads'[u].at = threads[u].at
                        /\ threads'[u].rsp3 = threads[u].rsp3
                        /\ threads'[u].wait_killed = threads[u].wait_killed
      /\ \A u \in Tid : Schedulable(u)' <=> Schedulable(u)
  BY <1>2, <1>3 DEF Chosen, Schedulable
<1>10. TypeOK'
  <2>1. TableOf(t) \in PageTable \cup {KernelTable}
    BY <1>5 DEF TableOf
  <2>2. threads[t].rsp3 \in Tid \cup {None}
    BY DEF TypeOK, Thread
  <2>3. kernelGs' \in BOOLEAN
    BY <1>6 DEF TypeOK
  <2>4. QED
    BY <1>1, <1>6, <1>8, <2>1, <2>2, <2>3 DEF TypeOK
<1>11. SelfChecksHold' /\ OneRunning' /\ WaitTestIsDead'
  BY <1>6, <1>7, <1>9 DEF SelfChecksHold, SelfChecks, OneRunning, WaitTestIsDead
<1>12. TablesAgree'
  <2>1. (\A q \in Pid : procs[q].state \in {"Alive", "Zombie"} =>
           procs[q].tid \in Tid /\ Matches(q, procs[q].tid))'
    <3> SUFFICES ASSUME NEW q \in Pid, procs[q].state \in {"Alive", "Zombie"}
                 PROVE  procs[q].tid \in Tid /\ Matches(q, procs[q].tid)'
      BY <1>1
    <3>1. procs[q].tid \in Tid /\ Matches(q, procs[q].tid)
      BY DEF TablesAgree
    <3>2. CASE procs[q].tid = t
      BY <1>1, <1>3, <1>9, <3>1, <3>2 DEF Matches
    <3>3. CASE procs[q].tid # t
      BY <1>1, <1>9, <3>1, <3>3 DEF Matches
    <3>4. QED
      BY <3>2, <3>3
  <2>2. QED
    BY <1>1, <1>3, <1>4, <1>9, <2>1 DEF TablesAgree
<1>13. KeyboardReady' /\ OwnTable' /\ InitLives'
  BY <1>1, <1>9, SizesAssumption
     DEF KeyboardReady, KeyboardTid, Tid, OwnTable, InitLives
<1>14. threads[t].at \in {"start"} \cup Ticks \cup {"wait"}
  BY <1>1, <1>3 DEF Places, Placed, Suspended, KernelPlaces, HasProcessor
<1>15. Places'
  <2> SUFFICES ASSUME NEW u \in Tid, Schedulable(u)'
               PROVE  Placed(u)'
    BY DEF Places
  <2>1. CASE u = t
    BY <1>3, <1>6, <1>7, <1>9, <2>1
       DEF Places, Placed, Suspended, KernelPlaces, HasProcessor
  <2>2. CASE u # t
    BY <1>1, <1>9, <2>2 DEF Places, Placed, Suspended, KernelPlaces, HasProcessor
  <2>3. QED
    BY <2>1, <2>2
<1>16. SlotIsOwn'
  <2>1. threads[t].at = "wait" => threads[t].rsp3 = t
    BY <1>1, <1>3 DEF Places, Placed, Suspended, KernelPlaces, HasProcessor, Ticks
  <2>2. QED
    BY <1>7, <1>9, <1>14, <2>1 DEF SlotIsOwn, InKernelCall, AtSome, Ticks
<1>17. GsByParity'
  <2>1. InKernelCall' <=> threads[t].at = "wait"
    BY <1>6, <1>7, <1>9, <1>14 DEF InKernelCall, AtSome, Ticks
  <2>2. kernelGs = timerExits
    BY <1>1 DEF GsByParity, InKernelCall, AtSome
  <2>3. QED
    BY <1>1, <1>6, <2>1, <2>2 DEF GsByParity, TypeOK
<1>18. OwnAddressSpace'
  <2>1. CurrentPid' = threads[t].pid
    BY <1>7, <1>9 DEF CurrentPid
  <2>2. QED
    BY <1>1, <1>5, <1>6, <2>1 DEF OwnAddressSpace, CurrentProcess, TableOf
<1>19. QED
  BY <1>7, <1>10, <1>11, <1>12, <1>13, <1>15, <1>16, <1>17, <1>18, NoneAssumption
     DEF Tid

-----------------------------------------------------------------------------
(* The invariant is inductive.                                             *)

\* The timer interrupt, wherever it comes.
LEMMA TimerInv ==
  ASSUME IInv, Timer
  PROVE  IInv'
<1> USE DEF KernelPlaces
<1>1. CASE TimerInKernel
  <2> DEFINE at == threads[Current].at
             place == IF at \in Ticks THEN at ELSE Tick(at)
  <2>1. mode = "run" /\ at \in {"start", "kernel"} \cup Ticks /\ ~InKernelCall
    BY <1>1 DEF TimerInKernel, AtSome, InKernelCall, Ticks
  <2>2. /\ CurrentPid = None => at \in KernelPlaces
        /\ CurrentPid # None => at \notin {"kernel", "tick_kernel"}
    BY <2>1, CurrentThread
       DEF IInv, Places, Placed, Suspended, KernelPlaces, Schedulable, CurrentPid
  <2>3. /\ place \in Ticks
        /\ CurrentPid = None => place # "tick_user"
        /\ CurrentPid # None => place # "tick_kernel"
    BY <2>1, <2>2, UnderTick DEF Ticks
  <2>4. OnYield(place) /\ UNCHANGED <<procs, timerExits>>
    BY <1>1 DEF TimerInKernel
  <2> HIDE DEF place
  <2>5. QED
    BY <2>1, <2>3, <2>4, TimerYieldInv
<1>2. CASE TimerInUser
  <2>1. mode = "run" /\ ~InKernelCall /\ CurrentPid # None
    BY <1>2, CallerProcess DEF TimerInUser, At, InKernelCall, AtSome
  <2>2. QED
    BY <1>2, <2>1, TimerYieldInv DEF TimerInUser, Ticks
<1>3. CASE TimerKills
  <2>1. mode = "run" /\ ~InKernelCall /\ CurrentPid # None
    BY <1>3, CallerProcess DEF TimerKills, At, InKernelCall, AtSome
  <2>2. QED
    BY <1>3, <2>1, ExitInv DEF TimerKills
<1>4. CASE TimerSpins
  BY <1>4, StopInv DEF TimerSpins, Stops, SelfChecks, IInv, TypeOK
<1>5. QED
  BY <1>1, <1>2, <1>3, <1>4 DEF Timer

\* The system calls.
LEMMA SyscallInv ==
  ASSUME IInv, Syscall
  PROVE  IInv'
<1> USE DEF KernelPlaces
<1>1. At("syscall") \/ At("wait") => InKernelCall
  BY DEF At, InKernelCall, AtSome
<1>2. CASE SysFork
  BY <1>2, ForkInv DEF SysFork, InSyscall
<1>3. CASE SysForkCopyFails
  BY <1>3, ForkCopyFailsInv DEF SysForkCopyFails, InSyscall
<1>4. CASE SysForkTableFull \/ SysOther
  BY <1>1, <1>4, ReturnInv
     DEF SysForkTableFull, ForkTableFull, SysOther, InSyscall, IInv, TypeOK
<1>5. CASE SysExec
  BY <1>5, ExecInv DEF SysExec, InSyscall
<1>6. CASE SysExecPanics
  BY <1>6, StopInv DEF SysExecPanics, Panic, Stops, SelfChecks, IInv, TypeOK
<1>7. CASE SysExit
  <2>1. mode = "run" /\ InKernelCall /\ CurrentPid # None
    BY <1>1, <1>7, CallerProcess DEF SysExit, InSyscall, At
  <2>2. QED
    BY <1>7, <2>1, ExitInv DEF SysExit
<1>8. CASE SysKill
  BY <1>1, <1>8, KillInv DEF SysKill, InSyscall
<1>9. CASE SysWait \/ SysWaitAgain
  BY <1>9, WaitsWithFalse, WaitLoopInv
<1>10. QED
  BY <1>2, <1>3, <1>4, <1>5, <1>6, <1>7, <1>8, <1>9 DEF Syscall

\* The invariant is inductive.
LEMMA StepInv == IInv /\ [Next]_vars => IInv'
<1> USE DEF KernelPlaces
<1> SUFFICES ASSUME IInv, [Next]_vars PROVE IInv'
  OBVIOUS
<1>1. mode = "run" => /\ Current \in Tid
                      /\ CurrentPid \in Pid \cup {None}
  BY CurrentThread
<1>types. /\ procs \in [Pid -> Process] /\ kernelGs \in BOOLEAN /\ timerExits \in BOOLEAN
      /\ cpu \in [current_tid: Tid \cup {None}, saved_user_rsp: Tid \cup {None}]
  BY DEF IInv, TypeOK
<1>gs. mode = "run" /\ ~InKernelCall => kernelGs = timerExits
  BY DEF IInv, GsByParity
<1>2. CASE Dispatch
  BY <1>2, DispatchInv
<1>3. CASE TakeLocks
  <2>1. "locked" \in Place \ {"none", "dead"} /\ "locked" \notin CallPlaces
    BY DEF Place, CallPlaces
  <2>2. mode = "run" /\ ~InKernelCall
    BY <1>3 DEF TakeLocks, At, InKernelCall, AtSome
  <2>3. QED
    BY <1>3, <1>types, <1>gs, <2>1, <2>2, MoveInv DEF TakeLocks, Current
<1>4. CASE Enter
  <2> DEFINE place == IF CurrentPid = None THEN "kernel" ELSE "user"
  <2>1. place \in Place \ {"none", "dead"} /\ place \notin CallPlaces
    BY DEF Place, CallPlaces, Interrupted
  <2>2. mode = "run" /\ ~InKernelCall
    BY <1>4 DEF Enter, At, InKernelCall, AtSome
  <2>3. QED
    BY <1>4, <1>types, <1>gs, <2>1, <2>2, MoveInv DEF Enter, Current
<1>5. CASE Timer
  BY <1>5, TimerInv
<1>6. CASE TimerReturn
  <2> DEFINE at == threads[Current].at
  <2>1. mode = "run" /\ at \in Ticks /\ ~InKernelCall
    BY <1>6 DEF TimerReturn, AtSome, InKernelCall, Ticks
  <2>2. /\ CurrentPid = None => at \in KernelPlaces
        /\ CurrentPid # None => at \notin {"kernel", "tick_kernel"}
    BY <2>1, CurrentThread
       DEF IInv, Places, Placed, Suspended, KernelPlaces, Schedulable, CurrentPid
  <2>3. /\ Under(at) \in Place \ {"none", "dead"} /\ Under(at) \notin CallPlaces
        /\ CurrentPid = None =>
             Under(at) \in KernelPlaces
        /\ CurrentPid # None => Under(at) \notin {"kernel", "tick_kernel"}
    BY <2>1, <2>2, UnderTick DEF Ticks, Place, Interrupted, CallPlaces
  <2>4. QED
    BY <1>6, <1>types, <1>gs, <2>1, <2>3, MoveInv DEF TimerReturn, Current
<1>7. CASE UserFault
  BY <1>7, <1>types, StopInv DEF UserFault, Stops, SelfChecks
<1>8. CASE SyscallEntry
  <2>1. mode = "run" /\ ~InKernelCall /\ CurrentPid # None
    BY <1>8, CallerProcess DEF SyscallEntry, At, InKernelCall, AtSome
  <2>2. CASE kernelGs
    BY <1>8, <1>types, <2>2, StopInv DEF SyscallEntry, Stops, SelfChecks
  <2>3. CASE ~kernelGs
    <3>1. /\ "syscall" \in Place \ {"none", "dead"} /\ "syscall" \in CallPlaces
          /\ "syscall" \notin {"kernel", "tick_kernel"}
      BY DEF Place, CallPlaces
    <3>2. /\ mode' = "run" /\ UNCHANGED <<procs, cr3, timerExits>>
          /\ kernelGs' = ~timerExits
          /\ threads' = [threads EXCEPT ![Current].at = "syscall"]
          /\ cpu' = [cpu EXCEPT !.saved_user_rsp = Current]
      BY <1>8, <1>types, <1>gs, <2>1, <2>3 DEF SyscallEntry
    <3>3. /\ cpu' \in [current_tid: Tid \cup {None}, saved_user_rsp: Tid \cup {None}]
          /\ Current' = Current /\ cpu'.saved_user_rsp = Current
      BY <1>1, <1>types, <2>1, <3>2 DEF Current
    <3>4. QED
      BY <1>types, <2>1, <3>1, <3>2, <3>3, MoveInv
  <2>4. QED
    BY <2>2, <2>3
<1>9. CASE Syscall
  BY <1>9, SyscallInv
<1>10. CASE KilledInSyscall
  <2>1. mode = "run" /\ InKernelCall /\ CurrentPid # None
    BY <1>10, CallerProcess DEF KilledInSyscall, InKernelCall, AtSome
  <2>2. QED
    BY <1>10, <2>1, ExitInv DEF KilledInSyscall
<1>11. CASE SyscallReturn
  <2>1. mode = "run" /\ InKernelCall /\ CurrentPid # None
    BY <1>11, CallerProcess DEF SyscallReturn, At, InKernelCall, AtSome
  <2>2. kernelGs = ~timerExits
    BY <2>1 DEF IInv, GsByParity
  <2>3. CASE kernelGs
    <3>1. /\ "user" \in Place \ {"none", "dead"} /\ "user" \notin CallPlaces
          /\ "user" \notin {"kernel", "tick_kernel"}
      BY DEF Place, Interrupted, CallPlaces
    <3>2. /\ mode' = "run" /\ UNCHANGED <<procs, cpu, cr3, timerExits>>
          /\ kernelGs' = timerExits
          /\ threads' = [threads EXCEPT ![Current].at = "user"]
      BY <1>11, <1>types, <2>1, <2>2, <2>3 DEF SyscallReturn
    <3>3. QED
      BY <1>types, <2>1, <3>1, <3>2, MoveInv DEF Current
  <2>4. CASE ~kernelGs
    BY <1>11, <1>types, <2>4, StopInv DEF SyscallReturn, Stops, SelfChecks
  <2>5. QED
    BY <2>3, <2>4
<1>12. CASE HltLoop \/ UNCHANGED vars
  <2>1. UNCHANGED vars
    BY <1>12 DEF HltLoop
  <2>2. QED
    BY <2>1
       DEF vars, IInv, TypeOK, SelfChecksHold, OneRunning, TablesAgree, Matches,
       KeyboardReady, InitLives, OwnTable, Places, Placed, Suspended, KernelPlaces,
       SlotIsOwn, OwnAddressSpace,
       GsByParity, WaitTestIsDead, Schedulable, HasProcessor, InKernelCall, AtSome,
       Current, CurrentPid, CurrentProcess
<1>13. QED
  BY <1>2, <1>3, <1>4, <1>5, <1>6, <1>7, <1>8, <1>9, <1>10, <1>11, <1>12 DEF Next

\* Boot establishes the types.
LEMMA InitTypeOK == Init => TypeOK
<1> SUFFICES ASSUME Init PROVE TypeOK
  OBVIOUS
<1> USE SizesAssumption, NoneAssumption
<1>1. threads \in [Tid -> Thread]
  BY DEF Init, Thread, ThreadState, Place, Ticks, Interrupted, Tid, Pid, NoThread,
         NewThread, KeyboardTid, InitTid, INIT_PID
<1>2. procs \in [Pid -> Process]
  BY DEF Init, Process, ProcessState, PageTable, Tid, Pid, NoProcess, NewProcess,
         InitTid, INIT_PID
<1>3. QED
  BY <1>1, <1>2 DEF Init, TypeOK, PageTable, Pid

\* Boot establishes the invariant.
LEMMA InitInv == Init => IInv
<1> SUFFICES ASSUME Init PROVE IInv
  OBVIOUS
<1>1. TypeOK
  BY InitTypeOK
<1>2. /\ KeyboardTid \in Tid /\ InitTid \in Tid /\ InitTid # KeyboardTid
      /\ INIT_PID \in Pid /\ INIT_PID # None
      /\ threads[KeyboardTid] = NewThread(None, "Runnable", None)
      /\ threads[InitTid] = NewThread(INIT_PID, "Runnable", InitTid)
      /\ \A t \in Tid \ {KeyboardTid, InitTid} : threads[t] = NoThread
      /\ procs[INIT_PID] = NewProcess(INIT_PID, None, InitTid)
      /\ \A p \in Pid \ {INIT_PID} : procs[p] = NoProcess
  BY SizesAssumption, NoneAssumption
     DEF Init, Tid, Pid, KeyboardTid, InitTid, INIT_PID
<1>3. /\ threads[KeyboardTid].state = "Runnable" /\ threads[KeyboardTid].pid = None
      /\ threads[KeyboardTid].at = "start"
      /\ threads[InitTid].state = "Runnable" /\ threads[InitTid].pid = INIT_PID
      /\ threads[InitTid].at = "start"
      /\ \A t \in Tid \ {KeyboardTid, InitTid} : threads[t].state = "Unused"
      /\ \A t \in Tid : threads[t].wait_killed = FALSE
  BY <1>2 DEF NewThread, NoThread
<1>4. /\ procs[INIT_PID].state = "Alive" /\ procs[INIT_PID].pid = INIT_PID
      /\ procs[INIT_PID].tid = InitTid /\ procs[INIT_PID].page_table = <<INIT_PID, 0>>
      /\ \A p \in Pid \ {INIT_PID} : procs[p].state = "None"
  BY <1>2 DEF NewProcess, NoProcess
<1>5. mode = "scheduler" /\ kernelGs = FALSE /\ timerExits = FALSE
  BY DEF Init
<1>6. SelfChecksHold /\ OneRunning /\ WaitTestIsDead
  BY <1>3, <1>5 DEF SelfChecksHold, SelfChecks, OneRunning, WaitTestIsDead
<1>7. TablesAgree
  BY <1>2, <1>3, <1>4 DEF TablesAgree, Matches
<1>8. KeyboardReady /\ InitLives
  BY <1>2, <1>3, <1>4 DEF KeyboardReady, Schedulable, InitLives
<1>9. OwnTable
  <2>1. <<INIT_PID, 0>> \in PageTable /\ <<INIT_PID, 0>>[1] = INIT_PID
    BY <1>2, SizesAssumption DEF PageTable
  <2>2. QED
    BY <1>4, <2>1 DEF OwnTable
<1>10. Places
  BY <1>2, <1>3 DEF Places, Placed, Suspended, KernelPlaces, Schedulable
<1>11. SlotIsOwn /\ OwnAddressSpace /\ GsByParity
  BY <1>5 DEF SlotIsOwn, OwnAddressSpace, GsByParity, InKernelCall, AtSome
<1>12. QED
  BY <1>1, <1>5, <1>6, <1>7, <1>8, <1>9, <1>10, <1>11 DEF IInv

-----------------------------------------------------------------------------
(* The theorems.                                                           *)

\* The inductive invariant holds in every reachable state, for every size of
\* the tables: the safety theorems below follow from it.
THEOREM Invariance == Spec => []IInv
BY InitInv, StepInv, PTL DEF Spec

\* Every variable keeps the type its source declares.
THEOREM TypeCorrect == Spec => []TypeOK
<1>1. IInv => TypeOK
  BY DEF IInv
<1>2. QED
  BY <1>1, Invariance, PTL

\* on_yield always finds its thread Running, and the scheduler always a thread
\* to run and a page table behind it.
THEOREM SelfChecksMet == Spec => []SelfChecksHold
<1>1. IInv => SelfChecksHold
  BY DEF IInv
<1>2. QED
  BY <1>1, Invariance, PTL

\* At most one thread is marked Running, and it is the one that runs.
THEOREM OneRunner == Spec => []OneRunning
<1>1. IInv => OneRunning
  BY DEF IInv
<1>2. QED
  BY <1>1, Invariance, PTL

\* The thread table and the process table agree on who owns whom and on who is
\* alive, in every state between two critical sections.
THEOREM Agreement == Spec => []TablesAgree
<1>1. IInv => TablesAgree
  BY DEF IInv
<1>2. QED
  BY <1>1, Invariance, PTL

\* A system call returns on its own user stack, though every system call in
\* between used the same slot of the CPU structure.
THEOREM StackOwned == Spec => []OwnStack
<1>1. IInv => OwnStack
  BY DEF IInv, SlotIsOwn, OwnStack, InKernelCall, At, AtSome
<1>2. QED
  BY <1>1, Invariance, PTL

\* A thread runs on its own live process's page table.
THEOREM AddressSpaceOwned == Spec => []OwnAddressSpace
<1>1. IInv => OwnAddressSpace
  BY DEF IInv
<1>2. QED
  BY <1>1, Invariance, PTL

\* GS is off by exactly the parity of the killed processes that the timer
\* handler made exit.
THEOREM GsParity == Spec => []GsByParity
<1>1. IInv => GsByParity
  BY DEF IInv
<1>2. QED
  BY <1>1, Invariance, PTL

\* A slot that the scan from a meets after b is closer to b than it was to a.
LEMMA ScanCloser ==
  ASSUME NEW a \in Tid, NEW b \in Tid, NEW c \in Tid, b # c,
         Distance(a, b) <= Distance(a, c)
  PROVE  Distance(b, c) < Distance(a, c)
BY SizesAssumption DEF Distance, Tid

\* What RoundRobin says of a step
Closer == mode = "scheduler" /\ mode' = "run" =>
            \A t \in Tid : Runnable(t) /\ t # cpu'.current_tid =>
              /\ threads'[t].state = "Runnable"
              /\ Distance(cpu'.current_tid, t) < Distance(ScanFrom, t)
LEMMA StepBringsCloser == IInv /\ [Next]_vars => [Closer]_vars
<1> SUFFICES ASSUME IInv, Next, mode = "scheduler", mode' = "run",
                    NEW t \in Tid, Runnable(t), t # cpu'.current_tid
             PROVE  /\ threads'[t].state = "Runnable"
                    /\ Distance(cpu'.current_tid, t) < Distance(ScanFrom, t)
  BY DEF Closer
<1>1. Dispatch
  BY DEF Next, TakeLocks, Enter, Timer, TimerInKernel, TimerInUser, TimerKills,
     TimerSpins, TimerReturn, UserFault, SyscallEntry, Syscall, SysFork,
     SysForkCopyFails, SysForkTableFull, SysExec, SysExecPanics, SysExit, SysKill,
     SysWait, SysWaitAgain, SysOther, InSyscall, KilledInSyscall, SyscallReturn,
     HltLoop, At, AtSome, Stops, SelfChecks
<1>2. PICK u \in Tid : NextRunnable(u) /\ Chosen(u)
  BY <1>1, DispatchStep
<1>3. cpu'.current_tid = u
  BY <1>2 DEF Chosen
<1>4. threads'[t].state = "Runnable"
  BY <1>2, <1>3 DEF Chosen, Runnable
<1>5. ScanFrom \in Tid
  BY SizesAssumption DEF ScanFrom, IInv, TypeOK, Current, Tid
<1>6. Distance(ScanFrom, u) <= Distance(ScanFrom, t)
  BY <1>2 DEF NextRunnable
<1>7. QED
  BY <1>3, <1>4, <1>5, <1>6, ScanCloser

\* A runnable thread that is not chosen stays runnable and is closer to the
\* scan's start next time (round-robin): it waits for at most NTHREAD - 1 choices.
THEOREM NoOvertaking == Spec => RoundRobin
BY StepBringsCloser, Invariance, PTL DEF Spec, RoundRobin, Closer

-----------------------------------------------------------------------------
(* What is left for good                                                   *)

\* A step takes place in the scheduler, or is one of the running thread's.
LEMMA NextKinds ==
  ASSUME Next
  PROVE  \/ Dispatch
         \/ mode = "run" /\ (TakeLocks \/ Enter \/ Timer \/ TimerReturn \/ UserFault
                             \/ SyscallEntry \/ KilledInSyscall \/ SyscallReturn)
         \/ mode = "run" /\ Syscall
         \/ UNCHANGED vars
BY DEF Next, TakeLocks, Enter, Timer, TimerInKernel, TimerInUser, TimerKills,
       TimerSpins, TimerReturn, UserFault, SyscallEntry, Syscall, SysFork,
       SysForkCopyFails, SysForkTableFull, SysExec, SysExecPanics, SysExit, SysKill,
       SysWait, SysWaitAgain, SysOther, InSyscall, KilledInSyscall, SyscallReturn,
       HltLoop, At, AtSome

\* exit changes the caller's process and thread only.
LEMMA ExitIsOwn ==
  ASSUME IInv, mode = "run", CurrentPid # None, Exit, NEW t \in Tid, t # Current,
         NEW p \in Pid
  PROVE  /\ threads'[t] = threads[t]
         /\ procs'[p] = procs[p] \/ (p = CurrentPid /\ procs'[p].state = "Zombie"
              /\ procs'[p].ppid = procs[p].ppid /\ procs'[p].tid = procs[p].tid)
<1>1. CurrentProcess.tid = Current /\ Current \in Tid /\ CurrentPid \in Pid
  BY CurrentThread
<1>2. threads \in [Tid -> Thread] /\ procs \in [Pid -> Process]
  BY DEF IInv, TypeOK
<1>3. CASE CurrentPid = INIT_PID
  BY <1>3 DEF Exit, Panic
<1>4. CASE CurrentPid # INIT_PID
  <2>1. procs' = [procs EXCEPT ![CurrentPid].state = "Zombie"]
    BY <1>4 DEF Exit
  <2>2. threads'[t] = threads[t]
    BY <1>1, <1>2, <1>4 DEF Exit, OnSyscallYield, CurrentProcess
  <2>3. QED
    BY <1>1, <1>2, <2>1, <2>2 DEF Process
<1>5. QED
  BY <1>3, <1>4

\* wait resets a child of the caller that is a zombie, and its thread.
LEMMA WaitIsOwn ==
  ASSUME IInv, mode = "run", CurrentPid # None, NEW b \in BOOLEAN, WaitLoop(b),
         NEW t \in Tid, t # Current, threads[t].state = "Embryo", NEW p \in Pid
  PROVE  /\ threads'[t] = threads[t]
         /\ procs'[p] = procs[p] \/ procs[p].ppid = CurrentPid
<1>1. Current \in Tid /\ CurrentPid \in Pid
  BY CurrentThread
<1>2. threads \in [Tid -> Thread] /\ procs \in [Pid -> Process]
  BY DEF IInv, TypeOK
<1>3. CASE \E q \in ZombieChildren : Reap(q)
  <2>1. PICK q \in ZombieChildren : Reap(q)
    BY <1>3
  <2>2. q \in Pid /\ procs[q].state = "Zombie" /\ procs[q].ppid = CurrentPid
    BY SizesAssumption DEF ZombieChildren, Children, Scanned, Pid
  <2>3. procs[q].tid \in Tid /\ threads[procs[q].tid].state = "Zombie"
    BY <2>2 DEF IInv, TablesAgree, Matches
  <2>4. threads'[t] = threads[t]
    BY <1>1, <1>2, <2>1, <2>3 DEF Reap, Return
  <2>5. procs'[p] = procs[p] \/ p = q
    BY <1>2, <2>1, <2>2 DEF Reap
  <2>6. QED
    BY <2>2, <2>4, <2>5
<1>4. CASE UNCHANGED procs /\ Return(threads)
  BY <1>1, <1>2, <1>4 DEF Return
<1>5. CASE UNCHANGED procs
           /\ OnSyscallYield([threads EXCEPT ![Current].wait_killed = b], "wait")
  BY <1>1, <1>2, <1>5 DEF OnSyscallYield
<1>6. QED
  BY <1>3, <1>4, <1>5 DEF WaitLoop

\* The parts of LeftForGood, for one process and for one thread
OrphanStays(p) ==
  Orphan(p) => /\ procs'[p].state \in {"Alive", "Zombie"}
               /\ procs'[p].ppid = procs[p].ppid /\ procs'[p].tid = procs[p].tid
EmbryoStays(t) == threads[t].state = "Embryo" => threads'[t] = threads[t]

\* The steps of a system call leave orphans and embryos alone.
LEMMA CallLeaves ==
  ASSUME IInv, mode = "run", Syscall, NEW p \in Pid, NEW t \in Tid
  PROVE  OrphanStays(p) /\ EmbryoStays(t)
<1> SUFFICES ASSUME threads[t].state = "Embryo" \/ Orphan(p)
             PROVE  OrphanStays(p) /\ EmbryoStays(t)
  BY DEF OrphanStays, EmbryoStays
<1>1. threads \in [Tid -> Thread] /\ procs \in [Pid -> Process]
  BY DEF IInv, TypeOK
<1>2. Current \in Tid /\ threads[Current].state = "Running"
  BY CurrentThread
<1>3. threads[Current].at \in {"syscall", "wait"}
  BY DEF Syscall, SysFork, SysForkCopyFails, SysForkTableFull, SysExec, SysExecPanics,
         SysExit, SysKill, SysWait, SysWaitAgain, SysOther, InSyscall, At
<1>4. CurrentPid # None
  BY <1>3, CallerProcess DEF KernelPlaces
<1>5. CurrentPid \in Pid /\ CurrentProcess.state = "Alive" /\ CurrentProcess.tid = Current
  BY <1>4, CurrentThread
<1>6. Orphan(p) => procs[p].ppid # CurrentPid /\ procs[p].state \in {"Alive", "Zombie"}
  BY <1>5 DEF Orphan, CurrentProcess
<1>7. CASE Fork \/ ForkCopyFails
  <2>1. ASSUME NEW q \in Pid, NEW u \in Tid, NextPid(q), NextTid(u)
        PROVE  procs[q].state = "None" /\ threads[u].state = "Unused"
    BY <2>1 DEF NextPid, NextTid
  <2>2. CASE Fork
    BY <1>1, <1>2, <1>6, <2>1, <2>2 DEF Fork, Return, OrphanStays, EmbryoStays
  <2>3. CASE ForkCopyFails
    BY <1>1, <1>2, <1>6, <2>1, <2>3 DEF ForkCopyFails, Return, OrphanStays, EmbryoStays
  <2>4. QED
    BY <1>7, <2>2, <2>3
<1>8. CASE UNCHANGED procs /\ Return(threads)
  BY <1>1, <1>2, <1>6, <1>8 DEF Return, OrphanStays, EmbryoStays
<1>9. CASE Exec
  BY <1>1, <1>2, <1>5, <1>6, <1>9 DEF Exec, Return, OrphanStays, EmbryoStays, Process
<1>10. CASE Exit
  <2>1. threads[t].state = "Embryo" => t # Current
    BY <1>2
  <2>2. procs'[p] = procs[p] \/ (p = CurrentPid /\ procs'[p].state = "Zombie"
          /\ procs'[p].ppid = procs[p].ppid /\ procs'[p].tid = procs[p].tid)
    <3>1. PICK u \in Tid : u # Current
      BY <1>2, SizesAssumption DEF Tid
    <3>2. QED
      BY <1>4, <1>10, <3>1, ExitIsOwn
  <2>3. QED
    BY <1>4, <1>6, <1>10, <2>1, <2>2, ExitIsOwn DEF OrphanStays, EmbryoStays
<1>11. CASE \E q \in Pid : Kill(q)
  <2>1. PICK q \in Pid : Kill(q)
    BY <1>11
  <2>2. UNCHANGED procs \/ \E i \in Scanned : procs' = [procs EXCEPT ![i].killed = TRUE]
    BY <2>1 DEF Kill
  <2>3. procs'[p].state = procs[p].state /\ procs'[p].ppid = procs[p].ppid
          /\ procs'[p].tid = procs[p].tid
    BY <1>1, <2>2 DEF Process
  <2>4. QED
    BY <1>1, <1>2, <1>6, <2>1, <2>3 DEF Kill, Return, OrphanStays, EmbryoStays
<1>12. CASE \E b \in BOOLEAN : WaitLoop(b)
  <2>1. PICK b \in BOOLEAN : WaitLoop(b)
    BY <1>12
  <2>2. threads[t].state = "Embryo" => threads'[t] = threads[t]
    BY <1>2, <1>4, <2>1, WaitIsOwn
  <2>3. procs'[p] = procs[p] \/ procs[p].ppid = CurrentPid
    BY <1>1, <1>5, <2>1, SizesAssumption
       DEF WaitLoop, Reap, ZombieChildren, Children, Scanned, Pid
  <2>4. QED
    BY <1>6, <2>2, <2>3 DEF OrphanStays, EmbryoStays
<1>13. CASE UNCHANGED <<threads, procs>>
  BY <1>6, <1>13 DEF OrphanStays, EmbryoStays
<1>14. QED
  <2>1. CurrentProcess.killed \in BOOLEAN /\ threads[Current].wait_killed \in BOOLEAN
    BY <1>1, <1>2, <1>5 DEF Process, Thread, CurrentProcess
  <2>2. CASE SysForkTableFull \/ SysOther
    BY <1>8, <2>2 DEF SysForkTableFull, ForkTableFull, SysOther
  <2>3. CASE SysExecPanics
    BY <1>13, <2>3 DEF SysExecPanics, Panic
  <2>4. QED
    BY <1>7, <1>9, <1>10, <1>11, <1>12, <2>1, <2>2, <2>3
       DEF Syscall, SysFork, SysForkCopyFails, SysExec, SysExit, SysKill, SysWait,
           SysWaitAgain

\* So do all the others.
LEMMA OthersLeave ==
  ASSUME IInv, mode = "run", NEW p \in Pid, NEW t \in Tid,
         TakeLocks \/ Enter \/ Timer \/ TimerReturn \/ UserFault
           \/ SyscallEntry \/ KilledInSyscall \/ SyscallReturn
  PROVE  OrphanStays(p) /\ EmbryoStays(t)
<1>1. threads \in [Tid -> Thread] /\ procs \in [Pid -> Process]
  BY DEF IInv, TypeOK
<1>2. Current \in Tid /\ threads[Current].state = "Running"
  BY CurrentThread
<1>3. CASE Exit /\ threads[Current].at \notin KernelPlaces
  <2>1. CurrentPid # None
    BY <1>3, CallerProcess
  <2>2. threads[t].state = "Embryo" => threads'[t] = threads[t]
    BY <1>2, <1>3, <2>1, ExitIsOwn
  <2>3. PICK u \in Tid : u # Current
    BY <1>2, SizesAssumption DEF Tid
  <2>4. procs'[p] = procs[p] \/ (procs'[p].state = "Zombie"
          /\ procs'[p].ppid = procs[p].ppid /\ procs'[p].tid = procs[p].tid)
    BY <1>3, <2>1, <2>3, ExitIsOwn
  <2>5. QED
    BY <2>2, <2>4 DEF OrphanStays, EmbryoStays, Orphan
<1>4. CASE UNCHANGED procs /\ (t # Current => threads'[t] = threads[t])
  BY <1>2, <1>4 DEF OrphanStays, EmbryoStays, Orphan
<1>5. CASE TimerKills \/ KilledInSyscall
  BY <1>3, <1>5 DEF TimerKills, KilledInSyscall, At, AtSome, KernelPlaces
<1>6. CASE TimerInKernel \/ TimerInUser \/ TimerSpins
  BY <1>1, <1>2, <1>4, <1>6 DEF TimerInKernel, TimerInUser, TimerSpins, OnYield
<1>7. CASE TakeLocks \/ Enter \/ TimerReturn \/ UserFault \/ SyscallEntry \/ SyscallReturn
  BY <1>1, <1>2, <1>4, <1>7
     DEF TakeLocks, Enter, TimerReturn, UserFault, SyscallEntry, SyscallReturn
<1>8. QED
  BY <1>5, <1>6, <1>7 DEF Timer

\* A slot of the process table changes its state as that of a process that there
\* is, or is taken from those that are looked at for one.
SlotChanges(p) ==
  procs'[p].state # procs[p].state =>
    procs[p].state \in {"Alive", "Zombie"} \/ (procs[p].state = "None" /\ p \in Scanned)
LEMMA StepChangesSlots ==
  ASSUME IInv, Next, NEW p \in Pid
  PROVE  SlotChanges(p)
<1>1. procs \in [Pid -> Process]
  BY DEF IInv, TypeOK
<1>2. ASSUME procs'[p].state = procs[p].state PROVE SlotChanges(p)
  BY <1>2 DEF SlotChanges
<1>3. CASE mode = "run" /\ Exit /\ threads[Current].at \notin KernelPlaces
  <2>1. CurrentPid # None /\ CurrentProcess.state = "Alive" /\ Current \in Tid
    BY <1>3, CallerProcess, CurrentThread
  <2>2. PICK u \in Tid : u # Current
    BY <2>1, SizesAssumption DEF Tid
  <2>3. QED
    BY <1>3, <2>1, <2>2, ExitIsOwn DEF CurrentProcess, SlotChanges
<1>4. CASE Fork
  <2>1. PICK q \in Pid, u \in Tid :
          NextPid(q) /\ procs' = [procs EXCEPT ![q] = NewProcess(q, CurrentPid, u)]
    BY <1>4 DEF Fork
  <2>2. q \in Scanned /\ procs[q].state = "None"
    BY <2>1 DEF NextPid
  <2>3. p # q => procs'[p] = procs[p]
    BY <1>1, <2>1
  <2>4. QED
    BY <2>2, <2>3 DEF SlotChanges
<1>5. CASE SysExec
  <2>1. procs' = [procs EXCEPT ![CurrentPid].page_table =
                    <<CurrentPid, CurrentProcess.page_table[2] + 1>>]
    BY <1>5 DEF SysExec, Exec
  <2> DEFINE pt == <<CurrentPid, CurrentProcess.page_table[2] + 1>>
  <2> HIDE DEF pt
  <2>2. procs'[p].state = procs[p].state
    BY <1>1, <2>1 DEF Process
  <2>3. QED
    BY <1>2, <2>2
<1>6. CASE \E q \in Pid : Kill(q)
  <2>1. PICK q \in Pid : Kill(q)
    BY <1>6
  <2>2. UNCHANGED procs \/ \E i \in Scanned : procs' = [procs EXCEPT ![i].killed = TRUE]
    BY <2>1 DEF Kill
  <2>3. procs'[p].state = procs[p].state
    BY <1>1, <2>2 DEF Process
  <2>4. QED
    BY <1>2, <2>3
<1>7. CASE \E b \in BOOLEAN : WaitLoop(b)
  <2>1. UNCHANGED procs \/ \E q \in ZombieChildren : Reap(q)
    BY <1>7 DEF WaitLoop
  <2>2. CASE \E q \in ZombieChildren : Reap(q)
    <3>1. PICK q \in ZombieChildren : Reap(q)
      BY <2>2
    <3>2. procs[q].state = "Zombie"
      BY <3>1 DEF ZombieChildren
    <3>3. p # q => procs'[p] = procs[p]
      BY <1>1, <3>1 DEF Reap
    <3>4. QED
      BY <3>2, <3>3 DEF SlotChanges
  <2>3. QED
    BY <1>2, <2>1, <2>2
<1>8. CASE mode = "run" /\ Syscall
  <2>1. CASE SysFork \/ SysExec
    BY <1>4, <1>5, <2>1 DEF SysFork
  <2>2. CASE SysForkCopyFails \/ SysForkTableFull \/ SysExecPanics \/ SysOther
    <3>1. UNCHANGED procs
      BY <2>2 DEF SysForkCopyFails, ForkCopyFails, SysForkTableFull,
         ForkTableFull, SysExecPanics, Panic, SysOther
    <3>2. QED
      BY <1>2, <3>1
  <2>3. CASE SysExit
    <3>1. Exit /\ threads[Current].at = "syscall"
      BY <2>3 DEF SysExit, InSyscall, At
    <3>2. QED
      BY <1>3, <1>8, <3>1 DEF KernelPlaces
  <2>4. CASE SysKill
    BY <1>6, <2>4 DEF SysKill
  <2>5. CASE SysWait \/ SysWaitAgain
    <3>1. CASE WaitLoop(CurrentProcess.killed)
      <4>1. CurrentProcess.killed \in BOOLEAN
        <5>1. threads[Current].at \in {"syscall", "wait"}
          BY <2>5 DEF SysWait, SysWaitAgain, InSyscall, At
        <5>2. CurrentPid \in Pid
          BY <1>8, <5>1, CallerProcess, CurrentThread DEF KernelPlaces
        <5>3. QED
          BY <1>1, <5>2 DEF CurrentProcess, Process
      <4>2. QED
        BY <1>7, <3>1, <4>1
    <3>2. CASE WaitLoop(threads[Current].wait_killed)
      <4>1. threads[Current].wait_killed \in BOOLEAN
        BY <1>8, CurrentThread DEF IInv, TypeOK, Thread
      <4>2. QED
        BY <1>7, <3>2, <4>1
    <3>3. QED
      BY <2>5, <3>1, <3>2 DEF SysWait, SysWaitAgain
  <2>6. QED
    BY <1>8, <2>1, <2>2, <2>3, <2>4, <2>5 DEF Syscall
<1>9. CASE mode = "run" /\ (TimerKills \/ KilledInSyscall)
  BY <1>3, <1>9 DEF TimerKills, KilledInSyscall, At, AtSome, KernelPlaces
<1>10. QED
  BY <1>2, <1>8, <1>9, NextKinds
     DEF Dispatch, TakeLocks, Enter, Timer, TimerInKernel, TimerInUser, TimerSpins,
         TimerReturn, UserFault, SyscallEntry, SyscallReturn, vars

\* So the slot of a reaped process stays as it is, but for a flag.
FreedStays(p) == procs[p].state = "Unused" => procs'[p].state = "Unused"
LEMMA StepKeepsFreed ==
  ASSUME IInv, Next, NEW p \in Pid
  PROVE  FreedStays(p)
BY StepChangesSlots DEF SlotChanges, FreedStays

\* What LeftForGood says of a step
Left == /\ \A p \in Pid : OrphanStays(p)
        /\ \A p \in Pid : FreedStays(p)
        /\ \A t \in Tid : EmbryoStays(t)
LEMMA StepLeaves == IInv /\ [Next]_vars => [Left]_vars
<1> SUFFICES ASSUME IInv, Next, NEW p \in Pid, NEW t \in Tid
             PROVE  (OrphanStays(p) /\ FreedStays(p) /\ EmbryoStays(t)) \/ UNCHANGED vars
  BY SizesAssumption DEF Left, Pid, Tid
<1>1. CASE Dispatch
  <2>1. UNCHANGED procs /\ threads \in [Tid -> Thread]
    BY <1>1 DEF Dispatch, IInv, TypeOK
  <2>2. UNCHANGED threads \/ \E u \in Tid : Runnable(u) /\ threads' = AfterChoice(u)
    BY <1>1 DEF Dispatch, SwitchTo, NextRunnable
  <2>3. EmbryoStays(t)
    BY <2>1, <2>2 DEF AfterChoice, Runnable, EmbryoStays
  <2>4. QED
    BY <2>1, <2>3, StepKeepsFreed DEF OrphanStays, Orphan
<1>2. QED
  BY <1>1, NextKinds, CallLeaves, OthersLeave, StepKeepsFreed

\* Nobody ever reaps an orphan, uses the slot of a reaped process again or resets
\* the thread of a failed fork, however large the tables: slots are lost one by
\* one, with every child that ends.
THEOREM NobodyCleansUp == Spec => LeftForGood
BY StepLeaves, Invariance, PTL
   DEF Spec, LeftForGood, Left, OrphanStays, FreedStays, EmbryoStays

-----------------------------------------------------------------------------
(* The abstract life of processes                                          *)

\* The refinement mapping
life == [p \in Pid |-> StageOf(procs[p].state)]
parent == [p \in Pid |-> procs[p].ppid]

\* The values of StageOf.
LEMMA Stages == /\ StageOf("None") = "absent" /\ StageOf("Alive") = "alive"
                /\ StageOf("Zombie") = "zombie" /\ StageOf("Unused") = "reaped"
BY DEF StageOf

\* A step that changes one slot of the process table changes one life.
LEMMA LifeUpdate ==
  ASSUME NEW p \in Pid, \A q \in Pid : q # p => procs'[q] = procs[q]
  PROVE  /\ life' = [life EXCEPT ![p] = StageOf(procs'[p].state)]
         /\ parent' = [parent EXCEPT ![p] = procs'[p].ppid]
BY DEF life, parent

\* Boot: the root exists.
LEMMA LifeInit == Init => Life!Init
<1> SUFFICES ASSUME Init PROVE Life!Init
  OBVIOUS
<1>1. /\ NoProcess.state = "None" /\ NoProcess.ppid = None
      /\ NewProcess(INIT_PID, None, InitTid).state = "Alive"
      /\ NewProcess(INIT_PID, None, InitTid).ppid = None
  BY DEF NoProcess, NewProcess
<1>2. \A p \in Pid : /\ procs[p].ppid = None
                     /\ procs[p].state = IF p = INIT_PID THEN "Alive" ELSE "None"
  BY <1>1 DEF Init
<1>3. QED
  BY <1>2, Stages DEF Life!Init

\* Steps that change no state and no parent do nothing to anybody's life.
LEMMA LifeStutters ==
  ASSUME \A p \in Pid : /\ procs'[p].state = procs[p].state
                        /\ procs'[p].ppid = procs[p].ppid
  PROVE  UNCHANGED Life!lifeVars
BY DEF Life!lifeVars

\* fork creates a child of a live process.
LEMMA LifeCreate ==
  ASSUME IInv, At("syscall"), Fork
  PROVE  Life!Next
<1>1. PICK p \in Pid, t \in Tid :
        /\ NextPid(p)
        /\ procs' = [procs EXCEPT ![p] = NewProcess(p, CurrentPid, t)]
  BY DEF Fork
<1>2. PICK q \in Pid : q = CurrentPid /\ procs[q].state = "Alive"
  BY CallerProcess, CurrentThread DEF At, CurrentProcess, KernelPlaces
<1>3. procs[p].state = "None"
  BY <1>1 DEF NextPid
<1>4. /\ NewProcess(p, CurrentPid, t).state = "Alive"
      /\ NewProcess(p, CurrentPid, t).ppid = q
  BY <1>2 DEF NewProcess
<1>5. /\ \A r \in Pid : r # p => procs'[r] = procs[r]
      /\ procs'[p].state = "Alive" /\ procs'[p].ppid = q
  BY <1>1, <1>2, <1>4 DEF IInv, TypeOK
<1>6. Life!Create(p, q)
  <2>1. /\ life[p] = "absent" /\ life[q] = "alive"
        /\ life' = [life EXCEPT ![p] = "alive"]
        /\ parent' = [parent EXCEPT ![p] = q]
    <3>1. life[p] = "absent" /\ life[q] = "alive"
      BY <1>2, <1>3, Stages DEF life
    <3>2. QED
      BY <1>5, <3>1, Stages, LifeUpdate
  <2>2. QED
    BY <2>1 DEF Life!Create, life, parent
<1>7. QED
  BY <1>2, <1>6 DEF Life!Next

\* exit ends a live process that is not the root (or stops the kernel).
LEMMA LifeExit ==
  ASSUME IInv, mode = "run", CurrentPid # None, Exit
  PROVE  Life!Next \/ UNCHANGED Life!lifeVars
<1>1. CASE CurrentPid = INIT_PID
  BY <1>1, LifeStutters DEF Exit, Panic
<1>2. CASE CurrentPid # INIT_PID
  <2>1. /\ CurrentPid \in Pid /\ procs[CurrentPid].state = "Alive"
        /\ procs' = [procs EXCEPT ![CurrentPid].state = "Zombie"]
    BY <1>2, CurrentThread DEF Exit, CurrentProcess
  <2>2. /\ procs'[CurrentPid].state = "Zombie"
        /\ procs'[CurrentPid].ppid = procs[CurrentPid].ppid
        /\ \A q \in Pid : q # CurrentPid => procs'[q] = procs[q]
    BY <2>1 DEF IInv, TypeOK, Process
  <2>3. Life!Exit(CurrentPid)
    <3>1. life[CurrentPid] = "alive"
      BY <2>1, Stages DEF life
    <3>2. life' = [life EXCEPT ![CurrentPid] = "zombie"]
      BY <2>1, <2>2, Stages, LifeUpdate
    <3>3. UNCHANGED parent
      BY <2>1, <2>2 DEF parent
    <3>4. QED
      BY <1>2, <3>1, <3>2, <3>3 DEF Life!Exit, life, parent
  <2>4. QED
    BY <2>1, <2>3 DEF Life!Next
<1>3. QED
  BY <1>1, <1>2

\* wait collects an exited child of its live caller, or nothing.
LEMMA LifeWait ==
  ASSUME IInv, InKernelCall, WaitLoop(FALSE)
  PROVE  Life!Next \/ UNCHANGED Life!lifeVars
<1>1. CASE \E p \in ZombieChildren : Reap(p) /\ UNCHANGED <<cpu, cr3, kernelGs, mode>>
  <2>1. PICK p \in ZombieChildren : Reap(p)
    BY <1>1
  <2>2. PICK q \in Pid : q = CurrentPid /\ procs[q].state = "Alive"
    BY CallerProcess, CurrentThread
       DEF InKernelCall, AtSome, CurrentProcess, KernelPlaces
  <2>3. p \in Pid /\ procs[p].state = "Zombie" /\ procs[p].ppid = q
    BY <2>2, SizesAssumption DEF ZombieChildren, Children, Scanned, Pid
  <2>4. procs' = [procs EXCEPT ![p] = FreedProcess]
    BY <2>1, <2>2, <2>3, ReapFrees
  <2>5. FreedProcess.state = "Unused" /\ FreedProcess.ppid = None
    BY DEF FreedProcess
  <2>6. /\ procs'[p] = FreedProcess
        /\ \A r \in Pid : r # p => procs'[r] = procs[r]
    BY <2>3, <2>4 DEF IInv, TypeOK
  <2>7. Life!Collect(p, q)
    <3>1. /\ life[p] = "zombie" /\ parent[p] = q
          /\ life[q] = "alive"
      BY <2>2, <2>3, Stages DEF life, parent
    <3>2. /\ life' = [life EXCEPT ![p] = "reaped"]
          /\ parent' = [parent EXCEPT ![p] = None]
      BY <2>3, <2>5, <2>6, Stages, LifeUpdate
    <3>3. QED
      BY <3>1, <3>2 DEF Life!Collect, life, parent
  <2>8. QED
    BY <2>2, <2>3, <2>7 DEF Life!Next
<1>2. CASE UNCHANGED procs
  BY <1>2, LifeStutters
<1>3. QED
  BY <1>1, <1>2 DEF WaitLoop

\* Every step is a step of the abstract life of processes, or a stutter.
LEMMA LifeStep == IInv /\ [Next]_vars => [Life!Next]_(Life!lifeVars)
<1> SUFFICES ASSUME IInv, [Next]_vars PROVE Life!Next \/ UNCHANGED Life!lifeVars
  OBVIOUS
<1>1. CASE UNCHANGED procs
  BY <1>1, LifeStutters
<1>2. CASE SysFork
  BY <1>2, LifeCreate DEF SysFork, InSyscall
<1>3. CASE SysExit \/ KilledInSyscall \/ TimerKills
  <2>1. mode = "run" /\ CurrentPid # None /\ Exit
    BY <1>3, CallerProcess
       DEF SysExit, InSyscall, KilledInSyscall, TimerKills, At, AtSome, KernelPlaces
  <2>2. QED
    BY <2>1, LifeExit
<1>4. CASE SysWait \/ SysWaitAgain
  BY <1>4, WaitsWithFalse, LifeWait
<1>5. CASE SysExec
  <2>1. procs' = [procs EXCEPT ![CurrentPid].page_table =
                    <<CurrentPid, CurrentProcess.page_table[2] + 1>>]
    BY <1>5 DEF SysExec, Exec
  <2> DEFINE pt == <<CurrentPid, CurrentProcess.page_table[2] + 1>>
  <2> HIDE DEF pt
  <2>2. QED
    BY <2>1, LifeStutters DEF IInv, TypeOK, Process
<1>6. CASE SysKill
  <2>1. \A p \in Pid : procs'[p].state = procs[p].state /\ procs'[p].ppid = procs[p].ppid
    BY <1>6 DEF SysKill, Kill, IInv, TypeOK, Process
  <2>2. QED
    BY <2>1, LifeStutters
<1>7. QED
  BY <1>1, <1>2, <1>3, <1>4, <1>5, <1>6
    
        DEF Next, vars, Dispatch, TakeLocks, Enter, Timer, TimerInKernel,
            TimerInUser, TimerSpins,
         TimerReturn, UserFault, SyscallEntry, Syscall, SysForkCopyFails,
         ForkCopyFails, SysForkTableFull, ForkTableFull, SysExecPanics, Panic,
         SysOther, SyscallReturn, HltLoop

\* The process table implements the abstract life of processes: created once
\* by a live parent, exited at most once, collected once and by the parent alone.
THEOREM Implements == Spec => ImplementsLifecycle
BY LifeInit, LifeStep, Invariance, PTL DEF Spec, ImplementsLifecycle, Life!Spec

-----------------------------------------------------------------------------
(* Kernel stacks                                                           *)

\* A thread stays in the table, or out of it; it keeps its process; and it is
\* not made a zombie unless it has one.
ThreadKeeps(t) ==
  /\ threads'[t].state # "Unused" <=> InUse(t)
  /\ threads'[t].pid = threads[t].pid
  /\ threads'[t].state = "Zombie" => threads[t].state = "Zombie" \/ threads[t].pid # None

\* exit keeps threads.
LEMMA ExitKeepsThread ==
  ASSUME IInv, mode = "run", CurrentPid # None, Exit, NEW t \in Tid
  PROVE  ThreadKeeps(t)
<1>1. /\ CurrentProcess.tid = Current /\ Current \in Tid /\ CurrentPid \in Pid
      /\ threads[Current].state = "Running" /\ threads[Current].pid = CurrentPid
  BY CurrentThread DEF CurrentPid
<1>2. threads \in [Tid -> Thread]
  BY DEF IInv, TypeOK
<1>3. CASE CurrentPid = INIT_PID
  BY <1>3 DEF Exit, Panic, ThreadKeeps, InUse
<1>4. CASE t # Current
  <2>1. PICK p \in Pid : p = CurrentPid
    BY <1>1
  <2>2. threads'[t] = threads[t]
    BY <1>4, <2>1, ExitIsOwn
  <2>3. QED
    BY <2>2 DEF ThreadKeeps, InUse
<1>5. CASE CurrentPid # INIT_PID /\ t = Current
  <2>1. threads' = [[threads EXCEPT ![t].state = "Zombie"]
                      EXCEPT ![t].rsp3 = cpu.saved_user_rsp, ![t].at = "dead"]
    BY <1>1, <1>5 DEF Exit, OnSyscallYield, CurrentProcess
  <2>2. threads'[t].state = "Zombie" /\ threads'[t].pid = threads[t].pid
    BY <1>2, <2>1 DEF Thread
  <2>3. QED
    BY <1>1, <1>5, <2>2 DEF ThreadKeeps, InUse
<1>6. QED
  BY <1>3, <1>4, <1>5

\* So does every step but those of fork and wait.
OtherStep == \/ Dispatch \/ TakeLocks \/ Enter \/ Timer \/ TimerReturn
             \/ UserFault \/ SyscallEntry \/ KilledInSyscall \/ SyscallReturn \/ HltLoop
             \/ SysForkTableFull \/ SysExec \/ SysExecPanics \/ SysExit \/ SysKill \/ SysOther

LEMMA OtherStepKinds ==
  ASSUME OtherStep
  PROVE  \/ Dispatch \/ UNCHANGED vars
         \/ mode = "run" /\ (Timer \/ TakeLocks \/ Enter \/ TimerReturn \/ UserFault
                               \/ SyscallEntry \/ KilledInSyscall \/ SyscallReturn)
         \/ mode = "run" /\ (SysForkTableFull \/ SysExec \/ SysExecPanics \/ SysExit
                               \/ SysKill \/ SysOther)
BY DEF OtherStep, TakeLocks, Enter, Timer, TimerInKernel, TimerInUser, TimerKills,
       TimerSpins, TimerReturn, UserFault, SyscallEntry,
       SysForkTableFull, SysExec, SysExecPanics, SysExit, SysKill,
       SysOther, InSyscall, KilledInSyscall, SyscallReturn, HltLoop, At, AtSome

LEMMA StepKeepsThread ==
  ASSUME IInv, OtherStep, NEW t \in Tid
  PROVE  ThreadKeeps(t)
<1>1. threads \in [Tid -> Thread]
  BY DEF IInv, TypeOK
<1>2. CASE Dispatch
  <2>1. PICK u \in Tid : Chosen(u)
    BY <1>2, DispatchStep
  <2>2. QED
    BY <2>1 DEF Chosen, ThreadKeeps, InUse
<1>3. CASE mode = "run" /\ Exit /\ threads[Current].at \notin KernelPlaces
  BY <1>3, CallerProcess, ExitKeepsThread
<1>4. CASE mode = "run" /\ \E place \in Place : threads' = [threads EXCEPT ![Current].at = place]
  <2>1. threads'[t].state = threads[t].state /\ threads'[t].pid = threads[t].pid
    BY <1>1, <1>4 DEF Thread
  <2>2. QED
    BY <2>1 DEF ThreadKeeps, InUse
<1>5. CASE UNCHANGED threads
  BY <1>5 DEF ThreadKeeps, InUse
<1>6. CASE mode = "run" /\ \E place \in Place : OnYield(place)
  <2>1. PICK place \in Place : OnYield(place)
    BY <1>6
  <2>2. threads[Current].state = "Running" /\ Current \in Tid
    BY <1>6, CurrentThread
  <2>3. threads' = [threads EXCEPT ![Current].state = "Runnable", ![Current].at = place]
    BY <2>1, <2>2 DEF OnYield
  <2>4. /\ threads'[t].state = IF t = Current THEN "Runnable" ELSE threads[t].state
        /\ threads'[t].pid = threads[t].pid
    BY <1>1, <2>3 DEF Thread
  <2>5. QED
    BY <2>2, <2>4 DEF ThreadKeeps, InUse
<1>7. CASE mode = "run" /\ (TimerKills \/ KilledInSyscall \/ SysExit)
  BY <1>3, <1>7 DEF TimerKills, KilledInSyscall, SysExit, InSyscall, At, AtSome, KernelPlaces
<1>8. CASE mode = "run" /\ (TimerInKernel \/ TimerInUser \/ TimerSpins)
  <2>1. CASE TimerInKernel
    <3> DEFINE at == threads[Current].at
               place == IF at \in Ticks THEN at ELSE Tick(at)
    <3>1. at \in {"start", "kernel"} \cup Ticks /\ OnYield(place)
      BY <2>1 DEF TimerInKernel, AtSome
    <3>2. place \in Place
      BY <3>1, UnderTick DEF Place, Ticks
    <3> HIDE DEF place
    <3>3. QED
      BY <1>6, <1>8, <3>1, <3>2
  <2>2. CASE TimerInUser
    BY <1>6, <1>8, <2>2 DEF TimerInUser, Place, Ticks
  <2>3. CASE TimerSpins
    BY <1>5, <2>3 DEF TimerSpins
  <2>4. QED
    BY <1>8, <2>1, <2>2, <2>3
<1>9. CASE mode = "run" /\ (TakeLocks \/ Enter \/ TimerReturn \/ UserFault \/ SyscallEntry \/ SyscallReturn)
  <2>1. CASE TakeLocks \/ Enter
    BY <1>4, <1>9, <2>1 DEF TakeLocks, Enter, Place, Interrupted
  <2>2. CASE TimerReturn
    BY <1>4, <1>9, <2>2, UnderTick DEF TimerReturn, AtSome, Ticks, Place, Interrupted
  <2>3. CASE UserFault \/ SyscallEntry \/ SyscallReturn
    BY <1>4, <1>5, <1>9, <2>3 DEF UserFault, SyscallEntry, SyscallReturn, Place, Interrupted
  <2>4. QED
    BY <1>9, <2>1, <2>2, <2>3
<1>10. CASE mode = "run" /\ (SysForkTableFull \/ SysOther \/ SysKill)
  BY <1>4, <1>10
     DEF SysForkTableFull, ForkTableFull, SysOther, SysKill, Kill, Return, Place
<1>11. CASE mode = "run" /\ SysExecPanics
  BY <1>5, <1>11 DEF SysExecPanics, Panic
<1>12. CASE mode = "run" /\ SysExec
  <2>1. threads' = [[threads EXCEPT ![Current].rsp3 = Current] EXCEPT ![Current].at = "sysret"]
    BY <1>12 DEF SysExec, Exec, Return
  <2>2. threads'[t].state = threads[t].state /\ threads'[t].pid = threads[t].pid
    BY <1>1, <2>1 DEF Thread
  <2>3. QED
    BY <2>2 DEF ThreadKeeps, InUse
<1>13. CASE mode = "run" /\ Timer
  BY <1>7, <1>8, <1>13 DEF Timer
<1>14. CASE UNCHANGED vars
  BY <1>5, <1>14 DEF vars
<1>15. QED
  BY <1>2, <1>7, <1>9, <1>10, <1>11, <1>12, <1>13, <1>14, OtherStepKinds

\* fork puts one thread into the table, which is no zombie.
LEMMA ForkAddsThread ==
  ASSUME IInv, SysFork \/ SysForkCopyFails, NEW t \in Tid, NextTid(t)
  PROVE  /\ ~InUse(t) /\ threads'[t].state \in {"Runnable", "Embryo"}
         /\ \A u \in Tid : u # t => ThreadKeeps(u)
<1>1. threads \in [Tid -> Thread]
  BY DEF IInv, TypeOK
<1>2. mode = "run" /\ threads[Current].state = "Running" /\ Current \in Tid
  BY CurrentThread DEF SysFork, SysForkCopyFails, InSyscall, At
<1>3. \A u \in Tid : NextTid(u) => u = t
  BY DEF NextTid, Tid
<1>4. ~InUse(t) /\ t # Current
  BY <1>2 DEF NextTid, InUse
<1>5. PICK new : /\ threads' = [[threads EXCEPT ![t] = new] EXCEPT ![Current].at = "sysret"]
                 /\ \E p \in Pid : \/ new = NewThread(p, "Runnable", cpu.saved_user_rsp)
                                   \/ new = NewThread(p, "Embryo", t)
  BY <1>3 DEF SysFork, Fork, SysForkCopyFails, ForkCopyFails, Return
<1>6. new.state \in {"Runnable", "Embryo"}
  BY <1>5 DEF NewThread
<1>7. threads'[t] = new
  BY <1>1, <1>4, <1>5
<1>8. ASSUME NEW u \in Tid, u # t
      PROVE  threads'[u].state = threads[u].state /\ threads'[u].pid = threads[u].pid
  BY <1>1, <1>5, <1>8 DEF Thread
<1>9. QED
  BY <1>4, <1>6, <1>7, <1>8 DEF ThreadKeeps, InUse

\* wait takes threads from the table, and adds none.
LEMMA WaitRemovesThread ==
  ASSUME IInv, SysWait \/ SysWaitAgain, NEW t \in Tid
  PROVE  threads'[t].state = "Unused" \/ ThreadKeeps(t)
<1>1. threads \in [Tid -> Thread]
  BY DEF IInv, TypeOK
<1>2. InKernelCall /\ WaitLoop(FALSE)
  BY WaitsWithFalse
<1>3. ASSUME threads'[t].state = threads[t].state, threads'[t].pid = threads[t].pid
      PROVE  ThreadKeeps(t)
  BY <1>3 DEF ThreadKeeps, InUse
<1>4. CASE \E p \in ZombieChildren : Reap(p)
  <2>1. PICK p \in ZombieChildren : Reap(p)
    BY <1>4
  <2>2. /\ threads' = [[threads EXCEPT ![procs[p].tid] = NoThread] EXCEPT ![Current].at = "sysret"]
        /\ procs[p].tid \in Tid \ {Current}
    BY <1>2, <2>1, ReapFrees
  <2>3. CASE t = procs[p].tid
    BY <1>1, <2>2, <2>3 DEF NoThread
  <2>4. CASE t # procs[p].tid
    <3>1. threads'[t].state = threads[t].state /\ threads'[t].pid = threads[t].pid
      BY <1>1, <2>2, <2>4 DEF Thread
    <3>2. QED
      BY <1>3, <3>1
  <2>5. QED
    BY <2>3, <2>4
<1>5. CASE Return(threads)
  BY <1>1, <1>3, <1>5 DEF Return, Thread
<1>6. CASE OnSyscallYield([threads EXCEPT ![Current].wait_killed = FALSE], "wait")
  <2>1. threads' = [[threads EXCEPT ![Current].wait_killed = FALSE]
                      EXCEPT ![Current].rsp3 = cpu.saved_user_rsp, ![Current].at = "wait"]
    BY <1>6 DEF OnSyscallYield
  <2>2. threads'[t].state = threads[t].state /\ threads'[t].pid = threads[t].pid
    BY <1>1, <2>1 DEF Thread
  <2>3. QED
    BY <1>3, <2>2
<1>7. QED
  BY <1>2, <1>4, <1>5, <1>6 DEF WaitLoop

\* The last slot of the process table is never looked at; a zombie has a process.
NeverUsed ==
  /\ procs[NPROCESS-1].state = "None"
  /\ \A t \in Tid : threads[t].state = "Zombie" => threads[t].pid # None

\* StacksOwned, strengthened: what Kernel does, and what the tables hold
StacksInv == IInv /\ NeverUsed /\ StacksOwned /\ kstack \in [Tid -> Nat]

LEMMA StacksNextIs == StacksNext => Next \/ ForkWithoutStack
BY DEF StacksNext, ForkWithStack, WaitFreesStack, Next, Syscall

\* A fork that finds no stack stops the kernel, and is no step of Kernel.
LEMMA NoStackStops ==
  ASSUME IInv, ForkWithoutStack
  PROVE  /\ IInv' /\ UNCHANGED <<threads, procs, stacks>>
         /\ mode = "run" /\ mode' = "fault"
<1>1. /\ mode = "run" /\ mode' = "fault"
      /\ UNCHANGED <<threads, procs, cpu, cr3, kernelGs, timerExits, stacks>>
  BY DEF ForkWithoutStack, InSyscall, At
<1>2. "fault" \in Stops \ SelfChecks /\ kernelGs \in BOOLEAN /\ timerExits \in BOOLEAN
  BY DEF Stops, SelfChecks, IInv, TypeOK
<1>3. IInv'
  BY <1>1, <1>2, StopInv
<1>4. QED
  BY <1>1, <1>3

LEMMA StacksKeepIInv ==
  ASSUME IInv, [StacksNext]_<<vars, stacks>> PROVE IInv'
<1>1. CASE ForkWithoutStack
  BY <1>1, NoStackStops
<1>2. CASE Next
  BY <1>2, StepInv
<1>3. CASE UNCHANGED <<vars, stacks>>
  BY <1>3, StepInv
<1>4. QED
  BY <1>1, <1>2, <1>3, StacksNextIs

\* A step of StacksNext adds a thread, takes some out, or does neither.
LEMMA StepKeepsNeverUsed ==
  ASSUME IInv, NeverUsed, [StacksNext]_<<vars, stacks>> PROVE NeverUsed'
<1>1. NPROCESS - 1 \in Pid /\ NPROCESS - 1 \notin Scanned
  BY SizesAssumption DEF Pid, Scanned
<1>2. procs'[NPROCESS-1].state = "None"
  <2>1. CASE Next
    BY <1>1, <2>1, StepChangesSlots DEF SlotChanges, NeverUsed
  <2>2. CASE ForkWithoutStack \/ UNCHANGED <<vars, stacks>>
    BY <2>2, NoStackStops DEF NeverUsed, vars
  <2>3. QED
    BY <2>1, <2>2, StacksNextIs
<1>3. ASSUME NEW t \in Tid, threads'[t].state = "Zombie" PROVE threads'[t].pid # None
  <2>1. ASSUME ThreadKeeps(t) PROVE threads'[t].pid # None
    BY <1>3, <2>1 DEF ThreadKeeps, NeverUsed
  <2>2. CASE SysFork \/ SysForkCopyFails
    <3>1. PICK u \in Tid : NextTid(u)
      BY <2>2 DEF SysFork, Fork, SysForkCopyFails, ForkCopyFails
    <3>2. QED
      BY <1>3, <2>1, <2>2, <3>1, ForkAddsThread
  <2>3. CASE SysWait \/ SysWaitAgain
    BY <1>3, <2>1, <2>3, WaitRemovesThread
  <2>4. CASE OtherStep
    BY <2>1, <2>4, StepKeepsThread
  <2>5. CASE ForkWithoutStack \/ UNCHANGED <<vars, stacks>>
    BY <1>3, <2>5, NoStackStops DEF NeverUsed, vars
  <2>6. QED
    BY <2>2, <2>3, <2>4, <2>5 DEF StacksNext, OtherStep, ForkWithStack, WaitFreesStack
<1>4. QED
  BY <1>2, <1>3 DEF NeverUsed

\* Where the threads in the table are the same, so are their stacks.
LEMMA StacksStay ==
  ASSUME StacksOwned, kstack \in [Tid -> Nat], UNCHANGED stacks,
         \A t \in Tid : threads'[t].state # "Unused" <=> InUse(t)
  PROVE  StacksOwned' /\ kstack' \in [Tid -> Nat]
BY DEF StacksOwned, InUse, stacks, Stack

LEMMA ForkTakesStack ==
  ASSUME StacksInv, ForkWithStack PROVE StacksOwned' /\ kstack' \in [Tid -> Nat]
<1>1. PICK t \in Tid, s \in Stack :
        /\ NextTid(t) /\ FirstAvailable(s)
        /\ kstack' = [kstack EXCEPT ![t] = s] /\ taken' = taken \cup {s}
  BY DEF ForkWithStack
<1>2. /\ ~InUse(t) /\ threads'[t].state # "Unused"
      /\ \A u \in Tid : u # t => (threads'[u].state # "Unused" <=> InUse(u))
  <2>1. SysFork \/ SysForkCopyFails
    BY DEF ForkWithStack
  <2>2. QED
    BY <1>1, <2>1, ForkAddsThread DEF StacksInv, ThreadKeeps
<1>3. s \in Nat /\ s # NoStack /\ s \notin taken
  BY <1>1, StackAssumption DEF FirstAvailable, Available, Stack, NoStack
<1>4. /\ kstack' \in [Tid -> Nat] /\ kstack'[t] = s
      /\ \A u \in Tid : u # t => kstack'[u] = kstack[u]
  BY <1>1, <1>3 DEF StacksInv
<1>5. taken' = {kstack'[u] : u \in {v \in Tid : threads'[v].state # "Unused"}}
  <2>1. \A x : x \in taken <=> \E u \in Tid : InUse(u) /\ x = kstack[u]
    BY DEF StacksInv, StacksOwned
  <2>2. \A x : x \in taken' <=> \E u \in Tid : threads'[u].state # "Unused" /\ x = kstack'[u]
    BY <1>1, <1>2, <1>4, <2>1
  <2>3. QED
    BY <2>2
<1>6. \A u \in Tid : kstack'[u] # NoStack <=> threads'[u].state # "Unused"
  BY <1>2, <1>3, <1>4 DEF StacksInv, StacksOwned
<1>7. \A u \in Tid : InUse(u) => kstack[u] # s
  BY <1>3 DEF StacksInv, StacksOwned
<1>8. \A u, v \in Tid : threads'[u].state # "Unused" /\ threads'[v].state # "Unused" /\ u # v
                          => kstack'[u] # kstack'[v]
  BY <1>2, <1>4, <1>7 DEF StacksInv, StacksOwned
<1>9. QED
  BY <1>1, <1>4, <1>5, <1>6, <1>8 DEF StacksInv, StacksOwned, InUse

LEMMA WaitGivesStackBack ==
  ASSUME StacksInv, WaitFreesStack PROVE StacksOwned' /\ kstack' \in [Tid -> Nat]
<1>1. /\ kstack' = [t \in Tid |-> IF Reset(t) THEN NoStack ELSE kstack[t]]
      /\ taken' = taken \ {kstack[t] : t \in {u \in Tid : Reset(u)}}
  BY DEF WaitFreesStack
<1>2. \A t \in Tid : threads'[t].state # "Unused" <=> InUse(t) /\ ~Reset(t)
  BY WaitRemovesThread DEF StacksInv, WaitFreesStack, ThreadKeeps, Reset, InUse
<1>3. \A t \in Tid : Reset(t) => InUse(t)
  BY DEF Reset, InUse
<1>4. \A t \in Tid : kstack'[t] = IF Reset(t) THEN NoStack ELSE kstack[t]
  BY <1>1
<1>5. kstack' \in [Tid -> Nat]
  BY <1>1 DEF StacksInv, NoStack
<1>6. taken' = {kstack'[u] : u \in {v \in Tid : threads'[v].state # "Unused"}}
  <2>1. \A x : x \in taken <=> \E u \in Tid : InUse(u) /\ x = kstack[u]
    BY DEF StacksInv, StacksOwned
  <2>2. \A x : x \in taken' <=> x \in taken /\ ~ \E u \in Tid : Reset(u) /\ x = kstack[u]
    BY <1>1
  <2>3. \A u, v \in Tid : InUse(u) /\ InUse(v) /\ kstack[u] = kstack[v] => u = v
    BY DEF StacksInv, StacksOwned
  <2>4. \A x : x \in taken' <=> \E u \in Tid : threads'[u].state # "Unused" /\ x = kstack'[u]
    BY <1>2, <1>3, <1>4, <2>1, <2>2, <2>3
  <2>5. QED
    BY <2>4
<1>7. \A u \in Tid : kstack'[u] # NoStack <=> threads'[u].state # "Unused"
  BY <1>2, <1>4 DEF StacksInv, StacksOwned
<1>8. \A u, v \in Tid : threads'[u].state # "Unused" /\ threads'[v].state # "Unused" /\ u # v
                          => kstack'[u] # kstack'[v]
  BY <1>2, <1>4 DEF StacksInv, StacksOwned
<1>9. taken' \subseteq Stack
  BY <1>1 DEF StacksInv, StacksOwned
<1>10. QED
  BY <1>5, <1>6, <1>7, <1>8, <1>9 DEF StacksOwned, InUse

LEMMA StacksStep == StacksInv /\ [StacksNext]_<<vars, stacks>> => StacksInv'
<1> SUFFICES ASSUME StacksInv, [StacksNext]_<<vars, stacks>> PROVE StacksInv'
  OBVIOUS
<1>1. IInv' /\ NeverUsed'
  BY StacksKeepIInv, StepKeepsNeverUsed DEF StacksInv
<1>2. ASSUME UNCHANGED stacks, \A t \in Tid : threads'[t].state # "Unused" <=> InUse(t)
      PROVE  StacksOwned' /\ kstack' \in [Tid -> Nat]
  BY <1>2, StacksStay DEF StacksInv
<1>3. ASSUME ForkWithoutStack \/ UNCHANGED <<vars, stacks>>
      PROVE  StacksOwned' /\ kstack' \in [Tid -> Nat]
  BY <1>2, <1>3, NoStackStops DEF StacksInv, vars, InUse
<1>4. ASSUME OtherStep, UNCHANGED stacks
      PROVE  StacksOwned' /\ kstack' \in [Tid -> Nat]
  BY <1>2, <1>4, StepKeepsThread DEF StacksInv, ThreadKeeps
<1>5. StacksOwned' /\ kstack' \in [Tid -> Nat]
  BY <1>3, <1>4, ForkTakesStack, WaitGivesStackBack DEF StacksNext, OtherStep
<1>6. QED
  BY <1>1, <1>5 DEF StacksInv

LEMMA StacksInitInv == StacksInit => StacksInv
<1> SUFFICES ASSUME StacksInit PROVE StacksInv
  OBVIOUS
<1>1. IInv
  BY InitInv DEF StacksInit
<1>2. /\ KeyboardTid \in Tid /\ InitTid \in Tid /\ KeyboardTid = 0 /\ InitTid = 1
      /\ NPROCESS - 1 \in Pid /\ NPROCESS - 1 # INIT_PID
  BY SizesAssumption DEF KeyboardTid, InitTid, Tid, Pid, INIT_PID
<1>3. \A t \in Tid : /\ InUse(t) <=> t \in {0, 1}
                     /\ threads[t].state # "Zombie"
  BY <1>2 DEF StacksInit, Init, NewThread, NoThread, InUse
<1>4. NeverUsed
  BY <1>2, <1>3 DEF StacksInit, Init, NoProcess, NeverUsed
<1>5. /\ kstack \in [Tid -> Nat]
      /\ \A t \in Tid : kstack[t] = IF t \in {0, 1} THEN t + 1 ELSE 0
  BY <1>2 DEF StacksInit, NoStack, Tid
<1>6. StacksOwned
  <2>1. taken = {1, 2} /\ taken \subseteq Stack
    BY StackAssumption DEF StacksInit, Stack
  <2>2. \A x : x \in taken <=> \E t \in Tid : InUse(t) /\ x = kstack[t]
    BY <1>2, <1>3, <1>5, <2>1
  <2>3. taken = {kstack[t] : t \in {u \in Tid : InUse(u)}}
    BY <2>2
  <2>4. \A t \in Tid : kstack[t] # NoStack <=> InUse(t)
    BY <1>3, <1>5 DEF NoStack
  <2>5. \A t, u \in Tid : InUse(t) /\ InUse(u) /\ t # u => kstack[t] # kstack[u]
    BY <1>3, <1>5
  <2>6. QED
    BY <2>1, <2>3, <2>4, <2>5 DEF StacksOwned
<1>7. QED
  BY <1>1, <1>4, <1>5, <1>6 DEF StacksInv

LEMMA StacksInvariance == StacksSpec => []StacksInv
BY StacksInitInv, StacksStep, PTL DEF StacksSpec

\* fork allocates a stack with the thread, and wait frees it with the thread: each
\* thread in the table owns one, alone, and the heap has given out no others.
THEOREM StacksAreOwned == StacksSpec => []StacksOwned
<1>1. StacksInv => StacksOwned
  BY DEF StacksInv
<1>2. QED
  BY <1>1, StacksInvariance, PTL

\* What holds of Kernel holds when its threads are made with stacks: the kernel's
\* expectations, the stacks a call returns on, the address spaces, GS.
THEOREM KernelHoldsWithStacks ==
  StacksSpec => /\ []SelfChecksHold /\ []OwnStack /\ []OwnAddressSpace /\ []GsByParity
                /\ []IInv
<1>1. StacksInv => IInv
  BY DEF StacksInv
<1>2. IInv => SelfChecksHold /\ OwnAddressSpace /\ GsByParity
  BY DEF IInv
<1>3. IInv => OwnStack
  BY DEF IInv, SlotIsOwn, OwnStack, InKernelCall, At, AtSome
<1>4. QED
  BY <1>1, <1>2, <1>3, StacksInvariance, PTL

\* A fork without a stack chooses no thread, clears no slot and ends no life:
\* the scheduler stays fair, the orphans stay and the lives of processes are
\* those of the abstract table.
THEOREM StacksKeepHistory ==
  StacksSpec => RoundRobin /\ LeftForGood /\ ImplementsLifecycle
<1>1. IInv /\ [StacksNext]_<<vars, stacks>> =>
        [Closer]_vars /\ [Left]_vars /\ [Life!Next]_(Life!lifeVars)
  <2> SUFFICES ASSUME IInv, [StacksNext]_<<vars, stacks>>
               PROVE  [Closer]_vars /\ [Left]_vars /\ [Life!Next]_(Life!lifeVars)
    OBVIOUS
  <2>1. CASE ForkWithoutStack
    <3>1. UNCHANGED <<threads, procs>> /\ mode = "run"
      BY <2>1, NoStackStops
    <3>2. Closer
      BY <3>1 DEF Closer
    <3>3. Left
      BY <3>1 DEF Left, OrphanStays, Orphan, FreedStays, EmbryoStays
    <3>4. UNCHANGED Life!lifeVars
      BY <3>1, LifeStutters
    <3>5. QED
      BY <3>2, <3>3, <3>4
  <2>2. CASE [Next]_vars
    BY <2>2, StepBringsCloser, StepLeaves, LifeStep
  <2>3. QED
    BY <2>1, <2>2, StacksNextIs
<1>2. StacksInit => Life!Init
  BY LifeInit DEF StacksInit
<1>3. StacksInv => IInv
  BY DEF StacksInv
<1>4. QED
  BY <1>1, <1>2, <1>3, StacksInvariance, PTL
     DEF StacksSpec, RoundRobin, Closer, LeftForGood, Left, OrphanStays, FreedStays,
         EmbryoStays, ImplementsLifecycle, Life!Spec

\* The threads in the table, and those of them that run a process
Threads == {t \in Tid : InUse(t)}
Owners == Threads \ (Embryos \cup {KeyboardTid})

LEMMA TidFinite == IsFiniteSet(Tid) /\ IsFiniteSet(Pid) /\ Cardinality(Pid) = NPROCESS
BY SizesAssumption, FS_Interval DEF Tid, Pid

LEMMA ThreadsFinite ==
  /\ IsFiniteSet(Threads) /\ Cardinality(Threads) \in Nat
  /\ IsFiniteSet(Embryos) /\ Cardinality(Embryos) \in Nat
  /\ IsFiniteSet(Owners) /\ Cardinality(Owners) \in Nat
BY TidFinite, FS_Subset, FS_CardinalityType DEF Threads, Embryos, Owners

\* When the heap has no stack left, there is a thread for each.
LEMMA AllTaken ==
  ASSUME StacksOwned, Available = {}
  PROVE  NSTACK <= Cardinality(Threads)
<1> DEFINE f == [t \in Threads |-> kstack[t]]
<1>1. taken = {kstack[t] : t \in Threads} /\ taken = Stack
  BY DEF StacksOwned, Threads, Available
<1>2. f \in Surjection(Threads, Stack)
  BY <1>1 DEF Surjection
<1>3. Cardinality(Stack) = NSTACK
  BY StackAssumption, FS_Interval DEF Stack
<1> HIDE DEF f
<1>4. QED
  BY <1>2, <1>3, ThreadsFinite, FS_Surjection

\* Each owner has a slot of its own in the process table, neither the last slot
\* nor one where no process has been.
LEMMA OwnersInSlots ==
  ASSUME IInv, NeverUsed, ~NoPid
  PROVE  Cardinality(Owners) <= NPROCESS - 2
<1>1. PICK q \in Scanned : procs[q].state = "None"
  BY DEF NoPid
<1> DEFINE Slots == (Pid \ {q}) \ {NPROCESS-1}
           f == [t \in Owners |-> threads[t].pid]
<1>2. q \in Pid /\ NPROCESS-1 \in Pid \ {q}
  BY <1>1, SizesAssumption DEF Pid, Scanned
<1>3. IsFiniteSet(Slots) /\ Cardinality(Slots) = NPROCESS - 2
  <2>1. IsFiniteSet(Pid \ {q}) /\ Cardinality(Pid \ {q}) = NPROCESS - 1
    BY <1>2, TidFinite, FS_RemoveElement
  <2>2. QED
    BY <1>2, <2>1, SizesAssumption, FS_RemoveElement
<1>4. ASSUME NEW t \in Owners
      PROVE  /\ threads[t].pid \in Pid /\ procs[threads[t].pid].tid = t
             /\ procs[threads[t].pid].state \in {"Alive", "Zombie"}
  <2>1. t \in Tid /\ t # KeyboardTid /\ threads[t].state \in {"Runnable", "Running", "Zombie"}
    BY DEF Owners, Threads, Embryos, InUse, IInv, TypeOK, Thread, ThreadState
  <2>2. threads[t].pid # None
    BY <2>1 DEF IInv, KeyboardReady, Schedulable, NeverUsed
  <2>3. threads[t].pid \in Pid
    BY <2>1, <2>2 DEF IInv, TypeOK, Thread
  <2>4. QED
    BY <2>1, <2>2, <2>3 DEF IInv, TablesAgree
<1>5. f \in Injection(Owners, Slots)
  <2>1. f \in [Owners -> Slots]
    BY <1>1, <1>4 DEF NeverUsed
  <2>2. \A t, u \in Owners : f[t] = f[u] => t = u
    BY <1>4
  <2>3. QED
    BY <2>1, <2>2 DEF Injection, IsInjective
<1> HIDE DEF f, Slots
<1>6. QED
  BY <1>3, <1>5, ThreadsFinite, FS_Injection

\* A thread in the table is the keyboard's, a failed fork's, or an owner.
LEMMA ThreadsAre == Cardinality(Threads) <= Cardinality(Embryos) + 1 + Cardinality(Owners)
<1> DEFINE rest == Embryos \cup {KeyboardTid}
<1>1. IsFiniteSet(rest) /\ Cardinality(rest) <= Cardinality(Embryos) + 1
  <2>1. /\ IsFiniteSet(Embryos \cup {KeyboardTid})
        /\ Cardinality(Embryos \cup {KeyboardTid})
             = IF KeyboardTid \in Embryos THEN Cardinality(Embryos) ELSE Cardinality(Embryos) + 1
    BY ThreadsFinite, FS_AddElement
  <2>2. QED
    BY <2>1, ThreadsFinite
<1>2. /\ IsFiniteSet(rest \cup Owners)
      /\ Cardinality(rest \cup Owners)
           = Cardinality(rest) + Cardinality(Owners) - Cardinality(rest \cap Owners)
  BY <1>1, ThreadsFinite, FS_Union
<1>3. IsFiniteSet(rest \cap Owners) /\ Cardinality(rest \cap Owners) \in Nat
  BY ThreadsFinite, FS_Subset, FS_CardinalityType
<1>4. Threads \subseteq rest \cup Owners
  BY DEF Owners
<1>5. Cardinality(Threads) <= Cardinality(rest \cup Owners)
  BY <1>2, <1>4, FS_Subset
<1>6. Cardinality(rest) \in Nat /\ Cardinality(rest \cup Owners) \in Nat
  BY <1>1, <1>2, FS_CardinalityType
<1> HIDE DEF rest
<1>7. QED
  BY <1>1, <1>2, <1>3, <1>5, <1>6, ThreadsFinite

\* The heap has a stack for every process that the table has a slot for: only
\* the threads that failed forks left behind can use them up, whatever the sizes
\* of the tables and of the heap.
THEOREM StacksAreEnough == StacksSpec => StacksSuffice
<1>1. StacksInv /\ [StacksNext]_<<vars, stacks>> =>
        [ForkWithoutStack => Cardinality(Embryos) >= NSTACK - NPROCESS + 1]_<<vars, stacks>>
  <2> SUFFICES ASSUME StacksInv, ForkWithoutStack
               PROVE  Cardinality(Embryos) >= NSTACK - NPROCESS + 1
    OBVIOUS
  <2>1. ~NoPid /\ Available = {}
    BY DEF ForkWithoutStack
  <2>2. NSTACK <= Cardinality(Threads)
    BY <2>1, AllTaken DEF StacksInv
  <2>3. Cardinality(Owners) <= NPROCESS - 2
    BY <2>1, OwnersInSlots DEF StacksInv
  <2>4. QED
    BY <2>2, <2>3, ThreadsAre, ThreadsFinite, SizesAssumption, StackAssumption
<1>2. QED
  BY <1>1, StacksInvariance, PTL DEF StacksSpec, StacksSuffice

=============================================================================
