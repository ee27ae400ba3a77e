-------------------------- MODULE InterruptProofs --------------------------
(***************************************************************************)
(* What interrupts do to the code under them. Executor: no wake-up is lost *)
(* and the processor sleeps only with nothing to do, for queues of any     *)
(* capacity. Locks: who holds a lock, and the three ways in which the      *)
(* kernel hangs on one, for any number of threads and of nested frames.    *)
(***************************************************************************)
EXTENDS Executor, Locks, WellFoundedInduction, TLAPS

-----------------------------------------------------------------------------
(* Executor: the keyboard thread's tasks                                   *)

\* A task appended to the queue is queued, and those queued before still are.
LEMMA AppendQueues ==
  ASSUME NEW j \in Inputs, task_queue \in Seq(Inputs),
         task_queue' = Append(task_queue, j)
  PROVE  /\ task_queue' \in Seq(Inputs)
         /\ Len(task_queue') = Len(task_queue) + 1
         /\ Queued(j)'
         /\ \A i \in Inputs : Queued(i) => Queued(i)'
BY DEF Queued

\* Popping the head of the queue leaves the others queued.
LEMMA TailQueues ==
  ASSUME task_queue \in Seq(Inputs), task_queue # <<>>,
         task_queue' = Tail(task_queue)
  PROVE  /\ Head(task_queue) \in Inputs
         /\ task_queue' \in Seq(Inputs)
         /\ Len(task_queue') = Len(task_queue) - 1
         /\ \A i \in Inputs : Queued(i) => Queued(i)' \/ i = Head(task_queue)
<1>1. /\ Head(task_queue) = task_queue[1]
      /\ Len(task_queue) \in Nat /\ Len(task_queue) >= 1
      /\ Len(task_queue') = Len(task_queue) - 1
      /\ \A n \in 1 .. Len(task_queue) - 1 : task_queue'[n] = task_queue[n + 1]
  OBVIOUS
<1>2. ASSUME NEW i \in Inputs, Queued(i), i # Head(task_queue)
      PROVE  Queued(i)'
  <2>1. PICK n \in 1 .. Len(task_queue) : task_queue[n] = i
    BY <1>2 DEF Queued
  <2>2. n - 1 \in 1 .. Len(task_queue')
    BY <2>1, <1>1, <1>2
  <2>3. task_queue'[n - 1] = i
    BY <2>1, <2>2, <1>1
  <2>4. QED
    BY <2>2, <2>3 DEF Queued
<1>3. QED
  BY <1>1, <1>2

\* A pop leaves a queue within its capacity.
LEMMA OneFewer ==
  ASSUME NEW f \in [Inputs -> 0 .. QueueMax], NEW i \in Inputs, f[i] > 0
  PROVE  [f EXCEPT ![i] = @ - 1] \in [Inputs -> 0 .. QueueMax]
<1>1. ASSUME NEW k \in 0 .. QueueMax, k > 0 PROVE k - 1 \in 0 .. QueueMax
  BY <1>1, CapacityAssumption
<1>2. f[i] - 1 \in 0 .. QueueMax
  BY <1>1
<1>3. QED
  BY <1>2

\* The keyboard thread starts with both tasks queued and nothing to read.
LEMMA InitInv == Init => IInv
<1> SUFFICES ASSUME Init PROVE IInv
  OBVIOUS
<1> USE DEF Init
<1>1. /\ task_queue \in Seq(Inputs) /\ Len(task_queue) = 2
      /\ task_queue[1] = Keyboard /\ task_queue[2] = Serial
  BY DEF Inputs
<1>2. \A i \in Inputs : Queued(i)
  <2>1. /\ 1 \in 1 .. Len(task_queue) /\ task_queue[1] = Keyboard
        /\ 2 \in 1 .. Len(task_queue) /\ task_queue[2] = Serial
    BY <1>1
  <2>2. QED
    BY <2>1 DEF Queued, Inputs
<1>3. TypeOK
  BY <1>1, CapacityAssumption DEF TypeOK, Inputs, Place
<1>4. QED
  BY <1>2, <1>3 DEF IInv, Armed, Registered, NoLostWakeup

-----------------------------------------------------------------------------
(* The steps of the executor                                               *)

\* The executor takes a task from its queue.
LEMMA PopTaskInv == IInv /\ PopTask => IInv'
<1> SUFFICES ASSUME IInv, PopTask PROVE IInv'
  OBVIOUS
<1> USE DEF PopTask
<1>1. CASE task_queue = <<>>
  BY <1>1 DEF IInv, TypeOK, Place, Polling, Masked, Armed, Registered, NoLostWakeup,
              Queued, Polled
<1>2. CASE task_queue # <<>>
  <2>1. /\ Head(task_queue) \in Inputs
        /\ task_queue' \in Seq(Inputs)
        /\ Len(task_queue') = Len(task_queue) - 1
        /\ \A i \in Inputs : Queued(i) => Queued(i)' \/ i = Head(task_queue)
    BY <1>2, TailQueues DEF IInv, TypeOK
  <2>2. TypeOK'
    BY <1>2, <2>1, CapacityAssumption DEF IInv, TypeOK, Place, Polling
  <2>3. Armed'
    BY <1>2, <2>1 DEF IInv, Armed, Polled, Polling
  <2>4. NoLostWakeup'
    BY <1>2, <2>1 DEF IInv, NoLostWakeup, Polled, Polling
  <2>5. QED
    BY <1>2, <2>2, <2>3, <2>4 DEF IInv, Registered
<1>3. QED
  BY <1>1, <1>2

\* sleep_if_idle and the end of a hlt touch nothing but the place.
LEMMA SleepInv ==
  IInv /\ (Disable \/ CheckIdle \/ EnableAndHlt \/ OtherInterrupt) => IInv'
BY DEF IInv, Disable, CheckIdle, EnableAndHlt, OtherInterrupt, Resumed, TypeOK, Place,
       Polling, Masked, Armed, Registered, NoLostWakeup, Queued, Polled

\* The steps of a poll before its end.
LEMMA PollInv == IInv /\ (OpenStream \/ FirstPop \/ Register \/ TakeWaker) => IInv'
<1> SUFFICES ASSUME IInv, OpenStream \/ FirstPop \/ Register \/ TakeWaker PROVE IInv'
  OBVIOUS
<1> USE DEF OpenStream, FirstPop, Register, TakeWaker
<1>1. TypeOK'
  <2>1. input' \in [Inputs -> 0 .. QueueMax]
    <3>1. CASE input' = input
      BY <3>1 DEF IInv, TypeOK
    <3>2. CASE input[task] > 0 /\ input' = [input EXCEPT ![task] = @ - 1]
      BY <3>2, OneFewer DEF IInv, TypeOK
    <3>3. QED
      BY <3>1, <3>2
  <2>2. QED
    BY <2>1 DEF IInv, TypeOK, Place, Polling
<1>2. \A i \in Inputs : Queued(i)' = Queued(i)
  BY DEF Queued
<1>3. pc \in Polling /\ pc' \in Polling /\ task' = task
  BY DEF Polling
<1>4. \A i \in Inputs : Polled(i)' = Polled(i)
  BY <1>3 DEF Polled
<1>5. Armed'
  BY <1>2, <1>3, <1>4 DEF IInv, TypeOK, Armed, Polled, Polling
<1>6. Registered'
  BY <1>2 DEF IInv, TypeOK, Registered
<1>7. \A i \in Inputs : input'[i] > 0 => input[i] > 0
  BY DEF IInv, TypeOK
<1>8. NoLostWakeup'
  BY <1>2, <1>3, <1>4, <1>7 DEF IInv, NoLostWakeup, Polling
<1>9. QED
  BY <1>1, <1>3, <1>5, <1>6, <1>8 DEF IInv, Polling

\* A poll that ends Pending saw an empty queue after it had registered.
LEMMA SecondPopInv == IInv /\ SecondPop => IInv'
<1> SUFFICES ASSUME IInv, SecondPop PROVE IInv'
  OBVIOUS
<1> USE DEF SecondPop
<1>1. TypeOK'
  <2>1. input' \in [Inputs -> 0 .. QueueMax]
    <3>1. CASE input' = input
      BY <3>1 DEF IInv, TypeOK
    <3>2. CASE input[task] > 0 /\ input' = [input EXCEPT ![task] = @ - 1]
      BY <3>2, OneFewer DEF IInv, TypeOK
    <3>3. QED
      BY <3>1, <3>2
  <2>2. QED
    BY <2>1 DEF IInv, TypeOK, Place, Polling
<1>2. \A i \in Inputs : Queued(i)' = Queued(i)
  BY DEF Queued
<1>3. waker[task] \/ Queued(task)
  BY DEF IInv, Registered
<1>4. Armed'
  BY <1>2, <1>3 DEF IInv, TypeOK, Armed, Polled, Polling
<1>5. NoLostWakeup'
  <2> SUFFICES ASSUME NEW i \in Inputs, input'[i] > 0
               PROVE  Queued(i) \/ Polled(i)'
    BY <1>2 DEF NoLostWakeup
  <2>1. input[i] > 0 /\ (Queued(i) \/ Polled(i))
    BY DEF IInv, TypeOK, NoLostWakeup
  <2>2. CASE i = task
    BY <2>1, <2>2 DEF IInv, TypeOK, Polled, Polling
  <2>3. CASE i # task
    BY <2>1, <2>3 DEF Polled
  <2>4. QED
    BY <2>2, <2>3
<1>6. QED
  BY <1>1, <1>4, <1>5 DEF IInv, Registered

-----------------------------------------------------------------------------
(* The interrupt handlers                                                  *)

\* A byte that finds its task neither queued nor polled finds a waker.
LEMMA EnqueueInv ==
  ASSUME IInv, InterruptsOn, NEW j \in Inputs, input[j] < QueueMax, Enqueue(j),
         UNCHANGED <<opened, task>>
  PROVE  IInv'
<1> USE DEF Enqueue, InterruptsOn, Masked
<1>1. input' \in [Inputs -> 0 .. QueueMax]
  BY CapacityAssumption DEF IInv, TypeOK
<1>2. \A i \in Inputs : i # j => input'[i] = input[i]
  BY DEF IInv, TypeOK
<1>3. CASE waker[j] /\ ~(Len(task_queue) < TASK_MAX)
  <2>1. /\ pc' = "panic" /\ UNCHANGED task_queue
        /\ waker' = [waker EXCEPT ![j] = FALSE]
    BY <1>3 DEF Wake
  <2>2. TypeOK'
    BY <1>1, <2>1 DEF IInv, TypeOK, Place
  <2>3. QED
    BY <2>1, <2>2 DEF IInv, Registered, NoLostWakeup
<1>4. CASE waker[j] /\ Len(task_queue) < TASK_MAX
  <2>1. /\ task_queue' = Append(task_queue, j) /\ pc' = Resumed
        /\ waker' = [waker EXCEPT ![j] = FALSE]
    BY <1>4 DEF Wake
  <2>2. /\ task_queue' \in Seq(Inputs)
        /\ Len(task_queue') = Len(task_queue) + 1
        /\ Queued(j)'
        /\ \A i \in Inputs : Queued(i) => Queued(i)'
    BY <2>1, AppendQueues DEF IInv, TypeOK
  <2>3. \A i \in Inputs : Polled(i) => Polled(i)'
    BY <2>1 DEF Polled, Resumed, Polling
  <2>4. TypeOK'
    <3>1. Len(task_queue') <= TASK_MAX
      <4>1. Len(task_queue) \in Nat
        BY DEF IInv, TypeOK
      <4>2. QED
        BY <1>4, <2>2, <4>1, CapacityAssumption
    <3>2. pc' \in Place
      BY <2>1 DEF IInv, TypeOK, Place, Resumed
    <3>3. QED
      BY <1>1, <2>1, <2>2, <3>1, <3>2 DEF IInv, TypeOK
  <2>5. Armed'
    BY <2>1, <2>2, <2>3 DEF IInv, TypeOK, Armed
  <2>6. Registered'
    BY <2>1, <2>2 DEF IInv, TypeOK, Registered, Resumed
  <2>7. NoLostWakeup'
    BY <1>2, <2>2, <2>3 DEF IInv, NoLostWakeup
  <2>8. QED
    BY <2>1, <2>4, <2>5, <2>6, <2>7 DEF IInv, Resumed
<1>5. CASE ~waker[j]
  <2>1. pc' = Resumed /\ UNCHANGED <<waker, task_queue>>
    BY <1>5 DEF Wake
  <2>2. \A i \in Inputs : Queued(i)' = Queued(i)
    BY <2>1 DEF Queued
  <2>3. \A i \in Inputs : Polled(i) => Polled(i)'
    BY <2>1 DEF Polled, Resumed, Polling
  <2>4. Queued(j) \/ Polled(j)
    BY <1>5 DEF IInv, Armed
  <2>5. TypeOK'
    BY <1>1, <2>1 DEF IInv, TypeOK, Place, Polling, Resumed
  <2>6. Armed' /\ Registered'
    BY <2>1, <2>2, <2>3 DEF IInv, TypeOK, Armed, Registered, Resumed
  <2>7. NoLostWakeup'
    BY <1>2, <2>2, <2>3, <2>4 DEF IInv, NoLostWakeup
  <2>8. QED
    BY <2>1, <2>5, <2>6, <2>7 DEF IInv, Resumed
<1>6. QED
  BY <1>3, <1>4, <1>5

\* A byte that is dropped wakes the processor and nobody else.
LEMMA DropInv == IInv /\ Drop /\ InterruptsOn /\ UNCHANGED <<opened, task>> => IInv'
BY DEF IInv, Drop, InterruptsOn, Resumed, TypeOK, Place, Polling, Masked, Armed,
       Registered, NoLostWakeup, Queued, Polled

\* An interrupt handler gives a byte to an input.
LEMMA ByteInv == IInv /\ Byte => IInv'
<1> SUFFICES ASSUME IInv, Byte PROVE IInv'
  OBVIOUS
<1>1. CASE KeyboardInterrupt
  BY <1>1, EnqueueInv, DropInv DEF KeyboardInterrupt, AddScancode, Inputs
<1>2. CASE SerialInterrupt
  <2>1. CASE ~opened[Serial] \/ input[Serial] < QueueMax
    BY <1>2, <2>1, EnqueueInv, DropInv DEF SerialInterrupt, AddByte, Inputs
  <2>2. CASE opened[Serial] /\ ~(input[Serial] < QueueMax)
    BY <1>2, <2>2
       DEF SerialInterrupt, AddByte, IInv, TypeOK, Place, Registered, NoLostWakeup
  <2>3. QED
    BY <2>1, <2>2
<1>3. QED
  BY <1>1, <1>2 DEF Byte

-----------------------------------------------------------------------------
\* Every step of the executor and of the handlers preserves the invariant.
LEMMA StepInv == IInv /\ [Next]_vars => IInv'
<1> SUFFICES ASSUME IInv, [Next]_vars PROVE IInv'
  OBVIOUS
<1>1. CASE Next
  BY <1>1, PopTaskInv, SleepInv, PollInv, SecondPopInv, ByteInv DEF Next, Run
<1>2. CASE UNCHANGED vars
  BY <1>2 DEF vars, IInv, TypeOK, Armed, Registered, NoLostWakeup, Queued, Polled
<1>3. QED
  BY <1>1, <1>2

\* The invariant holds in every state of the keyboard thread.
THEOREM ExecutorInvariance == Spec => []IInv
BY InitInv, StepInv, PTL DEF Spec

\* The queues stay within their capacities and the executor's variables
\* within their types.
THEOREM ExecutorTypes == Spec => []TypeOK
<1>1. IInv => TypeOK
  BY DEF IInv
<1>2. QED
  BY <1>1, ExecutorInvariance, PTL

\* poll_next looks twice, with the registration of its waker between: no byte
\* that an interrupt handler queues at any moment is forgotten.
THEOREM NothingForgotten == Spec => []NoLostWakeup
<1>1. IInv => NoLostWakeup
  BY DEF IInv
<1>2. QED
  BY <1>1, ExecutorInvariance, PTL

\* sleep_if_idle tests with interrupts off and halts in the instruction that
\* enables them: it never sleeps through a wake-up.
THEOREM NoSleepOnWork == Spec => []SleepsOnlyWhenIdle
<1>1. IInv => SleepsOnlyWhenIdle
  <2> SUFFICES ASSUME IInv, pc = "halted"
               PROVE  task_queue = <<>> /\ \A i \in Inputs : input[i] = 0
    BY DEF SleepsOnlyWhenIdle
  <2>1. task_queue = <<>>
    BY DEF IInv
  <2>2. ASSUME NEW i \in Inputs PROVE ~Queued(i) /\ ~Polled(i)
    BY <2>1 DEF Queued, Polled, Polling
  <2>3. QED
    BY <2>1, <2>2, CapacityAssumption DEF IInv, NoLostWakeup, TypeOK
<1>2. QED
  BY <1>1, ExecutorInvariance, PTL

-----------------------------------------------------------------------------
(* Pieces of code                                                          *)

Control == {"mask", "unmask", "user", "idle", "schedule", "dispatch", "yield", "exit",
            "spawn", "search", "reap"}
Operation == [do : {"lock", "unlock"}, lock : Lock] \cup [do : Control]

\* An operation makes K of the locks H: it takes one of L that is not held, gives back one
\* that is, or is in C and holds none.
Makes(op, H, K, L, C) ==
  \/ op.do = "lock" /\ op.lock \in L /\ op.lock \notin H /\ K = H \cup {op.lock}
  \/ op.do = "unlock" /\ op.lock \in L \cap H /\ K = H \ {op.lock}
  \/ op.do \in C /\ H = {} /\ K = {}

\* The locks that a piece of code holds at each place
Holds(code, h, L, C) ==
  \A p \in 1 .. Len(code) : Makes(code[p], h[p], h[p + 1], L, C)

\* A piece of code that finds the locks H held and leaves K
Leads(code, H, K, L, C) ==
  /\ code \in Seq(Operation)
  /\ \E h \in [1 .. Len(code) + 1 -> SUBSET Lock] :
       h[1] = H /\ h[Len(code) + 1] = K /\ Holds(code, h, L, C)

Balanced(code, L, C) == Leads(code, {}, {}, L, C)

\* One operation
LEMMA OneOperation ==
  ASSUME NEW op \in Operation, NEW H \in SUBSET Lock, NEW K \in SUBSET Lock, NEW L, NEW C,
         Makes(op, H, K, L, C)
  PROVE  Leads(<<op>>, H, K, L, C)
<1> DEFINE code == <<op>>
           h == [p \in 1 .. 2 |-> IF p = 1 THEN H ELSE K]
<1>1. code \in Seq(Operation) /\ Len(code) = 1 /\ code[1] = op
  OBVIOUS
<1>2. h \in [1 .. Len(code) + 1 -> SUBSET Lock] /\ h[1] = H /\ h[2] = K
  BY <1>1
<1> HIDE DEF code, h
<1>3. Holds(code, h, L, C)
  BY <1>1, <1>2 DEF Holds
<1>4. Leads(code, H, K, L, C)
  BY <1>1, <1>2, <1>3 DEF Leads
<1> QED  BY <1>4 DEF code

\* One piece after another
LEMMA ConcatLeads ==
  ASSUME NEW a, NEW b, NEW H, NEW J, NEW K, NEW L, NEW C,
         Leads(a, H, J, L, C), Leads(b, J, K, L, C)
  PROVE  Leads(a \o b, H, K, L, C)
<1>1. PICK g \in [1 .. Len(a) + 1 -> SUBSET Lock] :
        g[1] = H /\ g[Len(a) + 1] = J /\ Holds(a, g, L, C)
  BY DEF Leads
<1>2. PICK h \in [1 .. Len(b) + 1 -> SUBSET Lock] :
        h[1] = J /\ h[Len(b) + 1] = K /\ Holds(b, h, L, C)
  BY DEF Leads
<1> DEFINE code == a \o b
           f == [p \in 1 .. Len(code) + 1 |-> IF p <= Len(a) + 1 THEN g[p] ELSE h[p - Len(a)]]
<1>3. a \in Seq(Operation) /\ b \in Seq(Operation)
  BY DEF Leads
<1>4. /\ Len(a) \in Nat /\ Len(b) \in Nat /\ code \in Seq(Operation)
      /\ Len(code) = Len(a) + Len(b)
      /\ \A p \in 1 .. Len(a) : code[p] = a[p]
      /\ \A p \in 1 .. Len(b) : code[Len(a) + p] = b[p]
  BY <1>3
<1>5. f \in [1 .. Len(code) + 1 -> SUBSET Lock]
  BY <1>1, <1>2, <1>4
<1>6. /\ \A p \in 1 .. Len(a) + 1 : f[p] = g[p]
      /\ \A p \in 1 .. Len(b) + 1 : f[Len(a) + p] = h[p]
  BY <1>1, <1>2, <1>4
<1> HIDE DEF code, f
<1>7. ASSUME NEW p \in 1 .. Len(code)
      PROVE  Makes(code[p], f[p], f[p + 1], L, C)
  <2>1. CASE p <= Len(a)
    <3>1. p \in 1 .. Len(a) /\ p \in 1 .. Len(a) + 1 /\ p + 1 \in 1 .. Len(a) + 1
      BY <2>1, <1>4
    <3> QED  BY <3>1, <1>1, <1>4, <1>6 DEF Holds
  <2>2. CASE ~(p <= Len(a))
    <3> DEFINE q == p - Len(a)
    <3>1. /\ q \in 1 .. Len(b) /\ q \in 1 .. Len(b) + 1 /\ q + 1 \in 1 .. Len(b) + 1
          /\ p = Len(a) + q /\ p + 1 = Len(a) + (q + 1)
      BY <2>2, <1>4
    <3> HIDE DEF q
    <3>2. code[p] = b[q] /\ f[p] = h[q] /\ f[p + 1] = h[q + 1]
      BY <3>1, <1>4, <1>6
    <3> QED  BY <3>1, <3>2, <1>2 DEF Holds
  <2> QED  BY <2>1, <2>2
<1>8. f[1] = H /\ f[Len(code) + 1] = K
  <2>1. 1 \in 1 .. Len(a) + 1 /\ Len(b) + 1 \in 1 .. Len(b) + 1
        /\ Len(code) + 1 = Len(a) + (Len(b) + 1)
    BY <1>4
  <2> QED  BY <2>1, <1>1, <1>2, <1>6
<1>9. Holds(code, f, L, C)
  BY <1>7 DEF Holds
<1>10. Leads(code, H, K, L, C)
  BY <1>4, <1>5, <1>8, <1>9 DEF Leads
<1> QED  BY <1>10 DEF code

\* A piece that does nothing but take and give back locks does so under others as well.
LEMMA UnderOthers ==
  ASSUME NEW code, NEW L, NEW H \in SUBSET Lock, H \cap L = {}, Balanced(code, L, {})
  PROVE  Leads(code, H, H, L, {})
<1>1. PICK h \in [1 .. Len(code) + 1 -> SUBSET Lock] :
        h[1] = {} /\ h[Len(code) + 1] = {} /\ Holds(code, h, L, {})
  BY DEF Leads, Balanced
<1>2. code \in Seq(Operation) /\ Len(code) \in Nat
  BY DEF Leads, Balanced
<1> DEFINE f == [p \in 1 .. Len(code) + 1 |-> h[p] \cup H]
<1>3. /\ f \in [1 .. Len(code) + 1 -> SUBSET Lock]
      /\ f[1] = H /\ f[Len(code) + 1] = H
  BY <1>1, <1>2
<1>4. \A p \in 1 .. Len(code) + 1 : f[p] = h[p] \cup H
  OBVIOUS
<1> HIDE DEF f
<1>5. ASSUME NEW p \in 1 .. Len(code)
      PROVE  Makes(code[p], f[p], f[p + 1], L, {})
  <2>1. Makes(code[p], h[p], h[p + 1], L, {})
    BY <1>1 DEF Holds
  <2>2. f[p] = h[p] \cup H /\ f[p + 1] = h[p + 1] \cup H
    BY <1>2, <1>4
  <2>3. CASE code[p].do = "lock" /\ code[p].lock \in L /\ code[p].lock \notin h[p]
             /\ h[p + 1] = h[p] \cup {code[p].lock}
    BY <2>2, <2>3 DEF Makes
  <2>4. CASE code[p].do = "unlock" /\ code[p].lock \in L \cap h[p]
             /\ h[p + 1] = h[p] \ {code[p].lock}
    BY <2>2, <2>4 DEF Makes
  <2> QED  BY <2>1, <2>3, <2>4 DEF Makes
<1>6. Holds(code, f, L, {})
  BY <1>5 DEF Holds
<1> QED  BY <1>2, <1>3, <1>6 DEF Leads

\* What a piece of code may do may be said to be more.
LEMMA LeadsMore ==
  ASSUME NEW code, NEW H, NEW K, NEW L, NEW M, NEW C, NEW D, L \subseteq M, C \subseteq D,
         Leads(code, H, K, L, C)
  PROVE  Leads(code, H, K, M, D)
<1>1. PICK h \in [1 .. Len(code) + 1 -> SUBSET Lock] :
        h[1] = H /\ h[Len(code) + 1] = K /\ Holds(code, h, L, C)
  BY DEF Leads
<1>2. ASSUME NEW p \in 1 .. Len(code) PROVE Makes(code[p], h[p], h[p + 1], M, D)
  BY <1>1 DEF Holds, Makes
<1>3. Holds(code, h, M, D)
  BY <1>2 DEF Holds
<1> QED  BY <1>1, <1>3 DEF Leads

-----------------------------------------------------------------------------
(* The pieces that code is composed of                                     *)

\* Taking a lock that is not held adds it to the locks that are.
LEMMA AcquireLeads ==
  ASSUME NEW l \in Lock, NEW H \in SUBSET Lock, NEW L, NEW C, l \in L, l \notin H
  PROVE  Leads(Acquire(l), H, H \cup {l}, L, C)
<1> DEFINE op == [do |-> "lock", lock |-> l]
<1>1. op \in Operation /\ op.do = "lock" /\ op.lock = l
  BY DEF Operation
<1> HIDE DEF op
<1>2. Makes(op, H, H \cup {l}, L, C)
  BY <1>1 DEF Makes
<1>3. Leads(<<op>>, H, H \cup {l}, L, C)
  BY <1>1, <1>2, OneOperation
<1> QED  BY <1>3 DEF Acquire, op

\* Giving back a lock that is held removes it.
LEMMA ReleaseLeads ==
  ASSUME NEW l \in Lock, NEW H \in SUBSET Lock, NEW L, NEW C, l \in L, l \in H
  PROVE  Leads(Release(l), H, H \ {l}, L, C)
<1> DEFINE op == [do |-> "unlock", lock |-> l]
<1>1. op \in Operation /\ op.do = "unlock" /\ op.lock = l
  BY DEF Operation
<1> HIDE DEF op
<1>2. Makes(op, H, H \ {l}, L, C)
  BY <1>1 DEF Makes
<1>3. Leads(<<op>>, H, H \ {l}, L, C)
  BY <1>1, <1>2, OneOperation
<1> QED  BY <1>3 DEF Release, op

\* What is no lock operation is done with no lock held.
LEMMA DoBalanced ==
  ASSUME NEW what \in Control, NEW L, NEW C, what \in C
  PROVE  Balanced(Do(what), L, C)
<1> DEFINE op == [do |-> what]
<1>1. op \in Operation /\ op.do = what
  BY DEF Operation
<1> HIDE DEF op
<1>2. Makes(op, {}, {}, L, C)
  BY <1>1 DEF Makes
<1>3. Leads(<<op>>, {}, {}, L, C)
  BY <1>1, <1>2, OneOperation
<1> QED  BY <1>3 DEF Do, op, Balanced

\* A guard and its block, which does not take the same lock
LEMMA HoldingBalanced ==
  ASSUME NEW l \in Lock, NEW L, NEW C, l \in L, NEW body, Balanced(body, L \ {l}, {})
  PROVE  Balanced(Holding(l, body), L, C)
<1>1. Leads(Acquire(l), {}, {l}, L, C)
  <2>1. Leads(Acquire(l), {}, {} \cup {l}, L, C)
    BY AcquireLeads
  <2> QED  BY <2>1
<1>2. Leads(body, {l}, {l}, L, C)
  <2>1. Leads(body, {l}, {l}, L \ {l}, {})
    BY UnderOthers
  <2> QED  BY <2>1, LeadsMore
<1>3. Leads(Release(l), {l}, {}, L, C)
  <2>1. Leads(Release(l), {l}, {l} \ {l}, L, C)
    BY ReleaseLeads
  <2> QED  BY <2>1
<1>4. Leads(Acquire(l) \o body, {}, {l}, L, C)
  BY <1>1, <1>2, ConcatLeads
<1>5. Leads(Acquire(l) \o body \o Release(l), {}, {}, L, C)
  BY <1>3, <1>4, ConcatLeads
<1> QED  BY <1>5 DEF Holding, Balanced

\* A guard that is dropped at once leaves nothing held.
LEMMA TakeBalanced ==
  ASSUME NEW l \in Lock, NEW L, NEW C, l \in L
  PROVE  Balanced(Take(l), L, C)
<1>1. Balanced(<<>>, L \ {l}, {})
  <2> DEFINE h == [p \in 1 .. 1 |-> {}]
  <2>1. h \in [1 .. Len(<<>>) + 1 -> SUBSET Lock] /\ h[1] = {} /\ <<>> \in Seq(Operation)
        /\ Len(<<>>) = 0
    OBVIOUS
  <2> HIDE DEF h
  <2>2. Holds(<<>>, h, L \ {l}, {})
    BY <2>1 DEF Holds
  <2> QED  BY <2>1, <2>2 DEF Balanced, Leads
<1> QED  BY <1>1, HoldingBalanced DEF Take

\* Pieces that leave nothing held, one after the other, leave nothing held.
LEMMA ConcatBalanced ==
  ASSUME NEW a, NEW b, NEW L, NEW C, Balanced(a, L, C), Balanced(b, L, C)
  PROVE  Balanced(a \o b, L, C)
BY ConcatLeads DEF Balanced

\* A balanced piece stays one when more locks and operations are allowed.
LEMMA BalancedMore ==
  ASSUME NEW code, NEW L, NEW M, NEW C, NEW D, L \subseteq M, C \subseteq D, Balanced(code, L, C)
  PROVE  Balanced(code, M, D)
BY LeadsMore DEF Balanced

\* current_process takes THREAD_TABLE and then PROCESS_TABLE, one at a time.
LEMMA CurrentProcessBalanced ==
  ASSUME NEW L, NEW C, {"THREAD_TABLE", "PROCESS_TABLE"} \subseteq L
  PROVE  Balanced(CurrentProcess, L, C)
BY TakeBalanced, ConcatBalanced DEF CurrentProcess, CurrentPid, Lock

\* The test for a killed process takes both tables' locks under CPU.
LEMMA KilledTestBalanced ==
  ASSUME NEW L, NEW C, {"CPU", "THREAD_TABLE", "PROCESS_TABLE"} \subseteq L
  PROVE  Balanced(KilledTest, L, C)
BY CurrentProcessBalanced, HoldingBalanced DEF KilledTest, Lock

\* Preparing an image allocates under FRAME_ALLOCATOR.
LEMMA PrepareExecImageBalanced ==
  ASSUME NEW L, NEW C, {"FRAME_ALLOCATOR", "PHYSICAL_MEMORY_OFFSET", "ALLOCATOR"} \subseteq L
  PROVE  Balanced(PrepareExecImage, L, C)
BY TakeBalanced, ConcatBalanced, HoldingBalanced DEF PrepareExecImage, Heap, Lock

\* alloc_proc takes the tables' locks one after the other.
LEMMA AllocProcBalanced ==
  ASSUME NEW L, NEW C, {"PROCESS_TABLE", "THREAD_TABLE", "ALLOCATOR"} \subseteq L
  PROVE  Balanced(AllocProc, L, C)
BY TakeBalanced, ConcatBalanced DEF AllocProc, Heap, Lock

\* The creation of the first user process leaves nothing held.
LEMMA CreateUserProcessBalanced ==
  ASSUME NEW L, NEW C, {"FRAME_ALLOCATOR", "PHYSICAL_MEMORY_OFFSET", "ALLOCATOR",
         "PROCESS_TABLE", "THREAD_TABLE"} \subseteq L
  PROVE  Balanced(CreateUserProcess, L, C)
BY TakeBalanced, ConcatBalanced, PrepareExecImageBalanced, AllocProcBalanced
   DEF CreateUserProcess, MarkRunnable, Lock

\* The set-up of memory leaves nothing held.
LEMMA MemoryInitBalanced ==
  ASSUME NEW L, NEW C, {"KERNEL_PAGE_TABLE_FRAME", "PHYSICAL_MEMORY_OFFSET",
         "FRAME_ALLOCATOR"} \subseteq L
  PROVE  Balanced(MemoryInit, L, C)
BY TakeBalanced, ConcatBalanced DEF MemoryInit, KernelPageTable, Lock

\* The creation of the keyboard's thread allocates under THREAD_TABLE.
LEMMA CreateKernelThreadBalanced ==
  ASSUME NEW L, NEW C, {"THREAD_TABLE", "ALLOCATOR"} \subseteq L
  PROVE  Balanced(CreateKernelThread, L, C)
BY TakeBalanced, ConcatBalanced, HoldingBalanced DEF CreateKernelThread, Heap, Lock

\* The set-up of the heap allocates under FRAME_ALLOCATOR.
LEMMA HeapUnderFramesBalanced ==
  ASSUME NEW L, NEW C, {"FRAME_ALLOCATOR", "ALLOCATOR"} \subseteq L
  PROVE  Balanced(Holding("FRAME_ALLOCATOR", Heap), L, C)
BY TakeBalanced, HoldingBalanced DEF Heap, Lock

\* The pid is read under CPU.
LEMMA GetPidBalanced ==
  ASSUME NEW L, NEW C, {"CPU", "THREAD_TABLE"} \subseteq L
  PROVE  Balanced(GetPid, L, C)
BY TakeBalanced, HoldingBalanced DEF GetPid, CurrentPid, Lock

\* The scheduler has dropped all its guards when it switches to a thread.
LEMMA SchedulerBalanced ==
  ASSUME NEW L, NEW C, {"THREAD_TABLE", "CPU", "PROCESS_TABLE"} \subseteq L,
         "KERNEL_PAGE_TABLE_FRAME" \in L
  PROVE  Balanced(Holding("THREAD_TABLE",
                    Holding("CPU", Take("PROCESS_TABLE") \o KernelPageTable)), L, C)
BY TakeBalanced, HoldingBalanced, ConcatBalanced DEF KernelPageTable, Lock

\* A trampoline holds THREAD_TABLE and CPU, and then nothing.
LEMMA TrampolineBalanced ==
  ASSUME NEW L, NEW C, {"THREAD_TABLE", "CPU"} \subseteq L
  PROVE  Balanced(Trampoline, L, C)
BY TakeBalanced, ConcatBalanced, HoldingBalanced DEF Trampoline, Lock

\* A switch to the scheduler is made with nothing held.
LEMMA SwitchBalanced ==
  ASSUME NEW L, NEW C, {"KERNEL_PAGE_TABLE_FRAME", "THREAD_TABLE", "CPU"} \subseteq L,
         NEW what \in Control, what \in C
  PROVE  Balanced(Switch(what), L, C)
BY TakeBalanced, ConcatBalanced, HoldingBalanced, DoBalanced DEF Switch, KernelPageTable, Lock

\* exit leaves for the scheduler with nothing held.
LEMMA ExitBalanced ==
  ASSUME NEW L, NEW C, {"CPU", "THREAD_TABLE", "PROCESS_TABLE", "KERNEL_PAGE_TABLE_FRAME"}
         \subseteq L, "exit" \in C
  PROVE  Balanced(Exit, L, C)
BY TakeBalanced, ConcatBalanced, HoldingBalanced, SwitchBalanced DEF Exit, CurrentPid, Control, Lock

\* The handler of a tick has given back both its locks before it does anything else.
LEMMA TickBalanced ==
  ASSUME NEW L, NEW C, {"PICS", "TICKS"} \subseteq L
  PROVE  Balanced(Tick, L, C)
BY TakeBalanced, ConcatBalanced DEF Tick, Lock

\* The entry of a system call leaves nothing held.
LEMMA EntryBalanced ==
  ASSUME NEW L, NEW C, {"CPU", "THREAD_TABLE", "PROCESS_TABLE"} \subseteq L
  PROVE  Balanced(Entry, L, C)
BY TakeBalanced, ConcatBalanced, KilledTestBalanced DEF Entry, Lock

\* print_str leaves nothing held.
LEMMA PrintStrBalanced ==
  ASSUME NEW L, NEW C, {"CPU", "THREAD_TABLE", "PROCESS_TABLE", "PHYSICAL_MEMORY_OFFSET",
         "FRAME_ALLOCATOR", "ALLOCATOR", "CONSOLE"} \subseteq L
  PROVE  Balanced(PrintStr, L, C)
BY TakeBalanced, ConcatBalanced, HoldingBalanced, KilledTestBalanced
   DEF PrintStr, Heap, Println, Lock

\* The commit of an exec leaves nothing held.
LEMMA CommitExecBalanced ==
  ASSUME NEW L, NEW C, {"CPU", "THREAD_TABLE", "PROCESS_TABLE"} \subseteq L
  PROVE  Balanced(CommitExec, L, C)
BY TakeBalanced, ConcatBalanced, HoldingBalanced DEF CommitExec, CurrentPid, Lock

\* exec leaves nothing held.
LEMMA ExecBalanced ==
  ASSUME NEW L, NEW C, {"CPU", "THREAD_TABLE", "PROCESS_TABLE", "ALLOCATOR",
         "FRAME_ALLOCATOR", "PHYSICAL_MEMORY_OFFSET"} \subseteq L
  PROVE  Balanced(Exec, L, C)
BY TakeBalanced, ConcatBalanced, PrepareExecImageBalanced, CommitExecBalanced DEF Exec, Heap, Lock

\* free_process leaves nothing held.
LEMMA FreeProcessBalanced ==
  ASSUME NEW L, NEW C, {"THREAD_TABLE", "ALLOCATOR", "FRAME_ALLOCATOR",
         "PHYSICAL_MEMORY_OFFSET", "PROCESS_TABLE"} \subseteq L
  PROVE  Balanced(FreeProcess, L, C)
BY TakeBalanced, ConcatBalanced, HoldingBalanced DEF FreeProcess, Heap, Lock

\* copy_to_user leaves nothing held.
LEMMA CopyToUserBalanced ==
  ASSUME NEW L, NEW C, {"CPU", "THREAD_TABLE", "PROCESS_TABLE", "PHYSICAL_MEMORY_OFFSET",
         "FRAME_ALLOCATOR", "CONSOLE"} \subseteq L
  PROVE  Balanced(CopyToUser, L, C)
BY TakeBalanced, ConcatBalanced, HoldingBalanced, KilledTestBalanced DEF CopyToUser, Println, Lock

\* sbrk nests three locks and gives all back.
LEMMA SbrkBalanced ==
  ASSUME NEW L, NEW C, {"CPU", "THREAD_TABLE", "PROCESS_TABLE", "PHYSICAL_MEMORY_OFFSET",
         "FRAME_ALLOCATOR", "ALLOCATOR"} \subseteq L
  PROVE  Balanced(Sbrk, L, C)
BY TakeBalanced, ConcatBalanced, HoldingBalanced DEF Sbrk, CurrentPid, Heap, Lock

-----------------------------------------------------------------------------
(* The locks held at a place, computed                                     *)

\* A set of numbers that is not empty has a least element.
LEMMA LeastElement ==
  ASSUME NEW S \in SUBSET Nat, S # {}
  PROVE  \E m \in S : \A n \in S : m <= n
<1> DEFINE Less == {ss \in Nat \X Nat : ss[1] < ss[2]}
<1>1. IsWellFoundedOn(Less, Nat)
  BY NatLessThanWellFounded DEF OpToRel
<1> HIDE DEF Less
<1>2. PICK m \in S : \A n \in S : ~ (<<n, m>> \in Less)
  BY <1>1, WFMin
<1>3. \A n \in S : ~ (n < m)
  BY <1>2 DEF Less
<1> QED  BY <1>3

\* Nothing is held at first, and every operation changes what it says.
LEMMA HeldChanges ==
  ASSUME NEW code, NEW p \in Nat \ {0}
  PROVE  /\ HeldAt(code, 1) = {}
         /\ code[p].do = "lock" /\ code[p].lock \in Lock =>
              HeldAt(code, p + 1) = HeldAt(code, p) \cup {code[p].lock}
         /\ code[p].do = "unlock" => HeldAt(code, p + 1) = HeldAt(code, p) \ {code[p].lock}
         /\ code[p].do \notin {"lock", "unlock"} => HeldAt(code, p + 1) = HeldAt(code, p)
<1> DEFINE Takes(i, l) == code[i].do = "lock" /\ code[i].lock = l
           Gives(i, l) == code[i].do = "unlock" /\ code[i].lock = l
<1>1. ASSUME NEW q \in Nat \ {0}, NEW l \in Lock
      PROVE  l \in HeldAt(code, q) <=>
               \E i \in 1 .. q - 1 : Takes(i, l) /\ \A j \in i + 1 .. q - 1 : ~Gives(j, l)
  BY DEF HeldAt
<1>2. \A q : HeldAt(code, q) \subseteq Lock
  BY DEF HeldAt
<1>3. ASSUME NEW i, NEW l PROVE ~(Takes(i, l) /\ Gives(i, l))
  OBVIOUS
<1> HIDE DEF Takes, Gives
<1>4. HeldAt(code, 1) = {}
  BY <1>1, <1>2
<1>5. ASSUME NEW l \in Lock
      PROVE  l \in HeldAt(code, p + 1) <=> Takes(p, l) \/ (l \in HeldAt(code, p) /\ ~Gives(p, l))
  <2>1. l \in HeldAt(code, p + 1) <=>
          \E i \in 1 .. p : Takes(i, l) /\ \A j \in i + 1 .. p : ~Gives(j, l)
    BY <1>1
  <2>2. l \in HeldAt(code, p) <=>
          \E i \in 1 .. p - 1 : Takes(i, l) /\ \A j \in i + 1 .. p - 1 : ~Gives(j, l)
    BY <1>1
  <2>3. ASSUME l \in HeldAt(code, p + 1), ~Takes(p, l)
        PROVE  l \in HeldAt(code, p) /\ ~Gives(p, l)
    BY <2>1, <2>2, <2>3
  <2>4. ASSUME Takes(p, l) PROVE l \in HeldAt(code, p + 1)
    <3>1. \A j \in p + 1 .. p : ~Gives(j, l)
      OBVIOUS
    <3> QED  BY <3>1, <2>1, <2>4
  <2>5. ASSUME l \in HeldAt(code, p), ~Gives(p, l) PROVE l \in HeldAt(code, p + 1)
    <3>1. PICK i \in 1 .. p - 1 : Takes(i, l) /\ \A j \in i + 1 .. p - 1 : ~Gives(j, l)
      BY <2>2, <2>5
    <3>2. \A j \in i + 1 .. p : ~Gives(j, l)
      BY <3>1, <2>5
    <3> QED  BY <3>1, <3>2, <2>1
  <2> QED  BY <2>3, <2>4, <2>5
<1>6. \A l \in Lock : (Takes(p, l) <=> code[p].do = "lock" /\ code[p].lock = l)
                      /\ (Gives(p, l) <=> code[p].do = "unlock" /\ code[p].lock = l)
  BY DEF Takes, Gives
<1>7. code[p].do = "lock" /\ code[p].lock \in Lock =>
        HeldAt(code, p + 1) = HeldAt(code, p) \cup {code[p].lock}
  BY <1>2, <1>5, <1>6
<1>8. code[p].do = "unlock" => HeldAt(code, p + 1) = HeldAt(code, p) \ {code[p].lock}
  BY <1>2, <1>5, <1>6
<1>9. code[p].do \notin {"lock", "unlock"} => HeldAt(code, p + 1) = HeldAt(code, p)
  BY <1>2, <1>5, <1>6
<1> QED  BY <1>4, <1>7, <1>8, <1>9

\* What a balanced piece of code holds at each place is what it has taken before.
LEMMA BalancedHolds ==
  ASSUME NEW code, NEW L \in SUBSET Lock, NEW C \in SUBSET Control, Balanced(code, L, C)
  PROVE  /\ code \in Seq(Operation)
         /\ HeldAt(code, 1) = {} /\ HeldAt(code, Len(code) + 1) = {}
         /\ \A p \in 1 .. Len(code) :
              Makes(code[p], HeldAt(code, p), HeldAt(code, p + 1), L, C)
<1>1. PICK h \in [1 .. Len(code) + 1 -> SUBSET Lock] :
        h[1] = {} /\ h[Len(code) + 1] = {} /\ Holds(code, h, L, C)
  BY DEF Leads, Balanced
<1>2. code \in Seq(Operation) /\ Len(code) \in Nat
  BY DEF Leads, Balanced
<1>3. HeldAt(code, 1) = {}
  BY HeldChanges
<1>4. ASSUME NEW p \in 1 .. Len(code), HeldAt(code, p) = h[p]
      PROVE  HeldAt(code, p + 1) = h[p + 1]
  <2>1. Makes(code[p], h[p], h[p + 1], L, C)
    BY <1>1 DEF Holds
  <2>2. p \in Nat \ {0}
    OBVIOUS
  <2>3. /\ code[p].do = "lock" /\ code[p].lock \in Lock =>
             HeldAt(code, p + 1) = HeldAt(code, p) \cup {code[p].lock}
        /\ code[p].do = "unlock" => HeldAt(code, p + 1) = HeldAt(code, p) \ {code[p].lock}
        /\ code[p].do \notin {"lock", "unlock"} => HeldAt(code, p + 1) = HeldAt(code, p)
    BY <2>2, HeldChanges
  <2>4. CASE code[p].do = "lock" /\ code[p].lock \in L /\ h[p + 1] = h[p] \cup {code[p].lock}
    BY <2>3, <2>4, <1>4
  <2>5. CASE code[p].do = "unlock" /\ h[p + 1] = h[p] \ {code[p].lock}
    BY <2>3, <2>5, <1>4
  <2>6. CASE code[p].do \in C /\ h[p] = {} /\ h[p + 1] = {}
    <3>1. code[p].do \notin {"lock", "unlock"}
      BY <2>6 DEF Control
    <3> QED  BY <3>1, <2>3, <2>6, <1>4
  <2> QED  BY <2>1, <2>4, <2>5, <2>6 DEF Makes
<1>5. \A p \in 1 .. Len(code) + 1 : HeldAt(code, p) = h[p]
  <2> DEFINE wrong == {p \in 1 .. Len(code) + 1 : HeldAt(code, p) # h[p]}
  <2>1. ASSUME wrong # {} PROVE FALSE
    <3>1. wrong \in SUBSET Nat
      BY <1>2
    <3>2. PICK m \in wrong : \A n \in wrong : m <= n
      BY <2>1, <3>1, LeastElement
    <3>3. m # 1
      BY <3>2, <1>1, <1>3
    <3>4. m - 1 \in 1 .. Len(code) /\ m - 1 \in 1 .. Len(code) + 1 /\ ~(m <= m - 1)
          /\ (m - 1) + 1 = m
      BY <3>2, <3>3, <1>2
    <3>5. HeldAt(code, m - 1) = h[m - 1]
      BY <3>2, <3>4
    <3>6. HeldAt(code, m) = h[m]
      BY <3>4, <3>5, <1>4
    <3> QED  BY <3>2, <3>6
  <2> QED  BY <2>1
<1>6. ASSUME NEW p \in 1 .. Len(code)
      PROVE  Makes(code[p], HeldAt(code, p), HeldAt(code, p + 1), L, C)
  <2>1. p \in 1 .. Len(code) + 1 /\ p + 1 \in 1 .. Len(code) + 1
    BY <1>2
  <2>2. HeldAt(code, p) = h[p] /\ HeldAt(code, p + 1) = h[p + 1]
    BY <2>1, <1>5
  <2> QED  BY <2>2, <1>1 DEF Holds
<1>7. HeldAt(code, Len(code) + 1) = {}
  BY <1>1, <1>2, <1>5
<1> QED  BY <1>2, <1>3, <1>6, <1>7

-----------------------------------------------------------------------------
(* The programs                                                            *)

\* The locks a program takes, where that matters, and what else it does
LocksOf(prog) ==
  CASE prog = "user" -> {"THREAD_TABLE", "CPU"}
    [] prog = "keyboard" -> {"THREAD_TABLE", "CPU", "ALLOCATOR"}
    [] prog = "timer_boot" -> {"PICS", "TICKS"}
    [] prog = "input" -> {"PICS"}
    [] prog = "key_warned" -> {"CONSOLE", "PICS"}
    [] prog = "timer_kernel" -> {"PICS", "TICKS", "KERNEL_PAGE_TABLE_FRAME", "THREAD_TABLE", "CPU"}
    [] OTHER -> Lock

ControlsOf(prog) ==
  CASE prog = "boot" -> {"mask", "unmask", "schedule"}
    [] prog = "scheduler" -> {"dispatch"}
    [] prog = "keyboard" -> {"idle"}
    [] prog = "user" -> {"user"}
    [] prog = "print_key" -> {"mask", "unmask"}
    [] prog \in {"timer_kernel", "timer_user"} -> {"yield", "unmask"}
    [] prog \in {"timer_kills", "exit"} -> {"exit"}
    [] prog = "fork" -> {"spawn"}
    [] prog = "wait" -> {"search"}
    [] prog = "wait_reaps" -> {"reap"}
    [] prog = "wait_yields" -> {"yield", "search"}
    [] OTHER -> {}

\* Programs take locks and do what there is to do.
LEMMA ProgramFacts ==
  ASSUME NEW prog \in DOMAIN Code
  PROVE  LocksOf(prog) \in SUBSET Lock /\ ControlsOf(prog) \in SUBSET Control
BY DEF Code, LocksOf, ControlsOf, Lock, Control

\* on_yield switches with nothing held.
LEMMA OnYieldBalanced ==
  ASSUME NEW L, NEW C, {"KERNEL_PAGE_TABLE_FRAME", "THREAD_TABLE", "CPU"} \subseteq L,
         "yield" \in C, "unmask" \in C
  PROVE  Balanced(OnYield, L, C)
BY SwitchBalanced, DoBalanced, ConcatBalanced DEF OnYield, Control

\* A system call leaves nothing held if its body does not.
LEMMA SyscallOfBalanced ==
  ASSUME NEW body, NEW C, Balanced(body, Lock, C)
  PROVE  Balanced(SyscallOf(body), Lock, C)
BY EntryBalanced, KilledTestBalanced, ConcatBalanced DEF SyscallOf, Lock

\* The guard of CPU is dropped by hand while that of FRAME_ALLOCATOR is kept.
LEMMA ForkBalanced == Balanced(Fork, Lock, {"spawn"})
<1> DEFINE C == {"spawn"}
<1>1. Leads(Acquire("CPU"), {}, {"CPU"}, Lock, C)
  <2>1. Leads(Acquire("CPU"), {}, {} \cup {"CPU"}, Lock, C)
    BY AcquireLeads DEF Lock
  <2> QED  BY <2>1
<1>2. ASSUME NEW code, NEW l \in Lock, Balanced(code, Lock \ {l}, {})
      PROVE  Leads(code, {l}, {l}, Lock, C)
  <2>1. Leads(code, {l}, {l}, Lock \ {l}, {})
    BY <1>2, UnderOthers
  <2> QED  BY <2>1, LeadsMore
<1>3. Leads(CurrentProcess, {"CPU"}, {"CPU"}, Lock, C)
  BY <1>2, CurrentProcessBalanced DEF Lock
<1>4. Leads(AllocProc, {"CPU"}, {"CPU"}, Lock, C)
  BY <1>2, AllocProcBalanced DEF Lock
<1>5. Leads(Acquire("FRAME_ALLOCATOR"), {"CPU"}, {"CPU", "FRAME_ALLOCATOR"}, Lock, C)
  <2>1. Leads(Acquire("FRAME_ALLOCATOR"), {"CPU"}, {"CPU"} \cup {"FRAME_ALLOCATOR"}, Lock, C)
    BY AcquireLeads DEF Lock
  <2> QED  BY <2>1
<1>6. Leads(Take("PHYSICAL_MEMORY_OFFSET"), {"CPU", "FRAME_ALLOCATOR"},
            {"CPU", "FRAME_ALLOCATOR"}, Lock, C)
  <2>1. Balanced(Take("PHYSICAL_MEMORY_OFFSET"), {"PHYSICAL_MEMORY_OFFSET"}, {})
    BY TakeBalanced DEF Lock
  <2>2. Leads(Take("PHYSICAL_MEMORY_OFFSET"), {"CPU", "FRAME_ALLOCATOR"},
              {"CPU", "FRAME_ALLOCATOR"}, {"PHYSICAL_MEMORY_OFFSET"}, {})
    BY <2>1, UnderOthers DEF Lock
  <2> QED  BY <2>2, LeadsMore DEF Lock
<1>7. Leads(Release("CPU"), {"CPU", "FRAME_ALLOCATOR"}, {"FRAME_ALLOCATOR"}, Lock, C)
  <2>1. Leads(Release("CPU"), {"CPU", "FRAME_ALLOCATOR"},
              {"CPU", "FRAME_ALLOCATOR"} \ {"CPU"}, Lock, C)
    BY ReleaseLeads DEF Lock
  <2>2. {"CPU", "FRAME_ALLOCATOR"} \ {"CPU"} = {"FRAME_ALLOCATOR"}
    OBVIOUS
  <2> QED  BY <2>1, <2>2
<1>8. Leads(Take("THREAD_TABLE"), {"FRAME_ALLOCATOR"}, {"FRAME_ALLOCATOR"}, Lock, C)
  BY <1>2, TakeBalanced DEF Lock
<1>9. Leads(Holding("PROCESS_TABLE", MarkRunnable), {"FRAME_ALLOCATOR"}, {"FRAME_ALLOCATOR"},
            Lock, C)
  BY <1>2, TakeBalanced, HoldingBalanced DEF Lock, MarkRunnable
<1>10. Leads(Release("FRAME_ALLOCATOR"), {"FRAME_ALLOCATOR"}, {}, Lock, C)
  <2>1. Leads(Release("FRAME_ALLOCATOR"), {"FRAME_ALLOCATOR"},
              {"FRAME_ALLOCATOR"} \ {"FRAME_ALLOCATOR"}, Lock, C)
    BY ReleaseLeads DEF Lock
  <2> QED  BY <2>1
<1>11. Leads(Do("spawn"), {}, {}, Lock, C)
  BY DoBalanced DEF Balanced, Control
<1> HIDE DEF C
<1>12. Leads(Acquire("CPU") \o CurrentProcess \o AllocProc, {}, {"CPU"}, Lock, C)
  BY <1>1, <1>3, <1>4, ConcatLeads
<1>13. Leads(Acquire("CPU") \o CurrentProcess \o AllocProc \o Acquire("FRAME_ALLOCATOR")
               \o Take("PHYSICAL_MEMORY_OFFSET") \o Release("CPU"),
             {}, {"FRAME_ALLOCATOR"}, Lock, C)
  BY <1>12, <1>5, <1>6, <1>7, ConcatLeads
<1>14. Leads(Acquire("CPU") \o CurrentProcess \o AllocProc \o Acquire("FRAME_ALLOCATOR")
               \o Take("PHYSICAL_MEMORY_OFFSET") \o Release("CPU")
               \o Take("THREAD_TABLE") \o Take("THREAD_TABLE"),
             {}, {"FRAME_ALLOCATOR"}, Lock, C)
  BY <1>13, <1>8, ConcatLeads
<1>15. Leads(Fork, {}, {}, Lock, C)
  BY <1>14, <1>9, <1>10, <1>11, ConcatLeads DEF Fork
<1> QED  BY <1>15 DEF Balanced, C

\* The pieces of boot's code
LEMMA BootPieces ==
  ASSUME NEW C, "mask" \in C, "unmask" \in C
  PROVE  /\ Balanced(Println, Lock, C) /\ Balanced(FerriosInit, Lock, C)
         /\ Balanced(ConsoleInit, Lock, C) /\ Balanced(WithoutInterrupts(Println), Lock, C)
         /\ Balanced(ConsoleGet, Lock, C) /\ Balanced(MemoryInit, Lock, C)
         /\ Balanced(Holding("FRAME_ALLOCATOR", Heap), Lock, C) /\ Balanced(Heap, Lock, C)
         /\ Balanced(CreateKernelThread, Lock, C) /\ Balanced(CreateUserProcess, Lock, C)
         /\ Balanced(Do("mask"), Lock, C)
<1>1. /\ Balanced(Println, Lock, C) /\ Balanced(FerriosInit, Lock, C)
      /\ Balanced(ConsoleInit, Lock, C) /\ Balanced(WithoutInterrupts(Println), Lock, C)
      /\ Balanced(ConsoleGet, Lock, C) /\ Balanced(MemoryInit, Lock, C)
  BY TakeBalanced, DoBalanced, ConcatBalanced, MemoryInitBalanced
     DEF Println, FerriosInit, ConsoleInit, WithoutInterrupts, ConsoleGet, Lock, Control
<1>2. Balanced(Holding("FRAME_ALLOCATOR", Heap), Lock, C) /\ Balanced(Heap, Lock, C)
  BY HeapUnderFramesBalanced, TakeBalanced DEF Heap, Lock
<1>3. Balanced(CreateKernelThread, Lock, C) /\ Balanced(CreateUserProcess, Lock, C)
  BY CreateKernelThreadBalanced, CreateUserProcessBalanced DEF Lock
<1>4. Balanced(Do("mask"), Lock, C)
  BY DoBalanced DEF Control
<1> QED  BY <1>1, <1>2, <1>3, <1>4

\* Boot holds nothing whenever it touches the interrupt flag, and when it ends.
LEMMA BootBalanced == Balanced(BootCode, Lock, {"mask", "unmask", "schedule"})
<1> DEFINE C == {"mask", "unmask", "schedule"}
<1>1. Balanced(Do("schedule"), Lock, C) /\ "mask" \in C /\ "unmask" \in C
  BY DoBalanced DEF Control
<1> HIDE DEF C
<1>2. Balanced(BootCode, Lock, C)
  BY <1>1, BootPieces, ConcatBalanced DEF BootCode
<1> QED  BY <1>2 DEF C

\* Every program gives back all it takes, takes nothing it holds, and holds nothing when
\* it changes the interrupt flag, switches to another thread or returns.
LEMMA CodeBalanced ==
  \A prog \in DOMAIN Code : Balanced(Code[prog], LocksOf(prog), ControlsOf(prog))
<1>1. Balanced(Code["boot"], LocksOf("boot"), ControlsOf("boot"))
  BY BootBalanced DEF Code, LocksOf, ControlsOf
<1>2. Balanced(Code["scheduler"], LocksOf("scheduler"), ControlsOf("scheduler"))
  BY SchedulerBalanced, ConcatBalanced, DoBalanced
     DEF Code, SchedulerLoop, LocksOf, ControlsOf, Lock, Control
<1>3. Balanced(Code["keyboard"], LocksOf("keyboard"), ControlsOf("keyboard"))
  BY TrampolineBalanced, TakeBalanced, ConcatBalanced, DoBalanced
     DEF Code, KeyboardCode, Heap, LocksOf, ControlsOf, Lock, Control
<1>4. Balanced(Code["user"], LocksOf("user"), ControlsOf("user"))
  BY TrampolineBalanced, ConcatBalanced, DoBalanced
     DEF Code, UserCode, LocksOf, ControlsOf, Lock, Control
<1>5. Balanced(Code["print_key"], LocksOf("print_key"), ControlsOf("print_key"))
  BY TakeBalanced, ConcatBalanced, DoBalanced
     DEF Code, PrintKey, WithoutInterrupts, Println, LocksOf, ControlsOf, Lock, Control
<1>6. Balanced(Code["timer_boot"], LocksOf("timer_boot"), ControlsOf("timer_boot"))
  BY TickBalanced DEF Code, TimerAtBoot, LocksOf, ControlsOf
<1>7. Balanced(Code["timer_kernel"], LocksOf("timer_kernel"), ControlsOf("timer_kernel"))
  BY TickBalanced, OnYieldBalanced, ConcatBalanced
     DEF Code, TimerInKernel, LocksOf, ControlsOf
<1>8. Balanced(Code["timer_user"], LocksOf("timer_user"), ControlsOf("timer_user"))
  BY TickBalanced, KilledTestBalanced, OnYieldBalanced, ConcatBalanced
     DEF Code, TimerInUser, LocksOf, ControlsOf, Lock
<1>9. Balanced(Code["timer_kills"], LocksOf("timer_kills"), ControlsOf("timer_kills"))
  BY TickBalanced, KilledTestBalanced, ExitBalanced, ConcatBalanced
     DEF Code, TimerKills, LocksOf, ControlsOf, Lock
<1>10. Balanced(Code["input"], LocksOf("input"), ControlsOf("input"))
  BY TakeBalanced DEF Code, Input, LocksOf, ControlsOf, Lock
<1>11. Balanced(Code["key_warned"], LocksOf("key_warned"), ControlsOf("key_warned"))
  BY TakeBalanced, ConcatBalanced DEF Code, KeyWarned, Println, LocksOf, ControlsOf, Lock
<1>12. /\ Balanced(Code["print_num"], LocksOf("print_num"), ControlsOf("print_num"))
       /\ Balanced(Code["getpid"], LocksOf("getpid"), ControlsOf("getpid"))
       /\ Balanced(Code["kill"], LocksOf("kill"), ControlsOf("kill"))
       /\ Balanced(Code["uptime"], LocksOf("uptime"), ControlsOf("uptime"))
  <2>1. /\ Balanced(PrintNum, Lock, {}) /\ Balanced(Kill, Lock, {}) /\ Balanced(Uptime, Lock, {})
    BY TakeBalanced DEF PrintNum, Println, Kill, Uptime, Lock
  <2>2. Balanced(GetPid, Lock, {})
    BY GetPidBalanced DEF Lock
  <2> QED  BY <2>1, <2>2, SyscallOfBalanced DEF Code, LocksOf, ControlsOf
<1>13. /\ Balanced(Code["print_str"], LocksOf("print_str"), ControlsOf("print_str"))
       /\ Balanced(Code["exec"], LocksOf("exec"), ControlsOf("exec"))
       /\ Balanced(Code["sbrk"], LocksOf("sbrk"), ControlsOf("sbrk"))
  BY PrintStrBalanced, ExecBalanced, SbrkBalanced, SyscallOfBalanced
     DEF Code, LocksOf, ControlsOf, Lock
<1>14. Balanced(Code["fork"], LocksOf("fork"), ControlsOf("fork"))
  BY ForkBalanced, SyscallOfBalanced DEF Code, LocksOf, ControlsOf
<1>15. Balanced(Code["exit"], LocksOf("exit"), ControlsOf("exit"))
  BY EntryBalanced, ExitBalanced, ConcatBalanced DEF Code, LocksOf, ControlsOf, Lock
<1>16. Balanced(Code["wait"], LocksOf("wait"), ControlsOf("wait"))
  BY EntryBalanced, KilledTestBalanced, TakeBalanced, DoBalanced, ConcatBalanced
     DEF Code, LocksOf, ControlsOf, Lock, Control
<1>17. Balanced(Code["wait_reaps"], LocksOf("wait_reaps"), ControlsOf("wait_reaps"))
  BY FreeProcessBalanced, CopyToUserBalanced, KilledTestBalanced, DoBalanced, ConcatBalanced
     DEF Code, LocksOf, ControlsOf, Lock, Control
<1>18. Balanced(Code["wait_yields"], LocksOf("wait_yields"), ControlsOf("wait_yields"))
  BY SwitchBalanced, TakeBalanced, DoBalanced, ConcatBalanced
     DEF Code, LocksOf, ControlsOf, Lock, Control
<1>19. Balanced(Code["wait_fails"], LocksOf("wait_fails"), ControlsOf("wait_fails"))
  BY KilledTestBalanced DEF Code, LocksOf, ControlsOf, Lock
<1>20. DOMAIN Code = {"boot", "scheduler", "keyboard", "user", "print_key", "timer_boot",
         "timer_kernel", "timer_user", "timer_kills", "input", "key_warned", "print_num",
         "print_str", "fork", "exec", "exit", "kill", "sbrk", "getpid", "uptime", "wait",
         "wait_reaps", "wait_yields", "wait_fails"}
  BY DEF Code
<1> QED
  BY <1>1, <1>2, <1>3, <1>4, <1>5, <1>6, <1>7, <1>8, <1>9, <1>10, <1>11, <1>12, <1>13,
     <1>14, <1>15, <1>16, <1>17, <1>18, <1>19, <1>20

-----------------------------------------------------------------------------
(* The places that matter in the programs                                  *)

\* The operations of two pieces of code, one after the other
LEMMA ConcatAt ==
  ASSUME NEW a \in Seq(Operation), NEW b \in Seq(Operation)
  PROVE  /\ a \o b \in Seq(Operation) /\ Len(a \o b) = Len(a) + Len(b)
         /\ \A p \in 1 .. Len(a) : (a \o b)[p] = a[p]
         /\ \A p \in Len(a) + 1 .. Len(a) + Len(b) : (a \o b)[p] = b[p - Len(a)]
OBVIOUS

\* The operation that takes a lock, and the one that gives it back
LEMMA AcquireAt ==
  ASSUME NEW l \in Lock
  PROVE  /\ Acquire(l) \in Seq(Operation) /\ Len(Acquire(l)) = 1
         /\ Acquire(l)[1].do = "lock" /\ Acquire(l)[1].lock = l
         /\ Release(l) \in Seq(Operation) /\ Len(Release(l)) = 1
         /\ Release(l)[1].do = "unlock" /\ Release(l)[1].lock = l
BY DEF Acquire, Release, Operation

\* The two operations of a guard that is dropped at once
LEMMA TakeAt ==
  ASSUME NEW l \in Lock
  PROVE  /\ Take(l) \in Seq(Operation) /\ Len(Take(l)) = 2
         /\ Take(l)[1].do = "lock" /\ Take(l)[1].lock = l
         /\ Take(l)[2].do = "unlock" /\ Take(l)[2].lock = l
<1> DEFINE a == Acquire(l)  b == Release(l)  c == a \o <<>>
<1>1. /\ a \in Seq(Operation) /\ Len(a) = 1 /\ a[1].do = "lock" /\ a[1].lock = l
      /\ b \in Seq(Operation) /\ Len(b) = 1 /\ b[1].do = "unlock" /\ b[1].lock = l
  BY AcquireAt
<1>2. Take(l) = c \o b
  BY DEF Take, Holding
<1> HIDE DEF a, b
<1>3. c \in Seq(Operation) /\ Len(c) = 1 /\ c[1] = a[1]
  <2>1. <<>> \in Seq(Operation) /\ Len(<<>>) = 0
    OBVIOUS
  <2> QED  BY <2>1, <1>1, ConcatAt
<1> HIDE DEF c
<1> DEFINE code == c \o b
<1>4. code \in Seq(Operation) /\ Len(code) = Len(c) + Len(b)
        /\ (\A p \in 1 .. Len(c) : code[p] = c[p])
        /\ (\A p \in Len(c) + 1 .. Len(c) + Len(b) : code[p] = b[p - Len(c)])
  BY <1>1, <1>3, ConcatAt
<1> HIDE DEF code
<1>5. Len(code) = 2 /\ code[1] = c[1] /\ code[2] = b[1]
  BY <1>1, <1>3, <1>4
<1>6. Take(l) = code
  BY <1>2 DEF code
<1> QED  BY <1>1, <1>3, <1>4, <1>5, <1>6

\* Any other operation
LEMMA DoAt ==
  ASSUME NEW what \in Control
  PROVE  Do(what) \in Seq(Operation) /\ Len(Do(what)) = 1 /\ Do(what)[1].do = what
BY DEF Do, Operation

\* All trampolines, and the end of a switch
LEMMA BothTables ==
  LET code == Holding("THREAD_TABLE", Take("CPU")) IN
    /\ code \in Seq(Operation) /\ Len(code) = 4
    /\ code[1].do = "lock" /\ code[1].lock = "THREAD_TABLE"
    /\ code[2].do = "lock" /\ code[2].lock = "CPU"
    /\ code[3].do = "unlock" /\ code[3].lock = "CPU"
    /\ code[4].do = "unlock" /\ code[4].lock = "THREAD_TABLE"
<1> DEFINE a == Acquire("THREAD_TABLE")  b == Take("CPU")  c == Release("THREAD_TABLE")
           d == a \o b  code == d \o c
<1>1. /\ a \in Seq(Operation) /\ Len(a) = 1
      /\ a[1].do = "lock" /\ a[1].lock = "THREAD_TABLE"
      /\ c \in Seq(Operation) /\ Len(c) = 1
      /\ c[1].do = "unlock" /\ c[1].lock = "THREAD_TABLE"
  BY AcquireAt DEF Lock
<1>2. /\ b \in Seq(Operation) /\ Len(b) = 2
      /\ b[1].do = "lock" /\ b[1].lock = "CPU" /\ b[2].do = "unlock" /\ b[2].lock = "CPU"
  BY TakeAt DEF Lock
<1> HIDE DEF a, b, c
<1>3. d \in Seq(Operation) /\ Len(d) = 3 /\ d[1] = a[1] /\ d[2] = b[1] /\ d[3] = b[2]
  <2>1. d \in Seq(Operation) /\ Len(d) = Len(a) + Len(b)
        /\ (\A p \in 1 .. Len(a) : d[p] = a[p])
        /\ (\A p \in Len(a) + 1 .. Len(a) + Len(b) : d[p] = b[p - Len(a)])
    BY <1>1, <1>2, ConcatAt
  <2> HIDE DEF d
  <2> QED  BY <2>1, <1>1, <1>2
<1> HIDE DEF d
<1>4. /\ code \in Seq(Operation) /\ Len(code) = 4
      /\ code[1] = d[1] /\ code[2] = d[2] /\ code[3] = d[3] /\ code[4] = c[1]
  <2>1. code \in Seq(Operation) /\ Len(code) = Len(d) + Len(c)
        /\ (\A p \in 1 .. Len(d) : code[p] = d[p])
        /\ (\A p \in Len(d) + 1 .. Len(d) + Len(c) : code[p] = c[p - Len(d)])
    BY <1>1, <1>3, ConcatAt
  <2> HIDE DEF code
  <2> QED  BY <2>1, <1>1, <1>3
<1>5. Holding("THREAD_TABLE", Take("CPU")) = code
  BY DEF Holding, a, b, c, d
<1> HIDE DEF code
<1> QED  BY <1>1, <1>2, <1>3, <1>4, <1>5

\* code begins with a, and takes only locks of L after that.
Opens(code, a, L) ==
  /\ code \in Seq(Operation) /\ Len(a) \in Nat /\ Len(a) <= Len(code)
  /\ \A p \in 1 .. Len(a) : code[p] = a[p]
  /\ \A p \in Len(a) + 1 .. Len(code) : code[p].do = "lock" => code[p].lock \in L

\* Balanced code takes the locks and does the operations that it is said to.
LEMMA BalancedTakes ==
  ASSUME NEW code, NEW L, NEW C \in SUBSET Control, Balanced(code, L, C)
  PROVE  /\ code \in Seq(Operation)
         /\ \A p \in 1 .. Len(code) :
              /\ code[p].do \in {"lock", "unlock"} \cup C
              /\ code[p].do = "lock" => code[p].lock \in L
<1>1. PICK h \in [1 .. Len(code) + 1 -> SUBSET Lock] : Holds(code, h, L, C)
  BY DEF Leads, Balanced
<1>2. ASSUME NEW p \in 1 .. Len(code)
      PROVE  /\ code[p].do \in {"lock", "unlock"} \cup C
             /\ code[p].do = "lock" => code[p].lock \in L
  <2>1. Makes(code[p], h[p], h[p + 1], L, C)
    BY <1>1 DEF Holds
  <2> QED  BY <2>1 DEF Makes, Control
<1> QED  BY <1>2 DEF Leads, Balanced

\* A piece of code is its own beginning.
LEMMA OpensItself ==
  ASSUME NEW a \in Seq(Operation), NEW L PROVE Opens(a, a, L)
BY DEF Opens

\* What follows does not change how code begins.
LEMMA OpensConcat ==
  ASSUME NEW code, NEW a, NEW b, NEW L, NEW C \in SUBSET Control,
         Opens(code, a, L), Balanced(b, L, C)
  PROVE  Opens(code \o b, a, L)
<1> DEFINE all == code \o b
<1>1. /\ code \in Seq(Operation) /\ b \in Seq(Operation)
      /\ \A p \in 1 .. Len(b) : b[p].do = "lock" => b[p].lock \in L
  BY BalancedTakes DEF Opens
<1>2. /\ all \in Seq(Operation) /\ Len(all) = Len(code) + Len(b)
      /\ \A p \in 1 .. Len(code) : all[p] = code[p]
      /\ \A p \in Len(code) + 1 .. Len(code) + Len(b) : all[p] = b[p - Len(code)]
  BY <1>1, ConcatAt
<1>3. Len(code) \in Nat /\ Len(b) \in Nat
  BY <1>1
<1> HIDE DEF all
<1>4. ASSUME NEW p \in Len(a) + 1 .. Len(all), all[p].do = "lock" PROVE all[p].lock \in L
  <2>1. CASE p <= Len(code)
    BY <2>1, <1>2, <1>3, <1>4 DEF Opens
  <2>2. CASE ~(p <= Len(code))
    <3>1. p - Len(code) \in 1 .. Len(b) /\ p \in Len(code) + 1 .. Len(code) + Len(b)
      BY <2>2, <1>2, <1>3 DEF Opens
    <3> QED  BY <3>1, <1>1, <1>2, <1>4
  <2> QED  BY <2>1, <2>2
<1>5. Opens(all, a, L)
  BY <1>2, <1>3, <1>4 DEF Opens
<1> QED  BY <1>5 DEF all

\* code does w at its end and nowhere else.
Ends(code, w) ==
  /\ code \in Seq(Operation) /\ Len(code) >= 1
  /\ code[Len(code)].do = w
  /\ \A p \in 1 .. Len(code) - 1 : code[p].do # w

\* An operation put at the end of code that does not do it
LEMMA EndsDo ==
  ASSUME NEW a, NEW w \in Control, NEW C \in SUBSET Control, NEW L,
         Balanced(a, L, C), w \notin C
  PROVE  Ends(a \o Do(w), w)
<1> DEFINE b == Do(w)  code == a \o b
<1>1. a \in Seq(Operation) /\ b \in Seq(Operation) /\ Len(b) = 1 /\ b[1].do = w
  BY BalancedTakes, DoAt
<1> HIDE DEF b
<1>2. Len(a) \in Nat
  BY <1>1
<1>3. \A p \in 1 .. Len(a) : a[p].do # w
  BY BalancedTakes DEF Control
<1>4. /\ code \in Seq(Operation) /\ Len(code) = Len(a) + Len(b)
      /\ \A p \in 1 .. Len(a) : code[p] = a[p]
      /\ \A p \in Len(a) + 1 .. Len(a) + Len(b) : code[p] = b[p - Len(a)]
  BY <1>1, ConcatAt
<1> HIDE DEF code
<1>5. code[Len(a) + 1] = b[1]
  <2>1. Len(a) + 1 \in Len(a) + 1 .. Len(a) + Len(b) /\ (Len(a) + 1) - Len(a) = 1
    BY <1>1, <1>2
  <2> QED  BY <2>1, <1>4
<1>6. Ends(code, w)
  BY <1>1, <1>2, <1>3, <1>4, <1>5 DEF Ends
<1> QED  BY <1>6 DEF code, b

\* What comes before does not change how code ends.
LEMMA EndsConcat ==
  ASSUME NEW a, NEW b, NEW w \in Control, NEW C \in SUBSET Control, NEW L,
         Balanced(a, L, C), w \notin C, Ends(b, w)
  PROVE  Ends(a \o b, w)
<1> DEFINE code == a \o b
<1>1. a \in Seq(Operation) /\ b \in Seq(Operation)
  BY BalancedTakes DEF Ends
<1>2. Len(a) \in Nat /\ Len(b) \in Nat /\ Len(b) >= 1
  BY <1>1 DEF Ends
<1>3. \A p \in 1 .. Len(a) : a[p].do # w
  BY BalancedTakes DEF Control
<1>4. /\ code \in Seq(Operation) /\ Len(code) = Len(a) + Len(b)
      /\ \A p \in 1 .. Len(a) : code[p] = a[p]
      /\ \A p \in Len(a) + 1 .. Len(a) + Len(b) : code[p] = b[p - Len(a)]
  BY <1>1, ConcatAt
<1> HIDE DEF code
<1>5. code[Len(code)] = b[Len(b)]
  <2>1. Len(code) \in Len(a) + 1 .. Len(a) + Len(b) /\ Len(code) - Len(a) = Len(b)
    BY <1>2, <1>4
  <2> QED  BY <2>1, <1>4
<1>6. ASSUME NEW p \in 1 .. Len(code) - 1 PROVE code[p].do # w
  <2>1. CASE p \in 1 .. Len(a)
    BY <2>1, <1>3, <1>4
  <2>2. CASE p \notin 1 .. Len(a)
    <3>1. p \in Len(a) + 1 .. Len(a) + Len(b) /\ p - Len(a) \in 1 .. Len(b) - 1
      BY <2>2, <1>2, <1>4
    <3> QED  BY <3>1, <1>4 DEF Ends
  <2> QED  BY <2>1, <2>2
<1>7. Ends(code, w)
  BY <1>2, <1>4, <1>5, <1>6 DEF Ends
<1> QED  BY <1>7 DEF code

\* How the programs end that do not simply return
LEMMA ProgramEnds ==
  /\ Ends(Code["boot"], "schedule") /\ Ends(Code["scheduler"], "dispatch")
  /\ Ends(Code["keyboard"], "idle") /\ Ends(Code["user"], "user")
  /\ Ends(Code["print_key"], "unmask")
  /\ Ends(Code["timer_kernel"], "unmask") /\ Ends(Code["timer_user"], "unmask")
<1>1. Ends(Code["boot"], "schedule")
  <2> DEFINE C == {"mask", "unmask"}
             before == Println \o FerriosInit \o ConsoleInit \o WithoutInterrupts(Println)
               \o ConsoleGet \o MemoryInit \o Holding("FRAME_ALLOCATOR", Heap) \o Heap
               \o CreateKernelThread \o CreateUserProcess \o Do("mask")
  <2>1. "mask" \in C /\ "unmask" \in C /\ C \in SUBSET Control /\ "schedule" \notin C
    BY DEF Control
  <2> HIDE DEF C
  <2>2. Balanced(before, Lock, C)
    BY <2>1, BootPieces, ConcatBalanced
  <2> HIDE DEF before
  <2>3. Ends(before \o Do("schedule"), "schedule")
    BY <2>1, <2>2, EndsDo DEF Control
  <2> QED  BY <2>3 DEF Code, BootCode, before
<1>2. Ends(Code["scheduler"], "dispatch")
  <2> DEFINE before ==
               Holding("THREAD_TABLE", Holding("CPU", Take("PROCESS_TABLE") \o KernelPageTable))
  <2>1. Balanced(before, Lock, {})
    BY SchedulerBalanced DEF Lock
  <2> HIDE DEF before
  <2>2. Ends(before \o Do("dispatch"), "dispatch")
    BY <2>1, EndsDo DEF Control
  <2> QED  BY <2>2 DEF Code, SchedulerLoop, before
<1>3. Ends(Code["keyboard"], "idle")
  <2> DEFINE before == Trampoline \o Heap \o Heap
  <2>1. Balanced(before, Lock, {})
    BY TrampolineBalanced, TakeBalanced, ConcatBalanced DEF Heap, Lock
  <2> HIDE DEF before
  <2>2. Ends(before \o Do("idle"), "idle")
    BY <2>1, EndsDo DEF Control
  <2> QED  BY <2>2 DEF Code, KeyboardCode, before
<1>4. Ends(Code["user"], "user")
  <2>1. Balanced(Trampoline, Lock, {})
    BY TrampolineBalanced DEF Lock
  <2>2. Ends(Trampoline \o Do("user"), "user")
    BY <2>1, EndsDo DEF Control
  <2> QED  BY <2>2 DEF Code, UserCode
<1>5. Ends(Code["print_key"], "unmask")
  <2> DEFINE before == Do("mask") \o Println
  <2>1. Balanced(before, Lock, {"mask"})
    BY DoBalanced, TakeBalanced, ConcatBalanced DEF Println, Lock, Control
  <2> HIDE DEF before
  <2>2. Ends(before \o Do("unmask"), "unmask")
    BY <2>1, EndsDo DEF Control
  <2> QED  BY <2>2 DEF Code, PrintKey, WithoutInterrupts, before
<1>6. Ends(OnYield, "unmask")
  <2>1. Balanced(Switch("yield"), Lock, {"yield"})
    BY SwitchBalanced DEF Lock, Control
  <2> QED  BY <2>1, EndsDo DEF OnYield, Control
<1>7. Ends(Code["timer_kernel"], "unmask")
  <2>1. Balanced(Tick, Lock, {})
    BY TickBalanced DEF Lock
  <2>2. Ends(Tick \o OnYield, "unmask")
    BY <1>6, <2>1, EndsConcat DEF Control
  <2> QED  BY <2>2 DEF Code, TimerInKernel
<1>8. Ends(Code["timer_user"], "unmask")
  <2>1. Balanced(Tick \o KilledTest \o KilledTest, Lock, {})
    BY TickBalanced, KilledTestBalanced, ConcatBalanced DEF Lock
  <2>2. Ends(Tick \o KilledTest \o KilledTest \o OnYield, "unmask")
    BY <1>6, <2>1, EndsConcat DEF Control
  <2> QED  BY <2>2 DEF Code, TimerInUser
<1> QED  BY <1>1, <1>2, <1>3, <1>4, <1>5, <1>7, <1>8

\* Boot comes out of FerriosInit with interrupts on, and never takes the timer's locks again.
LEMMA BootOpens ==
  /\ Opens(BootCode, Println \o FerriosInit, Lock \ {"PICS", "TICKS"})
  /\ Ends(Println \o FerriosInit, "unmask") /\ Len(Println \o FerriosInit) = 7
  /\ (Println \o FerriosInit)[5].do = "lock" /\ (Println \o FerriosInit)[5].lock = "PICS"
  /\ (Println \o FerriosInit)[6].do = "unlock" /\ (Println \o FerriosInit)[6].lock = "PICS"
  /\ \A p \in 1 .. 7 : (Println \o FerriosInit)[p].do = "lock" =>
       /\ (Println \o FerriosInit)[p].lock \in {"CONSOLE", "CPU", "PICS"}
       /\ (p # 5 => (Println \o FerriosInit)[p].lock # "PICS")
<1> DEFINE a == Println  b == Take("CPU")  c == Take("PICS")  d == Do("unmask")
           e == b \o c  f == e \o d  g == a \o f
           L == Lock \ {"PICS", "TICKS"}  C == {"mask", "unmask", "schedule"}
<1>1. /\ a \in Seq(Operation) /\ Len(a) = 2 /\ a[1].do = "lock" /\ a[1].lock = "CONSOLE"
      /\ a[2].do = "unlock"
  BY TakeAt DEF Println, Lock
<1>2. /\ b \in Seq(Operation) /\ Len(b) = 2 /\ b[1].do = "lock" /\ b[1].lock = "CPU"
      /\ b[2].do = "unlock"
  BY TakeAt DEF Lock
<1>3. /\ c \in Seq(Operation) /\ Len(c) = 2 /\ c[1].do = "lock" /\ c[1].lock = "PICS"
      /\ c[2].do = "unlock" /\ c[2].lock = "PICS"
  BY TakeAt DEF Lock
<1>4. d \in Seq(Operation) /\ Len(d) = 1 /\ d[1].do = "unmask"
  BY DoAt DEF Control
<1>5. g = Println \o FerriosInit
  BY DEF FerriosInit
<1> HIDE DEF a, b, c, d
<1>6. /\ e \in Seq(Operation) /\ Len(e) = 4
      /\ e[1] = b[1] /\ e[2] = b[2] /\ e[3] = c[1] /\ e[4] = c[2]
  <2>1. /\ e \in Seq(Operation) /\ Len(e) = Len(b) + Len(c)
        /\ (\A p \in 1 .. Len(b) : e[p] = b[p])
        /\ (\A p \in Len(b) + 1 .. Len(b) + Len(c) : e[p] = c[p - Len(b)])
    BY <1>2, <1>3, ConcatAt
  <2> HIDE DEF e
  <2> QED  BY <2>1, <1>2, <1>3
<1> HIDE DEF e
<1>7. /\ f \in Seq(Operation) /\ Len(f) = 5
      /\ f[1] = e[1] /\ f[2] = e[2] /\ f[3] = e[3] /\ f[4] = e[4] /\ f[5] = d[1]
  <2>1. /\ f \in Seq(Operation) /\ Len(f) = Len(e) + Len(d)
        /\ (\A p \in 1 .. Len(e) : f[p] = e[p])
        /\ (\A p \in Len(e) + 1 .. Len(e) + Len(d) : f[p] = d[p - Len(e)])
    BY <1>4, <1>6, ConcatAt
  <2> HIDE DEF f
  <2> QED  BY <2>1, <1>4, <1>6
<1> HIDE DEF f
<1>8. /\ g \in Seq(Operation) /\ Len(g) = 7
      /\ g[1] = a[1] /\ g[2] = a[2] /\ g[3] = f[1] /\ g[4] = f[2] /\ g[5] = f[3]
      /\ g[6] = f[4] /\ g[7] = f[5]
  <2>1. /\ g \in Seq(Operation) /\ Len(g) = Len(a) + Len(f)
        /\ (\A p \in 1 .. Len(a) : g[p] = a[p])
        /\ (\A p \in Len(a) + 1 .. Len(a) + Len(f) : g[p] = f[p - Len(a)])
    BY <1>1, <1>7, ConcatAt
  <2> HIDE DEF g
  <2> QED  BY <2>1, <1>1, <1>7
<1> HIDE DEF g
<1>9. Opens(g, g, L)
  BY <1>8, OpensItself
<1>10. /\ Balanced(ConsoleInit, L, C) /\ Balanced(WithoutInterrupts(Println), L, C)
       /\ Balanced(ConsoleGet, L, C)
  BY TakeBalanced, DoBalanced, ConcatBalanced
     DEF Println, ConsoleInit, WithoutInterrupts, ConsoleGet, Lock, Control
<1>11. Balanced(MemoryInit, L, C)
  BY MemoryInitBalanced DEF Lock
<1>12. Balanced(Holding("FRAME_ALLOCATOR", Heap), L, C) /\ Balanced(Heap, L, C)
  BY HeapUnderFramesBalanced, TakeBalanced DEF Heap, Lock
<1>13. Balanced(CreateKernelThread, L, C) /\ Balanced(CreateUserProcess, L, C)
  BY CreateKernelThreadBalanced, CreateUserProcessBalanced DEF Lock
<1>14. Balanced(Do("mask"), L, C) /\ Balanced(Do("schedule"), L, C) /\ C \in SUBSET Control
  BY DoBalanced DEF Control
<1> HIDE DEF L, C
<1>15. Opens(g \o ConsoleInit \o WithoutInterrupts(Println) \o ConsoleGet \o MemoryInit
              \o Holding("FRAME_ALLOCATOR", Heap) \o Heap, g, L)
  BY <1>9, <1>10, <1>11, <1>12, <1>14, OpensConcat
<1>16. Opens(BootCode, g, L)
  BY <1>5, <1>15, <1>13, <1>14, OpensConcat DEF BootCode
<1>17. Ends(g, "unmask")
  <2>1. \A p \in 1 .. 6 : g[p].do # "unmask"
    <3>1. \A p \in 1 .. 6 : p \in {1, 2, 3, 4, 5, 6}
      OBVIOUS
    <3>2. /\ g[1].do = "lock" /\ g[2].do = "unlock" /\ g[3].do = "lock" /\ g[4].do = "unlock"
          /\ g[5].do = "lock" /\ g[6].do = "unlock"
      BY <1>1, <1>2, <1>3, <1>6, <1>7, <1>8
    <3> QED  BY <3>1, <3>2
  <2> QED  BY <2>1, <1>4, <1>7, <1>8 DEF Ends
<1>18. ASSUME NEW p \in 1 .. 7, g[p].do = "lock"
       PROVE  g[p].lock \in {"CONSOLE", "CPU", "PICS"} /\ (p # 5 => g[p].lock # "PICS")
  <2>1. p \in {1, 2, 3, 4, 5, 6, 7}
    OBVIOUS
  <2>2. /\ g[1].lock = "CONSOLE" /\ g[2].do = "unlock" /\ g[3].lock = "CPU"
        /\ g[4].do = "unlock" /\ g[5].lock = "PICS" /\ g[6].do = "unlock" /\ g[7].do = "unmask"
    BY <1>1, <1>2, <1>3, <1>4, <1>6, <1>7, <1>8
  <2> QED  BY <2>1, <2>2, <1>18
<1>19. /\ g[5].do = "lock" /\ g[5].lock = "PICS" /\ g[6].do = "unlock" /\ g[6].lock = "PICS"
  BY <1>3, <1>6, <1>7, <1>8
<1> QED  BY <1>5, <1>8, <1>16, <1>17, <1>18, <1>19 DEF L

\* Until then it holds them only with interrupts off.
LEMMA BootHeld ==
  \A p \in 8 .. Len(BootCode) + 1 : HeldAt(BootCode, p) \cap {"PICS", "TICKS"} = {}
<1> DEFINE g == Println \o FerriosInit
<1>1. /\ Opens(BootCode, g, Lock \ {"PICS", "TICKS"}) /\ Len(g) = 7
      /\ g[6].do = "unlock" /\ g[6].lock = "PICS"
      /\ \A p \in 1 .. 7 : g[p].do = "lock" =>
           g[p].lock \in {"CONSOLE", "CPU", "PICS"} /\ (p # 5 => g[p].lock # "PICS")
  BY BootOpens
<1> HIDE DEF g
<1>2. /\ \A p \in 1 .. 7 : BootCode[p] = g[p]
      /\ \A p \in 8 .. Len(BootCode) : BootCode[p].do = "lock" =>
           BootCode[p].lock \notin {"PICS", "TICKS"}
      /\ Len(BootCode) \in Nat
  BY <1>1 DEF Opens
<1> SUFFICES ASSUME NEW p \in 8 .. Len(BootCode) + 1, NEW l \in {"PICS", "TICKS"},
                    l \in HeldAt(BootCode, p)
             PROVE  FALSE
  OBVIOUS
<1>3. PICK i \in 1 .. p - 1 :
        /\ BootCode[i].do = "lock" /\ BootCode[i].lock = l
        /\ \A j \in i + 1 .. p - 1 : ~(BootCode[j].do = "unlock" /\ BootCode[j].lock = l)
  BY DEF HeldAt
<1>4. i \in 1 .. 7
  BY <1>2, <1>3
<1>5. g[i].do = "lock" /\ g[i].lock = l
  BY <1>2, <1>3, <1>4
<1>6. i = 5 /\ l = "PICS"
  BY <1>1, <1>4, <1>5
<1>7. BootCode[6].do = "unlock" /\ BootCode[6].lock = l
  BY <1>1, <1>2, <1>6
<1> QED  BY <1>2, <1>3, <1>6, <1>7

\* What a trampoline does with its two locks, and the code after it with others
LEMMA TrampolineHeld ==
  ASSUME NEW code, NEW L, Opens(code, Trampoline, L), "THREAD_TABLE" \notin L, "CPU" \notin L
  PROVE  \A p \in 1 .. Len(code) + 1 :
           "CPU" \in HeldAt(code, p) => "THREAD_TABLE" \in HeldAt(code, p)
<1>1. /\ Len(Trampoline) = 4
      /\ Trampoline[1].do = "lock" /\ Trampoline[1].lock = "THREAD_TABLE"
      /\ Trampoline[2].do = "lock" /\ Trampoline[2].lock = "CPU"
      /\ Trampoline[3].do = "unlock" /\ Trampoline[3].lock = "CPU"
      /\ Trampoline[4].do = "unlock" /\ Trampoline[4].lock = "THREAD_TABLE"
  BY BothTables DEF Trampoline
<1>2. /\ code[1].do = "lock" /\ code[1].lock = "THREAD_TABLE"
      /\ code[2].do = "lock" /\ code[2].lock = "CPU"
      /\ code[3].do = "unlock" /\ code[3].lock = "CPU"
      /\ code[4].do = "unlock" /\ code[4].lock = "THREAD_TABLE"
      /\ \A p \in 5 .. Len(code) : code[p].do = "lock" => code[p].lock \in L
      /\ Len(code) \in Nat
  BY <1>1 DEF Opens
<1> SUFFICES ASSUME NEW p \in 1 .. Len(code) + 1, "CPU" \in HeldAt(code, p)
             PROVE  "THREAD_TABLE" \in HeldAt(code, p)
  OBVIOUS
<1>3. PICK i \in 1 .. p - 1 :
        /\ code[i].do = "lock" /\ code[i].lock = "CPU"
        /\ \A j \in i + 1 .. p - 1 : ~(code[j].do = "unlock" /\ code[j].lock = "CPU")
  BY DEF HeldAt
<1>4. i \in 1 .. 4
  BY <1>2, <1>3
<1>5. i = 2
  <2>1. i \in {1, 2, 3, 4}
    BY <1>4
  <2> QED  BY <2>1, <1>2, <1>3
<1>6. p = 3
  BY <1>2, <1>3, <1>5
<1>7. /\ 1 \in 1 .. p - 1
      /\ \A j \in 1 + 1 .. p - 1 : ~(code[j].do = "unlock" /\ code[j].lock = "THREAD_TABLE")
  BY <1>2, <1>6
<1>8. "THREAD_TABLE" \in Lock
  BY DEF Lock
<1> QED  BY <1>2, <1>7, <1>8 DEF HeldAt

\* Threads start in a trampoline, and take no lock of its two after it.
LEMMA OwnCodeHeld ==
  ASSUME NEW prog \in {"keyboard", "user"}
  PROVE  \A p \in 1 .. Len(Code[prog]) + 1 :
           "CPU" \in HeldAt(Code[prog], p) => "THREAD_TABLE" \in HeldAt(Code[prog], p)
<1>1. Trampoline \in Seq(Operation)
  BY BothTables DEF Trampoline
<1>2. Opens(Trampoline, Trampoline, {"ALLOCATOR"})
  BY <1>1, OpensItself
<1>3. Balanced(Heap, {"ALLOCATOR"}, {})
  BY TakeBalanced DEF Heap, Lock
<1>4. Balanced(Do("idle"), {"ALLOCATOR"}, {"idle"}) /\ Balanced(Do("user"), {"ALLOCATOR"}, {"user"})
  BY DoBalanced DEF Control
<1>5. {"idle"} \in SUBSET Control /\ {"user"} \in SUBSET Control /\ {} \in SUBSET Control
  BY DEF Control
<1>6. Opens(Code["user"], Trampoline, {"ALLOCATOR"})
  BY <1>2, <1>4, <1>5, OpensConcat DEF Code, UserCode
<1>7. Opens(Code["keyboard"], Trampoline, {"ALLOCATOR"})
  BY <1>2, <1>3, <1>4, <1>5, OpensConcat DEF Code, KeyboardCode
<1> QED  BY <1>6, <1>7, TrampolineHeld

\* The handler of a tick in the kernel asks for THREAD_TABLE seventh, and holds it when it
\* asks for CPU; only then does it yield.
LEMMA TimerKernelAt ==
  LET code == Code["timer_kernel"] IN
    /\ Len(Tick \o KernelPageTable) = 6
    /\ Len(code) = 12 /\ code[7].do = "lock" /\ code[7].lock = "THREAD_TABLE"
    /\ \A p \in 1 .. Len(code) : code[p].do = "yield" => p > 7
    /\ \A p \in 1 .. Len(code) : code[p].do = "lock" /\ code[p].lock = "CPU" => p = 8
    /\ "THREAD_TABLE" \in HeldAt(code, 8)
<1> DEFINE t1 == Take("PICS")  t2 == Take("TICKS")  k == Take("KERNEL_PAGE_TABLE_FRAME")
           h == Holding("THREAD_TABLE", Take("CPU"))  y == Do("yield")  u == Do("unmask")
           t == t1 \o t2  kh == k \o h  s == kh \o y  o == s \o u  code == t \o o
           tk == t \o k
<1>1. /\ t1 \in Seq(Operation) /\ Len(t1) = 2 /\ t1[1].do = "lock" /\ t1[1].lock = "PICS"
      /\ t1[2].do = "unlock"
  BY TakeAt DEF Lock
<1>2. /\ t2 \in Seq(Operation) /\ Len(t2) = 2 /\ t2[1].do = "lock" /\ t2[1].lock = "TICKS"
      /\ t2[2].do = "unlock"
  BY TakeAt DEF Lock
<1>3. /\ k \in Seq(Operation) /\ Len(k) = 2
      /\ k[1].do = "lock" /\ k[1].lock = "KERNEL_PAGE_TABLE_FRAME" /\ k[2].do = "unlock"
  BY TakeAt DEF Lock
<1>4. /\ h \in Seq(Operation) /\ Len(h) = 4
      /\ h[1].do = "lock" /\ h[1].lock = "THREAD_TABLE" /\ h[2].do = "lock"
      /\ h[3].do = "unlock" /\ h[4].do = "unlock"
  BY BothTables
<1>5. /\ y \in Seq(Operation) /\ Len(y) = 1 /\ y[1].do = "yield"
      /\ u \in Seq(Operation) /\ Len(u) = 1 /\ u[1].do = "unmask"
  BY DoAt DEF Control
<1>6. Code["timer_kernel"] = code /\ Tick \o KernelPageTable = tk
  BY DEF Code, TimerInKernel, Tick, OnYield, Switch, KernelPageTable
<1> HIDE DEF t1, t2, k, h, y, u
<1>7. /\ t \in Seq(Operation) /\ Len(t) = 4
      /\ t[1] = t1[1] /\ t[2] = t1[2] /\ t[3] = t2[1] /\ t[4] = t2[2]
  <2>1. /\ t \in Seq(Operation) /\ Len(t) = Len(t1) + Len(t2)
        /\ (\A p \in 1 .. Len(t1) : t[p] = t1[p])
        /\ (\A p \in Len(t1) + 1 .. Len(t1) + Len(t2) : t[p] = t2[p - Len(t1)])
    BY <1>1, <1>2, ConcatAt
  <2> HIDE DEF t
  <2> QED  BY <2>1, <1>1, <1>2
<1> HIDE DEF t
<1>8. Len(tk) = 6
  <2>1. Len(tk) = Len(t) + Len(k)
    BY <1>3, <1>7, ConcatAt
  <2> HIDE DEF tk
  <2> QED  BY <2>1, <1>3, <1>7
<1>9. /\ kh \in Seq(Operation) /\ Len(kh) = 6 /\ kh[1] = k[1] /\ kh[2] = k[2]
      /\ kh[3] = h[1] /\ kh[4] = h[2] /\ kh[5] = h[3] /\ kh[6] = h[4]
  <2>1. /\ kh \in Seq(Operation) /\ Len(kh) = Len(k) + Len(h)
        /\ (\A p \in 1 .. Len(k) : kh[p] = k[p])
        /\ (\A p \in Len(k) + 1 .. Len(k) + Len(h) : kh[p] = h[p - Len(k)])
    BY <1>3, <1>4, ConcatAt
  <2> HIDE DEF kh
  <2> QED  BY <2>1, <1>3, <1>4
<1> HIDE DEF kh
<1>10. /\ s \in Seq(Operation) /\ Len(s) = 7 /\ s[7] = y[1]
       /\ \A p \in 1 .. 6 : s[p] = kh[p]
  <2>1. /\ s \in Seq(Operation) /\ Len(s) = Len(kh) + Len(y)
        /\ (\A p \in 1 .. Len(kh) : s[p] = kh[p])
        /\ (\A p \in Len(kh) + 1 .. Len(kh) + Len(y) : s[p] = y[p - Len(kh)])
    BY <1>5, <1>9, ConcatAt
  <2> HIDE DEF s
  <2> QED  BY <2>1, <1>5, <1>9
<1> HIDE DEF s
<1>11. /\ o \in Seq(Operation) /\ Len(o) = 8 /\ o[8] = u[1]
       /\ \A p \in 1 .. 7 : o[p] = s[p]
  <2>1. /\ o \in Seq(Operation) /\ Len(o) = Len(s) + Len(u)
        /\ (\A p \in 1 .. Len(s) : o[p] = s[p])
        /\ (\A p \in Len(s) + 1 .. Len(s) + Len(u) : o[p] = u[p - Len(s)])
    BY <1>5, <1>10, ConcatAt
  <2> HIDE DEF o
  <2> QED  BY <2>1, <1>5, <1>10
<1> HIDE DEF o
<1>12. /\ code \in Seq(Operation) /\ Len(code) = 12
       /\ \A p \in 1 .. 4 : code[p] = t[p]
       /\ \A p \in 5 .. 12 : code[p] = o[p - 4]
  <2>1. /\ code \in Seq(Operation) /\ Len(code) = Len(t) + Len(o)
        /\ (\A p \in 1 .. Len(t) : code[p] = t[p])
        /\ (\A p \in Len(t) + 1 .. Len(t) + Len(o) : code[p] = o[p - Len(t)])
    BY <1>7, <1>11, ConcatAt
  <2> HIDE DEF code
  <2> QED  BY <2>1, <1>7, <1>11
<1> HIDE DEF code
<1>13. /\ code[1].do = "lock" /\ code[1].lock = "PICS" /\ code[2].do = "unlock"
       /\ code[3].do = "lock" /\ code[3].lock = "TICKS" /\ code[4].do = "unlock"
  BY <1>1, <1>2, <1>7, <1>12
<1>14. /\ code[5] = k[1] /\ code[6] = k[2] /\ code[7] = h[1] /\ code[8] = h[2]
       /\ code[9] = h[3] /\ code[10] = h[4] /\ code[11] = y[1] /\ code[12] = u[1]
  BY <1>9, <1>10, <1>11, <1>12
<1>15. /\ code[5].do = "lock" /\ code[5].lock = "KERNEL_PAGE_TABLE_FRAME" /\ code[6].do = "unlock"
       /\ code[7].do = "lock" /\ code[7].lock = "THREAD_TABLE" /\ code[8].do = "lock"
       /\ code[9].do = "unlock" /\ code[10].do = "unlock" /\ code[11].do = "yield"
       /\ code[12].do = "unmask"
  BY <1>3, <1>4, <1>5, <1>14
<1>16. \A p \in 1 .. 12 : p \in {1, 2, 3, 4, 5, 6, 7, 8, 9, 10, 11, 12}
  OBVIOUS
<1>17. \A p \in 1 .. 12 : code[p].do = "yield" => p > 7
  BY <1>13, <1>15, <1>16
<1>18. \A p \in 1 .. 12 : code[p].do = "lock" /\ code[p].lock = "CPU" => p = 8
  BY <1>13, <1>15, <1>16
<1>19. "THREAD_TABLE" \in HeldAt(code, 8)
  <2>1. 7 \in Nat \ {0} /\ 7 + 1 = 8 /\ "THREAD_TABLE" \in Lock
    BY DEF Lock
  <2>2. HeldAt(code, 7 + 1) = HeldAt(code, 7) \cup {code[7].lock}
    BY <2>1, <1>15, HeldChanges
  <2> QED  BY <2>1, <2>2, <1>15
<1> QED  BY <1>6, <1>8, <1>12, <1>15, <1>17, <1>18, <1>19

\* The output of a key turns the interrupts off first.
LEMMA PrintKeyAt == Len(Code["print_key"]) = 4 /\ Code["print_key"][1].do = "mask"
<1> DEFINE a == Do("mask")  b == Println  c == Do("unmask")  d == a \o b  code == d \o c
<1>1. /\ a \in Seq(Operation) /\ Len(a) = 1 /\ a[1].do = "mask"
      /\ c \in Seq(Operation) /\ Len(c) = 1
  BY DoAt DEF Control
<1>2. b \in Seq(Operation) /\ Len(b) = 2
  BY TakeAt DEF Println, Lock
<1>3. Code["print_key"] = code
  BY DEF Code, PrintKey, WithoutInterrupts
<1> HIDE DEF a, b, c
<1>4. d \in Seq(Operation) /\ Len(d) = 3 /\ d[1] = a[1]
  <2>1. /\ d \in Seq(Operation) /\ Len(d) = Len(a) + Len(b)
        /\ (\A p \in 1 .. Len(a) : d[p] = a[p])
    BY <1>1, <1>2, ConcatAt
  <2> HIDE DEF d
  <2> QED  BY <2>1, <1>1, <1>2
<1> HIDE DEF d
<1>5. Len(code) = 4 /\ code[1] = d[1]
  <2>1. /\ Len(code) = Len(d) + Len(c)
        /\ (\A p \in 1 .. Len(d) : code[p] = d[p])
    BY <1>1, <1>4, ConcatAt
  <2> HIDE DEF code
  <2> QED  BY <2>1, <1>1, <1>4
<1> QED  BY <1>1, <1>3, <1>4, <1>5

-----------------------------------------------------------------------------
(* Frames and stacks                                                       *)

FrameOK(f) ==
  /\ f \in FrameType /\ f.pc <= Len(Code[f.prog]) + 1
  /\ ~f.masked => Interruptible(f)
  /\ f.prog \in {"keyboard", "user"} => ~f.masked

\* What a frame does next
LEMMA FrameFacts ==
  ASSUME NEW f \in FrameType, f.pc <= Len(Code[f.prog]) + 1
  PROVE  /\ Code[f.prog] \in Seq(Operation) /\ Len(Code[f.prog]) \in Nat
         /\ Held(f) \in SUBSET Lock
         /\ f.pc = 1 => Held(f) = {}
         /\ AtEnd(f) => Held(f) = {} /\ Op(f).do = "return"
         /\ ~AtEnd(f) => /\ f.pc \in 1 .. Len(Code[f.prog])
                         /\ Op(f) = Code[f.prog][f.pc]
                         /\ Makes(Op(f), Held(f), HeldAt(Code[f.prog], f.pc + 1),
                                  LocksOf(f.prog), ControlsOf(f.prog))
<1> DEFINE code == Code[f.prog]
<1>1. f.prog \in DOMAIN Code /\ f.pc \in Nat \ {0}
  BY DEF FrameType
<1>2. /\ Balanced(code, LocksOf(f.prog), ControlsOf(f.prog))
      /\ LocksOf(f.prog) \in SUBSET Lock /\ ControlsOf(f.prog) \in SUBSET Control
  BY <1>1, CodeBalanced, ProgramFacts
<1>3. /\ code \in Seq(Operation)
      /\ HeldAt(code, 1) = {} /\ HeldAt(code, Len(code) + 1) = {}
      /\ \A p \in 1 .. Len(code) : Makes(code[p], HeldAt(code, p), HeldAt(code, p + 1),
                                         LocksOf(f.prog), ControlsOf(f.prog))
  BY <1>2, BalancedHolds
<1>4. Len(code) \in Nat
  BY <1>3
<1>5. Held(f) = HeldAt(code, f.pc)
  BY DEF Held
<1>6. Held(f) \in SUBSET Lock
  BY <1>5 DEF HeldAt
<1>7. AtEnd(f) <=> f.pc > Len(code)
  BY DEF AtEnd
<1>8. Op(f) = IF AtEnd(f) THEN [do |-> "return"] ELSE code[f.pc]
  BY DEF Op
<1> HIDE DEF code
<1>9. AtEnd(f) => Held(f) = {} /\ Op(f).do = "return"
  <2>1. AtEnd(f) => f.pc = Len(code) + 1
    BY <1>1, <1>4, <1>7 DEF code
  <2>2. AtEnd(f) => Op(f).do = "return"
    BY <1>8
  <2> QED  BY <2>1, <2>2, <1>3, <1>5
<1>10. ~AtEnd(f) => f.pc \in 1 .. Len(code) /\ Op(f) = code[f.pc]
  BY <1>1, <1>4, <1>7, <1>8
<1>11. ~AtEnd(f) => Makes(Op(f), Held(f), HeldAt(code, f.pc + 1), LocksOf(f.prog),
                          ControlsOf(f.prog))
  BY <1>3, <1>5, <1>10
<1> QED  BY <1>3, <1>4, <1>5, <1>6, <1>9, <1>10, <1>11 DEF code

\* The frame after an operation
LEMMA AdvancedIs ==
  ASSUME NEW f \in FrameType, NEW m \in BOOLEAN
  PROVE  /\ Advanced(f) \in FrameType
         /\ Advanced(f).prog = f.prog /\ Advanced(f).pc = f.pc + 1
         /\ Advanced(f).masked = f.masked
         /\ [Advanced(f) EXCEPT !.masked = m] \in FrameType
         /\ [Advanced(f) EXCEPT !.masked = m].prog = f.prog
         /\ [Advanced(f) EXCEPT !.masked = m].pc = f.pc + 1
         /\ [Advanced(f) EXCEPT !.masked = m].masked = m
<1> DEFINE P == DOMAIN Code
<1>1. f \in [prog : P, pc : Nat \ {0}, masked : BOOLEAN]
  BY DEF FrameType
<1> HIDE DEF P
<1> DEFINE a == [f EXCEPT !.pc = f.pc + 1]  b == [a EXCEPT !.masked = m]
<1>2. f.pc + 1 \in Nat \ {0}
  BY <1>1
<1>3. a \in [prog : P, pc : Nat \ {0}, masked : BOOLEAN]
  BY <1>1, <1>2
<1>4. a.prog = f.prog /\ a.pc = f.pc + 1
  BY <1>1
<1>5. a.masked = f.masked
  BY <1>1
<1>6. a = Advanced(f)
  BY DEF Advanced
<1> HIDE DEF a
<1>7. b \in [prog : P, pc : Nat \ {0}, masked : BOOLEAN]
  BY <1>3
<1>8. b.prog = a.prog /\ b.pc = a.pc
  BY <1>3
<1>9. b.masked = m
  BY <1>3
<1> QED  BY <1>3, <1>4, <1>5, <1>6, <1>7, <1>8, <1>9 DEF P, FrameType

\* What an operation does to the locks that a frame holds
LEMMA OpFacts ==
  ASSUME NEW f \in FrameType, f.pc <= Len(Code[f.prog]) + 1, Op(f).do # "return",
         NEW g \in FrameType, g.prog = f.prog, g.pc = f.pc + 1
  PROVE  /\ ~AtEnd(f) /\ g.pc <= Len(Code[g.prog]) + 1
         /\ Op(f).do \in {"lock", "unlock"} \cup ControlsOf(f.prog)
         /\ Op(f).do = "lock" => /\ Op(f).lock \in LocksOf(f.prog) /\ Op(f).lock \in Lock
                                 /\ Op(f).lock \notin Held(f)
                                 /\ Held(g) = Held(f) \cup {Op(f).lock}
         /\ Op(f).do = "unlock" => /\ Op(f).lock \in Held(f) /\ Op(f).lock \in Lock
                                   /\ Held(g) = Held(f) \ {Op(f).lock}
         /\ Op(f).do \notin {"lock", "unlock"} => Held(f) = {} /\ Held(g) = {}
<1>1. ~AtEnd(f)
  BY FrameFacts
<1>2. /\ f.pc \in 1 .. Len(Code[f.prog]) /\ Len(Code[f.prog]) \in Nat
      /\ Held(f) \in SUBSET Lock
      /\ Makes(Op(f), Held(f), HeldAt(Code[f.prog], f.pc + 1), LocksOf(f.prog), ControlsOf(f.prog))
  BY <1>1, FrameFacts
<1>3. Held(g) = HeldAt(Code[f.prog], f.pc + 1)
  BY DEF Held
<1>4. f.prog \in DOMAIN Code
  BY DEF FrameType
<1>5. LocksOf(f.prog) \in SUBSET Lock /\ ControlsOf(f.prog) \in SUBSET Control
  BY <1>4, ProgramFacts
<1>6. g.pc <= Len(Code[g.prog]) + 1
  BY <1>2
<1>7. ControlsOf(f.prog) \cap {"lock", "unlock"} = {}
  BY <1>5 DEF Control
<1>8. Makes(Op(f), Held(f), Held(g), LocksOf(f.prog), ControlsOf(f.prog))
  BY <1>2, <1>3
<1> QED  BY <1>1, <1>2, <1>5, <1>6, <1>7, <1>8 DEF Makes

\* Which programs do what, besides taking and giving back locks
LEMMA OpOf ==
  ASSUME NEW f, FrameOK(f)
  PROVE  /\ Op(f).do = "schedule" => f.prog = "boot"
         /\ Op(f).do = "dispatch" => f.prog = "scheduler"
         /\ Op(f).do = "user" => f.prog = "user"
         /\ Op(f).do = "idle" => f.prog = "keyboard"
         /\ Op(f).do = "mask" => f.prog \in {"boot", "print_key"}
         /\ Op(f).do = "unmask" => f.prog \in {"boot", "print_key", "timer_kernel", "timer_user"}
         /\ Op(f).do = "yield" => f.prog \in {"timer_kernel", "timer_user", "wait_yields"}
         /\ Op(f).do = "exit" => f.prog \in {"timer_kills", "exit"}
         /\ Op(f).do = "spawn" => f.prog = "fork"
         /\ Op(f).do = "search" => f.prog \in {"wait", "wait_yields"}
         /\ Op(f).do = "reap" => f.prog = "wait_reaps"
<1>1. f \in FrameType /\ f.pc <= Len(Code[f.prog]) + 1
  BY DEF FrameOK
<1>2. Op(f).do = "return" \/ Op(f).do \in {"lock", "unlock"} \cup ControlsOf(f.prog)
  <2>1. CASE Op(f).do # "return"
    <3>1. Advanced(f) \in FrameType /\ Advanced(f).prog = f.prog /\ Advanced(f).pc = f.pc + 1
      BY <1>1, AdvancedIs
    <3> QED  BY <2>1, <3>1, <1>1, OpFacts
  <2> QED  BY <2>1
<1> QED  BY <1>2 DEF ControlsOf

\* The code of threads, which never comes to its end
OwnPrograms == {"boot", "scheduler", "keyboard", "user"}

\* A thread's own code goes on after what is not its last operation.
LEMMA OwnNeverEnds ==
  ASSUME NEW f, FrameOK(f), f.prog \in OwnPrograms,
         Op(f).do \notin {"return", "schedule", "dispatch", "idle", "user"},
         NEW g \in FrameType, g.prog = f.prog, g.pc = f.pc + 1
  PROVE  ~AtEnd(g)
<1>1. f \in FrameType /\ f.pc <= Len(Code[f.prog]) + 1
  BY DEF FrameOK
<1>2. ~AtEnd(f)
  BY <1>1, FrameFacts
<1>3. /\ f.pc \in 1 .. Len(Code[f.prog]) /\ Len(Code[f.prog]) \in Nat
      /\ Op(f) = Code[f.prog][f.pc]
  BY <1>1, <1>2, FrameFacts
<1>4. Code[f.prog][Len(Code[f.prog])].do \in {"schedule", "dispatch", "idle", "user"}
  BY ProgramEnds DEF OwnPrograms, Ends
<1>5. f.pc # Len(Code[f.prog])
  BY <1>3, <1>4
<1>6. f.pc + 1 <= Len(Code[f.prog])
  BY <1>3, <1>5
<1> QED  BY <1>3, <1>6 DEF AtEnd

\* The frame stays interruptible, or not, as long as it does not touch the flag.
LEMMA AdvanceOK ==
  ASSUME NEW f, FrameOK(f), Op(f).do \notin {"return", "mask", "unmask"}
  PROVE  FrameOK(Advanced(f))
<1> DEFINE g == Advanced(f)
<1>1. f \in FrameType /\ f.pc <= Len(Code[f.prog]) + 1 /\ f.pc \in Nat \ {0}
  BY DEF FrameOK, FrameType
<1>2. g \in FrameType /\ g.prog = f.prog /\ g.pc = f.pc + 1
  BY <1>1, AdvancedIs
<1>3. g.masked = f.masked
  BY <1>1, AdvancedIs
<1> HIDE DEF g
<1>4. ~AtEnd(f) /\ g.pc <= Len(Code[g.prog]) + 1
  BY <1>1, <1>2, OpFacts
<1>5. Op(f) = Code[f.prog][f.pc]
  BY <1>1, <1>4, FrameFacts
<1>6. ~(f.prog = "print_key" /\ f.pc = 1)
  BY <1>5, PrintKeyAt
<1>7. Len(Println \o FerriosInit) = 7
  BY BootOpens
<1>8. Interruptible(f) => Interruptible(g)
  BY <1>1, <1>2, <1>4, <1>6, <1>7 DEF Interruptible
<1>9. ~g.masked => Interruptible(g)
  BY <1>3, <1>8 DEF FrameOK
<1>10. g.prog \in {"keyboard", "user"} => ~g.masked
  BY <1>2, <1>3 DEF FrameOK
<1>11. FrameOK(g)
  BY <1>2, <1>4, <1>9, <1>10 DEF FrameOK
<1> QED  BY <1>11 DEF g

\* Interrupts are enabled only where the frame is interruptible.
LEMMA FlagOK ==
  ASSUME NEW f, FrameOK(f), Op(f).do \in {"mask", "unmask"},
         NEW m \in BOOLEAN, m <=> Op(f).do = "mask",
         NEW g, g = [Advanced(f) EXCEPT !.masked = m]
  PROVE  FrameOK(g) /\ g \in FrameType /\ g.prog = f.prog /\ g.pc = f.pc + 1
<1>1. f \in FrameType /\ f.pc <= Len(Code[f.prog]) + 1 /\ f.pc \in Nat \ {0}
  BY DEF FrameOK, FrameType
<1>2. g \in FrameType /\ g.prog = f.prog /\ g.pc = f.pc + 1
  BY <1>1, AdvancedIs
<1>3. g.masked <=> Op(f).do = "mask"
  <2>1. g.masked = m
    BY <1>1, AdvancedIs
  <2> QED  BY <2>1
<1>4. ~AtEnd(f) /\ g.pc <= Len(Code[g.prog]) + 1
  BY <1>1, <1>2, OpFacts
<1>5. /\ f.pc \in 1 .. Len(Code[f.prog]) /\ Len(Code[f.prog]) \in Nat
      /\ Op(f) = Code[f.prog][f.pc]
  BY <1>1, <1>4, FrameFacts
<1>6. ASSUME Op(f).do = "unmask" PROVE Interruptible(g)
  <2>1. f.prog \in {"boot", "print_key", "timer_kernel", "timer_user"}
    BY <1>6, OpOf
  <2>2. CASE f.prog = "boot"
    <3>1. /\ Len(Println \o FerriosInit) = 7
          /\ Opens(BootCode, Println \o FerriosInit, Lock \ {"PICS", "TICKS"})
          /\ Ends(Println \o FerriosInit, "unmask")
      BY BootOpens
    <3> DEFINE start == Println \o FerriosInit
    <3>2. \A p \in 1 .. 6 : start[p].do # "unmask"
      <4>1. \A p \in 1 .. Len(start) - 1 : start[p].do # "unmask"
        BY <3>1 DEF Ends
      <4>2. Len(start) - 1 = 6
        BY <3>1
      <4> QED  BY <4>1, <4>2
    <3>3. \A p \in 1 .. 7 : BootCode[p] = start[p]
      BY <3>1 DEF Opens
    <3> HIDE DEF start
    <3>4. Code["boot"] = BootCode
      BY DEF Code
    <3>5. ~(f.pc \in 1 .. 6)
      <4>1. BootCode[f.pc].do = "unmask"
        BY <3>4, <2>2, <1>5, <1>6
      <4> QED  BY <4>1, <3>2, <3>3
    <3>6. g.pc > 7
      BY <3>5, <1>1, <1>2
    <3> QED  BY <3>1, <3>6, <2>2, <1>2 DEF Interruptible
  <2>3. CASE f.prog \in {"print_key", "timer_kernel", "timer_user"}
    <3>1. \A p \in 1 .. Len(Code[f.prog]) - 1 : Code[f.prog][p].do # "unmask"
      BY <2>3, ProgramEnds DEF Ends
    <3>2. f.pc = Len(Code[f.prog])
      BY <3>1, <1>5, <1>6
    <3>3. AtEnd(g)
      BY <3>2, <1>2, <1>5 DEF AtEnd
    <3> QED  BY <3>3, <2>3, <1>2 DEF Interruptible
  <2> QED  BY <2>1, <2>2, <2>3
<1>7. ~g.masked => Interruptible(g)
  BY <1>3, <1>6
<1>8. f.prog \notin {"keyboard", "user"}
  BY OpOf
<1> QED  BY <1>2, <1>4, <1>7, <1>8 DEF FrameOK

\* A frame that is entered
LEMMA FrameIs ==
  ASSUME NEW prog \in DOMAIN Code, NEW m \in BOOLEAN,
         IF m THEN prog \notin {"keyboard", "user"} ELSE prog \in {"keyboard", "user", "print_key"}
  PROVE  /\ FrameOK(Frame(prog, m)) /\ Frame(prog, m) \in FrameType
         /\ Frame(prog, m).prog = prog /\ Frame(prog, m).pc = 1
         /\ Frame(prog, m).masked = m
         /\ Held(Frame(prog, m)) = {}
         /\ prog \in OwnPrograms => ~AtEnd(Frame(prog, m))
<1> DEFINE f == Frame(prog, m)
<1>1. f \in FrameType
  BY DEF Frame, FrameType
<1>2. f.prog = prog /\ f.pc = 1
  BY DEF Frame
<1>3. f.masked = m
  BY DEF Frame
<1>4. prog \in {"keyboard", "user"} => ~m
  OBVIOUS
<1>5. ~m => prog \in {"keyboard", "user", "print_key"}
  OBVIOUS
<1> HIDE DEF f
<1>6. /\ Balanced(Code[prog], LocksOf(prog), ControlsOf(prog)) /\ LocksOf(prog) \in SUBSET Lock
      /\ ControlsOf(prog) \in SUBSET Control
  BY CodeBalanced, ProgramFacts
<1>7. Code[prog] \in Seq(Operation) /\ HeldAt(Code[prog], 1) = {}
  BY <1>6, BalancedHolds
<1>8. Len(Code[prog]) \in Nat
  BY <1>7
<1>9. ~f.masked => Interruptible(f)
  BY <1>2, <1>3, <1>5 DEF Interruptible
<1>10. f.prog \in {"keyboard", "user"} => ~f.masked
  BY <1>2, <1>3, <1>4
<1>11. f.pc <= Len(Code[f.prog]) + 1
  BY <1>2, <1>8
<1>12. FrameOK(f)
  BY <1>1, <1>9, <1>10, <1>11 DEF FrameOK
<1>13. Held(f) = {}
  BY <1>2, <1>7 DEF Held
<1>14. prog \in OwnPrograms => ~AtEnd(f)
  <2>1. prog \in OwnPrograms => Len(Code[prog]) >= 1
    BY ProgramEnds DEF OwnPrograms, Ends
  <2> QED  BY <2>1, <1>2, <1>8 DEF AtEnd
<1> QED  BY <1>1, <1>2, <1>3, <1>12, <1>13, <1>14 DEF f

\* A thread's stack; its own code is called own.
Lies(t, s, d) ==
  /\ ~s[d - 1].masked
  /\ \/ s[d].prog \in Handlers(t)
     \/ /\ t # Boot /\ d = 2
        /\ s[2].prog \in Entered(t) /\ Op(s[1]).do = Gate(t)

TickWaits(s) ==
  Len(s) >= 2 /\ "THREAD_TABLE" \in Held(s[1]) =>
    \/ s[2].prog \in {"input", "key_warned"}
    \/ s[2].prog = "timer_kernel" /\ s[2].pc <= 7

StackOK(t, s, own) ==
  /\ s \in Seq(FrameType) /\ Len(s) <= MaxFrames
  /\ \A d \in 1 .. Len(s) : FrameOK(s[d])
  /\ s # <<>> => s[1].prog = own /\ ~AtEnd(s[1])
  /\ \A d \in 2 .. Len(s) : Lies(t, s, d)
  /\ t # Boot => TickWaits(s)

StacksOK == \A t \in Thread : StackOK(t, frames[t], OwnCode(t))

\* A stack has its own code, at most one frame more, or frames in between.
LEMMA Heights ==
  ASSUME NEW n \in Nat, n >= 1
  PROVE  /\ n = 1 \/ n = 2 \/ (n > 2 /\ 1 \in 1 .. n - 1)
         /\ n = 1 \/ n >= 2
         /\ 1 \in 1 .. n /\ (n # 1 => n \in 2 .. n)
OBVIOUS

\* The top frame goes on, or is replaced by another of its kind.
LEMMA StackTop ==
  ASSUME NEW t \in Thread, NEW s, NEW own, NEW new, StackOK(t, s, own), s # <<>>,
         NEW f, FrameOK(f),
         Len(s) = 1 => f.prog = new /\ ~AtEnd(f),
         Len(s) # 1 => new = own,
         Len(s) >= 2 => \/ f.prog = s[Len(s)].prog
                        \/ s[Len(s)].prog \notin Handlers(t) /\ f.prog \in Entered(t),
         Len(s) = 2 /\ t # Boot /\ "THREAD_TABLE" \in Held(s[1]) =>
           \/ f.prog \in {"input", "key_warned"}
           \/ f.prog = "timer_kernel" /\ f.pc <= 7
  PROVE  StackOK(t, [s EXCEPT ![Len(s)] = f], new)
<1> DEFINE n == Len(s)  r == [s EXCEPT ![n] = f]
<1>1. s \in Seq(FrameType) /\ f \in FrameType /\ n \in Nat /\ n >= 1 /\ n <= MaxFrames
  BY DEF StackOK, FrameOK
<1>9. n = 1 \/ n = 2 \/ (n > 2 /\ 1 \in 1 .. n - 1)
  BY <1>1, Heights
<1>2. /\ r \in Seq(FrameType) /\ Len(r) = n /\ r[n] = f
      /\ \A d \in 1 .. n - 1 : r[d] = s[d]
  BY <1>1
<1> HIDE DEF r
<1>3. \A d \in 1 .. n : FrameOK(r[d])
  <2> SUFFICES ASSUME NEW d \in 1 .. n PROVE FrameOK(r[d])
    OBVIOUS
  <2>1. CASE d = n
    BY <2>1, <1>2
  <2>2. CASE d # n
    <3>1. d \in 1 .. n - 1
      BY <2>2, <1>1
    <3> QED  BY <3>1, <1>2 DEF StackOK
  <2> QED  BY <2>1, <2>2
<1>4. r[1].prog = new /\ ~AtEnd(r[1])
  <2>1. CASE n = 1
    BY <2>1, <1>2
  <2>2. CASE n # 1
    <3>1. 1 \in 1 .. n - 1
      BY <2>2, <1>9
    <3> QED  BY <3>1, <2>2, <1>2 DEF StackOK
  <2> QED  BY <2>1, <2>2
<1>5. ASSUME NEW d \in 2 .. n PROVE Lies(t, r, d)
  <2>1. Lies(t, s, d) /\ d - 1 \in 1 .. n - 1 /\ r[d - 1] = s[d - 1]
    BY <1>1, <1>2, <1>5 DEF StackOK
  <2>2. 1 \in 1 .. n - 1 /\ r[1] = s[1]
    BY <1>1, <1>2, <1>5
  <2>3. CASE d = n
    <3>1. CASE f.prog = s[n].prog
      <4>1. r[d].prog = s[d].prog /\ (d = 2 => r[2].prog = s[2].prog)
        BY <3>1, <2>3, <1>2
      <4> QED  BY <4>1, <2>1, <2>2 DEF Lies
    <3>2. CASE s[n].prog \notin Handlers(t) /\ f.prog \in Entered(t)
      <4>1. t # Boot /\ d = 2 /\ Op(s[1]).do = Gate(t) /\ ~s[d - 1].masked
        BY <3>2, <2>1, <2>3 DEF Lies
      <4>2. r[2].prog \in Entered(t)
        BY <4>1, <3>2, <2>3, <1>2
      <4> QED  BY <4>1, <4>2, <2>1, <2>2 DEF Lies
    <3> QED  BY <3>1, <3>2, <1>5, <1>1, <2>3
  <2>4. CASE d # n
    <3>1. d \in 1 .. n - 1 /\ r[d] = s[d] /\ (d = 2 => r[2] = s[2])
      BY <2>4, <1>1, <1>2, <1>5
    <3> QED  BY <3>1, <2>1, <2>2 DEF Lies
  <2> QED  BY <2>3, <2>4
<1>6. ASSUME t # Boot PROVE TickWaits(r)
  <2>1. TickWaits(s)
    BY <1>6 DEF StackOK
  <2>2. CASE n = 1
    BY <2>2, <1>2 DEF TickWaits
  <2>3. CASE n = 2
    <3>1. 1 \in 1 .. n - 1 /\ r[1] = s[1] /\ r[2] = f
      BY <2>3, <1>2
    <3> QED  BY <3>1, <2>3, <1>2, <1>6 DEF TickWaits
  <2>4. CASE n > 2
    <3>1. r[1] = s[1] /\ r[2] = s[2]
      BY <2>4, <1>1, <1>2
    <3> QED  BY <3>1, <2>1, <2>4, <1>1, <1>2 DEF TickWaits
  <2> QED  BY <2>2, <2>3, <2>4, <1>9
<1>7. Len(r) <= MaxFrames
  BY <1>1, <1>2
<1>8. StackOK(t, r, new)
  BY <1>2, <1>3, <1>4, <1>5, <1>6, <1>7 DEF StackOK
<1> QED  BY <1>8 DEF r

\* A frame is entered.
LEMMA StackPush ==
  ASSUME NEW t \in Thread, NEW s, NEW own, StackOK(t, s, own), s # <<>>, Len(s) < MaxFrames,
         NEW f, FrameOK(f), ~s[Len(s)].masked,
         \/ f.prog \in Handlers(t)
         \/ t # Boot /\ Len(s) = 1 /\ f.prog \in Entered(t) /\ Op(s[1]).do = Gate(t),
         Len(s) = 1 /\ t # Boot /\ "THREAD_TABLE" \in Held(s[1]) =>
           \/ f.prog \in {"input", "key_warned"}
           \/ f.prog = "timer_kernel" /\ f.pc = 1
  PROVE  StackOK(t, Append(s, f), own)
<1> DEFINE n == Len(s)  r == Append(s, f)
<1>1. /\ s \in Seq(FrameType) /\ f \in FrameType /\ n \in Nat /\ n >= 1 /\ n < MaxFrames
      /\ MaxFrames \in Nat
  BY LocksAssumption DEF StackOK, FrameOK
<1>9. n = 1 \/ n >= 2
  BY <1>1, Heights
<1>2. /\ r \in Seq(FrameType) /\ Len(r) = n + 1 /\ r[n + 1] = f
      /\ \A d \in 1 .. n : r[d] = s[d]
  BY <1>1
<1> HIDE DEF r
<1>3. \A d \in 1 .. n + 1 : FrameOK(r[d])
  <2> SUFFICES ASSUME NEW d \in 1 .. n + 1 PROVE FrameOK(r[d])
    OBVIOUS
  <2>1. CASE d = n + 1
    BY <2>1, <1>2
  <2>2. CASE d # n + 1
    <3>1. d \in 1 .. n
      BY <2>2, <1>1
    <3> QED  BY <3>1, <1>2 DEF StackOK
  <2> QED  BY <2>1, <2>2
<1>4. r[1] = s[1] /\ r[1].prog = own /\ ~AtEnd(r[1])
  BY <1>1, <1>2 DEF StackOK
<1>5. ASSUME NEW d \in 2 .. n + 1 PROVE Lies(t, r, d)
  <2>1. d - 1 \in 1 .. n /\ r[d - 1] = s[d - 1]
    BY <1>1, <1>2, <1>5
  <2>2. CASE d = n + 1
    <3>1. ~r[d - 1].masked /\ r[d] = f
      BY <2>1, <2>2, <1>1, <1>2
    <3>2. CASE f.prog \in Handlers(t)
      BY <3>1, <3>2 DEF Lies
    <3>3. CASE t # Boot /\ n = 1 /\ f.prog \in Entered(t) /\ Op(s[1]).do = Gate(t)
      <4>1. d = 2 /\ r[2] = f
        BY <3>1, <3>3, <2>2
      <4> QED  BY <4>1, <3>1, <3>3, <1>4 DEF Lies
    <3> QED  BY <3>2, <3>3
  <2>3. CASE d # n + 1
    <3>1. d \in 2 .. n /\ r[d] = s[d] /\ (d = 2 => r[2] = s[2])
      BY <2>3, <1>1, <1>2, <1>5
    <3>2. Lies(t, s, d)
      BY <3>1 DEF StackOK
    <3> QED  BY <3>1, <3>2, <2>1, <1>4 DEF Lies
  <2> QED  BY <2>2, <2>3
<1>6. ASSUME t # Boot PROVE TickWaits(r)
  <2>1. CASE n = 1
    <3>1. r[2] = f
      BY <2>1, <1>2
    <3> QED  BY <3>1, <2>1, <1>4, <1>6 DEF TickWaits
  <2>2. CASE n >= 2
    <3>1. r[2] = s[2] /\ TickWaits(s)
      BY <2>2, <1>1, <1>2, <1>6 DEF StackOK
    <3> QED  BY <3>1, <2>2, <1>4 DEF TickWaits
  <2> QED  BY <2>1, <2>2, <1>9
<1>7. Len(r) <= MaxFrames /\ Len(r) = n + 1
  BY <1>1, <1>2
<1>8. StackOK(t, r, own)
  BY <1>2, <1>3, <1>4, <1>5, <1>6, <1>7 DEF StackOK
<1> QED  BY <1>8 DEF r

\* A frame returns to the one below it.
LEMMA StackPop ==
  ASSUME NEW t \in Thread, NEW s, NEW own, StackOK(t, s, own), Len(s) >= 2
  PROVE  /\ StackOK(t, SubSeq(s, 1, Len(s) - 1), own)
         /\ Len(SubSeq(s, 1, Len(s) - 1)) = Len(s) - 1
         /\ \A d \in 1 .. Len(s) - 1 : SubSeq(s, 1, Len(s) - 1)[d] = s[d]
<1> DEFINE n == Len(s)  r == SubSeq(s, 1, n - 1)
<1>1. s \in Seq(FrameType) /\ n \in Nat /\ n >= 2 /\ n <= MaxFrames /\ MaxFrames \in Nat
  BY LocksAssumption DEF StackOK
<1>2. r \in Seq(FrameType) /\ Len(r) = n - 1 /\ \A d \in 1 .. n - 1 : r[d] = s[d]
  BY <1>1
<1> HIDE DEF r
<1>3. \A d \in 1 .. n - 1 : FrameOK(r[d])
  BY <1>1, <1>2 DEF StackOK
<1>4. r[1] = s[1] /\ r[1].prog = own /\ ~AtEnd(r[1])
  BY <1>1, <1>2 DEF StackOK
<1>5. ASSUME NEW d \in 2 .. n - 1 PROVE Lies(t, r, d)
  <2>1. Lies(t, s, d) /\ r[d] = s[d] /\ r[d - 1] = s[d - 1] /\ (d = 2 => r[2] = s[2])
    BY <1>1, <1>2, <1>5 DEF StackOK
  <2> QED  BY <2>1, <1>4 DEF Lies
<1>6. ASSUME t # Boot PROVE TickWaits(r)
  <2>1. TickWaits(s) /\ (n - 1 >= 2 => r[2] = s[2])
    BY <1>1, <1>2, <1>6 DEF StackOK
  <2> QED  BY <2>1, <1>1, <1>2, <1>4 DEF TickWaits
<1>7. Len(r) <= MaxFrames
  BY <1>1, <1>2
<1>8. StackOK(t, r, own)
  BY <1>2, <1>3, <1>4, <1>5, <1>6, <1>7 DEF StackOK
<1> QED  BY <1>2, <1>8 DEF r

-----------------------------------------------------------------------------
(* The invariant, stack by stack                                           *)

OtherTypes ==
  /\ frames \in [Thread -> Seq(FrameType)]
  /\ \A t \in Tid : (life[t] = "ready") = (frames[t] # <<>>)
  /\ holder \in [Lock -> {Nobody} \cup (Thread \X (1 .. MaxFrames))]
  /\ running \in Thread /\ turn \in Tid
  /\ life \in [Tid -> {"none", "ready", "zombie"}] /\ started \in BOOLEAN

\* Frame d of thread t holds the lock l.
InFrame(t, d, l) == d \in 1 .. Len(frames[t]) /\ l \in Held(frames[t][d])

Inside ==
  /\ \A t \in Thread, l \in Lock : \A d \in Nat : InFrame(t, d, l) => holder[l] = <<t, d>>
  /\ \A l \in Lock : holder[l] # Nobody =>
       \E t \in Thread : \E d \in Nat : holder[l] = <<t, d>> /\ InFrame(t, d, l)

Core == StacksOK /\ OtherTypes /\ Inside /\ Scheduling /\ SuspendedHoldsHeapOnly

\* A thread's stack and its frames are what they should be.
LEMMA FramesTyped ==
  ASSUME OtherTypes, NEW t \in Thread
  PROVE  /\ frames[t] \in Seq(FrameType) /\ Len(frames[t]) \in Nat
         /\ \A d \in 1 .. Len(frames[t]) : frames[t][d] \in FrameType
<1>1. frames[t] \in Seq(FrameType)
  BY DEF OtherTypes
<1> DEFINE s == frames[t]
<1>2. s \in Seq(FrameType)
  BY <1>1
<1> HIDE DEF s
<1>3. Len(s) \in Nat /\ \A d \in 1 .. Len(s) : s[d] \in FrameType
  BY <1>2
<1> QED  BY <1>2, <1>3 DEF s

\* The two ways to say where the holder of a lock is agree.
LEMMA InsideIs == OtherTypes => (HoldersAreInside <=> Inside)
<1> SUFFICES ASSUME OtherTypes PROVE HoldersAreInside <=> Inside
  OBVIOUS
<1>1. ASSUME NEW t \in Thread PROVE Len(frames[t]) \in Nat
  BY FramesTyped
<1>2. ASSUME NEW t \in Thread, NEW d \in 1 .. Len(frames[t])
      PROVE  d \in Nat /\ Held(frames[t][d]) \in SUBSET Lock
  BY <1>1, <1>2 DEF Held, HeldAt
<1>3. HoldersAreInside => Inside
  BY <1>1, <1>2 DEF HoldersAreInside, Inside, InFrame
<1>4. Inside => HoldersAreInside
  BY <1>1, <1>2 DEF HoldersAreInside, Inside, InFrame
<1> QED  BY <1>3, <1>4

\* The invariant that the run checks is the one proved here stack by stack.
LEMMA InvIsCore == LocksInv <=> Core
<1>1. Len(Tick \o KernelPageTable) + 1 = 7
  BY TimerKernelAt
<1>2. ASSUME LocksInv PROVE Core
  <2>1. OtherTypes
    BY <1>2 DEF LocksInv, LocksTypeOK, OtherTypes
  <2>2. Inside
    BY <1>2, <2>1, InsideIs DEF LocksInv
  <2>3. ASSUME NEW t \in Thread PROVE StackOK(t, frames[t], OwnCode(t))
    <3>1. /\ frames[t] \in Seq(FrameType) /\ Len(frames[t]) \in Nat
          /\ \A d \in 1 .. Len(frames[t]) : frames[t][d] \in FrameType
      BY <2>1, FramesTyped
    <3>2. /\ Len(frames[t]) <= MaxFrames
          /\ frames[t] # <<>> => frames[t][1].prog = OwnCode(t) /\ ~AtEnd(frames[t][1])
      BY <1>2 DEF LocksInv, Nesting
    <3>3. \A d \in 2 .. Len(frames[t]) : Lies(t, frames[t], d)
      BY <1>2 DEF LocksInv, Nesting, Lies
    <3>4. \A d \in 1 .. Len(frames[t]) : FrameOK(frames[t][d])
      BY <3>1, <1>2 DEF LocksInv, LocksTypeOK, Masking, FrameOK
    <3>5. t # Boot => TickWaits(frames[t])
      <4>1. t # Boot => t \in Tid
        BY DEF Thread
      <4> QED  BY <4>1, <1>1, <1>2 DEF LocksInv, TicksWait, TickWaits
    <3> QED  BY <3>1, <3>2, <3>3, <3>4, <3>5 DEF StackOK
  <2> QED  BY <1>2, <2>1, <2>2, <2>3 DEF Core, StacksOK, LocksInv
<1>3. ASSUME Core PROVE LocksInv
  <2>1. OtherTypes /\ HoldersAreInside
    BY <1>3, InsideIs DEF Core
  <2>2. ASSUME NEW t \in Thread PROVE StackOK(t, frames[t], OwnCode(t))
    BY <1>3 DEF Core, StacksOK
  <2>3. LocksTypeOK
    BY <2>1, <2>2 DEF OtherTypes, LocksTypeOK, StackOK, FrameOK
  <2>4. Nesting
    BY <2>2 DEF StackOK, Nesting, Lies
  <2>5. Masking
    BY <2>2 DEF StackOK, Masking, FrameOK
  <2>6. TicksWait
    <3>1. \A t \in Tid : t \in Thread /\ t # Boot
      BY DEF Thread, Tid, Boot
    <3>2. \A t \in Tid : TickWaits(frames[t])
      BY <3>1, <2>2 DEF StackOK
    <3> QED  BY <3>2, <1>1 DEF TicksWait, TickWaits
  <2> QED  BY <1>3, <2>1, <2>3, <2>4, <2>5, <2>6 DEF LocksInv, Core
<1> QED  BY <1>2, <1>3

-----------------------------------------------------------------------------
(* What the frames of a stack hold                                         *)

\* The processor runs a thread that has a frame.
LEMMA RunningFacts ==
  ASSUME Core
  PROVE  /\ running \in Thread /\ frames[running] \in Seq(FrameType)
         /\ frames[running] # <<>> /\ StackOK(running, frames[running], OwnCode(running))
         /\ Depth = Len(frames[running]) /\ Depth \in Nat /\ Depth >= 1
         /\ Top = frames[running][Depth] /\ FrameOK(Top) /\ Top \in FrameType
         /\ Top.pc <= Len(Code[Top.prog]) + 1 /\ Top.pc \in Nat \ {0}
<1>1. running \in Thread /\ OtherTypes /\ StacksOK
  BY DEF Core, OtherTypes
<1>2. frames[running] # <<>>
  <2>1. CASE running = Boot
    BY <2>1 DEF Core, Scheduling
  <2>2. CASE running # Boot
    <3>1. running \in Tid
      BY <1>1, <2>2 DEF Thread
    <3> QED  BY <3>1, <2>2 DEF Core, Scheduling, OtherTypes
  <2> QED  BY <2>1, <2>2
<1>3. StackOK(running, frames[running], OwnCode(running))
  BY <1>1 DEF StacksOK
<1> DEFINE s == frames[running]
<1>4. s \in Seq(FrameType) /\ s # <<>>
  BY <1>1, <1>2, FramesTyped
<1> HIDE DEF s
<1>5. Len(s) \in Nat /\ Len(s) >= 1
  BY <1>4
<1>6. Depth = Len(s) /\ Top = s[Len(s)]
  BY DEF Depth, Top, s
<1>7. FrameOK(Top)
  BY <1>3, <1>5, <1>6 DEF StackOK, s
<1>8. Top \in FrameType /\ Top.pc <= Len(Code[Top.prog]) + 1
  BY <1>7 DEF FrameOK
<1>9. Top.pc \in Nat \ {0}
  BY <1>8 DEF FrameType
<1> QED  BY <1>1, <1>3, <1>4, <1>5, <1>6, <1>7, <1>8, <1>9 DEF s

\* A frame holds only locks that its program takes.
LEMMA HeldIsTaken ==
  ASSUME NEW f \in FrameType, f.pc <= Len(Code[f.prog]) + 1
  PROVE  Held(f) \subseteq LocksOf(f.prog)
<1> DEFINE code == Code[f.prog]
<1>1. f.prog \in DOMAIN Code /\ f.pc \in Nat \ {0}
  BY DEF FrameType
<1>2. Balanced(code, LocksOf(f.prog), ControlsOf(f.prog)) /\ ControlsOf(f.prog) \in SUBSET Control
  BY <1>1, CodeBalanced, ProgramFacts
<1>3. /\ code \in Seq(Operation)
      /\ \A p \in 1 .. Len(code) : code[p].do = "lock" => code[p].lock \in LocksOf(f.prog)
  BY <1>2, BalancedTakes
<1>4. Len(code) \in Nat
  BY <1>3
<1> SUFFICES ASSUME NEW l \in Held(f) PROVE l \in LocksOf(f.prog)
  OBVIOUS
<1>5. PICK i \in 1 .. f.pc - 1 : code[i].do = "lock" /\ code[i].lock = l
  BY DEF Held, HeldAt
<1>6. f.pc <= Len(code) + 1
  OBVIOUS
<1> HIDE DEF code
<1>7. i \in 1 .. Len(code)
  BY <1>1, <1>4, <1>5, <1>6
<1> QED  BY <1>3, <1>5, <1>7

\* The frames above a thread's own code are handlers' or the ones entered at its gate.
LEMMA AboveOwn ==
  ASSUME NEW t \in Thread, NEW s, NEW own, StackOK(t, s, own), NEW d \in 2 .. Len(s)
  PROVE  /\ s[d].prog \notin OwnPrograms
         /\ FrameOK(s[d]) /\ s[d] \in FrameType
         /\ FrameOK(s[d - 1]) /\ ~s[d - 1].masked /\ Interruptible(s[d - 1])
         /\ t = Boot => s[d].prog \in {"timer_boot", "input", "key_warned"}
<1>1. Lies(t, s, d) /\ Len(s) \in Nat
  BY DEF StackOK
<1>2. d \in 1 .. Len(s) /\ d - 1 \in 1 .. Len(s)
  BY <1>1
<1>3. FrameOK(s[d]) /\ FrameOK(s[d - 1])
  BY <1>2 DEF StackOK
<1>4. t = Boot => s[d].prog \in {"timer_boot", "input", "key_warned"}
  BY <1>1 DEF Lies, Handlers
<1>5. s[d].prog \notin OwnPrograms
  <2>1. Handlers(t) \cap OwnPrograms = {}
    BY DEF Handlers, OwnPrograms
  <2>2. Entered(t) \cap OwnPrograms = {}
    BY DEF Entered, Syscalls, OwnPrograms
  <2>3. s[d].prog \in Handlers(t) \/ s[d].prog \in Entered(t)
    BY <1>1 DEF Lies
  <2> QED  BY <2>1, <2>2, <2>3
<1> QED  BY <1>1, <1>3, <1>4, <1>5 DEF Lies, FrameOK

\* Frames between the thread's own code and the top hold nothing.
LEMMA BetweenHolds ==
  ASSUME NEW t \in Thread, NEW s, NEW own, StackOK(t, s, own), NEW d \in 2 .. Len(s) - 1
  PROVE  /\ Held(s[d]) = {}
         /\ \/ s[d].prog = "print_key"
            \/ s[d].prog \in {"timer_kernel", "timer_user"} /\ AtEnd(s[d])
<1>1. Len(s) \in Nat
  BY DEF StackOK
<1>2. d \in 2 .. Len(s) /\ d + 1 \in 2 .. Len(s) /\ (d + 1) - 1 = d
  BY <1>1
<1>3. s[d].prog \notin OwnPrograms /\ s[d] \in FrameType /\ FrameOK(s[d])
  BY <1>2, AboveOwn
<1>4. Interruptible(s[d])
  BY <1>2, AboveOwn
<1>5. \/ s[d].prog = "print_key" /\ s[d].pc = 1
      \/ s[d].prog \in {"print_key", "timer_kernel", "timer_user"} /\ AtEnd(s[d])
  BY <1>3, <1>4 DEF Interruptible, OwnPrograms
<1>6. Held(s[d]) = {}
  BY <1>3, <1>5, FrameFacts DEF FrameOK
<1> QED  BY <1>5, <1>6

\* A thread's own code
LEMMA OwnCodeIs ==
  ASSUME NEW t \in Thread
  PROVE  /\ OwnCode(t) \in OwnPrograms
         /\ t \in Tid => OwnCode(t) = IF t = KeyboardTid THEN "keyboard" ELSE "user"
         /\ t = Boot => OwnCode(t) \in {"boot", "scheduler"}
BY DEF OwnCode, OwnPrograms, Thread, Tid, Boot, KeyboardTid

\* A frame that is no handler's stands at the gate of its thread, which holds nothing.
LEMMA QuietUnder ==
  ASSUME NEW t \in Thread, NEW s, NEW own \in OwnPrograms, StackOK(t, s, own), s # <<>>,
         s[Len(s)].prog \notin Handlers(t), s[Len(s)].prog \notin OwnPrograms
  PROVE  /\ t # Boot /\ Len(s) = 2 /\ s[2].prog \in Entered(t) /\ Op(s[1]).do = Gate(t)
         /\ Held(s[1]) = {}
<1>1. s \in Seq(FrameType) /\ s[1].prog = own
  BY DEF StackOK
<1>2. Len(s) \in Nat /\ Len(s) >= 1
  BY <1>1
<1>3. Len(s) # 1
  BY <1>1
<1>4. Len(s) \in 2 .. Len(s) /\ 1 \in 1 .. Len(s)
  BY <1>2, <1>3, Heights
<1>5. Lies(t, s, Len(s)) /\ FrameOK(s[1])
  BY <1>4 DEF StackOK
<1>6. t # Boot /\ Len(s) = 2 /\ s[2].prog \in Entered(t) /\ Op(s[1]).do = Gate(t)
  BY <1>5 DEF Lies
<1>7. Op(s[1]).do \in {"idle", "user"}
  BY <1>6 DEF Gate
<1>8. s[1] \in FrameType /\ s[1].pc <= Len(Code[s[1].prog]) + 1
  BY <1>5 DEF FrameOK
<1>9. Held(s[1]) = {}
  <2>1. /\ Advanced(s[1]) \in FrameType /\ Advanced(s[1]).prog = s[1].prog
        /\ Advanced(s[1]).pc = s[1].pc + 1
    BY <1>8, AdvancedIs
  <2>2. Op(s[1]).do # "return" /\ Op(s[1]).do \notin {"lock", "unlock"}
    BY <1>7
  <2> QED  BY <1>8, <2>1, <2>2, OpFacts
<1> QED  BY <1>6, <1>9

\* A thread whose own code is not in a trampoline holds the heap's lock at most.
LEMMA OwnHolds ==
  ASSUME NEW t \in Tid, NEW f, FrameOK(f), f.prog = OwnCode(t)
  PROVE  /\ Held(f) \subseteq {"THREAD_TABLE", "CPU", "ALLOCATOR"}
         /\ "CPU" \in Held(f) => "THREAD_TABLE" \in Held(f)
         /\ "ALLOCATOR" \in Held(f) => t = KeyboardTid
<1>1. f \in FrameType /\ f.pc <= Len(Code[f.prog]) + 1
  BY DEF FrameOK
<1>2. Held(f) \subseteq LocksOf(f.prog)
  BY <1>1, HeldIsTaken
<1>3. f.prog = IF t = KeyboardTid THEN "keyboard" ELSE "user"
  BY OwnCodeIs DEF Thread
<1>4. f.prog \in {"keyboard", "user"}
  BY <1>3
<1>5. f.pc \in 1 .. Len(Code[f.prog]) + 1
  <2>1. Len(Code[f.prog]) \in Nat /\ f.pc \in Nat \ {0}
    BY <1>1, FrameFacts DEF FrameType
  <2> QED  BY <1>1, <2>1
<1>6. "CPU" \in Held(f) => "THREAD_TABLE" \in Held(f)
  BY <1>4, <1>5, OwnCodeHeld DEF Held
<1> QED  BY <1>2, <1>3, <1>6 DEF LocksOf

-----------------------------------------------------------------------------
(* What a step leaves alone                                                *)

\* A step that changes one stack, and leaves it in order, keeps all in order.
LEMMA StacksKept ==
  ASSUME StacksOK, NEW r \in Thread, StackOK(r, frames'[r], OwnCode(r)'),
         \A t \in Thread : t # r => frames'[t] = frames[t] /\ OwnCode(t)' = OwnCode(t)
  PROVE  StacksOK'
<1> SUFFICES ASSUME NEW t \in Thread PROVE StackOK(t, frames'[t], OwnCode(t)')
  BY DEF StacksOK, Thread, Tid, Boot
<1>1. CASE t = r
  BY <1>1
<1>2. CASE t # r
  BY <1>2 DEF StacksOK
<1> QED  BY <1>1, <1>2

\* A step that moves no lock keeps every lock with the frame inside it.
LEMMA InsideKept ==
  ASSUME Inside, holder' = holder,
         \A t \in Thread, l \in Lock : \A d \in Nat : InFrame(t, d, l)' <=> InFrame(t, d, l)
  PROVE  Inside'
<1>1. \A t \in Thread, l \in Lock : \A d \in Nat : InFrame(t, d, l)' => holder'[l] = <<t, d>>
  BY DEF Inside
<1>2. ASSUME NEW l \in Lock, holder'[l] # Nobody
      PROVE  \E t \in Thread : \E d \in Nat : holder'[l] = <<t, d>> /\ InFrame(t, d, l)'
  <2>1. PICK t \in Thread, d \in Nat : holder[l] = <<t, d>> /\ InFrame(t, d, l)
    BY <1>2 DEF Inside
  <2> QED  BY <2>1
<1> QED  BY <1>1, <1>2 DEF Inside, Thread, Tid, Boot, Lock, Nobody

\* The top frame becomes g.
LEMMA TopChanges ==
  ASSUME Core, NEW g \in FrameType, SetTop(g)
  PROVE  /\ frames' \in [Thread -> Seq(FrameType)]
         /\ \A t \in Thread : t # running => frames'[t] = frames[t]
         /\ frames'[running] = [frames[running] EXCEPT ![Len(frames[running])] = g]
         /\ \A t \in Thread : frames'[t] # <<>> <=> frames[t] # <<>>
         /\ \A t \in Thread, l \in Lock : \A d \in Nat :
              InFrame(t, d, l)' <=> IF t = running /\ d = Depth THEN l \in Held(g)
                                    ELSE InFrame(t, d, l)
<1> DEFINE s == frames[running]  n == Len(s)  r == [s EXCEPT ![n] = g]
<1>1. /\ running \in Thread /\ s \in Seq(FrameType) /\ n \in Nat /\ n >= 1 /\ Depth = n
      /\ frames \in [Thread -> Seq(FrameType)]
  BY RunningFacts DEF Core, OtherTypes
<1>2. frames' = [frames EXCEPT ![running] = r]
  BY <1>1 DEF SetTop
<1> HIDE DEF s
<1>3. /\ r \in Seq(FrameType) /\ Len(r) = n /\ r[n] = g /\ r # <<>> /\ s # <<>>
      /\ \A d \in 1 .. n : d # n => r[d] = s[d]
  BY <1>1
<1> HIDE DEF n, r
<1>4. /\ frames' \in [Thread -> Seq(FrameType)]
      /\ \A t \in Thread : t # running => frames'[t] = frames[t]
      /\ frames'[running] = r
  BY <1>1, <1>2, <1>3
<1>5. \A t \in Thread : frames'[t] # <<>> <=> frames[t] # <<>>
  BY <1>3, <1>4 DEF s
<1>6. ASSUME NEW t \in Thread, NEW l \in Lock, NEW d \in Nat
      PROVE  InFrame(t, d, l)' <=> IF t = running /\ d = Depth THEN l \in Held(g)
                                   ELSE InFrame(t, d, l)
  <2>1. CASE t # running
    BY <2>1, <1>4 DEF InFrame
  <2>2. CASE t = running /\ d = n
    <3>1. d \in 1 .. Len(r) /\ r[d] = g
      BY <2>2, <1>1, <1>3
    <3> QED  BY <3>1, <2>2, <1>1, <1>4 DEF InFrame
  <2>3. CASE t = running /\ d # n
    <3>1. d \in 1 .. Len(r) <=> d \in 1 .. Len(s)
      BY <1>3 DEF n
    <3>2. d \in 1 .. Len(s) => r[d] = s[d]
      BY <2>3, <1>3 DEF n
    <3> QED  BY <3>1, <3>2, <2>3, <1>1, <1>4 DEF InFrame, s
  <2> QED  BY <2>1, <2>2, <2>3
<1> QED  BY <1>4, <1>5, <1>6 DEF r, n, s

\* Who holds a lock is somebody.
LEMMA Somebody ==
  ASSUME NEW t \in Thread, NEW d PROVE <<t, d>> # Nobody /\ <<t, d>>[1] = t
BY DEF Nobody

\* The top frame goes on: only a tick in a trampoline must wait, for a lock that is held.
LEMMA GoesOn ==
  ASSUME Core, NEW g, FrameOK(g), g.prog = Top.prog, g.pc = Top.pc + 1,
         Op(Top).do \notin {"return", "schedule", "dispatch", "idle", "user"},
         Op(Top).do = "lock" => holder[Op(Top).lock] = Nobody
  PROVE  StackOK(running, [frames[running] EXCEPT ![Len(frames[running])] = g], OwnCode(running))
<1> DEFINE s == frames[running]
<1>1. /\ running \in Thread /\ s \in Seq(FrameType) /\ s # <<>>
      /\ StackOK(running, s, OwnCode(running)) /\ Len(s) \in Nat /\ Len(s) >= 1
      /\ Top = s[Len(s)] /\ FrameOK(Top) /\ Top \in FrameType
      /\ Top.pc <= Len(Code[Top.prog]) + 1 /\ Top.pc \in Nat \ {0}
  BY RunningFacts
<1>2. g \in FrameType
  BY DEF FrameOK
<1>3. ASSUME Len(s) = 1 PROVE g.prog = OwnCode(running) /\ ~AtEnd(g)
  <2>1. Top.prog = OwnCode(running) /\ OwnCode(running) \in OwnPrograms
    BY <1>1, <1>3, OwnCodeIs DEF StackOK
  <2> QED  BY <2>1, <1>1, <1>2, OwnNeverEnds
<1>4. ASSUME Len(s) = 2, running # Boot, "THREAD_TABLE" \in Held(s[1])
      PROVE  \/ g.prog \in {"input", "key_warned"}
             \/ g.prog = "timer_kernel" /\ g.pc <= 7
  <2>1. \/ Top.prog \in {"input", "key_warned"}
        \/ Top.prog = "timer_kernel" /\ Top.pc <= 7
    BY <1>1, <1>4 DEF StackOK, TickWaits
  <2>2. CASE Top.prog \in {"input", "key_warned"}
    BY <2>2
  <2>3. CASE Top.prog = "timer_kernel" /\ Top.pc <= 7
    <3>1. ASSUME Top.pc = 7 PROVE FALSE
      <4>1. ~AtEnd(Top)
        BY <1>1, FrameFacts
      <4>2. Op(Top).do = "lock" /\ Op(Top).lock = "THREAD_TABLE"
        BY <4>1, <3>1, <2>3, <1>1, FrameFacts, TimerKernelAt
      <4>3. holder["THREAD_TABLE"] = Nobody
        BY <4>2
      <4>4. InFrame(running, 1, "THREAD_TABLE")
        BY <1>4, <1>1 DEF InFrame
      <4>5. holder["THREAD_TABLE"] = <<running, 1>>
        BY <4>4, <1>1 DEF Core, Inside, Lock
      <4> QED  BY <4>3, <4>5, <1>1, Somebody
    <3> QED  BY <3>1, <2>3, <1>1
  <2> QED  BY <2>1, <2>2, <2>3
<1> HIDE DEF s
<1>5. StackOK(running, [s EXCEPT ![Len(s)] = g], OwnCode(running))
  BY <1>1, <1>3, <1>4, StackTop
<1> QED  BY <1>5 DEF s

\* What else is said of a state
LEMMA RestKept ==
  ASSUME Core, frames' \in [Thread -> Seq(FrameType)],
         \A t \in Thread : frames'[t] # <<>> <=> frames[t] # <<>>,
         UNCHANGED <<running, turn, life, started>>,
         holder' \in [Lock -> {Nobody} \cup (Thread \X (1 .. MaxFrames))]
  PROVE  OtherTypes' /\ Scheduling'
<1>1. OtherTypes /\ Scheduling
  BY DEF Core
<1>2. Boot \in Thread /\ \A t \in Tid : t \in Thread
  BY DEF Thread
<1>3. OtherTypes'
  BY <1>1, <1>2 DEF OtherTypes
<1>4. Scheduling'
  BY <1>1, <1>2 DEF Scheduling
<1> QED  BY <1>3, <1>4

\* A thread's own code is another only once the scheduler has started.
LEMMA OwnCodeKept ==
  ASSUME started' = started, NEW t \in Thread
  PROVE  OwnCode(t)' = OwnCode(t)
BY DEF OwnCode

-----------------------------------------------------------------------------
(* Steps that take and give back locks                                     *)

\* lock(): the top frame takes a lock that is free.
LEMMA LockInv == Core /\ Lock_ => Core'
<1> SUFFICES ASSUME Core, Lock_ PROVE Core'
  OBVIOUS
<1> DEFINE g == Advanced(Top)  L == Op(Top).lock
<1>1. /\ Op(Top).do = "lock" /\ holder[L] = Nobody
      /\ holder' = [holder EXCEPT ![L] = <<running, Depth>>]
      /\ SetTop(g) /\ UNCHANGED <<running, turn, life, started>>
  BY DEF Lock_
<1>2. /\ running \in Thread /\ Depth \in Nat /\ Depth >= 1 /\ FrameOK(Top) /\ Top \in FrameType
      /\ Top.pc <= Len(Code[Top.prog]) + 1 /\ Depth = Len(frames[running])
      /\ StackOK(running, frames[running], OwnCode(running))
  BY RunningFacts
<1>3. g \in FrameType /\ g.prog = Top.prog /\ g.pc = Top.pc + 1
  BY <1>2, AdvancedIs
<1>4. FrameOK(g)
  BY <1>1, <1>2, AdvanceOK
<1>5. L \in Lock /\ L \notin Held(Top) /\ Held(g) = Held(Top) \cup {L}
  BY <1>1, <1>2, <1>3, OpFacts
<1>6. StackOK(running, [frames[running] EXCEPT ![Len(frames[running])] = g], OwnCode(running))
  BY <1>1, <1>3, <1>4, GoesOn
<1>7. /\ frames' \in [Thread -> Seq(FrameType)]
      /\ \A t \in Thread : t # running => frames'[t] = frames[t]
      /\ frames'[running] = [frames[running] EXCEPT ![Len(frames[running])] = g]
      /\ \A t \in Thread : frames'[t] # <<>> <=> frames[t] # <<>>
      /\ \A t \in Thread, l \in Lock : \A d \in Nat :
           InFrame(t, d, l)' <=> IF t = running /\ d = Depth THEN l \in Held(g)
                                 ELSE InFrame(t, d, l)
  BY <1>1, <1>3, TopChanges
<1>8. StacksOK'
  BY <1>1, <1>2, <1>6, <1>7, OwnCodeKept, StacksKept DEF Core
<1>9. holder \in [Lock -> {Nobody} \cup (Thread \X (1 .. MaxFrames))]
  BY DEF Core, OtherTypes
<1>10. Depth \in 1 .. MaxFrames
  BY <1>2, LocksAssumption DEF StackOK
<1>11. holder' \in [Lock -> {Nobody} \cup (Thread \X (1 .. MaxFrames))]
  BY <1>1, <1>2, <1>5, <1>9, <1>10
<1>12. OtherTypes' /\ Scheduling'
  BY <1>1, <1>7, <1>11, RestKept
<1> HIDE DEF g, L
<1>13. \A l \in Lock : holder'[l] = IF l = L THEN <<running, Depth>> ELSE holder[l]
  BY <1>1, <1>9
<1>14. \A l \in Lock : l \in Held(Top) <=> InFrame(running, Depth, l)
  BY <1>2 DEF InFrame, Top
<1>15. \A t \in Thread, l \in Lock : \A d \in Nat :
         InFrame(t, d, l)' <=> (t = running /\ d = Depth /\ l = L) \/ InFrame(t, d, l)
  BY <1>2, <1>5, <1>7, <1>14
<1>16. Inside
  BY DEF Core
<1>17. Inside'
  <2>1. ASSUME NEW t \in Thread, NEW l \in Lock, NEW d \in Nat, InFrame(t, d, l)'
        PROVE  holder'[l] = <<t, d>>
    <3>1. CASE t = running /\ d = Depth /\ l = L
      BY <3>1, <1>13
    <3>2. CASE InFrame(t, d, l)
      <4>1. holder[l] = <<t, d>>
        BY <3>2, <1>16 DEF Inside
      <4>2. l # L
        BY <4>1, <1>1, Somebody
      <4> QED  BY <4>1, <4>2, <1>13
    <3> QED  BY <3>1, <3>2, <2>1, <1>15
  <2>2. ASSUME NEW l \in Lock, holder'[l] # Nobody
        PROVE  \E t \in Thread : \E d \in Nat : holder'[l] = <<t, d>> /\ InFrame(t, d, l)'
    <3>1. CASE l = L
      BY <3>1, <1>2, <1>13, <1>15
    <3>2. CASE l # L
      <4>1. holder'[l] = holder[l]
        BY <3>2, <1>13
      <4>2. PICK t \in Thread, d \in Nat : holder[l] = <<t, d>> /\ InFrame(t, d, l)
        BY <4>1, <2>2, <1>16 DEF Inside
      <4> QED  BY <4>1, <4>2, <1>15
    <3> QED  BY <3>1, <3>2
  <2> QED  BY <2>1, <2>2 DEF Inside, Thread, Tid, Boot, Lock, Nobody
<1>18. SuspendedHoldsHeapOnly'
  <2> SUFFICES ASSUME NEW l \in Lock, holder'[l] # Nobody
               PROVE  \/ holder'[l][1] = running'
                      \/ l = "ALLOCATOR" /\ holder'[l] = <<KeyboardTid, 1>> /\ started'
    BY DEF SuspendedHoldsHeapOnly, Lock, Nobody, KeyboardTid
  <2>1. CASE l = L
    BY <2>1, <1>1, <1>13
  <2>2. CASE l # L
    BY <2>2, <1>1, <1>13 DEF Core, SuspendedHoldsHeapOnly
  <2> QED  BY <2>1, <2>2
<1> QED  BY <1>8, <1>12, <1>17, <1>18 DEF Core

\* The drop of a guard: the top frame gives back what it holds.
LEMMA UnlockInv == Core /\ Unlock => Core'
<1> SUFFICES ASSUME Core, Unlock PROVE Core'
  OBVIOUS
<1> DEFINE g == Advanced(Top)  L == Op(Top).lock
<1>1. /\ Op(Top).do = "unlock" /\ holder' = [holder EXCEPT ![L] = Nobody]
      /\ SetTop(g) /\ UNCHANGED <<running, turn, life, started>>
  BY DEF Unlock
<1>2. /\ running \in Thread /\ Depth \in Nat /\ Depth >= 1 /\ FrameOK(Top) /\ Top \in FrameType
      /\ Top.pc <= Len(Code[Top.prog]) + 1 /\ Depth = Len(frames[running])
      /\ Top = frames[running][Depth]
  BY RunningFacts
<1>3. g \in FrameType /\ g.prog = Top.prog /\ g.pc = Top.pc + 1
  BY <1>2, AdvancedIs
<1>4. FrameOK(g)
  BY <1>1, <1>2, AdvanceOK
<1>5. L \in Lock /\ L \in Held(Top) /\ Held(g) = Held(Top) \ {L}
  BY <1>1, <1>2, <1>3, OpFacts
<1>6. StackOK(running, [frames[running] EXCEPT ![Len(frames[running])] = g], OwnCode(running))
  BY <1>1, <1>3, <1>4, GoesOn
<1>7. /\ frames' \in [Thread -> Seq(FrameType)]
      /\ \A t \in Thread : t # running => frames'[t] = frames[t]
      /\ frames'[running] = [frames[running] EXCEPT ![Len(frames[running])] = g]
      /\ \A t \in Thread : frames'[t] # <<>> <=> frames[t] # <<>>
      /\ \A t \in Thread, l \in Lock : \A d \in Nat :
           InFrame(t, d, l)' <=> IF t = running /\ d = Depth THEN l \in Held(g)
                                 ELSE InFrame(t, d, l)
  BY <1>1, <1>3, TopChanges
<1>8. StacksOK'
  BY <1>1, <1>2, <1>6, <1>7, OwnCodeKept, StacksKept DEF Core
<1>9. holder \in [Lock -> {Nobody} \cup (Thread \X (1 .. MaxFrames))]
  BY DEF Core, OtherTypes
<1>10. holder' \in [Lock -> {Nobody} \cup (Thread \X (1 .. MaxFrames))]
  BY <1>1, <1>5, <1>9
<1>11. OtherTypes' /\ Scheduling'
  BY <1>1, <1>7, <1>10, RestKept
<1> HIDE DEF g, L
<1>12. \A l \in Lock : holder'[l] = IF l = L THEN Nobody ELSE holder[l]
  BY <1>1, <1>9
<1>13. \A l \in Lock : l \in Held(Top) <=> InFrame(running, Depth, l)
  BY <1>2 DEF InFrame
<1>14. Inside
  BY DEF Core
<1>15. holder[L] = <<running, Depth>>
  BY <1>2, <1>5, <1>13, <1>14 DEF Inside
<1>16. ASSUME NEW t \in Thread, NEW l \in Lock, NEW d \in Nat
       PROVE  InFrame(t, d, l)' <=> l # L /\ InFrame(t, d, l)
  <2>1. CASE t = running /\ d = Depth
    BY <2>1, <1>2, <1>5, <1>7, <1>13
  <2>2. CASE ~(t = running /\ d = Depth)
    <3>1. InFrame(t, d, L) => <<t, d>> = <<running, Depth>>
      BY <1>5, <1>14, <1>15 DEF Inside
    <3>2. ~InFrame(t, d, L)
      BY <3>1, <2>2
    <3> QED  BY <3>2, <2>2, <1>2, <1>7
  <2> QED  BY <2>1, <2>2
<1>17. Inside'
  <2>1. ASSUME NEW t \in Thread, NEW l \in Lock, NEW d \in Nat, InFrame(t, d, l)'
        PROVE  holder'[l] = <<t, d>>
    <3>1. l # L /\ InFrame(t, d, l)
      BY <2>1, <1>16
    <3>2. holder[l] = <<t, d>>
      BY <3>1, <1>14 DEF Inside
    <3> QED  BY <3>1, <3>2, <1>12
  <2>2. ASSUME NEW l \in Lock, holder'[l] # Nobody
        PROVE  \E t \in Thread : \E d \in Nat : holder'[l] = <<t, d>> /\ InFrame(t, d, l)'
    <3>1. l # L /\ holder'[l] = holder[l]
      BY <2>2, <1>12
    <3>2. PICK t \in Thread, d \in Nat : holder[l] = <<t, d>> /\ InFrame(t, d, l)
      BY <3>1, <2>2, <1>14 DEF Inside
    <3> QED  BY <3>1, <3>2, <1>16
  <2> QED  BY <2>1, <2>2 DEF Inside, Thread, Tid, Boot, Lock, Nobody
<1>18. SuspendedHoldsHeapOnly'
  <2> SUFFICES ASSUME NEW l \in Lock, holder'[l] # Nobody
               PROVE  \/ holder'[l][1] = running'
                      \/ l = "ALLOCATOR" /\ holder'[l] = <<KeyboardTid, 1>> /\ started'
    BY DEF SuspendedHoldsHeapOnly, Lock, Nobody, KeyboardTid
  <2>1. l # L /\ holder'[l] = holder[l]
    BY <1>12
  <2> QED  BY <2>1, <1>1 DEF Core, SuspendedHoldsHeapOnly
<1> QED  BY <1>8, <1>11, <1>17, <1>18 DEF Core

-----------------------------------------------------------------------------
(* Steps that touch no lock                                                *)

\* Frames that hold nothing take each other's place on top.
LEMMA QuietTop ==
  ASSUME Core, NEW g \in FrameType, SetTop(g), holder' = holder, Held(Top) = {}, Held(g) = {}
  PROVE  Inside'
<1>1. /\ running \in Thread /\ Depth \in Nat /\ Depth >= 1 /\ Depth = Len(frames[running])
      /\ Top = frames[running][Depth]
  BY RunningFacts
<1>2. \A l \in Lock : ~InFrame(running, Depth, l)
  BY <1>1 DEF InFrame
<1>3. \A t \in Thread, l \in Lock : \A d \in Nat :
        InFrame(t, d, l)' <=> IF t = running /\ d = Depth THEN l \in Held(g)
                              ELSE InFrame(t, d, l)
  BY TopChanges
<1>4. \A t \in Thread, l \in Lock : \A d \in Nat : InFrame(t, d, l)' <=> InFrame(t, d, l)
  BY <1>1, <1>2, <1>3
<1>5. Inside
  BY DEF Core
<1> QED  BY <1>4, <1>5, InsideKept

\* A step that moves no lock and keeps the processor leaves no new lock behind.
LEMMA SuspendedKept ==
  ASSUME SuspendedHoldsHeapOnly, UNCHANGED <<holder, running>>, started => started'
  PROVE  SuspendedHoldsHeapOnly'
BY DEF SuspendedHoldsHeapOnly

\* Interrupts are turned on or off.
LEMMA FlagInv == Core /\ SetInterruptFlag => Core'
<1> SUFFICES ASSUME Core, SetInterruptFlag PROVE Core'
  OBVIOUS
<1> DEFINE m == Op(Top).do = "mask"  g == [Advanced(Top) EXCEPT !.masked = m]
<1>1. /\ Op(Top).do \in {"mask", "unmask"} /\ SetTop(g)
      /\ UNCHANGED <<holder, running, turn, life, started>>
  BY DEF SetInterruptFlag
<1>2. /\ running \in Thread /\ FrameOK(Top) /\ Top \in FrameType
      /\ Top.pc <= Len(Code[Top.prog]) + 1
  BY RunningFacts
<1>3. m \in BOOLEAN
  OBVIOUS
<1> HIDE DEF m
<1>4. FrameOK(g) /\ g \in FrameType /\ g.prog = Top.prog /\ g.pc = Top.pc + 1
  <2>1. m <=> Op(Top).do = "mask"
    BY DEF m
  <2> QED  BY <2>1, <1>1, <1>2, <1>3, FlagOK
<1> HIDE DEF g
<1>5. Held(Top) = {} /\ Held(g) = {}
  BY <1>1, <1>2, <1>4, OpFacts
<1>6. StackOK(running, [frames[running] EXCEPT ![Len(frames[running])] = g], OwnCode(running))
  BY <1>1, <1>4, GoesOn
<1>7. /\ frames' \in [Thread -> Seq(FrameType)]
      /\ \A t \in Thread : t # running => frames'[t] = frames[t]
      /\ frames'[running] = [frames[running] EXCEPT ![Len(frames[running])] = g]
      /\ \A t \in Thread : frames'[t] # <<>> <=> frames[t] # <<>>
  BY <1>1, <1>4, TopChanges
<1>8. StacksOK'
  BY <1>1, <1>2, <1>6, <1>7, OwnCodeKept, StacksKept DEF Core
<1>9. OtherTypes' /\ Scheduling'
  <2>1. holder' \in [Lock -> {Nobody} \cup (Thread \X (1 .. MaxFrames))]
    BY <1>1 DEF Core, OtherTypes
  <2> QED  BY <2>1, <1>1, <1>7, RestKept
<1>10. Inside'
  BY <1>1, <1>4, <1>5, QuietTop
<1>11. SuspendedHoldsHeapOnly'
  BY <1>1, SuspendedKept DEF Core
<1> QED  BY <1>8, <1>9, <1>10, <1>11 DEF Core

\* The rest of a state whose threads that can be scheduled may change
LEMMA LifeKept ==
  ASSUME Core, frames' \in [Thread -> Seq(FrameType)],
         \A t \in Tid : (life'[t] = "ready") = (frames'[t] # <<>>),
         life' \in [Tid -> {"none", "ready", "zombie"}],
         running # Boot => life'[running] = "ready",
         life'[KeyboardTid] = "ready", frames'[Boot] # <<>>,
         UNCHANGED <<holder, running, turn, started>>
  PROVE  OtherTypes' /\ Scheduling'
<1>1. OtherTypes /\ Scheduling
  BY DEF Core
<1>2. OtherTypes'
  BY <1>1 DEF OtherTypes
<1>3. Scheduling'
  BY <1>1 DEF Scheduling
<1> QED  BY <1>2, <1>3

\* wait frees the thread of a zombie.
LEMMA ReapInv == Core /\ ReapThread => Core'
<1> SUFFICES ASSUME Core, ReapThread PROVE Core'
  OBVIOUS
<1> DEFINE g == Advanced(Top)
<1>1. /\ Op(Top).do = "reap" /\ SetTop(g) /\ UNCHANGED <<holder, running, turn, started>>
  BY DEF ReapThread
<1>2. PICK z \in Tid : life[z] = "zombie" /\ life' = [life EXCEPT ![z] = "none"]
  BY DEF ReapThread
<1>3. /\ running \in Thread /\ FrameOK(Top) /\ Top \in FrameType
      /\ Top.pc <= Len(Code[Top.prog]) + 1
  BY RunningFacts
<1>4. g \in FrameType /\ g.prog = Top.prog /\ g.pc = Top.pc + 1
  BY <1>3, AdvancedIs
<1>5. FrameOK(g)
  BY <1>1, <1>3, AdvanceOK
<1>6. Held(Top) = {} /\ Held(g) = {}
  BY <1>1, <1>3, <1>4, OpFacts
<1>7. StackOK(running, [frames[running] EXCEPT ![Len(frames[running])] = g], OwnCode(running))
  BY <1>1, <1>4, <1>5, GoesOn
<1>8. /\ frames' \in [Thread -> Seq(FrameType)]
      /\ \A t \in Thread : t # running => frames'[t] = frames[t]
      /\ frames'[running] = [frames[running] EXCEPT ![Len(frames[running])] = g]
      /\ \A t \in Thread : frames'[t] # <<>> <=> frames[t] # <<>>
  BY <1>1, <1>4, TopChanges
<1>9. StacksOK'
  BY <1>1, <1>3, <1>7, <1>8, OwnCodeKept, StacksKept DEF Core
<1>10. /\ life \in [Tid -> {"none", "ready", "zombie"}]
       /\ \A t \in Tid : (life[t] = "ready") = (frames[t] # <<>>)
       /\ running # Boot => life[running] = "ready" /\ running \in Tid
       /\ life[KeyboardTid] = "ready" /\ frames[Boot] # <<>>
  BY <1>3 DEF Core, OtherTypes, Scheduling, Thread
<1>11. Boot \in Thread /\ KeyboardTid \in Tid /\ \A t \in Tid : t \in Thread
  BY LocksAssumption DEF Thread, Tid, KeyboardTid
<1>12. \A t \in Tid : life'[t] = "ready" <=> life[t] = "ready"
  BY <1>2, <1>10
<1>13. life' \in [Tid -> {"none", "ready", "zombie"}]
  BY <1>2, <1>10
<1>14. \A t \in Tid : (life'[t] = "ready") = (frames'[t] # <<>>)
  BY <1>8, <1>10, <1>11, <1>12
<1>15. OtherTypes' /\ Scheduling'
  BY <1>1, <1>8, <1>10, <1>11, <1>12, <1>13, <1>14, LifeKept
<1>16. Inside'
  BY <1>1, <1>4, <1>6, QuietTop
<1>17. SuspendedHoldsHeapOnly'
  BY <1>1, SuspendedKept DEF Core
<1> QED  BY <1>9, <1>15, <1>16, <1>17 DEF Core

\* A thread that starts has one frame.
LEMMA StackNew ==
  ASSUME NEW t \in Thread, NEW f, FrameOK(f), ~AtEnd(f)
  PROVE  /\ StackOK(t, <<f>>, f.prog) /\ <<f>> \in Seq(FrameType) /\ <<f>> # <<>>
         /\ Len(<<f>>) = 1 /\ <<f>>[1] = f
<1> DEFINE s == <<f>>
<1>1. f \in FrameType
  BY DEF FrameOK
<1>2. s \in Seq(FrameType) /\ s # <<>> /\ Len(s) = 1 /\ s[1] = f
  BY <1>1
<1> HIDE DEF s
<1>3. Len(s) <= MaxFrames
  BY <1>2, LocksAssumption
<1>4. \A d \in 1 .. Len(s) : FrameOK(s[d])
  BY <1>2
<1>5. \A d \in 2 .. Len(s) : Lies(t, s, d)
  BY <1>2
<1>6. TickWaits(s)
  BY <1>2 DEF TickWaits
<1>7. StackOK(t, s, f.prog)
  BY <1>2, <1>3, <1>4, <1>5, <1>6 DEF StackOK
<1> QED  BY <1>2, <1>7 DEF s

\* fork makes a thread that can be scheduled.
LEMMA SpawnInv == Core /\ SpawnThread => Core'
<1> SUFFICES ASSUME Core, SpawnThread PROVE Core'
  OBVIOUS
<1> DEFINE g == Advanced(Top)  s == frames[running]  r == [s EXCEPT ![Len(s)] = g]
           f == Frame("user", FALSE)
<1>1. Op(Top).do = "spawn" /\ UNCHANGED <<holder, running, turn, started>>
  BY DEF SpawnThread
<1>2. PICK c \in Tid : /\ life[c] = "none" /\ life' = [life EXCEPT ![c] = "ready"]
                       /\ frames' = [frames EXCEPT ![running][Depth] = g, ![c] = <<f>>]
  BY DEF SpawnThread
<1>3. /\ running \in Thread /\ FrameOK(Top) /\ Top \in FrameType /\ s \in Seq(FrameType)
      /\ Top.pc <= Len(Code[Top.prog]) + 1 /\ Depth = Len(s) /\ Depth \in Nat /\ Depth >= 1
      /\ Top = s[Depth] /\ s # <<>>
  BY RunningFacts
<1>4. g \in FrameType /\ g.prog = Top.prog /\ g.pc = Top.pc + 1
  BY <1>3, AdvancedIs
<1>5. FrameOK(g)
  BY <1>1, <1>3, AdvanceOK
<1>6. Held(Top) = {} /\ Held(g) = {}
  BY <1>1, <1>3, <1>4, OpFacts
<1>7. StackOK(running, r, OwnCode(running))
  BY <1>1, <1>4, <1>5, GoesOn
<1>8. FrameOK(f) /\ f.prog = "user" /\ Held(f) = {} /\ ~AtEnd(f)
  <2>1. "user" \in DOMAIN Code
    BY DEF Code
  <2> QED  BY <2>1, FrameIs DEF OwnPrograms
<1>9. /\ life \in [Tid -> {"none", "ready", "zombie"}]
      /\ \A t \in Tid : (life[t] = "ready") = (frames[t] # <<>>)
      /\ running # Boot => life[running] = "ready" /\ running \in Tid
      /\ life[KeyboardTid] = "ready" /\ frames[Boot] # <<>>
      /\ frames \in [Thread -> Seq(FrameType)]
  BY <1>3 DEF Core, OtherTypes, Scheduling, Thread
<1>10. Boot \in Thread /\ KeyboardTid \in Tid /\ Boot \notin Tid /\ \A t \in Tid : t \in Thread
  BY LocksAssumption DEF Thread, Tid, KeyboardTid, Boot
<1>11. c # running /\ c # Boot /\ c # KeyboardTid /\ c \in Thread /\ frames[c] = <<>>
  BY <1>2, <1>9, <1>10
<1>12. StackOK(c, <<f>>, "user") /\ <<f>> \in Seq(FrameType) /\ <<f>> # <<>>
       /\ Len(<<f>>) = 1 /\ <<f>>[1] = f
  BY <1>8, <1>11, StackNew
<1>13. OwnCode(c) = "user"
  BY <1>11 DEF OwnCode
<1>14. frames' = [frames EXCEPT ![running] = r, ![c] = <<f>>]
  BY <1>2, <1>3
<1> DEFINE n == <<f>>
<1> HIDE DEF g, s, f, n
<1>15. r \in Seq(FrameType) /\ Len(r) = Len(s) /\ r[Len(s)] = g /\ r # <<>>
       /\ \A d \in 1 .. Len(s) : d # Len(s) => r[d] = s[d]
  BY <1>3, <1>4
<1> HIDE DEF r
<1>16. n \in Seq(FrameType) /\ n # <<>> /\ Len(n) = 1 /\ n[1] = f /\ StackOK(c, n, "user")
  BY <1>12 DEF n
<1>17. frames' = [frames EXCEPT ![running] = r, ![c] = n]
  BY <1>14 DEF n
<1>18. /\ frames' \in [Thread -> Seq(FrameType)]
       /\ frames'[running] = r /\ frames'[c] = n
       /\ \A t \in Thread : t # running /\ t # c => frames'[t] = frames[t]
  BY <1>3, <1>9, <1>11, <1>15, <1>16, <1>17
<1>19. StacksOK'
  <2> SUFFICES ASSUME NEW t \in Thread PROVE StackOK(t, frames'[t], OwnCode(t)')
    BY DEF StacksOK, Thread, Tid, Boot
  <2>1. OwnCode(t)' = OwnCode(t)
    BY <1>1, OwnCodeKept
  <2>2. CASE t = running
    BY <2>1, <2>2, <1>7, <1>18
  <2>3. CASE t = c
    BY <2>1, <2>3, <1>13, <1>16, <1>18
  <2>4. CASE t # running /\ t # c
    BY <2>1, <2>4, <1>18 DEF Core, StacksOK
  <2> QED  BY <2>2, <2>3, <2>4
<1>20. \A t \in Tid : life'[t] = IF t = c THEN "ready" ELSE life[t]
  BY <1>2, <1>9
<1>21. OtherTypes' /\ Scheduling'
  <2>1. life' \in [Tid -> {"none", "ready", "zombie"}]
    BY <1>2, <1>9
  <2>2. \A t \in Tid : (life'[t] = "ready") = (frames'[t] # <<>>)
    <3> SUFFICES ASSUME NEW t \in Tid PROVE (life'[t] = "ready") = (frames'[t] # <<>>)
      OBVIOUS
    <3>1. CASE t = c
      BY <3>1, <1>16, <1>18, <1>20
    <3>2. CASE t = running
      BY <3>2, <1>9, <1>10, <1>11, <1>15, <1>18, <1>20
    <3>3. CASE t # c /\ t # running
      BY <3>3, <1>9, <1>10, <1>18, <1>20
    <3> QED  BY <3>1, <3>2, <3>3
  <2>3. frames'[Boot] # <<>>
    BY <1>9, <1>10, <1>11, <1>15, <1>18
  <2> QED  BY <2>1, <2>2, <2>3, <1>1, <1>9, <1>10, <1>11, <1>18, <1>20, LifeKept
<1>22. Inside'
  <2>1. ASSUME NEW t \in Thread, NEW l \in Lock, NEW d \in Nat
        PROVE  InFrame(t, d, l)' <=> InFrame(t, d, l)
    <3>1. CASE t = running
      <4>1. CASE d = Len(s)
        BY <4>1, <3>1, <1>3, <1>6, <1>15, <1>18 DEF InFrame, s
      <4>2. CASE d # Len(s)
        BY <4>2, <3>1, <1>15, <1>18 DEF InFrame, s
      <4> QED  BY <4>1, <4>2
    <3>2. CASE t = c
      <4>1. ~InFrame(t, d, l)
        BY <3>2, <1>11 DEF InFrame
      <4>2. InFrame(t, d, l)' => d = 1 /\ l \in Held(f)
        <5>1. \A e \in 1 .. Len(n) : e = 1 /\ n[e] = f
          BY <1>16
        <5>2. frames'[t] = n
          BY <3>2, <1>18
        <5> QED  BY <5>1, <5>2 DEF InFrame
      <4> QED  BY <4>1, <4>2, <1>8
    <3>3. CASE t # running /\ t # c
      BY <3>3, <1>18 DEF InFrame
    <3> QED  BY <3>1, <3>2, <3>3
  <2> QED  BY <2>1, <1>1, InsideKept DEF Core
<1>23. SuspendedHoldsHeapOnly'
  BY <1>1, SuspendedKept DEF Core
<1> QED  BY <1>19, <1>21, <1>22, <1>23 DEF Core

\* wait reaps, yields or fails.
LEMMA SearchInv == Core /\ Search => Core'
<1> SUFFICES ASSUME Core, Search PROVE Core'
  OBVIOUS
<1>1. Op(Top).do = "search" /\ UNCHANGED <<holder, running, turn, life, started>>
  BY DEF Search
<1>2. PICK result \in {"wait_reaps", "wait_yields", "wait_fails"} : SetTop(Frame(result, TRUE))
  BY DEF Search
<1> DEFINE g == Frame(result, TRUE)  s == frames[running]  own == OwnCode(running)
<1>3. /\ running \in Thread /\ FrameOK(Top) /\ Top \in FrameType /\ s \in Seq(FrameType)
      /\ Top.pc <= Len(Code[Top.prog]) + 1 /\ Depth = Len(s) /\ Depth \in Nat /\ Depth >= 1
      /\ Top = s[Depth] /\ s # <<>> /\ StackOK(running, s, own)
  BY RunningFacts
<1>4. FrameOK(g) /\ g \in FrameType /\ g.prog = result /\ Held(g) = {}
  <2>1. result \in DOMAIN Code
    BY DEF Code
  <2> QED  BY <2>1, FrameIs
<1> HIDE DEF g
<1>5. Top.prog \in {"wait", "wait_yields"}
  BY <1>1, <1>3, OpOf
<1>6. Top.prog \notin Handlers(running) /\ Top.prog \notin OwnPrograms /\ own \in OwnPrograms
  <2>1. own \in OwnPrograms
    BY <1>3, OwnCodeIs
  <2> QED  BY <2>1, <1>5 DEF Handlers, OwnPrograms
<1>7. Len(s) = 2 /\ running # Boot /\ s[2].prog \in Entered(running) /\ Held(s[1]) = {}
  BY <1>3, <1>6, QuietUnder
<1>8. running # KeyboardTid
  BY <1>3, <1>5, <1>7 DEF Entered
<1>9. result \in Entered(running)
  BY <1>8 DEF Entered
<1>10. Held(Top) = {}
  <2>1. /\ Advanced(Top) \in FrameType /\ Advanced(Top).prog = Top.prog
        /\ Advanced(Top).pc = Top.pc + 1
    BY <1>3, AdvancedIs
  <2> QED  BY <2>1, <1>1, <1>3, OpFacts
<1>11. StackOK(running, [s EXCEPT ![Len(s)] = g], own)
  BY <1>3, <1>4, <1>6, <1>7, <1>9, StackTop
<1>12. /\ frames' \in [Thread -> Seq(FrameType)]
       /\ \A t \in Thread : t # running => frames'[t] = frames[t]
       /\ frames'[running] = [s EXCEPT ![Len(s)] = g]
       /\ \A t \in Thread : frames'[t] # <<>> <=> frames[t] # <<>>
  BY <1>2, <1>4, TopChanges DEF g
<1>13. StacksOK'
  BY <1>1, <1>3, <1>11, <1>12, OwnCodeKept, StacksKept DEF Core
<1>14. OtherTypes' /\ Scheduling'
  <2>1. holder' \in [Lock -> {Nobody} \cup (Thread \X (1 .. MaxFrames))]
    BY <1>1 DEF Core, OtherTypes
  <2> QED  BY <2>1, <1>1, <1>12, RestKept
<1>15. Inside'
  BY <1>1, <1>2, <1>4, <1>10, QuietTop DEF g
<1>16. SuspendedHoldsHeapOnly'
  BY <1>1, SuspendedKept DEF Core
<1> QED  BY <1>13, <1>14, <1>15, <1>16 DEF Core

-----------------------------------------------------------------------------
(* Steps that give the processor to another thread                         *)

\* Code of a thread's own is the only frame of the thread.
LEMMA OwnOnTop ==
  ASSUME NEW t \in Thread, NEW s, NEW own, StackOK(t, s, own), s # <<>>,
         s[Len(s)].prog \in OwnPrograms
  PROVE  Len(s) = 1 /\ s[Len(s)].prog = own
<1>1. s \in Seq(FrameType) /\ s[1].prog = own
  BY DEF StackOK
<1>2. Len(s) \in Nat /\ Len(s) >= 1
  BY <1>1
<1>3. ASSUME Len(s) # 1 PROVE FALSE
  <2>1. Len(s) \in 2 .. Len(s)
    BY <1>2, <1>3, Heights
  <2> QED  BY <2>1, AboveOwn
<1> QED  BY <1>1, <1>3

\* The operations of kernel_main and of the scheduler's loop are on boot's stack.
LEMMA BootOnTop ==
  ASSUME Core, Op(Top).do \in {"schedule", "dispatch"}
  PROVE  /\ running = Boot /\ Depth = 1 /\ Held(Top) = {}
         /\ OwnCode(Boot) = IF Op(Top).do = "schedule" THEN "boot" ELSE "scheduler"
<1> DEFINE s == frames[running]
<1>1. /\ running \in Thread /\ FrameOK(Top) /\ Top \in FrameType /\ s # <<>>
      /\ Top.pc <= Len(Code[Top.prog]) + 1 /\ Depth = Len(s) /\ Top = s[Depth]
      /\ StackOK(running, s, OwnCode(running))
  BY RunningFacts
<1> HIDE DEF s
<1>2. Top.prog = IF Op(Top).do = "schedule" THEN "boot" ELSE "scheduler"
  BY <1>1, OpOf
<1>3. Top.prog \in OwnPrograms
  BY <1>2 DEF OwnPrograms
<1>4. Depth = 1 /\ Top.prog = OwnCode(running)
  BY <1>1, <1>3, OwnOnTop
<1>5. running = Boot
  BY <1>1, <1>2, <1>4, OwnCodeIs DEF Thread
<1>6. Held(Top) = {}
  <2>1. /\ Advanced(Top) \in FrameType /\ Advanced(Top).prog = Top.prog
        /\ Advanced(Top).pc = Top.pc + 1
    BY <1>1, AdvancedIs
  <2> QED  BY <2>1, <1>1, OpFacts
<1> QED  BY <1>2, <1>4, <1>5, <1>6

\* The scheduler's loop at its start
LEMMA SchedulerFrame ==
  /\ FrameOK(Frame("scheduler", TRUE)) /\ Frame("scheduler", TRUE) \in FrameType
  /\ Frame("scheduler", TRUE).prog = "scheduler" /\ ~AtEnd(Frame("scheduler", TRUE))
  /\ Held(Frame("scheduler", TRUE)) = {}
<1>1. "scheduler" \in DOMAIN Code
  BY DEF Code
<1> QED  BY <1>1, FrameIs DEF OwnPrograms

\* The scheduler's loop takes the place of boot's code, or begins anew.
LEMMA SchedulerStack ==
  ASSUME Core, Op(Top).do \in {"schedule", "dispatch"}, SetTop(Frame("scheduler", TRUE)),
         OwnCode(Boot)' = "scheduler",
         \A t \in Thread : t # Boot => OwnCode(t)' = OwnCode(t)
  PROVE  /\ StacksOK' /\ frames' \in [Thread -> Seq(FrameType)]
         /\ \A t \in Thread : frames'[t] # <<>> <=> frames[t] # <<>>
<1> DEFINE s == frames[running]  g == Frame("scheduler", TRUE)
<1>1. /\ running \in Thread /\ s \in Seq(FrameType) /\ s # <<>> /\ Depth = Len(s)
      /\ StackOK(running, s, OwnCode(running))
  BY RunningFacts
<1>2. running = Boot /\ Depth = 1
  BY BootOnTop
<1> HIDE DEF s, g
<1>3. FrameOK(g) /\ g \in FrameType /\ g.prog = "scheduler" /\ ~AtEnd(g)
  BY SchedulerFrame DEF g
<1>4. StackOK(Boot, [s EXCEPT ![Len(s)] = g], "scheduler")
  <2>1. Boot \in Thread /\ StackOK(Boot, s, OwnCode(Boot)) /\ Len(s) = 1
    BY <1>1, <1>2
  <2>2. Len(s) # 2 /\ ~(Len(s) >= 2)
    BY <2>1
  <2> QED  BY <2>1, <2>2, <1>1, <1>3, StackTop
<1>5. /\ frames' \in [Thread -> Seq(FrameType)]
      /\ \A t \in Thread : t # running => frames'[t] = frames[t]
      /\ frames'[running] = [s EXCEPT ![Len(s)] = g]
      /\ \A t \in Thread : frames'[t] # <<>> <=> frames[t] # <<>>
  BY <1>3, TopChanges DEF s, g
<1>6. StacksOK'
  BY <1>1, <1>2, <1>4, <1>5, StacksKept DEF Core
<1> QED  BY <1>5, <1>6

\* Boot ends in the scheduler's loop.
LEMMA StartInv == Core /\ StartScheduler => Core'
<1> SUFFICES ASSUME Core, StartScheduler PROVE Core'
  OBVIOUS
<1>1. /\ Op(Top).do = "schedule" /\ started' = TRUE /\ SetTop(Frame("scheduler", TRUE))
      /\ UNCHANGED <<holder, running, turn, life>>
  BY DEF StartScheduler
<1>2. running = Boot /\ Held(Top) = {}
  BY <1>1, BootOnTop
<1>3. OwnCode(Boot)' = "scheduler" /\ \A t \in Thread : t # Boot => OwnCode(t)' = OwnCode(t)
  <2>1. OwnCode(Boot)' = "scheduler"
    BY <1>1 DEF OwnCode, Boot, KeyboardTid
  <2>2. ASSUME NEW t \in Thread, t # Boot PROVE OwnCode(t)' = OwnCode(t)
    BY <2>2 DEF OwnCode
  <2> QED  BY <2>1, <2>2
<1>4. /\ StacksOK' /\ frames' \in [Thread -> Seq(FrameType)]
      /\ \A t \in Thread : frames'[t] # <<>> <=> frames[t] # <<>>
  BY <1>1, <1>3, SchedulerStack
<1>5. Boot \in Thread /\ \A t \in Tid : t \in Thread
  BY DEF Thread
<1>6. OtherTypes'
  BY <1>1, <1>4, <1>5 DEF Core, OtherTypes
<1>7. Scheduling'
  BY <1>1, <1>2, <1>4, <1>5 DEF Core, Scheduling
<1>8. Inside'
  BY <1>1, <1>2, SchedulerFrame, QuietTop
<1>9. SuspendedHoldsHeapOnly'
  BY <1>1, SuspendedKept DEF Core
<1> QED  BY <1>4, <1>6, <1>7, <1>8, <1>9 DEF Core

\* The keyboard's thread is ready, so that the search for the next one finds a thread.
LEMMA NextIsReady ==
  ASSUME Core
  PROVE  FindNext(turn) \in Tid /\ life[FindNext(turn)] = "ready"
<1> DEFINE Ahead(i) == (turn + i) % NTHREAD
           First(i) == /\ life[Ahead(i)] = "ready"
                       /\ \A j \in 1 .. i-1 : life[Ahead(j)] # "ready"
           S == {i \in 1 .. NTHREAD : life[Ahead(i)] = "ready"}
<1>1. NTHREAD \in Nat /\ NTHREAD >= 2 /\ turn \in 0 .. NTHREAD - 1 /\ life[0] = "ready"
  BY LocksAssumption DEF Core, OtherTypes, Scheduling, Tid, KeyboardTid
<1>2. \A i \in 1 .. NTHREAD : Ahead(i) \in Tid
  BY <1>1 DEF Tid
<1>3. NTHREAD - turn \in 1 .. NTHREAD /\ Ahead(NTHREAD - turn) = 0
  <2>1. turn + (NTHREAD - turn) = NTHREAD
    BY <1>1
  <2>2. NTHREAD % NTHREAD = 0
    BY <1>1
  <2> QED  BY <2>1, <2>2, <1>1
<1> HIDE DEF Ahead
<1>4. S \in SUBSET Nat /\ S # {}
  <2>1. NTHREAD - turn \in S
    BY <1>1, <1>3
  <2>2. S \in SUBSET Nat
    BY <1>1
  <2> QED  BY <2>1, <2>2
<1>5. PICK m \in S : \A n \in S : m <= n
  BY <1>4, LeastElement
<1>6. \E i \in 1 .. NTHREAD : First(i)
  <2>1. \A j \in 1 .. m - 1 : j \in 1 .. NTHREAD /\ ~(m <= j)
    BY <1>1
  <2> QED  BY <2>1, <1>5
<1> DEFINE first == CHOOSE i \in 1 .. NTHREAD : First(i)
<1>7. FindNext(turn) = Ahead(first)
  BY DEF FindNext, Ahead
<1> HIDE DEF S
<1>8. first \in 1 .. NTHREAD /\ First(first)
  BY <1>6
<1> QED  BY <1>2, <1>7, <1>8

\* The scheduler switches to a thread, with its guards dropped.
LEMMA DispatchInv == Core /\ Dispatch => Core'
<1> SUFFICES ASSUME Core, Dispatch PROVE Core'
  OBVIOUS
<1>1. /\ Op(Top).do = "dispatch" /\ running' = FindNext(turn) /\ turn' = running'
      /\ SetTop(Frame("scheduler", TRUE)) /\ UNCHANGED <<holder, life, started>>
  BY DEF Dispatch
<1>2. running = Boot /\ Depth = 1 /\ Held(Top) = {} /\ OwnCode(Boot) = "scheduler"
  BY <1>1, BootOnTop
<1>3. started
  BY <1>2 DEF OwnCode
<1>4. \A t \in Thread : OwnCode(t)' = OwnCode(t)
  BY <1>1, OwnCodeKept
<1>5. Boot \in Thread /\ \A t \in Tid : t \in Thread
  BY DEF Thread
<1>6. /\ StacksOK' /\ frames' \in [Thread -> Seq(FrameType)]
      /\ \A t \in Thread : frames'[t] # <<>> <=> frames[t] # <<>>
  BY <1>1, <1>2, <1>4, <1>5, SchedulerStack
<1>7. running' \in Tid /\ life[running'] = "ready"
  BY <1>1, NextIsReady
<1>8. OtherTypes'
  BY <1>1, <1>5, <1>6, <1>7 DEF Core, OtherTypes
<1>9. Scheduling'
  BY <1>1, <1>3, <1>5, <1>6, <1>7 DEF Core, Scheduling
<1>10. Inside'
  BY <1>1, <1>2, SchedulerFrame, QuietTop
<1>11. SuspendedHoldsHeapOnly'
  <2> SUFFICES ASSUME NEW l \in Lock, holder[l] # Nobody
               PROVE  l = "ALLOCATOR" /\ holder[l] = <<KeyboardTid, 1>> /\ started
    BY <1>1 DEF SuspendedHoldsHeapOnly, Lock, Nobody, KeyboardTid
  <2>1. holder[l][1] = Boot \/ (l = "ALLOCATOR" /\ holder[l] = <<KeyboardTid, 1>>)
    BY <1>2 DEF Core, SuspendedHoldsHeapOnly
  <2>2. ASSUME holder[l][1] = Boot PROVE FALSE
    <3>1. PICK t \in Thread, d \in Nat : holder[l] = <<t, d>> /\ InFrame(t, d, l)
      BY DEF Core, Inside
    <3>2. t = Boot /\ d \in 1 .. Len(frames[Boot]) /\ l \in Held(frames[Boot][d])
      BY <3>1, <2>2, Somebody DEF InFrame
    <3>3. Len(frames[Boot]) = 1 /\ frames[Boot][1] = Top
      BY <1>2, RunningFacts
    <3> QED  BY <3>2, <3>3, <1>2
  <2> QED  BY <2>1, <2>2, <1>3
<1> QED  BY <1>6, <1>8, <1>9, <1>10, <1>11 DEF Core

\* A thread that yields holds at most the heap's lock, and only the keyboard's does.
LEMMA YieldsHolding ==
  ASSUME Core, Op(Top).do = "yield", NEW l \in Lock, holder[l] # Nobody, holder[l][1] = running
  PROVE  l = "ALLOCATOR" /\ holder[l] = <<KeyboardTid, 1>> /\ started
<1> DEFINE s == frames[running]  own == OwnCode(running)
<1>1. /\ running \in Thread /\ FrameOK(Top) /\ Top \in FrameType /\ s \in Seq(FrameType)
      /\ Top.pc <= Len(Code[Top.prog]) + 1 /\ Depth = Len(s) /\ Depth \in Nat /\ Depth >= 1
      /\ Top = s[Depth] /\ s # <<>> /\ StackOK(running, s, own)
      /\ Top.pc \in Nat \ {0}
  BY RunningFacts
<1>2. own \in OwnPrograms
  BY <1>1, OwnCodeIs
<1>3. Top.prog \in {"timer_kernel", "timer_user", "wait_yields"}
  BY <1>1, OpOf
<1>4. Held(Top) = {}
  <2>1. /\ Advanced(Top) \in FrameType /\ Advanced(Top).prog = Top.prog
        /\ Advanced(Top).pc = Top.pc + 1
    BY <1>1, AdvancedIs
  <2> QED  BY <2>1, <1>1, OpFacts
<1>5. PICK t \in Thread, d \in Nat : holder[l] = <<t, d>> /\ InFrame(t, d, l)
  BY DEF Core, Inside
<1>6. t = running /\ d \in 1 .. Len(s) /\ l \in Held(s[d])
  BY <1>5, Somebody DEF InFrame
<1> HIDE DEF s, own
<1>7. d # Len(s) /\ Len(s) # 1
  BY <1>1, <1>4, <1>6
<1>8. d = 1
  <2>1. ASSUME d # 1 PROVE FALSE
    <3>1. d \in 2 .. Len(s) - 1
      BY <2>1, <1>1, <1>6, <1>7
    <3> QED  BY <3>1, <1>1, <1>6, BetweenHolds
  <2> QED  BY <2>1
<1>9. running \in Tid
  <2>1. ASSUME running = Boot PROVE FALSE
    <3>1. Len(s) \in 2 .. Len(s)
      BY <1>1, <1>7, Heights
    <3> QED  BY <3>1, <2>1, <1>1, <1>3, AboveOwn
  <2> QED  BY <2>1, <1>1 DEF Thread
<1>10. Top.prog = "timer_kernel"
  <2>1. ASSUME Top.prog # "timer_kernel" PROVE FALSE
    <3>1. Top.prog \notin Handlers(running) /\ Top.prog \notin OwnPrograms
      BY <2>1, <1>3 DEF Handlers, OwnPrograms
    <3>2. Held(s[1]) = {}
      BY <3>1, <1>1, <1>2, QuietUnder
    <3> QED  BY <3>2, <1>6, <1>8
  <2> QED  BY <2>1
<1>11. "THREAD_TABLE" \notin Held(s[1])
  <2>1. running # Boot /\ TickWaits(s)
    <3>1. running # Boot
      BY <1>9 DEF Tid, Boot
    <3> QED  BY <3>1, <1>1 DEF StackOK
  <2>2. ASSUME "THREAD_TABLE" \in Held(s[1]) PROVE FALSE
    <3>1. \/ s[2].prog \in {"input", "key_warned"}
          \/ s[2].prog = "timer_kernel" /\ s[2].pc <= 7
      BY <2>1, <2>2, <1>1, <1>7 DEF TickWaits
    <3>2. CASE Len(s) = 2
      <4>1. s[2] = Top
        BY <3>2, <1>1
      <4>2. Top.pc <= 7
        BY <4>1, <3>1, <1>10
      <4>3. ~AtEnd(Top)
        BY <1>1, FrameFacts
      <4>4. Top.pc \in 1 .. Len(Code["timer_kernel"]) /\ Op(Top) = Code["timer_kernel"][Top.pc]
        BY <4>3, <1>1, <1>10, FrameFacts
      <4> QED  BY <4>2, <4>4, <1>1, TimerKernelAt
    <3>3. CASE Len(s) # 2
      <4>1. 2 \in 2 .. Len(s) - 1
        BY <3>3, <1>1, <1>7
      <4>2. \/ s[2].prog = "print_key"
            \/ s[2].prog \in {"timer_kernel", "timer_user"} /\ AtEnd(s[2])
        BY <4>1, <1>1, BetweenHolds
      <4>3. s[2].prog = "timer_kernel" /\ s[2].pc <= 7 /\ AtEnd(s[2])
        BY <3>1, <4>2
      <4>4. FrameOK(s[2])
        BY <4>1, <1>1 DEF StackOK
      <4>5. s[2].pc \in Nat /\ s[2].pc > 12
        BY <4>3, <4>4, TimerKernelAt DEF AtEnd, FrameOK, FrameType
      <4> QED  BY <4>3, <4>5
    <3> QED  BY <3>2, <3>3
  <2> QED  BY <2>2
<1>12. FrameOK(s[1]) /\ s[1].prog = OwnCode(running)
  <2>1. 1 \in 1 .. Len(s)
    BY <1>6, <1>8
  <2> QED  BY <2>1, <1>1 DEF StackOK, own
<1>13. l = "ALLOCATOR" /\ running = KeyboardTid
  BY <1>6, <1>8, <1>9, <1>11, <1>12, OwnHolds
<1>14. started
  BY <1>9 DEF Core, Scheduling, Tid, Boot
<1> QED  BY <1>5, <1>6, <1>8, <1>13, <1>14

\* A thread switches to the scheduler, with its guards dropped.
LEMMA YieldInv == Core /\ Yield => Core'
<1> SUFFICES ASSUME Core, Yield PROVE Core'
  OBVIOUS
<1> DEFINE g == Advanced(Top)
<1>1. /\ Op(Top).do = "yield" /\ running' = Boot /\ SetTop(g)
      /\ UNCHANGED <<holder, turn, life, started>>
  BY DEF Yield
<1>2. /\ running \in Thread /\ FrameOK(Top) /\ Top \in FrameType
      /\ Top.pc <= Len(Code[Top.prog]) + 1
  BY RunningFacts
<1>3. g \in FrameType /\ g.prog = Top.prog /\ g.pc = Top.pc + 1
  BY <1>2, AdvancedIs
<1>4. FrameOK(g)
  BY <1>1, <1>2, AdvanceOK
<1>5. Held(Top) = {} /\ Held(g) = {}
  BY <1>1, <1>2, <1>3, OpFacts
<1>6. StackOK(running, [frames[running] EXCEPT ![Len(frames[running])] = g], OwnCode(running))
  BY <1>1, <1>3, <1>4, GoesOn
<1>7. /\ frames' \in [Thread -> Seq(FrameType)]
      /\ \A t \in Thread : t # running => frames'[t] = frames[t]
      /\ frames'[running] = [frames[running] EXCEPT ![Len(frames[running])] = g]
      /\ \A t \in Thread : frames'[t] # <<>> <=> frames[t] # <<>>
  BY <1>1, <1>3, TopChanges
<1>8. StacksOK'
  BY <1>1, <1>2, <1>6, <1>7, OwnCodeKept, StacksKept DEF Core
<1>9. Boot \in Thread /\ \A t \in Tid : t \in Thread
  BY DEF Thread
<1>10. OtherTypes'
  BY <1>1, <1>7, <1>9 DEF Core, OtherTypes
<1>11. Scheduling'
  BY <1>1, <1>7, <1>9 DEF Core, Scheduling
<1>12. Inside'
  BY <1>1, <1>3, <1>5, QuietTop
<1>13. SuspendedHoldsHeapOnly'
  <2> SUFFICES ASSUME NEW l \in Lock, holder[l] # Nobody
               PROVE  l = "ALLOCATOR" /\ holder[l] = <<KeyboardTid, 1>> /\ started
    BY <1>1 DEF SuspendedHoldsHeapOnly, Lock, Nobody, KeyboardTid
  <2>1. holder[l][1] = running \/ (l = "ALLOCATOR" /\ holder[l] = <<KeyboardTid, 1>> /\ started)
    BY DEF Core, SuspendedHoldsHeapOnly
  <2> QED  BY <2>1, <1>1, YieldsHolding
<1> QED  BY <1>8, <1>10, <1>11, <1>12, <1>13 DEF Core

\* A thread leaves for ever, and holds no lock.
LEMMA ExitInv == Core /\ ExitThread => Core'
<1> SUFFICES ASSUME Core, ExitThread PROVE Core'
  OBVIOUS
<1> DEFINE s == frames[running]
<1>1. /\ Op(Top).do = "exit" /\ life' = [life EXCEPT ![running] = "zombie"]
      /\ frames' = [frames EXCEPT ![running] = <<>>] /\ running' = Boot
      /\ UNCHANGED <<holder, turn, started>>
  BY DEF ExitThread
<1>2. /\ running \in Thread /\ FrameOK(Top) /\ Top \in FrameType /\ s # <<>>
      /\ Top.pc <= Len(Code[Top.prog]) + 1 /\ Depth = Len(s) /\ Top = s[Depth]
      /\ StackOK(running, s, OwnCode(running))
  BY RunningFacts
<1>3. /\ life \in [Tid -> {"none", "ready", "zombie"}]
      /\ \A t \in Tid : (life[t] = "ready") = (frames[t] # <<>>)
      /\ life[KeyboardTid] = "ready" /\ frames[Boot] # <<>>
      /\ frames \in [Thread -> Seq(FrameType)]
  BY DEF Core, OtherTypes, Scheduling
<1> HIDE DEF s
<1>4. Top.prog \in {"timer_kills", "exit"}
  BY <1>1, <1>2, OpOf
<1>5. Top.prog \notin Handlers(running) /\ Top.prog \notin OwnPrograms
  BY <1>4 DEF Handlers, OwnPrograms
<1>6. OwnCode(running) \in OwnPrograms
  BY <1>2, OwnCodeIs
<1>7. Len(s) = 2 /\ running # Boot /\ s[2].prog \in Entered(running) /\ Held(s[1]) = {}
  BY <1>2, <1>5, <1>6, QuietUnder
<1>8. running # KeyboardTid /\ running \in Tid
  BY <1>2, <1>4, <1>7 DEF Entered, Thread
<1>9. Held(Top) = {}
  <2>1. /\ Advanced(Top) \in FrameType /\ Advanced(Top).prog = Top.prog
        /\ Advanced(Top).pc = Top.pc + 1
    BY <1>2, AdvancedIs
  <2> QED  BY <2>1, <1>1, <1>2, OpFacts
<1>10. \A l \in Lock, d \in Nat : ~InFrame(running, d, l)
  <2>1. \A d \in 1 .. Len(s) : d = 1 \/ d = 2
    BY <1>7
  <2>2. \A d \in 1 .. Len(s) : Held(s[d]) = {}
    BY <2>1, <1>2, <1>7, <1>9
  <2> QED  BY <2>2 DEF InFrame, s
<1> DEFINE empty == <<>>
<1>11. empty \in Seq(FrameType) /\ Len(empty) = 0
  OBVIOUS
<1>12. frames' = [frames EXCEPT ![running] = empty]
  BY <1>1
<1>13. StackOK(running, empty, OwnCode(running))
  <2>1. /\ \A d \in 1 .. Len(empty) : FrameOK(empty[d])
        /\ \A d \in 2 .. Len(empty) : Lies(running, empty, d)
    BY <1>11
  <2>2. TickWaits(empty) /\ Len(empty) <= MaxFrames
    BY <1>11, LocksAssumption DEF TickWaits
  <2> QED  BY <2>1, <2>2, <1>11 DEF StackOK
<1>14. empty = <<>>
  OBVIOUS
<1> HIDE DEF empty
<1>15. /\ frames' \in [Thread -> Seq(FrameType)] /\ frames'[running] = empty
       /\ \A t \in Thread : t # running => frames'[t] = frames[t]
  BY <1>2, <1>3, <1>11, <1>12
<1>16. Boot \in Thread /\ KeyboardTid \in Tid /\ \A t \in Tid : t \in Thread
  BY LocksAssumption DEF Thread, Tid, KeyboardTid
<1>17. StacksOK'
  BY <1>1, <1>2, <1>13, <1>15, OwnCodeKept, StacksKept DEF Core
<1>18. \A t \in Tid : life'[t] = IF t = running THEN "zombie" ELSE life[t]
  BY <1>1, <1>3
<1>19. OtherTypes'
  <2>1. life' \in [Tid -> {"none", "ready", "zombie"}]
    BY <1>1, <1>3
  <2>2. \A t \in Tid : (life'[t] = "ready") = (frames'[t] # <<>>)
    BY <1>3, <1>14, <1>15, <1>16, <1>18
  <2> QED  BY <2>1, <2>2, <1>1, <1>15, <1>16 DEF Core, OtherTypes
<1>20. Scheduling'
  BY <1>1, <1>3, <1>7, <1>8, <1>15, <1>16, <1>18 DEF Scheduling
<1>21. Inside'
  <2>1. ASSUME NEW t \in Thread, NEW l \in Lock, NEW d \in Nat
        PROVE  InFrame(t, d, l)' <=> InFrame(t, d, l)
    <3>1. CASE t = running
      BY <3>1, <1>10, <1>11, <1>15 DEF InFrame
    <3>2. CASE t # running
      BY <3>2, <1>15 DEF InFrame
    <3> QED  BY <3>1, <3>2
  <2> QED  BY <2>1, <1>1, InsideKept DEF Core
<1>22. SuspendedHoldsHeapOnly'
  <2> SUFFICES ASSUME NEW l \in Lock, holder[l] # Nobody
               PROVE  l = "ALLOCATOR" /\ holder[l] = <<KeyboardTid, 1>> /\ started
    BY <1>1 DEF SuspendedHoldsHeapOnly, Lock, Nobody, KeyboardTid
  <2>1. holder[l][1] = running \/ (l = "ALLOCATOR" /\ holder[l] = <<KeyboardTid, 1>> /\ started)
    BY DEF Core, SuspendedHoldsHeapOnly
  <2>2. ASSUME holder[l][1] = running PROVE FALSE
    <3>1. PICK t \in Thread, d \in Nat : holder[l] = <<t, d>> /\ InFrame(t, d, l)
      BY DEF Core, Inside
    <3> QED  BY <3>1, <2>2, <1>10, Somebody
  <2> QED  BY <2>1, <2>2
<1> QED  BY <1>17, <1>19, <1>20, <1>21, <1>22 DEF Core

-----------------------------------------------------------------------------
(* Steps that enter a frame or return from it                              *)

\* A frame that holds nothing is entered.
LEMMA PushInv ==
  ASSUME Core, NEW g, FrameOK(g), Held(g) = {}, Push(g),
         UNCHANGED <<holder, running, turn, life, started>>,
         StackOK(running, Append(frames[running], g), OwnCode(running))
  PROVE  Core'
<1> DEFINE s == frames[running]  r == Append(s, g)
<1>1. /\ running \in Thread /\ s \in Seq(FrameType) /\ s # <<>> /\ g \in FrameType
      /\ Len(s) \in Nat /\ frames \in [Thread -> Seq(FrameType)]
  BY RunningFacts DEF Core, OtherTypes, FrameOK
<1>2. frames' = [frames EXCEPT ![running] = r]
  BY DEF Push
<1>3. StackOK(running, r, OwnCode(running))
  OBVIOUS
<1> HIDE DEF s
<1>4. /\ r \in Seq(FrameType) /\ Len(r) = Len(s) + 1 /\ r[Len(s) + 1] = g /\ r # <<>>
      /\ \A d \in 1 .. Len(s) : r[d] = s[d]
  BY <1>1
<1> HIDE DEF r
<1>5. /\ frames' \in [Thread -> Seq(FrameType)]
      /\ \A t \in Thread : t # running => frames'[t] = frames[t]
      /\ frames'[running] = r
  BY <1>1, <1>2, <1>4
<1>6. \A t \in Thread : frames'[t] # <<>> <=> frames[t] # <<>>
  BY <1>1, <1>4, <1>5 DEF s
<1>7. StacksOK'
  BY <1>1, <1>3, <1>5, OwnCodeKept, StacksKept DEF Core
<1>8. OtherTypes' /\ Scheduling'
  <2>1. holder' \in [Lock -> {Nobody} \cup (Thread \X (1 .. MaxFrames))]
    BY DEF Core, OtherTypes
  <2> QED  BY <2>1, <1>5, <1>6, RestKept
<1>9. Inside'
  <2>1. ASSUME NEW t \in Thread, NEW l \in Lock, NEW d \in Nat
        PROVE  InFrame(t, d, l)' <=> InFrame(t, d, l)
    <3>1. CASE t # running
      BY <3>1, <1>5 DEF InFrame
    <3>2. CASE t = running /\ d = Len(s) + 1
      <4>1. d \notin 1 .. Len(s) /\ r[d] = g
        BY <3>2, <1>1, <1>4
      <4> QED  BY <4>1, <3>2, <1>5 DEF InFrame, s
    <3>3. CASE t = running /\ d # Len(s) + 1
      <4>1. d \in 1 .. Len(r) <=> d \in 1 .. Len(s)
        BY <3>3, <1>1, <1>4
      <4> QED  BY <4>1, <3>3, <1>4, <1>5 DEF InFrame, s
    <3> QED  BY <3>1, <3>2, <3>3
  <2> QED  BY <2>1, InsideKept DEF Core
<1>10. SuspendedHoldsHeapOnly'
  BY SuspendedKept DEF Core
<1> QED  BY <1>7, <1>8, <1>9, <1>10 DEF Core

\* An interrupt handler is entered on any frame that can be interrupted.
LEMMA HandleInv ==
  ASSUME Core, NEW handler \in Handlers(running), Handle(handler)
  PROVE  Core'
<1> DEFINE s == frames[running]  g == Frame(handler, TRUE)  own == OwnCode(running)
<1>1. /\ ~Top.masked /\ Depth < MaxFrames /\ Push(g)
      /\ UNCHANGED <<holder, running, turn, life, started>>
  BY DEF Handle
<1>2. /\ running \in Thread /\ s # <<>> /\ Depth = Len(s) /\ Top = s[Depth]
      /\ StackOK(running, s, own)
  BY RunningFacts
<1>3. FrameOK(g) /\ g.prog = handler /\ g.pc = 1 /\ Held(g) = {}
  <2>1. handler \in DOMAIN Code /\ handler \notin {"keyboard", "user"}
    BY DEF Handlers, Code
  <2> QED  BY <2>1, FrameIs
<1>4. running # Boot => handler \in {"timer_kernel", "input", "key_warned"}
  BY DEF Handlers
<1> HIDE DEF s, g, own
<1>5. StackOK(running, Append(s, g), own)
  BY <1>1, <1>2, <1>3, <1>4, StackPush
<1> QED  BY <1>1, <1>3, <1>5, PushInv DEF s, own

\* The other frames are entered at the gate of a thread's own code.
LEMMA EnterInv ==
  ASSUME Core, Op(Top).do \in {"user", "idle"}, NEW g, FrameOK(g), Held(g) = {},
         g.prog \in Entered(running), Push(g), UNCHANGED <<holder, running, turn, life, started>>
  PROVE  Core'
<1> DEFINE s == frames[running]  own == OwnCode(running)
<1>1. /\ running \in Thread /\ s # <<>> /\ Depth = Len(s) /\ Top = s[Depth]
      /\ StackOK(running, s, own) /\ FrameOK(Top) /\ Top \in FrameType
      /\ Top.pc <= Len(Code[Top.prog]) + 1
  BY RunningFacts
<1>2. Top.prog = IF Op(Top).do = "user" THEN "user" ELSE "keyboard"
  BY <1>1, OpOf
<1> HIDE DEF s
<1>3. Len(s) = 1 /\ Top.prog = own
  <2>1. Top.prog \in OwnPrograms
    BY <1>2 DEF OwnPrograms
  <2> QED  BY <2>1, <1>1, OwnOnTop
<1>4. running # Boot
  BY <1>1, <1>2, <1>3, OwnCodeIs
<1>5. running = KeyboardTid <=> own = "keyboard"
  <2>1. running \in Tid
    BY <1>1, <1>4 DEF Thread
  <2> QED  BY <2>1, <1>1, OwnCodeIs
<1>6. Op(s[1]).do = Gate(running)
  BY <1>1, <1>2, <1>3, <1>5 DEF Gate
<1>7. ~Top.masked
  BY <1>1, <1>2 DEF FrameOK
<1>8. Held(s[1]) = {}
  <2>1. /\ Advanced(Top) \in FrameType /\ Advanced(Top).prog = Top.prog
        /\ Advanced(Top).pc = Top.pc + 1
    BY <1>1, AdvancedIs
  <2>2. Held(Top) = {}
    BY <2>1, <1>1, OpFacts
  <2> QED  BY <2>2, <1>1, <1>3
<1>9. Len(s) < MaxFrames
  BY <1>3, LocksAssumption
<1> HIDE DEF own
<1>10. StackOK(running, Append(s, g), own)
  BY <1>1, <1>3, <1>4, <1>6, <1>7, <1>8, <1>9, StackPush
<1> QED  BY <1>10, PushInv DEF s, own

\* A program makes a system call.
LEMMA SyscallInv == Core /\ Syscall => Core'
<1> SUFFICES ASSUME Core, Syscall PROVE Core'
  OBVIOUS
<1>1. Op(Top).do = "user" /\ UNCHANGED <<holder, running, turn, life, started>>
  BY DEF Syscall
<1>2. PICK call \in Syscalls : Push(Frame(call, TRUE))
  BY DEF Syscall
<1>3. FrameOK(Frame(call, TRUE)) /\ Frame(call, TRUE).prog = call /\ Held(Frame(call, TRUE)) = {}
  <2>1. call \in DOMAIN Code /\ call \notin {"keyboard", "user"}
    BY DEF Syscalls, Code
  <2> QED  BY <2>1, FrameIs
<1>4. running # KeyboardTid
  <2>1. Top.prog = "user"
    BY <1>1, RunningFacts, OpOf
  <2>2. "user" = OwnCode(running)
    BY <2>1, RunningFacts, OwnOnTop DEF OwnPrograms
  <2>3. KeyboardTid \in Tid /\ KeyboardTid \in Thread
    BY LocksAssumption DEF Thread, Tid, KeyboardTid
  <2> QED  BY <2>2, <2>3, OwnCodeIs
<1>5. call \in Entered(running)
  BY <1>4 DEF Entered
<1> QED  BY <1>1, <1>2, <1>3, <1>5, EnterInv

\* The keyboard's thread prints a character.
LEMMA KeyInv == Core /\ KeyDecoded => Core'
<1> SUFFICES ASSUME Core, KeyDecoded PROVE Core'
  OBVIOUS
<1> DEFINE g == Frame("print_key", FALSE)
<1>1. Op(Top).do = "idle" /\ Push(g) /\ UNCHANGED <<holder, running, turn, life, started>>
  BY DEF KeyDecoded
<1>2. FrameOK(g) /\ g.prog = "print_key" /\ Held(g) = {}
  <2>1. "print_key" \in DOMAIN Code
    BY DEF Code
  <2> QED  BY <2>1, FrameIs
<1>3. running = KeyboardTid
  <2>1. Top.prog = "keyboard"
    BY <1>1, RunningFacts, OpOf
  <2>2. "keyboard" = OwnCode(running)
    BY <2>1, RunningFacts, OwnOnTop DEF OwnPrograms
  <2>3. running \in Thread
    BY RunningFacts
  <2> QED  BY <2>2, <2>3, OwnCodeIs DEF Thread
<1>4. g.prog \in Entered(running)
  BY <1>2, <1>3 DEF Entered
<1> HIDE DEF g
<1> QED  BY <1>1, <1>2, <1>4, EnterInv

\* The scheduler's loop is not interrupted.
LEMMA SchedulerAlone == Core /\ started /\ ~Top.masked => running # Boot
<1> SUFFICES ASSUME Core, started, ~Top.masked, running = Boot PROVE FALSE
  OBVIOUS
<1> DEFINE s == frames[running]
<1>1. /\ running \in Thread /\ s # <<>> /\ Depth = Len(s) /\ Top = s[Depth]
      /\ StackOK(running, s, OwnCode(running)) /\ FrameOK(Top) /\ Len(s) \in Nat /\ Len(s) >= 1
  BY RunningFacts
<1>2. OwnCode(running) = "scheduler"
  BY DEF OwnCode, Boot, KeyboardTid
<1> HIDE DEF s
<1>3. s[1].prog = "scheduler"
  BY <1>1, <1>2 DEF StackOK
<1>4. Interruptible(s[1])
  <2>1. CASE Len(s) = 1
    BY <2>1, <1>1 DEF FrameOK
  <2>2. CASE Len(s) # 1
    <3>1. 2 \in 2 .. Len(s) /\ 2 - 1 = 1
      BY <2>2, <1>1
    <3> QED  BY <3>1, <1>1, AboveOwn
  <2> QED  BY <2>1, <2>2
<1> QED  BY <1>3, <1>4 DEF Interruptible

\* A tick interrupts boot, the kernel's code or a program.
LEMMA TimerInv == Core /\ Timer => Core'
<1> SUFFICES ASSUME Core, Timer PROVE Core'
  OBVIOUS
<1>1. CASE ~started /\ Handle("timer_boot")
  <2>1. "timer_boot" \in Handlers(running)
    BY <1>1 DEF Core, Scheduling, Handlers
  <2> QED  BY <2>1, <1>1, HandleInv
<1>2. CASE started /\ Op(Top).do # "user" /\ Handle("timer_kernel")
  <2>1. running # Boot
    BY <1>2, SchedulerAlone DEF Handle
  <2>2. "timer_kernel" \in Handlers(running)
    BY <2>1 DEF Handlers
  <2> QED  BY <2>2, <1>2, HandleInv
<1>3. ASSUME NEW handler \in {"timer_user", "timer_kills"}, Op(Top).do = "user", Handle(handler)
      PROVE  Core'
  <2> DEFINE g == Frame(handler, TRUE)
  <2>1. Push(g) /\ UNCHANGED <<holder, running, turn, life, started>>
    BY <1>3 DEF Handle
  <2>2. FrameOK(g) /\ g.prog = handler /\ Held(g) = {}
    <3>1. handler \in DOMAIN Code /\ handler \notin {"keyboard", "user"}
      BY DEF Code
    <3> QED  BY <3>1, FrameIs
  <2>3. running # KeyboardTid
    <3>1. Top.prog = "user"
      BY <1>3, RunningFacts, OpOf
    <3>2. "user" = OwnCode(running)
      BY <3>1, RunningFacts, OwnOnTop DEF OwnPrograms
    <3>3. KeyboardTid \in Tid /\ KeyboardTid \in Thread
      BY LocksAssumption DEF Thread, Tid, KeyboardTid
    <3> QED  BY <3>2, <3>3, OwnCodeIs
  <2>4. g.prog \in Entered(running)
    BY <2>2, <2>3 DEF Entered
  <2> HIDE DEF g
  <2> QED  BY <2>1, <2>2, <2>4, <1>3, EnterInv
<1> QED  BY <1>1, <1>2, <1>3 DEF Timer

\* A device interrupts what can be interrupted.
LEMMA DeviceInv == Core /\ Device => Core'
<1>1. "input" \in Handlers(running) /\ "key_warned" \in Handlers(running)
  BY DEF Handlers
<1> QED  BY <1>1, HandleInv DEF Device

\* A frame that returns has given back everything.
LEMMA ReturnInv == Core /\ Return => Core'
<1> SUFFICES ASSUME Core, Return PROVE Core'
  OBVIOUS
<1> DEFINE s == frames[running]  r == SubSeq(s, 1, Len(s) - 1)
<1>1. /\ running \in Thread /\ s \in Seq(FrameType) /\ s # <<>> /\ Depth = Len(s)
      /\ Len(s) \in Nat /\ Len(s) >= 1 /\ Top = s[Depth] /\ Top \in FrameType
      /\ Top.pc <= Len(Code[Top.prog]) + 1 /\ StackOK(running, s, OwnCode(running))
      /\ frames \in [Thread -> Seq(FrameType)]
  BY RunningFacts DEF Core, OtherTypes
<1>2. /\ AtEnd(Top) /\ frames' = [frames EXCEPT ![running] = r]
      /\ UNCHANGED <<holder, running, turn, life, started>>
  BY <1>1 DEF Return
<1>3. Held(Top) = {}
  BY <1>1, <1>2, FrameFacts
<1> HIDE DEF s
<1>4. Len(s) >= 2
  <2>1. Len(s) # 1
    BY <1>1, <1>2 DEF StackOK
  <2> QED  BY <2>1, <1>1
<1>5. StackOK(running, r, OwnCode(running)) /\ Len(r) = Len(s) - 1
      /\ \A d \in 1 .. Len(s) - 1 : r[d] = s[d]
  BY <1>1, <1>4, StackPop
<1> HIDE DEF r
<1>6. r \in Seq(FrameType) /\ r # <<>>
  BY <1>1, <1>4, <1>5 DEF StackOK
<1>7. /\ frames' \in [Thread -> Seq(FrameType)]
      /\ \A t \in Thread : t # running => frames'[t] = frames[t]
      /\ frames'[running] = r
  BY <1>1, <1>2, <1>6
<1>8. \A t \in Thread : frames'[t] # <<>> <=> frames[t] # <<>>
  BY <1>1, <1>6, <1>7 DEF s
<1>9. StacksOK'
  BY <1>1, <1>2, <1>5, <1>7, OwnCodeKept, StacksKept DEF Core
<1>10. OtherTypes' /\ Scheduling'
  <2>1. holder' \in [Lock -> {Nobody} \cup (Thread \X (1 .. MaxFrames))]
    BY <1>2 DEF Core, OtherTypes
  <2> QED  BY <2>1, <1>2, <1>7, <1>8, RestKept
<1>11. Inside'
  <2>1. ASSUME NEW t \in Thread, NEW l \in Lock, NEW d \in Nat
        PROVE  InFrame(t, d, l)' <=> InFrame(t, d, l)
    <3>1. CASE t # running
      BY <3>1, <1>7 DEF InFrame
    <3>2. CASE t = running /\ d = Len(s)
      <4>1. d \notin 1 .. Len(r) /\ Held(s[d]) = {}
        BY <3>2, <1>1, <1>3, <1>5
      <4> QED  BY <4>1, <3>2, <1>7 DEF InFrame, s
    <3>3. CASE t = running /\ d # Len(s)
      <4>1. d \in 1 .. Len(r) <=> d \in 1 .. Len(s)
        BY <3>3, <1>1, <1>5
      <4>2. d \in 1 .. Len(r) => r[d] = s[d]
        BY <1>5
      <4> QED  BY <4>1, <4>2, <3>3, <1>7 DEF InFrame, s
    <3> QED  BY <3>1, <3>2, <3>3
  <2> QED  BY <2>1, <1>2, InsideKept DEF Core
<1>12. SuspendedHoldsHeapOnly'
  BY <1>2, SuspendedKept DEF Core
<1> QED  BY <1>9, <1>10, <1>11, <1>12 DEF Core

-----------------------------------------------------------------------------
(* The invariant of every run                                              *)

\* At first boot runs, and nobody holds a lock.
LEMMA InitCore == LocksInit => Core
<1> SUFFICES ASSUME LocksInit PROVE Core
  OBVIOUS
<1> DEFINE b == Frame("boot", TRUE)  k == Frame("keyboard", FALSE)  u == Frame("user", FALSE)
           B == <<b>>  K == <<k>>  U == <<u>>
<1>1. /\ FrameOK(b) /\ b.prog = "boot" /\ ~AtEnd(b) /\ Held(b) = {}
      /\ FrameOK(k) /\ k.prog = "keyboard" /\ ~AtEnd(k) /\ Held(k) = {}
      /\ FrameOK(u) /\ u.prog = "user" /\ ~AtEnd(u) /\ Held(u) = {}
  <2>1. "boot" \in DOMAIN Code /\ "keyboard" \in DOMAIN Code /\ "user" \in DOMAIN Code
    BY DEF Code
  <2> QED  BY <2>1, FrameIs DEF OwnPrograms
<1>2. /\ Boot \in Thread /\ KeyboardTid \in Tid /\ InitTid \in Tid /\ Boot \notin Tid
      /\ KeyboardTid # InitTid /\ \A t \in Tid : t \in Thread /\ t # Boot
  BY LocksAssumption DEF Thread, Tid, KeyboardTid, InitTid, Boot
<1>3. /\ frames = [t \in Thread |-> CASE t = Boot -> B [] t = KeyboardTid -> K
                                      [] t = InitTid -> U [] OTHER -> <<>>]
      /\ holder = [l \in Lock |-> Nobody] /\ running = Boot /\ turn = NTHREAD - 1
      /\ life = [t \in Tid |-> IF t \in {KeyboardTid, InitTid} THEN "ready" ELSE "none"]
      /\ started = FALSE
  BY DEF LocksInit
<1> HIDE DEF b, k, u
<1>4. /\ StackOK(Boot, B, "boot") /\ B # <<>> /\ Len(B) = 1 /\ B[1] = b /\ B \in Seq(FrameType)
      /\ StackOK(KeyboardTid, K, "keyboard") /\ K # <<>> /\ Len(K) = 1 /\ K[1] = k
      /\ K \in Seq(FrameType)
      /\ StackOK(InitTid, U, "user") /\ U # <<>> /\ Len(U) = 1 /\ U[1] = u
      /\ U \in Seq(FrameType)
  BY <1>1, <1>2, StackNew
<1> HIDE DEF B, K, U
<1>5. /\ frames[Boot] = B /\ frames[KeyboardTid] = K /\ frames[InitTid] = U
      /\ \A t \in Thread \ {Boot, KeyboardTid, InitTid} : frames[t] = <<>>
  <2>1. frames[Boot] = B
    BY <1>2, <1>3 DEF Boot, KeyboardTid, InitTid
  <2>2. frames[KeyboardTid] = K
    BY <1>2, <1>3 DEF Boot, KeyboardTid, InitTid
  <2>3. frames[InitTid] = U
    BY <1>2, <1>3 DEF Boot, KeyboardTid, InitTid
  <2>4. \A t \in Thread \ {Boot, KeyboardTid, InitTid} : frames[t] = <<>>
    BY <1>3
  <2> QED  BY <2>1, <2>2, <2>3, <2>4
<1> DEFINE empty == <<>>
<1>6. /\ empty \in Seq(FrameType) /\ Len(empty) = 0 /\ empty = <<>>
      /\ (\A d \in 1 .. Len(empty) : FrameOK(empty[d]))
  OBVIOUS
<1> HIDE DEF empty
<1>7. ASSUME NEW t \in Thread PROVE StackOK(t, empty, OwnCode(t))
  <2>1. (\A d \in 2 .. Len(empty) : Lies(t, empty, d)) /\ TickWaits(empty)
    BY <1>6 DEF TickWaits
  <2>2. Len(empty) <= MaxFrames
    BY <1>6, LocksAssumption
  <2> QED  BY <2>1, <2>2, <1>6 DEF StackOK
<1>8. StacksOK
  <2> SUFFICES ASSUME NEW t \in Thread PROVE StackOK(t, frames[t], OwnCode(t))
    BY DEF StacksOK
  <2>1. CASE t = Boot
    <3>1. OwnCode(Boot) = "boot"
      BY <1>3 DEF OwnCode, Boot, KeyboardTid
    <3> QED  BY <3>1, <2>1, <1>4, <1>5
  <2>2. CASE t = KeyboardTid
    <3>1. OwnCode(KeyboardTid) = "keyboard"
      BY DEF OwnCode, Boot, KeyboardTid
    <3> QED  BY <3>1, <2>2, <1>4, <1>5
  <2>3. CASE t = InitTid
    <3>1. OwnCode(InitTid) = "user"
      BY DEF OwnCode, Boot, KeyboardTid, InitTid
    <3> QED  BY <3>1, <2>3, <1>4, <1>5
  <2>4. CASE t \notin {Boot, KeyboardTid, InitTid}
    BY <2>4, <1>5, <1>6, <1>7
  <2> QED  BY <2>1, <2>2, <2>3, <2>4
<1>9. OtherTypes
  <2>1. frames \in [Thread -> Seq(FrameType)]
    <3>1. ASSUME NEW t \in Thread PROVE frames[t] \in Seq(FrameType)
      <4>1. CASE t \in {Boot, KeyboardTid, InitTid}
        BY <4>1, <1>4, <1>5
      <4>2. CASE t \notin {Boot, KeyboardTid, InitTid}
        <5>1. frames[t] = empty
          BY <4>2, <1>5, <1>6
        <5> QED  BY <5>1, <1>6
      <4> QED  BY <4>1, <4>2
    <3> QED  BY <3>1, <1>3
  <2>2. \A t \in Tid : life[t] = IF t \in {KeyboardTid, InitTid} THEN "ready" ELSE "none"
    BY <1>3
  <2>3. \A t \in Tid : (life[t] = "ready") = (frames[t] # <<>>)
    <3> SUFFICES ASSUME NEW t \in Tid PROVE (life[t] = "ready") = (frames[t] # <<>>)
      OBVIOUS
    <3>1. CASE t \in {KeyboardTid, InitTid}
      BY <3>1, <2>2, <1>4, <1>5
    <3>2. CASE t \notin {KeyboardTid, InitTid}
      BY <3>2, <2>2, <1>2, <1>5
    <3> QED  BY <3>1, <3>2
  <2>4. turn \in Tid
    BY <1>3, LocksAssumption DEF Tid
  <2>5. life \in [Tid -> {"none", "ready", "zombie"}]
    BY <1>3
  <2>6. holder \in [Lock -> {Nobody} \cup (Thread \X (1 .. MaxFrames))]
    BY <1>3
  <2> QED  BY <2>1, <2>3, <2>4, <2>5, <2>6, <1>2, <1>3 DEF OtherTypes
<1>10. Inside
  <2>1. ASSUME NEW t \in Thread, NEW l \in Lock, NEW d \in Nat PROVE ~InFrame(t, d, l)
    <3>1. \A e \in 1 .. Len(frames[t]) : Held(frames[t][e]) = {}
      <4>1. CASE t \in {Boot, KeyboardTid, InitTid}
        <5>1. Len(frames[t]) = 1 /\ Held(frames[t][1]) = {}
          BY <4>1, <1>1, <1>4, <1>5
        <5> QED  BY <5>1
      <4>2. CASE t \notin {Boot, KeyboardTid, InitTid}
        BY <4>2, <1>5, <1>6
      <4> QED  BY <4>1, <4>2
    <3> QED  BY <3>1 DEF InFrame
  <2> QED  BY <2>1, <1>3 DEF Inside
<1>11. Scheduling
  BY <1>2, <1>3, <1>4, <1>5 DEF Scheduling
<1>12. SuspendedHoldsHeapOnly
  BY <1>3 DEF SuspendedHoldsHeapOnly
<1> QED  BY <1>8, <1>9, <1>10, <1>11, <1>12 DEF Core

\* Every step keeps the invariant.
LEMMA StepCore == Core /\ [LocksNext]_lockVars => Core'
<1>1. Core /\ Step => Core'
  BY LockInv, UnlockInv, FlagInv, ReturnInv, StartInv, DispatchInv, YieldInv, ExitInv, SpawnInv,
     SearchInv, ReapInv DEF Step
<1>2. Core /\ LocksNext => Core'
  BY <1>1, SyscallInv, KeyInv, TimerInv, DeviceInv DEF LocksNext
<1>3. Core /\ UNCHANGED lockVars => Core'
  <2> SUFFICES ASSUME Core, UNCHANGED lockVars PROVE Core'
    OBVIOUS
  <2>1. UNCHANGED <<frames, holder, running, turn, life, started>>
    BY DEF lockVars
  <2>2. StacksOK'
    BY <2>1, OwnCodeKept DEF Core, StacksOK
  <2>3. OtherTypes' /\ Scheduling'
    BY <2>1 DEF Core, OtherTypes, Scheduling
  <2>4. Inside'
    <3>1. \A t \in Thread, l \in Lock : \A d \in Nat : InFrame(t, d, l)' <=> InFrame(t, d, l)
      BY <2>1 DEF InFrame
    <3> QED  BY <3>1, <2>1, InsideKept DEF Core
  <2>5. SuspendedHoldsHeapOnly'
    BY <2>1, SuspendedKept DEF Core
  <2> QED  BY <2>2, <2>3, <2>4, <2>5 DEF Core
<1> QED  BY <1>2, <1>3

\* The invariant of the locks: every lock is held by the one frame that is between taking
\* it and giving it back, frames lie on interruptible ones, and a thread that the processor
\* has left holds the heap's lock at most, and is then the keyboard's.
THEOREM LocksInvariance == LocksSpec => []LocksInv
<1>1. LocksSpec => []Core
  BY InitCore, StepCore, PTL DEF LocksSpec
<1> QED  BY <1>1, InvIsCore, PTL

\* on_yield, on_syscall_yield and the scheduler leave no lock held behind them, except the
\* heap's, in which the keyboard's thread may be interrupted.
THEOREM SuspendedHolding == LocksSpec => []SuspendedHoldsHeapOnly
<1>1. LocksInv => SuspendedHoldsHeapOnly
  BY DEF LocksInv
<1> QED  BY <1>1, LocksInvariance, PTL

\* What a handler wants that the code under it holds
LEMMA DeadlockFacts == Core => KnownDeadlocks
<1> SUFFICES ASSUME Core, Spins
             PROVE  Top.masked /\ (BootOutput \/ TrampolineTick \/ KeyboardHeap)
  BY DEF KnownDeadlocks
<1> DEFINE s == frames[running]  own == OwnCode(running)  L == Op(Top).lock
<1>1. /\ running \in Thread /\ FrameOK(Top) /\ Top \in FrameType /\ s \in Seq(FrameType)
      /\ Top.pc <= Len(Code[Top.prog]) + 1 /\ Depth = Len(s) /\ Depth \in Nat /\ Depth >= 1
      /\ Top = s[Depth] /\ s # <<>> /\ StackOK(running, s, own)
  BY RunningFacts
<1>2. Op(Top).do = "lock" /\ holder[L] # Nobody
  BY DEF Spins
<1>3. L \in Lock /\ L \in LocksOf(Top.prog) /\ L \notin Held(Top) /\ ~AtEnd(Top)
  <2>1. /\ Advanced(Top) \in FrameType /\ Advanced(Top).prog = Top.prog
        /\ Advanced(Top).pc = Top.pc + 1
    BY <1>1, AdvancedIs
  <2> QED  BY <2>1, <1>1, <1>2, OpFacts
<1> HIDE DEF L
<1>4. PICK t \in Thread, d \in Nat : holder[L] = <<t, d>> /\ InFrame(t, d, L)
  BY <1>2, <1>3 DEF Core, Inside
<1>5. ASSUME t # running
      PROVE  /\ L = "ALLOCATOR" /\ holder[L] = <<KeyboardTid, 1>> /\ started
             /\ running # KeyboardTid /\ KeyboardHeap
  <2>1. L = "ALLOCATOR" /\ holder[L] = <<KeyboardTid, 1>> /\ started
    <3>1. holder[L][1] # running
      BY <1>4, <1>5, Somebody
    <3>2. SuspendedHoldsHeapOnly
      BY DEF Core
    <3> QED  BY <3>1, <3>2, <1>2, <1>3 DEF SuspendedHoldsHeapOnly
  <2>2. running # KeyboardTid
    BY <2>1, <1>4, <1>5
  <2> QED  BY <2>1, <2>2 DEF KeyboardHeap, L
<1>6. ASSUME t = running PROVE BootOutput \/ TrampolineTick
  <2>1. d \in 1 .. Len(s) /\ L \in Held(s[d])
    BY <1>4, <1>6 DEF InFrame
  <2> HIDE DEF s, own
  <2>2. d # Len(s) /\ Len(s) # 1
    BY <1>1, <1>3, <2>1
  <2>3. d = 1
    <3>1. ASSUME d # 1 PROVE FALSE
      <4>1. d \in 2 .. Len(s) - 1
        BY <3>1, <2>1, <2>2, <1>1
      <4> QED  BY <4>1, <2>1, <1>1, BetweenHolds
    <3> QED  BY <3>1
  <2>4. L \in Held(s[1]) /\ holder[L] = <<running, 1>> /\ FrameOK(s[1]) /\ s[1].prog = own
    BY <2>1, <2>3, <1>1, <1>4, <1>6 DEF StackOK
  <2>5. /\ Top.prog \notin OwnPrograms /\ Interruptible(s[1])
        /\ running = Boot => Top.prog \in {"timer_boot", "input", "key_warned"}
    <3>1. Len(s) \in 2 .. Len(s) /\ 2 \in 2 .. Len(s) /\ 2 - 1 = 1
      BY <1>1, <2>2
    <3> QED  BY <3>1, <1>1, AboveOwn
  <2>6. CASE running = Boot
    <3>1. own \in {"boot", "scheduler"}
      BY <2>6, <1>1, OwnCodeIs DEF own
    <3>2. s[1].prog = "boot" /\ s[1].pc > 7
      BY <3>1, <2>4, <2>5, BootOpens DEF Interruptible
    <3>3. L \notin {"PICS", "TICKS"}
      <4>1. Code[s[1].prog] = BootCode
        BY <3>2 DEF Code
      <4>2. s[1].pc \in 8 .. Len(BootCode) + 1
        <5>1. s[1].pc \in Nat /\ s[1].pc <= Len(BootCode) + 1
          BY <4>1, <2>4 DEF FrameOK, FrameType
        <5>2. Len(BootCode) \in Nat
          BY <4>1, <2>4, FrameFacts DEF FrameOK
        <5> QED  BY <5>1, <5>2, <3>2
      <4>3. L \in HeldAt(BootCode, s[1].pc)
        BY <4>1, <2>4 DEF Held
      <4> QED  BY <4>2, <4>3, BootHeld
    <3>4. Top.prog = "key_warned" /\ L = "CONSOLE"
      BY <3>3, <2>5, <2>6, <1>3 DEF LocksOf
    <3> QED  BY <3>4, <2>4, <2>6 DEF BootOutput, L
  <2>7. CASE running # Boot
    <3>1. running \in Tid
      BY <2>7, <1>1 DEF Thread
    <3>2. Top.prog \in {"timer_kernel", "input", "key_warned"}
      <4>1. ASSUME Top.prog \notin Handlers(running) PROVE FALSE
        <5>1. own \in OwnPrograms
          BY <1>1, OwnCodeIs DEF own
        <5>2. Held(s[1]) = {}
          BY <5>1, <4>1, <2>5, <1>1, QuietUnder
        <5> QED  BY <5>2, <2>4
      <4> QED  BY <4>1, <2>7 DEF Handlers
    <3>3. /\ L \in {"THREAD_TABLE", "CPU", "ALLOCATOR"}
          /\ L = "CPU" => "THREAD_TABLE" \in Held(s[1])
      BY <3>1, <2>4, OwnHolds DEF own
    <3>4. Top.prog = "timer_kernel" /\ L \in {"THREAD_TABLE", "CPU"}
      BY <3>2, <3>3, <1>3 DEF LocksOf
    <3>5. ASSUME L = "CPU" PROVE FALSE
      <4>1. Top.pc \in 1 .. Len(Code["timer_kernel"]) /\ Op(Top) = Code["timer_kernel"][Top.pc]
        BY <3>4, <1>1, <1>3, FrameFacts
      <4>2. Code["timer_kernel"][Top.pc].do = "lock" /\ Code["timer_kernel"][Top.pc].lock = "CPU"
        BY <4>1, <3>5, <1>2 DEF L
      <4>3. Top.pc = 8
        BY <4>1, <4>2, TimerKernelAt
      <4>4. "THREAD_TABLE" \in Held(Top)
        BY <4>3, <3>4, TimerKernelAt DEF Held
      <4>5. InFrame(running, Depth, "THREAD_TABLE") /\ InFrame(running, 1, "THREAD_TABLE")
        <5>1. Depth \in 1 .. Len(s) /\ 1 \in 1 .. Len(s)
          BY <1>1
        <5> QED  BY <5>1, <4>4, <3>3, <3>5, <1>1 DEF InFrame, s
      <4>6. <<running, Depth>> = <<running, 1>>
        <5>1. "THREAD_TABLE" \in Lock /\ 1 \in Nat
          BY DEF Lock
        <5>2. /\ holder["THREAD_TABLE"] = <<running, Depth>>
              /\ holder["THREAD_TABLE"] = <<running, 1>>
          BY <5>1, <4>5, <1>1 DEF Core, Inside
        <5> QED  BY <5>2
      <4> QED  BY <4>6, <2>2, <1>1
    <3>6. L = "THREAD_TABLE"
      BY <3>4, <3>5
    <3> QED  BY <3>4, <3>6, <2>4 DEF TrampolineTick, L
  <2> QED  BY <2>6, <2>7
<1>7. ASSUME ~Top.masked PROVE FALSE
  <2>1. Interruptible(Top)
    BY <1>1, <1>7 DEF FrameOK
  <2>2. ~(Top.prog = "print_key" /\ Top.pc = 1)
    <3>1. ~AtEnd(Top) => Op(Top) = Code[Top.prog][Top.pc]
      BY <1>1, FrameFacts
    <3> QED  BY <3>1, <1>2, <1>3, PrintKeyAt
  <2>3. Top.prog \in {"boot", "keyboard", "user"}
    BY <2>1, <2>2, <1>3 DEF Interruptible
  <2> HIDE DEF s, own
  <2>4. Len(s) = 1 /\ Top.prog = own
    <3>1. Top.prog \in OwnPrograms
      BY <2>3 DEF OwnPrograms
    <3> QED  BY <3>1, <1>1, OwnOnTop
  <2>5. t # running
    <3>1. ASSUME t = running PROVE FALSE
      <4>1. d \in 1 .. Len(s) /\ L \in Held(s[d])
        BY <3>1, <1>4 DEF InFrame, s
      <4>2. d = Len(s)
        BY <4>1, <2>4
      <4> QED  BY <4>1, <4>2, <1>1, <1>3
    <3> QED  BY <3>1
  <2>6. L = "ALLOCATOR" /\ started /\ running # KeyboardTid
    BY <2>5, <1>5
  <2>7. running # Boot
    BY <2>6, <1>7, SchedulerAlone
  <2>8. Top.prog = "user"
    <3>1. running \in Tid
      BY <2>7, <1>1 DEF Thread
    <3> QED  BY <3>1, <2>4, <2>6, <1>1, OwnCodeIs DEF own
  <2> QED  BY <2>6, <2>8, <1>3 DEF LocksOf
<1>8. Top.masked
  <2>1. Top.masked \in BOOLEAN
    BY <1>1 DEF FrameType
  <2> QED  BY <2>1, <1>7
<1> QED  BY <1>5, <1>6, <1>8

\* A spin lock is found held in three cases, and the kernel hangs in each of them.
THEOREM LocksKnownDeadlocks == LocksSpec => []KnownDeadlocks
<1>1. LocksInv => KnownDeadlocks
  BY InvIsCore, DeadlockFacts
<1> QED  BY <1>1, LocksInvariance, PTL
=============================================================================
