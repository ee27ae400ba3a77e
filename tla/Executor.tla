------------------------------ MODULE Executor ------------------------------
(***************************************************************************)
(* The keyboard thread: an executor of two tasks, each of which reads what *)
(* an interrupt handler puts into its input queue.                         *)
(*                                                                         *)
(* The handlers run with interrupts off, so each is one action; they may   *)
(* strike between any two actions of the executor, whether the keyboard    *)
(* thread is running or preempted at the time. ArrayQueue and AtomicWaker  *)
(* are libraries: their operations are atomic. What a byte is and how it is*)
(* printed plays no part: an input queue is its length.                    *)
(***************************************************************************)
EXTENDS Integers, Sequences

CONSTANTS TASK_MAX,   \* capacity of the executor's task_queue
          QueueMax    \* capacity of SCANCODE_QUEUE and INPUT_QUEUE

ASSUME CapacityAssumption == /\ TASK_MAX \in Nat /\ TASK_MAX >= 2
                             /\ QueueMax \in Nat /\ QueueMax >= 1

VARIABLES input,       \* the number of bytes in each input queue
          opened,      \* is the queue initialised?
          waker,       \* does the stream's WAKER hold a waker?
          task_queue,  \* the tasks to poll
          pc,          \* where the executor is
          task         \* the task it popped last

vars == <<input, opened, waker, task_queue, pc, task>>

Keyboard == "keyboard"
Serial == "serial"
Inputs == {Keyboard, Serial}

Polling == {"poll", "register", "second pop", "take"}
Masked == {"check", "hlt"}   \* between interrupts::disable and the hlt
Place == Polling \cup Masked \cup {"loop", "disable", "halted", "panic"}

TypeOK ==
  /\ input \in [Inputs -> 0 .. QueueMax]
  /\ opened \in [Inputs -> BOOLEAN]
  /\ waker \in [Inputs -> BOOLEAN]
  /\ task_queue \in Seq(Inputs) /\ Len(task_queue) <= TASK_MAX
  /\ pc \in Place
  /\ task \in Inputs

\* The thread has spawned both tasks and enters run.
Init ==
  /\ input = [i \in Inputs |-> 0]
  /\ opened = [i \in Inputs |-> FALSE]
  /\ waker = [i \in Inputs |-> FALSE]
  /\ task_queue = <<Keyboard, Serial>>
  /\ pc = "loop"
  /\ task = Keyboard

-----------------------------------------------------------------------------
(* The executor                                                            *)

\* run_ready_tasks pops a task and polls it, or returns to run.
PopTask ==
  /\ pc = "loop"
  /\ UNCHANGED <<input, opened, waker>>
  /\ IF task_queue = <<>>
       THEN pc' = "disable" /\ UNCHANGED <<task_queue, task>>
       ELSE /\ pc' = "poll"
            /\ task' = Head(task_queue)
            /\ task_queue' = Tail(task_queue)

\* sleep_if_idle: interrupts::disable, the test, and hlt. sti and hlt are one
\* step, because sti takes effect after the instruction that follows it.
Disable ==
  /\ pc = "disable"
  /\ pc' = "check"
  /\ UNCHANGED <<input, opened, waker, task_queue, task>>

CheckIdle ==
  /\ pc = "check"
  /\ pc' = IF task_queue = <<>> THEN "hlt" ELSE "loop"
  /\ UNCHANGED <<input, opened, waker, task_queue, task>>

EnableAndHlt ==
  /\ pc = "hlt"
  /\ pc' = "halted"
  /\ UNCHANGED <<input, opened, waker, task_queue, task>>

-----------------------------------------------------------------------------
(* A task, while it is polled                                              *)

\* The first poll of a task begins with ScancodeStream::new.
OpenStream ==
  /\ pc = "poll" /\ ~opened[task]
  /\ opened' = [opened EXCEPT ![task] = TRUE]
  /\ UNCHANGED <<input, waker, task_queue, pc, task>>

\* The first pop of poll_next. A byte is printed and the next one asked for.
ReadsOneByte ==   \* mutant: one byte each time the task is woken
  /\ pc = "poll" /\ opened[task]
  /\ UNCHANGED <<opened, waker, task_queue, task>>
  /\ IF input[task] > 0
       THEN /\ input' = [input EXCEPT ![task] = @ - 1]
            /\ pc' = "loop"
       ELSE pc' = "register" /\ UNCHANGED input
FirstPop ==
  /\ pc = "poll" /\ opened[task]
  /\ UNCHANGED <<opened, waker, task_queue, task>>
  /\ IF input[task] > 0
       THEN /\ input' = [input EXCEPT ![task] = @ - 1]
            /\ UNCHANGED pc
       ELSE pc' = "register" /\ UNCHANGED input

Register ==
  /\ pc = "register"
  /\ waker' = [waker EXCEPT ![task] = TRUE]
  /\ pc' = "second pop"
  /\ UNCHANGED <<input, opened, task_queue, task>>

\* The second pop; without a byte the poll is Pending.
SecondPop ==
  /\ pc = "second pop"
  /\ UNCHANGED <<opened, waker, task_queue, task>>
  /\ IF input[task] > 0
       THEN /\ input' = [input EXCEPT ![task] = @ - 1]
            /\ pc' = "take"
       ELSE pc' = "loop" /\ UNCHANGED input

TakeWaker ==
  /\ pc = "take"
  /\ waker' = [waker EXCEPT ![task] = FALSE]
  /\ pc' = "poll"
  /\ UNCHANGED <<input, opened, task_queue, task>>

-----------------------------------------------------------------------------
(* The interrupt handlers                                                  *)

NeverMasked == pc # "panic"   \* mutant: sleep_if_idle leaves interrupts enabled
InterruptsOn == pc \notin Masked \cup {"panic"}

\* Where the executor goes on after an interrupt: hlt is over.
Resumed == IF pc = "halted" THEN "loop" ELSE pc

\* WAKER.wake, then wake_task, which expects room in task_queue.
WakesSleeper(i) ==   \* mutant: the task is queued only if the executor is asleep
  /\ waker' = [waker EXCEPT ![i] = FALSE]
  /\ pc' = Resumed
  /\ task_queue' = IF pc = "halted" THEN Append(task_queue, i) ELSE task_queue
Wake(i) ==
  IF waker[i]
    THEN /\ waker' = [waker EXCEPT ![i] = FALSE]
         /\ IF Len(task_queue) < TASK_MAX
              THEN task_queue' = Append(task_queue, i) /\ pc' = Resumed
              ELSE pc' = "panic" /\ UNCHANGED task_queue
    ELSE pc' = Resumed /\ UNCHANGED <<waker, task_queue>>

Enqueue(i) ==
  /\ input' = [input EXCEPT ![i] = @ + 1]
  /\ Wake(i)
Drop == pc' = Resumed /\ UNCHANGED <<input, waker, task_queue>>

\* add_scancode: a full queue drops the scancode.
AddScancode ==
  IF opened[Keyboard] /\ input[Keyboard] < QueueMax THEN Enqueue(Keyboard) ELSE Drop

\* add_byte: a full queue is a panic.
AddByte ==
  IF ~opened[Serial] THEN Drop
  ELSE IF input[Serial] < QueueMax THEN Enqueue(Serial)
  ELSE pc' = "panic" /\ UNCHANGED <<input, waker, task_queue>>

KeyboardInterrupt == InterruptsOn /\ AddScancode /\ UNCHANGED <<opened, task>>
SerialInterrupt == InterruptsOn /\ AddByte /\ UNCHANGED <<opened, task>>

\* Any other interrupt, the timer's above all, ends a hlt too.
OtherInterrupt ==
  /\ pc = "halted"
  /\ pc' = Resumed
  /\ UNCHANGED <<input, opened, waker, task_queue, task>>

-----------------------------------------------------------------------------
Run == \/ PopTask \/ Disable \/ CheckIdle \/ EnableAndHlt
       \/ OpenStream \/ FirstPop \/ Register \/ SecondPop \/ TakeWaker
Byte == KeyboardInterrupt \/ SerialInterrupt

Next == Run \/ Byte \/ OtherInterrupt

Spec == Init /\ [][Next]_vars

\* The keyboard thread is always Runnable (Kernel, KeyboardReady), and a
\* Runnable thread gets the processor again (Kernel, RunnableRuns).
FairSpec == Spec /\ WF_vars(Run)

-----------------------------------------------------------------------------
(* Safety                                                                  *)

Queued(i) == \E n \in 1 .. Len(task_queue) : task_queue[n] = i
Polled(i) == pc \in Polling /\ task = i

\* A byte in a queue has a reader: its task is being polled and will look at
\* the queue again before it is Pending, or it is queued to be polled. A byte
\* that comes between two steps of poll_next must not be forgotten.
NoLostWakeup ==
  pc # "panic" => \A i \in Inputs : input[i] > 0 => Queued(i) \/ Polled(i)

\* The processor is halted only with nothing to do: a wake-up between the test
\* of sleep_if_idle and its hlt must not be slept through.
SleepsOnlyWhenIdle ==
  pc = "halted" => task_queue = <<>> /\ \A i \in Inputs : input[i] = 0

-----------------------------------------------------------------------------
(* The inductive invariant: a task that will not look at its queue by      *)
(* itself can be woken, and has left its queue empty or been woken since.  *)

Armed == \A i \in Inputs : waker[i] \/ Queued(i) \/ Polled(i)
\* The waker that a poll registered is in place, or has queued its task.
Registered == pc = "second pop" => waker[task] \/ Queued(task)
IInv ==
  /\ TypeOK
  /\ pc # "panic" => Armed
  /\ Registered
  /\ NoLostWakeup
  /\ pc \in {"hlt", "halted"} => task_queue = <<>>

-----------------------------------------------------------------------------
(* Liveness                                                                *)

\* Once the devices fall silent, every byte that was accepted is read.
QuietDrains ==
  <>[][~Byte]_vars => <>(pc = "panic") \/ <>[](\A i \in Inputs : input[i] = 0)

-----------------------------------------------------------------------------
(* What the source says and does not do                                    *)

\* The push of wake_task expects room: task_queue holds 100 and there are two
\* tasks. But a poll can be woken many times before it is Pending, and each
\* time queues its task again.
TaskQueueHasRoom ==
  \A i \in Inputs : InterruptsOn /\ waker[i] /\ input[i] < QueueMax
                      => Len(task_queue) < TASK_MAX

=============================================================================
