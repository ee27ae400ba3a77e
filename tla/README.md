# A TLA+ model of the FerriOS kernel

FerriOS is a small x86-64 kernel in Rust: one processor, preemptive threads, user processes with
`fork`, `exec`, `exit`, `wait`, `kill` and `sbrk`, and an asynchronous executor for keyboard and
serial input. These modules describe it component by component: processes and their scheduling under a
timer that may strike wherever interrupts are enabled; the spin locks that such interrupts can meet; the
executor and the interrupt handlers that feed it; the frames, page tables and cached translations of user
memory; what `exec` builds from a program file and its arguments; the copies between kernel and user memory;
the kernel heap; and the screen. They say what the kernel relies on, check it with TLC on small
instances and prove all of the safety properties that hold with TLAPS for instances of any size.

## Inventory

Paths are relative to `src/kernel/src/`.

| Component | State | Operations | Interacts through | What makes it correct |
|---|---|---|---|---|
| Thread table `thread/` | `THREAD_TABLE`: state, pid, context, kernel stack, trap frame of each slot | `next_tid`, `create_user_thread`, `create_kernel_thread`, reset by `free_process` | the scheduler's choices, `exit`, `wait` | a slot is free, half-built, schedulable or a zombie, and its owner agrees; every thread has a kernel stack of its own |
| Process table `thread/uprocess/` | `PROCESS_TABLE`: `Option` of pid, parent, state, threads, page table, exit status, killed, heap size | `alloc_proc`, `fork`, `exit`, `wait`, `kill`, `free_process` | parents and children; the scheduler reads page tables | created once, exited once, reaped once and by the parent only; the status reaches the parent |
| Scheduler `scheduler/`, `cpu.rs` | `CPU`: current tid, scheduler context, saved user RSP, kernel RSP; CR3; GS | the loop, `on_yield`, `on_syscall_yield`, `switch_context` | timer interrupts and system calls | one Running thread, fairness, the right stack, page table and GS after every switch |
| System call path `syscall/` | kernel stack, trap frame, GS | entry, dispatch, killed tests, return; copies from and to user memory | everything above | a killed process does not return; every call returns where it came from; only what a process may access is copied |
| Interrupts `interrupts.rs` | tick count | timer, keyboard, serial, faults | scheduler, executor | a tick never meets a lock its own processor holds |
| Locks, all of `kernel/src` | ten spin locks, the interrupt flag | `lock`, drop of a guard, `without_interrupts` | every component | no lock is wanted, with interrupts off, that cannot come free |
| Trampolines `thread/uprocess/uthread.rs`, `thread/mod.rs` | none | first entry of a thread | locks, with interrupts enabled | the locks are released before a tick |
| Program loading `exec/` | new page table and stack | `prepare_exec_image`, `setup_user_stack`, `commit_exec` | process table, CPU, CR3, user library | all or nothing; the image is what the ELF file says, with its rights; the arguments arrive |
| User memory `memory/` | page tables, frames, heap sizes, TLB | `new_uvm`, `copy_uvm`, `alloc_uvm`, `dealloc_uvm`, `free_uvm`, `sbrk` | fork, exec, wait | no frame has two owners or none; failures leave nothing behind; no process reaches a frame it has given back |
| Heap `allocator/` | free lists by block size, fallback allocator | `alloc`, `dealloc` | every component; one spin lock | blocks are aligned and do not overlap, nothing is lost |
| Tasks `task/` | task map, ready queue, input queues, wakers | `spawn`, `run`, `sleep_if_idle`, `wake`, input handlers | keyboard and serial interrupts | no input is forgotten while the executor sleeps |
| Console `console/` | frame buffer, cursor | `write_str`, `scroll`, `write_char` | everything that prints; one spin lock | the screen shows the end of the text; the cursor stays on it |
| Boot `main.rs`, `libbackend/init.rs`, GDT | devices, constants | set-up, first threads | locks, interrupts | it reaches the scheduler |
| ABI, user library and programs | registers, user memory | `syscall`, `exec`, `args` | system calls | both sides agree on limits and layouts |

The hard parts are ordering and interleaving, and boundaries. One processor still interleaves: a tick can come at
any instruction of a user program, of a trampoline, of the keyboard thread or of the timer handler
itself. A system call runs with interrupts off, but `wait` gives the processor away in its middle,
with a copy of its process in a local variable, its stack pointer in a slot shared by all system
calls, and GS turned. A process may be killed at any of these points. The boundaries are those of pages, lines,
blocks and tables: nearly every copy in the kernel is cut at one, and most resources run out at one.
`PROJECT.json` lists the hazards with their lines.

## Modules

| Module | Models |
|---|---|
| `Tables` | the two tables, `CPU`, CR3 and GS; slot allocation; the records of new, freed and empty slots |
| `Scheduler` | `find_next_runnable_thread`, the scheduler loop, `on_yield`, `on_syscall_yield` |
| `Processes` | the bodies of `fork`, `exec`, `exit`, `wait`, `kill` and `free_process` |
| `Kernel` | who may do what, when: trampolines, timer, faults, system call entry, dispatch and return; `Init`, `Next`, fairness, the properties, the inductive invariant |
| `Lifecycle` | abstract: the life of processes that the process table implements |
| `KernelStacks` | `Kernel` with the kernel stack of each thread and the heap that provides it |
| `Locks` | what every piece of the kernel's code does to locks and the interrupt flag, boot included, under nested interrupts |
| `Executor` | the keyboard thread's executor, its two tasks, wakers and input queues, and the interrupt handlers |
| `UserMemory` | the frame allocator and what `fork`, `exec`, `sbrk`, `exit` and `wait` do to page tables |
| `Translations` | `UserMemory` with CR3 and the translations the processor has cached |
| `ExecImage` | `load_elf_segments`, the guard page, the stack and the start of the heap, byte by byte |
| `ExecArgs` | the arguments of `exec`, from the user library through the kernel to `args()` of the new program |
| `UserCopy` | `print_str`'s copy from, and `wait`'s copy to, the memory of a process |
| `FixedSizeBlock`, `Heap` | the kernel's allocator; abstract: what an allocator promises |
| `Screen`, `Terminal` | the scrolling writer on the frame buffer; abstract: the last lines of a text |
| `MC...` | the modules TLC runs, where values are not in the configuration |
| `KernelProofs` | `Kernel`: the inductive invariant, the safety theorems, round-robin; that it implements `Lifecycle`; the same with `KernelStacks`, and who has which stack |
| `MemoryProofs` | `UserMemory` and `Translations`: who owns a frame, who loses one, what is stale |
| `ExecImageProofs`, `ExecArgsProofs`, `CopyProofs` | `ExecImage`, `ExecArgs` and `UserCopy`: what arrives where, byte by byte |
| `InterruptProofs` | `Executor` and `Locks`: no wake-up is lost; who holds a lock where, and the three hangs |
| `FixedSizeBlockProofs`, `ScreenProofs` | that `FixedSizeBlock` implements `Heap` and `Screen` implements `Terminal`, the inductive invariants of both and what follows |

`Tables` <- `Scheduler` <- `Processes` <- `Kernel` <- `KernelStacks` and `UserMemory` <- `Translations` by EXTENDS;
`Kernel` instantiates `Lifecycle`, `FixedSizeBlock` `Heap`, `Screen` `Terminal`. The others stand beside
`Kernel` and detail what is one step or one value there: `Executor` rests on it through its fairness,
`UserMemory` has the frames behind `<<pid, n>>` and leaves to it who calls what when, `Locks` the locks inside
each step, `ExecImage`, `ExecArgs` and `UserCopy` the inside of system calls, which run without a break.

### Kernel: state and steps

`threads` and `procs` are the two tables. The fields of a thread are its state, its pid, `rsp3` of
its context, and two things the source keeps in a kernel stack: the place `at` where it goes on, and
`wait`'s copy of the killed flag. A process has one thread, since `add_thread` is called once per
process. `cpu` holds the current tid and the saved user RSP. `kernelGs` says whether GS holds the
kernel's base: a `swapgs` negates it. `mode` says who has the processor: the scheduler's loop
(`"scheduler"`), the current thread (`"run"`), or nobody, and why: a failed
assertion, a panic, a fault loop, or a spin on a lock the processor itself holds.
`timerExits` is a ghost: the parity of the exits that went through the timer handler.

Data is reduced to what the properties tell apart. A user stack pointer is the tid of the thread that last set
it. A page table is `<<pid, n>>`, the n-th address space of a process. Kernel
stacks are in `KernelStacks`: `kernel_syscall_rsp` and `TSS.rsp0` always belong to the thread dispatched last.

An action is what happens between two points where something else may happen. A system call is one
action from dispatch to its return path or to its yield, since interrupts are off. The scheduler's turn is
one action, and so is the timer handler up to its yield. In user mode, in a trampoline (before and
after it takes its locks), in the keyboard thread and at the end of the timer handler
(`on_yield` enables interrupts before it returns) another tick may come. Nested handlers are
one place, because each returns to the one it interrupted and the last to the same code. (`Locks` nests them.) User programs are arbitrary: any
system call at any time, or a fault. A failed `exec`, and the calls that change neither table,
are `SysOther`. `fork` has three outcomes: success, a full table, and a copy that fails after the
child's thread is in the table.

Every action runs the whole handler. `SysExit`, `KilledInSyscall` and `TimerKills` differ only in the
point from which the same `Exit` is reached; the timer gets there without a `swapgs`.

### Executor: state and steps

`input[i]` is the length of `SCANCODE_QUEUE` or of `INPUT_QUEUE`, `opened[i]` whether its `OnceCell` is
set, `waker[i]` whether its `WAKER` holds a waker. `task_queue` holds the tasks to poll. `pc` is the
executor's place between two operations on shared state: in `run_ready_tasks`, in the four
steps of `poll_next` (pop, register, second pop, take), or in `sleep_if_idle`. A handler runs with
interrupts off and is one action. It may come between any two steps, except between
`interrupts::disable` and the `hlt`, which takes effect together with the `sti` before it.
`ArrayQueue` and `AtomicWaker` are libraries. Their operations are taken to be atomic, as their
documentation promises. Every interrupt ends a `hlt`, the timer's too.

### UserMemory: state and steps

`free` is the allocator's stack of free frames. `space[p]` maps the uses of an address space (the root,
a table per region, the pages) to frames; `heap[p]` is `heap_size`, `stage[p]` how far `p` has come.
Each system call is one action, because interrupts are off and the allocator's lock is held.
A failure is an action of its own where it loses frames (`ForkFails`, `ExecFails`) and an outcome
where it is undone (`SbrkGrow`, through `Rollback`). The loop of `alloc_uvm` is a recursive function over
the pages, so that it may fail at any page, for want of a frame for the page or for its table.
The three table levels below the root are one level. Contents and flags are in `ExecImage`, the TLB in `Translations`, and the guard
page and the stack are one page. `sbrk` with a negative size is both of the things a build can do:
`SbrkOverflows` where arithmetic is checked, `SbrkShrink` where it wraps. Neither `fork` nor `exec` checks in
advance that the frames suffice: when they run out, all the remaining ones have been taken, and what has been built is
forgotten.

### KernelStacks and Translations: what extends the two

`KernelStacks` adds `kstack[t]`, the stack of each thread, and `taken`, those the heap has given out; a `fork` allocates one
(`ForkWithStack`), the reset of a thread in `wait` gives it back (`WaitFreesStack`), every other action of `Kernel`
keeps both. An allocation that fails returns null, which nobody tests: the trap frame is then written at an unmapped
address (`ForkWithoutStack`, a page fault in the kernel). The pid is chosen before the thread is made, so a full process
table refuses a fork first.

`Translations` adds `cur`, the process whose page table CR3 holds, and `tlb`, a page it has touched with the frame it
found: cached translations have no effect on each other, so it is enough to follow any one of them. A write to CR3 empties it (no user page is global): the scheduler's switch, the yield, `exec`, `exit`. Nothing
that maps or unmaps a page of the running process flushes it: `alloc_uvm`, its rollback and `dealloc_uvm` write entries only. (`map_page` does flush, `memory/va.rs:162-166`, but only `exec` calls it, for
addresses of a table that is not yet in use.) `shrunk` is a ghost. A real processor may drop entries at any time, and a flush only drops some; the model keeps
them, which is the worst case, and does not cache what nobody touches.

### Locks: state and steps

A piece of code is the sequence of what it does to locks and to the interrupt flag, written with `Holding(l, body)` for a guard
and its block and `Take(l)` for a guard dropped at once: `Code` has one entry for boot, the scheduler's loop, a
trampoline with what follows it, every interrupt handler and every system call. Branches that take no other
locks are not told apart: the line printed under `FRAME_ALLOCATOR` when a copy fails (`syscall/mod.rs:190`, `263`) is on the one path of
`PrintStr` and of `CopyToUser`. A thread is a stack of `frames`; a tick or a device
pushes a frame wherever the top one has interrupts enabled, and `Step` executes one element of the top frame. `holder[l]` is
the thread and frame that hold a lock. `Spins` is a top frame that wants a held lock, `Stuck` one that does with interrupts off. What the code computes is
left out: any thread may call anything, and `wait` may find, wait or fail, as long as there is a
zombie to find. The locks of the serial port and the frame buffer are only taken under `CONSOLE`'s.
`HeldAt(code, pc)` are the locks that a piece of code holds before its `pc`-th operation. In those terms the invariant says who
holds a lock (`HoldersAreInside`), which frames can lie on which (`Nesting`), which code runs with
interrupts enabled (`Masking`) and how far a tick in a trampoline can come (`TicksWait`).

### ExecImage and ExecArgs: state and steps

`ExecImage` loads a file given by its program headers. `pc` is the loop that runs: `headers`, `map` (`ensure_user_page_mapping`
over the pages of a segment), `zero` and `copy` (both cut at page boundaries), `stack`. `pages` has for every mapped page its bytes and
the WRITABLE and USER flags of the entry, `tables` the flags of the entries for the tables above it, since the processor asks them all: a page table, a page
directory and a page directory pointer table (`Above`), the three levels below the root. Two functions of the code build them, and differ. `map_to`, which `map_page`
calls, raises the flags of all three to those of the page (`MapTo`); `walk_pagetable`, which `alloc_uvm` calls, makes a missing table with all rights and leaves one that is there as it is
(`SbrkGrow`).
Byte `k` of the file is `k + 1`, so memory that was cleared or comes from elsewhere is told apart. After the image is `ready`, `sbrk`
grows the heap above it, page by page until one is in the way. Frames never run out here: that is `UserMemory`'s.

`ExecArgs` follows an argument list through the library's buffers on the caller's stack (`LibraryCalls`), the kernel's copy
(`CopyArg` until the null pointer), the stack of the new program (`PushArg`, `PushArgv`, `PushFrame`) and
`args()`, which is what the properties read. Every byte of the stack says what it is: a character, NUL, the k-th byte of a word,
or what the frame held before. Calls that fail in between (`PrepareFails`) leave the program as it was.

### UserCopy: state and steps

One process, its memory `mem` and what each page allows; its children exit at any time it is not in the middle of a
call. `print_str` copies in, `wait` reaps and then copies out, one chunk of one page at a time. `ret` and `printed` are what the latest call left.

`access` says what the code finds for the addresses of a page, and no pointer is too high to be asked for, because the code compares none with the end of user space:
- a page of the process may be `"unmapped"`, the `"kernel"`'s (the guard page), `"read"` or `"write"`; or `"shut"`, with a writable entry below a
  table that is not, as `ExecImage` shows them to arise. `copy_to_user` asks only the entry (`syscall/mod.rs:267-276`) and writes there, the process could not.
- The page `UserTop` stands for what follows user space, which is `"unmapped"` or not canonical, a `"hole"`: `VirtAddr::new` panics.
- The pages above are in the kernel's half, the `"kernel"`'s or in the `"window"` of physical memory (`BOOTLOADER_CONFIG`, `lib.rs:33`). The bootloader maps it with large pages; that is
  outside `src/`. `walk_pagetable` does not look at `HUGE_PAGE`: it takes such a page for a table of pages, and some word of memory for the entry. The word may be anything,
  so the outcome is a choice: the copy is refused, or the kernel stops on a page fault or in `VirtAddr::new` (`Stop`), or it goes on with some other frame. A read then brings
  bytes of anybody (`Stray`, `ReadAstray`). A write (`WriteAstray`) changes a page of the process itself, or a frame the model does not have, or a page table or the kernel, after which nothing is known: `pc` is
  `"astray"` and the behaviour ends.
- The first page is nobody's, and the last is not mapped for a user: `ptr + copied` never wraps (`PageKinds`).

### FixedSizeBlock and Screen: state and steps

`lists[s]` are the free blocks of size `s`, `fallback` the free words of `linked_list_allocator`, an external crate, which
hands out the first words that fit; `live` what has been allocated and not freed. Sizes are in words of 8 bytes, the smallest block. `peak` is a
ghost. An allocation that fails changes nothing. `Heap` has only `live`: aligned, inside, apart.

`buffer` is the frame buffer as a flat array, as the code indexes it, `x_pos` and `y_pos` the cursor in pixels. A lit pixel names its glyph
and its place in it. `WriteChar` is one turn of `write_str`'s loop: the two tests, with their scrolls, and `write_char`. (The
first test, for a cursor below the last line, is never true: `TypeOK`.) `Terminal` has only lines and a column; the refinement mapping reads the
characters off the pixels, and a cell that shows no glyph is `"garbled"`.

## Runs

| Run | Instance | States | Shows |
|---|---|---|---|
| `kernel` | 6 threads, 4 processes, 4 kernel stacks, 1 exec each | 88,085 | all safety invariants, as `IInv` and by themselves, round-robin, what failed forks and exits leave behind, who has which kernel stack and when there is none, and that the process table implements `Lifecycle` |
| `liveness` | 4 threads, 4 processes, 1 exec each | 4,145 | `RunnableRuns`, `WaitReturns`, `KilledDies` |
| `locks` | 3 threads, 3 frames | 64,478 | the three ways to hang and no other; who may be suspended with a lock; boot ends; a heap lock kept by a preempted thread comes free |
| `executor` | `task_queue` of 4, input queues of 3 | 5,828 | no lost wake-up, no sleep on work, `IInv`, `QuietDrains` |
| `user_memory` | 3 processes, 16 frames, 6 pages of 2 bytes, 2 pages to a table, images of 2 pages, `sbrk` of up to 4 | 103,775 | `MemoryInv`, which steps may lose frames, what a growth does, and who can reach a frame that has been given back |
| `exec_image` | 54 pages of 2 bytes, 3 entries to a table of each of 3 levels, stack of 2, files of 3 bytes with up to 2 of 337 headers | 769,619 | the image, the rights, the guard page and the heap, writable just where the tables allow it |
| `exec_args` | limits of 3 arguments and 8 bytes, 88 argument lists | 8,921 | the arguments arrive, the stack is aligned and large enough |
| `user_copy` | 6 pages of 2 bytes (the first, two of a user, one after them, one of the kernel's half, the last), statuses of 2, texts of up to 3, 2 children | 2,850,290 | what is written, printed and told, whatever the pages allow and wherever the pointer leads |
| `heap` | 8 words, blocks of 1, 2 and 4 | 169,927 | no overlap, no loss, `Heap` is implemented |
| `screen` | 5 by 7 pixels, stride 6, glyphs of 2 by 2 | 1,183 | only glyphs are lit, `Terminal` is implemented |
| `scheduler_gs`, `task_queue` | 5 and 4 threads and processes; as `executor` | | two statements of the source that do not hold (below) |

**Bounds.** Slots are never scanned to the end of a table (both loops stop at `N - 1`), so six threads are
the keyboard's, init's and three more, and four processes are init and two others: a child and its sibling or its own child, in every relative
order, next to the threads that failed forks leave behind. Either table can be the first to run full, and so can the heap: it has fewer
stacks than there are threads, and more than boot needs, so that failed forks have to use them up first. A thread's slot and its stack are used again, under another pid. Pids are never
reused, so the run is finite without a bound on forks. `MaxExec` bounds the address spaces of a process; one exec
suffices to tell an old page table from a new one. For liveness four slots leave one child at a time and two in succession.

In `Locks` no piece of code wants more than one thread besides its own: three threads are the keyboard's, init's and a child's, which is
created, killed and reaped. `MaxFrames` of 3 nests a handler in a handler (only the end of a timer handler may be interrupted, and what
interrupts it repeats itself there) or a handler in the keyboard thread's output.

In `Executor` a `task_queue` of 4 can hold each task twice or one task several times, and a queue of 3 can be
empty, partly full and full; nothing else is bounded. Both queues hold 100 in the source.
In `UserMemory` an image with its stack takes 5 frames or a few more after `sbrk`, so 16 frames hold three
spaces and run out in the middle of a fork, of an exec or of a growing heap. Two pages to a table
let one `sbrk` fill a table, start the next, or fail between the page and its table; an `sbrk` of 4 bytes
spans two pages and starts at any offset. `MaxSbrk` is a bound of the model, and `MemoryAssumption` keeps the heap
below the stack. `VIEW TransShape` identifies states that differ only in which frame serves what: no
step and no property tells frames apart, so such states have alike successors as long as every frame has one owner. Whether
that is so, `SingleOwner`, is part of the view, and so are the page that is cached and whether what is cached is still true (`Coherent`).

In `ExecImage` segments begin at every offset of a page and of the file, span up to three pages, are empty, shorter in the file than in memory, truncated,
or in the way of the stack, and `MaxHeaders` of 2 lets them share pages, overlap and come in any order. 54 pages with three entries to a table fill two tables of the topmost level: segments lie across
the border of two tables of pages, of two directories and of the two topmost ones, and end at one, so that the heap lies in tables of the image, in new ones of the image's directories, and in some of its own. In
`ExecArgs` the lengths are 0, one less than a word, a word and one more, which are also below, at and above the limit of 8; so are the numbers of
arguments. In `UserCopy` a text or a status of two or three bytes is in one page or crosses one boundary (a text of three may fill a page and touch the next, from either side), between pages of a user, from a user's to what follows, and in the kernel's half; none crosses
two, as 256 bytes in pages of 4096 cannot. Every combination of rights is one of the 100 initial states; `PrintLimit` stands for 256. Two values stand for the bytes of other frames, one of them text.
In `FixedSizeBlock` eight words and three sizes fill the heap in every mixture of blocks, padded blocks and large allocations. In `Screen` the width, the height and the
stride leave a rest each, and three lines scroll after four; one character has no glyph.

**Fairness.** `WF(Next)`: the processor goes on. `SF(Timer)`: the interval timer raises its
interrupt for ever, and one raised while interrupts are off is taken once they are on. `SF` of a
trampoline's and of the timer handler's last instructions: a thread that is given the processor again and again
gets past them, because they are a few instructions in a period of many thousands. Nothing is assumed
of user programs: they may compute for ever, fault, or never call `wait`. `Executor` assumes `WF(Run)`:
the keyboard thread goes on. It is always Runnable (`KeyboardReady`, proved in `Kernel`), and
a Runnable thread runs again (`RunnableRuns`). Devices owe nothing. `Locks` assumes `WF(Step)`, `SF(Timer)` for the same reasons, and `SF` of the
steps of boot and of the keyboard thread that may be interrupted: a handler is shorter than the time between two ticks and between two keys. All liveness properties
exempt a kernel that has stopped or hangs, since a page fault in a user program, a bad pointer
passed to `exec` or a tick in a trampoline does stop it.

**Properties worth a word.**
- `OneRunning`, `SelfChecksHold`: the scheduler marks the next thread Running and then demotes
  the previous one if it is still Running. If both were the same, the kernel would run a
  Runnable thread and fail its own assertion at the next tick. It never happens,
  because two threads are always ready: the keyboard's, and init's, which cannot exit.
- `TablesAgree` (with `OneRunning` a part of `IInv`): `fork`, `exit` and `free_process` touch the tables in separate critical sections.
- `OwnStack`: while a parent is suspended in `wait`, other system calls overwrite `saved_user_rsp`.
- `OwnAddressSpace`: through preemption, yields, exec and the freeing of other processes' tables.
- `GsByParity`: exactly how wrong GS gets.
- `RoundRobin`: each choice brings the scan closer to every other runnable thread, so
  it waits for at most `NTHREAD - 1` choices.
- `ImplementsLifecycle`: an abstract specification over two variables, under the refinement mapping
  `life <- StageOf(procs[p].state)`, `parent <- procs[p].ppid`. A pid whose slot had been
  emptied without being freed would be an abstract step that does not exist.
- `LeftForGood`: what a failed `fork` leaves in the thread table, the children of a process that has exited, and the slots of those that were
  reaped, stay as they are whatever happens. The source says of the second that handing them to init is still to be done.
- `StacksSuffice`: the heap need only hold a stack for every slot of the process table, unless failed forks keep some.
- `KnownDeadlocks`: a lock is found held only where the kernel hangs on it, in one of three ways. On one processor
  the locks never make anybody wait: either they are free or they never will be. Every other order of acquisition is safe, since
  code that is interrupted holds no lock but the three named. `SuspendedHoldsHeapOnly`, a part of `LocksInv`, is the reason: no guard outlives a switch.
- `NoLostWakeup` (a part of `IInv`): a byte may come between any two steps of `poll_next`. It is the second pop, after the
  registration, that makes this hold.
- `QuietDrains` speaks of devices that fall silent. It has to: a poll ends only when its queue is empty, so
  a queue that is filled as fast as it is read starves the other task for ever.
- `LostByCopiesOnly`: `sbrk`, its rollback included, and `wait` lose no frame. `exec` always does, since it
  forgets the old address space, and a `fork` or `exec` that fails loses every frame that was left.
- `GrowsWhollyOrNot`: `sbrk` maps all that it was asked for or nothing, and nothing at all once the heap has grown.
- `MemoryInv`: `SingleOwner`, that no frame is free and in use or in use twice; `Reachable`, that `free_uvm` finds all; `ActiveIsOwned`, that the page table in use is not free.
- `StaleAfterShrinkOnly`: the missing flush matters only after a shrink, which the checked build does not get to; not after a
  rollback, because the pages it unmaps have not been touched.
- `ImageIsFile` compares memory with a definition over the headers, `ByteAt`; `Rights`, with `StackGuarded` a part of `ImageInv`, says exactly which pages a program can write.
- `HeapIsOpen`: where the heap is and that it has no holes; and that it can be written just where every table above it allows it (`TablesAllow`), which a new table of pages alone does not bring about.
- `StatusToldOrLost`: what `wait` does to a status when some page for it is missing or not writable, and which bytes of it are in memory then.
- `WritesStatusOnly`, `PrintsOwnText`: what a copy may touch. Both say where the code promises less than one would like: a status is written below a read-only table, and a pointer into the window writes and prints what is not the process's.
- `ArgsArrive`: the arguments, each whole, and the alignment that main's prologue relies on.
- `NoSpareBlocks`: blocks never go back to the fallback, but the lists hold no more of a size than was once in use.

## What the source says and does not do

- **GS after a kill** (`scheduler_gs`). `on_syscall_yield` undoes the `swapgs` of the system call
  entry. A killed process that exits from the timer handler reaches it without one, so the scheduler
  runs with the kernel's GS. The next system call of any process then stores through the user's GS.
- **The task queue can overflow** (`task_queue`). `wake_task` expects room. A task is queued once for each byte
  that comes between its registration and its second pop, and one poll may go round many times. With
  100 entries it takes about that many such arrivals in one poll; the panic is in an interrupt handler.

Two runs show these two. Other statements of the source that do not hold are consequences of properties that do:
- **init's exit returns.** `exit` is commented as never returning (`thread/uprocess/syscalls.rs:153`); for init it
  returns an error and its caller panics: a mode of the model, `"exit returned"`, which `ImplementsLifecycle` exempts, since init never exits in it. `kill(0)` is enough.
- **The process table fills up.** `free_process` leaves `Some(Unused)`, `next_pid` looks for
  `None`: no pid is ever used twice (`LeftForGood`), and "Process table is full" (`thread/uprocess/mod.rs:151`) comes although nothing is in it.
- **wait does not see a kill.** The flag `wait` tests (`thread/uprocess/syscalls.rs:204`) is in a copy
  taken before its loop. A process killed while it waits for a child that never exits stays for ever. A part of
  `IInv`, `WaitTestIsDead`, says that this test never succeeds at all, and `KilledDies` has to except those that wait.
- **A full serial queue is a panic** (`task/serial_input.rs:15`), where a full scancode queue drops the scancode.
- **sbrk does not move the break.** `grow_process_heap` is handed a copy of the process (`memory/syscalls.rs:13`), so
  `heap_size` stays, and the next `sbrk` asks for a page that is already mapped and fails (`GrowsWhollyOrNot`, its last part).
- **A negative sbrk** overflows a `usize` addition (`memory/umem.rs:380`): a panic in the dev profile (`SbrkOverflows`).
- **A key pressed during boot.** Boot sets up the console under its lock with interrupts enabled (`console/mod.rs:68`); a
  key then makes the handler print a warning, because the scancode queue does not exist yet, and it spins for ever (`BootOutput` in `KnownDeadlocks`).
- **Arguments at the limit.** 16 arguments, or one of 256 bytes, pass the user library and make `sys_exec` panic: with the
  same numbers on both sides the kernel needs one more for the NUL and for the null pointer (`PanicsAtLimit`).

Seen while modelling, without a statement of the source to contradict:
- A system call that wants the heap while the preempted keyboard thread holds its lock hangs the kernel, and so does a tick
  in a trampoline (both are parts of `KnownDeadlocks`).
- A page that a read-only segment has mapped first is made writable in its own entry only, not in the tables above. A writable
  segment that lies wholly on such pages is not writable, nor is a heap below such tables, not even in a table of pages that `sbrk` makes: `walk_pagetable` leaves those above it as they are. `sbrk` succeeds then, and the
  first write to the heap is a page fault (`Rights`, `HeapIsOpen`, `TablesAllow`). The linker scripts
  of the programs align sections to pages, and none of them is laid out like that.
- A negative text length panics in `Vec::with_capacity`, and an address that is not canonical in `VirtAddr::new` (`StopsKnown`).
- The copies of a system call test neither that a pointer is below the end of user space nor `HUGE_PAGE`; for one into the window of physical memory they may take any frame for the process's (`ReadAstray`, `WriteAstray`). The tests of
  the pages themselves do not make up for it, since the word they look at is not an entry. `copy_to_user` also asks the entry alone whether a page is writable, not the tables above.
- The user library's `syscall` does not declare `r8` to `r10`, which the dispatcher may change, as clobbered.
- The frame of a system call is 12 words, a `TrapFrame` 14 (`syscall/mod.rs:49`, `thread/trapframe.rs:3`): `fork`, and the copy that `exec` keeps, read two words above the top of
  the kernel stack.

## Proofs

Assumptions: `SizesAssumption` (three threads and two processes at least, as boot needs),
`NoneAssumption` (`None` is not a number nor a pair of numbers), `KernelStacks`' `StackAssumption` (a stack for each of the two threads boot makes), `NobodyAssumption` (a name that is no pid),
`CapacityAssumption` (room for both tasks in `task_queue`, for one byte in an input queue); `LocksAssumption` (the two threads boot makes, and two frames, as a system call on its program); `HeapAssumption` (an alignment divides every
block size that is at least as large: both are powers of two); `ArgsAssumption` (the kernel's limits exceed the library's by one at most,
the top of the stack is aligned) and `ExecArgs`' `StackAssumption` (the largest list fits into the stack: 4383 of 32768 bytes);
`MemoryAssumption` (`MaxSbrk` is such that the heap stays between the bottom of user space and the stack) and `BootAssumption` (the frames suffice for
init's image: boot panics otherwise); `ImageAssumption` (the guard page and the stack have one table, a program header lies in user
space); `CopyAssumption` (sizes are positive naturals, user space has a page and one follows the page after it); `SizeAssumption` (a screen has two lines) and `CharAssumption`. Nothing else is
assumed: every size of the tables, queues, heap, stacks, memory and screen, every `MaxExec`, set of layouts, of argument lists and of
program headers is covered.

**Kernel.** The argument is one inductive invariant, `IInv`. The safety invariants are not inductive alone:
- `SelfChecksHold` needs to know who is runnable when the scheduler looks:
  `KeyboardReady` and `InitLives`, and with `TablesAgree` that init's process has a schedulable thread.
- `OwnStack` speaks of the return path only. `SlotIsOwn` extends it to the whole system call, and
  `Placed` says of a thread suspended in `wait` that its stack pointer was saved.
- `OwnAddressSpace` and the reaping of a child need that no two processes share a table (`OwnTable`);
  that is also why the checks of `free_process` never fail (`ReapFrees`).
- `Placed` relates a suspended thread's state to the place where it goes on, which keeps the second
  `swapgs` of a resumed `wait` and `GsByParity` in step.

For `Kernel`, `KernelProofs` proves one lemma per kind of step: `MoveInv` for the many steps that only move
the running thread, `StopInv` for those that stop the kernel, and one each for timer yield, wait yield, exit,
fork, failed fork, reap, exec and dispatch. `StepInv` collects them over `Next`. The theorems `TypeCorrect`,
`SelfChecksMet`, `OneRunner`, `Agreement`, `StackOwned`, `AddressSpaceOwned` and `GsParity` follow. `NoOvertaking`
proves the action property `RoundRobin` from the invariant and from the arithmetic of the cyclic scan
(`ScanCloser`), `NobodyCleansUp` the action property `LeftForGood`: an exited parent never waits again, only `wait` resets
a thread, and only an empty slot is taken. `Implements` maps every step to a step or a stutter of `Lifecycle`
and concludes `Spec => ImplementsLifecycle`.

**KernelStacks.** Every step is a step of `Kernel` (`KernelHoldsWithStacks`, `StacksKeepHistory`), the stacks follow the states of the
threads. `StacksOwned` needs from `Kernel`'s invariant that a fork takes an unused thread, that `wait` resets just the one of the
process it reaps, and from the steps that no other changes which threads are in use (`OtherStep`). `StacksSuffice` counts: a fork that finds no
stack finds all of them with threads. Those are the keyboard's, those of failed forks and one for each process, and there are at most
`NPROCESS - 2` processes, since the last slot of their table is never looked at (`NeverUsed`) and the child's is still free.

**Executor.** `NoLostWakeup` is not inductive: that an interrupt queues the task of the byte it brings
depends on a waker being there. `Armed` says that a task that is neither queued nor polled has one,
`Registered` keeps it through the window before the second pop. `ExecutorInvariance` proves `IInv`, and
`ExecutorTypes`, `NothingForgotten` and `NoSleepOnWork` follow. Lemmas about `Append` and
`Tail` (`AppendQueues`, `TailQueues`) carry "is queued" from state to state.

**Locks.** The locks a piece of code holds are a matter of some thirty sequences and each place in them. They are not evaluated one by one:
`Leads(code, H, K, L, C)` says that code which finds the locks `H` held takes only locks of `L` that it does not hold, gives back only what it does, does
nothing of `C` (`yield`, `search`, `user`, ...) while it holds any, and leaves `K`. Single operations, `Holding` and concatenation have it from their parts (`AcquireLeads`,
`HoldingBalanced`, `ConcatLeads`), so each piece is one short lemma along its definition, `CodeBalanced` says it of all of `Code`, and `HeldChanges`
ties it to `HeldAt`, with a least element in place of induction. `fork`, whose guards do not nest, is led from one set of held locks to the next. `BootOpens`, `OwnCodeHeld`, `ProgramEnds` and `TimerKernelAt`
say where the few places are that the argument looks at.

`LocksInv` is inductive. `SuspendedHoldsHeapOnly` alone is not: a tick in the trampoline that holds `THREAD_TABLE` ends in a yield. It never gets there, because the
handler itself asks for that lock first: `TicksWait`, and it takes `HoldersAreInside` for the lock to stay where it is and `Nesting` and `Masking` for
nothing else to be above the trampoline. `Core` is the same invariant, stack by stack (`InvIsCore`), so that an action is a change of the top of one stack
(`StackTop`, `StackPush`, `StackPop`, `StackNew`); there is one lemma for each action, and `StepCore` collects them. `YieldsHolding` is the crux: a frame that
yields holds nothing, and what is below it has the heap's lock or none. `DeadlockFacts` splits on who holds the lock that is found held: the frame itself does not, by `CodeBalanced`; a frame below it is
interruptible, so it is boot's output or a trampoline (what lies on the keyboard thread does not allocate); another thread's is the keyboard thread's by
`SuspendedHoldsHeapOnly`. `LocksInvariance`, `SuspendedHolding` and `LocksKnownDeadlocks` are the results.

**FixedSizeBlock.** `NoOverlap` alone is not enough: a block taken from a list serves an aligned request only because every
block is aligned to its size and lies in the heap (`AllAligned`, `InHeap`). `TakeBlockInv`, `FreeBlockInv`, `FreeLargeInv` and `FallbackInv`, for whatever
the fallback hands out, keep `IInv`; from it follow `TypeCorrect`, `NoWordTwice`, `NoWordLost`, and with `Cardinality` `NoBlockSpare`.
`Implements` maps both ways of serving an allocation to `Heap`'s one.

**ExecArgs.** `ArgsArrive` speaks of the moment after the call. `Copied` and `LibraryCopied` carry the strings to the kernel, `Pushed` says that what has been pushed
stays where it is while the stack grows below it, and `Deep` bounds how far, linearly in the number of arguments. `StrLenIs` characterises the end of a string,
which `StrLen` chooses. `ArgumentsArrive`, `StaysInStack` and `PanicsOnlyAtLimit` follow from `Invariant`.

**UserMemory and Translations.** Every operation is a *move* of one process: the free list and the process's space divide the same frames before
and after it, so whatever the others have stays theirs (`MovesKeepOwners`, `MovesLoseNothing`). `AllocateSplits` and `DeallocateSplits` say so of the stack of free frames, one
lemma for each operation of what it moves. The loop of `alloc_uvm` is a recursive function over the pages; it is followed by induction over its turns,
which the provers accept in the form of a least element: the set of turns after which the loop is not as it should be has none (`LeastElement`, `Induction`).
A rollback removes just the leaves that the loop has added (`LeavesRemoved`), though not their tables. `BreakStays` had to be added for the proof: no `sbrk` that maps anything moves the break,
so the heap has either no page or the one at the break, and that page is what a second `sbrk` meets (`GrowthIsWhole`, its last part). `TransInv` adds that whoever runs has not exited. Every step
of `Translations` is one of `UserMemory` or leaves it alone (`TranslationsRefine`); from this follow `MemoryIsOwned`, `StaleIsRare`, `OnlyCopiesLose`, `GrowthIsWhole`.

**ExecImage.** `ImageIsFile` speaks of the end only. `Says(m, a, b)`, that the first `m` segments put byte `b` at address `a`, extends it to
every turn of the loops: `Bytes` says which segments have spoken at which address while one is being mapped, cleared and copied. A chunk ends at the page or at the end of the
segment (`ToCopyIs`), and changes the bytes of its addresses and no other (`StoreIs`, `WithinPage`, on division with remainder). `MappedPages` says where every page comes from: a segment, the stack,
an `sbrk`. `Entries` and `Tables` give the flags of a page and of the tables above it, on every level alike; a table was raised for the first segments on the pages below it (`Opener`), or is later than the image, and then has all rights (`AboveAllows`, `Allows`). When the
stack is mapped, none of it was in the image, which `map_to` refuses, so the image ends below the guard page, and with it the heap begins there (`HeapBelowGuard`, over the rounding of `pg_round_up`).
One lemma for each action; `Invariance` collects them; `FileIsLoaded`, `ImageIsProtected` and `HeapGrowsOpen` read the properties off it.

**UserCopy.** `CopyInv` is inductive with what the two loops have done so far: `CopyLoop` (the bytes done were allowed, the rest is in the range asked for, the next chunk begins a page),
`Delivered` (a status in memory is that of a reaped child) and `PageKinds` (where user memory ends, and that the last page is not mapped). `StopsKnown` says what stops the kernel. A pointer below `UserTop` does not reach the window (`NoWindow`, from `PageKinds` and
`PageBelow`): what the chunks then say of the bytes done is exact, and otherwise holds of those outside the window. `StatusIsToldOrLost` splits on the page where the loop stops: what lies before it is written, it and what follows is not. `OnlyStatusIsWritten` and `OwnTextIsPrinted` follow
from the chunks.

**Screen.** That `y_pos`, which is unsigned, never goes below zero needs that it is a multiple of the line height (`IInv`): then a cursor that has no room for a line below
has one above; likewise `x_pos` is a multiple of the character width. `LitByGlyphs` follows a pixel through a scroll and through `write_char`: both move it by whole lines or draw within one cell. For `ShowsTheText`, every cell down to the cursor's
line shows one glyph wholly (`Readable`; a space is a glyph), and two glyphs never look alike, as a lit pixel names its own; then a scroll is dropping the first line of the text (`ScrolledText`), a wrap is a new line (`NewLineText`), drawing is setting one character (`DrawnText`), and
each step of `Screen` is a step of `Terminal` (`AbstractStep`).

Only model-checked: the liveness properties (`RunnableRuns`, `WaitReturns`, `KilledDies`, `QuietDrains`, `BootEnds`, `HeapComesFree`), since TLAPS proves neither ENABLED nor
liveness under fairness. The two runs that expect a violation are TLC's by nature. Every invariant and action property of the other runs, and every refinement, is a theorem.

## Not modelled

The path argument of `exec`, which is copied as the others are, and the fixed table of programs behind it; the tests of the ELF header and
address overflows in it; the kernel half of page tables, built once at boot; in `UserMemory` two of the four table levels, which `ExecImage` has; what a write through the window of physical memory does to page tables and to
the kernel, and which word of memory it takes for an entry; what a processor caches without being asked; the fallback allocator's own rounding; the serial line, the colour bytes of a pixel and the choice of the console at boot;
what `getpid` and `uptime` return; exceptions that only print or panic; descriptor tables and device set-up; general registers; user
programs beyond their system calls; the build scripts and the test runner. Code the kernel does not use
(`bump.rs`, `linked_list.rs`, `simple_executor.rs`, the VGA text writer) stays out.

## Plan

Done: the kernel's core with its kernel stacks, locks, executor, user memory and translations, program loading, arguments,
copies, heap and screen, all with their proofs. To come, in this order:

1. An abstract specification of the executor, a queue whose reader eventually sees every byte it accepts,
   refined by `Executor`.
2. An abstract specification of the
   processor as seen by user programs, refined by `Kernel`.
3. The registers of a system call and of a trap frame, with the calling convention on both sides.
