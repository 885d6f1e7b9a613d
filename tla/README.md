# Verification of the energy-aware xv6 kernel

TLA+ models, TLC runs and TLAPS proofs for the kernel in `src/xv6-riscv`: xv6 for RISC-V with an
energy-aware scheduler, an adaptive timer, two kinds of deadlock detection with energy-aware
recovery, and pipes under Peterson's lock. `PROJECT.json` lists components, runs, mutants, theorems
and hazards, and maps every definition to the lines it models.

Run a configuration with `tlc -config <cfg> <module>`, check proofs with `tlapm <module>.tla`.

## The system

| Part | Source (`kernel/`) | State | Concurrency |
|---|---|---|---|
| Sleeping locks, lock-level detection and recovery | `sleeplock.c`, `sysproc.c` | `locked`, `pid`, `waiting_for_lock`, `in_deadlock` | processes on all harts, `wakeup`, `kill` |
| Resource-allocation graph | `proc.c` | `holding_res`, `waiting_res` | processes; the check runs without locks |
| Energy accounting | `trap.c`, `sysproc.c` | `energy_budget`, `energy_consumed` (uint64) | timer interrupts in user and kernel mode |
| Scheduler, adaptive timer | `proc.c`, `trap.c` | `state`, `p->lock`, `timer_interval` | one loop per hart, interrupts |
| Process life cycle | `proc.c` | process table, `parent`, `wait_lock` | fork, exit, wait, kill |
| Pipes | `pipe.c` | ring, `flag`, `turn`, open flags | writers and readers on all harts |
| Log | `log.c` | `outstanding`, `committing`, `lh`; the log on disk | calls, one committer, crashes |
| Buffer cache, disk driver | `bio.c`, `virtio_disk.c` | buffers, LRU list, descriptors, rings | processes, the device, its interrupt |
| Inodes, directories, files | `fs.c`, `file.c`, `sysfile.c` | `itable`, `ftable`, `ofile`, the disk | processes, crashes |
| Memory, page tables, exec | `kalloc.c`, `vm.c`, `exec.c` | free list, page tables | processes |
| Console, UART | `console.c`, `uart.c`, `printf.c` | input ring, `tx_busy` | processes, interrupts, the device |

The parts meet in these places. The scheduler's passes read the energy fields that the timer charges
(`Scheduler` uses the charges of `EnergyArith`). Sleeplocks, pipes, the log, the disk, the console
and `wait` all wait with `sleep`/`wakeup`. Both recoveries write `killed` and `state`, which the
scheduler acts on. The log pins buffers of the cache until they are home, and the file system runs
in the log's transactions: `Files` and `FileData` stand on `AtomicDisk`, which `Log` is proved to
implement.

## Modules

| Module | What it is |
|---|---|
| `SleepLock`, `MCSleepLock` | sleeplocks, `would_create_deadlock`, recovery, the demo-lock system calls |
| `Rag`, `MCRag` | `res_*`, `find_holder`, `check_deadlock` |
| `EnergyArith`, `Energy` | the two charges as uint64 arithmetic; one process under timer interrupts |
| `Scheduler`, `MCScheduler` | `scheduler()` on several harts |
| `Proc` | `allocproc`, `kfork`, `kexit`, `kwait`, `kkill` |
| `PipeFifo`, `Pipe`, `PipeOneHart` | the queue a pipe promises; `pipe.c`; the same under pass 3 of the scheduler on one hart |
| `AtomicDisk`, `Log` | the atomic disk the log promises; `log.c` with crashes |
| `BlockIO`, `MCBlockIO` | the buffer cache over the virtio driver |
| `Files`, `MCFiles` | names, inodes, file table and the system calls on them, with crashes |
| `FileData`, `MCFileData` | blocks, `bmap`, `readi`, `writei`, `filewrite`, with crashes |
| `Memory`, `MCMemory` | pages, page tables, `fork`, `exec`, `sbrk`, page faults |
| `LineEditor`, `Console`, `MCConsole` | the line editor the console promises; `console.c` and `uart.c` |
| `*Proofs` | theorems about `SleepLock`, `Energy`, `Scheduler`, `Proc`, `Pipe`, `Log`, `BlockIO`, `Console` |

Operators whose comment starts with "Mutant" are not part of a model. Each is a plausible bug in the
definition after it; putting it in that definition's place makes a property fail, which shows that
the property depends on the code.

### SleepLock

A process is a slot of `proc[]` with a program counter inside `acquiresleep`, the walk of
`would_create_deadlock`, `energy_aware_deadlock_recovery`, `sleep`, `releasesleep` or `wakeup`. One
step is one access to shared memory that other harts can see. `lk->lk` is explicit. Stores to
`waiting_for_lock` sit in a per-process store buffer until they drain, because nothing fences them
against the loads of the walk. Kill, exit, preemption and dispatch are actions; a timer interrupt
charges the process it preempts, also between the recovery's comparison and its kill. A slot lives
one life. Two history variables name what the code gives no promise about: `late[p]`, whom a tick has
charged since `p` began a recovery, and `again`, that the unlocked test of
`ensure_demo_locks_inited` made a process initialise locks already in use.

### Rag

The search of `check_deadlock()` one slot at a time, with `res_id` either the tested value or a
second load. `res_wait`, `res_acquire` and `res_release` have no caller in the kernel, so their
callers, and the resources, are external: calls follow the functions' comments, and a resource is
granted when nobody holds it. A check is `alone` when the timer runs it with interrupts off on the
only hart; the system call's is preemptible. `InCycle` is the reference definition of a deadlock.
`stood` is a history variable for `DeadlockFound`.

### Energy

One process. A timer interrupt hits user code (`clockintr` then `usertrap` charge it) or kernel code
(`clockintr` alone). `getenergy` copies both fields under `p->lock`. A tick therefore costs one unit
or two, by where it hits, where `src/README.md`, `param.h` and `ENERGYSCH_BRANCH_README.md` say one
(`Energy.cfg` below). The module has theorems and this experiment; the run `scheduler` checks the
same charges where they matter, in the order of the processes.

### Scheduler

Per hart: the top of the loop, one slot of a pass per step, the `waiting_tick` loop, the timer
reset, `swtch`, the idle branch and `wfi`. `p->lock` is held from a scan's choice to `swtch`.
`timer_interval` is one global, and `armed[h]` is what hart `h` last wrote to `stimecmp`. The pass
conditions are kept: passes 1 and 2 look at children of `schedtest` only. `Pid` is a constant
function because slots are reused and pids need not follow slot order. `began[h]` is a history
variable: the processes that have been RUNNABLE since the scan began. A process that runs may be in
the recovery of `acquiresleep`, which reads a victim's state and stores `RUNNABLE` without the
victim's `p->lock`: these are two steps, and `torn` records that the store hit a running process. It
cannot on one hart (`OneHartIsSafe`); on more, what is said of the scheduler is said up to then.

### Proc

Slots, pids, `parent`, `killed`, the holders of `wait_lock` and of every `p->lock`, and where each
process is in `kfork`, `kexit` or `kwait`. `RUNNABLE` stands for RUNNABLE and RUNNING. A slot is
reused after `freeproc`. `Swtch` is the moment an exiting process leaves its kernel stack, until
which it holds its `p->lock`. `hit` is a history variable: the pids that somebody meant to kill.
`kill(0)`, which finds UNUSED slots, is among the calls; `stray` are the slots it has marked since
they were last freed. Nobody kills init (`kexit` would panic).

### Pipe

`peterson_acquire` is two stores, in program order or, with `StoresReorder`, in either order; then
two loads per round of the spin. Counters wrap modulo `UINT`. `copyin`/`copyout` may fail. A call of
`sleep(chan, 0)` goes to a panic, as `release(0)` does. `PipeOneHart` adds one hart and the
slot-order choice of pass 3.

### Log

A critical section of `log.lock` is one step, and every block write to the disk is two: the block is
`Torn`, then complete. The header fits one sector and is atomic. `Evict` is `bget()` recycling an
unreferenced buffer. `Crash` forgets memory at any step, in recovery as well. A call may write a
block again; it writes at most `OpBlocks` different ones. `OpBlocks < MAXOPBLOCKS` is what the
callers give; that `filewrite` keeps to it is `FitsInLog` of `FileData`.

### BlockIO

Every span under `bcache.lock` or `vdisk_lock` is a step, so `bget` may be overtaken between its
reference and the buffer's sleeplock. Data are abstracted to "the latest version or not", for each
buffer and each block on disk. A request is its three descriptors, its operation and its buffer; the
device takes requests from the available ring in any order and appends answers to the used ring,
also while `virtio_disk_intr` runs. A process that `kill` wakes there tests its condition and sleeps
again, which changes nothing and is left out. `pinned` are the blocks that the log holds. `lru` maps places in
the list to buffers, the most recently used first.

### Files

The disk has a type, a link count and, for directories, entries for each inode; `stable` is what a
crash goes back to. A call is a record: where it is, its path, its references `dp` and `ip`, and
`todo`, the entries it is about to `iput`. `iput` of a last reference takes the steps of the code:
the decision under `itable.lock`, the free on disk, the drop of the reference. `ireclaim` runs at
boot, before the calls. `reused` records that `ialloc` met an inode whose `iput` was not over. A
panic ends a run: `iget` finds the table full in this instance, and `ilock` an inode without a type
after a walk through the ".." of a removed directory. That they are not reached is not claimed.

### FileData

A block has `BSIZE` units, an inode `NDIRECT` direct blocks and an indirect one. `fs` is the cache,
`home` the disk, `logged` the blocks of the open transaction. A write is cut into transactions by
`filewrite`'s formula, and each chunk into the steps of `writei`. `want` is a history variable: for
each position of a file, the data that the calls so far allow there.

### Memory

Pages are numbers; a page table has the three levels of Sv39 with `SPAN` entries in each, and its
inner pages are allocated like the others. One allocation is one step, so that processes run each
other out of memory at every point. `exec` fetches its arguments into a page each, frees them on
every way out, and meets program headers that are well formed or not. `mem` is what is in a page, junk after `kfree`; `view` is a
history variable, what each process must find.

### Console

The indices of the ring wrap modulo `WRAP`. The interrupt handler and the processes interleave where
they release a lock or spin on `LSR_TX_IDLE`; the device sends bytes, raises its interrupt and
receives keys by itself. `uartputc_sync`, from `printf` and from echoes, writes to the device
without `tx_lock`, as in the code. What the keys are is chosen when they are read.

## Runs

| Run | Module, configuration | Instance | Shows |
|---|---|---|---|
| `sleeplock` | `MCSleepLock`, `SleepLock_2cpu.cfg` | 2 processes, 2 locks, 2 harts, from the locks' first uses | no lost wakeup (`NoLostWakeup`); detection accuses only processes that wait for each other, and nobody among them has consumed more than the victim but by ticks charged since the recovery began (`RecoverySound`); a free lock that is wanted gets taken (`LockProgress`) |
| `rag` | `MCRag`, `Rag.cfg` | 3 processes, 2 resources | undisturbed, the check kills a process of a real cycle, the most expensive (`VictimDeadlocked`), and frees the others (`KillBreaksCycle`); a deadlock that stood during the whole check is found, also by a preempted check (`DeadlockFound`) |
| `scheduler` | `MCScheduler`, `Scheduler_1cpu.cfg` | 1 hart, 3 slots, 2 of them in the energy tiers | the best candidate is chosen, in the order the code's comments give (`BestChosen`); the budget it ranks by is what is left of the default (`BudgetIsRemainder`); a process runs under the fast timer (`FastWhileRunning`); a wakeup before `wfi` is not missed (`WorkConserving`) |
| `scheduler_order` | `MCScheduler`, `Scheduler_readme.cfg` | the same | violated: the order of the README, high-energy processes first (`HighEnergyFirst`) |
| `proc_life_cycle` | `Proc`, `Proc.cfg` | 3 slots, pids up to 5 | no exit is missed by a sleeping `wait` (`NoLostExit`); whoever is not reaped has a live parent (`ParentLives`); slots are freed off their stack (`FreedOffStack`); whoever is killed was meant to be, or has a slot that `kill(0)` marked (`KilledIsMeant`); init reaps orphans (`OrphansReaped`) |
| `pipe_fifo` | `Pipe`, `Pipe_spsc.cfg` | ring of 2, requests of 2, counters mod 4 | exclusion (`Mutex`); a bounded queue over wrap-around (`ImplementsFifo`); the page is freed last (`NoUseAfterFree`); a process that has the turn is not overtaken (`NoOvertaking`) |
| `log` | `Log`, `Log.cfg` | 3 calls of 2 blocks, 2 values, room for 2 reservations only while nothing is logged | `log.c` implements `AtomicDisk` (`CrashAtomic`); `log_write` never finds the log full (`ReservationHolds`); who sleeps in `begin_op` waits for a commit or for room, and has a waker (`WaitersHaveWaker`) |
| `block_io` | `MCBlockIO`, `BlockIO.cfg` | 3 processes, 4 blocks, 3 buffers, 8 descriptors (2 requests), 1 pin | one buffer per block, the latest version is read, `bget` panics only when all is in use (`CacheSound`); descriptors belong to one request and come back (`DescriptorsOwned`); sleepers have a waker (`SleepersHaveWaker`) |
| `files` | `MCFiles`, `Files.cfg` | 2 processes, 4 inodes, 2 names and "..", table sizes 3, 2 and 2, 3 calls, from 2 disks | exact references, coherent entries (`TablesExact`); no cycle of inode locks, `iput` does not wait (`LocksOrdered`); link counts do not undercount, on disk and after a crash (`LinksCounted`); an inode without a name is in use (`UnlinkedHeld`) |
| `file_data` | `MCFileData`, `FileData.cfg` | 2 processes, 2 files of different sizes, 6 blocks of 2 units, writes of 7, 2 calls | no block is lost or used twice (`BlocksSound`); a file holds what was written (`FilesKept`); a chunk fits its share of the log (`FitsInLog`) |
| `memory` | `MCMemory`, `Memory.cfg` | 2 processes, 16 to 24 pages, page tables of 2 entries a level, 3 calls | pages have one owner or are free, no panic (`PagesSound`); processes find what they stored (`MemorySound`) |
| `console` | `MCConsole`, `Console.cfg` | 2 processes, ring of 2, indices mod 4, FIFOs of 1 and 3 | the ring implements `LineEditor` (`EditsLines`); ring and FIFO are not overrun (`NothingOverrun`); sleepers have a waker (`SleepersWoken`) |

Why the bounds suffice. Two processes make every race of a pair; a third is there where something
can pass between two others: a lead-in to a cycle, a scan with two candidates and a newcomer, an
orphan with its grandparent, a third block user between two. Limits are small enough to be reached:
budgets hit 0, pipe and console indices wrap, a reservation has to wait, buffers, descriptors,
inodes, files, disk blocks and memory run out. A write of 7 units spans transactions, uses the
indirect block and starts unaligned. The page counts run from "init just fits" to "everything
succeeds". Processes and blocks are symmetric in `block_io`, processes in `console` and `log`.

Deadlock is checked in `scheduler`, `proc_life_cycle`, `log`, `rag`, `files`, `file_data` and
`console`. The others stop for good when a bound is reached, when all processes are gone, or in a
modelled panic.

### Experiments

Configurations beside the listed runs. TLC refutes the property of each; they say where the code
needs the conditions under which the runs pass, or differs from its documents.

| Configuration, module | Property | What happens |
|---|---|---|
| `SleepLock_broken.cfg`, `MCSleepLock` | `DeadlockBroken` | the victim wakes inside `acquiresleep`, which ignores `killed`, and sleeps again with its locks |
| `SleepLock_report.cfg`, `MCSleepLock` | `DeadlockReported` | two harts walk before the other's `waiting_for_lock` store is visible; no report |
| `SleepLock_onehart.cfg`, `MCSleepLock` | `OneHart` | the recovery stores `RUNNABLE` without `p->lock` over a state that changed |
| `SleepLock_init.cfg`, `MCSleepLock` | `OnlyHolderReleases` | with two first uses, `ensure_demo_locks_inited` reinitialises a taken lock |
| `Energy.cfg`, `Energy` | `ChargedOnce` | a tick in user mode is charged by `clockintr` and again by `usertrap`; `src/README.md:124` says "Energy consumed per timer tick" of the one unit |
| `Rag_false.cfg`, `MCRag` | `KillsOnlyDeadlocked` | a preempted `check_deadlock` joins edges of different moments and kills a process in no cycle |
| `Scheduler_spin.cfg`, `MCScheduler` | `ChosenRuns` | two harts take `p->lock`s in the `waiting_tick` loop, each holding its choice's |
| `Scheduler_starve.cfg`, `MCScheduler` | `NoStarvation` | pass 3 restarts from slot 0 |
| `Pipe_onehart.cfg`, `PipeOneHart` | `AcquireEnds` | on one hart an earlier slot spins for ever for a preempted owner |
| `Pipe_sleep.cfg`, `Pipe` | `SleepWorks` | an empty or full pipe panics in `sleep(chan, 0)` |
| `Pipe_writers.cfg`, `Pipe` | `Mutex` | two holders of one end share a Peterson id |
| `Pipe_weak.cfg`, `Pipe` | `Mutex` | the stores of `peterson_acquire` are not fenced against each other |
| `Files_orphan.cfg`, `MCFiles` | `OrphansHeld` | `ialloc` hands out an inode whose `iput` has freed it on disk and not yet dropped its reference; a file made and unlinked in it meanwhile stays allocated until the next boot |

One more is one edit away. With a second hart in `Scheduler_1cpu.cfg`, `FastWhileRunning` fails: an
idle hart stretches the timer of a running process.

## Fairness

Liveness is stated only under these assumptions.

- A hart goes on with what it executes: weak fairness of the steps inside the kernel; strong
  fairness where a step begins with taking a contended spinlock (`Proc`, `Scheduler`, and per lock in
  `SleepLock`), because critical sections are short and the holder lets go again and again.
- `sleeplock`: each process has a hart, so a runnable process is dispatched; store buffers drain; a
  killed process exits at its next trap. Processes need not release or exit otherwise.
- `scheduler`: an armed timer fires. Nothing obliges a process to sleep or to be woken.
- `proc_life_cycle`: a killed process exits at its next trap, and init calls `wait` again and again,
  as `user/init.c` does. Nobody else need ever call `wait` or `exit`.

The other runs state no fairness. Where they are about waiting, the property is an invariant: a
sleeper has somebody who will wake it.

## Proofs

All theorems hold for every value of the constants that satisfies the named `ASSUME`s. Theorems with
a run's property in the second column show for all sizes what the run shows for its instance.

| Theorem | Property | Says |
|---|---|---|
| `SleepLockProofs!TypeCorrect` | | types, once the demo locks are initialised |
| `SleepLockProofs!SpinLocksHeld` | | `lk->lk` is held exactly inside the critical sections |
| `SleepLockProofs!WakeupsNotLost` | `NoLostWakeup` | no sleeper on a free lock without a waker on its way |
| `SleepLockProofs!HolderReleases` | | only the holder frees a lock, once the demo locks are initialised |
| `SleepLockProofs!RecoveryIsSound` | `RecoverySound` | with the two demo locks: only processes on a wait-for cycle are accused, nobody on it has consumed more than the victim but by ticks charged since the recovery began, no `in_deadlock` flag is left |
| `EnergyProofs!BudgetExact` | | budget = default - consumed, floored at 0 |
| `EnergyProofs!TickCost` | | a tick costs one or two units |
| `EnergyProofs!EnergyTypes`, `GetEnergyConsistent`, `BudgetMonotone` | | no charge wraps; `getenergy` shows one moment; budgets never rise |
| `SchedulerProofs!ChoiceIsBest` | `BestChosen` | nobody RUNNABLE during the whole scan ranks above the choice, on any number of harts, unless `torn` |
| `SchedulerProofs!DispatchedOnce`, `ChoiceNotStale` | | a process runs on one hart; a choice stays RUNNABLE and locked; unless `torn` |
| `SchedulerProofs!OneHartIsSafe` | | on one hart never `torn`, so a process runs once |
| `SchedulerProofs!RankedByRemainder` | `BudgetIsRemainder` | the budgets the passes rank by are what is left of the default, with `ENERGY_PER_TICK = 1` |
| `SchedulerProofs!FastOnOneHart` | `FastWhileRunning` | on one hart, a process never runs under the idle interval |
| `ProcProofs!ExitsNotLost` | `NoLostExit` | nobody sleeps in `kwait` with a ZOMBIE child |
| `ProcProofs!ParentsLive` | `ParentLives` | whoever is not reaped has a parent that has not exited |
| `ProcProofs!SlotsFreedOffStack` | `FreedOffStack` | no hart is on the kernel stack of a free slot |
| `ProcProofs!KillsAreMeant` | `KilledIsMeant` | only a process whose pid was to be killed is, or one whose slot `kill(0)` marked |
| `PipeProofs!PetersonExcludes` | `Mutex` | mutual exclusion, with one holder per end and ordered stores |
| `PipeProofs!RingIsFifo` | `ImplementsFifo` | the ring implements the bounded queue over any wrap-around, with one holder per end |
| `PipeProofs!FreedLast` | `NoUseAfterFree` | the page is freed by the last close and not touched afterwards, with one holder per end |
| `PipeProofs!TurnsAreTaken` | `NoOvertaking` | who waits with the turn is not overtaken, with one holder per end and ordered stores |
| `LogProofs!LogIsAtomic` | `CrashAtomic` | `log.c` with crashes implements `AtomicDisk` |
| `LogProofs!WaitersNotForgotten` | `WaitersHaveWaker` | who sleeps in `begin_op` waits for a commit or for room, and somebody will wake them |
| `LogProofs!ReservationKept` | `ReservationHolds` | an open call has room for all it may still write |
| `LogProofs!PinnedUntilHome` | | a logged block is pinned until installed |
| `BlockIOProofs!BlocksCached` | `CacheSound` | one buffer per block, readers see the latest version, `bget` panics only when all is in use |
| `BlockIOProofs!DescriptorsKept` | `DescriptorsOwned` | a request keeps its three descriptors until it is over, and none is lost |
| `BlockIOProofs!SleepersWoken` | `SleepersHaveWaker` | nobody sleeps in `virtio_disk_rw` without an answer, an interrupt or a request to come |
| `ConsoleProofs!SleepersWake` | `SleepersWoken` | nobody sleeps in `consoleread` with input, or in `uartwrite` with no interrupt to come |
| `ConsoleProofs!NothingLost` | `NothingOverrun` | the indices stay in order and in range; three bytes of output FIFO suffice |
| `ConsoleProofs!ConsoleEditsLines` | `EditsLines` | the circular buffer implements the line editor, over any wrap-around |

The inductive invariants, and why the properties are not inductive by themselves:

- `SleepLock`. A sleeper is safe because `sleep` takes `p->lock` before it releases `lk->lk`. `ArgOK`
  gives every process in a call its lock; `PlaceInv` says what a process knows where it is (a lock it
  decided to wait for stays held until it has let go of the spinlock); `Handoff` says who will wake
  the sleepers of a free lock. Assumed: the demo locks are initialised (`Inited0`). For the recovery,
  `EdgeInv` ties the edges a walk reads to the calls they belong to, `WalkInv` says what the owners
  met so far have to do with the walker (with two locks, a walk that comes back has met one other
  owner, who has waited for the walker's lock ever since), and `FlagInv` who will clear a flag.
  Assumed there: `NLOCK = 2`, the kernel's; longer chains would need induction over their length.
- `Energy`. `Charged` bounds consumption by ticks, so that nothing wraps. Assumed:
  `ENERGY_PER_TICK = 1`, the kernel's value.
- `Scheduler`. `HartInv` ties a hart's position to its locals. For the choice, `RankInv` says what
  each pass has established: pass 1 leads everyone with energy it has looked at, pass 2 knows there is
  nobody for pass 1 and leads the children, pass 3 knows there is no child and has passed nobody. For
  the timer, `TimerInv`: from the reset to the idle branch the interval is fast, and so is what is
  armed, but between the reset and `w_stimecmp`. Assumed: one hart; two share the interval. For the
  recovery, a victim that was seen asleep on one hart still is at the store.
- `Proc`. `Inv` says where a process in each state can be (`StateInv`), who holds `wait_lock`
  (`WaitLockInv`), that a USED slot belongs to one `fork` (`ChildInv`), that a parent is not past the
  `reparent` of its exit (`ParentInv`), and that a parent which has looked for zombies and still has
  `wait_lock` has none (`SleepInv`). For kills, `MarkInv`: a free slot has no pid, and no mark
  but one of `kill(0)`.
- `Pipe`. `FlagInv`: a raised flag says where its owner is. `TurnInv`: the second to arrive gave the
  turn away. `CInv`: a closed end has a holder that only leaves, and who goes to free the page is the
  last. `RInv`: whoever is about to store a byte has room for it, and the byte being copied out is
  the oldest. `Queue` shows that `Contents` is then a sequence of as many bytes as the counters differ
  by, which each step extends, shortens or leaves as `PipeFifo` allows.
- `Log`. `LogIsAtomic` maps the durable state to `Recovered`, the disk as a recovery would leave it.
  `LInv` says: no call is open during a commit (by counting, `Counts`); headers name blocks once, and
  the header on disk is empty or equals the one in memory (`Heads`); before the header is written the
  log holds all that was logged (`LogHolds`); what is neither logged nor in a call's hands is home,
  and so is what `install_trans` has passed (`HomeHolds`). Then `Recovered` changes in one step only,
  `write_head()` in `commit()`, and there it becomes what the calls see. `WakerInv` adds that a commit
  has its process and that between calls the log is empty, so that who finds no room finds somebody.
  `Room` counts: what an open call has written is in the log and within its `OpBlocks`, so the blocks
  logged and those still to come stay below the log's size.
- `BlockIO`. `IInv` has one part per concern. `CallInv`, `LookupInv`: a call's buffer is its block's,
  a block has one buffer, and a buffer's count is the number of calls and pins on it; `LockInv`: who
  is past `acquiresleep` is the owner. `DataInv`: a block's latest version is on disk or in a valid
  buffer that is pinned or about to be written. `ReqInv`: a request's chain is its own, and free
  descriptors and chains add up to `NUM`. `RingInv`: a sleeper's request is with the disk or in the
  used ring, once, and a used ring that is not empty has an interrupt. What the proof needs to know of
  finite sets is one formula, `Counting`, a hypothesis of the lemmas that the library's theorems
  discharge at the end. Assumed: at least three descriptors, finitely many processes.
- `Console`. `TxInv`: while `tx_busy` is set or a writer sleeps, the device has bytes, has
  interrupted, or the handler is about to look. `FifoInv` counts the bytes that will be written
  without another look at the device, at most three with those already there; it rests on `pr.lock`.
  `RingInv` orders the indices modulo `WRAP`. For the refinement, `View` reads the buffer from an
  index on as a sequence, which each step extends, shortens or joins to another as `LineEditor` does;
  `LineInv` adds that no newline is among what can be edited, so that the loop of the kill key, which
  would stop at one, takes back the whole line. Assumed: `WRAP` is a multiple of the buffer size, as
  2^32 is of 128.

Only model-checked:

- liveness (`LockProgress`, `WorkConserving`, `OrphansReaped`): with ENABLED it is out of the prover's reach;
- the runs `rag`, `files`, `file_data` and `memory`, for which no proof has been written. Their state
  is lists and trees that the code walks to any depth (the search's path, the references a call has
  still to drop, the blocks of a file, the levels of a page table), modelled with sequences and folds,
  and most of their properties count over them; large parts would need induction over data too.

## Limits of the models

- `Files`: a call may create in a removed directory that is still somebody's current one; the new
  inode then has a link that nothing reaches, which `LinksCounted` (no undercount) allows. Device
  numbers are in range. `UnlinkedHeld` says nothing once `reused` (`Files_orphan.cfg`).
- `FileData` and `Files` share no state: what a file holds does not depend on its names.
- `BlockIO`: the disk answers every request and with status 0, which the driver otherwise panics on.
- `Proc`: the memory a `fork` copies is `Memory`'s subject; here it fails or succeeds.
- `Memory`: at most one process runs in an address space; what is on disk is not modelled, so a
  program's text is one value.
- Sequential consistency, except where the code races without a lock or a fence: the store buffers
  of `SleepLock`, the stores of `Pipe`, the second load of `Rag`.

## Not modelled

- Boot, the interrupt controller and trap entry: register writes and machine code, executed once or
  without state of their own. Their effect, when interrupts come, is part of the models.
- The kernel's page table: built once, never changed.
- The nesting counter of `push_off`/`pop_off`: per hart and sequential. That interrupts are off
  under a spinlock is part of every model.
- `fstat`: changes nothing. Argument fetching, string functions and formatting: pure data.
- The user library, including `malloc`: sequential code in one process.
- User programs other than `init` and `deadlock_demo`, and `mkfs`: clients, tests and a host tool.
  The disks that `Files` and `FileData` start from are images `mkfs` makes.
