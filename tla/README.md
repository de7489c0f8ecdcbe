# A TLA+ model of rust-systems-crates

This directory specifies the workspace under `crates/` in TLA+, model-checks the
specifications with TLC and proves their safety properties with TLAPS. Paths and line numbers
below are relative to `src/crates/`.

Contents: [the system](#the-system), [modules](#modules), [runs](#runs),
[bounds](#bounds-and-symmetry), [fairness](#fairness), [findings](#findings),
[proofs](#proofs), [not modelled](#not-modelled).

## The system

| component | state | operations | interacts with |
|---|---|---|---|
| `channel::mpsc` (`channel/src/mpsc/queue.rs`) | `Ring`: cells `(data, seq)`, `tail`, `tickets`, `closed`, `producers_count`; `Consumer`: `head`, `cached_tail` | `push`, `push_iter`, `push_batch`, `clone`, `drop`, `close`; `pop`, `try_pop`, `peek`, `drain`, `skip`, `clear`, `is_closed`, `close`, `drop`; `Ring::drop` | any number of producer threads, one consumer; carries the logger's commands |
| `channel::spsc` (`channel/src/spsc/queue.rs`) | `Ring`: `buf`, `head`, `tail`, `closed`; `Producer.cached_head`, `Consumer.cached_tail` | `push`, `push_batch`, `push_iter`, `close`, `drop`; `pop`, `peek`, `drain`, `pop_batch`, `read_chunk` + `commit`, `close`, `drop`; `Ring::drop` | one thread on each side |
| `channel::snapshot` (`channel/src/snapshot/mod.rs`) | heap nodes `(data, next, released)`; `Writer.tail`; `Reader.current` | `publish`, `close`, `drop`; `update`, `close`, `drop` | the writer links nodes, the reader frees them; the last node belongs to whoever drops second |
| `channel::mpsc::ref_vyukov` | cells, `tail`, `head` | `push`, `pop`, drop of the ring | the benchmarks' baseline |
| logger front end (`logger/src/logger.rs`, `builder.rs`, `config/`) | the `OnceLock` with the global sender, the minimum level, `Logger.handle` | `log`, `build`, `shutdown`, `drop` | pushes commands into the MPSC channel; starts and joins the worker |
| logger worker (`logger/src/worker.rs`) | receiver, last poll, state of the level file | `run`, `poll_min_level`, `report_drops`, `shutdown`, `drop` | drains the channel into the file manager |
| file manager (`logger/src/file_manager.rs`) | buffer, current file, name generator, next day boundary, `flag_closed` | `new`, `write`, `write_buff_to_file`, `get_next_file`, `shutdown`, `drop` | the file system, the metrics |
| metrics (`logger/src/metrics.rs`) | relaxed global counters | `record_*`, `take_unreported_drops`, `collect` | producers and worker write, the footer resets |
| `RingCursor`, `RingBuffer` (`ring_buffer/src`) | `head`, `n_elem`; storage | push and pop at both ends, evicting or refusing, `skip`, `clear`, `clone`, drain | sequential |
| `RingStatistics` | window, two accumulators | `push`, `rebuild`, queries | a `RingBuffer` |
| `wincore::monitor`, `wincore::thread` | `REGISTRY` of watched threads; the report of a spawn | `watch`, `unwatch`, `purge_dead`, `capture`; `Builder::spawn` | Windows |
| `wincore::mem`, `wincore::process` | locked pages and their guards; the priority class | `lock`, `lock_mut`, guard drop; `set_class` | Windows |
| `tasks` (`tasks/macros/src`) | the rows of a `task!` call; the task's file | expansion, `publish_task` | other compilers that expand the same call |

What is hard in them:

- **concurrency**: every channel is lock-free and rests on the order of a few atomic accesses;
  `tickets` and `tail` of the MPSC ring are relaxed; builders, watchers and compilers race;
- **failure**: an iterator given to `push_iter` may panic or end early; writes, fsyncs, opens
  and renames fail, wholly or in part; a thread does not start, or dies before it reports; a
  process is killed or the machine loses power;
- **ordering**: close against push, drop against drop, the recycling of a cell against its
  reuse, a shutdown order behind a slot that is reserved and not yet written;
- **stale state**: cached cursors, a day boundary read before midnight, thread identifiers
  that Windows reuses, a class read back after somebody else set it;
- **timeouts**: the shutdown order is retried up to a deadline, then the worker is detached;
- **liveness**: `write_cell`, `abandon_cell` and `Reader::close` spin or retry; `spawn` waits.

What makes each component correct: a channel delivers every value once, in order, from a slot
that one thread owns, loses no capacity, and an empty answer after `is_closed()` is final; the
latest-value list frees each node once and an update ends at the newest value; the logger
writes every message that was queued, once, and reports every refused one, once, with one
worker; the file manager accounts for every byte and never reopens a finished file; a level
set in code, or edited later, is the one that holds; the ring buffer is a double-ended queue
and its storage is initialised exactly in the window; the statistics are worth their window;
the registry has one entry, with one handle, per living thread; a spawned thread is either
fully reported or an error; a guard keeps its pages; a task file is a whole document that
changes only when its task does. `PROJECT.json` lists under "hazards" where each of these
could go wrong, and which property would notice.

## Modules

```
Cursors            cursor arithmetic: wrapping_add, wrapping_sub, slot index
 |- Mpsc           the ticket ring        -> implements TicketFifo  <- Logger!Channel
 |- Spsc           the cursor ring        -> implements BatchFifo
 |- Vyukov         the baseline queue     -> implements TicketFifo
Snapshot           the latest-value list
Logger             builders, producers, owner and worker, on a channel as in TicketFifo
FileManager        buffer and rotation         CivilDate   the dates in the names
LevelFile          the minimum level and its control file
RingCursor -- RingBuffer                  -> implements Deque
              RingStatistics              over Deque
Registry           monitor of threads          ThreadSettings -- ThreadSpawn
PriorityClass      set_class                   PageLock       page guards
TaskMacro          rows of a task! call        TaskFile       publish_task
MC...              instances for TLC           ...Proofs      theorems for TLAPS
```

Operators commented `Broken:` (`...Unclamped`, `WriteWithoutSpin` and the like) are faulty
variants of the definition that follows them. They are no part of the specifications: one of
them in the place of the correct definition makes a property fail, which is how each property
is known to depend on the code.

### Cursors

`usize` is `0 .. W-1`. Cursors are free-running and wrap at `W`; `N` divides `W` and
`W >= 2N`, as the compile-time assertions of `Ring::new` give. The models run with `W = 2N` or
`4N`, so cursors wrap after two or four laps and every check covers it.

### Mpsc

One action is one access to shared memory with the private computation around it.

| actions | code |
|---|---|
| `StartCall`, `LoadTickets`, `TakeCredits`, `Refund`, `TakeTickets` | `push` / `push_iter` up to the ticket: the `is_closed` test, the plain load, `fetch_sub`, the refund `fetch_add`, `tail.fetch_add` |
| `AwaitSlot`, `Publish` | `write_cell`: the spin, then value and Release store |
| `EndEarly`, `Abandon` | the iterator ends or panics; `ReservedRun::drop` abandons ticket after ticket |
| `Clone`, `DropProducer`, `CloseLast`, `Close` | handles, `drop_producer` in its two steps, both `close()` |
| `CallPop`, `Recheck`, `LookAtHead`, `PopCell`, `ReturnCredit`, `Peek` | `pop_inner`, `peek` |
| `CallDrain`, `DrainNext`, `DropDrain` | `drain`, hence `skip` and `clear` |
| `SkipAbandoned`, `SkipEnds` | `skip_abandoned` |
| `SeeClosed`, `DropConsumer`, `DropRing` | `is_closed`, `Consumer::drop`, `Ring::drop` |

Abstractions. A push on a closed channel and an empty batch change nothing and are left out.
A handle is used by one thread at a time; a `Producer` shared by reference behaves like clones
of it, except that the last drop comes later. Cells hold a value or `Uninit`; `PopCell` moves
the value out. The bounded spin of `head_state` may give up whenever the slot is pending.

Memory order. Credits are relaxed, so a producer can take the ticket of a cell before it sees
the store that recycled it. `PopCell` puts that store in `recycling` and `RecycleVisible`
delivers it later, in any order with the stores of other cells. The other relaxed accesses
need no such device: `tail` and `tickets` are only read-modify-written or compared, a
publication that is not seen yet is a publication not done yet, and the drop chain (`Release`
decrement, `Acquire` fence) and the drop of the last `Arc` synchronise. The consumer sees its
own recycle store at once; it meets that cell again a lap later, after a producer saw it.

### Spsc

`StartPush`, `FindRoom`, `WriteCell`, `Publish` are the three pushes; `push_batch` and
`push_iter` write item by item and publish once. `CallPop`, `CallBatch`, `ReadCell`,
`FinishRead` are `pop`, `peek`, `drain`, `pop_batch`; `ReadChunk`, `Commit`, `DropView` the
zero-copy view, read item by item while the producer goes on. Both cursors are released and
acquired, so a load that returns an old value is a load done earlier, and the model, which lets
any number of steps pass between a load and its use, has these behaviours. The private copies
of `head` and `tail` equal the shared ones between a call's accesses and are no variables of
their own. `Advance` marks the released slots as `Uninit`: from there on the consumer has no
right to them.

### Snapshot

`Addr` is the allocator: a freed address may be returned for the next node, so a dangling
pointer is found either as a payload 0 or as a newer payload than its end expects. Payloads are
publication numbers. `StartReader` enters `update`, `close` or `drop`; `LoadNext`,
`CheckClosed`, `Walk`, `ReloadNext` are `update`, also when `close` calls it; `CasClose`,
`IsClosed` the loop of `close`. `ReleaseWriter` / `FreeWriter` and `ReleaseReader` /
`FreeReader` are `release`.

### Vyukov

`LoadTail`, `TestSeq`, `CasTail`, `WriteData`, `StoreSeq` are the accesses of `push`,
`ReadHead` and `ReleaseHead` those of `pop`, `DropQueue` the drop of what is left. Accesses are
sequentially consistent. The code orders the cells by Acquire/Release on `seq` and `tail` is
relaxed; a stale `tail` is a `LoadTail` taken earlier, which the model allows, so only the
values of `data` need the order, and `seq` gives it. Whether a slot is behind its ticket or ahead
of it is the sign of a difference of 64 bits: `moves` keeps the tail from moving by half the range
of its counter between a producer's load of the tail and the use of it, which no run of the
program lasts long enough to do.

### TicketFifo, BatchFifo, Deque

What the containers promise, without cells, credits or cursors. `TicketFifo`: calls reserve
contiguous runs at the tail of one bounded queue, each entry is filled or abandoned by its
owner in order, the consumer takes the head once filled and skips it once abandoned.
`BatchFifo`: batches are appended at once, the consumer removes exactly the items it looked at,
or any number of them while a view is open. `Deque`: a bounded sequence with pushes and pops at
both ends, which evict or refuse when it is full. `Mpsc!F`, `Spsc!F`, `Vyukov!Fifo` and
`RingBuffer!D` are the refinement mappings.

### Logger

Who builds, who logs, who shuts down and what the worker makes of it. The channel is a sequence
of entries that are open until they are published, and `Channel` instantiates `TicketFifo` with
it: `ChannelUsed`, checked by `MCLogger` and proved, says that `Logger` takes no step of the
channel that `TicketFifo` does not have, and `Mpsc` is shown to implement `TicketFifo`; so the
composition is by the contract between them.

| actions | code |
|---|---|
| `TestClosed`, `Reserve`, `Full`, `Publish` (`Log`) | `log` and the sender's `push`, in its three accesses; a refused message is counted |
| `CheckInitialized`, `OpenFile`, `Claim`, `Spawn` (`Build`) | `LoggerBuilder::build`; the file may not open, the claim may be lost, the thread may not start |
| `StartShutdown`, `Timeout`, `Close`, `Join` (`Stop`) | `Logger::shutdown`, also on drop: the order, its deadline, `close`, join or detach |
| `StartRun`, `ReadClosed`, `StartDrain`, `DrainNext`, `EndDrain`, `TakeDrops`, `TellDrops`, `CheckClosed`, `FlushOutput` (`Work`) | `LogWorker::run`, `shutdown` and `drop` |
| `Freeze` | a write that never returns |

`history`, `dropped` and `closedAt` are history variables. `Write` is what the file manager
does to a message: kept, or after its shutdown lost.

### FileManager, CivilDate

One thread uses the file manager, so a call is one action; a call is a set of outcomes, one for
each way in which its writes, fsyncs and opens may fail, and for a midnight between two of its
readings of the clock. `Start` is `FileManager::new` with the resume rule
(`find_max_used_number`), `Write` is `write` with `write_message`, `Flush` is
`write_buff_to_file` with both rotations, `GetNextFile` writes the footer, syncs and switches,
`Shutdown` is `shutdown` and `drop`, `Exit` the end of the process after it. `Crash` kills the
process, also within a rotation; `PowerLoss` keeps only what was synced. Contents are lengths. A
failure to create the folder or the first file fails the build and leaves no manager, so it has
no state here. The resume rule reads numbers with `parse::<u32>`, which also accepts a sign,
against the comment at `logger/src/file_manager.rs:372-373`; file names are structures here and
this is not modelled.

`CivilDate` is `unix_secs_to_utc`, of which the logger and the tasks macros each hold a copy,
against a calendar that counts day by day. Seconds since 1970 are split into days and seconds
of the day, because TLC's integers have 32 bits.

`FileManager`, `LevelFile`, `CivilDate`, `TaskFile` and `TaskMacro` are EXTENDed together by
`FilesProofs` and `MCFiles`, so the names that would meet are `LevelInit`, `LevelNext`,
`DateInit`, `TaskInit`, `MacroInit` and so on; `Registry`, `ThreadSpawn`, `PageLock`,
`PriorityClass`, `Snapshot`, `Vyukov` and `RingStatistics` do the same with `Registry...`,
`Spawn...`, `Page...`, `Class...`, `Snapshot...`, `Ref...` and `Stat...`.

### LevelFile

`ResolveMinLevel` is `build()`'s choice between the level set in code, the file and the
default, with the save of an explicit level; `Stat` and `ReadWorks` / `ReadFails` are the two
halves of `poll_min_level`; `Edit` is the operator. File operations may fail up to
`MaxLevelFaults` times.

### RingCursor, RingBuffer, RingStatistics

`RingCursor` is the arithmetic of a window over a storage of a power of two. `RingBuffer` adds
the storage, whose slots hold a value or `Uninit`, so a read of, or a write over, the wrong slot
shows; a drain is the pair of raw slices that `drain_front` computes, read item by item and
dropped anywhere. `RingStatistics` takes the window as the `Deque` that `RingBuffer` is shown to
implement, and models both accumulators: `LossyAccumulator` in saturating integers,
`WelfordAccumulator` in exact arithmetic. Samples are multiples of a unit that every count
divides, so the means are integers. `status()` decides on `f64` values: `F64` is what the
conversion makes of an integer, exact up to `Exact` (2^53 in the code) and anything beyond it, so
`ConstantIsOkay` is about samples that `f64` holds. The rounding of Welford's mean and moment is
not modelled.

### Registry, ThreadSettings, ThreadSpawn, PriorityClass, PageLock

`Registry` is `watch` (`Duplicate`, `Refuse`, `Enrol`), `unwatch`, `purge_dead` and
`Snapshot::capture` as a walk under the lock; `Start`, `Exit` and `Release` are Windows', which
gives an identifier out again only when no handle refers to its old thread. `ThreadSettings`
translates affinity, priority and boost on both sides of a Win32 call. `ThreadSpawn` is
`Builder::spawn`: the thread applies each setting, sends its report and runs the closure, or
dies; `Receive` and `ReceiveFails` are the caller. `PriorityClass` is `set_class`, in its two
calls. `PageLock` is `mem/lock.rs`, with Windows as that file describes it: page locks are
not counted, a lock is refused beyond the working set's minimum, and an unlock that fails may
have unlocked nothing or just the pages that were locked.

### TaskMacro, TaskFile

`TaskMacro` reads the rows of a `task!` call, the last one with or without its comma, into a task
or panics (`ReadRow`, `Build`), and collects from the same tokens the paths
(`CollectEnumPaths`) that the expansion shows to the compiler. A row is any sequence of tokens,
right or wrong, of a set given as `TypedRows`. `TaskFile` is `publish_task`:
`Read`, `Render` (with the comparison and the preserved `Created`), `WriteTemp`, `Rename`, in
several compilers at once, with file operations that fail and processes that die. Before it,
`BuildTask` is the expansion up to `TaskBuilder::build`, which takes the source as it is and
the time that the rendering will show (`at`); the source may be edited, and another compiler may
publish, before the file is read. So a compiler that built its task first may write last, and
`Created` may be later than `Updated`. The markdown
is a sequence of pieces, so that the search for markers finds them where the text holds them.
`doc` is the task's file and `temp` each compiler's temporary one; `EditTask` is the programmer.
The history variable `present` says whether the file was there at first.

## Runs

Components that do not interact share a run. Its module declares the variables of all of
them and a variable `part`, which never changes: a behaviour is one of the parts, and the other
variables keep their initial values. So the states of the run are the union of the states of
the parts, not their product. The modules that the run's module EXTENDS are a part each, or two;
their properties are checked as they are, which is what the theorems below state. Those of
instances are joined under one name, each under the condition `part = ...` where it needs it.
TLC evaluates a definition without variables once for a module that the model EXTENDS and all
instances of it, whatever constants these are given; so an instance of a module that has such
definitions (`RingSlots`, say) is put in a run that does not extend it. `TightRings` is about such
instances of two rings and a matter of its own in the run of the logger. `MCMpscLive` runs two
programs over one component.

| run | parts and instances | properties |
|---|---|---|
| `MCMpscSafety` | Mpsc: N=2, W=4, 2 producers, 1 value, explicit close | `TypeOK`, `NoOvercommit`, `CreditsAddUp` (no credit lost or made up), `CellExclusive` (a cell has one owner), `ResidueExact` (the drop of the ring finds exactly the live values) |
| `MCMpscFifo` | Mpsc: N=2, W=4, 2 producers, 2 values, no explicit close | `FinalNone` (an empty pop after `is_closed()` is final), `LastDropCloses`, `Fifo` (implements `TicketFifo`) |
| `MCMpscLive` | Mpsc with 2 producers: a consumer that may stop anywhere, and one that polls | `CallsReturn`, `TicketsLeave` |
| `MCBuffers` | RingBuffer with 5 of 8 slots and dropped values; Snapshot with 4 addresses, 6 publications; Vyukov N=2, W=8, 2 producers with 4 messages; RingStatistics over 3 samples, 12-bit sums and an `f64` of 4 bits, driven by a window and directly | `ExactlyWindow`, `WindowWalks`, `IsDeque` (implements `Deque`), `SnapshotSound`, `ReferenceIsFifo`, `StatisticsFollow` |
| `MCFiles` | FileManager with one fault, once with messages that bypass the buffer and midnights within calls, once without; LevelFile; TaskFile with races on a new or an existing file and one failing access, and with one compiler while only the line of the task moves; TaskMacro; CivilDate | `LevelHolds`, `Accounted`, `CallIsExact`, `UtcIsGregorian`, `Durable`, `RotatedFilesStopGrowing`, `RotatedInTime`, `DocumentHolds` |
| `MCLogger` | Logger: 2 producers and 1 builder on a channel of 2, 2 messages each; 2 racing builders, failing threads, a freezing disk; Spsc N=4, W=8, both closes; RingBuffer with 4 of 4 slots and plain values | `Delivered` (what was queued before the end is written once and in order, each refused message is in one report), `OneWorker`, `ChannelUsed`, `TightRings` |
| `MCWincore` | ThreadSpawn with every request; Registry with 3 identifiers, each used twice, 3 handles and 2 watchers; PriorityClass; PageLock with 6 values on 4-byte pages | `NothingPartial`, `ReportComplete`, `DeniedIsDowngraded`, `PagesFollowGuards`, `RegistrySound` |
| `MCProgress` | Spsc N=2, W=4, 2 values, with every call and with a steady program; Snapshot, Logger, LevelFile, ThreadSpawn, TaskFile, small | `CursorInv`, `Ownership`, `FinalNone`, `Fifo` (implements `BatchFifo`), `Flow`, `CallsAnswered`, `SourcesFollowed` |
| `MCMpscBusy` | Mpsc | violates `BusyMeansReserved`: finding 1 |
| `MCMpscClosed` | Mpsc, explicit close | violates `FinalNoneAsDocumented`: finding 2 |
| `MCFileUndated` | FileManager, undated names | violates `RotatedFilesStopGrowing`: finding 3 |
| `MCLoggerLate` | Logger, 2 producers on a channel of 2, one message each | violates `DrainedIsFlushed`: finding 4 |

The largest are `MCWincore` (0.7 million states), `MCLogger` (0.6 million) and `MCFiles` (0.4
million); `MCProgress` has over 0.1 million, `MCBuffers` 44,000.

## Bounds and symmetry

No variable of the two rings is unbounded: the runs of `Mpsc` and `Spsc` visit every reachable
state of their instance and no counter is cut off. N = 2 is the smallest legal ring: a batch
fills it, a hole and a value sit side by side, and a slot is reused by the second next ticket.
Two producers are enough for one to race the other at every access, and for a run of one to sit
behind the other's. N = 4 in `MCLogger` lets batches and views wrap in the middle.

The other bounds, and what they let happen:

- `MaxVersion` publications of `Snapshot`: six over four addresses reuse every address.
- `MaxMsgs` messages per producer of `Vyukov` and `Logger`: eight pushes wrap the cursors of
  the baseline queue; two messages on a channel of two leave one reserved while another is
  refused, before, at and after the shutdown order. In the part of `MCLogger` with racing builders
  (`Few`) either one producer or none goes past its first message.
- `MaxGiven` bytes, `MaxDay` days and `MaxFaults` faults of `FileManager`: seven bytes fill a
  file of four twice; a rotation by size, one by day and a failure of either fall together.
- `MaxEdits` of `LevelFile`, `MaxTime` of `TaskFile`: each poll and each expansion can meet an
  edit before, between and after its two accesses. `MaxTaskFaults`: one access that fails, or
  one process that is killed.
- `MaxGen` threads per identifier of `Registry`: an identifier is reused while an entry of its
  first thread is still there. `MaxCalls` of `PriorityClass`, one caller: two threads
  contradict the documentation (below).
- `MaxRows` of `TaskMacro`: every field once and one field twice. The rows but those of the
  name and the priority come in one order.
- `Years` of `CivilDate`: of every kind of leap year, with all of their days.
- 12 bits in `RingStatistics`: the squares of the samples fill a 14th, most, and more than all of
  the range. `Exact` = 16 lies between the samples: 42 becomes 40, and a window of 42s alone, whose
  products fit, is reported `Unstable`, as the code does with wide integers. `Limit` = 5 is
  exceeded by some windows and not by others.

Symmetry is used in runs without liveness only, and only over a set of model values that
each part of the run uses whole or not at all; where a part needs a subset (a single builder,
say) the set that is permuted leaves its members out.

The deadlock check is off in every run: programs are free to stop, and at the bounds they do.
That a call in progress is never stuck is what the properties of `MCMpscLive` and `MCProgress`
say.

## Fairness

- *Mpsc*, `CallsReturn`: weak fairness of each producer thread inside a call and of the
  visibility of stores. The operating system schedules threads, caches are coherent, an
  iterator handed to `push_iter` returns. Nothing is assumed of the consumer, not even that it
  finishes a call: this is the claim of the source that the spin is bounded by a credit
  returned after the recycle. `TicketsLeave` adds weak fairness of a consumer that keeps polling.
- *Spsc*, `Flow`: weak fairness of both sides of a program that keeps pushing and popping.
- *Snapshot*: weak fairness of calls in progress; publications are bounded, since
  `Reader::close` promises to return only once they pause.
- *Logger*, `ShutdownReturns`: weak fairness of the worker, of the deadline, of every push and
  of the one that shuts down, with a disk that answers (`MayFreeze = FALSE`).
- *LevelFile*: the worker polls. *ThreadSpawn*: the new thread and its caller run.
- *TaskFile*: an expansion that started, or that panicked, comes to its end. Nobody promises that
  another one starts, so `FileFollows` has a condition, `Settled`: the source is at rest, accesses
  work, the expansions of older versions have ended, and one of the last version is about to
  read the file. Without the last two the file may keep an older version: a late expansion of
  an older version renames over the new file, and one that has read the file before another
  published leaves it as it is when it believes that nothing changed.

## Findings

1. **`try_pop` answers `Busy` on an empty channel** (`channel/src/mpsc/queue.rs:444`).
   `cached_tail` is loaded, then a producer reserves and abandons slots, then `skip_abandoned`
   skips those as well: `head` is now past `cached_tail`, `check_if_empty` compares for equality
   only, and `try_pop` returns `Busy` until something is pushed, although no slot is reserved.
2. **After `close()`, a `None` is not final** (`channel/src/mpsc/queue.rs:331`, against
   `mod.rs:49-57` and `queue.rs:556-561`). A push that passed its `is_closed` test before the
   close publishes after it. The protocol is right when the channel is closed by dropping the
   producers, which `FinalNone` checks.
3. **Undated log files are reopened after midnight** (`logger/src/file_manager.rs:97`). The
   number is reset to 0 on the first rotation of a new day even when names carry no date, so
   files that an earlier rotation closed grow again.
4. **Messages read by the drain of `LogWorker::drop` are lost** (`logger/src/worker.rs:148`).
   The last drain of `shutdown` stops at a slot that is reserved and not yet written; what is
   queued behind it, its push answered, is read by the drain of `drop`, after the file manager
   was shut down. The run has two producers: one has reserved, the other has published behind it.

Each has a run whose property is violated. The following disagreements between the code and
its documentation were met while modelling. They have no run: a property of the models states
what holds instead, or the condition under which it does.

- `logger/src/file_manager.rs:267`: a message as long as the buffer goes to the file without
  the rotation test, so a file exceeds `max_size` ("Rotates once the current file would exceed
  this many bytes", `builder.rs:100`) by any number of them. `FileWithinMaxSize` is stated for
  messages that fit.
- `logger/src/file_manager.rs:302`: undated files do not rotate at midnight, against "rotates on
  `max_size` and on the UTC day boundary" (`lib.rs:21`).
- `logger/src/file_manager.rs:251`: `new` reads the clock three times; a midnight in between opens
  the old day's file with the boundary after the new day. `DailyStep` is stated for a clock
  that stands still within a call.
- `logger/src/file_manager.rs:185`, `:269`, `:315`: the gauge of consecutive failures stays up
  after the failing file was rotated away (`metrics.rs:117-118`); the size gauge is not
  refreshed by a message that bypasses the buffer (`metrics.rs:115`); the counters are reset for a
  footer that then cannot be written (`metrics.rs:3-4`).
- `logger/src/logger.rs:104`: the join after a delivered order has no deadline, so a stalled
  disk blocks `shutdown`, against `lib.rs:34-35`. `ShutdownReturns` assumes a disk that answers.
- `logger/src/logger.rs:133`: a push that straddles the close can end with `Ok` after the
  worker's last look; its message is neither written nor counted, against "loss is visible,
  never silent" (`lib.rs:6`). `QueuedIsWritten` is about what was reserved before the order.
- `logger/src/worker.rs:112`: the modification time is stored before the file is read; when that
  read fails the edit is never applied (`lib.rs:31`).
- `logger/src/builder.rs:255`: when an explicit level cannot be saved, the old file takes over
  at the first poll ("the code stays the single source of truth", `builder.rs:133-135`). `LevelHolds`
  is checked and proved for file operations that work.
- `wincore/src/monitor/snapshot.rs:32`: `swap_remove` leaves the registry unsorted, against
  "in thread id order" (`snapshot.rs:15`).
- `wincore/src/monitor/threads.rs:102`: enrolling an ended thread again replaces its entry,
  against "keeps the first entry" (`threads.rs:141`). `KeepsFirstAlive` is about living threads.
- `wincore/src/process/class.rs:80`: two threads that set different classes can both be told
  `PermissionDenied` although nothing was refused (`class.rs:69-71`).
- `ring_buffer/src/ring_statistics.rs:279`: the exact test for a constant window gives up when a
  product overflows, and reports `Unstable` (`:276-277`). `ConstantIsOkay` has the products fit.
- `ring_buffer/src/ring_statistics.rs:274`: the exact test is reached only when the rounded
  variance is not positive. With `i128` and the single sample 2^53 + 1 the mean rounds to 2^53, the
  variance to 2^54, and a constant window is `Unstable`. `ConstantIsOkay` has samples that `f64`
  holds; the instance has a sample, 42, that its `f64` does not, and the property fails of it
  when this condition is left out.
- `tasks/macros/src/main_macro.rs:117`: two first expansions, or a read that fails for
  another reason than a missing file, replace `Created` (`:135-136`). `KeepsCreated` is
  about a file that is there and can be read.
- `tasks/macros/src/core.rs:158`: the time is taken before the file is read
  (`main_macro.rs:15`, `:116`), so of two compilers the one that built its task first may update
  the other's file, whose `Updated` then moves back before its `Created` ("let only `Updated`
  move", `main_macro.rs:135-136`). `IsRendering` bounds both by the clock and does not order them.
  The model's clock itself never goes back.
- `tasks/macros/src/main_macro.rs:152`: a path or a text with a marker word in it confuses the
  comparison, and a change is never written (`:149-150`). `TaskAssumption` excludes marker words,
  so neither the runs nor the theorem say anything of such a path.
- `tasks/args/src/lib.rs:12`: `from_str` is documented as case-insensitive and is, but the
  expansion shows the path as it was typed to the compiler, which refuses another case.

## Proofs

TLAPS checks these for every value of the constants that satisfies the assumptions of the module
(`CursorAssumption`, `MpscAssumption`, `SpscAssumption`, `SnapshotAssumption`, `RingAssumption`,
`BufferAssumption`, `LoggerAssumption`, `FileAssumption`, `LevelAssumption`, `DateAssumption`,
`TaskAssumption`, `MacroAssumption`, `StatisticsAssumption`, `RegistryAssumption`,
`PageAssumption`, `ClassAssumption`; `MaxMsgs \in Nat` for `Vyukov`), and TLC evaluates the
assumptions on each instance. Every theorem rests on an inductive invariant, with one case per
action. A theorem in italics states no property of a run by itself; every other one states a
property that a run checks on its instance.

| module | theorems | what the invariant adds |
|---|---|---|
| `CursorProofs` | the arithmetic of cursors and slots | - |
| `MpscProofs` | `MpscTypeCorrect`, `MpscNoOvercommit`, `MpscLastDropCloses`, `MpscCreditsAddUp`, `MpscCellExclusive`, `MpscResidueExact`, `MpscFinalNone` (without explicit close), `MpscImplementsTicketFifo` | `CallState`: what the program counters say of the locals of a call; what each cell of the lap from `head` on holds; that the runs of the producers are apart and inside the ring |
| `SpscProofs` | *`SpscTypeCorrect`*, `SpscCursorsOrdered`, `SpscOwnership`, `SpscFinalNone`, `SpscImplementsBatchFifo` | the order of the four cursors; then what each slot holds |
| `ChannelProofs` | `SnapshotIsSound`, of which *`SnapshotListSound`*, *`SnapshotNextWrittenOnce`* and *`SnapshotClosedIsFinal`* are the parts; `ReferenceQueueIsFifo`, *`ReferenceInvariant`* | payloads differ and follow each other; only the last node is released or closed, and by whom; what each ticket's cell holds, who owns it, and how stale a looked-at ticket may be |
| `RingBufferProofs` | `RingExactlyWindow`, `RingWalksFollow`, `RingIsDeque`; `StatisticsHold`, `TrackedStatisticsHold` | where the two slices of a drain end; that both accumulators are functions of the window's length, sum and sum of squares |
| `LoggerProofs` | `LoggerOneWorker`, `LoggerDelivered`, `LoggerUsesTicketFifo`, *`LoggerTypeCorrect`* | who owns each open entry, which tickets are written, how far each order, drop and report has come |
| `FilesProofs` | `BytesAccounted`, `CallsAreDurable`, `DatedFilesStopGrowing` (with dates), *`FilesStaySmall`*, *`DaysStartFiles`*; `LevelSourceHolds` (with `MaxLevelFaults = 0`), *`LevelTypeCorrect`*; `UtcFollowsCalendar`; `TaskDocumentHolds`; `CallsAreExact` | where the bytes are and in which order files are named; modification times grow, and a saved level is in the file until the first edit; the day's number in the calendar; every version a compiler has read, rendered or written is one whole rendering; the paths of the tokens read so far |
| `WincoreProofs` | `RegistryIsSound`; `SpawnNothingPartial`, `SpawnReportComplete`; `PageGuardsHold`; `ClassDeniedIsDowngraded` (one thread sets the class) | an open handle keeps its thread's identifier, a walk's rest is untouched; the report is truthful and as long as the thread has come; what the two calls of `set_class` have found |

*Cursors.* Distances are taken modulo `W`. `AdvanceFront` and `AdvanceBack` say how they change
when a cursor moves across the wrap, `SlotsApart` that tickets of one lap have cells of their
own, `SlotsCovered` that a lap covers the ring; this uses that `N` divides `W`.

*Mpsc.* `IndInv` is `TypeOK /\ CallState /\ LastDropCloses /\ NoOvercommit`. `TypeOK` alone is not
inductive: `left - 1` and `remaining - 1` stay in range only because of what `CallState` says of
the program counters. `NoOvercommit` needs the sum of `owed` over all producers, defined as the
size of a set of pairs so that it needs no recursion; `TotalUpdate` says how one producer's step
changes it. `LastDropCloses` needs that `producers_count` is the cardinality of `handle`, so that
a count of one means the last handle.

`CellInv` adds the cells. The `N` tickets from `head` on (`Lap`) have one cell each. A ticket
that is free, or taken and not settled by its producer (`Pending`), has an empty cell, whose
sequence number is the ticket, or one past the ticket of the lap before while that recycle store
is not visible (`Blank`). A settled ticket's cell is published with a value or abandoned without
one (`Settled`). The popped head, before its credit goes back, is `Emptied`. `Runs` says that
a producer owns tickets only inside the ring and that no two own the same one. Each part is
needed by another: a writer finds an empty cell because the store it waited for was that of its
own lap (`Recycles`), and the tail cannot lap the head because of `CreditsAddUp`. With `CellInv`,
`ResidueExact` is a matter of arithmetic, and each entry of `F`'s queue can be read off its
ticket (`EntriesAre`): taking tickets is `Reserve`, publishing or abandoning is `Settle`, and a
recycle store that becomes visible changes no entry. `MpscFinalNone` needs two more facts:
once the channel is closed and the consumer lives, no producer is left (`Threads`), so the tail
stands still and a drain covers the ring (`Answers`).

*Spsc.* `IndInv` is `TypeOK /\ CursorInv`, where `CursorInv` orders the cursors and bounds the
locals of each call by the distance its handle saw. `FillInv` adds which slots hold values, and
the end of the channel: once the consumer has seen it closed, no push is in progress and
`tail` stands still. `SpscImplementsBatchFifo` maps the window to a sequence; each step is a
step of `BatchFifo` or leaves the sequence alone.

*Snapshot.* `SnapInv` is the list invariant of the runs with `Nodes`, `Ends` and `Ahead`. `HeapExact`
says that the payloads are the interval from `seen` to `published`, and how many nodes there are;
`Nodes` adds that no two nodes carry the same payload and that the successor of every node but
the last is allocated, so the reader's node is the only one with payload `seen` and freeing it
removes `seen` alone. `Ends` says that the released flag is set on the last node only, that it
counts one end that has left, and that an end leaves from a closed last node: hence the end that
finds the flag set frees the only node there is. `Ahead` says that the pointer a call of the
reader holds is still the next of its node, which is why `Walk` may follow it. The address of a
freed node may be used again at once; the proof needs nothing of which address comes next.
`MaxVersion` bounds `Publish` in the model and may be any number.

*Reference queue.* `RefInv` says of the `N` tickets from `head` on that those taken are published,
with a message that was accepted, or owned by one producer that has not stored its sequence
number yet, and that the slots of the others wait for them (`TicketState`, `ClaimState`). A
producer that still looks at a ticket may hold a stale one; `LookState` says how stale, by less
than half the range less a lap, so that `TestSeq` reads the sign it means: a slot behind its
ticket is a slot that `N` taken tickets hold, which is what a refusal promises, and a slot ahead
of it is a stale ticket. `MessageState` and `TookState` say where each accepted message is, in one
cell of the ring or handed over once, up to the drop of the ring, which takes what is left.
`ReferenceQueueIsFifo` maps the tickets from `head` to `tail` to the entries of `TicketFifo`.

*RingBuffer.* `IndInv` is `TypeOK /\ ExactlyWindow` with `DrainInv`, which says where the two
slices of a drain begin and end in the storage, and `DrainTracksHead`, that the value about to be
read lies at the head the drain has moved. `RingIsDeque` maps the window, read in logical order
from `head`, to the sequence of `Deque`. A call that moves the head or writes a slot changes
that sequence at one end: the lemmas about sequences of slots say how, wrapped or not, so each
call is a push, a pop, an eviction or a refusal of the deque with its answer, and a step inside a
drain pops one.

*RingStatistics.* `StatInv` says that the sums of an accumulator that has not overflowed are
those of the window, and that Welford's mean and second moment are what the window's length, sum
and sum of squares give (`LossyIs`, `WelfordIs`). What the recursive `Sum` and `Fed` compute is
proved by induction over numbers: the library's induction theorem takes an operator and cannot be
used, so `Induction` is a lemma about sets of numbers, from the well-foundedness of `<`, and
`LoopExists` the existence of a function that a recursion defines. A sample that enters or leaves
moves the sums by its own value. A sum is never larger than the sum of squares, and the squares
only grow while samples enter, so a flag rises only when the squares do not fit, however the sums
got there. Of `F64` the proof uses only that it is the identity up to `Exact` and an integer
beyond: the mean of a constant window of such samples is exact, and the two roundings of its
square are the same, so the variance is 0 and the exact test decides. The means are integers
because every length divides `Unit`, which divides every sample: `WelfordIs` needs this at each
step. `TrackedStatisticsHold` is the same for an accumulator fed by hand, whose samples leave in
any order.

*Logger.* `LogInv` has a part for each thing that can be wrong. `Tickets`: the channel holds what
the last tickets stand for, and an open entry has one owner, which is about to publish it.
`Writing`: the messages among the tickets that left the channel are those of the log, as many and
in their order. `Ending`: at most one order is in the channel's history, given by the thread that
owns the handle (`Orders`); a worker that runs, a `close()` and a closed channel each say where
that owner stands (`Owner`); the worker leaves its loop with an order it has read, or because it
is alone (`Phases`); and a file that was closed holds what is owed (`Paid`). `Reports`: the
refused messages are those of the reports, of the count not taken yet and of the one being told.
`Delivered` follows from `Writing`, `Paid` and `Reports` when the worker has ended. `OneWorker`
needs its own part: a builder gets past the claim through the `OnceLock` only. `ChannelUsed` is a
refinement: `TicketFifo` with the entries of the channel as its queue.

*FileManager.* A call is a chain of set-valued steps, so the proof has two layers. `Call(s, owed,
top)` holds in the middle of a call, when `owed` bytes were given and not dealt with yet and the
current file is not longer than `top`; every helper (`WriteFile`, `Sync`, `NextName`, `Footer`,
`Switched`, `FlushRotatingBySize`, `RotateByDay`, `Flush`, `WriteMessage`) has one lemma that says
what it does to `Call`. `FileInv` is `Call(m, 0, MaxSize)` while the process runs, and what is
left of it while none does. Its parts:

- `Booked`: bytes counted as written, now or by earlier footers and processes, are on disk or
  were taken back by a power loss; bytes given are those, plus lost, buffered, discarded and owed
  ones. The bytes on disk are the size of a set of pairs (file, place), so that no sum over files
  needs recursion. This gives `Accounted`.
- `EarlierSynced`: of the files of this process only the current one may hold unsynced bytes,
  since a rotation syncs the file it leaves. This gives `Durable`.
- `Ordered`: every file is named before the present name, and a file that was rotated away from is
  of an earlier day or has a later file beside it in its folder. So the next name is that of a new
  file, and a restart, which resumes at the largest number of today's folder, never resumes in a
  rotated one. This gives `RotatedFilesStopGrowing`, for dated names only: without dates the
  number goes back to 0 and `MCFileUndated` shows the file that grows.
- `Sized` and `OnTime`: the length on record is that of the file, and the day boundary is at most
  a day after the current file was opened. These give `FilesStaySmall` and `DaysStartFiles`, the
  two halves of the run's `RotatedInTime`, under the conditions that the code needs: messages
  that fit in the buffer, and a clock that does not pass midnight within a call. Neither half
  says anything after a rotation failed.

*LevelFile.* `TimesFollow` says that the recorded modification time is not ahead of the file's and
that the text behind it was read, but for the poll in progress. With accesses that fail
`CodeIsTruth` is false (see the findings), hence the assumption.

*CivilDate.* `DateInv` says that `date` is a day of the calendar and `days` its number, which is
what a calendar that counts day by day needs (`NextDay`). That the code answers this day is
arithmetic: years are counted from the 1st of March (`MarchCount`), a year is an era, a century of
it, four years of that and one of those (`YearParts`), and each whole division of the code finds
its part again (`YearOfEraIs`, `EraIs`, `MonthPartIs`).

*TaskFile.* Where the markers of a rendered document are (`MarkersAt`) gives what the three
searches of `publish_task` cut out of it, so an update of a document is that document with another
task and another stamp, and its own `Created` (`PreservedIs`). `TaskInv` says that
everything a compiler has read, rendered or written, and the file, is one whole rendering of some
task with stamps, in any order, no later than the clock (the time `at` that a compiler has taken is
none later either), that an update was rendered only if `TaskIsUnchanged` said no, so
that replacing the version it was made from changes the task, and that without failures a `Created`
that was there at first is still there, however many compilers race. `TaskAssumption` keeps marker
words out of paths and texts (see the findings).

*TaskMacro.* What the compiler is shown comes from a scan over all tokens that knows nothing of
rows. `CollectJoin` says that the scan of tokens that end in a comma, and others behind them, is the
scan of each part: no path goes across a comma. `RowShows` says that the scan of one readable row
finds its own path and nothing else, neither in the field's colon nor in a literal. So the paths
of the tokens are those of the rows, row after row (`MacroInv`). Both the scan and the list of
the rows' paths are recursive functions; each is shown to exist and to be the only one of its kind
(`ScanExists`, `ScanIs`, `ShownExists`, `ShownIs`) with `Induction`, as for `RingStatistics`.

*Registry.* A handle in use keeps Windows from giving its identifier to another thread
(`HandleCurrent`), so an entry is current while its thread has the identifier; without it
`OwnHandle` is not inductive. `Walk` says that the part of the registry that a capture has not
visited is as it was when the capture began, although `swap_remove` moves the last entry into
the hole of one that was found dead: the walk goes from the end, so what moves was visited. A step
rearranges the entries it keeps (`Rearranged`); that the entry of a living thread is among them,
unless it is unwatched, rests on its being current (`LivingEntryStays`).

*PageLock, PriorityClass, ThreadSpawn.* `PagesFollowGuards` is inductive with the types of the
guards. `ClassInv` says what the class is after the first of the two calls of `set_class`; it
needs that no other thread sets the class in between. `SpawnInv` says that the report tells the
truth of each setting tried so far (`Truthful`) and that there is one answer per setting tried
(`Complete`).

Model-checked only:

- all liveness, `CallsReturn`, `TicketsLeave`, `Flow`, `CallsAnswered` and `SourcesFollowed`, which
  rests on fairness and is outside what TLAPS proves;
- `TightRings` and `RotatedInTime` as such. The first joins the properties of `Spsc` and of
  `RingBuffer` on two more instances, which the theorems about those modules cover; the two halves
  of the second are *`FilesStaySmall`* and *`DaysStartFiles`*.

## Not modelled

- Single-call wrappers of Win32 (CPU times, memory counters, process queries): no state of
  their own.
- Text: the formatting of log lines, metrics and reports, the rendering of a task beyond its
  markers, error types.
- The gauges and the remaining counters of the metrics; the rounding of `f64` but in the status
  of `LossyAccumulator`.
- The `len`, `is_empty`, `is_full` and `free_space` observers of the channels, which read only.
- The search for the workspace root by the tasks macros.
- The allocator failing, and a panic in a value's own `drop`.
- Benches, tests, CI; the loom shims and the cache padding of the channels.
