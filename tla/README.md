# TLA+ models of ZephyrLog

Specifications, TLC runs and TLAPS proofs for ZephyrLog, a C++17 asynchronous
logging library. Source lines are those of the repository (`src/ringbuffer.cpp`
is `src/src/ringbuffer.cpp` in `PROJECT.json`, which counts from one level up).

## 1. The system

| Component | Source | State | Operations |
|---|---|---|---|
| RingBuffer (Quick) | `src/ringbuffer.cpp`, `ringbuffer.h` | ring of items (lock, `written`, line), `m_writeIndex` (atomic), `m_readIndex` (consumer only) | `push`, `tryPop` |
| QueueBuffer, Buffer (Safe) | `src/queuebuffer.cpp`, `queuebuffer.h` | queue of Buffers, current write and read Buffer, write and read index, one lock; per Buffer the items, their states and a count | `push`, `setupNextWriteBuffer`, `tryPop`, `getNextReadBuffer` |
| BufferBase | `bufferbase.h` | interface of the two | `push`, `tryPop` |
| SpinLock | `spinlock.h` | a flag | lock in the constructor, unlock in the destructor |
| AsyncLogger | `src/asynclogger.cpp` | `m_state` INIT/READY/SHUTDOWN, buffer, writer, worker thread | constructor, `add`, `pop` (the worker), destructor |
| FileWriter | `filewriter.h` | current file and number, bytes written, roll size | `write`, `rollFile`, constructor, destructor |
| LogLine | `src/logline.cpp`, `logline.h` | bytes used, buffer size, stack or heap buffer | constructor, `encode*`/`operator<<`, growth, `stringify`, move |
| Logger, registry, default logger | `src/logger.cpp`, `src/zephyrlog.cpp`, `logger.h` | named loggers under a shared mutex, atomic default logger, levels | `initialize*`, `create*Logger`, `getLogger`, `set/getDefaultLogger`, `removeLogger`, `set/getLogLevel`, `ZephyrLog::operator==` |
| Macros | `zephyrlog.h` | none | level test, then the line is built and routed |

**How they interact.** A logging thread tests the level (macro), builds a
LogLine, and hands it through `ZephyrLog::operator==` or `LoggerRef` to
`Logger::add`, `AsyncLogger::add` and the buffer's `push`. One worker thread per
logger polls the buffer's `tryPop` and gives each line to `FileWriter::write`,
which formats it. Threads share: the buffer's indices, items and locks;
`m_state`; the registry and the default logger. There are no callbacks or
messages; all waiting is spinning (locks, a full Buffer), sleeping (the worker)
or `join` (the destructor).

**What is hard.**

* *Ring.* A producer owns an index long before it owns the item of that index,
  and never looks at the reader. Overwriting does not move the reader. Indices
  are 32-bit and wrap.
* *Queue.* The claim of an item (`fetch_add`), the load of the Buffer it belongs
  to, the publication of the item and the count that decides who installs the
  next Buffer are four separate atomic operations; the consumer watches only
  the third and frees the Buffer.
* *Logger.* The destructor can start at any time relative to the worker's start,
  poll and write. The final drain believes the first `false`.
* *Registry.* Registration and default are updated in two steps, one under the
  mutex and one not; the level test and the routing of a line look at the default
  logger separately; loggers live as long as anyone holds them and are joined
  when they die, by whoever lets go of them last and under whatever it has locked.
* *LogLine.* Formatting happens later, in another thread, from pointers for
  literals and copies for other strings.
* *FileWriter.* Errors are silent, and a stream that has failed stays so;
  roll-over goes by a byte count that failures disturb; restarts truncate.

**What makes each component correct.** Ring: every line is read at most once and
lost only by being overwritten; short of a lap it is a FIFO queue and `false`
means there is nothing to read. Queue: no line is lost, each thread's order is
kept, Buffers are freed when read and only then, no thread touches a freed one.
Logger: everything taken from the buffer is written; the destructor returns with
everything written. LogLine: what is printed is what was logged, and writes stay
inside the buffer. FileWriter: lines in order and without gaps across roll-overs, no earlier file
touched. Registry: the default logger is the one registered under its name until
`createLogger` gives that name to another, no logger is destroyed while a thread
is inside its `add`, levels filter what they should, and no call hangs.

## 2. Modules

| Module | Models |
|---|---|
| `BufferBase` | the abstract buffer: a set of pending lines, the sequence handed out, the set given up |
| `RingBuffer` | Quick's buffer, step by step; implements `BufferBase` with `Lossy` |
| `QueueBuffer` | Safe's buffer, step by step; implements `BufferBase` without `Lossy`, in each thread's order |
| `AsyncLogger` | the logger without its buffer: constructor, destructor, worker |
| `FileWriter` | the writer: numbered files, roll-over, failing files and streams |
| `LogDirectory` | runs of a program with one `FileWriter`, crashes and restarts |
| `QuickLogger` | `AsyncLogger` on a `RingBuffer` |
| `SafeLogger` | `AsyncLogger` between a `QueueBuffer` and a `FileWriter` |
| `LogLine` | a line from its construction to its formatting |
| `LoggerLife` | the life of loggers as `AsyncLogger` relies on it |
| `Registry` | the library's interface: registry, default logger, levels, macros; implements `LoggerLife` |
| `*Proofs` | theorems, see section 4 |
| `MC*` | the instances TLC checks |

**Granularity.** One action per atomic operation on memory other threads can
see; steps on local variables are merged into the next shared one. Spinning is a
guard: a failed `test_and_set`, or another look at a full Buffer, changes
nothing. Code that only one thread uses (`FileWriter`, `LogLine`) has one action
per function.

Definitions headed "slips" are mutated copies of actions. No specification uses
them; each shows, when put in the place of the original, that a property
notices.

**`RingBuffer`.** `writeIndex`, `readIndex`, `flag`, `written`, `logline` are
the members of the ring and its items; `pc`, `index`, `pushed` the producers'
position and locals; `pop`, `item`, `out` the consumer's. `push` is `Claim`
(line 44), `PushLock` (47), `PushMove` (48), `PushMark` (49), `PushUnlock` (50);
`tryPop` is `PopLock` (63-65), `PopMove` (66-68), `PopClear` (69-70), `PopTrue`
or `PopFalse`. Indices are taken modulo `IndexMod`, which is 2^32 in the code.
`claimed`, `popped`, `overwritten`, `lapped`, `ticket` are history that no guard
reads. `lapped` becomes TRUE when a claim finds as many lines unread as the ring
has items; from then on the ring may lose lines by design.

**`QueueBuffer`.** `heap` is the memory of all Buffers ever allocated, `freed`
those deleted, `buffers` the queue. `push` is `Claim`, then `Load`, `Construct`,
`Publish`, `Count` and, for the producer that counts the last item, the steps of
`setupNextWriteBuffer`; or `WaitOver` and `Retry`, its recursive call. Three
things C++ leaves open are choices of the model:

* *Counting in a freed Buffer* (`CountFreed`). After `Publish` the consumer may
  delete the Buffer before the producer's `fetch_add` on its count. The memory
  may still hold the count (`"intact"`), hold anything else, so that the result
  of the comparison is arbitrary (`"reused"`), or be unmapped (`"fault"`, after
  which nothing runs). `FreedOutcomes` says which of these are possible; `damage`
  is the set of those that have happened.
* *The relaxed claim* (`Loadable`). A relaxed `fetch_add` orders no later load.
  On x86-64 it is a full barrier and the load of `m_currentWriteBuffer` returns
  the current one. On AArch64, for which the repository ships a binary, any
  value not older than what the thread has already seen may be returned
  (`seen`). `RelaxedClaim` chooses.
* *Memory runs out* (`AllocFaults`). `make_unique` may throw (`"throw"`,
  `SetupThrow`): the producer leaves `push` with the exception, the lock is
  released, the index is never reset, and `failed` remembers it. The `malloc` of
  the items may return null (`"null"`): the Buffer is installed with
  `NullItems`, and the first line constructed in it faults (`ConstructFault`).
  The constructor's own first Buffer is assumed to be there.

**`AsyncLogger`.** `state` is `m_state`, `wpc` the worker's place in `pop()`,
`dtor` that of the destructor, `file` the sequence of lines handed to
`m_writer.write`. The worker's `tryPop` is the buffer's: it sets `pop` to
`"called"` and takes the result. The destructor cannot start while a thread is
inside `add()` (`adding`): that is what `LoggerLife` promises.

**`FileWriter`.** `disk` maps the numbers of the files of this name to what they
hold, a sequence of pieces: a line and how many bytes of it are there. `number`
is `m_fileNumber`, `bytes` is `m_bytesWritten`, `stream` the state of `m_os`:
open, open but failed (`"bad"`), never opened (`"closed"`), or destroyed
(`"gone"`). Every line ends in `std::endl`, which flushes: what `stringify` brings
to the file (`Flushed`) is the whole line, and nothing is left in the stream
between two writes. A stream that fails in the middle of a line keeps the
line (`stuck`), and closing it tries once more. `Write` is the whole of
`write()`, with the positions `tellp()` returns (`Position`, or `NoPosition`, -1,
once the stream has failed), the test of their difference (`Counted`) and the
roll-over, common to all outcomes (`After`): `WriteGood`, `WriteBad`, where the disk is full
after any part of the line, or `WriteIgnored` on a stream that has failed;
`terminal` is what goes to `std::cout`. `Faults` says what may fail. `handed`
and `opened` are history. In `SafeLogger` the worker's step is `AsyncLogger`'s
and `Write`'s at once, `handed` is the logger's `file`, and its destructor ends
with the writer's.

**`LogDirectory`.** `Log` is a line written, `Quit` the destructor, `Crash` the
death of the process between two calls of the writer, `CrashInWrite` inside
`write()`, before or after the terminal has shown the line and with any part of it
in the file, `Restart` the next run's constructor over the files that are there.
A crash between closing a file and opening the next leaves the disk as one inside
`write()` after the whole line does, and one inside a constructor as one before it. A line is its width and its
place in the run, so that equal lines can be told apart.

**`LogLine`.** `line[o]` holds the members of the three LogLine objects a line
passes through: the logging thread's temporary, the item, the worker's local
variable. A buffer's contents are a set of fields, each at its offset and as wide
as the bytes the code writes; the eight ArgTypes are three kinds, because the
code treats values alike, keeps the address of arrays and copies strings.
`New`, `Encode`, `Push`, `TryPop`, `Stringify` are the statement's constructor and
`<<`, the moves of `push` and `tryPop`, and the formatting; `Change` is the
program writing to a text it has logged. `Fields` reads a buffer back as
`stringify` does, from offset to offset. Arrays of characters, local ones too,
are kept as pointers, which `README.md:131` documents for string constants; what
such a line prints is therefore whatever the array holds when the worker
formats it, and `PrintsCopies` speaks of the copied texts.

**`Registry`.** `registry`, `default`, `globalLevel`, `levelOf` are
`g_registry`, `g_defaultLogger`, `g_logLevel` and each logger's `m_level`;
`writers` and `readers` hold `g_registryMutex`. Each thread has `pc`, the
parameters `name` and `level`, and the `shared_ptr`s of the functions (`arg`,
`def`) and of the program (`handle`); `target` is the raw pointer whose `add` it
is in. A logger lives while some `shared_ptr` owns it (`Owned`). A step that
takes away the last owner makes its thread run the destructor on the spot
(`Reclaim`: the logger joins `doomed[t]`, and the thread does nothing else, the
mutex included if it has it, until `Destroy`). `initializeQuick` is `Initialize`
to `StoreDefault`, and `setDefaultLogger` is the same after its test for null;
`createLogger` is `Create` to `CreateReturn`, `getLogger` is `Get` to `GetFind`,
`removeLogger` is `Remove` to `RemoveUnlock`, `setLogLevel` is `SetLogLevel` to
`LevelSet`. A macro of the default logger is `Log` (its `getLogLevel()`),
`Filter`, `Route` (`ZephyrLog::operator==` loads the default again), `Add`,
`AddReturn`, `LogReturn`; one of a named logger is `LogTo`, `AddTo`, and the
same end. A program that logs through a `LoggerRef` is taken to hold a
`shared_ptr` to the logger as long as it does (`handle`). `shadowed`, `raced` and
`disturbed` are history (section 3).

## 3. Runs

| Run | Bounds | States | Shows |
|---|---|---|---|
| `ring_buffer` | 2 producers, 2 items, 3 lines each, indices mod 4 | 79,568 | type, `Accounted`, `FifoUnlessLapped`, `FalseMeansDrained`, implements `BufferBase`. Six claims on two items: three laps, one wrap of the index |
| `quick_logger` | as above, 2 lines each | 11,943 | Quick from constructor to destructor: `ShutdownKeepsAllUnlessLapped`, `PoppedIsWritten`, liveness |
| `queue_buffer` | 2 producers, 2 items, 3 lines each, all `FreedOutcomes` and `AllocFaults` | 1,071,383 | `NothingLost`, `ResetSafely`, `BuffersReclaimed`, `FullIsReplaced`, `FlagGuardsQueue`. Six lines fill three Buffers |
| `safe_logger` | as above, 2 lines each, freed memory intact, allocations may throw, roll size of one line | 12,625 | Safe from constructor to destructor and to the disk: `ShutdownKeepsAll`, `HandedIsSaved`, implements `BufferBase`, liveness. Four lines fill two Buffers and two files |
| `logline` | real sizes (224, 512, 37, 8), 9 arguments, 2 lines of at most 2 | 479,495 | `WithinBuffer`, `ReadsBack`, `PrintsCopies`. The strings fill the stack buffer (178 bytes) and the heap buffer (278) exactly or by one byte too much, or outgrow a doubling (1200) |
| `file_writer` | lines of 1 and 2 bytes, roll size 2, 5 lines, 2 runs, all faults, a crash between calls or inside `write()` | 91,130 | `GaplessOnDisk`, `RollsWhenDue`, `TerminalAhead`, `RolledFilesStay`. Two lines fill a file exactly, by one byte too much, or three do; the second run overwrites files of the first |
| `registry` | 2 threads, 2 names, 2 levels, 2 loggers, 4 calls | 399,384 | `DefaultKnown`, `QuietUnlessDisturbed`, `LevelTakesEffect`, implements `LoggerLife`, `CallsReturn` |
| `ring_older` | as `ring_buffer` | violated | a newer line is overwritten by an older one |
| `quick_shutdown` | as `quick_logger` | violated | lines stay in a lapped ring at shutdown |
| `queue_freed` | 2 lines each | violated | a Buffer is deleted while its last producer still counts in it |
| `queue_relaxed` | 2 lines each, `RelaxedClaim` | violated | a stale write Buffer loses a line |
| `registry_default` | as `registry` | violated | `removeLogger` clears a default logger of another name |

**Bounds.** Two producers are enough for every race between producers (claim
against claim, lock against lock, waiter against installer), and two items are
the least with which an item, the next one and the wrap to the first differ.
`MaxPush` bounds the lines of a producer; `MaxLines`, `MaxArgs` and `MaxChanges`
those of `LogLine`; `MaxWrites` and `MaxRuns` those of `LogDirectory`;
`MaxLoggers` and `MaxCalls` those of `Registry`. The code has no such bounds. Four
calls of two threads are enough for a logger to be made, made the default,
replaced or removed, and logged to meanwhile; two loggers of different or the
same name are what the races between `setDefaultLogger` and `removeLogger` need.
Deadlock is checked for `ring_buffer` (the consumer can always be called again).
In the logger runs the end of the destructor is an end, in the queue runs a
fault, in the line run the last line formatted, and in the writer and registry
runs the last call.

**Properties.** `Accounted` and `NothingLost` are central: at every step each
line ever logged is in exactly one of the places a line may be.
`FifoUnlessLapped`, `FalseMeansDrained` and the `Shutdown...` properties rest on
them, and the liveness properties say that lines do not stay where they are.
Where the code does something wrong only after a certain event, a property says
so, and the event is a history variable, so that it shows what holds short of it:

* `lapped` in `RingBuffer`: the reader was lapped.
* `damage` in `QueueBuffer`: `NothingLost`, `ResetSafely` and `BuffersReclaimed`
  speak of behaviours in which no producer has counted in *reused* memory. The run
  of `NoUseAfterFree` shows that such a count is possible, and these properties
  show that it is the only thing that goes wrong.
* `failed`: once an allocation has thrown, producers that wait for the Buffer
  nobody installs spin for ever (until then `FullIsReplaced` says who will install it); what was published before still reaches the files
  and the destructor returns, once nobody is inside `add()` (`SafeLogger`).
* `disturbed` in `Registry`: another thread has changed the default logger or a
  level since the call began. A line may get through or be dropped by the
  threshold of a logger it does not go to, and `setLogLevel` may set the level of
  a logger that is no longer the default.
* `raced`: while a `setDefaultLogger()` had put its logger into the registry and
  not yet made it the default, a `removeLogger()` of the same name was under way
  (`"removal"`), or another `setDefaultLogger()` had done the same with another
  logger of that name (`"setting"`). Only after a removal may there be no logger
  under the default logger's name.
* `shadowed`: `createLogger()` has given the name of these loggers to another one.
  That needs no overlap: `initialize...` and then `createLogger("default")` leave
  a default logger that `getLogger("default")` does not find. Short of `raced`,
  `DefaultKnown` says that this is the only way, apart from the moment before a
  `setDefaultLogger()` of the same name is through.

`GaplessOnDisk` is the writer's promise under faults: what is on disk of a run is
a beginning of what was handed to `write()`, without a gap; at most the line that
failed is cut short, possibly twice (the second time when the stream is closed),
and nothing follows it, since the code never clears the error. Lines after a
failure are lost silently; `TerminalAhead` says that the terminal still shows
them.

**What the violations mean.** They are disagreements between the code and what
its documentation says, each with a short trace:

* `ring_older`: p1 claims item 0 and is descheduled; the others go round once
  and store a newer line there; p1 wakes and replaces it.
* `quick_shutdown`: the ring is lapped while the reader is at item *i*: the
  writers store in *i* and beyond, the reader takes *i*, meets an item that a
  lapping producer has not reached again, and the drain ends.
* `queue_freed`: p1 publishes the last item; the worker reads it and pops the
  Buffer off the queue, which deletes it; p1 then increments the count in it.
* `queue_relaxed`: p1 installs a new Buffer and resets the index; p2 claims
  item 0 of it but still loads the old Buffer.
* `registry_default`: `removeLogger("default")` loads the default logger and
  finds its name to be the one removed; another thread's `setDefaultLogger` stores
  a logger of another name, which does not need the mutex; `removeLogger` then
  stores null.

**Fairness.** Weak fairness for every step of a thread that is inside `push`,
of the worker and of the destructor: the scheduler runs all threads. No fairness
for `Add`, `Shutdown` and the beginning of any call: users need not log, nor
destroy the logger. Strong fairness where a producer waits for something that is
true again and again: the lock of an item (`PushLock`), `m_flag` (`SetupLock`), a
reset index (`WaitOver`). The flag gives no order among spinning threads, so this
is an assumption about time, not about the code; it is justified because the
thread that competes for ever, the polling worker, sleeps 50 us outside the lock
after every empty poll (`src/asynclogger.cpp:65`). In `Registry` weak fairness
is enough: calls are finite, so the mutex is free for good in the end. That a
destructor returns (`Finish`) is what `ShutdownEnds` says of both loggers.

## 4. Proofs

| Module | Theorems |
|---|---|
| `RingBufferProofs` | `TypeCorrect`, `MutualExclusion`, `EveryLineAccounted`, `Implementation`, `FirstInFirstOut`, `FalseIsTrue` |
| `QuickLoggerProofs` | `QuickTypeCorrect`, `EveryPoppedLineIsWritten`, `ShutdownIsComplete`, `QuickBufferImplemented` |
| `QueueProofs` | `TypeCorrect`, `NoLineIsLost`, `ResetIsSafe`, `BuffersAreReclaimed`, `BufferImplemented`, `FullBufferIsReplaced`, `QueueIsGuarded` |
| `SafeLoggerProofs` | `SafeTypeCorrect`, `ShutdownIsComplete`, `SafeBufferImplemented`, `HandedLinesAreSaved` |
| `WriterProofs` | `DirTypeCorrect`, `FilesAreKept`, `GaplessFiles`, `TerminalNotBehind`, `RollsExactlyWhenDue` |
| `LogLineProofs` | `LineTypeCorrect`, `WritesStayInside`, `ArgumentsReadBack`, `CopiesArePrinted` |
| `RegistryProofs` | `TypeCorrect`, `LifeImplemented`, `DefaultStaysKnown`, `LevelsFilter`, `LevelsAreSet` |
| `InductionProofs` | lemmas only: induction over the naturals, `FlattenSeq` and the pieces in numbered files |

All hold for every number of threads, lines, items, loggers and calls, and for
every size the named assumptions of the modules allow (positive sizes; `NoLine` is
not a line; the header of a line fits the stack buffer, which is no larger than
the least heap buffer).

**The ring.** `TypeOK` is not inductive (moving a line into an item needs a
producer inside `push` to have one), so `Typed` adds `Started`. `RingInv` is
`Typed /\ Exclusive /\ Distinct /\ Accounted`. `Exclusive` relates the locks to
the threads' positions. `Distinct` says where copies of a line may be: an
overwritten line must be nowhere else, which needs that no other readable item and
no other producer has it; that a producer's line is nowhere but in the item it
has locked; and that is only true because it is alone there, hence `Exclusive`.
`StepEffect` reduces every step to one of four effects on the lines (`Enters`,
`Delivers`, `Overwrites`, `Quiet`); both `Accounted` and the refinement follow
from these alone.

The order needs arithmetic. `SizeDivides` (`IndexMod % Size = 0`) is the
hypothesis of `FirstInFirstOut` and `FalseIsTrue`: `m_size` divides 2^32 exactly
if it is a power of two, and otherwise the items jump where the index wraps.
`Indices` says that the two indices count the claims and the pops, modulo
`IndexMod`; `Tickets` that a line is claimed once and where; `LastLap` that, short
of a lap, the lines not popped yet are those of the last `Size` claims, each on
its way to the item of its ticket or waiting there. Claims less than a lap apart
have different items (`SlotApart` and the lemmas on remainders before it), so
nobody overwrites anybody.

**The queue.** `Typed` adds to `TypeOK` that owners of items have lines
(`Started`) and that a read Buffer is the front of the queue (`Reading`); it
holds whatever an access to freed memory does. `Step(p)` lists the nine things a
producer's step can be, so that what follows is proved once for each. `ClaimInv`
is about the write Buffer: each claimed item has one owner, who is in that Buffer
(`Owners`); who installs the next one is alone and the index is past the end
(`Installers`); the count of the Buffer is the number of items handed out and left
again (`Counts`); a written item was claimed, and its owner has
published it (`Current`), after it had constructed its own line in it (`Finished`). The heart is that a count of `Size` means that all
owners have left. `LineInv` says in which item each line is: a line is written
once, in one item, and the items of one producer's lines are in the lines' order.
`ReadInv` says that what was popped is what stands before the read position. All
of it needs that the claim is a full barrier (`~RelaxedClaim`), and is claimed up
to the first count in reused memory.

`FullBufferIsReplaced` is the safety half of "no producer waits for ever":
`Replaced` is kept because the count of the write Buffer is the number of items
left (`Counts`), so whoever leaves an item and is not the last has somebody
else still in one; the only other way out, a `throw` in `setupNextWriteBuffer`, sets
`failed`. `QueueIsGuarded` is inductive with the types alone and has no hypothesis.

**The loggers.** In both, `Phases` says who can be where: the worker waits for
`tryPop` exactly while it is in the call, and nobody is inside `add()` once
SHUTDOWN is stored. `Kept` says that the file is what was popped, up to the line
in the worker's hands. `Taken` is the one step that is not the buffer's own: the
worker takes the answer. `Drained` says that once the drain has seen `false`
nothing is stored. For the ring it follows from `FalseIsTrue`. For the queue it
needs `Filled`: the items before the index are written or their owner is about
to, so that with nobody inside `add()` the first unwritten item is the end; and
`Ordered`, that lines of one thread leave the queue in their order, which
`ShutdownKeepsAll` asks for. `SafeLoggerProofs` assumes `~RelaxedClaim` and that
freed memory is not reused. The code sees to neither: the runs `queue_relaxed` and
`queue_freed` show what these conditions are about.

`HandedLinesAreSaved` adds `Landed` to the invariant: the pieces on disk are, one
for one, the lines handed over, each whole. A write adds one piece at the end of
the current file, a roll-over adds an empty file.

**The writer.** `Typed` gives `disk` its type as a function to sequences, which
`DirTypeOK` only says element by element. `FilesAreKept` follows from what a
step may do to the disk: extend the current file or open the next.
`Whereabouts` is the invariant of the rest. `Placed` says which files of this
run there are, 1 to `opened`, and that only a failed stream keeps a line (`stuck`). `Gapless`
gives the position at which the pieces and the lines part company (`Aligned`): all
pieces before it are whole and the lines in order, all after it are of the next
line. It replaces the `CHOOSE` of `GaplessOnDisk`, which has only one such number
to choose (`AlignedUnique`). `Shown` is `TerminalAhead` with what is known of a
stream in each state. All outcomes of a write end alike
(`Writes`): one that fails counts nothing, since `tellp()` has not advanced, so it
never rolls over, and one that does not fail leaves the file it extends or the
next one. `RollsInv` is `RollsWhenDue` with `EndsWhole`, that a good stream's
file ends in a whole line: the sum over a file grows by what a write puts there
(`BytesAppend`), and a part of a line is not counted.

**Induction.** Files and buffers are read with recursive functions, and what these
are had to be proved by induction. The library's induction theorems take an operator
as a parameter, which the provers cannot instantiate. `InductionProofs` states
induction with a *set* instead (`SetInduction`: a set of numbers that has 0 and with a
number the next one has them all), from the well-foundedness of `<` on the naturals.
A set can be instantiated. From it follow that a recursive function exists, that it is
unique, and so that it obeys its equations: `FlattenSeq` of an extended sequence
(`FlattenAppend`, `FlattenGrown`), the pieces in the files 1 to n (`PiecesIn`), the
sum of a file, and the reader of a line.

**The line.** `LineInv` adds `Writable` for the line under construction: its used
bytes are within the size it believes in, and that size is the one of the
buffer in use. It cannot be claimed of lines that were moved from, whose size
is that of a heap buffer they no longer have. `GrowthFits` and `PutFits` are
the two halves of every encode function.

`ArgumentsReadBack` needs that the recursion of `Fields` is well-founded: it is, since
every field is at least one byte wide (`ReaderExists`, by induction from the end of
the buffer down). `ReadInv` says of every line still to be used that the buffer it
says it uses holds a `Chain`: fields that follow each other without a gap from the
header to the last used byte, one for each thing said, in order, and no two
fields at the same place (`Neat`). What a chain reads back as is proved by induction
from its last field (`ReadBack`). A growth copies the chain, a put extends it, a move
takes it along, which is why a line that was moved out of is no longer `live`.
`CopiesArePrinted` adds what is known of the texts: what was copied stays as it was
said, what was kept by address and is not `Mutable` has not changed either.

**The registry.** `LifeInv` is `TypeOK`, `Placed` (where a thread keeps which
pointer, so that a thread inside an `add` owns the logger) and `Lives` (a logger
in its destructor or beyond has no owner and is in one destructor at most). Each
step makes a logger, enters or leaves an `add`, or passes pointers on, and maps to
a step of `LoggerLife`. `TypeCorrect` is `TypeOK` with `PointersLive`, which
`Lives` gives: a pointer to a logger is one that owns it, or that of a thread
inside its `add`. `LevelInv` says what an undisturbed thread knows from its
earlier loads (`Informed`). `DefaultInv` is `DefaultKnown` with what the
two windows need. `Filed`: loggers are under their own names. `Unremoved`, until
a removal has overlapped: a logger about to become the default has its name in the
registry (`Storing`), and a thread about to erase a name has seen that it is not
the default's (`Erasing`). `Undisputed`, until anything has: such a logger is
itself there or `shadowed` (`Entering`, `Kept`), and so is the default logger
unless one of its name is about to replace it (`Current`).

**Only model-checked.** The liveness properties, which are beyond this prover:
`EventuallyWrittenUnlessLapped` and `EventuallyWritten`, `AddReturns` and
`ShutdownEnds` of both loggers, `CallsReturn` of the registry. Every other property
of a passing run is stated by a theorem. The violated properties, and that the
properties can be violated by slips in the code, are TLC's by their nature.

## 5. Not modelled

* *Two writers on one file.* Initialising again, or naming two loggers after one
  file, opens the same numbered files twice. What they do to each other depends on
  the byte offsets of two streams, which a sequence of lines does not represent;
  `LogDirectory` gives a name one writer at a time.
* *The end of the program.* `g_defaultLogger` and `g_registry` are static; the
  order in which they and other statics are destroyed is not in this code.
* *The memory model* is reduced to its one visible effect in this code, the stale
  load of the queue. The other relaxed accesses are to the ring's index, whose item
  is protected by a lock, and to the levels, for which a stale value is as good as
  a thread that was a moment earlier.
* *Ring sizes that do not divide 2^32.* The runs use sizes that do. For others
  `RingBufferProofs` still applies (no line vanishes or is read twice), the order
  across a wrap is not claimed. A size of 0 divides by zero (`RingAssumption`).
* *The text of a line*: formatting, time stamps, layout. Also performance
  (padding, false sharing), build files, packaging, examples and the benchmark.
* *Exceptions that leave the program*: a `throw` of an allocation in `push` is
  taken to be caught by the program; if it is not, the program ends. What
  `std::queue::push` itself allocates (`queuebuffer.cpp:66`) is taken to succeed.
* *Levels before initialisation.* `setLogLevel` before `initialize...` is
  modelled: the level is stored and never reaches the logger made later, which has
  DEBUG (`logger.h:39`), whereas `README.md:54` calls INFO the default. No document
  promises that the level is passed on, so `LevelTakesEffect` speaks of the return
  of `setLogLevel` only.
