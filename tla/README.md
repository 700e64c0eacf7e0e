# aleakd in TLA+

aleakd finds memory leaks in a running program. A library, `libaleakd.so`, is preloaded into the
program; it wraps the allocating functions and the thread functions, and reports every call as a
message. A graphical server receives the messages and shows which blocks are allocated and not
freed, by which thread, when, and from where. This directory holds TLA+ specifications of the two
programs, configurations that check them with TLC, and proofs checked with TLAPS.

Paths below are relative to the repository's root. `lib/server-comm.c`, `lib/wrapper.c`,
`server/Server/MemOpRcptServer.cpp` and `server/GUIController/QApplicationWindowController.cpp`
(the *controller*) hold most of the logic.

## 1. The system

### 1.1 Components

| component | state | operations | called by |
|---|---|---|---|
| wrappers (`lib/wrapper.c`, `lib/aleakd.c`) | the real functions, `g_bIsInitializing`, `g_bSendBacktrace`, `g_iAllocNumber` | `malloc` ... `pvalloc`, `realloc`, `free`, `pthread_create`, `pthread_setname_np`, `prctl`, `wrapper_init`, `wrapper_dispose`, `backtrace_send` | every thread of the traced program |
| transport (`lib/server-comm.c`) | `g_socket`, `g_iMsgNum`, `g_preInitBuffer`, `g_pTransferBuffer`, two mutexes | `servercomm_init`, `servercomm_send_safe`, `servercomm_send`, `servercomm_send_physical`, `servercomm_dispose` | wrappers, constructor, destructor |
| symbol cache (`lib/backtrace.c`) | addresses and how often each was seen, a mutex | `backtrace_check_addr` | `backtrace_send` |
| messages (`shared/server-msg.h`, `shared/global-const.h`) | none | | both programs |
| reception server (`server/Server/MemOpRcptServer.cpp`) | the open pipe or socket, the array of `doReadMsg` | `run`, `doReadMsg`, `doProcessDataRead`, `doProcessMsg`, `doProcessMsgV1`, socket slots | a thread of its own |
| controller | lists of operations, symbols and threads, three locks | handlers of messages; timer, filter and clicks | receiving thread; GUI thread |
| operation lists (`Model/MemoryOperation.cpp`) | list of operations | `takeByPtrNotFreed`, `takeByMsgNum` | controller |
| thread table (`Model/ThreadInfos.cpp`) | list of threads | `getById`, `getByIdAndMsgNum`, `removeById` | controller |
| statistics (`Model/MemoryStats.cpp`), usage (`Model/MemoryUsage.cpp`) | counts and sizes; the largest size of every second | `reset`; `update`, `value` | controller |
| window, views, item models (`server/GUI`, `server/GUIModel`) | widgets | drawing | GUI thread |
| start and stop (`server/main.cpp`) | none | start the receiving thread, run the window, `quit`, `wait` | |

### 1.2 How they interact

    thread --wrapper--> real function
       |
       +--> number the message (g_lockMsgCount) --> servercomm_send_safe
                 |                                      |
                 | pipe not open                        | pipe open (g_lockSocket)
                 v                                      v
          g_preInitBuffer --- servercomm_init ---> g_pTransferBuffer --write()--> named pipe
                                                                                     |
     controller <--handler-- doProcessMsgV1 <-- doProcessDataRead <-- doReadMsg <----+
     (receiving thread)

Inside the traced program the threads meet in the two mutexes and in the heap: the address a
thread gives up is the address another is given. Between the programs there is only the byte
stream. In the server the receiving thread calls the handlers of the controller, and the GUI
thread reads and resets what they keep.

### 1.3 What is hard, and what correct means

* **Transport.** Threads send at the same time; a message may come before the pipe is open and
  after the destructor; writes may fail. Correct: the accepted bytes reach the pipe once, in
  order, in whole messages; the App message, which empties the lists of the server, is first;
  nothing stays in the buffer at the end; no copy leaves the buffer.
* **Wrappers and controller.** A report is numbered after (`malloc`) or before (`free`) the real
  call, so it can cross with the report of another thread about the same address. Thread
  identifiers are reused. A process may die anywhere and the next one uses the same addresses,
  threads and numbers. Correct: what is shown as not freed is what the heap holds; statistics, list,
  chart and usage by thread agree; a freed block is taken from the thread that allocated it.
* **Reception.** A read may end in the middle of a message. Correct: messages are cut where the
  library joined them, handled once and in order, the array is never overrun, and the thread always
  comes back to its input.
* **Symbol cache.** The library sends the name of an address only when its cache, which replaces by
  least use, does not hold it; it fills the cache before it sends. Correct: an address in the cache has
  its name at the server or on its way, and the name is one of the process that is shown.
* **Start-up of the library.** `dlsym` and `backtrace` allocate, through the wrappers that are
  being set up. Correct: no block of the stand-in buffer reaches the real `free` by the library's own
  doing, nothing but what the code says is left unreported, a failure is noticed.
* **GUI thread.** Two threads, three locks, and state that is changed with none. Correct: nobody waits for ever; what the
  window shows is of one session; a search agrees with the statistics; the chart has the values the
  seconds ended with.

`PROJECT.json` lists every hazard with its line and the properties that cover it.

## 2. The modules

| module | models | lines of the code it stands for |
|---|---|---|
| `Channel` | what the transport promises: a batching FIFO, lossy by the batch | the send functions of `server-comm.c` seen from outside |
| `ServerComm` | the transport, by thread and by step | `server-comm.c`:25-255 |
| `ServerCommProofs` | theorems about `ServerComm` | |
| `ServerMsg` | the kinds and the fields of messages | `server-msg.h`, `global-const.h` |
| `AleakdLib` | the wrappers, the heap and threads of the traced program | `wrapper.c`:200-681 |
| `MemoryUsage` | the largest size per second, with the widths of its integers | `MemoryUsage.cpp` |
| `UsageProofs` | theorems about `MemoryUsage!update`, and about the chart and the table of threads of `LeakDetector` | |
| `Controller` | the handlers of the controller, its lists, statistics and thread table | controller:144-366, `Model/*.cpp` |
| `LeakDetector` | `AleakdLib` and `Controller` joined by a FIFO stream; end-to-end properties | both |
| `LeakDetectorProofs` | theorems about the list, its statistics, its backtraces and the types of `LeakDetector` | |
| `FiniteSums` | lemmas: largest and smallest element of a finite set, its numbers in order, sums of a field, words | |
| `MemOpRcptServer` | cutting the stream back into messages, opening and closing the pipe, TCP segments, datagrams | `MemOpRcptServer.cpp`:91-426 |
| `MemOpRcptServerProofs` | theorems about `MemOpRcptServer` | |
| `Symbols` | the cache of addresses, `backtrace_send`, the symbol table of the server | `backtrace.c`, `wrapper.c`:152-198, controller:368-381 |
| `SymbolsProofs` | theorems about `Symbols` | |
| `Startup` | `wrapper_init`, `dummy_malloc`, the constructor, the wrappers while the real functions are unknown | `wrapper.c`:34-150, `aleakd.c` |
| `StartupProofs` | theorems about `Startup` | |
| `View` | the handlers of `Controller` cut at their locks, against filter, timer, double click and closing of the window | controller:144-774, item models, `main.cpp` |
| `ViewProofs` | theorems about `View` | |
| `MCServerComm`, `MCLeakDetector`, `MCMemOpRcptServer`, `MCSymbols`, `MCStartup`, `MCView` | values of constants for TLC | |

The system is cut at two interfaces. `ServerComm` implements `Channel` (checked and proved), so
`AleakdLib` may send into a FIFO and `MemOpRcptServer` may be fed by a writer that joins messages
to batches. `MemOpRcptServer` hands messages to the handlers once and in order, so
`LeakDetector!Deliver` may take the head of the stream. What the transport loses (a backtrace at the
end of a read, what the pipe held when everybody had closed it) is not in `LeakDetector`, whose
properties therefore speak of messages that arrive. `LeakDetector` takes a handler as one step; `View` takes the
operators of the same module `Controller` and runs them lock by lock.

### 2.1 `ServerComm`

A variable per global of the file, plus `pc` and `out` (where a thread is in a send and what it is
sending), `initStep`, `exitStep` and `lastSize` (the local state of `servercomm_init` and
`servercomm_dispose`), `pipe` (what was written) and the history `sent`. A byte is a pair (message,
position), which is what it takes to say "whole messages, once, in order".

| action | code |
|---|---|
| `servercomm_msg_init` | `servercomm_msg_header_init_v1`: the number is taken under `g_lockMsgCount`; thread, number and kind are in the message |
| `SendSafe`, `SendPreInit` | the test of `g_socket` in `servercomm_send_safe` |
| `Lock`, `Flush`, `Copy`, `Direct` | `servercomm_send`: taking the mutex and deciding; `write` and reset; `memcpy` and release; unbuffered write and release |
| `Open`, `OpenFails`, `SendPreInitBuffer`, `EnableBuffer` | `servercomm_init` |
| `DisposeSize`, `DisposeWrite`, `DisposeDisable` | `servercomm_dispose`, which takes no mutex: reading the size, writing, switching off |

`write` of at most `BUFFER_SIZE` (= `PIPE_BUF`) bytes is whole or fails. The overrun of
`g_preInitBuffer`, which has no bound check, is undefined behaviour and stops the model
(`SendPreInit` is disabled).

Switches: `OpenMayFail`, `WritesMayFail`, `ConcurrentExit` (other threads run on when the
destructor runs). With `ConcurrentExit` off, threads are joined before the program ends.

### 2.2 `AleakdLib`, `Controller`, `LeakDetector`

Each wrapper is cut where another thread can come between: the real call, the stamping (time and
number), the sending, the same again for the backtrace, and the real `free` at the end. The state
of a thread is `pc` and the message it is building. `held` are the blocks the program may pass to
`free` or `realloc`; a program that frees twice is outside of the model. Addresses are reused
as soon as the heap has them, and thread identifiers as soon as their thread has ended (`Unused`: nobody runs under the
identifier, and nobody is starting a thread under it).

The controller keeps lists of shared pointers. The model numbers operations by arrival and thread
entries by creation; a list that is appended to and erased from is the set of its numbers, so the
backward search of `takeByPtrNotFreed` is `Max` and the forward search of `getById` is `Min`.
Each handler is one action (`onNewConnection`, `addMemoryOperation`, `updateThreadInfos`,
`addBacktrace`), with every update of statistics and thread table in it. Sizes are `quint64`, the current
size of a second is an `int`, counts of threads are `uint32_t`; the widths are constants.

A *scenario* (`Scenarios`, a set of records; each behaviour keeps one) says what the traced program and the
scheduler do (`env`) and carries the bounds. Some members of `env` are not errors of the program, and the code does not
report them rightly:

| member | what the code does | not claimed there |
|---|---|---|
| `realloc_overlap` | `realloc` gives up the old address before its report is numbered | `LeaksAreReal`, `SizesAreReal`, `FreeFindsAlloc`, counts (`Misreported`) |
| `realloc_zero` | `realloc(p, 0)` frees and reports nothing | the same |
| `calloc_many` | `calloc` reports `size` without `num` | `SizesAreReal` |
| `early_child` | a thread runs before `pthread_create` returns and reports it | `ThreadUsageExact` (`MisreportedThreads`) |
| `create_fails` | a failed `pthread_create` is reported with what is in `*thread` | the same |
| `restart` | `clearData` keeps the list of threads alive, `MemoryStats::reset` keeps the peak | the same, `ThreadUsageAddsUp`, and that the peak is of this process |

The properties name what they do not claim as their hypothesis and are checked in all scenarios together, so what does
hold while reports go wrong (the sums of the statistics, the chart, the sums over the entries of an identifier) is checked
there too. `leak_Threads` has four scenarios: `Regular`; `Restarted`; `Irregular`, with `early_child`, `create_fails` and
`calloc_many` but no `realloc_overlap` or `realloc_zero`, so that `LeaksAreReal` and `FreeFindsAlloc` are claimed there; and
`Overtaken`, with those two and time passing.

When no entry covers the operation a free takes off, `updateThreadInfosAddFree` falls back on the entry that is alive, under
the comment "Not supposed to occurs" (controller:304). `ThreadUsageExact` says that it does not occur where creations
are reported in time; with `early_child`, `create_fails` or overtaking reports it does, and `ThreadUsageAddsUp` says what the fallback
is good for: the release may be booked on the wrong entry of the identifier, but it is booked, once, and on an entry of that identifier. The
mutant leaves the table alone instead.
`leak_EarlyUsage` and `leak_ReallocRace` check two of the conclusions without the hypothesis and find
them violated; to see any other, remove the hypothesis from the property.

### 2.3 `MemOpRcptServer`

The writer is `Channel`'s: messages join a batch shorter than `BUFFER_SIZE`, the batch is written whole.
The reader is the loop of `run` and `doReadMsg`:

| action | code |
|---|---|
| `Open` | `open(ReadOnly)` of the pipe, which waits for a writer |
| `Read` | `read`: what is there, at most 4096 bytes, behind what was kept |
| `ProcessMsg` | one round of `doProcessDataRead` that handles a message |
| `KeepRest` | the rest is moved to the front of the array |
| `ProcessError` | nothing could be processed, or no version where one should be: `doReadMsg` gives up |
| `ReadEnd` | `read` returned 0 |
| `Close` | `doReadMsg` has returned (its array is local) and `run` closes the pipe |

`Needed` keeps the check of a backtrace as it is written: one header more than its message has.
In the middle of a message the bytes may look like anything (`Garbled`): any kind of message may
be read from them, or none. The medium differs: a pipe belongs to the kernel as long as somebody
has it open; TCP delivers segments of any cut, each followed by `readyRead` (`Arrive`); UDP keeps a batch in a
datagram, and any of those under way may arrive next (`ArriveDatagram`), one that is lost being one that never
does. `InSync`, that framing is not lost, is claimed for the pipe and for datagrams; on TCP it does not hold. `QIODevice::read` is
modelled by its contract, the caching inside `QFile` is not.

### 2.4 `Symbols`

| action | code |
|---|---|
| `SendBacktrace` | the backtrace message of `backtrace_send` |
| `CheckAddr` | `backtrace_check_addr` for the next address, under `g_lockAddrCount` |
| `SendSymbol` | the symbol message of an address that was not in the cache |
| `Deliver` | the handlers of a new connection, a backtrace, a symbol |
| `Restart` | the process dies, losing a tail of the stream; another starts with an empty cache |

The name of an address is the number of its process, which is what the properties must tell apart. Counts are C ints; the
overflow in `backtrace_check_addr`, undefined in C, is taken to wrap. `Deliver` is the FIFO of `Channel`; a write that fails
loses symbols for good, as the cache believes them sent, so the properties speak of a transport without failing writes.

### 2.5 `Startup`

`Steps` is the list of what `wrapper_init` does; `step` counts along it. At a step that looks something up the loader may call
`malloc`, `calloc` and `free` (`Loader`), which take the branches of the wrappers for "the real function is not known". `Begin` is
the constructor or an earlier call of a wrapper, and `ConstructorReturns` shows the difference between them: only the
caller that ran `wrapper_init` sees what it returned. `Call` are the wrappers afterwards. A block carries where it
came from (`dummy`, `at`), so that the properties can say which ones the code mixes up.

### 2.6 `View`

A handler is a *script*, the list of what it locks, unlocks and does, in the order of the code (`ClearScript`,
`Handler`, `FilterScript`, `TimerScript`, `DoubleClickScript`). `Locking` takes or gives back a `QReadWriteLock`, `Doing` carries out one entry;
a search has a step for each operation, and drawing one for each point. The other thread may come between any two. The
lists hold shared pointers, so rows and points outlive the session they are from; they carry its number. Two windows
of the code are known to mix sessions: between the count of the rows and `fetchTo`, and between the
computation of the points and their drawing. The history variable `late` records that one of them was met, and
`ViewOfSession` excepts exactly what it spoils; `ChartDrawn` holds all the same. `WindowClosed` is `quit()` and `wait()` of a socket build.

## 3. What is checked

Run any of them with `tlc -config <cfg> <module>`. Every property of a passing run has a *mutant* in
`PROJECT.json`: an operator, marked "Mutant" in the modules, that changes one definition the way a
plausible bug would. With the mutant in place TLC finds the property violated; no specification
uses the mutants.

| run | question | shows |
|---|---|---|
| `comm_Reliable` | Can senders, start-up, flush and exit disturb each other? | `BufferInBounds`, `NothingLost`, `EveryNumberOnce`, `ThreadOrder`, `NothingStranded`, and under fairness `AllDelivered` |
| `comm_Lossy` | What if the pipe is missing or writes fail? | `WholeMessages`: whole batches are lost, framing never is; `ChannelSpec`: refinement of `Channel` |
| `comm_ExitRace` | What if threads run on when the destructor does? | violation of `NothingStranded`: a message is copied to a buffer nobody writes any more |
| `leak_Threads` | Is the view exact while threads allocate, move and free each other's blocks, end, and identifiers are reused; after a process died at any point; when reports go wrong and time passes? | `LeaksAreReal`, `SizesAreReal`, `FreeFindsAlloc`, `StatisticsMatchList`, `ThreadUsageExact`, `ThreadUsageAddsUp`, `ChartConsistent`, each under its hypothesis |
| `leak_CatchesUp` | Does the window come to show the heap, with the backtrace of each operation? | `BacktracesComplete`, under fairness `ViewCatchesUp` |
| `leak_EarlyUsage` | A thread allocates before its creation is reported | violation of `ThreadUsageAlwaysExact` |
| `leak_ReallocRace` | Another thread gets the address `realloc` gave up | violation of `SizesAlwaysReal` |
| `rcpt_Stream` | Are messages cut right, whatever batches, segments and datagrams? | `InSync`, `BufferFits`, `HandledInOrder`, `OnlyBacktracesDropped`, under fairness `InboxDrained` |
| `rcpt_PipeBacktrace` | Does every backtrace arrive? | violation of `EveryBacktraceHandled`: one that ends the data is dropped |
| `sym_Cache` | Does every address get its name, with a cache that is too small, counts that overflow, threads at the same time and processes one after the other? | `SymbolOnItsWay`, `NamesAreOwn`, `SentOnce`, under fairness `NamesArrive` |
| `start_Loader` | What comes of allocations before the real functions are known? | `LookupsFreeTheirOwn`, `ReportsMatchHeap`, `FailureNoticed`, `BacktracePrepared`, `TypeOK` (the buffer is never full) |
| `view_TwoThreads` | Can the receiving thread and the GUI thread disturb each other? | `ViewOfSession`, `FilterAgrees`, `ChartDrawn`, under fairness `HandlersEnd` |

The four violations are described under "findings" in `PROJECT.json`. Further disagreements, seen while
writing the models and without a run of their own: those of the table in 2.2; on TCP, `doReadMsg`
forgets the beginning of a message when a segment ends in it (`InSync` and `OnlyBacktracesDropped`
are not stated for TCP); a failed `servercomm_init` goes unnoticed when a wrapper was called before the
constructor, and then the messages fill `g_preInitBuffer` for ever (`FailureNoticed` says that only this order hides it); a block
that came from the stand-in buffer and is freed later by the program aborts it (`GiveBack`); the rows and
points of `late`; what a process wrote and left in the pipe
between `doReadMsg` and `close` is lost (`WriterCloses`, `Close`), and a process that writes between `close` and
`open` gets SIGPIPE (`WriteBroken`).

### 3.1 Bounds

| bound | value | why it is enough |
|---|---|---|
| `Thread` in `ServerComm` | main and two workers (`comm_ExitRace`: one) | a sender can be interrupted by another at every step, with a third waiting |
| `BUFFER_SIZE`, `SizeOf` | 4 units; 1, 1 and 2 | full, exactly full and half-full buffers, with a message that fits and one that does not |
| `MaxMsgNum`, `MaxPreInitMsg` | 4 or 5, 2 | two flushes; messages on both sides of the App message, of the first flush and of the destructor |
| `Thread`, `Addr`, `sizes` in `LeakDetector` | two, two, one or two | an address crosses threads, an identifier is reused, a second block stays; symmetric in the addresses |
| `maxMsg` of a scenario | 4 or 5 numbers (6 in `leak_EarlyUsage`); a thread already in a wrapper goes on beyond them | create, allocate, end, create again, free by another thread |
| `maxTime` | 2 where time matters | arrival against the order of stamping across two seconds |
| `maxRestart` | 1 | the second process meets everything the first left |
| `IntRange`, `WordRange`, `CountRange` | 2^16, 2^17, 2^16 | far above the sizes of a run: no wrap, except for a negative intermediate value, which the properties would show |
| `Header`, `SizeOf`, `ReadSize`, `MaxMsg` in `MemOpRcptServer` | 2; 2, 3, 5; 9; 3 | a read can end in a header, behind it and in the data of every kind; a backtrace fits or lacks just its extra header |
| `Address`, `CELLS`, `INT_MAX` in `Symbols` | 3, 2, 2 | the cache is too small; a count passes its largest value by the recursion `<<c, c>>` and two more hits |
| `Thread`, `MaxBacktrace`, `MaxProcess` | 2, 3, 2 | two threads meet in one cell while a third backtrace follows; names of two processes |
| `Sizes`, `TMPBUF` in `Startup` | 1 and 2, 4 | the buffer has room for one, and is too small for two of the large blocks |
| `MaxLookup`, `MaxBlock`, `PREINIT` | 2, 3, 4 | a block from a lookup lives on into a later one and into the program; the loader's reports alone cannot fill the pre-init buffer, the program's can |
| `MaxReceived`, `MaxSession`, `MaxTime` in `View` | 3, 1, 2 | allocate, free or time passing, new connection, each at every step of a search or of the timer |

Deadlock checking is off in all runs: the traced program may stop calling.

### 3.2 Fairness

* `ServerComm!Fairness`: weak fairness of each step of a thread that is in a send, of
  `servercomm_init` and of `servercomm_dispose` (the program ends): the scheduler runs runnable threads.
  `Lock` needs strong fairness, because others may take the mutex over and over; a pthread mutex does not promise it,
  but the messages of a program are finite, and so is the contention. Nothing makes a thread call a wrapper.
* `LeakDetector!FairSpec`: weak fairness of the reporting steps of each thread and of `Deliver`. The
  receiving thread has nothing else to do, and the wrappers wait for nothing but a mutex.
* `MemOpRcptServer!FairSpec`: weak fairness of the receiving thread; its writer owes nothing.
* `Symbols!FairSpec`: weak fairness of the steps of each thread in `backtrace_send` and of `Deliver`. Nothing makes a thread
  take a backtrace.
* `View!FairSpec`: weak fairness of the GUI thread's steps and strong fairness of the receiving thread's, which must get a
  lock for writing that the timer may take for reading again and again: `QReadWriteLock` prefers who waits to write. Clicks, timeouts and messages
  owe nothing.

## 4. What is proved

`ServerCommProofs` holds for any set of threads, any sizes and any buffer (assumptions:
`ThreadAssumption`, `SizeAssumption`: each struct fits the buffer, `SwitchAssumption`,
`BoundAssumption`, all evaluated by TLC in the runs of `ServerComm`).

| theorem | says |
|---|---|
| `TypeCorrect` | `Spec => []TypeOK`; the fill counters stay within the buffers |
| `BufferSafe` | `Spec => [](TypeOK /\ BufferInBounds)`: no `memcpy` of `servercomm_send` leaves `g_pTransferBuffer`, also with the destructor running at the same time |
| `StreamComplete` | `Spec => []NothingLost`: without failing writes, pipe and buffer hold exactly the accepted bytes, in order |
| `ImplementsChannel` | `~ConcurrentExit => (Spec => ChannelSpec)`: the library is the channel of `Channel.tla` |
| `FramingKept` | `Spec => []WholeMessages`: with the threads joined, pipe and buffer hold whole messages, whichever writes fail |
| `NothingLeftBehind` | `~ConcurrentExit => (Spec => []NothingStranded)` |
| `NumbersOnce` | `Spec => []EveryNumberOnce`, whatever fails and whenever the program ends |
| `ThreadsInOrder` | `Spec => []ThreadOrder`, also without any condition |

The argument. `BufferInBounds` is not inductive: that the room found by `Lock` is still there at
`Copy` depends on nobody else having copied in between. `BufferInv` adds that what a thread sends is
no longer than the buffer (`OutFits`) and that a thread between `Lock` and release owns the mutex (`LockOwner`),
which makes two such threads one. For the stream, the steps must also be in their places:
`PhaseInv` says that workers are idle until `servercomm_init` is done (`StartFirst`), that nobody
is in a send while the destructor writes (`ExitLast`), and that the decision taken under the mutex - direct or buffered - is still
right when it is acted upon (`DecisionHolds`). With them every step is one of four (`StreamStep`):
silent, a write of the whole batch, a copy to the batch, a write through an empty batch. The first is a
stutter of `Channel`, the others are `Push`, `Put` and `PutThrough`; the invariant `NothingLost` follows from the
same four cases. `Pending` is the refinement mapping: the first `g_iTransfertBufferSize` bytes of the
buffer, and none once the destructor wrote them, because it leaves the counter as it is.

Without `~ConcurrentExit` neither theorem holds (`comm_ExitRace` shows the run), which is why it is
their hypothesis; `BufferSafe` and `TypeCorrect` do without.

`FramingKept` uses the same four kinds of steps: each writes or appends whole messages (`FrameInv`), provided that what threads
are sending, and the messages kept before the pipe was open, are whole (`FramedOut`). `NothingLeftBehind` needs only
`StreamInv`: with the exit last, the destructor's write leaves nothing pending.

Numbers and their order need no condition on failure or exit, because they are about what was *accepted*. `SequenceInv` follows a
number from `g_iMsgNum` to `sent`: it is in the hands of one thread, in the part of `g_preInitBuffer` that start-up still has to send,
or accepted, and in only one of these (`NumberFacts`); a thread's later numbers are in later places (`OrderFacts`).
`StartUp` says who can be sending while start-up is under way, and `AppFirst` that the App message, numbered after the
messages kept before it, is accepted before them.

`SymbolsProofs` holds for any threads, addresses, backtraces, cache and number of processes
(`SymbolsAssumption`).

| theorem | says |
|---|---|
| `TypeCorrect` | `Spec => []TypeOK`; a count stays in the range of an int, the overflow included |
| `NamesOfSession` | `Spec => []NamesAreOwn` |
| `SymbolsComplete` | `Spec => []SymbolOnItsWay` |
| `SymbolsOnce` | `Spec => []SentOnce` |

The argument. That a name is of the process shown is not inductive: a late symbol of a dead process must not arrive
in the session of the next. `StreamInv` says what the stream is: its messages are of processes between the one shown and the one
running (`Bounds`, `MessagesInPlace`), in order of their processes (`Ordered`), and a process that is not shown yet has its App message
in the stream before anything else of it (`RunningOpened` for the running one). So whatever `Deliver` takes is of the process shown after it,
and `NamesAreOwn` follows. `SymbolOnItsWay` follows in turn: a symbol leaves the hands of a thread into the stream, and the stream into the
table; `DeliverKeepsSymbols` needs `StreamInv` to know that no App message behind it empties the table
again.

`SentOnce`, that a cache which is large enough sends no name twice, rests on `CacheInv`: the cache holds addresses that were looked up,
each in one cell (`CacheOfLooked`), a free cell has the count 0 and every other a positive one (`FreeCellsFirst`), so the cell with the
smallest count is a free one as long as there is any, and nothing is replaced; then the symbols sent and those in the hands of
threads are of different addresses (`EachOnce`). That a free cell is left for a new address is a counting argument over the
cells (`Cardinality`).

`LeakDetectorProofs`, and the chart and the table of threads of `UsageProofs`, hold for any threads, addresses, sizes, scenarios with any bounds, and widths of
`quint64` and of counts (`EnvAssumption`, `CountAssumption`, `RangeAssumption`).

| theorem | says |
|---|---|
| `SpecTypeOK` | `Spec => []TypeOK` |
| `SpecFreeFindsAlloc` | `Spec => []FreeFindsAlloc`: `takeByPtrNotFreed` finds the one operation that is to be found |
| `SpecLeaksAreReal`, `SpecSizesAreReal` | with everything delivered, the list of what is not freed is the heap, with its sizes |
| `SpecStatisticsMatchList` | the sums of the statistics are those of the list, modulo the width of a word, whatever is received |
| `SpecBacktracesComplete` | with everything delivered, every operation of the list has a backtrace, and no two the same |
| `SpecThreadUsageExact` | the usage of each listed thread is that of its own operations |
| `SpecThreadUsageAddsUp` | in one process, however creations and reports mislead the bounds of the entries, those of an identifier add up to what is shown for it |
| `SpecChartConsistent` | the chart agrees with the statistics while the peak is below half of the range of an int and less than the range of a quint64 was allocated (`Moderate`) |

The argument for the list. Each of the three properties about the heap speaks of one moment (a report arrives; nothing is under way), and none is
inductive. `ReportInv` says what the server *will* know. `WillKnow(n, a, s)` is: with the next `n` messages of
the stream taken in, it will show a block of size `s` at `a`. `EndIsHeap` and `EndSizes` compare that, for the whole
stream, with the heap, up to what is between the real call and the report (`Unsent`, `FreeSent`, `GivenUp`); `ReportedInOrder` says that
each message of the stream frees something known when it arrives and allocates nothing known. A step of
the library changes the end of the stream and leaves what is before; `Deliver` moves one message from the stream to the list,
which leaves `WillKnow` as it is, for one message less. Why a step of the library keeps it is in `Owned`: a block is the program's or in the
hands of one wrapper (`OneOwner`), so no other thread can report about the address between the real call and the report of
the first. `realloc` is the exception (the address is given up before the report), which is why the property excludes
`realloc_overlap`: without it `ReallocIsAlone`. `SpecStatisticsMatchList` is a different argument: `StatsInv` holds also when reports go wrong, as each handler
changes the sums by just what it changes in the list (`SizeSumAdd`, `SizeSumRemove`, `ModAdd`, `ModSub`).

The argument for the backtraces. A backtrace names its operation by number and comes some messages behind it. `NumbersDiffer` says that among
the operations in the hands of threads, in the stream and in the list no number occurs twice. `Coming(k)` is the set of numbers whose backtrace is still to
come from message `k` on, from the stream or from the hand of a thread; by `Followed`, every current operation of the stream has its
number among those behind it, and every listed one without backtrace among all of them. A message is `Current` when no App message is
behind it: that message empties the list, and what comes before it, also a backtrace whose number the next process gives again, finds nothing or
is wiped. With everything delivered `Coming` is empty, so no operation is left without. That is `BacktraceInv`.

The argument for the chart. `ChartInv` says, under `Moderate`, that no second is above the peak, that the last one is at least what remains and, when no process was
started before, that the peak is at most the sum of the sizes listed. `Moderate` is needed for every handler, not only at the end: a second from
half of the range on is stuck (`UsageIsStuck`) or forgets (`UsageForgets`), and TLC finds the violation with ranges of 8. As the peak and
the sum of a session only grow, it held before the step if it holds after it, until an App message resets the chart. In each step
`StatsInv` gives the remaining size as the sum of what is listed and not freed, no more than the sum of all (`SizeSumLess`), so nothing wraps, and
`UsageIsMaximum` does the step of the chart.

The argument for the table of threads. `TableInv` says that the entries of an identifier follow each other in time without
overlap and only the last is alive (`Tidy`), and that every operation shown is in the time of one entry, which counts it (`Exact`). Each
handler keeps it if the message it takes is in order, and that is a property of the library: `ReportsInv` says that the
messages about one identifier are sent, received and listed in the order of their numbers (`OrderInv`), so the start of a thread
is younger than all that was reported of the thread before. The number of an operation is taken before it is
sent, so messages of different threads cross; what keeps those of one identifier in order is that a thread is started
under an identifier only when nobody runs under it or is starting one (`StartersInv`), and that it does not run before its creation is
reported, which `early_child` takes away.

`SpecThreadUsageAddsUp` needs none of that order, only that each handler books what it takes on *some* entry of the right identifier. Its
invariant `BalanceInv` is the property for `NULL` as an identifier too, and that every entry is listed, without which the fallback might book on
one the window does not show. Looking an entry up, retiring one and creating one change no sum (`LookupBalances`); an allocation and
a release change the sum of one identifier by one operation and its size, modulo the widths of the two counters (`BookedPut`,
`AllocBalances`, `FreeBalances`). The hypothesis comes in once: the App message of the only process finds no entry (`FirstProcess` of
`ChartInv`), where that of a second one would unlist entries that stay alive.

`StartupProofs` holds for any sizes, any `tmpbuf` and any number of lookups up to half of `PREINIT` (`StartupAssumption`; each block of a
lookup is reported twice at most, and the messages kept before the pipe is open are assumed to fit, as the code does).

| theorem | says |
|---|---|
| `SpecTypeOK` | `dummy_malloc` stops before the end of `tmpbuf` |
| `SpecLookupsFreeTheirOwn` | a block of `tmpbuf` given back in its lookup never reaches the real `free` |
| `SpecReportsMatchHeap` | reports and blocks agree, but for `backtrace_init` and the frees before the real `free` is known |
| `SpecFailureNoticed` | only a wrapper called before the constructor hides that there is no pipe |
| `SpecBacktracePrepared` | `backtrace_init` is through before a backtrace is taken |

The invariant relates a block to the step it was allocated in: from `tmpbuf` only in the first three
(`BlocksInv`), misfreed only after the fourth (`MisfreedInv`). `PipeInv` counts the reports kept while the constructor is at work by the blocks
and the blocks given back (`Freed`), which is where the bound on lookups comes in.

`MemOpRcptServerProofs` holds for any kinds, sizes, headers, batches and reads (`FramingAssumption`: a read takes in any message with one more
header, and the array holds two reads), for pipe, TCP and UDP.

| theorem | says |
|---|---|
| `SpecTypeOK`, `SpecBufferFits` | `read` never passes the end of the array; `doProcessDataRead` never goes beyond what was read |
| `SpecInSync` | the reader of a pipe or of datagrams stands at the first byte of a message |
| `SpecHandledInOrder` | messages are handled once, and in order but for datagrams that overtook each other |
| `SpecOnlyBacktracesDropped` | nothing but backtraces is dropped while the writer lives |

The argument. What `KeepRest` keeps is less than one message with a header, that is less than `ReadSize` (`BufferInv`). The bytes a reader has and
those a read can find are whole messages *together* (`FrameInv`); each of the two is so by itself once a read took
all there was. That is the point at which the rest of an array is given up (`ProcessError`, `Close`), and it leaves the framing intact. `OrderInv` says that the numbers
in what is unread, in the input, in the medium and in the batch come behind each other (`Linked`); it holds on TCP too, where the reader may lose its place
and take part of a message for another: it never takes one twice. `DropInv` adds what is left when the reader gives up: at most backtraces,
as they only are asked for with more bytes than they have.

`ViewProofs` holds for any number of messages, sessions, seconds, addresses and filters (`ViewAssumption`: the bounds are natural numbers;
`CodeAssumption`, `RangeAssumption`).

| theorem | says |
|---|---|
| `SpecTypeOK` | `Spec => []TypeOK`: no lock is held for reading and writing, and a search never goes beyond the list |
| `SpecViewOfSession` | `Spec => []ViewOfSession`: once a new connection is handled the window shows it and nothing else, `late` excepted |
| `SpecFilterAgrees` | `Spec => []FilterAgrees` when `MaxReceived < WordRange`: when a search without a thread ends, what it lists and counts is what the statistics counted as the operations came |
| `SpecChartDrawn` | `Spec => []ChartDrawn`: whenever both threads are idle, every second the timer has left behind is drawn with the value it ended with, and the last one with the value last seen |

The argument. None of the properties mentions the place a thread has reached, and none is inductive without it. `ScriptInv` says of what is left of a script only what
matters for the proof: which things still follow which (`Follows`) and which do not come any more (`Precedes`): `ReceiverOrder` for `clearData` and the handlers,
`GuiOrder` for the callbacks. That a suffix of a script keeps this is one lemma about sequences each (`FollowsTail`, `PrecedesTail`, `GuardedTail`), and that the scripts
have it to begin with is read off them (`HandlersAreGood`, `GuiScriptsAreGood`). `HoldInv` says that a thread that does not hold a lock takes it before it needs it
(`Guarded`), which is what makes a lock held when it is used. The types need both: between two steps of a search the list must not become shorter, and it does not,
because the search reads it and only `clearOperations`, which must write it, takes something away (`SearchHoldsList`).

`SessionInv` says, by what the receiving thread has still to do, what may be of the last session: the two sources are of one session but for the time
between clearing the first and the second (`SessionsMeet`); what was found is of the session of the list unless `m_listFilterMemoryOperation` is still to be cleared
(`FoundOfSession`), and so on for threads and chart. The hard case is a search that begins again in the middle of `clearData`: what it finds is still to be
cleared, or there is nothing to find, because the list is empty until the handler is done (`NothingListed`, `NothingFound`; an operation never follows in the same script). What a callback
has computed before a session is cleared and shows afterwards is what `late` notes.

`FilterAgrees` compares two computations of the same numbers: the statistics, kept up as the operations come (`CountOperation`, which takes off the size of the block a free
finds), and the loop of `onFilterButtonClicked`, which adds up the list as it is. Its invariant is `FilterInv`. `CountedInv` says that the statistics are sums over
the list while the two are of one session; it survives an operation because the block a free finds was not freed before and was none of the free's
own (`GrownParts`, `GrownSums`, `GrownStats`). `SearchInv` says that a search, once what was found before is cleared, has counted what is to be counted of the operations it has gone
through (`SearchStep`), and all of it when it gives the list back. The lock does the rest but for one thing: `clearData` resets what was found without
it. Then the list is empty (`ClearingOrder` and `NothingListed`), and a search in progress has found nothing it could lose (`ReceiverClears`). `ListInv` bounds the sizes by the messages received
(a message of this model allocates one unit at most), so that the hypothesis says that the sizes of the list fit a quint64: the property
compares with a sum that does not wrap.

`ChartDrawn` is about the end of a chain: the receiving thread puts a size into a second, the timer compares it with the one it remembers
(`m_iLastUpdateTime`, `m_iLastUpdateValue`), and draws the points later, without a lock. `DrawnInv` follows the chain from its end. It speaks of `AllPoints`,
what is drawn followed by what is still to be drawn, so that drawing a point changes nothing (`OneDrawn`); there every second before the one
remembered shows the value it has, and the one remembered shows the value remembered. It is inductive because of `EverySecond`: the statistics leave no second out
(`SecondCounted`), so that the timer looks at every second from the one remembered on (`SecondsLooked`), and because an operation belongs to the last second or the
next (`TimeInv`): what the timer has left behind does not change any more. `TimerLooks` puts the points, one for each second and in order (`PointsAre`,
`TimerDraws`), after what was drawn. Between the moment `clearData` clears the statistics and the moment it resets `m_iLastUpdateTime` nothing of this holds
(`Resetting`), and the timer may come in between and draw; as the time is reset after that, everything is drawn again, and `NothingUsed` says that
the value, which is reset one step later, is reset before a second is remembered again. The proof showed that the property needs no exception for a timer
that was drawing when a connection came, which an earlier version of `ChartDrawn` made (`late`): a point of the last session that is drawn too late is
drawn over, since the timer begins at the first second.

The lemmas about `update` in `UsageProofs` hold for any even width of an int and any multiple of it as the width of a quint64 (`RangeAssumption`).

| theorem | says |
|---|---|
| `UsageIsMaximum` | below half of the range of an int, `update` keeps the maximum of a second and leaves the other seconds alone |
| `UsageIsStuck` | a second that shows a size from half of the range up to it is not updated by any size a program reaches |
| `UsageForgets` | a second that shows exactly the range is replaced by whatever comes, also by less |

The lemmas `SmallIsExact` and `WideIsHuge` compute the two conversions of `MemoryUsage.cpp`:37-45 for either half.

`FiniteSums` holds what these proofs need of the community modules: that `Max` and `Min` of a finite set are its largest and smallest
element, that a finite set of numbers can be enumerated in order (`CanEnumerate`), and that the sum of a field over a set (`MapThenSumSet`), of sizes or of counts, gains or loses an element's value with the element. All
of them are inductions over finite sets. The library's induction theorems cannot be used here, so they are done with a smallest
counterexample (`SmallestBad`): the strict subset ordering of a finite set is well-founded.

Each inductive invariant was checked by TLC, as an invariant of a run, before its proof: `ReportInv` on two threads with and without
backtraces (8 million states), `ThreadInv` on three threads (578,122 states) and with backtraces (159,262), `SequenceInv` on the three
configurations of `ServerComm` (`comm_Reliable`: 151,768), the invariants of `MemOpRcptServerProofs` on `rcpt_Stream` (268,475),
`CacheInv` on `sym_Cache` (364,394), `BacktraceInv` on two threads and a restart (891,658), the `ChartInv` of `UsageProofs` with ranges of 8, where some runs leave `Moderate` (906,770), `BalanceInv` on `leak_Threads` (977,733),
`ScriptInv`, `HoldInv`, `TypeInv`, `SessionInv`, `FilterInv` and the `ChartInv` of `ViewProofs` on `view_TwoThreads` (116,223), the last
also with one message more (882,963).

## 5. What is only model-checked

* Liveness (`AllDelivered`, `ViewCatchesUp`, `InboxDrained`, `NamesArrive`, `HandlersEnd`): fairness and `ENABLED` are out of the prover's reach.
* Every invariant of a passing run is a theorem, under the conditions its table names. Beyond them: `ChartConsistent` from half of the range of an int on
  fails, as `UsageProofs` shows.
* The four violations, which are counterexamples.

## 6. What is not modelled, and why

* Widgets, columns, layout, labels, formatting, logging, names of threads (`pthread_set_name` sets a name, whichever), and
  `onThreadInfosDoubleClicked`, which fills in the fields of the filter (and reads the list of threads without its lock).
* `alloc_num`: incremented without a lock, stored by the server, compared with nothing.
* What a data race does inside a Qt object: `View` takes each change of a list or a widget as one step.
* `dladdr` and the symbol it finds: external. Where `tmpbuf` places a block: the model has no addresses inside of it.
* `realloc` and the aligned functions called by the loader before they are known: they go through a null pointer, and
  `Startup` assumes a loader that does not call them. An allocator that allocates in a thread before the constructor of the
  library is an early call of a wrapper, which `Startup` has.
* The second connection to the TCP server, which is closed at once; duplicated datagrams; failing reads.
* The order of start-up in `main.cpp`: the receiving thread runs before `init` has made the models `clearData` calls; `View` starts behind it.
* The socket start-up of the library. A datum of no model: the default port is 19999 in the source and 19000 in the
  repository's `README.md`.
* `fork`: two processes in one pipe.

## 7. The plan

Done: the transport with its refinement; wrappers, controller and usage; reception; symbols; start-up of the
library; the two threads of the server; `MemoryUsage` across the width of an int; proofs about all of them. Left: the
order of start-up of the server, times that do not come in order on the chart, and the socket start-up of the library.
