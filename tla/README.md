# InstantSend in TLA+

InstantSend sends files between computers: a server with one thread per
communication plugin and per client, a command line client, plugins for
transport, notification and progress, and a few helper programs. This directory
models the parts of it whose correctness depends on the order in which threads,
processes and failures meet, checks the models with TLC and proves some of the
results with TLAPS. Paths below are relative to the repository, so the server's
sources are `src/*.cpp`.

## The system

| Component | State | Operations | Talks to |
|---|---|---|---|
| Incoming file (`src/filewriter.cpp`, `src/datareceiver.cpp`, `fileController_t` in `src/filelist.cpp`) | queue of fragments, two semaphores, byte count, status, flags `stop`, `hasStopped`, `zr`, reference count | `writeData` by the receiver; pop, write, drain, report by the writer; `incRC`, `decRC`, `zeroReferences`, `waitZR`, `cleanupCheck`, `autoDelete` | event sink, list, thread layer, file |
| List of controllers (`src/filelist.cpp`) | map from id to controller, `listmutex` | `getController`, `insertController`, `removeController` | every receiver |
| Threads (`src/sysapi/posix/multithread.cpp`) | per thread `running`, `paused`; count and queue of threads to join | `start`, `startThread`, `delThread`, `autoDelete`, pausing, mutexes, semaphores | all |
| Server life cycle (`src/server.cpp`, `connectionreceiver.cpp`, `serverlist.cpp`, `sysapi/posix/appcontrol-platformdependent.cpp`) | `stopApp`, `stopAppFast`, wake-up pipe, queue of ended threads, list of receivers, `running` per receiver | signals, freeze, join, stop, accept | plugin list, plugins, threads |
| Plugin list and handles (`src/pluginlist.cpp`, `plugin.h`, `pluginloader.cpp`) | map of handles, reference counts, instance counts, `modifyMutex` | load, reference, release, `checkUnload` | main, every thread that owns an instance |
| Event sink (`src/eventsink.*`) | sets of handlers, `mMutex` | register, unregister, broadcast, load, unload | file writers, receivers, plugin list |
| Client (`src/client.cpp`) | file reader, status reporter thread, list of ways to a target | find a way, send a file, report | transport, event sink |
| Transport (`plugins/ip4tcp-posix.cpp`, `ip6tcp`, `ip4tcps`) | socket, stop pipe | `sendData`, `recvData`, `acceptClient`, `stop` | client, server |
| Widget (`src/widget-gtk.cpp`) and desktop plugins | rows of files, timers, locks of the desktop libraries | begin, update, end of a transfer | event sink |
| JSON (`src/json.cpp`, `include/json.h`) | tree of items with owners | parse, print, insert, delete | all that read a configuration, every message between client and server |
| Paths and files (`src/sysapi/posix/misc.cpp`, `file.cpp`) | file descriptor | `makePath`, `pathIsUnsafe`, read, write | receiver, writer |
| Configuration tool (`src/configtool.cpp`) | configuration file and its temporary copy | change, save | - |
| Process singleton (`src/fifolock.c`) | five named pipes, the file `exclusive_lock` | one locking loop with recovery | other processes of its kind |
| Windows variants, file manager extensions, scripts, packaging | - | - | - |

What is hard, and the property that makes each component correct:

* **Incoming file.** Two threads and no lock that covers the shutdown. A complete
  file must be reported as complete, an incomplete one as failed, exactly once;
  the queue must stay bounded and never be popped when empty; and exactly one of
  the two threads must delete the controller, after both are through with it.
* **List.** Ids are drawn at random; the id of a controller that exists must lead
  to that controller and to no other, and the list must stay usable when a
  controller cannot be created.
* **Server life cycle.** No end of a thread and no signal may be missed by a main
  thread that sleeps; a receiver must not be gone while it is being stopped.
* **Process singleton.** At most one program; and no crash may leave the lock
  unusable.
* **Plugins.** A library must not be unloaded under a thread that is in it, nor
  twice; a library that does not load must not block the others.
* **Transport.** Every message arrives whole, as one message and in order, or the
  connection is reported as broken; descriptors do not outlive their owners.
* **Client.** A file goes to the target the command line names, under a name from
  below the path it names; "finished" means that the server has all of it; the
  status reporter works on a file that exists; both threads end.
* **Widget.** Rows, counters and the picture of the tray icon agree after any
  signals of any processes.
* **Configuration tool.** A configuration file is whole at every moment, and a
  change that was reported as done is in it.
* **Pure algorithms.** What is written is read again as the same; a text that is no
  configuration ends the reader; a path that is called safe stays below the directory.

`PROJECT.json` lists each hazard at its line, with the properties about it or the
reason there is none.

## Modules

| Module | What it is |
|---|---|
| `Transfer` | abstract: what a plugin is promised about one incoming file |
| `FileWriter` | receiver and writer thread of one file; implements `Transfer` |
| `FileWriterProofs` | inductive invariants of `FileWriter` and their proofs |
| `Registry` | abstract: the calls of the list of controllers, as if each was one step |
| `FileList`, `MCFileList` | the list of controllers, shared by receivers; implements `Registry` |
| `FileListProofs` | inductive invariants of `FileList` and their proofs |
| `ServerLifecycle`, `MCServerLifecycle` | main thread, connection receivers, ends of threads, signals |
| `ServerLifecycleProofs` | inductive invariants of `ServerLifecycle` and of `FifoLock`, under which the server is started, and their proofs |
| `PluginList`, `MCPluginList` | plugins in memory, their counters, the event sink's mutex, the handlers of avahi-publish |
| `PluginListProofs` | inductive invariants of `PluginList` and their proofs |
| `Channel` | abstract: messages that come out whole, in order, and not after `sendData` has failed |
| `Transport` | one connection of one of four transport plugins; implements `Channel` |
| `TransportProofs` | inductive invariants of `Transport` and their proofs |
| `Paths` | the functions on path names, and what the kernel makes of a path |
| `Client`, `MCClient` | one run of `isend`, with a server thread per connection; uses `Paths` |
| `ClientProofs` | inductive invariants of `Client` and their proofs |
| `Widget`, `MCWidget` | the window and the tray icon behind a D-Bus queue |
| `WidgetProofs` | inductive invariant of `Widget` and its proof |
| `ConfigTool`, `MCConfigTool` | processes of `instsend-config` on the same files |
| `ConfigToolProofs` | inductive invariants of `ConfigTool` and their proofs |
| `Json`, `MCJson` | reader and writer of configurations |
| `FifoLock`, `MCFifoLock` | the process singleton |

The `MC` modules only give values to constants, and `MCPluginList` the constraint of a run. Operators with a comment that
begins with "Mutant" are a plausible mistake in the definition that follows; nothing
refers to them, `PROJECT.json` says which property each would violate.

### How state and actions correspond to the code

`FileWriter` has one program counter per thread (`rpc`, `wpc`) and one action per
stretch of code between two points where the other thread can interfere. The
receiver goes through the constructor (`Create`, `StartReturns`,
`BroadcastBegin`), `insertController`, `incRC`, then `writeData` for every
fragment (`WaitInput`, `Push`, `PostOutput`), and in the end `decRC` with
`zeroReferences` inside (`DecRC`, `SetZR`, `ReceiverCheck`, then
`RemoveController` or `SetStop` and `Wake`, and `PostRef`). The writer goes
through `startThread`, the loop of `run` with `writeBuffer` inside (`Loop`,
`WaitOutput`, `TestStop`, `Pop`, `PostInput`, `WriteFragment`), the drain, the
report (`Settle` to `BroadcastEnd`), `waitZR`, `cleanupCheck`, `hasStopped` and
`delThread`. Semaphores are counters, `mutex` is held across steps only where the
code does something else in between. `obj` says whether the controller's memory is
there: while it is, threads follow their code; when it is not, the first access is
`ReceiverTouchesFreed` or `WriterTouchesFreed`, and nothing is claimed after that.

Fragments are counted instead of bytes, so `bytes = FSize` means what
`bytes == fSize` does. The comparison of fragments in the priority queue
(`operator<`) treats all fragments of a transfer as equivalent, because
`lastpos` never changes, so `Pop` takes any of them. A file position is a number below `FSize`;
a faulty client may also send `FSize` itself or a position again.
`RemoveController` has three outcomes where the destructor of the thread data
calls `pthread_exit` in a destructor: what follows depends on the build.

`FileList` has one program counter per receiver. `Enter`, `PickId` and `Insert`
are `getController`, `InsertThrows` the same function left by an exception.
After `Release` (`decRC`) a controller ends in one of the ways in which `FileWriter`
can, seen from the list. `WriterDeletes` is a step of the writer's thread: it comes
whenever that thread is through, while the receiver is still in `cleanupCheck`, idle
or in its next transfer, or never, and leaves the entry behind. `EnterRemove` and
`Erase` are `removeController`, called by the receiver. When the writer was faster,
the receiver goes on with freed memory (`TouchesFreed`) or does not notice (`Return`).

`ServerLifecycle` has one program counter for main, which runs the two loops of
`main()` with `freezeMainThread` inside (`Freeze`, `Join`, `Joined`), and one per
thread. Every thread ends through the steps of `delThread`: into the queue, a
character into the pipe, delete. A call of `stop()` is three steps, `Stop`,
`StopPlugin` and `StopReturns`, with `runningmutex` held in between.

`PluginList` has a transport plugin "T", to which receivers and the peers they
accept refer, and an event plugin "E", here avahi-publish. Every `++` and `--` of a
counter is two steps, `ReadCounter` and `WriteCounter`, because the counters are
plain integers; the table `Accounts` says which counter each stretch of
`PluginPtr`, `BPluginRef` and `pluginInstance_t` changes and what comes next.
`AskPossible` is `unloadPossible` of the creator, asked without a lock; `LockList`,
`Erase`, `AnnounceUnload` and `ReleaseList` are `checkUnload` with the event it
broadcasts while it holds `modifyMutex`. `Look`, `Found` and `LoadFails` are
`operator[]`. A receiver holds the sink's mutex in `OnStarted` and `OnStopped`, and
in them avahi's poll lock, which their early returns keep (`poll`). `published` is the
map of avahi-publish, `announced` what it last committed to avahi: `CreateServices`
leaves that alone when the map is empty. `CommitFails`, `StopThrows` and `Callback` are
its exceptions and avahi's own thread.
`pulled` names the threads that will still use a plugin that was erased; nothing is
claimed after that. `raced` is a history of whether two threads were inside the
unlocked accounting at once.

`Transport` has one action per way in which a call can come back: `SendHeader` and
`SendBody(k)` for a `send` that takes part of what it is given, `SendBodyFails`,
`RecvHeaderShort`, `RecvBody`, and so on, each with the guard that says to which of
the four plugins it belongs. A message is the unit `<<"size", n>>` in the stream
and then `<<m, i>>` for byte `i` of message `m`, so that bytes of one message that
arrive in another are seen. `Modulus` stands for 2^32: `ip4tcps` subtracts the
answer of `SSL_write` from an unsigned count. `RecvRoom` is the size of the caller's
buffer: `RecvHeader` takes no more than that of a message and leaves the rest in the
stream, where it is taken for sizes and messages from then on (`astray`). `Cut` closes
or resets the connection at any moment. The handshake of `ip4tcps` ends on the server in
`AcceptTls`, `RefuseTls`, or `AcceptUnverified`, which returns a peer on a freed session
(`UseFreed`).

`Paths` translates `combinePath`, `getFileName`, `trimSlashes` and `pathIsUnsafe`;
`Resolve` walks a path as the kernel does and is the reference they are compared with.

`Client` has a program counter for main (`cpc`), one for the status reporter and
one per server thread. `FindWay`, `NoWay`, `SendArgument`, `NoTarget` and
`EndOfLine` are the loop over the arguments; `Skip`, `OpenDir`, `NextEntry`,
`EndOfDir` and `OpenFile` are `sendEntry` with its recursion as a stack of open
directories; `SendUpdate` to `SendEnds` are `FileReader::send`, and `Throw` is what
an exception does in it. `JoinAsks` and `JoinWaits` are `StatusReporter::join`,
`JoinFreed` the same after the reporter has deleted itself and the semaphore with
it. The server's thread for a connection (`Reject`, `Accept`, `Refuse`,
`ReceiveData`, `ReceiveFinished`, `Disconnected`) is `dataReceiver_t::run` at the
grain the client can see; what happens between its two threads is `FileWriter`'s.
A file may change its length while it is read (`FileChanges`), and the connection
may break with any part of what is under way lost (`Break`), in the middle of an answer
too (`AnswerTorn`). A server may have lost its `listmutex` and never answer (`Hang`).

`Widget` has the transfers that send D-Bus signals, the bus that keeps their order,
and GTK's main loop, in which every handler is one action. `files` and `received`
are the maps from ids to items, `rows` what the boxes of the window show, and the
tray icon has its timer (`timer`, `timerBlinks`). A `FileInfoItem` is named after
the transfer it was made for, which makes it visible when a signal or a click hits
the item of another transfer with the same id. `missed`, `replaced`, `mistaken` and
`misled` are histories of transfers the widget did not hear of, lost the entry of,
deleted by a click on another, and ended by the end of another. `crash` is a handler
that divides by the size of an empty file or uses an item that was deleted.

`ConfigTool` has one record per process: `main` works through its commands (`Add`,
`List`, `InitCfg`, `ReadCfg`, `NameCfg`, and `Abort` for an exception nobody
catches), and `saveCfg` is the steps `Open`, `Write`, `CloseCfg` and `Rename`, with
`SaveFails` at each of them, the rename included, and `Kill` anywhere. Names lead to inodes as in a file
system, so two processes with the same temporary file write to one inode and each
may rename what the other has not finished. A configuration is the set of the paths
in it, so a command can be asked for a part that does not exist. `want` is what
processes that returned 0 were asked to add; `raced`, `mixed` and `failed` say for
which files the promise is off.

`Json` has each reader and each writer as an operator over sequences of character
codes, with the widths of `intL_t` and `int`, the digits of `%f` and those of a
double as constants. The text
grows by one piece of an alphabet at a time; after each, it is read, written, and
read again, so that a run covers all short texts of the alphabet, the incomplete
ones included.

`FifoLock` keeps the set of processes that have each pipe open for writing. `L`, `U` and
`T` are the macros of the source; `leaked` counts what `T` leaves open for reading, and
`Fails` is the end of a process that has no descriptor left. The names that `ServerLifecycle` has too begin with
`Lock` (`LockSpec`, `LockTypeOK`), because one module proves about both. `waitF` has no action: it closes the descriptor
it then reads from, so it neither blocks nor leaves anything open.

### How the modules fit together

Each module takes from its neighbours what they are shown to do, at the grain it
needs. `FileList` and `Client` use the ends of a transfer that `FileWriter` has.
`Registry` is what a receiver may take `FileList` for: it gets a controller of its
own, whose id leads to it until it is through; it may be deleted any time after. `ServerLifecycle` and `PluginList` are two
views of the same receivers: their threads and their plugin; `FifoLock` is what
`scripts/instsendd-wrapper.sh` starts the server under. `Client` composes the client with
its servers over streams of whole messages, which is what `Transport` shows of a
connection by implementing `Channel`. `Widget` takes the events in the order `Transfer` promises.

## Runs

Runs whose specification is `Spec` have no liveness property and need no fairness;
the others use `FairSpec`.

| Run | Instance | States | Shows |
|---|---|---|---|
| `transfer` | 3 fragments, buffer of 2, the client may vanish at any time | 9 thousand | a fair end for both threads: the end is announced, the receiver released, deletion late, `Transfer` implemented |
| `transfer_faulty` | 2 fragments, buffer of 2, up to 4 fragments too many, disk full | 80 thousand | the buffer stays sound and the end final whatever the client sends |
| `list` | 2 receivers, 4 ids, 3 transfers | 135 thousand | the id of a controller leads to it, `Registry` is implemented, requests are served unless `listmutex` was lost |
| `server` | any 3 of 2 receivers, a client and its writer, both signals | 594 thousand | main misses no end of a thread, ends no connection unless told to, works on receivers that exist and wakes each one it stops, and returns |
| `plugins` | 2 receivers, a connection, main, avahi's thread | 110 thousand | no plugin is closed under a thread in it and main ends, unless two threads were accounting at once; what avahi-publish keeps exists, and is what the network is told, but for the last server that stopped |
| `transport` | 4 plugins, 2 messages of 0 to 3 bytes into a buffer of 2, stream of 3 units, a word of 5 values | 225 thousand | `Channel` is implemented (messages arrive as they were sent, until one does not fit), success is true, descriptors are closed, calls return |
| `client` | 6 command lines, 2 files, a file changes once, connections break, servers hang | 694 thousand | a file goes to its target, only what the command line names goes out, "finished" is true, the reporter has its file, `isend` ends save in four cases |
| `widget` | 5 transfers on 2 ids, 2 of empty files | 2.4 million | rows, counters and icon agree with the signals until an empty file is drawn; no handler uses a deleted item |
| `config` | 2 processes, each with any of 8 command lines, 2 faults | 419 thousand | a file is whole at every moment, changes by one rename, and what was reported as done is in it, save for the known exceptions |
| `json` | texts of up to 6 or 7 pieces of four alphabets | 1.02 million | what was read is written so that it reads the same but for what `%f` rounds away, the reader ends, escapes give UTF-8 |
| `fifolock` | 3 processes, 4 attempts, 2 of them killed, 2 descriptors to lose | 167 thousand | descriptors open for writing follow the code, two attempts exclude each other, a process that is alone gets through |
| `fifolock_exclusion` | 2 processes, 3 attempts, no crash | - | *violated*: two programs run |

### Bounds

* `transfer`: the file is larger than the buffer, so the receiver blocks, and the
  buffer larger than one, so the queue holds several fragments when the client
  finishes; `UpdateInterval = 2` gives updates and fragments without. The empty
  file is left to the proofs.
* `transfer_faulty`: `MaxExtra = 4` is enough to fill the buffer after the writer
  has left its loop.
* `list`: there are more ids than transfers, as `random()` has more than a server
  has files; `MaxTransfers = 3` lets an id stay in the list after its controller and
  another one be drawn.
* `server`: `MaxThreads = 3` bounds how many threads are started in a behaviour:
  two receivers that share the plugin with a client, or a receiver, a client and the
  writer that outlives it.
* `plugins`: two threads are enough to race for a counter and the third is the one
  whose plugin is closed. Each receiver and peer exists once. The constraint
  `BeforeRaces` ends a behaviour where two threads have raced: two of the properties say
  nothing from there on, and the third is proved without it.
* `transport`: a message of three bytes is cut in the header, the body and between
  messages; it does not fit `RecvRoom = 2`, the others do; `Room = 3` makes the sender
  wait in the middle of a message; after the second message there is nothing a third
  could see. `Modulus = 5` is more than any size and small enough to wrap around.
* `client`: `Chunk = 2` cuts the file of three bytes into a whole and a part,
  `Room = 1` makes the client wait for the server after every message, one change
  (`MaxChanges`) makes the file longer or shorter at any time. The command lines
  cover two targets with a file each, a directory, a file before any target, a name
  of three characters (which every server rejects), a path with ".." inside and at
  its end, and `x/`. All have `-p`; without it the division
  by the size of an empty file is missing and nothing else differs.
* `widget`: two ids, one of them shared by an upload and downloads, one free of
  sharing; two downloads after each other on the same id, which is what a click in
  the window can get wrong; `MaxUpdates = 1`; `Room = 2` signals wait while the
  user clicks; `Blink = 1` is 10 in the code.
* `config`: two processes are enough to mix a file, and a third adds only more of
  the same; `MaxFaults = 2` gives a kill and a failed write in one behaviour.
* `json`: `Half = 512` is an `intL_t` of ten bits, `IntHalf = 128` an `int` of eight,
  `Scale = 10` stands for the six digits of `%f` and `Fine = 1000` for those of a double,
  so that there are digits to lose; `MaxExp = 3`. The alphabets are those of numbers, of strings with
  escapes, of `\u` escapes, and of trees.
* `fifolock`: an owner, a process that recovers and one that overtakes it
  (`MaxAttempts`, `MaxCrashes`); `MaxLeaked = 2` lets a process run out of descriptors.

### Fairness and deadlock

Fairness is weak fairness of each thread: a thread that can go on does, which is
what a scheduler gives. A client that falls silent would block its receiver for
ever, as the code has no timeout, so fairness of a receiver includes that its
client sends something or goes away; in `ServerLifecycle` and `PluginList` it
includes that connections end. `Transport` has weak fairness of the two calls: a
call on a connection that has ended returns from the kernel. `Client` has it for
main, the reporter and each server. Nothing is assumed about signals, crashes,
failures, breaks, new clients or a server that hangs. `FileList` adds strong fairness of obtaining
`listmutex`: a mutex that is free again and again is obtained.

`CHECK_DEADLOCK FALSE` stands where the system may stop: processes that have used
their attempts, a server that has returned, a process that was terminated, an
`isend` that has ended, a connection that is over, a bound that is used up.
`FileWriter.cfg` checks deadlock, with `Terminated` as the end.

## Known deviations

Most of what a property cannot promise is an exception in the property, stated in
its comment. These are the places where the code does something its authors can
hardly have meant. Most are steps of a model; those that are not are under "Not
modelled" or marked here.

Process singleton
* At most one program runs, says `fifolock.c:20`; `fifolock_exclusion` shows three
  attempts without a crash and two programs. The recovery branch acts on an answer
  that has become stale, and does not wait because `waitF` does not. For the same
  reason two attempts can retreat from each other (`AttemptEnds`) until their
  descriptors are used up: `testF` leaves one open whenever it finds somebody
  (lines 68 and 78), and the program inherits what is left open. The comment in line 130
  wants it to need one descriptor.

One transfer. `BeginComesFirst`, `NoUseAfterFree`, `EventuallyDeleted` of
`FileWriter` and `AlwaysAnswered` of `FileList` state what does not hold; a
configuration that lists one of them gets the counterexample.
* The constructor starts the thread before it announces the transfer, and an empty
  file needs no fragment to end, so the end may come before the begin.
* `decRC` posts `refSem` after `zeroReferences` has allowed the writer to delete
  the controller.
* `run()` clears `zr` when the thread starts, possibly after `zeroReferences` set
  it; and each side may look at the other's flag before it is set. Then nobody
  deletes the controller. In the common case the writer finds `hasStopped` unset in
  its own `cleanupCheck`, and its entry in the list is never removed.
* Bytes are counted, not positions: a client that repeats a position makes a file
  with a hole count as finished.
* A client that sends more than the buffer holds after the writer has left its loop
  blocks its receiver; a write that fails throws out of the writer thread and
  terminates the server. `ReceiverReleased` and `AlwaysReported` are about the rest.
* When the file cannot be opened, `listmutex` stays locked.

Server and plugins
* A receiver whose `accept()` fails deletes itself and stays in `serverList_t`;
  stopping the server then works on freed memory. The writers of connections that
  have ended are cut off when main returns.
* Two threads that change a counter at once, or one that finds a plugin while
  another unloads it, can leave a third in code that is no longer mapped.
* A plugin that fails to load leaves `modifyMutex` locked, and main never exits.
* `createServices` of avahi-publish returns before it resets the group when no server is
  left, so the last one that stopped stays announced. It throws out of `onStopped`, which
  promises to throw nothing; early returns keep the poll lock, and the next handler waits
  for ever. `setClient` reads `client` before it is set (not in the model).

Transport
* A message larger than the buffer that `recvData` was given is cut off, with no error and
  its full length as the size, and the rest is read as the next size: `pluginapi.h:100-112`
  promises exactly the same data. `dataReceiver_t` (`datareceiver.cpp:104`) and `isend`
  (`client.cpp:115-128`) do not see to it that a message fits.
* A handshake of `ip4tcps` that completes but is not verified frees the session and
  still returns a peer. `SSL_write` answers -1 on a connection that has ended, which
  makes the count of missing bytes wrap around, so `sendData` may answer 1.
* In all but `ip4tcps`, `recvData` does not end when the connection is closed in the
  middle of a message. The Windows version takes a short header for a whole one.
* `ip4tcp` does not bind a `sourcePort` given without an address. A server whose
  constructor throws leaves its pipe and socket open. No call has a timeout.

Client
* The reporter deletes itself, and the semaphore, while main waits for it in
  `join`; an exception in `send` leaves a reporter that works on a destroyed object.
* An answer of which the end is lost, and a server that lost its `listmutex`, make `isend`
  wait for ever.
* A path of one character, alone or before slashes ("a/"), becomes "/", and the whole
  file system is sent.
  `pathIsUnsafe` rejects every name of three characters and misses a ".." at the end.
* `-p` with an empty file divides by zero. A file that becomes shorter is read for
  ever; one that becomes longer is "finished" at the client and an error at the server.
* The first file that is rejected or fails ends the program. The size of the message
  that says "rejected" is never set.

Widget
* Every empty file that is drawn while it is transferred ends the widget by a
  division by zero. `excmark`, `animem` and `cnt` are not initialised. At a blink
  the picture of receiving is shown while files are only sent.
* `isend` uses its process id where the server uses random numbers, so ids can
  be shared: an entry is overwritten and its rows stay; a click removes the file in
  transfer instead of the finished one. Items of uploads are never freed.

Configuration tool
* Two processes share the temporary file; each overwrites what the other did, and
  the file may be a mixture. A write that fails is not reported by the exit code.
  An exception loses what was not saved. `-Et` always ends by an exception. `-ic`
  without a name afterwards overwrites the old file with an empty configuration.

JSON
* A negative number with a fraction is printed so that it is read as another one
  (-2.5, -1.5, -0.5, 0.5 in successive saves); the smallest integer is printed as
  garbage; exponents apply to the fraction only; a zero character ends a string.
* `%f` has six digits, so 0.0000001 becomes 0. The divisor of a fraction is an `int` that
  wraps around after nine digits and is zero in the end: "inf" and "nan" cannot be read
  again. Integers wrap around. Halves of a surrogate pair are not joined.
* A word in an array that begins with "n" and is not "null" makes the reader loop.
  An array without its end is accepted, and so is any text after the value. The
  first of two equal keys counts.

## Proofs

`FileWriterProofs` proves for every file size, buffer size, update interval, set
of faults and bound, from `ConstantsOK` alone:

* `TypeCorrect`: `Spec => []TypeOK`. Inductive after one addition (`TypeInv`):
  where the receiver is determines its reference count and the length of what has
  arrived.
* `PopIsSafe`: the writer never pops an empty queue. `NeverPopsEmpty` is not
  inductive; `BufferInv` counts tokens against fragments: until `stop` is set,
  `outputSem` and the token in the writer's hands never exceed the fragments
  queued, and afterwards the writer no longer reaches the pop with a token that
  was posted for waking it.
* `BufferStaysBounded`: free places, fragments queued and places in transit add up
  to at most `MaxBuf`, which `BufferInv` has as a conjunct over cardinalities.
* `DeletionIsLate`: a controller is deleted after its end was announced and the
  receiver gave its reference back. `ShutdownInv` ties `zr`, `hasStopped`, the
  positions of both threads and the events to each other.
* `EndComesLast`: a plugin hears one end, with an outcome, and after it nothing but
  a late begin (`EndIsFinal`). `SettledInv` adds where the writer is when the status
  leaves IN_PROGRESS and when the end is announced.
* `ImplementsTransfer`: the first state of `FileWriter` is one of `Transfer`, and
  every step of either thread is a step of `Transfer` or none, so FINISHED is
  reported only for a file whose every part is on the disk, and ERROR only when the client has not
  delivered every part: nothing that arrived is lost. `ArrivedInv` says that each fragment
  that arrived is in the queue, in the hands of a thread or in the file, and that a writer
  that stops early does so after the receiver is through; it carries `NothingIsLost`.
  `DataInv` says that the
  fragments that arrived are different parts of the file, that each is in one place
  (queued, in the writer's hands, written), and that `bytes` counts those written;
  `AllIsStored` concludes that `bytes = FSize` when nothing is missing. It is proved
  for clients that do not send a part twice or past the end (`"extra" \notin Faults`),
  because otherwise it is false: bytes are counted, not positions. Writes that fail
  and clients that vanish are included.

`FileListProofs` proves `TypeCorrect`, `ListedAlive` (`LiveIsListed`) and
`IdsAreUnique` for every set of receivers and ids and every number of transfers.
`LiveIsListed` needs that a receiver inside the locked part of the function holds
the mutex, alone, and that the id it has picked is not in the list (`ListInv`);
uniqueness follows from it, because one entry leads to one controller.
`ListIsARegistry` proves that `FileList` implements `Registry` (`ImplementsRegistry`):
`Insert` is `Acquire`, `Release` is `LetGo`, `Erase` and `WriterDeletes` are `Delete`, and
every other step is none. The abstract table is the list without the
entries of controllers that are gone. It needs that a receiver in a transfer has a
controller, which exists and which no other receiver has (`HeldInv`), and that an
entry is under its controller's own id also when that controller is gone (`EntryInv`):
otherwise `removeController` could erase another receiver's entry.

`TransportProofs` proves, from `TransportOK`, for any of the four plugins, any
sizes, any number of messages and any width of the length field:

* `SuccessIsTrue`: a `sendData` that answers 1 has given the whole message away
  (`SuccessIsWhole`). Inductive with `SendInv`: the bytes given away and those
  missing make up the message as long as the connection counts, and a connection
  that has ended stays so. A step of `sendData` that answers is `AnswerKeepsMessages`,
  a step of anybody else `OthersKeepMessages`.
* `DataComesOutAsSent`: what `recvData` returned are the first messages sent, whole
  and in order (`DeliveredAsSent`), up to the first one that is larger than the buffer. `ReceivedInv` says the same of the message that
  is being received; `StreamInv` says that the units on their way are those between
  the place where the receiver goes on and the place where the sender does, and
  that they follow one another. It says so of all pairs of units and not of
  neighbours only: what a call of `recv` takes away in one step may be any number of
  units, and getting from neighbours to these would take an induction.
* `ConnectionIsAChannel`: `Transport` implements `Channel` (`ImplementsChannel`). Each call
  and each return of `sendData` and each return of `recvData` with a message is the
  abstract step, everything else none. What is new over `DataComesOutAsSent` is
  `ToldInv`: a message is not received before its last byte is given away, so one that
  `sendData` answered 0 for is never received, and neither is any message after it.
* `NothingStaysOpen`: `DescriptorsClosed`, with the two leaks it names, from `DescriptorInv`, which says which
  side owns what is open and that only `ip4tcps` is ever in a handshake.

`ServerLifecycleProofs` proves, for any receivers, clients and writers:

* `TypeCorrect` and `CountIsRight`: `threadCount` is the number of threads that were
  started and not yet joined. This needs that a peer which was accepted and does not
  run yet is in the hands of one receiver (`PeersHeld`), so that no thread is started
  twice.
* `NoEndIsMissed`: when main sleeps and the pipe is empty, no thread that has
  written its character is in the queue (`EndsAreSeen`). `EndsInv` says so of every
  place of main where it is not emptying the queue: only main takes a character, and
  then it empties the queue, so a character read for another thread does no harm.
* `ExitIsGraceful`: `GracefulExit` needs only that the count is right.
* `StopFindsReceiver`: `stop()` works on a receiver that exists (`StopIsSafe`). By
  `ReceiverInv` a receiver in the list serves until `stop()` is called on it, and waits
  in front of the end of `run()` for the mutex that `stop()` holds. Both hold as long
  as `accept()` has failed nowhere, which is the exception in the property.
* `StopsAreNoticed`: a receiver that `stop()` is through with and that has not left its
  loop has a character in its pipe (`StopIsNoticed`). By `NoticeInv` main holds
  `runningmutex` of one receiver only, clears `running` before the plugin's `stop()`
  writes the character, and nobody takes the character away again.

The last part of `ServerLifecycleProofs` is about `FifoLock`. It proves `LockTypeCorrect` and `DescriptorsFollow` (`PipesFollowCode`)
for every set of processes and any number of attempts and crashes. The two
together are inductive as they stand: every step moves one process and changes
its membership of the pipes as `Holds` says. The leak of `testF` is beside them.

`FirstTwoAreExclusive` proves `FirstTwoExclude` for any processes and crashes. While
there are at most two attempts (`TwoInv`), no more processes than attempts are in
the code (`FewInv`), and a process that finds a lock finds the other
one's: that one is past the section that it guards, or dead, when the lock is
removed, since nobody has pipe 1 open (`ExcludeInv`). With a third attempt the
answer of `open` may be about another process than the lock, and exclusion is lost.

`PluginListProofs` proves for any receivers and peers:

* `AnnouncedExist`: `PublishedExist` (the last server that stopped may stay announced,
  no other that is gone), with and without races, until code that is no
  longer mapped has run. `PlaceInv` ties what each
  thread has in its hands, the sink's mutex and the handlers to where it is.
* `NothingIsClosedInUse`: `ClosedIsUnused`. By `CountInv`, until two threads have been
  inside the accounting at once, each counter is the number of places in the code
  from which it is still to be taken back (`Balance`, over cardinalities of sets of
  threads) and what a thread has read of a counter is still its value (`Fresh`).
  A library is closed with both at zero, so no thread is on its way to it.

`WidgetProofs` proves for any transfers, ids, sharing of ids and clicks:

* `CountsShown` (`CountsAreRows`), `RowsShown` (`RowsFollow`), `IconShown` (`IconFollows`)
  and `ItemsAreThere` (`ItemsExist`). They need one invariant: a transfer whose
  begin is still on the bus has left no trace in the widget, its end is on its way
  as long as it has a row, and it has one in between (`BusInv`, `EndInv`, `FollowInv`,
  `ShownInv`); entries are of items with rows, or that had them, and were not deleted
  (`EntriesInv`, `ItemsInv`); the counters are the cardinalities of the rows and of the items that
  a click took away uncounted (`CountInv`); and the icon follows from the counters as
  of the last call of `updateStatus` (`IconInv`).

`ConfigToolProofs` proves for any processes, command lines and faults:

* `FilesStayWhole`: `FileIsWhole`. By `FileInv` no two names lead to the same inode, no
  process writes to an inode of another file, and unless two were saving it at once
  the one process that saves a file owns the temporary inode, in which its progress
  can be read off.
* `ChangesStay`: `ChangesArrive`. What was promised is in the file, in what every live
  process that has loaded it will save in its place, and so is what other live
  processes have asked for (`ArriveInv`); it also needs that two live processes on one
  file are a race already (`RaceInv`).
* `ReplacedByRename`: the action property `ReplacedWhole`. A step that changes what is
  found under the name of a file is the rename of one process that writes all it has in
  memory. It follows from `FileInv`: no open, write or failure reaches an inode that
  the name of a configuration file leads to.

`ClientProofs` proves, from `ClientOK`, for any command lines, files, fragment sizes and
queue lengths, wherever files change and connections break:

* `SentIsStored`: `FinishedIsStored`. `ShapeInv` is about types: it takes sequences of
  anything, because messages are records of several shapes. `ProtocolInv` is the
  protocol between `FileReader::send` and `dataReceiver_t::run`. On each connection
  messages come in the order request, data, finished, and fragments follow one another
  (`QueueInv`); the server is at most one file behind the client, and the next request
  may be on its way already (`CountInv`); a request under way has a client that waits or
  is through (`ReplyInv`); a file that can only be reported as sent is stored, or its end
  is still under way (`StoredInv`). The client's side says what the connection is like
  where `send` begins and ends (`BetweenInv`), waits for the answer (`WaitingInv`) and
  sends data (`SendingInv`): what the server has, what is on its way and what is still
  to be read make up the file; and a file that does not change is read to its end and no
  further (`ReadInv`). The property alone is far from inductive: whether the server
  will store a file depends on messages that it has not taken yet.
* `GoesToTarget`: `ToTargetNamedLast`. By `WayInv` the connection in use leads to the target
  named last wherever a file can be sent from; the step that makes it hold is
  `SkipTarget`, which leaves no file to be looked at after a target without a way.
* `ReporterNeverOutlives`: `ReporterHasFile`. By `ReporterInv` the reporter runs while `send`
  does and `send` ends only when the reporter has posted, which is after its last
  broadcast.

Only model-checked:

* All liveness, and with it the part of `RefinesTransfer` that is not in
  `ImplementsTransfer`: its fairness is about ENABLED, which the prover does not
  handle.
* `FollowsCommandLine` of `Client`, which compares a name with what `Resolve` makes of the
  path, a recursion over its components: an induction over data. `TypeOK` of `Client`
  bounds sequences and is not in a run; `ShapeInv` takes its place in the proofs.
* `Json` and the functions on paths for the same reason; `Json` is also written with
  RECURSIVE operators.

Type invariants, `UniqueIds` of `FileList` and `DeliveredAsSent` of `Transport` are theorems
and in no run: the first are implied by the inductive invariants, the other two by the
refinements of `Registry` and `Channel`.

`FinishedIsComplete` and `ErrorIsIncomplete` of `FileWriter` are what `RefinesTransfer`
says of the two outcomes (`Finish`, `Fail`) and are in no run.

## Plan

* An abstract specification of the list of plugins (a plugin is in memory while
  somebody refers to it), which `PluginList` implements until two threads race; the
  invariant it needs is `CountInv`.
* `Client` over `Channel` instead of a stream of its own, so that the two compose by
  INSTANCE. Breaks in `Client` lose any part of what is under way, which `Channel`
  allows too.

## Not modelled

* Windows: the thread, path and file functions over the Win32 API and
  `ip4tcps-windows`; `ip4tcp-windows` is one of the kinds of `Transport`.
* `desktop-notify` only calls its library; `zenityprogress` is written against an
  older interface and does not compile; `serverfilelist.cpp` is not built.
* File manager extensions, scripts, packaging: they start the client.
* `dlopen` and the search for plugins, the reference-counted containers of
  `json.h`, `makePath`'s `mkdir` calls, reading `client.cfg` and the server's
  configuration, daemon and pid file.
* `pauseTransfer` sets flags that nothing on the writer's path looks at, so a
  transfer is never paused.
* The destination file is opened without truncation, so a shorter file over a longer
  one keeps its tail: contents of files are abstracted to positions and outcomes.
* The layout of the window, texts for the user and what certificates say.
