# muduo_net_zxl in TLA+

The repository is a rewrite of the network library muduo (reactor, timers, TCP
server and client) with a protobuf codec, an RPC layer and a distributed median
finder on top. This directory models both layers, the concurrent core and what is
sent over it, checks the models with TLC and proves their safety properties with
TLAPS. Paths below are relative to the repository.

## The system

### Parts, their state and how they interact

| Part | State | Operations |
|---|---|---|
| `EventLoop` | `quit_`, `looping_`, `callingPendingFunctors_`, `pendingFunctors_` under `mutex_`, the eventfd | `loop`, `quit`, `runInLoop`, `queueInLoop`, `wakeup`, `doPendingFunctors` |
| `Poller`, `Channel` | `pollfds_`, `channels_`, each channel's `events_`, `revents_`, `index_` | `updateChannel`, `removeChannel`, `poll` |
| `TimerQueue`, `Timer`, `TimerId` | `timers_`, `activeTimers_`, `cancelingTimers_`, the timerfd | `addTimer`, `cancel`, `handleRead`, `reset` |
| `EventLoopThread` | `loop_` under `mutex_` and `cond_`; an `EventLoop` on the new thread's stack | `startLoop`, `threadFunc`, the destructor |
| `EventLoopThreadPool` | the loops, `next_` | `start`, `getNextLoop` |
| `TcpConnection` | `state_`, its channel, `outputBuffer_` | `send`, `shutdown`, `connectEstablished`, `connectDestroyed`, `handleRead/Write/Close/Error` |
| `TcpServer`, `Acceptor` | `connections_`, `nextConnId_`, `listening_` | `start`, `newConnection`, `removeConnection(InLoop)` |
| `Connector`, `TcpClient` | `connect_` (both), `state_`, `channel_`, the retry timer; `connection_` | `connect`, `disconnect`, `stop`, `restart`, `retry`, `newConnection`, `removeConnection` |
| `Buffer` | a byte vector, two indices | `append`, `prepend`, `retrieve`, `makeSpace`, `readFd` |
| `ProtobufCodec`, dispatchers | none but the buffer; callbacks by type | `fillEmptyBuffer`, `send`, `onMessage`, `parse`, `onProtobufMessage` |
| generated message classes | a value per field | reading, writing, sizes, merging |
| `RpcChannel`, `RpcServer` | `outstandings_` under `mutex_`, `id_`; `services_` | `CallMethod`, `onRpcMessage`, `doneCallback`, `onConnection` |
| collector, `getKth`, sorter | `result_`, `smaller_`, `same_`, `latch_`; the search interval; `data_` | `connect`, `getStats`, `search` and the closures; `Query`, `Search`, `Generate` |
| `balancer.cc`, examples, tests, socket wrappers | | |

A loop's thread polls, runs the handlers of the channels that `poll` reported,
then the functors queued by then, and starts again. Other threads reach a loop
in two ways only: `queueInLoop` (mutex, then a write to the eventfd) and plain
reads and writes of flags (`quit_`, `state_`, the two `connect_`). Connections
are shared by `TcpConnectionPtr`s in the server's map, in functors and in
handlers; several other functors bind a raw `this`.

Above the connections, bytes that `readFd` puts into `inputBuffer_` are cut into
frames by the codec, parsed by the generated classes and handed on by type; the RPC
channel matches the answers among them with its calls by id, from whichever thread
the calls came; the collector is a thread that calls and waits on a latch, which the
closures of the answers count down in the loop's thread.

### What is hard

* The wakeup of a loop that is about to sleep, against functors and `quit()`
  coming from outside and from inside (`EventLoop`).
* The life of an `EventLoop` on the stack of another thread (`EventLoopThread`).
* Three structures that must agree after every swap-and-pop (`Poller`).
* Timers added and cancelled by the callbacks of the timers being walked over
  (`TimerQueue`).
* A connection's end: close, half-close, a write that fails, the destruction in
  one loop and the removal from the map in another (`TcpConnection`, `TcpServer`).
* Retries and reconnection racing `stop()` (`Connector`, `TcpClient`).
* Frames cut anywhere by the stream and joined in a buffer that grows, moves its
  bytes and is filled in two pieces (`Buffer`, codec).
* Calls of several threads and answers in any order on one channel, connections
  that drop with calls outstanding (`RpcChannel`).
* A search whose rounds share two sums and a latch between two threads, on numbers
  at the ends of their range (`collector.cc`, `kth.h`).

`PROJECT.json` lists these as hazards, each at its line, with the properties that
would catch them.

What makes each part correct: `EventLoop`, nothing queued is lost, repeated,
reordered or left asleep; `EventLoopThread`, the loop exists while it is used and the
destructor returns; `Poller`, structures agree and interest is polled; `TimerQueue`,
each timer runs in time, once per due time, and not after cancellation;
`TcpConnection`, an ordered byte stream and one orderly end; `TcpServer`, loops used
in turn and nothing freed early or never; `TcpClient`, one attempt at a time and
never none while it wants one; `Buffer`, a byte queue; codec, the frames sent are the
messages received however they are cut; RPC, each call answered at most once, with
its own answer; the collector, the median of all numbers, and an end.

## The modules

| Module | Models | Checked by |
|---|---|---|
| `TaskQueue` | what `EventLoop` promises: functors run once, in order | refined by `EventLoop` |
| `EventLoop` | one loop, its owner, any other threads | `EventLoop.cfg` |
| `EventLoopThread` | extends `EventLoop` with the thread object | `EventLoopThread*.cfg` |
| `EventLoopProofs` | theorems about `EventLoop` and `EventLoopThread` | tlapm |
| `Poller` | `Poller` and the interest of `Channel`s | `Poller*.cfg` |
| `PollerProofs` | theorems about `Poller` | tlapm |
| `TimerQueue` | the timers of one loop | `TimerQueue*.cfg` |
| `TimerQueueProofs` | theorems about `TimerQueue` | tlapm |
| `TcpConnection` | one connection, two loops, threads, the peer | `TcpConnection.cfg` |
| `TcpConnectionProofs` | theorems about `TcpConnection` | tlapm |
| `TcpClient` | `TcpClient` with its `Connector` and loop | `TcpClient.cfg` |
| `TcpClientProofs` | theorems about `TcpClient` | tlapm |
| `TcpServer` | `TcpServer`, `Acceptor`, the pool, several loops | `TcpServer.cfg` |
| `TcpServerProofs` | theorems about `TcpServer` | tlapm |
| `Wire` | the messages and the classes generated for them | through `Codec.cfg` |
| `Buffer` | `Buffer` as a data structure | through `Codec.cfg` |
| `MessageStream` | what the codec promises: messages in order, each to its callback | refined by `Codec` |
| `Codec` | codec and dispatcher at both ends of a connection; extends `Buffer` and `Wire` | `Codec.cfg` |
| `CodecProofs` | theorems about `Buffer` and `Codec` | tlapm |
| `Rpc` | RPC channels, servers and the calls of several threads | through `Collector.cfg` |
| `Collector` | the collector and the sorters; extends `Rpc` | `Collector.cfg` |
| `CollectorProofs` | theorems about `Rpc` under `Collector` | tlapm |

Each `MC...` module only gives TLC's instances their values. Variables carry the
names of the members they stand for; a history variable is marked as such and
no guard depends on one beyond the bounds. `PROJECT.json` maps each definition to
the lines it translates. A schema of `Wire` stands, with the operators that take it, for
what is generated for its class to read, write and measure a message; such generated
code is two thirds of the lines mapped, the hand-written sources the other third. A definition that begins with the comment "Mutant of X"
is a plausible bug in X; it is not used by the specification and serves to show
that a property notices it. The modules of the network library
have the types of their variables in a `TypeOK`, which is proved and part of the
inductive invariant; the runs' properties say more than types.

**EventLoop.** A step is a stretch of code between two points where another
thread can interfere: taking `mutex_`, the eventfd, `quit_`. So `queueInLoop` from
another thread is two steps (`ThreadQueue`, `ThreadWakeup`), `quit()` likewise, and
the owner's `queueInLoop` is one, for its test reads only variables of the
owner. `PollWithoutWakeup` is a poll that returns for I/O or after its 10 s timeout.

**EventLoopThread.** The created thread is the owner of the extended module.
`mutex_` has a holder, and a thread that waits on `cond_` is at `"waiting"`: each line
of `startLoop` and of `threadFunc` between two points where the other thread can come
in is an action, the lock, the test of `loop_`, the wait, which goes to sleep and
releases the mutex in one step, the store, the notify, which wakes whoever is asleep
then and nobody later, the unlock. `SpuriousWakeup` is what POSIX lets a wait do.
Calls of users and of the destructor record in `deadCall` whether the loop existed.

**Poller.** `RemoveChannel` and the reuse of descriptors follow the owners in the
library: a channel is removed after `disableAll`, not while it waits to be handled,
and its descriptor goes to another channel only afterwards. The asserts set
`aborted`. An ignored channel's `fd` is `-fd - 1`, as in the code.

**TimerQueue.** A Timer's sequence number stands for its address too. A tick is
100 us, the least delay that is ever armed. Which of two timers with equal
expiration comes first is free, as addresses are. `AddTimer` and `Cancel` come from
the loop (also inside callbacks) and from threads through functors.

**TcpConnection.** A message is two bytes, so that `write()` can accept none, one
or both. `retained` says that the vector `doPendingFunctors` works through still holds
a functor that owns the connection, though it has run. `peer = "closed"` means that
the next `read()` returns 0, `"reset"` that reads and writes fail. `stopped` says why a run ends: an assert of the connection
(`"state"`), of the server's map (`"erase"`), of the Poller (`"poller"`), or a
functor bound to a raw `this` that found the connection freed (`"freed"`; what the
freed object then does is undefined, so nothing follows). `send()` is its test
of `state_` in the caller's thread and a functor later.

**TcpClient.** `connect_` exists twice, in the client (`clientConnect_` here) and in
the Connector; each access by another thread is a step, and the loop's `restart` is
two, its assignments and its call of `startInLoop`, which tests `connect_` again. A retry timer is a
number that counts timers not yet fired, without a delay: it fires at any time.

**TcpServer.** Loops are numbered, 0 is the base loop. Each loop keeps its queue,
the vector being run and the channels reported. A functor holds its
`TcpConnectionPtr` until the batch is dropped; `Freed` is the absence of any. What
else a connection does is in `TcpConnection`. That a queued functor wakes its loop is
what `EventLoop` shows, so here a poll may always return.

**Wire.** The generated classes differ in their fields only. A class is its schema,
for every field number its label and type, and each member function is one operator
over a schema; the tables of each `.pb.cc` file are the types it registers. Bytes
are exact: varints, tags, lengths, `fixed64`, unknown fields and unknown enum values
kept aside, a message with a required field missing refused. Integers are natural
numbers below 2^31: no program here sends others through the codec but the collector,
and `Collector` does not go down to bytes. That the computed
size of a message is the written one and that what is written reads back is
`MessagesAssumption` of `Codec`, which TLC evaluates over all messages of its instance; in
`MCCodec` it also checks that two messages written one after the other read as their
`MergeFrom`.

**Buffer.** A record with the vector, the two indices and whether every assert held;
each member function is an operator on it. `readFd` fills the vector's free space
and then `extrabuf`, which is appended.

**Codec.** A sender frames messages with `fillEmptyBuffer` and `send`; the bytes form a
stream; `Read` moves some of them through `readFd`; one step of `onMessage`'s loop is
one action, in the order of its tests. Frames of a peer that must be refused come
from `SendForeign`: wrong lengths, names, checksum, payload. A type's name is one
byte, since only its being known matters. The default error callback half-closes and
the frame stays, to be met again by each later read. `open` says whether the stream has
ended, which ends the reading; `state_` is left alone by it, as in `handleClose`. The
asserts on the way, of `Buffer.h` and of `fillEmptyBuffer` (`codec.cc:13, 31, 48`), are recorded
in the buffers' `ok`. `MessageStream` is the
abstract specification: what is sent and can be taken is delivered in order, once, to
the callback of its type or the default, until something is refused; in the end
nothing waits. A message longer than `kMaxMessageLen` counts among what is refused,
for `fillEmptyBuffer` does not look at the limit.

**Rpc.** `CallMethod` is three steps, the id, the entry, the send, with everything
else in between. A service answers before it returns (`ServeNow`) or keeps its
closure (`ServeLater`, `DoneCallback`), so answers come back in any order. An answer
carries, besides the id, the call it is for, which the code does not have and no
guard looks at: it is what `AnswersOwned` compares. `Drop` loses what is under way and
leaves the outstanding calls as they are. The asserts of `RpcChannel.cc:59, 63` hold by
construction here (a channel reads its own connection only, and each answer the servers
make has a response or an error) and are not in the model; nor is line 90, which no
service of the repository can fail, nor a response that does not parse (77).

**Collector.** The main thread's program counter goes through connect, the calls of a
round, the wait, and getKth's decision between two rounds; `OnAnswer` is the loop's
thread running a closure. An `int64` has `Width` bits and wraps. Another thread
calls other methods through the same channels, another client may make a sorter
generate new numbers, and a connection may be lost. The latch is a counter.

## The runs

All passing runs together take about five minutes with two workers.

| Run | Instance | Distinct states | Shows |
|---|---|---|---|
| `eventloop` | 2 threads, 3 functors | 72 490 | no lost wakeup, no lost `quit()`, `TaskQueue` implemented, functors run and `quit()` ends the loop by the wakeup alone |
| `eventloopthread` | Main, 1 thread, 2 functors, users that quit | 4 234 | until somebody quits it users find the loop alive; `startLoop` returns, for its notify is not lost, and the destructor does |
| `poller` | 4 channels, 3 descriptors | 346 341 | no assert fails, structures agree, reports reach their owner |
| `timerqueue` | 3 timers, 1 cancel, clock to 4 | 402 151 | the two sets agree, each Timer owned once, timerfd armed for the earliest, no run early or repeated, each timer runs that nobody cancels |
| `tcpconnection` | 1 thread, 2 messages | 85 812 | ordered stream, writing enabled iff needed, half-close after the output, one orderly end |
| `tcpclient` | 2 threads, 1 `connect()`, 2 connections | 1 292 | one attempt at a time, none forgotten, no assert fails, connected in the end |
| `tcpserver` | 0 to 2 pool loops, 3 connections | 20 099 | loops used evenly; establish, close, destroy and free in order and to the end |
| `codec` | two or three messages of every type, 8 bad frames, 33 bytes on the stream | 53 122 | no assert of the buffer fails and no byte is lost, no whole frame is left waiting, `MessageStream` implemented |
| `collector` | 2 sorters, 3 data sets, 3-bit integers, 1 call of another thread, 1 disturbance | 513 516 | answers find their calls, a round sums its own answers, the median is right, the search never fails, the program ends |

Three more runs end in a violation. They state what a document, an assertion
or a test says, and TLC shows that the code does otherwise:

| Run | Says | The code |
|---|---|---|
| `eventloopthread_quitlost` | `Readme.md:11`: `quit()` takes effect at the next `while(!quit_)` | `loop()` first sets `quit_ = false` (`EventLoop.cc:75`): a `quit()` before it is lost, and the destructor joins for ever |
| `poller_interest` | `Readme.md:73`: the pollfd follows `events_`, only a channel without interest is ignored | `pollfd.fd` becomes negative at `Poller.cc:67` and is never put back |
| `timerqueue_cancel` | `test4.cc:28-32, 45-48` cancels timers and expects them to stop | `TimerQueue.cc:84` returns an id with sequence 0, so `cancel` finds nothing |

### Bounds and why they suffice

* `eventloop`: each functor is queued once (`Fresh`). With three there can be one
  running, one in the swapped vector and one newly queued, at the same time as
  another thread is between its push and its wakeup. Two threads give two such
  threads, and one that quits besides one that queues.
* `poller`: four channels allow removal from the front, the middle and the end of
  the array, with the last entry ignored or not, and one reuse of a descriptor;
  descriptor 0 is among them, the one for which plain negation would not do.
  `OneReport` (a CONSTRAINT) lets TLC check reports of several channels
  but go on only from those of one: handlers are inert in this module.
* `timerqueue`: `MaxTimers`, `MaxCancels`, `MaxTime` bound the timers, the cancels
  and the clock; up to `BusyUntil` time passes while the loop still has work,
  after it only when it is idle, so that what is due can still run under `MaxTime`.
  Delays are one in the past and one ahead, one timer repeats. `timerqueue_cancel`
  has an interval of one tick besides: `runEvery` repeats only beyond one second.
* `tcpconnection`: each message is sent once, by the loop or by the thread. Two
  messages of two bytes give a partial write, a message queued behind it and one
  that could overtake.
* `tcpclient`: `MaxConnects = 1`, one `connect()` per client, as every program
  in the repository does; failures and `stop()`/`disconnect()` calls are
  unbounded. Two connections, so that the path through `restart` is taken. With
  `MaxConnects = 2` TLC reaches the assert at `Connector.cc:30`: `stop()` and
  `disconnect()` leave the attempt, its timer or `kConnected` behind, and `connect()`
  starts another. This is listed as a hazard.
* `tcpserver`: three connections over two loops, so the turn comes round.
* `codec`: `kInitialSize` 16, `ExtraBuf` 16 and `kMaxMessageLen` 28 take the place of
  1024, 65536 and 64 MiB: frames are 13 to 33 bytes, so a buffer grows, moves its
  bytes and is filled in two pieces, and a message over the limit exists. `MaxBytes`
  33 lets one long or two short frames be on the stream; `Chunks` of 1 and 20 bytes
  cut a frame anywhere and join the end of one with the beginning of the next. A message has its required
  fields only, or all of them and the repeated ones twice.
* `collector`: `Width` 3 gives integers from -4 to 3, data sets that span both signs,
  lie at one end, or are empty. `MaxSteps` 5 stands for the 100 rounds: it is the
  first bound that the search, which needs `Width + 1` rounds at most, stays below.
  `MaxDrops` 1 and `MaxDisturbances` 1: one connection lost or one `Generate`.

`CHECK_DEADLOCK FALSE` is given where the system comes to rest: the thread object is
destroyed, the clock has reached its bound, the connection is destroyed, the
client has its connections or is stopped. `codec` and `collector` stutter in a
terminal state that is named (`Terminated`, `Stopped`). `eventloop`, `poller` and `tcpserver` have
no such state and TLC checks that they have none.

### Fairness

* `EventLoop`: weak fairness of the loop's own steps and of a thread between its
  push (or its store to `quit_`) and its wakeup: threads are scheduled and
  callbacks return. Nothing is assumed of `PollWithoutWakeup`, that is of the
  10 s timeout and of I/O, so `FunctorsRun` and `QuitEndsLoop` rest on the eventfd.
* `EventLoopThread`: the same for both threads, and strong fairness for the new thread
  to get `mutex_`, which is free again and again while Main wakes up for nothing. No
  spurious wakeup is promised, so `StartLoopTerminates` rests on `cond_.notify()` alone.
  Main need not destroy the object.
* `TimerQueue`: time passes, the loop polls and its callbacks return.
* `TcpConnection`: both loops and the threads inside a call run; nothing is
  assumed of the peer or of how much `write()` accepts.
* `TcpClient`: the loop and the callers run; strong fairness for the timer and the
  attempt to be reported and for an attempt to succeed. The last is a server
  that accepts in the end, without which no client connects; `KeepsTrying` says that
  then the client does.
* `TcpServer`: each loop runs; peers need not close and `start()` need not come.
* `Codec`: the receiver's loop runs: bytes that can be read are read in the end, and
  `onMessage` returns. The two conditions are stated on what the steps do to
  `decoding`. Senders need not send.
* `Collector`: both threads run, the sorters' loops answer and the connections are
  made. Nothing is assumed of services that keep their closure.

## The proofs

All are for any values of the constants that satisfy the modules' assumptions: any
number of threads, functors, loops, channels, timers, connections, messages and
calls, any sizes of buffers, and the bounds of the runs whatever they are. Each module
of proofs has an inductive invariant, the theorem `Invariant` or `TypeCorrect` and
its like that it holds, and one theorem for each property, named after it with
`Correct`. The prover has no induction over data that could be used here; where an
argument needs one (a least timer, the frames of a stream) it goes by a least
counterexample instead (`LeastNumber`, from the well-foundedness of the naturals).

**EventLoopProofs.** `NoLostWakeup` is not inductive: a step into `poll` says nothing
of how the functors pending there were covered. `WakeupCovers` is the
strengthening: `callingPendingFunctors_` and `looping_` say where the owner is;
outside `doPendingFunctors` the local vector is empty; and a pending functor, unless
the owner queued it before `loop()`, always has the eventfd readable, a thread about
to write it, or the owner in the handlers before the next swap. With the type
invariant it is preserved by every action (`WakeupCoversInductive`), and
`NoLostWakeupCorrect` follows. `NoLostQuitCorrect` is inductive with the type
invariant. `ImplementsTaskQueueCorrect` maps `queue` to `functors \o
pendingFunctors_` and `done` to `ran`; each action is a queueing, an execution or a
stutter, the swap because outside `doPendingFunctors` `functors` is empty.
`ThreadUsesLoop` shows that every behaviour of `EventLoopThread` is one of `EventLoop`, so
the loop of a thread object inherits all this (`ThreadLosesNoWakeup`). For
`StartedLoopIsAlive` the invariant says what `loop_`, the thread's progress and the
callers' have to do with each other until somebody quits the loop, and who holds
`mutex_` where; it includes `NotifyNotLost`: once `loop_` is set Main is asleep only if the
notify is the thread's next step, since the mutex keeps the store out of the stretch
from Main's test to its wait.

**PollerProofs.** `IInv == TypeOK /\ AssertsHold /\ IndexConsistent /\ InterestWritten` is
inductive.
`IndexConsistent` makes the index an injection from the registered channels onto the
array and the map its inverse by descriptor; from it each assert follows, and with
the asserts each update keeps it. The case that needs care is removal: the last entry
moves to the hole and its channel, found through the sign of its
descriptor and the map, gets the new index (`RemovePreserves`). `InterestWritten` is what
`updateChannel` does put into a pollfd; with it each report reaches a channel that
asked for it (`ReportsReachOwnerCorrect`, a property of the steps). The only assumption is
that descriptors are natural numbers.

**TimerQueueProofs.** The two sets agree and the timerfd is armed only if no timer is in
two places at once, so `Owned` says where each is: in a functor that will add it, in
the two sets, or among the expired ones being called. `Cancels` keeps what makes
`cancel` find nothing: the sequence in a `TimerId` is 0 (`TimerQueue.cc:84`) and no timer has it.
`Times` ties `due` to the expirations, which gives `NeverEarlyNorAgain`, the property of
the steps.

**TcpConnectionProofs.** `Birth` says that nothing but its functor knows the connection until
`connectEstablished`; `Phase` where the I/O loop is; `End` that the way from the map to
`connectDestroyed` is taken once and one step after the other, though two loops take
it; `Closing` that the FIN and `kDisconnecting` have an author on record. With
`StreamInOrder`, `WritingIffPending`, `SentBeforeFin` and the types they are inductive. From
`End` no assert on `state_` can fail. `NobodyAssumption` keeps the sender that stands for
"not sent yet" apart from the real ones.

**TcpServerProofs.** `Functors` says that a connection never has more than one functor
waiting in all the queues of all the loops, and that it is the one its phase calls for
in the loop that may run it. `Mapped` follows `connections_` through the same phases,
`Polled` what a loop may still handle. Then `FreedLast` holds because the last owner of
a closed connection is its `connectDestroyed`. `Rounds` gives `Balanced`: the loops up to
`next_` are one connection ahead of the others, for any number of loops.

**TcpClientProofs.** `Turn` says that from one `connect()` there is at any time at most one of:
a caller on its way, a `startInLoop` queued, an attempt, a retry timer, a connection;
`States` what `state_` says about which; `Loop` that a removed channel is reset before
the next poll, so an event is never handled for an earlier attempt; `Kept` that a
connection given up has its `connectDestroyed` queued. All theorems assume
`MaxConnects <= 1`, one call of `connect()`, as every program of the repository makes; without
it they are false (see Bounds).

**CodecProofs.** The functions of `Buffer` are shown, for any sizes, to keep the
indices in order and every assert true, and to do to `Contents` what a queue of bytes
does: `append` and `prepend` join, `retrieve` drops, `makeSpace` and `readFd` change nothing or
add what was read (`Sound`, `Contents`). The invariant of `Codec` is the types, `StreamIntact` (the
buffer and the stream are the frames not yet delivered), `NothingLeftBehind`, and
`RefusedNext`: an error is reported only for the next frame, which the receiver cannot
take. The step that matters is `NextFrame`: what `onMessage` reads off the bytes is the
length and the message of the first frame not delivered, whatever else has come.
`CodecImplementsStream` is the safety part of `ImplementsMessageStream`. About the classes
the proofs use only `MessagesAssumption` (what a class writes it reads back) and
`ForeignAssumption` (a frame among `Foreign` is one `onMessage` refuses); TLC evaluates both on
the instance.

**CollectorProofs.** `ChannelOK` says that the ids under way on a channel, in either
direction or with the service, are distinct and each has its entry; `CallerOK` that the
id of a thread inside `CallMethod` is its own and nothing is under way under it, entered
or not. This is inductive whatever the network, the services and the other threads
do, and gives `AnswersOwned`.

`SearchInv` is the invariant of the search, while nobody generates new numbers (TLC has
checked it as an invariant of the instance of `collector`). A sorter is `Awaited` while
its call is in `todo`, in hand, or entered; `Calls` and `Once` say that the main thread
has no other calls than those of this round, one for each sorter, so an answer is to this
round's question; `Places` that the latch counts the sorters awaited; `Stats` and `Sums`
that what has been added up is what the others have. With the latch at zero nobody is
awaited: `RoundExact`. `Interval` says that fewer than k numbers are below the interval
and, from the second guess on, at least k are below its end, and that its length is under
2^(Width + 1 - steps). So a guess that is not the median leaves an interval with more than
one number, at most half as long (`Narrowed`): the guess stays inside, it does not wrap
(`MiddleIs`, `NextIs`), and after `Width` guesses no such interval is left: `MedianCorrect`,
`SearchNeverFails`. Numbers are counted as pairs of a sorter and a place in its data
(`HowMany`), so that counting is the cardinality of a set. Assumed, in
`SorterAssumption`: the numbers are sorted and fit, as `sorter.cc` generates them; the
servers serve `Query` and `Search`; the rounds allowed are more than the bits, 100 and 64
in the code.

Only model-checked:

* liveness everywhere, which is out of the prover's reach, and so the fairness part
  of `ImplementsMessageStream`;
* what the recursive functions of `Wire` compute, an induction over data.

## What is not modelled

* `Buffer::shrink`, which nothing calls, and `readInt32`, `retrieveUntil`,
  `retrieveAll` and `retrieveAsString`, which only tests and examples call.
  `TcpConnection` takes its buffers as sequences of bytes; `Codec` has the buffer.
* Of the generated classes: swap and copy, arenas, reflection, negative integers, and
  the services' stubs other than the sorter's.
* A closure that a service runs after its connection went down: `RpcServer::onConnection`
  has freed the channel it is bound to (`RpcServer.cc:35`). The services of the
  repository answer before they return.
* The destructors of `TcpServer`, `TcpClient` and `EventLoopThreadPool`; calls of
  `TcpServer::start` from a thread other than the base loop's.
* `setTcpNoDelay`, `setContext`: no state that a property sees. `send(Buffer*)` is
  declared and has no definition.
* The directories `datetime/`, `logging/` and `thread/` are not part of the tree.
  Mutexes, conditions and threads are taken with their POSIX meaning.
* Socket wrappers (no state; what their calls may return is in the modules that use
  them), `balancer.cc`, which has no rule in the Makefile, and the example programs.

Observations that no property states, for want of a document that promises
otherwise:

* A `send()` of one thread followed by a `shutdown()` of another may lose the
  message: `handleWrite` sees `kDisconnecting` and half-closes before the queued
  `sendInLoop` has run (`TcpConnection.cc:77`). `SentBeforeFin` is therefore stated
  for what the loop's own callbacks send before they shut the connection down.
* A `stop()` between the test of `connect_` and the assignment in `Connector::restart`
  (`TcpClient.cc:101`, `Connector.cc:81`) is overwritten, and the client connects again.
* A functor of `send()` or `shutdown()` binds a raw `this` and may find the
  connection freed (`TcpConnection.cc:113`).
* A `sendInLoop` queued by a thread that saw `kConnected` may run after
  `connectDestroyed`, and if `write()` does not take everything it enables writing on
  a channel that is no longer in the Poller, whose assert (`Poller.cc:58`) ends the process.
* After a user's `quit()` the loop may have left its thread's stack when `quit()`
  writes the eventfd, and has when `~EventLoopThread` quits it again
  (`EventLoopThread.cc:16`): `deadCall` becomes true in the model.
* A collector that loses a connection with a call outstanding waits for ever: no
  answer comes and no error is reported.
* A client of the codec may send a message over `kMaxMessageLen`, which the receiver
  refuses with everything after it.

## Plan

Done, in this order, the loop first because everything stands on it:
`EventLoop` with `TaskQueue`, `Poller`, `EventLoopThread`, `TimerQueue`, `TcpConnection`,
`TcpClient`, `TcpServer`; then `Wire`, `Buffer` and `Codec` with `MessageStream`, `Rpc` and
`Collector`; then the proofs of all of them.

Next:

1. The destructor of `TcpClient` with the pending retry timer.
2. A refinement of `Rpc` by a specification that only says which answers a call gets.

## Running

    tlc -config EventLoop.cfg MCEventLoop        (likewise for the others)
    tlapm EventLoopProofs.tla                    (likewise for the other ...Proofs)
