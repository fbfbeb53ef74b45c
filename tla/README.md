# A verification model of bingo

bingo is a C++ library for services: task classes with a queue and their own
threads, a TCP server and client on boost::asio, access to MySQL and RabbitMQ,
and logging. It is used by deriving classes and filling in hooks. This directory
holds TLA+ modules that model its concurrent parts, the TLC configurations that
check them and the proofs of what holds for every number of threads and messages.

File names below are relative to `src/bingo`, tests to `src/test`.

## 1. The system's parts

| part | state | operations | modelled in |
|---|---|---|---|
| `thread/many_to_one.h` | `queue_`, `is_thread_exit_`, one thread in `svc()`, `mu_`, `cond_get_` | constructor, `put()`, `svc()` with the callbacks `f1_`, `f_`, `f2_`, destructor | ManyToOne |
| `thread/many_to_many.h` | the same with several threads, and `thread_active_num_` | the same | ManyToMany |
| TCP server: `TCP/tcp_server.h`, `tcp_svr_handler.h`, `tcp_handler_manager.h`, `tcp_svr_hdr_manager.h` | per connection `is_valid_`, `is_authentication_pass_`, three times, the socket, a receive buffer; the manager's `sets_` of raw pointers under `mu_`; two timers | accept, read, post data, post close, post heart-jump, write, close, two periodic checks | TcpServer |
| TCP SSL server: `tcp_ssl_server.h`, `tcp_svr_ssl_handler.h` | the same behind a handshake, with raw `this` | accept, handshake, read, post, write, close, two periodic checks, `delete this` | TcpSslServer |
| TCP client: `tcp_client.h`, `tcp_cet_handler.h`, `tcp_cet_hdr_manager.h` | the raw `handler_`, `retry_delay_`, `is_authenticate_pass_`, reconnect and heart-jump timers; per connection `is_valid_`, the socket | connect, reconnect, first package, read, post, write, close, heart-jump | TcpClient |
| message buffers: `mem_guard.h`, `TCP/pack_and_unpack` | `length_`, `size_` of a buffer | `copy`, `change_length`, `check_block_remain_space` | not modelled (below) |
| MySQL pool: `database/mysql/mysql_pool.cpp`, `mysql_connector.cpp`, `mysql_timer.cpp` | `conns_` under `mu_`; per connector `mysql_conn_` and `is_connect_success` | make the pool, get, free, heartbeat, connect, three kinds of query | MysqlPool |
| `database/db_factory.cpp`, `mysql_visitor.cpp` | `visitor_`, `e_what_` | `query_result()` over the pool or over one connection per query | the pool's side in MysqlPool |
| RabbitMQ connection: `RabbitMQ/visitor/asiohandler.cpp` | `_outputBuffer`, `_writeInProgress`, `_connected`, `_quit`, heartbeat timer | connect, read, write, close, heartbeat | RabbitSendor, without the heartbeat |
| RabbitMQ senders: `RabbitMQ/handlers/*_sendor.cpp` (five) | a `many_to_one` task; per entry of `cfg.xml` a thread and a `channel` pointer | transfer by key or routing key, `rb_top`, the rounds of an entry's thread | RabbitSendor |
| RabbitMQ receivers: `RabbitMQ/handlers/*_receiver.cpp` (five) | the hook `f_`, a connection per round | rounds, consume, message callback, acknowledge | RabbitReceiver |
| RabbitMQ configuration and factory: `RabbitMQ/config`, `rabbitmq_factory.cpp` | the entries, `snd_`, `rev_` | check, look up by key and routing key, make | RabbitConfig |
| logging: `log` | level, file, a `many_to_one` task | log from any thread, write, set the level | not modelled (below) |
| configuration, strings, results, singletons | values | parsing, formatting | not modelled (below) |

How they interact. `many_to_one` is the base of the senders and of the loggers:
callers in any thread `put()` a message whose ownership passes to the task when
`put()` returns 0. The TCP server runs in an `io_service`; other threads reach a
connection only through the manager, which finds the raw pointer under `mu_` and
has the handler post a task that holds a `shared_ptr`. The handler tells its user
of its end through `close_complete_func`, and the user erases it from the manager
there. The MySQL pool is filled and watched by one thread; all other threads
borrow a connector for the length of one query. A TCP client makes a handler for
each connection; the handler calls the client back when it ends, and that call makes
the next one. A RabbitMQ sender hands messages to the thread of its task, which uses
the channels that other threads, one for each entry of `cfg.xml`, make and destroy;
a broker stands between it and a receiver in another program.

What is hard here, and what each part has to get right:

- **Task queues.** A push and its notification are two steps; exit messages
  travel in the same queue as data; the owner destroys a task whose threads still
  run; the destructor of `many_to_many` reads a counter that its own messages
  change. Correct means: nothing lost, doubled or overtaken, nobody asleep beside
  work, each message deleted once, a destructor that returns and leaves no thread.
- **TCP server.** A connection may be ended by its client, a hook, two timers and
  any thread, at the same time; closes already posted arrive later; pointers in
  the manager are raw; writes overlap. Correct means: the user hears of every end
  once, no pointer in the manager dangles, each send buffer has one owner until it
  is freed, silent clients go, messages reach the client in one piece.
- **MySQL pool.** The server goes away at any moment, connectors travel between
  the queue, threads and the heartbeat. Correct means: one user for each connector,
  none lost, a bad one is found and connected again, results say what happened.
- **TCP SSL server.** The same closes, but nobody counts references: a handler whose
  handshake fails deletes itself, and what was posted before still holds its raw
  pointer. Correct means: one report of every end, no task behind the deletion, and
  a client that never shakes hands goes too.
- **TCP client.** The server, hooks and threads end the connection, several at once;
  every end starts the next attempt; the client's pointer is raw. Correct means: one
  connection or one attempt or one wait, a good pointer when the heart-jump uses it,
  and a connection again when the server is back.
- **RabbitMQ.** A write queue with a flag that two threads touch without a lock; a
  channel pointer that outlives its channel; rounds that fail anywhere; a broker that
  restarts. Correct means: messages arrive where `cfg.xml` says, in order and once,
  none stands still in the queue, and what the work queue has accepted is handled.
- **Logging.** A level that is read by callers and changed by others.

`PROJECT.json` lists every such hazard at its line, with the property that covers
it or the reason why none does.

## 2. The modules

`TaskQueue` is abstract: what the two task classes promise to callers. `put()` is
accepted as long as a service thread is active, messages are taken in order and
once, each exit message taken retires one thread, and the queue moves on while a
thread is active.

`ManyToOne` and `ManyToMany` are the two classes. Each critical section under
`mu_` is one action, because no other thread can see between its statements.
Everything outside is a step of its own: the notification behind the unlock
(`PutNotify`, `DtorNotify`), the callback (`SvcCall`), the deletion (`SvcFree`),
`f2_` (a state of `svc`; in `many_to_one` the mutex is held in it, so `put()`
requires `MutexFree`), the loop of the destructor with its unlocked read
(`DtorCheck`). Waiters may wake spuriously. `accepted`, `taken`, `called`/`calls`
and `freed` are history variables: no guard reads them. The refinement mapping
to `TaskQueue` takes `active` from `is_thread_exit_` in one class and from
`thread_active_num_` in the other. A service thread that outlives its object may
go on or go down (`SvcCrash`): that is undefined in C++.

`TcpServer` composes the server, its handlers and the manager, which cannot be
told apart: a handler's life is the sum of the references the io_service holds.
A completion handler or a posted task is one action, as one thread runs the
io_service. `Accept` is a connection that the user's hook lets in (new handler,
push, start); `ReadHeader`, `ReadFull`, `ReadEnds` and `ReadCancelled` are the ways
through `read_handler`; `ActiveClose`, `ActiveSendData` (`...Dropped`) and
`ActiveSendHeartjump` are the posted tasks, `posted[h]` their queue. An async_write
is a sequence of partial writes (`WritePart`, the library's behaviour, marked
external) that ends in `write_handler` (`WriteDone`, `WriteFails`). Times are
replaced by what the two timers see of them: whether a time was set since the
last look. A handler nobody references is destroyed and `Accept` may use its
address again.

`MysqlPool` composes the pool, its connectors, the timer and the factory's
`query_result()`. `mysql_conn_` is null, good or lost, where lost means that the
server dropped the connection and the client does not know. The heartbeat holds
`mu_` for many steps: `heartbeat > 0` is that critical section. `Query` stands for
the two kinds of query without a transaction, `Execute`, `ExecuteFails` and
`Commit` for the third.

`TcpClient` composes the client and its handlers, which exist one after the other:
`connecting` and `reading` say what the io_service holds of each, `handler_` is the
client's raw pointer, and a handler that nothing holds is destroyed, its address free
for the next one. `StartConnect` is `start_connect()`; it happens in the constructor,
in `Reconnect` (called by every `close_completed()`, hence part of `ReadEnds`,
`ActiveClose` and `FirstPackageFails`) and in `ReconnectTimeout`. `Refused` is a
`connet_success_func` that returns -1. `SendHeartjump` uses `handler_` and goes down
(`crashed`) if its handler is gone. `careless` remembers a user whose
`close_complete_func` left `is_authenticate_pass_` set.

`TcpSslServer` is TcpServer's protocol with the other idea of ownership. `alive` are
the allocated handlers; `queue` holds, in the order of the io_service, the posted
tasks and the completion of the handshake, because the order decides who meets a
deleted handler. `HandshakeFailed` is `delete this`; `RunStale` is a task or a
`write_handler` behind it, which ends well or not. `risky` remembers the two ways in
which something is started that does not wait its turn behind the failed handshake.

`RabbitConfig`, `RabbitSendor` and `RabbitReceiver` are the five senders and receivers,
and `Rabbit` composes one of each with a broker; `MCRabbit` gives the documents,
messages and receivers of the instance. `kind` says which of the five the program is.
`RabbitConfig` has what the readers make of a document as operators over sequences of
records: which items are kept, whether the document is valid, the entry of a key. In
`RabbitSendor` the queue of the task has ManyToOne's promise (taken in the order
accepted). `link[e]` is the state of the round of entry `e` and `channel[e]` the pointer
it leaves behind. `onData` is two steps, `RbTop` with the push and `Check` with the look
at `_writeInProgress`, between which the io_service's thread may do anything; the
callback of a write is two steps too, `Written` and `WriteEnds`, because the flag is
reset behind its look at the buffer. Publishing through a stale pointer or on an empty
deque has no effect, or sets `undefined`: there the model stops, and no property speaks of
what follows. `RabbitReceiver` has the rounds and callbacks, and the queue at the
broker. A round of a receiver consumes, or has its channel closed, at once
(`ConsumeFails`) or later (`ReceiverChannelError`): the errors of a channel are logged or
not noticed, `run()` goes on, and only the end of the connection begins a new round
(`consumer` is then `dead` until it breaks). `Rabbit` has what the broker does with
arriving messages (`SendorStep`) and its restart, which keeps the durable queue only.

What these modules leave to the library or the broker is marked external: the AMQP
library's own state (a frame published before the channel is ready waits in it, what it
keeps is taken to be consistent whatever the threads do), the sockets, the exchanges
and the queue. A message is one frame; everything a round sends before its channel
is ready is one frame, `Setup`. Names and keys are small values; their order matters and
is kept. Logging is left out.

`QueueLemmas`, `ManyToOneProofs`, `ManyToManyProofs`, `TcpServerProofs`,
`TcpClientProofs`, `TcpSslServerProofs`, `MysqlPoolProofs` and `RabbitProofs` hold the
proofs. The configurations `<Module>.cfg`
and `<Module><Question>.cfg` hold the instances.

## 3. The runs

| run | instance | shows |
|---|---|---|
| many_to_one | 2 callers, 3 data, 2 exit messages | the eight properties of ManyToOne |
| many_to_one_dtor | 1 caller, 2 data, 1 exit message | violation: the destructor returns while the thread runs |
| many_to_many | 2 threads, 2 callers, 2 data, 2 exit messages | the seven properties of ManyToMany |
| many_to_many_dtor | 2 threads, 1 caller, 1 data message | violation: the destructor waits for ever |
| tcp_server | 2 connections, 1 buffer, 2 posted tasks each | the seven properties of TcpServer |
| tcp_server_frames | 1 connection, 2 buffers | violation: two messages mix |
| tcp_client | 2 handlers, 1 buffer, 3 posted tasks each, a delay of 0 or of 1 to 3 | the four properties of TcpClient |
| tcp_ssl_server | 1 address, a queue of 6, 2 writes in progress | the four properties of TcpSslServer |
| rabbit | each of the five kinds, documents of 2 or 3 items, 3 messages | the five properties of Rabbit |
| mysql_pool | 3 connectors, 2 threads | the five properties of MysqlPool |
| mysql_pool_make | 1 connector | violation: a failed connect goes unnoticed |
| mysql_pool_commit | 1 connector, 1 thread | violation: true for a transaction that was rolled back |

Bounds and why they are enough. ManyToOne: two callers are needed for a push of
one between push and notification of the other; three data messages, so that
some are in front of, between and behind the two exit messages. ManyToMany: two
threads are the least for one that retires and one that stays; more exit
messages than threads, with the destructor's own, so that messages are left over.
TcpServer: two connections, so that one ends while another one lives and an
address is used again. `MaxPosted` bounds the tasks posted to a connection and not
yet run; with two of them a close or a message has a second close behind it. The
timers never find the queue too full: the threads leave the last place to them,
and if it is taken a close of theirs is already there. TcpClient: two handlers, so
that a connection ends while tasks still hold the one before it, whose address then
is used for the next; delays of 1, 2 and 3 show the limit. TcpSslServer: handlers share
nothing but the manager and the timers, so one address is enough, and its deletion and
use by a next connection happen; a queue of six holds tasks before and behind the
completion of a handshake. Rabbit: two items with one key and a third of another
type that has the routing key too; three messages, so that two of one key can be put
in the wrong order and one goes by routing key; one receiver, because two would share
the queue. MysqlPool: three connectors and two
threads, so that the queue is neither empty nor alone when the heartbeat runs; the
proofs and runs need no bound on the number of queries.

Deadlock is checked in the runs of ManyToOne and TcpServer. It is off for
ManyToMany, whose destructor may wait for ever (the finding), and where the process
may stop: MysqlPool crashes on a null handle, TcpClient on a destroyed handler or gives
up, TcpSslServer crashes on a deleted handler, Rabbit's behaviour becomes undefined.

### Fairness

The threads of a task are scheduled, callbacks return, a thread that has pushed
goes on to notify, a destructor that has begun goes on. Nobody has to call `put()`
or to destroy anything. In TcpServer the io_service runs what was posted, a
cancelled read or write completes, and the timers come round; clients need not
send or receive, and threads need not post. In MysqlPool the timer goes off, the
heartbeat's rounds and queries end; nobody has to query and the server may
stay down. In TcpClient attempts end, the reconnect timer expires and cancelled
operations complete; the server may stay down, and `ConnectsAgain` speaks of one that
is up for good. In TcpSslServer the timers come round and the io_service runs what is
queued; a client need not shake hands. In Rabbit the receiver's thread runs and the
broker delivers; the sender need do nothing, nothing has to break, and a round may end
with a closed channel as well as with a consumer. `WorkIsHandled` excludes connections
that break again and again, and a channel that stays closed.

### What the properties of the newer modules say

- `OneConnection`: however many ends meet, the client has one connection, one attempt
  or one wait, and none of them only when it gave up. `HeartjumpOnLiveHandler`: the raw
  pointer is good when the heart-jump timer uses it, provided that the user's
  `close_complete_func` takes the authentication back; the library does not do it, and
  without it the timer meets a destroyed handler. `ConnectsAgain` is the promise of
  `src/test/tcp/README:44` and `:47`.
- `DanglingOnlyIfRisky`: deleting `this` is sound for what was posted before the
  handshake failed, because the completion stands behind it in the queue; it is not for
  what is posted between the failure and its completion, nor for a write that was in
  progress. `StalledHandshakeEnds`: the authentication timer also ends handshakes; that
  the handler is then deleted is another matter, see `DanglingOnlyIfRisky`.
- `StuckOnlyIfRaced`: the only way for a frame to stand still in `_outputBuffer` is a push
  between the callback's look at the buffer and the reset of `_writeInProgress`; it then
  waits for the next message. `FaithfulDelivery` compares what arrives with the
  document alone (`ItemOf`, `AddressOf`), not with the readers' operators.
  `WorkNeverLost` and `WorkIsHandled` are about the work queue, whose messages are durable
  and acknowledged; the other four kinds lose messages by design of their queues. A
  receiver whose channel was closed consumes nothing while its connection lives, so
  `WorkIsHandled` ends there; after the next break it holds again, for what had waited too.
- `NullIsMarked` says that the heartbeat will find a connector without a handle. It does not
  keep a query from going over the null handle: that crash is in the model (`QueryNull`),
  and `OnlyFailedConnectsCrash` below says when it may happen.

### What the runs found

- `~many_to_one()` does not wait for its thread when a caller has already sent an
  exit message (`many_to_one.h:63` says that it blocks until the thread exits).
- `~many_to_many()` may send fewer exit messages than there are threads and then
  joins for ever (`many_to_many.h:67`). `JoinReturnsWithEnoughExits` shows that
  this is the only way for it to hang.
- Two sends to one client in quick succession mix their bytes when the socket
  takes only a part of the first (`tcp_svr_handler.h:255`).
- `make_connector_pool()` compares a bool with -1 and so never fails
  (`mysql_pool.cpp:46`).
- `query_result(sqls)` returns true whatever becomes of its commit
  (`mysql_connector.cpp:241`).

## 4. The proofs

All theorems hold for every set of callers, messages, connections, buffers,
connectors and threads (ManyToMany: every finite, non-empty set of threads;
MysqlPool: every finite set of connectors). The assumptions on constants are the
`...Assumption` of each module: kinds of messages do not overlap, `Nobody` is no
connector, and the like.

`QueueLemmas` holds the facts about sequences that several proofs need: what a push
and a pop do to accepted, taken and queue (pushing appends to the concatenation,
popping leaves it alone), what appending, taking the tail and concatenating do to a
sequence's elements and to its being sorted by a relation, and that a non-empty set of
naturals has a least element.

ManyToOneProofs:

- `TypeCorrect`, then `Fifo`: `accepted = taken \o queue`, from the two lemmas.
- `TaskQueueRefinement`: initial states map to initial states, a push to `Put`, a
  pop to `Take`, everything else to a stutter. `FifoDelivery` is needed for `Take`:
  the head of the queue is the next message of `accepted`.
- `NoWakeupIsLost`: the invariant is inductive with the facts that only the pop
  raises `is_thread_exit_` and that the service thread waits only on an empty queue.
- `NoDoubleFree`: the strengthening says where each message is. An unsent message
  is not queued, not in hand and not deleted; a queued one is queued once; one in
  hand is not queued. Each step moves messages between these places.
- `JoinedDestructorDrains`: the destructor's exit message is the last one
  accepted, so that a thread that left with an empty queue took everything before it.
- `DestructorBlocks`: when callers have no exit messages, `DtorBlocksUntilExit` holds.
  This delimits the finding: an exit message of a caller is the only way to break it.

ManyToManyProofs:

- `TypeCorrect`, and with it that the counter of active threads never goes below zero.
- `ThreadsRetireOneByOne`: the counter is the number of threads in their loop and
  the number of threads less the exit messages taken; the cardinality facts are
  those of FiniteSetTheorems.
- `NobodySeesExitFlag`: follows from the counter: the flag means that it is zero.
- `TaskQueueRefinement` and `NoWakeupIsLost` as above, for any number of threads.
- `OneThreadHandles` comes from `PlaceInv`, which says of each data message what its
  history must be where it is: with its caller, in the queue, in one thread's hands before
  or behind the callback, or gone. Queue and threads are related by it: a message in the
  queue is in nobody's hands, and is there once.
- `ShortJoinNeverReturns` delimits the finding of `many_to_many_dtor`: a destructor
  that reaches `join_all()` before `put()` has accepted an exit message for every thread
  stays there. `join_all()` needs every thread to have returned; by `CountInv` each of
  them took an exit message, and by `FifoInv` whatever was taken was accepted, in the
  same place; nothing is accepted any more. With `JoinReturnsWithEnoughExits`, which
  TLC checks, the destructor that joins returns exactly if the messages are enough.

TcpServerProofs:

- `ManagerPointersAreGood`, `EndIsReportedOnce`, `ReportedSocketIsClosed` come from
  one invariant, `CloseInv`. None of the three is inductive alone. The strengthening:
  an existing handler is registered, valid and not yet reported, or none of these;
  a registered one has a read outstanding, which is the reference that keeps it alive;
  a reported one has a closed socket. A close that was posted before the handler's
  end and runs after it changes nothing, because `is_valid_` is looked at again.
- The steps fall into three kinds, with a lemma for each: those that report nothing
  (`QuietStep`), the one that reports (`ReportStep`) and those that only move tasks
  and buffers (`QueueStep`). The proof needs no bound: `MaxPosted` is not used.
- `TypeCorrect` rests on `CloseInv`: the history `closes` stays at 0 or 1 because only a
  handler that exists and is valid is reported.
- `BuffersHaveOneOwner` comes from `BufferInv`: a buffer is posted to one handler, or
  being written for one handler, or not allocated. A step moves one buffer from a place
  to the next (`BufferNew`, `BufferWritten`) or frees it (`BufferFreed`), or keeps what
  every queue holds (`BufferKept`). `AppendHolds`, `TailHolds` and `RemoveAtHolds` say what
  the operations on a queue do to the buffers in it.
- `ClientsAreLimited`: `accept_success_func` tests `size() == MaxClients`, not `>=`. That is
  enough because the size grows by one at a time and only there.
- `FramesIntactUnlessWritesOverlap` delimits the finding of `tcp_server_frames`: the bytes
  of messages are mixed only in an execution in which a handler has two `async_write`s in
  progress. `PartInv` says that a write of which some bytes are out is still in progress;
  that it is not forgotten needs `BufferInv`, because `WriteHandler` removes by value.

MysqlPoolProofs, from the invariant `PoolInv`:

- `PoolTypes`: the heartbeat's count of rounds never exceeds the length of the queue,
  because a round puts back what it took and all others wait for `mu_`.
- `ConnectorHasOnePlace`: a thread has a connector from `get_connector()` to
  `free_connector()` and no other; `QueuePush` and `QueuePop` say what the queue's
  operations do to its elements and to their being different.
- `NullHandlesAreMarked`: `connect()` never resets `is_connect_success`, so it would
  spoil the mark of a connector that is marked as connected. The invariant adds that
  a connector not made yet is unmarked; the heartbeat connects only unmarked ones.
- `HeartbeatGoesInTurn`: an action property; it needs that the pool is made before
  the timer starts, because `make_connector_pool()` pushes without `mu_`.
- `TrueMeansCommittedUndisturbed` delimits the finding of `mysql_pool_commit`: true means
  committed in every execution in which the server does not go down between the last
  statement of a transaction and its commit. It may go down at any other time.
  `BorrowedKept` is what makes it so: nobody but the server changes a borrowed connection,
  because the heartbeat connects only what lies in the queue.
- `OnlyFailedConnectsCrash`: `query_result()` never looks at `is_connect_success`, and still
  goes over a null handle only if a `connect()`, of the pool or of a heartbeat, has failed.

RabbitProofs, for all documents, messages, receivers and patterns:

- `EntryIsItem` and `PublishesToAddress` say that the readers of RabbitConfig, of the
  document as the code makes it, agree with what the document means: the entry that
  `rb_top` finds by the key in a task is the item for the message, and it publishes to
  the item's address. The readers run through nested tables and take the first match;
  `LeastExists` turns that into the least index or key with a match, by which the
  document is read. `DocumentsAssumption` and `MessagesAssumption` give the shape: a
  document is a sequence of items with sequences of keys, an item of the first three
  types has one key, keys are numbers. Keys may occur twice: the first one counts.
- `RabbitTypeOK` comes from `TypeInv`, with `EntryInv`, which says which frames a round may hold.
- `RabbitFaithfulDelivery` takes most of the module. `OrderInv` is the sender's half:
  everything that has arrived or waits was taken from the task, what waits for one entry
  is in the order of the calls, and what has arrived comes before it. It needs that a
  round begins with nothing that waits, and that its frames go through one queue, from
  `pending` to `outputBuffer`. `LineInv` is the receiver's half: what was handled,
  followed by what `Unseen` leaves of acknowledgement, delivery and queue, is in the
  order of the calls; `Unseen` takes the first one away if it was handled last, which may be
  so only for the work receiver (`Owes`). No message is before itself, so a sequence
  that is in order holds each message once. A break or a restart takes messages away, or
  puts those on their way back in front of the queue, and so does a closed channel;
  none of them changes the order of the line.
- `AcknowledgedWasHandled`: the acknowledgement on its way is that of the message handled
  last and the only one, so the broker removes no message that `f_` has not had.
- `ReceiverGetsItsOwn`: what `f_` got had been published to the address of its item, and the
  receiver has bound that address. `OwnInv` says so of all messages past the exchange.
- `SendorStuckOnlyIfRaced` comes from `WriterInv`: the two threads' positions in
  `onData` and in the callback, and what `link`, `writer` and `outputBuffer` have to do with
  each other. It is inductive because a round leaves nothing behind and because
  only `RbTop` pushes while a write may be ending.
- `RabbitWorkNeverLost` comes from `EntryInv` and `BrokerInv`, for the work sender: a
  channel that was ever saved, and so a frame of a message, means that the entry's queue
  was declared; a declared durable queue stays; a message moves from the queue to the
  receiver, to `acking` with `handled`, or back.

TcpClientProofs, for any number of handlers, buffers and posted tasks:

- `TypeCorrect`: also that the delay before an attempt stays below its limit.
- `OneConnectionAlways` comes from `ClientInv`: the client has given up, waits for the
  timer, tries, or is served (`Idle`, `Waiting`, `Connecting`, `Serving`). It says besides
  that only the handler in use has an open socket, and that one which is valid without
  being in use has no close waiting; a close of an earlier connection therefore finds its
  handler closed, and an end that is found a second time starts no second attempt.
- `HeartjumpPointerGood` comes from `PointerInv` on top of it: while the user is careful, an
  authenticated client is the served one and `handler_` points to its handler.

TcpSslServerProofs, for any number of handlers, tasks and writes, from one invariant
`SslInv` about each handler:

- `TypeCorrect`, `ReportedOnce`: as in TcpServer, with the handshake as a further reason for
  an end and a handler that is allocated instead of referenced.
- `DeletedCleanly`: there is at most one completion of a handshake in a handler's queue, and
  a failed one is the last entry unless the handler is `risky`. When it comes to the head
  of the queue nothing is left behind it (`QueueTail`).

Only model-checked: the liveness properties, those of TaskQueue included (the theorems
prove the safety part of the refinement). Every invariant and every action property
that a passing run checks is proved. The properties of the five runs that end in a violation
are false, so that there is nothing to prove of them as they stand; for all but
`FailureIsReported` a theorem says under which condition the code does keep the promise,
or, for `DtorReturns`, when it does not.

## 5. What is not modelled, and why

- The start of `many_to_one`'s thread before its last members are constructed:
  what an unconstructed mutex does has no states to enumerate. Its callbacks are
  taken to return; `f2_` runs with `mu_` locked and must not `put()`.
- Several threads in one io_service: no test uses it and the handlers have no lock.
  The `_in_thread` checks of the managers and `collection()`: nothing in src/ calls them.
- Contents of messages, authentication, configuration files, formatting: a
  message is a value, a hook's verdict a choice. These parts are sequential.
- `mem_guard` and `pack_and_unpack`: lengths of buffers in one thread. What does not
  fit is a choice of the models (`ReadEnds`, `SendClose`, `fits`).
- `mysql_visitor`: it connects, queries and closes in one call of one thread.
- Pool destructor, queries during the making of the pool: no test does either.
- A read that has completed before `close_socket()` but whose handler runs after
  it: in the model it already fails with the error, one read earlier.
- `timer2` of the client: nothing schedules it. An accept that fails: no handler starts.
- The heartbeat of `AsioHandler`: it writes eight bytes from an array that is gone, and
  reads nothing that anybody looks at. `AmqpBuffer` and the bytes of frames.
- The destructors of the senders and of the factory: the threads of the entries
  never end, so the process does. (That of the work sender does not release its
  task, as the other four do.)
- Logging: its queue is a `many_to_one`, which is modelled; what remains are a level,
  which `set_level()` changes in the configuration only
  (`log/handlers/local_log_visitor.cpp:87`), and files.

## 6. Plan

1. Refinement of the sender's half by a queue per address, as TaskQueue is for the tasks:
   what `OrderInv` says, as an abstract specification.
2. Two receivers at one work queue, and several senders at one broker.
3. *Buffers*: the lengths of `mem_guard` modulo the width of size_t, as functions
   against a reference definition, if a property of theirs displaces a weaker one.
