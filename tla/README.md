# A TLA+ development of omniEvents

omniEvents is a CORBA Event Service: suppliers push (or are asked for) events,
a channel passes them on, and consumers are pushed (or ask for) them. The
modules here model the server of `src/src/`, from its start as a daemon to its
end, and the administrator's tools of `src/tools/`: the parts in which threads,
callbacks, crashes and bounded buffers meet. TLC checks them on small
instances, and TLAPS proves the ring buffer correct for every size.

## 1. The system

| Part | State it keeps | Operations | Works with |
|---|---|---|---|
| `EventQueue`, `Filter` | ring of `_size` slots, write index, one read index per reader, the filter | `append`, `moreEvents`, `nextEvent`, `keep` | written by `ConsumerAdmin_i::send`, read by the proxy suppliers |
| `ConsumerAdmin` | the queue, two proxy managers | `send`, `disconnect`, `output`, `reincarnate`, `obtain_*` | called by the channel's thread and by the real-time path of `push` |
| `ProxyPushSupplier` and its manager | servants, target and outstanding request of each, a thread, a mutex and a condition | `connect_push_consumer`, `disconnect_push_supplier`, `trigger`, `incarnate`, `etherealize`, `_remove_ref` | POA thread, manager's thread, the ORB's etherealizer, the log |
| `ProxyPullSupplier` | servants in the order of their last use | `pull`, `try_pull`, `connect`, `disconnect`, eviction in `incarnate` | the queue |
| `SupplierAdmin`, `ProxyPushConsumer`, `ProxyPullConsumer` | events not yet transferred, the flag `_useLocalQueue`, connections, outstanding pulls and failure counts | `push`, `collect`, `trigger`, `connect`, `disconnect` | the channel's thread |
| `EventChannel`, `EventChannelStore` | POAManager, `_shutdownRequested`, `_refCount`; the set of channels under a mutex | `run_undetached`, `mainLoop`, `destroy`, `output`; `insert`, `erase`, `output`, `empty`, `list` | all of the above |
| `EventChannelFactory`, `Mapper` | the store; names in the root POA and in the INSPOA | `create_object`, `create_channel`, `join_channel`, `delete_all`, `list_channels` | the channels, clients, the tools |
| `omniEventsLog`, `PersistNode` | active, backup and checkpoint files, the log stream and its mutex, `_checkpointNeeded` | `parse`, `bootstrap`, `incarnateFactory`, `checkpoint`, `WriteLock`; `addnode`, `delnode` | every part that records a change |
| `Orb` | deferred requests with their callbacks, a mutex, `_shutdownRequested` | `deferredRequest`, `run`, `shutdown` | every proxy that sends without waiting |
| `IteratorSupport`, `Iterator` | iterators with reference counts and times of last use, under a mutex | `list`, `next_one`, `next_n`, `destroy`, `gc_sweep` | `list_channels`, a thread that sweeps every second |
| `daemon`, `main` | parent and child process, pipe, pidfile, exit handler; on Windows the registry and the service's status | `daemonize`, `runningOk`, `shutdown`, signals, service control | whoever starts the server; other servers |
| `eventc`, `rmeventc`, `rmeventall`, `eventl` | none between calls | create, name, list and destroy channels | factory, naming service |
| `naming`, `getopt` | none | names, options | `main`, tools |

What is hard here:

* **Interleaving.** A push proxy is used by the POA's thread, by the manager's
  thread and by the ORB that etherealizes it. Only part of this is under the
  manager's mutex.
* **Holding calls.** The channel's thread stops the POAManager to transfer
  events, and `destroy()` both runs under that POAManager and operates it.
* **Two locks and an append log** whose records depend on which servants are
  still active, and a checkpoint that moves three file names one by one.
* **Callbacks that outlive their owner.** A connection asks its supplier a
  question without waiting; the answer may come after the connection is closed,
  the channel destroyed or the server told to stop.
* **Names in three places.** A channel's name is in the root POA, in the INSPOA
  and in the naming service, and none of the tools changes them in one step.
* **Two processes and a file.** The server tells its parent how the start went,
  and can fail or be killed before, during and after.
* **A ring with lossy readers**, where "up to date" and "a whole turn behind"
  are the same index.

`PROJECT.json` lists the hazards line by line, with the property that watches
each of them; what is known to go wrong is in section 4.

## 2. The modules

| Module | What it models |
|---|---|
| `EventStream` | What the queue promises: a stream of kept events, readers with positions in it, and a reader that falls `Ring` events behind misses exactly those. |
| `EventQueue` | The ring buffer with filter, heap and readers. It implements `EventStream` (`ImplementsStream`). `MCEventQueue` adds symmetry. |
| `ProxyPushSupplier` | The push proxies of one `ConsumerAdmin`, on top of `EventStream`. |
| `ProxyPullConsumer` | The pull suppliers' proxies: requests, failures, and the schedule of `SupplierAdmin_i::collect`. |
| `ProxyPullSupplier` | The pull consumers' proxies: eviction, and `pull()` reading the ring beside a `push()` that appends. |
| `EventChannel` | One channel: its thread, transfers, pushes, `destroy()`, server stop. |
| `PersistLog` | The database: records, checkpoints, crashes, restarts. `MCPersistLog` adds a view and symmetry. |
| `DeleteAll` | Who waits for whom at the store's mutex, the log's mutex and the channels' POAManagers: `delete_all()`, `destroy()`, the channel's thread, the proxies' calls and the checkpoint. |
| `Orb` | The deferred requests, their callbacks' reference counts, the loop of `run()` and its end. State and actions only. |
| `ProxyPushConsumer` | `Orb` composed with the push suppliers' connections: the table, its three threads, the records, restart. |
| `EventChannelFactory` | Channels from creation to deletion: criteria, POA names, INSPOA, store, the channel's thread. State and actions only. |
| `IteratorSupport` | Iterators, the servant locator and its garbage collector. State and actions, and two properties. |
| `Tools` | The two modules above composed with the naming service and the tools. |
| `Daemon` | The operations of `daemon_unix.cc` and `daemon_windows.cc`. State and actions only. |
| `Server` | `main()` with `Daemon`: two servers on Unix, or one service on Windows. `MCServer` narrows the initial states. |
| `EventQueueProofs`, `EventChannelProofs`, `ProxyPushSupplierProofs`, `ProxyPullConsumerProofs`, `ProxyPullSupplierProofs`, `ProxyPushConsumerProofs`, `ToolsProofs` | The theorems about the module of that name, with their inductive invariants (section 5). |
| `ServerProofs` | The theorems about what the process keeps on disk: those of `PersistLog`, and those of `Server`. |

Names follow the source: an action has the name of its method, and a method
that other threads can observe half done is several actions
(`disconnectErase`, `disconnectDeactivate`, `disconnectTarget`).

**EventQueue.** Events are numbered in the order in which they are created.
`heap` says which are allocated, so a read of a deleted event is visible.
`stored`, `made` and `seen` are history.

**ProxyPushSupplier.** `mgr` is the program counter of `run_undetached`, `call`
that of the POA's only thread, `sender` that of `ConsumerAdmin_i::send`,
`closer` that of the thread that destroys the POA. `Locked` is the mutex: the
manager's thread has it except while it waits and for a moment between two
busy rounds. `poa[p] = "deactivated"` is the time between `deactivate_object`
and etherealization, when `servant_to_id` raises `ServantNotActive`. The queue
is `EventStream`: that the ring implements it is what the first module shows.
`incarnate` makes the servant and its reader, and `incarnateInsert` takes the
mutex after that, as in the code. `late` is the history of connections that were
made on a proxy already on its way out, or were there when the POA went.

**ProxyPullConsumer.** A transfer is `hold_requests`, a visit to every servant
(`collectException`, `collectResult` or `collectNothing`), `schedule`, and when
pulls are due a second visit (`triggerRequest`). Calls of clients do not run
during a transfer, so each is one step; suppliers answer at any time. Time is
counted in nanoseconds, `nextPull` is the pair of seconds and nanoseconds of
the code, and `addPeriod` its addition with carry. `Tick` is left out where
pulls are not delayed, because the code does not look at the clock there.
`env()` of an answer with an exception returns (omniORB 4.1) or throws (4.2, say
the comments at `ProxyPushSupplier.cc:325` and `Orb.cc:141`). There the push
proxies and `Orb` catch it, and `collect()` does not. `envThrows` is chosen in
`Init`, and `collectThrows` is the end of the channel's thread.

**ProxyPullSupplier.** `pull()` takes no mutex, so `append()` is here the three
steps of its body and `pull()` the test, the read of the slot and the copy.
`call` is the POA's thread, `writer` the append under way. What keeps the copy
safe is not in one place of the code: the empty slot of the ring,
`_useLocalQueue`, and `hold_requests(1)`.

**EventChannel.** `pm` is the POAManager. Calls of clients start only while it
is active; the calls that `destroy()` makes to the proxies go through their
POAs and wait too. `hold_requests(1)` is two steps (`hold_requests`, `held`),
and the second waits until no call is under way. `destroy()` reads the
POAManager's state and activates it in two steps. `collect()` is taken to return
here and in `EventChannelFactory`; `ProxyPullConsumer` has the case where it
throws.

**PersistLog.** A file is the tree that `parse()` makes of it, and each record
appended changes that tree as `readnode()` would. File names are links to
inodes, as `link` and `unlink` make them. `chan` and `conn` follow a channel
and a proxy through the steps that concern the log. A restart reads the active
file, refuses, or makes a new database, as `main()` does. A write that was
flushed survives the death of the process; loss of power is not modelled.
`torn` and `dropped` are history: a death in the one phase that leaves two names
on one inode, and the proxies that an `output()` has left out. `MCPersistLog`
looks at the links and not at the numbers of the inodes.

**DeleteAll.** It stands alone, because what the gates do needs neither the files
of `PersistLog` nor the events of `EventChannel`. `dpc["delete_all"]` is not
`"idle"` while the call has the store's mutex, and `ckpt = "store"` is a worker
that has the log's mutex and waits for the store's. `todo` and `kids` are what is
left of the two loops of `empty()`, `calls` the proxy that is being called, and
`pm` the POAManager that the call has to pass.

**Orb.** No object has two requests in the list, so the list is a function from
callback objects to what they wait for; requests without a callback are one
flag. `refs` is the reference count of the object, and `OrbLocked` the mutex,
which `run()` holds while it polls and cleans up, and not while it releases the
callbacks it has used. `_remove_ref` is the destructor too: `~Proxy()` hands an
outstanding request to `deferredRequest()`, which needs the mutex.

**ProxyPushConsumer.** A `Connection` is a callback object that the table refers
to. `call` is the POA's thread, `destroyer` the thread of `destroy()` and then
that of the channel, `checkpoint` the log's worker, all of which use the table
without a mutex. A step that uses an entry another thread has erased sets
`raced` and ends the behaviour. `record` is what the database says of each
object id; `restart` is the death of the process at any point, after which
`reincarnate` makes connections from the records. A proxy of a push consumer is
here what `Orb` sees of it.

**EventChannelFactory and Tools.** `phase` is the way of a channel: POA made,
thread started, in the store, out of it, POA gone, deleted; `wrecked` is a
channel whose `setInsName()` raised after its POA was made. Criteria are a
sequence of names and values, and `parseCriteria` folds `parseOne` over it with
the widths of the code. A tool is a sequence of calls (`pc` is the next one),
and nothing makes it go on to the next. `list_channels()` is two steps, as it
takes the size of the store before the lock. `bypassed` is the history of
channels destroyed other than by their name. `hung` are the channels and the
callers of `delete_all()` that wait for ever: how that comes about is in
`EventChannel` and `DeleteAll`, here it happens at any time at which it may.

**IteratorSupport.** A call is `preinvoke` and then its body with `postinvoke`;
sweep and other calls may come between. `age` counts time up to `Ttl + 1`.

**Daemon and Server.** `pc` is the next step of `main()`; each step may take the
exits that the code has there. `exit()` runs the exit handler if it is set, and
the end of `main()` runs `~Daemon()` first. The pipe has at most one status; its
write end is open in the server until it has told its parent or ended, and in
the parent until it closes it. The pidfile names a server, is empty between
truncation and write, or names a process that is gone. A server is killed at
any step, and so is its parent. `onExit` is `HAVE_ON_EXIT`: without it the exit
handler is `shutdown0`, which does not know the status. Three steps of `main()`
call other processes (`RemoteCalls`), and need not end. On Windows the SCM's
thread is `ctrlHandler` and `ctrlHandlerEnd`, beside the main thread.

## 3. Runs

| Run | Bounds | What it shows |
|---|---|---|
| `queue` | 2 events buffered (3 slots), 2 readers, 8 events | `NoDanglingRead`, `InOrder`, `ImplementsStream` while the ring turns nearly three times. |
| `queue_memory` | the same | `MemoryBounded` is violated: section 4. |
| `push` | 2 proxies of which one may hang, 2 events buffered, 2 events, 2 client calls, with a log | `NoFreedServant`, `NoOrphanRequest`, `EndIsTold`, `ConnectionsLogged`, and unless `Spins` (section 4) `SentIsDelivered`, `KidsGetIn`, `ShutdownEnds`. |
| `channel` | 4 arrivals, a connected and an unconnected proxy, both ways to `destroy()`, server stop | `NothingLostOrOvertaken`, `TransferIsExclusive`, `ArrivedIsSent`, `ThreadEnds`. |
| `log_crash` | 1 channel, 2 push proxies and a pull proxy, 2 crashes, 1 I/O error | `Restorable`, `ChannelsKept`, `ConnectionsKept` at every step of every checkpoint, but for `torn` and `dropped` (section 4). |
| `delete_all` | 1 channel, a push and a pull proxy, 1 I/O error | `DestroyedChannelsEnd`, `CheckpointHappens`, `CallsEnd`, unless `Embrace`, `HeldBy` or `WorkerDead` (section 4). |
| `pull_consumer` | 2 proxies, 3 calls, 1 event each; pulls in every transfer and pulls every 3 ns, seconds of 2 ns; `env()` that returns and `env()` that throws | `NoEventLost`, `EndIsComplete`, `OnSchedule`, `AskedAgain`. |
| `pull_supplier` | 3 references and room for 1 servant, ring of 2 slots, 3 events, 3 calls | `CopyIsSafe`, `FewProxies`, `TransferHappens`. |
| `push_consumer` | 1 object id, 2 connections in memory, 1 proxy of a consumer, 2 calls, 1 restart | `CallbacksAlive`, `ConnectionsRecorded`, `LeftoversFreed`. |
| `tools` | 2 clients, 2 tools, 3 channels, 1 InsName beside the factory's, ULong of 16 bits, time to live 1 | `StoreIsAlive`, `IteratorsAlive`, `NamesAreAlive`, `DestroyedNameIsFree`, `AbandonedAreFreed`. |
| `server` | 2 servers with one pidfile and port, with and without `on_exit()`; 1 service | `StarterIsTold`, `PidfileIsKept`, `StarterReturns`. |
| `channel_destroy` | one proxy, one destroyer | `DestroyCompletes` is violated: section 4. |

Why the bounds are enough: a ring of three slots has a slot behind, at and
ahead of a reader, and eight events lap it more than twice. Two proxies and
two calls allow a connection and its end while a push is under way, or two
connections. Two events fit into the ring of `push`, so `SentIsDelivered` is not
met by a reader that was lapped. Four arrivals allow a real-time push, two
queued ones and a pulled one on both sides of a transfer. Two crashes allow a
crash in the recovery from a crash, and two push proxies allow one that is being
closed to keep the other out of a checkpoint. Channels and object ids that are never
reused make the database runs finite without further bounds. A supplier may
fail four times in a row and more, since failures are not bounded; three calls
allow a connection, its end and the next one. A period of three in seconds of
two makes both the whole seconds and the carry happen. Room for one servant and
three references make an eviction while an earlier one is not yet complete.
Two connections of one object id are an old one that still waits for its answer
and the new one in the table. The invariants were also checked with two object
ids, with a restart (1.0 million states) and with a third call (7.7 million).
Two tools at a time are every pair of tools on
the same name, and three channels are the restored one and one of each tool.
Two servers are one that is up and one that starts, and either may be the one
that fails; nothing in the model depends on a third. The build without
`on_exit()` is started with a pidfile that is writable and not there: how the
pidfile is treated does not depend on the exit handler. What is in a pidfile that
cannot be written makes no difference, so there it is not there at first.

Every module has a type invariant, which was checked with the bounds above; most
are proved, too (section 5).

`log_crash` may stop: when the worker has died with the mutex locked (section
4), a state is reached in which everybody waits, so deadlock is not checked
there. In `delete_all` everybody may wait as section 4 says. Nor is it checked in
`tools` and `server`, where the tools and the processes end.
Everywhere else it is, and the end of a behaviour is an explicit step.

Fairness. Every thread keeps running (`WF`). A thread that waits for a mutex
which is released again and again gets it (`SF`): omni_mutex does not promise
an order, but no thread of this code releases a mutex only to take it back
without work in between, except `run_undetached`, whose comment asks for just
this. Consumers in `Responsive` answer or time out; the others may hang for
ever. No client has to call, no supplier has to push, and the server need not
stop. Checkpoint fairness is that of the worker's thread. In `tools` the server
finishes the calls that have reached it, the collector's thread wakes up and
time passes, but no tool has to make its next call. In `server` the steps of a
process that is not killed are taken, and so are those of its parent, but the
three steps that call the naming service or a federated peer have no time-out
and no fairness. In `delete_all` a gate that opens again and again lets in who
waits for it (`SF`). In `push_consumer` suppliers need not answer:
`LeftoversFreed` speaks of objects that are not waiting for an answer.

## 4. Where code and documentation part

`channel_destroy` is a run that TLC ends with a counterexample: `destroy()` sees
an active POAManager, the main loop holds it, `hold_requests(1)` waits for
`destroy()`, and `destroy()` for the proxies' POAs. The comment in
`EventChannel.h` says that call handlers complete in the minimum time.

`queue_memory` is another: an event that the filter rejects is not stored and
not deleted, so a queue with a filter grows with every event it rejects.
`EventQueue.h` guarantees that "the worst-case memory usage will never rise above
the defined maximum". Without a filter the guarantee holds, and is proved.

The following windows are in the models. Where a property does not hold in one,
it names it as its exception (`Spins`, `late`, `ThreadKilled`, ...), so that what
is left is what holds. These exceptions are needed: each property with one was
checked without it as well, and TLC reports a violation with the bounds above, for
`SentIsDelivered` and `ConnectionsLogged` with a third client call, with which
both were checked as they stand, too. The one that is not needed is `raced` of
`ProxyPushConsumer`: what the code does after a race is undefined, and the model
ends there.

The threads of a channel:

* A push fails, but `disconnect_push_supplier()` has deactivated the proxy
  meanwhile. `trigger()` finds no target, keeps `_req`, and `eraseKey()` raises.
  The loop catches the exception inside and goes round with the mutex locked;
  the etherealizer that would remove the proxy needs that mutex (`Spins`). Then
  the sender, the etherealizer and the shutdown wait for ever, which is the
  exception of the three liveness properties of `push`.
* A consumer connects after `trigger()` has made `_target` nil
  (`ProxyPushSupplier.cc:359`) and before it deactivates the object (361), or
  while the POA is being destroyed. The connection ends with the servant, and
  the consumer is not told (`late`, the exception of `EndIsTold`).
* `connect_push_consumer()` gives no wake-up. An event that came between
  `incarnate()` and the connection waits until the next one is sent;
  `SentIsDelivered` speaks of events sent while the consumer is connected.
* With omniORB 4.2 the first failed answer of a pull supplier throws out of
  `collect()` (`ProxyPullConsumer.cc:176`), and the channel's thread ends with the
  POAManager held: no supplier is asked again and no call gets in
  (`ThreadKilled`, the exception of `AskedAgain`).
* `delete_all()` activates the POAManager during a transfer
  (`DeleteAllCalled`).
* An exception of one proxy ends `destroy()`, and the clients of the others are
  not told (a destroyer ends in `"raised"`).
* A fourth failure is collected after the client's disconnect, and
  `reportObjectFailure()` asserts a target that is nil (`aborted` in
  `ProxyPullConsumer`).
* `delete_all()` has the store's mutex and waits for the log's, to erase the
  record of a connection; a checkpoint has the log's mutex and waits for the
  store's, to write the channels (`Embrace` in `DeleteAll`). Then neither ends, the channel is never removed, and every client
  that connects waits. `omniEvents.idl` says that `delete_all` "Will perform
  channel destroy operations on all existing channels".
* `delete_all()` has found the POAManager active and calls a proxy; the main loop
  has held it meanwhile, sees `_shutdownRequested`, and waits for the store's
  mutex that `delete_all()` has (`HeldBy`; the case of a client's `destroy()` is
  the run `channel_destroy`). The properties of the run `delete_all` say that
  besides these two and the death of the worker (below) nothing stops.
* A thread that waits for ever in one of these ways keeps the channel's name
  taken, and one in `delete_all()` keeps every other channel in the store
  (`hung`, the exceptions of `DestroyedNameIsFree`).
* A deactivated proxy is chosen for eviction, whose exception the client of
  another proxy gets (`evict`), or, without a log file, which makes no room at
  all (`FewProxies` fails with `HasLog = FALSE`).
* The table of connections is used by three threads without a mutex (`raced`
  in `ProxyPushConsumer`).
* `Orb::run()` cleans up with its mutex locked; a proxy that is deleted there
  with a push outstanding waits for that mutex in its destructor
  (`orb = "stuck"`).

The database:

* A crash between `link(checkpoint, active)` and `unlink(checkpoint)` leaves two
  names of one inode, and the next start truncates it to write the first
  checkpoint. A second crash then leaves an empty database (`torn`, the exception
  of the three properties, until a checkpoint is committed).
* After a crash before the very first checkpoint the active file has no factory,
  and the server refuses to start (`established`).
* `runWorker()` takes the first checkpoint at once, and a channel whose thread
  has not reached the store yet is not in it. If the process dies before that
  thread records the channel, the channel is gone (`ChannelsKept` speaks of
  channels that were recorded since the start).
* A push proxy that is deactivated and not yet etherealized raises in `output()`,
  and the push proxies of the channel that come after it are left out of the
  checkpoint (`dropped`, the exception of `ConnectionsKept`). If the process dies
  before the next checkpoint, their connections are lost, although README says
  that "Channels and connections are continuously saved to disk".
* A recreated push proxy writes an empty IOR (`ConnectionsKept` speaks of
  connections made since the start).
* A checkpoint falls between `eraseKey()` and `deactivateObject()`, or a
  connection is recorded after its channel was deleted.
* An `eraseKey()` fails after writing its `-`, which turns the next record into
  a deletion (`ConnectionsLogged` speaks of the time before).
* `ServantNotActive` from a pull proxy leaves `checkpoint()` with `_lock` locked:
  the worker's thread ends, and every call that has a record to write waits for
  ever (`WorkerDead`, an exception of the properties of `delete_all`).
* An answer to `_is_a` that comes after `disconnect_push_consumer()` makes the
  closed connection record itself again (`late`).
* A federated supplier that raises anything but the expected exceptions when it
  is asked to reconnect ends the start of the server (`reincarnateRaises`).

Names and processes:

* The name of a channel's POA is free a little before its Mapper is gone. A
  channel created with the same InsName in between fails after its POA was made,
  and the name cannot be used again before a restart (`wrecked`).
* `delete_all()` ends at the first channel that is already being destroyed
  (`emptyRaises`), and `list_channels()` may leave out channels or have empty
  entries (`listed`).
* `rmeventc` unbinds the name it has resolved, even if `eventc` has bound it to
  another channel meanwhile; `eventc` interrupted before `bind` leaves a channel
  without a name; `rmeventall -n` unbinds ids of channels, not the names that
  `eventc` gave them (`bypassed`).
* `PullRetryPeriod` times 1000 wraps in 32 bits, and an attribute from 2^31 on
  is written as a negative number.
* When an exception leaves the `try` of `main()`, `~Daemon()` tells the parent 0
  before the exit handler could tell it 1, so the parent reports a successful
  start (`unwound`). Where there is no `on_exit()`, `atexit(shutdown0)` does the
  same for every `exit()` before `runningOk()` (`onExit`). `daemon_unix.h` says
  that status 0 indicates "that the daemon has started successfully". These are
  the exceptions of `StarterIsTold`; what is left is that a server that was killed
  or, with `on_exit()`, has exited is never reported as started, and one that has
  come up never as failed.
* The server calls the naming service and the peers of restored federated
  connections before `runningOk()`, without a time-out (`Orb.cc:82`,
  `main.cc:257`, `ProxyPushConsumer.cc:261`). A peer that hangs keeps the process
  that started the server waiting (`InRemoteCall`, the exception of
  `StarterReturns`).
* Two servers that check the pidfile before either has written it both go on
  (`raced` in `Server`); a pidfile that cannot be written goes unnoticed
  (`writable`). `omniEvents.8` says that the server does not start if the
  pidfile exists; the code starts unless the process in it is running.
* A Windows service that exits before `daemonize()` stays START_PENDING, and
  `ctrlHandler()` may set STOP_PENDING after STOPPED (`overtaken`).

## 5. Proofs

The theorems below are proved for every value of the constants that the named
assumptions of the modules allow, so for any number of proxies, readers,
channels, clients, events, calls, crashes and restarts. Each module has an
inductive invariant, `IInv` (`ToolsOK` in `ToolsProofs`, `ServerInv` for
`Server`), which TLC checked with
the bounds of the runs before it was proved; the properties are consequences.

| Theorem | Property | Hypotheses |
|---|---|---|
| `EventQueueProofs!TypeCorrect` | `TypeOK` | |
| `EventQueueProofs!ReadsAreSafe` | `NoDanglingRead` | |
| `EventQueueProofs!ReadsInOrder` | `InOrder` | |
| `EventQueueProofs!RingImplementsStream` | `ImplementsStream` | |
| `EventQueueProofs!MemoryIsBounded` | `MemoryBounded` | no filter |
| `EventChannelProofs!TransfersAreExclusive` | `TransferIsExclusive` | |
| `EventChannelProofs!EventsKeepOrder` | `NothingLostOrOvertaken` | |
| `ProxyPushSupplierProofs!ServantsAreAlive` | `NoFreedServant` | |
| `ProxyPushSupplierProofs!RequestsHaveTargets` | `NoOrphanRequest` | |
| `ProxyPushSupplierProofs!EndsAreTold` | `EndIsTold` | |
| `ProxyPushSupplierProofs!ConnectionsAreLogged` | `ConnectionsLogged` | |
| `ProxyPullConsumerProofs!EventsAreKept` | `NoEventLost` | |
| `ProxyPullConsumerProofs!EndsAreComplete` | `EndIsComplete` | |
| `ProxyPullConsumerProofs!PullsAreOnSchedule` | `OnSchedule` | |
| `ProxyPullSupplierProofs!CopiesAreSafe` | `CopyIsSafe` | |
| `ProxyPullSupplierProofs!LimitIsKept` | `FewProxies` | `HasLog` |
| `ProxyPushConsumerProofs!CallbacksStayAlive` | `CallbacksAlive` | |
| `ProxyPushConsumerProofs!ConnectionsAreRecorded` | `ConnectionsRecorded` | |
| `ServerProofs!ChannelsAreKept` | `ChannelsKept` | |
| `ServerProofs!PullConnectionsAreKept` | `PullConnectionsKept` | |
| `ServerProofs!ConnectionsAreKept` | `ConnectionsKept` | |
| `ServerProofs!DatabaseIsRestorable` | `Restorable` | |
| `ServerProofs!StartersAreTold` | `StarterIsTold` | |
| `ServerProofs!PidfilesAreKept` | `PidfileIsKept` | |
| `ToolsProofs!StoreStaysAlive` | `StoreIsAlive` | |
| `ToolsProofs!IteratorsStayAlive` | `IteratorsAlive` | |
| `ToolsProofs!NamesStayAlive` | `NamesAreAlive` | |

Type correctness is proved for all of these modules but `PersistLog`, where it
is part of `Invariance`, and `Tools`, where the invariant has the types that it
needs. The two hypotheses are windows of section 4: without each of them TLC
finds a counterexample (with a filter it is the run `queue_memory`).

**EventQueue.** `IInv` says where the writer is (`TurnOK`: `_next` is the number
of kept events modulo `_size`), what each slot holds (`RingOK`: the last `_size`
kept events, each in its slot), that kept events are increasing (`StoredOK`),
that a reader's backlog never exceeds the events kept (`ReaderOK`), that every
event in a slot is allocated (`HeapOK`), and that a reader was given nothing
newer than its position (`SeenOK`). `SuccCases` replaces `% _size` by a case
split, and `TurnOK` counts whole turns. The refinement maps a reader's index to
`Len(stored)` minus its backlog; `PosStep` and `PosRead` say how an append and a
read move it. Memory is counted exactly (`MemoryOK`): one event for each slot
that was ever filled, and one for each that was rejected, of which there is none
without a filter (`AllKept`).

**EventChannel.** `hold_requests(1)` protects a transfer only while nobody
activates the POAManager. `GateOK`: in a transfer it is not active and no call
is under way; it may be active while the main loop waits in `hold_requests`,
but then `destroy()` has set the flag (`FlagOK`) and there will be no transfer.
`OrderOK`: what arrived is what was sent, then the list, then the queue; the
list is empty outside a transfer and the queue while `_useLocalQueue` is off.
Both hold until `delete_all()` is called.

**ProxyPushSupplier.** The manager's thread has the mutex from listing the
servants to the end of the round, and servants are freed under it. The POA's
thread works without: a servant is deactivated before its target is forgotten
(`CallOK`), so what a late `trigger()` does to it no client can see. `LateOK`: a
servant that is being deactivated and has a target was connected late, or its
consumer is about to be told. `LoggedOK`:
a connection that is missing in the log is being written, or is about to be
deactivated by the thread that erased its record.

**ProxyPullConsumer.** `AccountOK` counts the events of a servant from its
incarnation, also past the end of its connection. `ServantOK` and `CountOK`: only
an active servant has a target, an etherealized one has no request, and one that
has failed four times is not asked again. `ScheduleOK`: `_nextPull`
is a whole number of periods after the start; while the thread triggers pulls it
is not after the time of this pull, and afterwards it is after it by at most one
period. The loop that moves it on is one step per turn, so no induction is
needed: each turn adds one period with its carry (`AddPeriod`), and the loop ends
at the first that is later than the clock. Pairs compare like nanoseconds
(`Compare`), as both are normalised.

**ProxyPullSupplier.** `pull()` has no mutex. `WriterOK`: beside a call only
`push()` appends, and with `_useLocalQueue` off. `NextOK`: a `pull()` that is at
`_next` although it saw an event was lapped, and nobody appends until it
returns. `CopyOK`: what it has read is not what an append may yet delete,
because the ring has no event twice (`RingOK`).

**ProxyPushConsumer.** An object's references are those of the list, of the used
callbacks, of the table and of the POA (`CountOK`, which holds even when the
threads have raced), and it is in each at most once: in the table under its own
id (`TableOK`), in the list because a connection is registered when it is new
(`AskOK`) and a proxy when it is made. `RecordOK`: the database says what the
table says, but for the id that a call is under way for. Such a call ends with a
record, which waits for a checkpoint to end; so what a checkpoint has written
stays true up to its commit (`CheckpointOK`), also when suppliers answer
meanwhile. After a restart the same holds of the ids that were reincarnated.

**PersistLog.** The checkpoint is written to an inode of its own (`FilesOK`), and
writers wait from its beginning, so what it has written still holds when it is
linked as the active file (`ChannelsOK`, `ConnsOK`, the latter for the proxies
that were not dropped). Each phase of the renaming leaves a database with a
factory (`FactoryOK`) under one of the two names. Between linking the active file
and unlinking the checkpoint both names are one inode, and only a death there
makes the next checkpoint truncate the database: `torn` says that it happened,
and the commit of a checkpoint ends it. No hypothesis on the constants is left.

**Tools.** `StoreOK`: channels leave the store with its mutex only, so whoever goes
through it finds them alive. `IteratorsOK`: an iterator belongs to one run of one
tool, which makes one call at a time. `NamesOK`: a channel gets one name, from
the tool that made it, and loses it before the tool that looked it up under
that name destroys it.

**Server.** `ToldOK`: a status of 0 is in the pipe, is about to be written by
`shutdown()`, or was read by the parent only if the server has come to
`runningOk()`, an exception has ended `main()`, or `exit()` was called in a build
without `on_exit()`. `ReadyOK` is the other direction: a server on its way has
told nothing and keeps its end of the pipe open, and one that came to
`runningOk()` has told 0 and closed it. `ServiceOK`: the SCM believes a service to
be up only while `_serviceRunning` says so, unless `ctrlHandler()` was overtaken,
and `shutdown()` has reset that before the process exits. `PidfileOK`: unless a check of the pidfile has
overlapped a write (`raced`), a server that is alive and has written the file is
named by it, and a server that is about to write it is alone. Nothing depends on
the number of servers.

What stays with TLC: everything under fairness (`SentIsDelivered`, `KidsGetIn`,
`ShutdownEnds`, `ArrivedIsSent`, `ThreadEnds`, `CheckpointHappens`, `CallsEnd`,
`DestroyedChannelsEnd`, `AskedAgain`, `TransferHappens`, `LeftoversFreed`,
`DestroyedNameIsFree`, `AbandonedAreFreed`, `StarterReturns`), which the prover
has no rules for. Every safety property that a passing run checks is proved.

## 6. What is left out

* Object payloads, IORs, type codes and names are single values.
* Etherealization of a pull supplier's proxy in the middle of a transfer:
  `collect()` uses a servant after it has deactivated it, and what happens if
  the ORB frees it at once is undefined.
* `eventf`, which connects two channels by two calls to their proxies, and
  `events`, which stores and replays a stream of events. What the server does
  with these calls is modelled.
* That a recreated push proxy asks a federated consumer to connect
  (`ProxyPushSupplier_i::reincarnate`); its counterpart in `ProxyPushConsumer`
  is modelled.
* The lazy creation of the proxy managers by the admin objects, the reading of
  tokens by `PersistNode`, the escaping of names in `naming`, syslog and trace
  streams: conversions and set-up without an interleaving.
* `getopt`, a copy of a library, `CorbaIterator.h`, which nothing includes, and
  the example clients.
* omniORB is external. Assumed of it: a POA with `SINGLE_THREAD_MODEL` runs one
  call at a time; a POAManager that is holding keeps calls waiting, colocated
  ones too; `hold_requests(1)` returns when no call is under way;
  `deactivate_object` is followed by etherealization at some later time, which
  in a single threaded POA does not overlap a call.

## 7. What could follow

The system is modelled as far as sections 4 and 6 say, and every safety property
of the passing runs is proved. What remains is outside the server: `eventf` and
`events`, and the federated connections that they make.
