------------------------------ MODULE DeleteAll ------------------------------
(***************************************************************************)
(* Who waits for whom when channels are destroyed.  Three kinds of gates   *)
(* are taken in different orders: the mutex of the EventChannelStore, the  *)
(* mutex of the log file, and the POAManager of each channel, which its    *)
(* main loop holds for a transfer.  delete_all() has the first and waits   *)
(* for the others (EventChannelStore::empty, destroy, eraseKey), a         *)
(* checkpoint has the second and waits for the first (omniEventsLog,       *)
(* EventChannelStore::output), the main loop waits, with the third closed, *)
(* for calls under way.  Here is only what these gates need to know;       *)
(* PersistLog has the content of the log file, EventChannel the events.    *)
(*                                                                         *)
(* External (omniORB): a call through a POA waits while its POAManager is  *)
(* HOLDING, hold_requests(1) returns once no call is under way, and each   *)
(* POA runs one call at a time.                                            *)
(***************************************************************************)
EXTENDS Integers, FiniteSets

CONSTANTS
  Channels,     \* names of channels
  PushNames,    \* object ids of proxy push suppliers
  PullNames,    \* object ids of proxy pull suppliers
  MaxIOErrors   \* bound: checkpoints abandoned for an I/O error

ASSUME DeleteAssumption == MaxIOErrors \in Nat /\ PushNames \cap PullNames = {}

Destroyers == {"client", "delete_all"}
Keys == Channels \X (PushNames \cup PullNames)
KeysOf(c) == {k \in Keys : k[1] = c}
Nothing == << >>

VARIABLES
  main,      \* main[c]: where the channel's thread is
  pm,        \* pm[c]: state of the channel's POAManager
  shutdown,  \* channels whose _shutdownRequested is set
  conn,      \* conn[k]: the life of the proxy with key k
  dpc,       \* dpc[d]: where the call of destroy() or delete_all() is
  of,        \* of[d]: the channel it destroys
  kids,      \* kids[d]: proxies of that channel still to disconnect
  calls,     \* calls[d]: the proxy whose disconnect it has called
  todo,      \* channels that delete_all() has still to destroy
  ckpt,      \* phase of the worker; "dead" if its thread has ended with the log's mutex
  needed,    \* _checkpointNeeded
  ioErrors

destroyVars == <<dpc, of, kids, calls, todo>>
workerVars == <<ckpt, needed, ioErrors>>
vars == <<main, pm, shutdown, conn, destroyVars, workerVars>>

Init ==
  /\ main = [c \in Channels |-> "none"] /\ pm = [c \in Channels |-> "holding"] /\ shutdown = {}
  /\ conn = [k \in Keys |-> "none"]
  /\ dpc = [d \in Destroyers |-> "idle"] /\ of = [d \in Destroyers |-> Nothing]
  /\ kids = [d \in Destroyers |-> {}] /\ calls = [d \in Destroyers |-> Nothing] /\ todo = {}
  /\ ckpt = "first" /\ needed = TRUE /\ ioErrors = 0

-----------------------------------------------------------------------------
(* The gates.  delete_all() has the store's mutex during its whole call,   *)
(* the worker while it writes; the worker has the log's mutex during a     *)
(* checkpoint, others for one record.                                      *)
InStore(c) == main[c] \in {"record", "activate", "check", "hold", "holding", "transfer", "erase"}
StoreFree == dpc["delete_all"] = "idle" /\ ckpt # "write"
LogFree == ckpt \in {"first", "wait"}

Running(d) == dpc[d] # "idle"
PoaAlive(c) == main[c] \in {"check", "hold", "holding", "transfer", "erase", "unrecord", "destroyPoa"}

(* Calls under way in the POAs of the proxies, and in all POAs of c.       *)
InCall(k) == conn[k] \in {"connecting", "leaving"} \/ \E d \in Destroyers : calls[d] = k
PoaFree(k) ==
  \A j \in KeysOf(k[1]) : (j[2] \in PullNames <=> k[2] \in PullNames) => ~InCall(j)
CallsUnderWay(c) ==
  (Running("client") /\ of["client"] = c) \/ \E k \in KeysOf(c) : InCall(k)

(* A call enters the POA of the proxy.                                     *)
enter(k) == PoaAlive(k[1]) /\ pm[k[1]] = "active" /\ PoaFree(k)

(* class WriteLock: for one record.                                        *)
WriteLock == LogFree /\ needed' = TRUE /\ UNCHANGED <<ckpt, ioErrors>>

-----------------------------------------------------------------------------
(* EventChannelFactory_i::create_object, and the channel's thread: into    *)
(* the store, into the log file, through the main loop until destroy() is  *)
(* called, and out again.  The POA of that name must be gone, with the     *)
(* calls that were under way in it.                                        *)
create_object(c) ==
  /\ main[c] = "none" /\ \A d \in Destroyers : of[d] # c
  /\ main' = [main EXCEPT ![c] = "insert"]
  /\ UNCHANGED <<pm, shutdown, conn, destroyVars, workerVars>>

goto(c, from, to) == main[c] = from /\ main' = [main EXCEPT ![c] = to]

storeStep(c) ==
  /\ goto(c, "insert", "record") \/ goto(c, "erase", "unrecord")
  /\ StoreFree
  /\ UNCHANGED <<pm, shutdown, conn, destroyVars, workerVars>>

logStep(c) ==
  /\ goto(c, "record", "activate") \/ goto(c, "unrecord", "destroyPoa")
  /\ WriteLock
  /\ UNCHANGED <<pm, shutdown, conn, destroyVars>>

activate(c) ==
  /\ goto(c, "activate", "check") \/ goto(c, "transfer", "check")
  /\ pm' = [pm EXCEPT ![c] = "active"]
  /\ UNCHANGED <<shutdown, conn, destroyVars, workerVars>>

(* The condition of the loop, then hold_requests(1), which waits; and      *)
(* _shutdownRequested is tested again.  The loop is left with the          *)
(* POAManager as it is.                                                    *)
check(c) ==
  /\ goto(c, "check", IF c \in shutdown THEN "erase" ELSE "hold")
  /\ UNCHANGED <<pm, shutdown, conn, destroyVars, workerVars>>

hold_requests(c) ==
  /\ goto(c, "hold", "holding")
  /\ pm' = [pm EXCEPT ![c] = "holding"]
  /\ UNCHANGED <<shutdown, conn, destroyVars, workerVars>>

held(c) ==
  /\ ~CallsUnderWay(c)
  /\ goto(c, "holding", IF c \in shutdown THEN "erase" ELSE "transfer")
  /\ UNCHANGED <<pm, shutdown, conn, destroyVars, workerVars>>

(* POA::destroy, without waiting: the proxies are etherealized.            *)
destroyPoa(c) ==
  /\ goto(c, "destroyPoa", "none")
  /\ pm' = [pm EXCEPT ![c] = "holding"] /\ shutdown' = shutdown \ {c}
  /\ conn' = [k \in Keys |-> IF k \in KeysOf(c) /\ conn[k] # "none" THEN "gone" ELSE conn[k]]
  /\ UNCHANGED <<destroyVars, workerVars>>

thread(c) ==
  \/ storeStep(c) \/ logStep(c) \/ activate(c) \/ check(c) \/ hold_requests(c) \/ held(c)
  \/ destroyPoa(c)

-----------------------------------------------------------------------------
(* Clients connect and disconnect through the proxies' POAs; a record is   *)
(* written in the call.  A failed push erases the key from another thread. *)
become(k, from, to) ==
  /\ conn[k] = from /\ conn' = [conn EXCEPT ![k] = to]
  /\ UNCHANGED <<main, pm, shutdown, destroyVars>>

clientCalls(k) ==
  /\ become(k, "none", "connecting") \/ become(k, "on", "leaving")
  /\ enter(k)
  /\ UNCHANGED workerVars

clientRecords(k) ==
  /\ become(k, "connecting", "on") \/ become(k, "leaving", "closed")
  /\ WriteLock

pushFails(k) == k[2] \in PushNames /\ become(k, "on", "erased") /\ WriteLock

deactivateObject(k) == become(k, "erased", "closed") /\ UNCHANGED workerVars

(* The POA etherealizes a proxy once no call is under way in it.           *)
etherealize(k) == become(k, "closed", "gone") /\ PoaFree(k) /\ UNCHANGED workerVars

proxy(k) == clientRecords(k) \/ deactivateObject(k) \/ etherealize(k)

-----------------------------------------------------------------------------
(* delete_all(): empty() takes the mutex and goes through the channels.    *)
delete_all ==
  /\ dpc["delete_all"] = "idle" /\ StoreFree
  /\ dpc' = [dpc EXCEPT !["delete_all"] = "store"]
  /\ todo' = {c \in Channels : InStore(c)}
  /\ UNCHANGED <<main, pm, shutdown, conn, of, kids, calls, workerVars>>

(* A call of destroy() ends: a client's returns; empty() goes on with the  *)
(* next channel, or is over: after an exception it releases the mutex and  *)
(* leaves the channels that it has not visited as they are.                *)
finish(d, over) ==
  /\ dpc' = [dpc EXCEPT ![d] = IF d = "delete_all" /\ ~over THEN "store" ELSE "idle"]
  /\ of' = [of EXCEPT ![d] = Nothing] /\ kids' = [kids EXCEPT ![d] = {}]
  /\ calls' = [calls EXCEPT ![d] = Nothing]
  /\ todo' = IF d = "delete_all" /\ over THEN {} ELSE todo

emptyEnd ==
  /\ dpc["delete_all"] = "store" /\ todo = {}
  /\ finish("delete_all", TRUE)
  /\ UNCHANGED <<main, pm, shutdown, conn, workerVars>>

(* Mutant of emptyRaises: the exception leaves the mutex locked.           *)
emptyRaisesLocked ==
  /\ dpc["delete_all"] = "store" /\ todo \cap shutdown # {}
  /\ dpc' = [dpc EXCEPT !["delete_all"] = "raised"]
  /\ UNCHANGED <<main, pm, shutdown, conn, of, kids, calls, todo, workerVars>>

(* destroy() of a channel that is being destroyed: OBJECT_NOT_EXIST.       *)
emptyRaises ==
  /\ dpc["delete_all"] = "store" /\ todo \cap shutdown # {}
  /\ finish("delete_all", TRUE)
  /\ UNCHANGED <<main, pm, shutdown, conn, workerVars>>

(* destroy(), called by a client through the POA or by empty(): the flag.  *)
destroy(d, c) ==
  /\ \/ d = "client" /\ dpc[d] = "idle" /\ PoaAlive(c) /\ pm[c] = "active" /\ UNCHANGED todo
     \/ d = "delete_all" /\ dpc[d] = "store" /\ c \in todo /\ todo' = todo \ {c}
  /\ c \notin shutdown /\ shutdown' = shutdown \cup {c}
  /\ dpc' = [dpc EXCEPT ![d] = "state"] /\ of' = [of EXCEPT ![d] = c]
  /\ UNCHANGED <<main, pm, conn, kids, calls, workerVars>>

(* Is the POAManager HOLDING?  Then it is activated, in a second step.     *)
(* The proxies there are now are told.                                     *)
toProxies(d) ==
  /\ dpc' = [dpc EXCEPT ![d] = "proxies"]
  /\ kids' = [kids EXCEPT ![d] =
                {k \in KeysOf(of[d]) : conn[k] \in {"connecting", "on", "leaving", "erased", "closed"}}]

get_state(d) ==
  /\ dpc[d] = "state"
  /\ \/ pm[of[d]] = "holding" /\ dpc' = [dpc EXCEPT ![d] = "activate"] /\ UNCHANGED kids
     \/ pm[of[d]] = "active" /\ toProxies(d)
  /\ UNCHANGED <<main, pm, shutdown, conn, of, calls, todo, workerVars>>

activateManager(d) ==
  /\ dpc[d] = "activate"
  /\ pm' = [pm EXCEPT ![of[d]] = "active"]
  /\ toProxies(d)
  /\ UNCHANGED <<main, shutdown, conn, of, calls, todo, workerVars>>

(* ConsumerAdmin_i::disconnect: a call to each proxy through its POA,      *)
(* first to those of push consumers.  The call waits for the POAManager,   *)
(* then for the log's mutex (eraseKey), and deactivates the proxy; one     *)
(* that somebody else has erased has no target, and the call raises.       *)
Waiting(d) == {k \in kids[d] : conn[k] # "gone"}
isNext(d, k) ==
  /\ dpc[d] = "proxies" /\ calls[d] = Nothing /\ k \in Waiting(d)
  /\ k[2] \in PullNames => \A j \in Waiting(d) : j[2] \in PullNames

disconnectCall(d, k) ==
  /\ isNext(d, k) /\ enter(k) /\ conn[k] \in {"on", "erased"}
  /\ calls' = [calls EXCEPT ![d] = k]
  /\ UNCHANGED <<main, pm, shutdown, conn, dpc, of, kids, todo, workerVars>>

disconnect(d, k) ==
  /\ calls[d] = k /\ WriteLock
  /\ conn' = [conn EXCEPT ![k] = IF @ \in {"on", "erased"} THEN "closed" ELSE @]
  /\ \/ /\ conn[k] = "on"
        /\ kids' = [kids EXCEPT ![d] = @ \ {k}] /\ calls' = [calls EXCEPT ![d] = Nothing]
        /\ UNCHANGED <<dpc, of, todo>>
     \/ conn[k] # "on" /\ finish(d, TRUE)
  /\ UNCHANGED <<main, pm, shutdown>>

(* _this() of a proxy that is not active raises, and so does a POA that is *)
(* destroyed.                                                              *)
disconnectRaises(d, k) ==
  /\ isNext(d, k) /\ (conn[k] = "closed" \/ ~PoaAlive(k[1]))
  /\ finish(d, TRUE)
  /\ UNCHANGED <<main, pm, shutdown, conn, workerVars>>

disconnected(d) ==
  /\ dpc[d] = "proxies" /\ calls[d] = Nothing /\ Waiting(d) = {}
  /\ finish(d, FALSE)
  /\ UNCHANGED <<main, pm, shutdown, conn, workerVars>>

call(d) ==
  \/ d = "delete_all" /\ (emptyEnd \/ emptyRaises \/ \E c \in Channels : destroy(d, c))
  \/ get_state(d) \/ activateManager(d) \/ disconnected(d)
  \/ \E k \in Keys : disconnectCall(d, k) \/ disconnect(d, k) \/ disconnectRaises(d, k)

-----------------------------------------------------------------------------
(* omniEventsLog::checkpoint: the first one is taken at once, the others   *)
(* when a record was written since.  With the log's mutex the worker waits *)
(* for the store's.                                                        *)
phase(from, to) ==
  /\ ckpt = from /\ ckpt' = to
  /\ UNCHANGED <<main, pm, shutdown, conn, destroyVars>>

(* Mutant of ckptLock: only the first checkpoint is taken.                 *)
ckptLockOnce == phase("first", "store") /\ UNCHANGED <<needed, ioErrors>>

ckptLock ==
  /\ phase("first", "store") \/ (needed /\ phase("wait", "store"))
  /\ UNCHANGED <<needed, ioErrors>>

ckptStore == StoreFree /\ phase("store", "write") /\ UNCHANGED <<needed, ioErrors>>

(* A pull proxy that is deactivated and not yet etherealized raises in     *)
(* output(): the exception ends the worker's thread, the store's mutex is  *)
(* released, the log's is not.                                             *)
Unwritable == \E k \in Keys : InStore(k[1]) /\ k[2] \in PullNames /\ conn[k] = "closed"

ckptWrite ==
  \/ ~Unwritable /\ phase("write", "wait") /\ needed' = FALSE /\ UNCHANGED ioErrors
  \/ Unwritable /\ phase("write", "dead") /\ UNCHANGED <<needed, ioErrors>>

(* Mutant of ckptIOError: the lock is not released.                        *)
ckptIOErrorLocked ==
  /\ ioErrors < MaxIOErrors /\ ioErrors' = ioErrors + 1
  /\ phase("store", "abandoned") \/ phase("write", "abandoned")
  /\ UNCHANGED needed

(* The checkpoint cannot be opened, or written, and is abandoned.          *)
ckptIOError ==
  /\ ioErrors < MaxIOErrors /\ ioErrors' = ioErrors + 1
  /\ phase("store", "wait") \/ phase("write", "wait")
  /\ UNCHANGED needed

worker == ckptLock \/ ckptStore \/ ckptWrite \/ ckptIOError

-----------------------------------------------------------------------------
Next ==
  \/ \E c \in Channels : create_object(c) \/ thread(c) \/ destroy("client", c)
  \/ \E k \in Keys : clientCalls(k) \/ pushFails(k) \/ proxy(k)
  \/ delete_all \/ \E d \in Destroyers : call(d)
  \/ worker

(* Threads keep running, and a gate that is open again and again lets in   *)
(* who waits for it.  Nobody has to connect, or to call destroy() or       *)
(* delete_all(), and no push has to fail.                                  *)
Fairness ==
  /\ SF_vars(worker) /\ \A c \in Channels : SF_vars(thread(c))
  /\ \A d \in Destroyers : SF_vars(call(d))
  /\ \A k \in Keys : SF_vars(proxy(k))

DeleteSpec == Init /\ [][Next]_vars /\ Fairness

-----------------------------------------------------------------------------
(* Type correctness.                                                       *)
DeleteTypeOK ==
  /\ main \in [Channels -> {"none", "insert", "record", "activate", "check", "hold", "holding", "transfer",
                            "erase", "unrecord", "destroyPoa"}]
  /\ pm \in [Channels -> {"holding", "active"}] /\ shutdown \subseteq Channels
  /\ conn \in [Keys -> {"none", "connecting", "on", "leaving", "erased", "closed", "gone"}]
  /\ dpc \in [Destroyers -> {"idle", "store", "state", "activate", "proxies"}]
  /\ of \in [Destroyers -> Channels \cup {Nothing}] /\ kids \in [Destroyers -> SUBSET Keys]
  /\ calls \in [Destroyers -> Keys \cup {Nothing}] /\ todo \subseteq Channels
  /\ ckpt \in {"first", "wait", "store", "write", "dead"}
  /\ needed \in BOOLEAN /\ ioErrors \in 0 .. MaxIOErrors

(* The three ways in which the gates close for ever.  destroy() has seen   *)
(* an ACTIVE POAManager, and its next call waits for one that the main     *)
(* loop has held since.  The main loop waits for a client's destroy() to   *)
(* return, or having seen _shutdownRequested, for the mutex of the store   *)
(* that delete_all() has.                                                  *)
HeldBy(d) ==
  dpc[d] = "proxies" /\ Waiting(d) # {} /\ calls[d] = Nothing /\ pm[of[d]] = "holding"

(* The other proxies answer, but delete_all() has the store's mutex and    *)
(* waits for the log's, the checkpoint the other way round.                *)
Embrace ==
  /\ dpc["delete_all"] = "proxies" /\ Waiting("delete_all") # {} /\ ckpt = "store"
  /\ ~HeldBy("delete_all")

(* The worker is gone, and with it the log's mutex.                        *)
WorkerDead == ckpt = "dead"

(* A channel that was destroyed, by its clients or by delete_all(), leaves *)
(* the store and the database, unless one of the three happens: nothing    *)
(* else keeps the store's mutex, not even an exception in the middle of    *)
(* delete_all().                                                           *)
DestroyedChannelsEnd ==
  \/ \A c \in Channels : c \in shutdown ~> c \notin shutdown
  \/ <>[](Embrace \/ WorkerDead \/ \E d \in Destroyers : HeldBy(d))

(* A change that was recorded is followed by a checkpoint that makes the   *)
(* file short again, also after an I/O error, and whatever becomes of a    *)
(* client's destroy(); only delete_all() that never returns, or the end of *)
(* the worker, prevents it.                                                *)
CheckpointHappens ==
  (needed ~> ~needed) \/ <>[](Embrace \/ WorkerDead \/ HeldBy("delete_all"))

(* A client's call that has a record to write gets the log's mutex and     *)
(* comes to an end, with the same exceptions.                              *)
CallsEnd ==
  \/ \A k \in Keys : InCall(k) ~> ~InCall(k)
  \/ <>[](Embrace \/ WorkerDead \/ HeldBy("delete_all"))
=============================================================================
