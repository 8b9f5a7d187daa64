-------------------------- MODULE ProxyPullSupplier --------------------------
(***************************************************************************)
(* Delivery to the pull consumers of one channel: the proxies, their       *)
(* limited number and the eviction of the least recently used one          *)
(* (ProxyPullSupplier.cc), and what goes on in the event queue while they  *)
(* read it.  pull() takes no mutex.  Two writers append to the queue: the  *)
(* channel's thread in a transfer, when no call runs, and the real-time    *)
(* path of ProxyPushConsumer_i::push, beside the calls of pull().  The     *)
(* queue is the ring of EventQueue.tla, with append() and nextEvent() in   *)
(* the steps in which two threads can see it.                              *)
(*                                                                         *)
(* External (omniORB): the POA of the proxies runs one call at a time, and *)
(* its calls to incarnate() and etherealize() are among them.              *)
(***************************************************************************)
EXTENDS Integers, FiniteSets

CONSTANTS
  Proxies,         \* object references made by obtain_pull_supplier()
  MaxQueueLength,
  MaxNumProxies,
  HasLog,          \* omniEventsLog::exists(): so in the server
  MaxEvents,       \* bound: events appended
  MaxCalls,        \* bound: calls of clients
  MaxTime          \* bound: the clock, in seconds

ASSUME PullSupplierAssumption ==
  /\ MaxQueueLength \in Nat \ {0} /\ MaxNumProxies \in Nat \ {0}
  /\ HasLog \in BOOLEAN /\ MaxEvents \in Nat /\ MaxCalls \in Nat /\ MaxTime \in Nat

VARIABLES
  next, queue, rnext, heap,  \* the queue, as in EventQueue
  made,       \* events made so far
  writer,     \* the append() under way: where it is, and for whom
  useLocal,   \* ProxyPushConsumer_i::_useLocalQueue
  pm,         \* POAManager and channel's thread: "active", "holding", "transfer"
  poa,        \* poa[p]: "inactive", "active", or "deactivated"
  connected,  \* connected[p]: _connected
  target,     \* target[p]: _target is not nil
  stamp,      \* stamp[p]: _timestamp
  told,       \* servants that sent disconnect_pull_consumer
  call,       \* the call that the POA runs, and where it is
  ncalls, now

queueVars == <<next, queue, rnext, heap>>
writeVars == <<made, writer, useLocal>>
proxyVars == <<poa, connected, target, stamp, told>>
vars == <<queueVars, writeVars, pm, proxyVars, call, ncalls, now>>

NULL == 0
Size == MaxQueueLength + 1
Slots == 0 .. Size - 1

Succ(i) == (i + 1) % Size

servants == {p \in Proxies : poa[p] # "inactive"}
idleCall == [op |-> "none", p |-> "none", pc |-> "idle", event |-> NULL]
idleWriter == [pc |-> "idle", by |-> "none"]
CallsUnderWay == call # idleCall \/ writer.by = "push"

Init ==
  /\ next = 0 /\ queue = [i \in Slots |-> NULL] /\ heap = {} /\ made = 0
  /\ rnext = [p \in Proxies |-> 0]
  /\ writer = idleWriter /\ useLocal = FALSE /\ pm = "active"
  /\ poa = [p \in Proxies |-> "inactive"]
  /\ connected = [p \in Proxies |-> FALSE] /\ target = [p \in Proxies |-> FALSE]
  /\ stamp = [p \in Proxies |-> 0] /\ told = {}
  /\ call = idleCall /\ ncalls = 0 /\ now = 0

-----------------------------------------------------------------------------
(* EventQueue::append, by push() or by the channel's thread: the old event *)
(* is deleted, the new one stored, and the write index moved.              *)
appendDelete(by) ==
  /\ writer = idleWriter /\ made < MaxEvents
  /\ heap' = heap \ {queue[next]}
  /\ writer' = [pc |-> "store", by |-> by]
  /\ UNCHANGED <<next, queue, rnext, made, useLocal, pm, proxyVars, call, ncalls, now>>

appendStore ==
  /\ writer.pc = "store"
  /\ made' = made + 1
  /\ heap' = heap \cup {made + 1} /\ queue' = [queue EXCEPT ![next] = made + 1]
  /\ writer' = [writer EXCEPT !.pc = "move"]
  /\ UNCHANGED <<next, rnext, useLocal, pm, proxyVars, call, ncalls, now>>

(* Mutant of appendMove: push() never sets _useLocalQueue.                 *)
appendMoveOnly ==
  /\ writer.pc = "move"
  /\ next' = Succ(next)
  /\ writer' = idleWriter
  /\ UNCHANGED <<queue, rnext, heap, made, useLocal, pm, proxyVars, call, ncalls, now>>

(* ... and push() then sets _useLocalQueue.                                *)
appendMove ==
  /\ writer.pc = "move"
  /\ next' = Succ(next)
  /\ writer' = idleWriter
  /\ useLocal' = (useLocal \/ writer.by = "push")
  /\ UNCHANGED <<queue, rnext, heap, made, pm, proxyVars, call, ncalls, now>>

(* The real-time path of push(): once between two transfers.               *)
push == pm = "active" /\ ~useLocal /\ appendDelete("push")

(* mainLoop: calls are held, events transferred, calls let in again.       *)
hold_requests ==
  /\ pm = "active" /\ pm' = "holding"
  /\ UNCHANGED <<queueVars, writeVars, proxyVars, call, ncalls, now>>

collect ==
  /\ pm = "holding" /\ ~CallsUnderWay
  /\ pm' = "transfer" /\ useLocal' = FALSE
  /\ UNCHANGED <<queueVars, made, writer, proxyVars, call, ncalls, now>>

send == pm = "transfer" /\ appendDelete("channel")

activate ==
  /\ pm = "transfer" /\ writer = idleWriter
  /\ pm' = "active"
  /\ UNCHANGED <<queueVars, writeVars, proxyVars, call, ncalls, now>>

Tick ==
  /\ now < MaxTime /\ now' = now + 1
  /\ UNCHANGED <<queueVars, writeVars, pm, proxyVars, call, ncalls>>

-----------------------------------------------------------------------------
(* A client calls; a reference without a servant gets one first.           *)
StartCall(op, p) ==
  /\ call = idleCall /\ pm = "active" /\ ncalls < MaxCalls /\ poa[p] # "deactivated"
  /\ call' = [op |-> op, p |-> p, event |-> NULL,
              pc |-> IF poa[p] = "active" THEN op ELSE "incarnate"]
  /\ ncalls' = ncalls + 1
  /\ UNCHANGED <<queueVars, writeVars, pm, proxyVars, now>>

(* The servant made by ProxyPullSupplierManager::incarnate: a new reader,  *)
(* not connected.                                                          *)
newServant(p) ==
  /\ rnext' = [rnext EXCEPT ![p] = next]
  /\ call' = [call EXCEPT !.pc = call.op]
  /\ UNCHANGED <<next, queue, heap, writeVars, pm, connected, ncalls, now>>

incarnate ==
  /\ call.pc = "incarnate" /\ Cardinality(servants) < MaxNumProxies
  /\ newServant(call.p)
  /\ poa' = [poa EXCEPT ![call.p] = "active"]
  /\ stamp' = [stamp EXCEPT ![call.p] = now]
  /\ UNCHANGED <<target, told>>

(* The oldest servants; the code takes the first one that it meets.        *)
Evictable == {p \in servants : \A q \in servants : stamp[p] <= stamp[q]}

(* The oldest servant is disconnected and the new one made (in place of    *)
(* evict, a mutant: one that is no longer active is evicted again).        *)
evictAny(old) ==
  /\ newServant(call.p)
  /\ poa' = [poa EXCEPT ![old] = "deactivated", ![call.p] = "active"]
  /\ target' = [target EXCEPT ![old] = FALSE]
  /\ stamp' = [stamp EXCEPT ![old] = now, ![call.p] = now]
  /\ told' = IF target[old] THEN told \cup {old} ELSE told

(* The limit is reached: disconnect_pull_supplier() of the oldest servant. *)
(* One that is already deactivated raises ServantNotActive in eraseKey(),  *)
(* which nobody catches: the client's call fails.                          *)
evict(old) ==
  \/ /\ ~HasLog \/ poa[old] = "active"
     /\ evictAny(old)
  \/ /\ HasLog /\ poa[old] = "deactivated"
     /\ stamp' = [stamp EXCEPT ![old] = now]
     /\ call' = idleCall
     /\ UNCHANGED <<queueVars, writeVars, pm, poa, connected, target, told, ncalls, now>>

incarnateFull ==
  /\ call.pc = "incarnate" /\ Cardinality(servants) >= MaxNumProxies
  /\ \E old \in Evictable : evict(old)

touch == stamp' = [stamp EXCEPT ![call.p] = now]

return == call' = idleCall /\ UNCHANGED <<queueVars, writeVars, pm, ncalls, now>>

(* AlreadyConnected, or connected with or without a target.                *)
connect_pull_consumer ==
  /\ call.pc = "connect" /\ return
  /\ \/ connected[call.p] /\ UNCHANGED proxyVars
     \/ /\ ~connected[call.p] /\ touch
        /\ connected' = [connected EXCEPT ![call.p] = TRUE]
        /\ \E t \in BOOLEAN : target' = [target EXCEPT ![call.p] = t]
        /\ UNCHANGED <<poa, told>>

(* OBJECT_NOT_EXIST if nobody is connected; _connected stays as it is.     *)
disconnect_pull_supplier ==
  /\ call.pc = "disconnect" /\ return /\ touch
  /\ poa' = [poa EXCEPT ![call.p] = "deactivated"]
  /\ target' = [target EXCEPT ![call.p] = FALSE]
  /\ told' = IF target[call.p] THEN told \cup {call.p} ELSE told
  /\ UNCHANGED connected

moreEvents(p) == rnext[p] # next

(* Mutant of pullEmpty: pull() waits for an event.                         *)
pullBlocks ==
  /\ call.pc = "pull"
  /\ \/ ~connected[call.p] /\ return /\ UNCHANGED proxyVars
     \/ connected[call.p] /\ ~moreEvents(call.p) /\ UNCHANGED vars

(* pull() and try_pull(): Disconnected, or without an event TRANSIENT (for *)
(* try_pull() has_event=0).                                                *)
pullEmpty ==
  /\ call.pc = "pull" /\ return
  /\ \/ ~connected[call.p] /\ UNCHANGED proxyVars
     \/ /\ connected[call.p] /\ ~moreEvents(call.p)
        /\ touch /\ UNCHANGED <<poa, connected, target, told>>

pullEvent ==
  /\ call.pc = "pull" /\ connected[call.p] /\ moreEvents(call.p)
  /\ touch
  /\ call' = [call EXCEPT !.pc = "next"]
  /\ UNCHANGED <<queueVars, writeVars, pm, poa, connected, target, told, ncalls, now>>

nextEvent ==
  /\ call.pc = "next"
  /\ LET e == queue[rnext[call.p]]
     IN  call' = [call EXCEPT !.pc = "copy", !.event = e]
  /\ rnext' = [rnext EXCEPT ![call.p] = Succ(@)]
  /\ UNCHANGED <<next, queue, heap, writeVars, pm, proxyVars, ncalls, now>>

(* The copy of the event that the client gets.                             *)
pullReturn ==
  /\ call.pc = "copy" /\ return /\ UNCHANGED proxyVars

(* ProxyManager::etherealize: the servant and all that it holds is gone.   *)
etherealize(p) ==
  /\ poa[p] = "deactivated" /\ call = idleCall
  /\ poa' = [poa EXCEPT ![p] = "inactive"]
  /\ rnext' = [rnext EXCEPT ![p] = 0] /\ stamp' = [stamp EXCEPT ![p] = 0]
  /\ connected' = [connected EXCEPT ![p] = FALSE]
  /\ told' = told \ {p}
  /\ UNCHANGED <<next, queue, heap, writeVars, pm, target, call, ncalls, now>>

-----------------------------------------------------------------------------
Append == appendStore \/ appendMove

POAThread ==
  \/ incarnate \/ incarnateFull \/ connect_pull_consumer \/ disconnect_pull_supplier
  \/ pullEmpty \/ pullEvent \/ nextEvent \/ pullReturn

Next ==
  \/ push \/ Append \/ hold_requests \/ collect \/ send \/ activate \/ Tick
  \/ \E p \in Proxies, op \in {"connect", "disconnect", "pull"} : StartCall(op, p)
  \/ POAThread
  \/ \E p \in Proxies : etherealize(p)

Spec == Init /\ [][Next]_vars

(* Calls that run, appends and the channel's thread go on; nobody has to   *)
(* call, and events need not come.                                         *)
FairSpec ==
  Spec /\ WF_vars(POAThread) /\ WF_vars(Append) /\ WF_vars(collect) /\ WF_vars(activate)

-----------------------------------------------------------------------------
(* Type correctness.                                                       *)
QueueTypes ==
  /\ next \in Slots /\ queue \in [Slots -> 0 .. MaxEvents] /\ rnext \in [Proxies -> Slots]
  /\ heap \subseteq 1 .. MaxEvents /\ made \in 0 .. MaxEvents
  /\ writer \in [pc : {"idle", "store", "move"}, by : {"none", "push", "channel"}]

FlagTypes ==
  /\ useLocal \in BOOLEAN
  /\ connected \in [Proxies -> BOOLEAN] /\ target \in [Proxies -> BOOLEAN]

ServantTypes ==
  /\ poa \in [Proxies -> {"inactive", "active", "deactivated"}]
  /\ stamp \in [Proxies -> 0 .. MaxTime] /\ now \in 0 .. MaxTime
  /\ told \subseteq Proxies

CallTypes ==
  /\ pm \in {"active", "holding", "transfer"}
  /\ call \in [op : {"none", "connect", "disconnect", "pull"}, p : Proxies \cup {"none"},
               pc : {"idle", "incarnate", "connect", "disconnect", "pull", "next", "copy"},
               event : 0 .. MaxEvents]
  /\ ncalls \in 0 .. MaxCalls

TypeOK == QueueTypes /\ FlagTypes /\ ServantTypes /\ CallTypes

(* pull() never copies an event that a push() beside it deletes.  No mutex *)
(* sees to this: it is the empty slot of the ring, and that _useLocalQueue *)
(* lets push() append one event only until the next transfer, which waits  *)
(* for pull() to return.                                                   *)
CopyIsSafe == call.pc = "copy" => call.event \in heap

(* "Upper limit on number of proxies" (ProxyPullSupplier.h): however many  *)
(* clients come, and however late old servants are etherealized, no more   *)
(* than MaxNumProxies serve clients.                                       *)
FewProxies == Cardinality({p \in Proxies : poa[p] = "active"}) <= MaxNumProxies

(* "Sadly, it's not possible to implement ProxyPullSupplier::pull()        *)
(* 'properly' without blocking" (EventChannel.h): no call keeps the        *)
(* channel's thread waiting, and each transfer begins and ends.            *)
TransferHappens == pm = "holding" ~> pm = "active"
=============================================================================
