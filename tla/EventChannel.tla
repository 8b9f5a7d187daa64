---------------------------- MODULE EventChannel ----------------------------
(***************************************************************************)
(* One event channel (EventChannel.cc): its thread and main loop, the      *)
(* POAManager that holds and releases incoming calls, the supplier side    *)
(* (SupplierAdmin.cc, push() of ProxyPushConsumer.cc), and destroy(),      *)
(* called by a client through the channel's POA or by                      *)
(* EventChannelFactory::delete_all() from outside it, with the lock of the *)
(* EventChannelStore held.                                                 *)
(*                                                                         *)
(* External (omniORB): a call through a POA of the channel, also one from  *)
(* inside the process, waits while the POAManager is HOLDING;              *)
(* hold_requests(1) returns once no call is under way; each POA runs one   *)
(* call at a time.  collect() returns, so env() of a failed pull does not  *)
(* throw; where it does (ProxyPullConsumer.tla), the thread ends there.    *)
(***************************************************************************)
EXTENDS Integers, Sequences, FiniteSets

CONSTANTS
  Connected,     \* consumers' proxies that are connected
  Unconnected,   \* consumers' proxies that may have a servant, but no client
  PushSuppliers, \* connections of the ProxyPushConsumer
  Destroyers,    \* subset of {"client", "delete_all"}: who calls destroy()
  ServerStops,   \* whether the server may be shut down
  MaxArrivals,   \* bound: events that arrive in the channel
  MaxPulled      \* bound: events collected from pull suppliers in one turn

ASSUME ChannelAssumption ==
  /\ Destroyers \subseteq {"client", "delete_all"}
  /\ ServerStops \in BOOLEAN
  /\ MaxArrivals \in Nat /\ MaxPulled \in Nat

VARIABLES
  pm,        \* state of the POAManager
  main,      \* where the channel's thread is
  alive,     \* the channel's POA has not been destroyed
  refs,      \* _refCount > 0
  shutdown,  \* _shutdownRequested
  stored,    \* the channel is in the EventChannelStore
  recorded,  \* the log file has a record of the channel
  arrived,   \* history: events in the order the channel accepted them
  queue,     \* SupplierAdmin_i::_queue
  events,    \* the local list of mainLoop()
  sent,      \* what was given to the consumers' queue
  useLocal,  \* ProxyPushConsumer_i::_useLocalQueue
  push,      \* the call of push() under way
  dpc,       \* dpc[d]: where the destroyer is
  left,      \* left[d]: proxies it still has to disconnect
  told       \* clients that were sent a disconnect

transferVars == <<arrived, queue, events, sent, useLocal>>
destroyVars == <<dpc, left, told>>
vars == <<pm, main, alive, refs, shutdown, stored, recorded, transferVars, push, destroyVars>>

Proxies == Connected \cup Unconnected

Init ==
  /\ pm = "holding" /\ main = "insert" /\ alive = TRUE /\ refs = TRUE
  /\ shutdown = FALSE /\ stored = FALSE /\ recorded = FALSE
  /\ arrived = << >> /\ queue = << >> /\ events = << >> /\ sent = << >>
  /\ useLocal = FALSE /\ push = "idle"
  /\ dpc = [d \in Destroyers |-> "idle"]
  /\ left = [d \in Destroyers |-> {}]
  /\ told = {}

Running(d) == dpc[d] \notin {"idle", "returned", "raised"}

(* The EventChannelStore's mutex: delete_all() has it while it destroys.   *)
StoreLocked == \E d \in Destroyers : d = "delete_all" /\ Running(d)

(* Calls under way in the channel's POAs.                                  *)
CallsUnderWay == push # "idle" \/ \E d \in Destroyers : d = "client" /\ Running(d)

Arrive == Len(arrived) + 1

-----------------------------------------------------------------------------
(* ProxyPushConsumer_i::push.  The first event after a transfer goes       *)
(* straight to the consumers, the others wait for the next transfer.       *)
pushStart ==
  /\ push = "idle" /\ pm = "active" /\ alive /\ Len(arrived) < MaxArrivals
  /\ push' = "started"
  /\ UNCHANGED <<pm, main, alive, refs, shutdown, stored, recorded, transferVars, destroyVars>>

pushEvent ==
  /\ push = "started"
  /\ arrived' = Append(arrived, Arrive)
  /\ \/ ~useLocal /\ sent' = Append(sent, Arrive) /\ push' = "flag" /\ UNCHANGED queue
     \/ useLocal /\ queue' = Append(queue, Arrive) /\ push' = "idle" /\ UNCHANGED sent
  /\ UNCHANGED <<pm, main, alive, refs, shutdown, stored, recorded, events, useLocal,
                 destroyVars>>

pushFlag ==
  /\ push = "flag"
  /\ useLocal' = TRUE /\ push' = "idle"
  /\ UNCHANGED <<pm, main, alive, refs, shutdown, stored, recorded, arrived, queue, events,
                 sent, destroyVars>>

-----------------------------------------------------------------------------
(* run_undetached: into the store, into the log file, and the main loop.   *)
insert ==
  /\ main = "insert" /\ ~StoreLocked
  /\ stored' = TRUE /\ main' = "record"
  /\ UNCHANGED <<pm, alive, refs, shutdown, recorded, transferVars, push, destroyVars>>

record ==
  /\ main = "record"
  /\ recorded' = TRUE /\ main' = "activate"
  /\ UNCHANGED <<pm, alive, refs, shutdown, stored, transferVars, push, destroyVars>>

(* POAManager::activate, at the start of the loop and after each transfer. *)
(* AdapterInactive ends the thread.                                        *)
activate ==
  /\ main \in {"activate", "release"}
  /\ IF pm = "inactive" THEN main' = "exited" /\ UNCHANGED pm
     ELSE pm' = "active" /\ main' = (IF main = "activate" THEN "check" ELSE "sleep")
  /\ UNCHANGED <<alive, refs, shutdown, stored, recorded, transferVars, push, destroyVars>>

check ==
  /\ main = "check"
  /\ main' = IF refs /\ ~shutdown THEN "hold" ELSE "erase"
  /\ UNCHANGED <<pm, alive, refs, shutdown, stored, recorded, transferVars, push, destroyVars>>

(* Mutant of hold_requests: AdapterInactive is ignored and tried again.    *)
hold_requestsRetry ==
  /\ main = "hold"
  /\ IF pm = "inactive" THEN UNCHANGED <<main, pm>>
     ELSE pm' = "holding" /\ main' = "holding"
  /\ UNCHANGED <<alive, refs, shutdown, stored, recorded, transferVars, push, destroyVars>>

hold_requests ==
  /\ main = "hold"
  /\ IF pm = "inactive" THEN main' = "exited" /\ UNCHANGED pm
     ELSE pm' = "holding" /\ main' = "holding"
  /\ UNCHANGED <<alive, refs, shutdown, stored, recorded, transferVars, push, destroyVars>>

(* Mutant of held: hold_requests(0) does not wait.                         *)
heldAtOnce ==
  /\ main = "holding"
  /\ main' = IF shutdown THEN "erase" ELSE "collect"
  /\ UNCHANGED <<pm, alive, refs, shutdown, stored, recorded, transferVars, push, destroyVars>>

held ==
  /\ main = "holding" /\ ~CallsUnderWay
  /\ main' = IF shutdown THEN "erase" ELSE "collect"
  /\ UNCHANGED <<pm, alive, refs, shutdown, stored, recorded, transferVars, push, destroyVars>>

(* Mutant of collect: the pulled events come before the queued ones.       *)
collectPulledFirst ==
  /\ main = "collect"
  /\ \E n \in 0 .. MaxPulled :
       LET pulled == [i \in 1 .. n |-> Len(arrived) + i]
       IN  /\ Len(arrived) + n <= MaxArrivals
           /\ arrived' = arrived \o pulled
           /\ events' = pulled \o queue
  /\ useLocal' = FALSE /\ queue' = << >>
  /\ main' = "send"
  /\ UNCHANGED <<pm, alive, refs, shutdown, stored, recorded, sent, push, destroyVars>>

(* SupplierAdmin_i::collect: what the pull suppliers answered, then        *)
(* ProxyPushConsumer_i::trigger() and everything that is queued.           *)
collect ==
  /\ main = "collect"
  /\ \E n \in 0 .. MaxPulled :
       LET pulled == [i \in 1 .. n |-> Len(arrived) + i]
       IN  /\ Len(arrived) + n <= MaxArrivals
           /\ arrived' = arrived \o pulled
           /\ events' = queue \o pulled
  /\ useLocal' = FALSE /\ queue' = << >>
  /\ main' = "send"
  /\ UNCHANGED <<pm, alive, refs, shutdown, stored, recorded, sent, push, destroyVars>>

(* Mutant of send: the events are thrown away.                             *)
sendNothing ==
  /\ main = "send"
  /\ events' = << >>
  /\ main' = "release"
  /\ UNCHANGED <<pm, alive, refs, shutdown, stored, recorded, arrived, queue, sent, useLocal, push,
                 destroyVars>>

(* ConsumerAdmin_i::send.                                                  *)
send ==
  /\ main = "send"
  /\ sent' = sent \o events /\ events' = << >>
  /\ main' = "release"
  /\ UNCHANGED <<pm, alive, refs, shutdown, stored, recorded, arrived, queue, useLocal, push,
                 destroyVars>>

sleep ==
  /\ main = "sleep"
  /\ main' = "check"
  /\ UNCHANGED <<pm, alive, refs, shutdown, stored, recorded, transferVars, push, destroyVars>>

(* After the main loop: out of the store, and if destroy() was called out  *)
(* of the log file; then the POA is destroyed, without waiting for calls.  *)
erase ==
  /\ main = "erase" /\ ~StoreLocked
  /\ stored' = FALSE
  /\ main' = IF shutdown THEN "unrecord" ELSE "exited"
  /\ UNCHANGED <<pm, alive, refs, shutdown, recorded, transferVars, push, destroyVars>>

unrecord ==
  /\ main = "unrecord"
  /\ recorded' = FALSE /\ main' = "destroyPoa"
  /\ UNCHANGED <<pm, alive, refs, shutdown, stored, transferVars, push, destroyVars>>

destroyPoa ==
  /\ main = "destroyPoa"
  /\ alive' = FALSE /\ refs' = FALSE /\ main' = "exited"
  /\ UNCHANGED <<pm, shutdown, stored, recorded, transferVars, push, destroyVars>>

-----------------------------------------------------------------------------
(* destroy() begins: a client's call needs an ACTIVE POAManager;           *)
(* delete_all() takes the store's mutex and finds the channel there.       *)
destroyStart(d) ==
  /\ dpc[d] = "idle"
  /\ \/ d = "client" /\ pm = "active" /\ alive
     \/ d = "delete_all" /\ ~StoreLocked /\ stored
  /\ dpc' = [dpc EXCEPT ![d] = "check"]
  /\ UNCHANGED <<pm, main, alive, refs, shutdown, stored, recorded, transferVars, push,
                 left, told>>

(* OBJECT_NOT_EXIST the second time.                                       *)
destroyCheck(d) ==
  /\ dpc[d] = "check"
  /\ dpc' = [dpc EXCEPT ![d] = IF shutdown THEN "raised" ELSE "state"]
  /\ shutdown' = TRUE
  /\ UNCHANGED <<pm, main, alive, refs, stored, recorded, transferVars, push, left, told>>

(* On to the proxies.  Those without a client may or may not have a        *)
(* servant by now.                                                         *)
toProxies(d) ==
  /\ dpc' = [dpc EXCEPT ![d] = "proxies"]
  /\ \E u \in SUBSET Unconnected : left' = [left EXCEPT ![d] = Connected \cup u]

(* If the POAManager is HOLDING, destroy() activates it, in two steps;     *)
(* AdapterInactive leaves destroy().                                       *)
destroyState(d) ==
  /\ dpc[d] = "state"
  /\ \/ pm = "holding" /\ dpc' = [dpc EXCEPT ![d] = "activate"] /\ UNCHANGED left
     \/ pm # "holding" /\ toProxies(d)
  /\ UNCHANGED <<pm, main, alive, refs, shutdown, stored, recorded, transferVars, push, told>>

destroyActivate(d) ==
  /\ dpc[d] = "activate"
  /\ \/ pm = "inactive" /\ dpc' = [dpc EXCEPT ![d] = "raised"] /\ UNCHANGED <<pm, left>>
     \/ pm # "inactive" /\ pm' = "active" /\ toProxies(d)
  /\ UNCHANGED <<main, alive, refs, shutdown, stored, recorded, transferVars, push, told>>

(* ConsumerAdmin_i::disconnect: one call per proxy, through the proxy's    *)
(* POA.  A proxy without a client raises OBJECT_NOT_EXIST, and so does a   *)
(* POA that is gone; the exception leaves destroy().                       *)
destroyProxy(d, p) ==
  /\ dpc[d] = "proxies" /\ p \in left[d]
  /\ \/ /\ alive /\ pm = "active" /\ p \in Connected
        /\ told' = told \cup {p}
        /\ left' = [left EXCEPT ![d] = @ \ {p}]
        /\ UNCHANGED dpc
     \/ /\ ~alive \/ pm = "inactive" \/ (pm = "active" /\ p \in Unconnected)
        /\ dpc' = [dpc EXCEPT ![d] = "raised"]
        /\ UNCHANGED <<told, left>>
  /\ UNCHANGED <<pm, main, alive, refs, shutdown, stored, recorded, transferVars, push>>

(* SupplierAdmin_i::disconnect: the push suppliers are told directly.      *)
destroySuppliers(d) ==
  /\ dpc[d] = "proxies" /\ left[d] = {}
  /\ told' = told \cup PushSuppliers
  /\ dpc' = [dpc EXCEPT ![d] = "returned"]
  /\ UNCHANGED <<pm, main, alive, refs, shutdown, stored, recorded, transferVars, push, left>>

(* The server shuts its ORB down: the POAManager becomes INACTIVE, calls   *)
(* under way finish, and the POA drops the channel, whose _remove_ref()    *)
(* then joins the channel's thread.                                        *)
ServerShutdown ==
  /\ ServerStops /\ pm # "inactive"
  /\ pm' = "inactive"
  /\ UNCHANGED <<main, alive, refs, shutdown, stored, recorded, transferVars, push, destroyVars>>

_remove_ref ==
  /\ pm = "inactive" /\ alive /\ ~CallsUnderWay
  /\ refs' = FALSE /\ alive' = FALSE
  /\ UNCHANGED <<pm, main, shutdown, stored, recorded, transferVars, push, destroyVars>>

-----------------------------------------------------------------------------
pushCall == pushEvent \/ pushFlag

mainThread ==
  \/ insert \/ record \/ activate \/ check \/ hold_requests \/ held \/ collect \/ send
  \/ sleep \/ erase \/ unrecord \/ destroyPoa

destroy(d) ==
  \/ destroyCheck(d) \/ destroyState(d) \/ destroyActivate(d) \/ destroySuppliers(d)
  \/ \E p \in Proxies : destroyProxy(d, p)

Finished == main = "exited" /\ UNCHANGED vars

Next ==
  \/ pushStart \/ pushCall \/ mainThread
  \/ \E d \in Destroyers : destroyStart(d) \/ destroy(d)
  \/ ServerShutdown \/ _remove_ref
  \/ Finished

Spec == Init /\ [][Next]_vars

(* The channel's thread and every call under way keep running; the store's *)
(* mutex, and the POAManager's gate, let in who waits long enough.  Nobody *)
(* has to push, to call destroy() or to stop the server.                   *)
Fairness ==
  /\ SF_vars(mainThread) /\ WF_vars(pushCall) /\ WF_vars(_remove_ref)
  /\ \A d \in Destroyers : SF_vars(destroy(d))

FairSpec == Spec /\ Fairness

-----------------------------------------------------------------------------
(* Type correctness.                                                       *)
FlagTypes ==
  /\ alive \in BOOLEAN /\ refs \in BOOLEAN /\ shutdown \in BOOLEAN
  /\ stored \in BOOLEAN /\ recorded \in BOOLEAN /\ useLocal \in BOOLEAN

StateTypes ==
  /\ pm \in {"holding", "active", "inactive"}
  /\ main \in {"insert", "record", "activate", "check", "hold", "holding", "collect", "send",
               "release", "sleep", "erase", "unrecord", "destroyPoa", "exited"}
  /\ arrived \in Seq(Nat) /\ queue \in Seq(Nat) /\ events \in Seq(Nat) /\ sent \in Seq(Nat)
  /\ push \in {"idle", "started", "flag"}
  /\ dpc \in [Destroyers -> {"idle", "check", "state", "activate", "proxies", "returned", "raised"}]
  /\ left \in [Destroyers -> SUBSET Proxies]
  /\ told \subseteq Proxies \cup PushSuppliers

TypeOK == FlagTypes /\ StateTypes

(* delete_all() calls destroy() from outside the POAs, where the main loop *)
(* does not wait for it: it may activate the POAManager during a transfer, *)
(* and neither of the next two properties holds from there on.             *)
DeleteAllCalled == \E d \in Destroyers : d = "delete_all" /\ dpc[d] # "idle"

(* No event is lost, doubled or overtaken inside the channel: the real-    *)
(* time path, the list being transferred and the supplier queue together   *)
(* hold the events in exactly the order in which they arrived.             *)
NothingLostOrOvertaken == ~DeleteAllCalled => arrived = sent \o events \o queue

(* "hold all incoming calls while it passes events from the ProxyConsumers *)
(* over to the ProxySuppliers" (EventChannel.h): no call of push() is      *)
(* under way during a transfer.                                            *)
TransferIsExclusive ==
  ~DeleteAllCalled /\ main \in {"collect", "send", "release"} => push = "idle"

(* What a client was able to push reaches the consumers' queue, unless the *)
(* channel is destroyed or the server stops.                               *)
ArrivedIsSent ==
  \A n \in 1 .. MaxArrivals :
    Len(arrived) >= n ~> (Len(sent) >= n \/ shutdown \/ pm = "inactive")

(* _remove_ref's join returns: once the server stops, the channel's thread *)
(* ends whatever it was doing.                                             *)
ThreadEnds == (pm = "inactive") ~> (main = "exited")

(* "Incoming call handlers are all designed to complete in the absolute    *)
(* minimum time" (EventChannel.h): a call of destroy() comes to an end.    *)
DestroyCompletes ==
  \A d \in Destroyers : Running(d) ~> ~Running(d)
=============================================================================
