------------------------- MODULE ProxyPushConsumer -------------------------
(***************************************************************************)
(* The proxies of one channel's push suppliers: one default servant with a *)
(* table of Connection objects, each of which waits for the answer to      *)
(* "_is_a" that tells whether its supplier is a proxy of another channel.  *)
(*                                                                         *)
(* The table is used without a mutex by the thread of its POA (call), by   *)
(* the thread that runs destroy() (destroyer) and by the worker that       *)
(* writes a checkpoint (checkpoint).  A step that uses an entry another    *)
(* thread has removed sets raced: what follows is undefined, so the model  *)
(* ends there.  The thread of Orb::run() is that of module Orb; it also    *)
(* serves the proxies of push consumers, of which this module has what     *)
(* matters to the list: their references and their outstanding push.       *)
(***************************************************************************)
EXTENDS Orb, FiniteSets

CONSTANTS
  NumOids,         \* object ids of the proxies are 1 .. NumOids
  NumConnections,  \* Connection objects in memory at one time
  Proxies,         \* ProxyPushSupplier_i objects
  HasLog,          \* omniEventsLog::exists()
  MaxCalls,        \* bound on the calls of clients
  MaxCrashes       \* bound on the ends of the process

Oids == 1 .. NumOids
Connections == {c \in Callbacks : c \notin Proxies}

\* The object id that a Connection is made for, a constant of the object.
_oidstr(c) == ((c - 1) % NumOids) + 1

ASSUME ProxiesAssumption == Proxies \subseteq Callbacks
ASSUME ConnectionsAssumption == NumConnections \in Nat /\ Connections = 1 .. NumConnections
ASSUME LimitsAssumption == NumOids \in Nat \ {0} /\ MaxCalls \in Nat /\ MaxCrashes \in Nat
ASSUME HasLogAssumption == HasLog \in BOOLEAN

VARIABLES
  _connections,    \* the table: object id to Connection
  active,          \* the ProxyPushSupplier_i that the POA refers to
  call,            \* what the POA's thread does
  destroyer,       \* how far the end of the channel has come
  checkpoint,      \* position and output of a checkpoint, if one is written
  record,          \* what the database says of each object id
  late,            \* history: ids with the record of a connection that is no more
  life,            \* the server process
  todo,            \* object ids still to be reincarnated
  raced,           \* has a thread used an entry that is gone?
  calls, crashes   \* so far

threadVars == <<call, destroyer, checkpoint>>
lifeVars == <<life, todo, raced, calls, crashes>>
ppcVars == <<_connections, active, threadVars, record, late, lifeVars>>
vars == <<orbVars, ppcVars>>

Nothing == [connection |-> Nobody, proxy |-> FALSE]
Records == [connection : Connections \cup {Nobody}, proxy : BOOLEAN]
Idle == [op |-> "idle", oid |-> 0, connection |-> Nobody]
Ops == {"idle", "connectDefer", "connectOutput", "discErase", "discSend", "discOutput"}
Stages == {"no", "loop", "send", "told", "unrecorded", "deleted"}
NoCheckpoint == [at |-> 0, written |-> [o \in Oids |-> Nothing]]

TableTypes ==
  /\ _connections \in [Oids -> Connections \cup {Nobody}]
  /\ active \subseteq Proxies

RecordTypes ==
  /\ checkpoint \in [at : 0 .. NumOids + 1, written : [Oids -> Records]]
  /\ record \in [Oids -> Records]
  /\ late \subseteq Oids

ThreadTypes ==
  /\ call \in [op : Ops, oid : Oids \cup {0}, connection : Connections \cup {Nobody}]
  /\ destroyer \in Stages
  /\ life \in {"up", "starting", "failed"}
  /\ todo \subseteq Oids
  /\ raced \in BOOLEAN
  /\ calls \in 0 .. MaxCalls
  /\ crashes \in 0 .. MaxCrashes

TypeOK == OrbTypeOK /\ TableTypes /\ RecordTypes /\ ThreadTypes

Init ==
  /\ OrbInit
  /\ active = {}
  /\ _connections = [o \in Oids |-> Nobody]
  /\ call = Idle
  /\ destroyer = "no"
  /\ checkpoint = NoCheckpoint
  /\ record = [o \in Oids |-> Nothing]
  /\ life = "up"
  /\ todo = {}
  /\ raced = FALSE
  /\ late = {}
  /\ calls = 0
  /\ crashes = 0

---------------------------------------------------------------------------
\* Who refers to a callback object.
tableRefs(c) == Cardinality({o \in Oids : _connections[o] = c})
holders(c) == registered(c) + tableRefs(c) + (IF c \in active THEN 1 ELSE 0)

\* Memory for a new Connection: an object that nobody refers to.
unused(o) == {c \in Connections : /\ _oidstr(c) = o
                                  /\ refs[c] = 0 /\ holders(c) = 0
                                  /\ call.connection # c
                                  /\ record[o].connection # c
                                  /\ checkpoint.written[o].connection # c}
fresh(o) == CHOOSE c \in unused(o) : \A d \in unused(o) : c <= d

\* A Connection is made, with one reference, and enters the table.
newConnection(o, isProxy) ==
  /\ unused(o) # {}
  /\ _connections' = [_connections EXCEPT ![o] = fresh(o)]
  /\ refs' = [refs EXCEPT ![fresh(o)] = 1]
  /\ _targetIsProxy' = [_targetIsProxy EXCEPT ![fresh(o)] = isProxy]

Running == life = "up" /\ ~raced /\ orb # "gone"
LogFree == checkpoint.at = 0

race ==
  /\ raced' = TRUE
  /\ UNCHANGED <<orbVars, _connections, active, threadVars, record, late, life, todo, calls, crashes>>

\* Connection::output(): the line that a connection writes.
output(c) == [connection |-> c, proxy |-> _targetIsProxy[c]]

\* What WriteLock lets a thread append: a record, or the deletion of one.
append(o, r) ==
  IF HasLog
  THEN LogFree /\ record' = [record EXCEPT ![o] = r]
  ELSE UNCHANGED record

---------------------------------------------------------------------------
\* Calls of clients: the POA has one thread.
StartCall ==
  /\ Running
  /\ call = Idle
  /\ destroyer \notin {"unrecorded", "deleted"}
  /\ calls < MaxCalls
  /\ calls' = calls + 1

\* connect_push_supplier() up to the insertion in the table.
connect_push_supplier(o) ==
  /\ StartCall
  /\ _connections[o] = Nobody
  /\ newConnection(o, FALSE)
  /\ call' = [op |-> "connectDefer", oid |-> o, connection |-> fresh(o)]
  /\ UNCHANGED <<deferred, orphans, _req, runVars, active, destroyer, checkpoint, record, late,
                 life, todo, raced, crashes>>

\* A step of the call under way.
CallStep(from, to) ==
  /\ Running
  /\ call.op = from
  /\ call' = IF to = "idle" THEN Idle ELSE [call EXCEPT !.op = to]
  /\ UNCHANGED <<runVars, active, destroyer, checkpoint, lifeVars>>

\* "_is_a" is sent, and the connection registered for the answer.
connectDefer ==
  /\ CallStep("connectDefer", "connectOutput")
  /\ refs[call.connection] > 0
  /\ deferredRequest(call.connection)
  /\ UNCHANGED <<_connections, record, late>>

\* The connection is recorded.
connectOutput ==
  /\ CallStep("connectOutput", "idle")
  /\ refs[call.connection] > 0
  /\ append(call.oid, output(call.connection))
  /\ late' = late \ {call.oid}
  /\ UNCHANGED <<objVars, _connections>>

\* disconnect_push_consumer() finds the connection.
disconnect_push_consumer(o) ==
  /\ StartCall
  /\ _connections[o] # Nobody
  /\ call' = [op |-> "discErase", oid |-> o, connection |-> _connections[o]]
  /\ UNCHANGED <<orbVars, _connections, active, destroyer, checkpoint, record, late,
                 life, todo, raced, crashes>>

\* The table's reference and the entry go before anything is sent.
discErase ==
  /\ CallStep("discErase", "discSend")
  /\ _connections[call.oid] = call.connection
  /\ _remove_ref(call.connection)
  /\ _connections' = [_connections EXCEPT ![call.oid] = Nobody]
  /\ UNCHANGED <<record, late>>

discSend ==
  /\ CallStep("discSend", "discOutput")
  /\ deferredRequest(Nobody)
  /\ UNCHANGED <<_connections, record, late>>

discOutput ==
  /\ CallStep("discOutput", "idle")
  /\ append(call.oid, Nothing)
  /\ late' = late \ {call.oid}
  /\ UNCHANGED <<objVars, _connections>>

\* destroy() has removed the connection that the call goes on to use.
callRace ==
  /\ Running
  /\ \/ call.op \in {"connectDefer", "connectOutput"} /\ refs[call.connection] = 0
     \/ call.op = "discErase" /\ _connections[call.oid] # call.connection
  /\ race

---------------------------------------------------------------------------
\* Mutant: the answer is remembered, and not recorded.
callbackNoOutput(c, answer) ==
  /\ Running
  /\ collect(c)
  /\ _targetIsProxy' = [_targetIsProxy EXCEPT ![c] =
       IF answer = "unexpected" THEN @ ELSE answer = "true"]
  /\ UNCHANGED <<_connections, active, threadVars, record, late, lifeVars>>

(***************************************************************************)
(* callback(), by the thread of run() with its mutex locked.  Only a       *)
(* supplier that says it is a proxy changes the database.  A Connection    *)
(* that was closed meanwhile is still alive, and records itself again; a   *)
(* proxy that is no longer active cannot name itself, and does not.        *)
(***************************************************************************)
callback(c, answer) ==
  /\ Running
  /\ collect(c)
  /\ _targetIsProxy' = [_targetIsProxy EXCEPT ![c] =
       IF answer = "unexpected" THEN @ ELSE answer = "true"]
  /\ IF c \in Connections /\ answer = "true"
     THEN /\ append(_oidstr(c), [connection |-> c, proxy |-> TRUE])
          /\ late' = IF _connections[_oidstr(c)] # c THEN late \cup {_oidstr(c)} ELSE late
     ELSE UNCHANGED <<record, late>>
  /\ UNCHANGED <<_connections, active, threadVars, lifeVars>>

\* What the client says to "_is_a".
Answers == {"true", "false", "unexpected"}
callbackNext == \E c \in Callbacks, answer \in Answers : callback(c, answer)

OrbStep(A) ==
  /\ life = "up" /\ ~raced
  /\ A
  /\ UNCHANGED ppcVars

---------------------------------------------------------------------------
(***************************************************************************)
(* A ProxyPushSupplier_i as far as the list of requests is concerned:      *)
(* connect_push_consumer() registers it.                                   *)
(***************************************************************************)
connect_push_consumer(p) ==
  /\ Running
  /\ refs[p] = 0
  /\ calls < MaxCalls
  /\ ~OrbLocked
  /\ active' = active \cup {p}
  /\ IF _shutdownRequested
     THEN orphans' = TRUE /\ refs' = [refs EXCEPT ![p] = 1] /\ UNCHANGED deferred
     ELSE /\ deferred' = [deferred EXCEPT ![p] = "waiting"]
          /\ refs' = [refs EXCEPT ![p] = 2]
          /\ UNCHANGED orphans
  /\ calls' = calls + 1
  /\ UNCHANGED <<_req, _targetIsProxy, runVars, _connections, threadVars, record, late,
                 life, todo, raced, crashes>>

\* etherealize() drops the POA's reference, with a push outstanding or not.
etherealize(p, sent) ==
  /\ Running
  /\ p \in active
  /\ active' = active \ {p}
  /\ IF deletes(p)
     THEN /\ sent => ~OrbLocked
          /\ orphans' = (orphans \/ sent)
          /\ _targetIsProxy' = [_targetIsProxy EXCEPT ![p] = FALSE]
          /\ UNCHANGED _req
     ELSE _req' = [_req EXCEPT ![p] = sent] /\ UNCHANGED <<orphans, _targetIsProxy>>
  /\ refs' = [refs EXCEPT ![p] = @ - 1]
  /\ UNCHANGED <<deferred, runVars, _connections, threadVars, record, late, lifeVars>>

---------------------------------------------------------------------------
\* The end of the channel: destroy(), then its thread.
connected == {o \in Oids : _connections[o] # Nobody}
firstAfter(n) ==
  LET later == {o \in connected : o > n}
  IN  IF later = {} THEN NumOids + 1 ELSE CHOOSE o \in later : \A q \in later : o <= q

DestroyStep(from, to) ==
  /\ Running
  /\ destroyer = from
  /\ destroyer' = to
  /\ UNCHANGED <<runVars, active, call, checkpoint, lifeVars>>

destroy ==
  /\ DestroyStep("no", "loop")
  /\ UNCHANGED <<objVars, _connections, record, late>>

\* disconnect(): one connection after the other, nothing is logged.
disconnectErase ==
  /\ DestroyStep("loop", "send")
  /\ connected # {}
  /\ _remove_ref(_connections[firstAfter(0)])
  /\ _connections' = [_connections EXCEPT ![firstAfter(0)] = Nobody]
  /\ UNCHANGED <<record, late>>

disconnectSend ==
  /\ DestroyStep("send", "loop")
  /\ deferredRequest(Nobody)
  /\ UNCHANGED <<_connections, record, late>>

disconnectEnd ==
  /\ DestroyStep("loop", "told")
  /\ connected = {}
  /\ UNCHANGED <<objVars, _connections, record, late>>

\* The channel's thread leaves the store and deletes the channel's record.
unrecord ==
  /\ DestroyStep("told", "unrecorded")
  /\ LogFree
  /\ record' = [o \in Oids |-> Nothing]
  /\ late' = {}
  /\ UNCHANGED <<objVars, _connections>>

\* ~ProxyPushConsumer_i(): connections that were made meanwhile go too.
destructor ==
  /\ DestroyStep("unrecorded", "deleted")
  /\ call = Idle
  /\ refs' = [c \in Callbacks |-> refs[c] - tableRefs(c)]
  /\ _targetIsProxy' = [c \in Callbacks |-> _targetIsProxy[c] /\ refs[c] > tableRefs(c)]
  /\ _connections' = [o \in Oids |-> Nobody]
  /\ UNCHANGED <<deferred, orphans, _req, record, late>>

---------------------------------------------------------------------------
\* The worker's checkpoint: output() walks through the table.
CheckpointStep ==
  /\ Running
  /\ HasLog
  /\ UNCHANGED <<orbVars, _connections, active, call, destroyer, lifeVars>>

outputStart ==
  /\ CheckpointStep
  /\ LogFree
  /\ destroyer \notin {"unrecorded", "deleted"}
  /\ checkpoint' = [NoCheckpoint EXCEPT !.at = firstAfter(0)]
  /\ UNCHANGED <<record, late>>

outputOne ==
  /\ CheckpointStep
  /\ checkpoint.at \in connected
  /\ checkpoint' =
       [at |-> firstAfter(checkpoint.at),
        written |-> [checkpoint.written EXCEPT
                       ![checkpoint.at] = output(_connections[checkpoint.at])]]
  /\ UNCHANGED <<record, late>>

\* The entry that output() has come to is erased by another thread.
outputRace ==
  /\ Running
  /\ checkpoint.at \in Oids \ connected
  /\ race

\* The new file is in place, and the mutex of the log free again.
outputEnd ==
  /\ CheckpointStep
  /\ checkpoint.at = NumOids + 1
  /\ record' = checkpoint.written
  /\ checkpoint' = NoCheckpoint
  /\ late' = {}

---------------------------------------------------------------------------
\* The process ends, by a signal or in good order, and is started again.
restart ==
  /\ life = "up" /\ ~raced
  /\ crashes < MaxCrashes
  /\ crashes' = crashes + 1
  /\ life' = "starting"
  /\ todo' = {o \in Oids : record[o] # Nothing}
  /\ destroyer' = IF destroyer \in {"unrecorded", "deleted"} /\ todo' = {} THEN "deleted" ELSE "no"
  /\ deferred' = [c \in Callbacks |-> "none"]
  /\ orphans' = FALSE /\ used' = {} /\ orb' = "sleep"
  /\ refs' = [c \in Callbacks |-> 0]
  /\ _req' = [c \in Callbacks |-> FALSE]
  /\ _targetIsProxy' = [c \in Callbacks |-> FALSE]
  /\ _shutdownRequested' = FALSE
  /\ _connections' = [o \in Oids |-> Nobody]
  /\ active' = {} /\ call' = Idle /\ checkpoint' = NoCheckpoint
  /\ late' = {}
  /\ UNCHANGED <<record, raced, calls>>

\* The records are read in order.
firstToDo == CHOOSE o \in todo : \A q \in todo : o <= q
ReincarnateStep ==
  /\ life = "starting"
  /\ todo # {}
  /\ todo' = todo \ {firstToDo}
  /\ UNCHANGED <<deferred, orphans, _req, runVars, active, threadVars, raced, calls, crashes>>

(***************************************************************************)
(* reincarnate(): a connection is made for each record.  If the supplier   *)
(* was a proxy it is asked to connect, and that it is connected, not there *)
(* or of the wrong type is ignored.                                        *)
(***************************************************************************)
reincarnate ==
  /\ ReincarnateStep
  /\ newConnection(firstToDo, record[firstToDo].proxy)
  /\ record' = [record EXCEPT ![firstToDo].connection = fresh(firstToDo)]
  /\ UNCHANGED <<life, late>>

\* A reference that does not narrow is left out.
reincarnateBAD_PARAM ==
  /\ ReincarnateStep
  /\ late' = late \cup {firstToDo}
  /\ UNCHANGED <<refs, _targetIsProxy, _connections, record, life>>

\* Any other exception of the proxy's connect_push_consumer() ends the start.
reincarnateRaises ==
  /\ ReincarnateStep
  /\ record[firstToDo].proxy
  /\ life' = "failed"
  /\ UNCHANGED <<refs, _targetIsProxy, _connections, record, late>>

started ==
  /\ life = "starting"
  /\ todo = {}
  /\ life' = "up"
  /\ UNCHANGED <<orbVars, _connections, active, threadVars, record, late, todo, raced, calls, crashes>>

\* The end of a behaviour.
Finished ==
  /\ raced \/ life = "failed" \/ orb \in {"stuck", "gone"}
  /\ UNCHANGED vars

callNext == connectDefer \/ connectOutput \/ discErase \/ discSend \/ discOutput \/ callRace
destroyNext == disconnectErase \/ disconnectSend \/ disconnectEnd \/ unrecord \/ destructor
checkpointNext == outputOne \/ outputRace \/ outputEnd
startNext == reincarnate \/ reincarnateBAD_PARAM \/ reincarnateRaises \/ started

Next ==
  \/ \E o \in Oids : connect_push_supplier(o) \/ disconnect_push_consumer(o)
  \/ callNext
  \/ \E c \in Callbacks : OrbStep(Respond(c)) \/ OrbStep(pollException(c))
  \/ OrbStep(shutdown) \/ OrbStep(pollOrphans) \/ OrbStep(releaseAll)
  \/ OrbStep(run) \/ callbackNext
  \/ \E p \in Proxies : connect_push_consumer(p) \/ \E sent \in BOOLEAN : etherealize(p, sent)
  \/ destroy \/ destroyNext
  \/ outputStart \/ checkpointNext
  \/ restart \/ startNext
  \/ Finished

Spec == Init /\ [][Next]_vars

(***************************************************************************)
(* The threads run.  A thread that waits for the mutex of the list, or for *)
(* that of the log, gets it in the end.  Suppliers need not answer.        *)
(***************************************************************************)
FairSpec ==
  /\ Spec
  /\ WF_vars(OrbStep(run))
  /\ SF_vars(callbackNext)
  /\ SF_vars(callNext)
  /\ WF_vars(checkpointNext)
  /\ SF_vars(destroyNext)
  /\ WF_vars(startNext)

---------------------------------------------------------------------------
(***************************************************************************)
(* References are counted right: run() calls back and releases only        *)
(* objects that exist, whatever the order of answer, disconnect and        *)
(* destroy(), and an object that nobody refers to is deleted.  A call that *)
(* is under way refers to its new connection through the table only.       *)
(***************************************************************************)
CallbacksAlive == ~raced => \A c \in Callbacks : refs[c] = holders(c)

(***************************************************************************)
(* When no call is under way, the database has a record of exactly the     *)
(* connections of the table, with "proxy=1" if the supplier is a proxy, so *)
(* that a restart would bring them back.  The exceptions are the ids whose *)
(* record a late answer wrote, after disconnect_push_consumer(), and those *)
(* that could not be reincarnated, up to the next record or checkpoint.    *)
(***************************************************************************)
Quiet == Running /\ call = Idle /\ LogFree /\ destroyer = "no" /\ HasLog
recorded(o) == IF _connections[o] = Nobody THEN Nothing ELSE output(_connections[o])
ConnectionsRecorded == Quiet => \A o \in Oids \ late : record[o] = recorded(o)

\* The behaviour is past what the liveness properties speak of.
Over == raced \/ life # "up"
leftOver(c) == /\ refs[c] > 0
               /\ tableRefs(c) = 0 /\ c \notin active
               /\ deferred[c] # "waiting"

(***************************************************************************)
(* A closed connection, or a proxy that the POA has let go, is deleted     *)
(* once its supplier or consumer has answered: run() comes round and never *)
(* waits for its own mutex before the server is shut down.                 *)
(***************************************************************************)
LeftoversFreed ==
  (\E c \in Callbacks : leftOver(c))
    ~> ((\A c \in Callbacks : ~leftOver(c)) \/ Over \/ _shutdownRequested)
=============================================================================
