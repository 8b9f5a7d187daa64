----------------------- MODULE ProxyPushConsumerProofs -----------------------
(***************************************************************************)
(* Proofs about ProxyPushConsumer and the Orb that serves it, for every    *)
(* set of callback objects and object ids and any number of calls and      *)
(* restarts.                                                               *)
(*                                                                         *)
(* The argument.  A reference is held by the list of requests, by the      *)
(* callbacks that run() has used and not released yet, by the table and by *)
(* the POA; an object is registered at most once, because a connection is  *)
(* registered when it is new and a proxy when it is made.  The database    *)
(* says what the table says, but for the id that a call is under way for:  *)
(* the call ends with a record, and it cannot end while a checkpoint is    *)
(* written.  A checkpoint agrees with the table in the part that it has    *)
(* passed, because only such a call, or the answer of a supplier that is   *)
(* recorded under the same mutex, could change that part.                  *)
(***************************************************************************)
EXTENDS ProxyPushConsumer, FiniteSetTheorems, WellFoundedInduction, TLAPS

(* A connection is in the table under its own object id.                   *)
TableOK == \A o \in Oids : _connections[o] # Nobody => _oidstr(_connections[o]) = o

(* References are counted right, raced or not.                             *)
hasEntry(c) == \E o \in Oids : _connections[o] = c
Counted(c) ==
  refs[c] = (IF deferred[c] = "none" THEN 0 ELSE 1) + (IF c \in used THEN 1 ELSE 0)
            + (IF hasEntry(c) THEN 1 ELSE 0) + (IF c \in active THEN 1 ELSE 0)
CountOK == \A c \in Callbacks : Counted(c)

(* The list of requests.                                                   *)
OrbOK ==
  /\ \A c \in Callbacks : deferred[c] # "none" => c \notin used
  /\ orb \in {"cleanUp", "stuck", "done", "gone"} => _shutdownRequested
  /\ orb \in {"done", "gone"} => \A c \in Callbacks : deferred[c] = "none"

(* A connection that waits for the answer, or is about to ask, is not      *)
(* known to have a proxy as its supplier.                                  *)
AskOK ==
  /\ \A c \in Connections : deferred[c] # "none" => ~_targetIsProxy[c]
  /\ call.op = "connectDefer" =>
       /\ deferred[call.connection] = "none"
       /\ call.connection \notin used
       /\ ~_targetIsProxy[call.connection]

(* The call under way, and its entry while nobody destroys the channel.    *)
Entered == {"connectDefer", "connectOutput", "discErase"}
Erased == {"discSend", "discOutput"}
CallOK ==
  /\ call.op # "idle" => call.oid \in Oids
  /\ call.op \in Entered => call.connection \in Connections
  /\ destroyer = "no" /\ call.op \in Entered => _connections[call.oid] = call.connection
  /\ destroyer = "no" /\ call.op \in Erased => _connections[call.oid] = Nobody

(* A restart.                                                              *)
StartOK ==
  /\ life = "up" => todo = {}
  /\ life # "up" => call = Idle /\ checkpoint = NoCheckpoint
  /\ \A o \in todo : _connections[o] = Nobody

(* The id that a call is under way for.                                    *)
busy(o) == call.op # "idle" /\ call.oid = o

(* What the database has.                                                  *)
RecordOK ==
  HasLog /\ destroyer = "no" /\ life # "failed" =>
    \A o \in Oids \ (late \cup todo) : busy(o) \/ record[o] = recorded(o)

(* What a checkpoint has written so far.                                   *)
CheckpointOK ==
  HasLog /\ destroyer = "no" /\ checkpoint.at # 0 =>
    \A o \in Oids : busy(o) \/ checkpoint.written[o] = IF o < checkpoint.at THEN recorded(o) ELSE Nothing

(* The inductive invariant.                                                *)
IInv ==
  /\ TypeOK
  /\ TableOK /\ CountOK /\ OrbOK /\ AskOK
  /\ CallOK /\ StartOK
  /\ RecordOK /\ CheckpointOK

-----------------------------------------------------------------------------
(* A set of numbers that is not empty has a smallest one.                  *)
LEMMA SmallestExists ==
  ASSUME NEW S \in SUBSET Nat, S # {}
  PROVE  \E m \in S : \A q \in S : m <= q
<1>1. PICK x \in S : \A y \in S : <<y, x>> \notin OpToRel(<, Nat)
  BY NatLessThanWellFounded, WFMin
<1>2. \A y \in S : ~ (y < x)
  BY <1>1 DEF OpToRel
<1> QED BY <1>2

LEMMA ConstantFacts ==
  /\ NumOids \in Nat /\ Oids \subseteq Nat /\ \A o \in Oids : 1 <= o /\ o <= NumOids
  /\ Connections \subseteq Nat /\ Connections \subseteq Callbacks /\ Connections \cap Proxies = {}
  /\ Proxies \subseteq Callbacks /\ Nobody \notin Callbacks
BY ProxiesAssumption, ConnectionsAssumption, LimitsAssumption, CallbacksAssumption DEF Oids, Connections

(* The memory of a new Connection is nobody's.                             *)
LEMMA FreshFacts ==
  ASSUME OrbListTypes, CountOK, NEW o \in Oids, unused(o) # {}
  PROVE  /\ fresh(o) \in Connections /\ fresh(o) \in Callbacks /\ fresh(o) # Nobody
         /\ fresh(o) \notin Proxies
         /\ _oidstr(fresh(o)) = o
         /\ refs[fresh(o)] = 0 /\ deferred[fresh(o)] = "none" /\ fresh(o) \notin used
         /\ ~hasEntry(fresh(o)) /\ fresh(o) \notin active
         /\ fresh(o) # call.connection
<1>1. unused(o) \in SUBSET Nat
  BY ConstantFacts DEF unused
<1>2. fresh(o) \in unused(o)
  BY <1>1, SmallestExists DEF fresh
<1>3. fresh(o) \in Connections /\ _oidstr(fresh(o)) = o /\ refs[fresh(o)] = 0 /\ fresh(o) # call.connection
  BY <1>2 DEF unused
<1>4. Counted(fresh(o))
  BY <1>3, ConstantFacts DEF CountOK
<1> HIDE DEF fresh
<1>5. deferred[fresh(o)] = "none" /\ fresh(o) \notin used /\ ~hasEntry(fresh(o)) /\ fresh(o) \notin active
  BY <1>3, <1>4 DEF Counted
<1> QED BY <1>3, <1>5, ConstantFacts

LEMMA FirstAfterFacts ==
  ASSUME NEW n \in Nat
  PROVE  /\ firstAfter(n) \in connected \/ firstAfter(n) = NumOids + 1
         /\ n <= NumOids => firstAfter(n) > n
         /\ \A o \in connected : o > n => firstAfter(n) <= o
         /\ firstAfter(n) \in 1 .. NumOids + 1
<1> DEFINE later == {o \in connected : o > n}
<1>1. later \in SUBSET Nat /\ connected \subseteq Oids
  BY ConstantFacts DEF connected
<1>2. CASE later = {}
  <2>1. firstAfter(n) = NumOids + 1
    BY <1>2 DEF firstAfter
  <2> QED BY <1>1, <1>2, <2>1, ConstantFacts
<1>3. CASE later # {}
  <2>1. \E m \in later : \A q \in later : m <= q
    BY <1>1, <1>3, SmallestExists
  <2>2. firstAfter(n) = CHOOSE o \in later : \A q \in later : o <= q
    BY <1>3 DEF firstAfter
  <2>3. firstAfter(n) \in later /\ \A q \in later : firstAfter(n) <= q
    BY <2>1, <2>2
  <2>4. firstAfter(n) \in connected /\ firstAfter(n) > n
    BY <2>3
  <2>5. firstAfter(n) \in 1 .. NumOids + 1
    BY <1>1, <2>4, ConstantFacts
  <2> HIDE DEF later
  <2> QED BY <1>1, <2>3, <2>4, <2>5 DEF later
<1> QED BY <1>2, <1>3

LEMMA FirstToDoFacts ==
  ASSUME todo \subseteq Oids, todo # {}
  PROVE  firstToDo \in todo
<1>1. todo \in SUBSET Nat
  BY ConstantFacts
<1> QED BY <1>1, SmallestExists DEF firstToDo

(* A connection is in the table at most once.                              *)
LEMMA TableCount ==
  ASSUME TableOK, NEW c \in Callbacks
  PROVE  tableRefs(c) = IF hasEntry(c) THEN 1 ELSE 0
<1>1. CASE hasEntry(c)
  <2>1. PICK o \in Oids : _connections[o] = c
    BY <1>1 DEF hasEntry
  <2>2. {q \in Oids : _connections[q] = c} = {o}
    BY <2>1, ConstantFacts DEF TableOK
  <2> QED BY <1>1, <2>2, FS_Singleton DEF tableRefs
<1>2. CASE ~hasEntry(c)
  <2>1. {q \in Oids : _connections[q] = c} = {}
    BY <1>2 DEF hasEntry
  <2> QED BY <1>2, <2>1, FS_EmptySet DEF tableRefs
<1> QED BY <1>1, <1>2

-----------------------------------------------------------------------------
(* Steps that leave the table, the list and the objects alone.             *)
Calm ==
  \/ \E o \in Oids : disconnect_push_consumer(o)
  \/ connectOutput \/ discSend \/ discOutput \/ callRace
  \/ OrbStep(shutdown) \/ OrbStep(pollOrphans)
  \/ OrbStep(wake) \/ OrbStep(pollEnd) \/ OrbStep(releaseEnd) \/ OrbStep(cleanUpEnd)
  \/ destroy \/ disconnectSend \/ disconnectEnd \/ unrecord
  \/ outputStart \/ outputOne \/ outputRace \/ outputEnd
  \/ reincarnateBAD_PARAM \/ reincarnateRaises \/ started
  \/ UNCHANGED vars

objects == <<deferred, refs, _req, _targetIsProxy, used, _connections, active>>

LEMMA CalmFrame == Calm => UNCHANGED objects
<1> USE DEF objects
<1>1. CASE \E o \in Oids : disconnect_push_consumer(o)
  BY <1>1 DEF disconnect_push_consumer, orbVars, objVars, runVars
<1>2. CASE connectOutput \/ discSend \/ discOutput
  BY <1>2 DEF connectOutput, discSend, discOutput, CallStep, deferredRequest, objVars, runVars
<1>3. CASE callRace \/ outputRace
  BY <1>3 DEF callRace, outputRace, race, orbVars, objVars, runVars
<1>4. CASE OrbStep(shutdown) \/ OrbStep(pollOrphans) \/ OrbStep(wake)
           \/ OrbStep(pollEnd) \/ OrbStep(releaseEnd) \/ OrbStep(cleanUpEnd)
  BY <1>4 DEF OrbStep, shutdown, pollOrphans, wake, pollEnd, releaseEnd, cleanUpEnd, ppcVars,
              objVars, runVars
<1>5. CASE destroy \/ disconnectSend \/ disconnectEnd \/ unrecord
  BY <1>5 DEF destroy, disconnectSend, disconnectEnd, unrecord, DestroyStep, deferredRequest,
              objVars, runVars
<1>6. CASE outputStart \/ outputOne \/ outputEnd
  BY <1>6 DEF outputStart, outputOne, outputEnd, CheckpointStep, orbVars, objVars, runVars
<1>7. CASE reincarnateBAD_PARAM \/ reincarnateRaises \/ started
  BY <1>7 DEF reincarnateBAD_PARAM, reincarnateRaises, started, ReincarnateStep, orbVars, objVars, runVars
<1>8. CASE UNCHANGED vars
  BY <1>8 DEF vars, orbVars, objVars, runVars, ppcVars
<1> QED BY <1>1, <1>2, <1>3, <1>4, <1>5, <1>6, <1>7, <1>8 DEF Calm

LEMMA Steps ==
  ASSUME [Next]_vars
  PROVE  \/ Calm
         \/ \E o \in Oids : connect_push_supplier(o)
         \/ connectDefer \/ discErase \/ disconnectErase \/ destructor
         \/ \E c \in Callbacks, answer \in Answers : callback(c, answer)
         \/ \E c \in Callbacks : OrbStep(pollException(c)) \/ OrbStep(Respond(c))
                                 \/ OrbStep(release(c)) \/ OrbStep(cleanUp(c))
         \/ OrbStep(releaseAll)
         \/ \E p \in Proxies : connect_push_consumer(p)
         \/ \E p \in Proxies, sent \in BOOLEAN : etherealize(p, sent)
         \/ restart \/ reincarnate
BY DEF Next, Calm, callNext, destroyNext, checkpointNext, startNext, callbackNext, Finished, OrbStep, run

(* A new server satisfies the invariant.                                   *)
LEMMA InitIInv == Init => IInv
<1> SUFFICES ASSUME Init PROVE IInv
  OBVIOUS
<1> USE ConstantFacts, LimitsAssumption DEF Init
<1>1. OrbFlagTypes /\ OrbListTypes
  BY DEF OrbFlagTypes, OrbListTypes, OrbInit
<1>2. TableTypes
  BY DEF TableTypes
<1>3. Nothing \in Records
  BY DEF Nothing, Records
<1>4. RecordTypes
  BY <1>3 DEF RecordTypes, NoCheckpoint
<1>5. ThreadTypes
  <2>1. call \in [op : Ops, oid : Oids \cup {0}, connection : Connections \cup {Nobody}]
    BY DEF Ops, Idle
  <2>2. calls \in 0 .. MaxCalls /\ crashes \in 0 .. MaxCrashes
    OBVIOUS
  <2> QED BY <2>1, <2>2, Zenon DEF ThreadTypes, Stages
<1>6. TableOK /\ CountOK /\ OrbOK
  BY DEF TableOK, CountOK, Counted, hasEntry, OrbOK, OrbInit
<1>7. AskOK /\ CallOK /\ StartOK
  BY DEF AskOK, CallOK, StartOK, Idle, OrbInit, Entered, Erased
<1>8. RecordOK /\ CheckpointOK
  BY DEF RecordOK, CheckpointOK, recorded, NoCheckpoint
<1> QED BY <1>1, <1>2, <1>4, <1>5, <1>6, <1>7, <1>8 DEF IInv, TypeOK, OrbTypeOK

-----------------------------------------------------------------------------
(* Types.                                                                  *)
LEMMA FlagTypesStep ==
  ASSUME OrbFlagTypes, RecordTypes, ThreadTypes, [Next]_vars
  PROVE  OrbFlagTypes'
<1> USE DEF OrbFlagTypes
<1>1. CASE Calm
  <2>1. orphans' \in BOOLEAN /\ _shutdownRequested' \in BOOLEAN
    <3>1. CASE \/ \E o \in Oids : disconnect_push_consumer(o)
               \/ connectOutput \/ discSend \/ discOutput \/ callRace \/ outputRace
      BY <3>1 DEF disconnect_push_consumer, connectOutput, discSend, discOutput, CallStep, deferredRequest,
                  callRace, outputRace, race, orbVars, objVars, runVars
    <3>2. CASE OrbStep(shutdown) \/ OrbStep(pollOrphans) \/ OrbStep(wake)
               \/ OrbStep(pollEnd) \/ OrbStep(releaseEnd) \/ OrbStep(cleanUpEnd)
      BY <3>2 DEF OrbStep, shutdown, pollOrphans, wake, pollEnd, releaseEnd, cleanUpEnd, objVars, runVars
    <3>3. CASE destroy \/ disconnectSend \/ disconnectEnd \/ unrecord
      BY <3>3 DEF destroy, disconnectSend, disconnectEnd, unrecord, DestroyStep, deferredRequest,
                  objVars, runVars
    <3>4. CASE outputStart \/ outputOne \/ outputEnd
      BY <3>4 DEF outputStart, outputOne, outputEnd, CheckpointStep, orbVars, objVars, runVars
    <3>5. CASE reincarnateBAD_PARAM \/ reincarnateRaises \/ started
      BY <3>5 DEF reincarnateBAD_PARAM, reincarnateRaises, started, ReincarnateStep, orbVars, objVars, runVars
    <3>6. CASE UNCHANGED vars
      BY <3>6 DEF vars, orbVars, objVars, runVars
    <3> QED BY <1>1, <3>1, <3>2, <3>3, <3>4, <3>5, <3>6 DEF Calm
  <2> QED BY <1>1, <2>1, CalmFrame DEF objects
<1>2. ASSUME NEW o \in Oids, connect_push_supplier(o)
      PROVE  OrbFlagTypes'
  BY <1>2 DEF connect_push_supplier, newConnection, runVars
<1>3. CASE connectDefer
  BY <1>3 DEF connectDefer, CallStep, deferredRequest, runVars
<1>4. CASE discErase
  BY <1>4 DEF discErase, CallStep, _remove_ref, needsLock, runVars
<1>5. CASE disconnectErase
  BY <1>5 DEF disconnectErase, DestroyStep, _remove_ref, needsLock, runVars
<1>6. CASE destructor
  BY <1>6 DEF destructor, DestroyStep, runVars
<1>7. ASSUME NEW c \in Callbacks, NEW answer \in Answers, callback(c, answer)
      PROVE  OrbFlagTypes'
  BY <1>7 DEF callback, collect
<1>8. ASSUME NEW c \in Callbacks, OrbStep(pollException(c)) \/ OrbStep(Respond(c))
      PROVE  OrbFlagTypes'
  BY <1>8 DEF OrbStep, pollException, collect, Respond, runVars
<1>9. ASSUME NEW c \in Callbacks, OrbStep(release(c)) \/ OrbStep(cleanUp(c))
      PROVE  OrbFlagTypes'
  BY <1>9 DEF OrbStep, release, _remove_ref, needsLock, cleanUp
<1>10. CASE OrbStep(releaseAll)
  BY <1>10 DEF OrbStep, releaseAll
<1>11. ASSUME NEW p \in Proxies, connect_push_consumer(p)
       PROVE  OrbFlagTypes'
  BY <1>11 DEF connect_push_consumer, runVars
<1>12. ASSUME NEW p \in Proxies, NEW sent \in BOOLEAN, etherealize(p, sent)
       PROVE  OrbFlagTypes'
  BY <1>12 DEF etherealize, runVars
<1>13. CASE restart
  BY <1>13 DEF restart
<1>14. CASE reincarnate
  <2>1. firstToDo \in Oids
    BY <1>14, FirstToDoFacts DEF reincarnate, ReincarnateStep, ThreadTypes
  <2>2. record[firstToDo].proxy \in BOOLEAN
    BY <2>1 DEF RecordTypes, Records
  <2> QED BY <1>14, <2>2 DEF reincarnate, ReincarnateStep, newConnection, runVars
<1> QED BY <1>1, <1>2, <1>3, <1>4, <1>5, <1>6, <1>7, <1>8, <1>9, <1>10, <1>11, <1>12, <1>13, <1>14, Steps

-----------------------------------------------------------------------------
(* References.                                                             *)
References == OrbListTypes /\ TableTypes /\ TableOK /\ CountOK

LEMMA ReferencesFrame ==
  ASSUME References, UNCHANGED <<deferred, refs, used, _connections, active>>,
         orb' \in {"sleep", "poll", "release", "cleanUp", "stuck", "done", "gone"}
  PROVE  References'
BY DEF References, OrbListTypes, TableTypes, TableOK, CountOK, Counted, hasEntry

(* A new Connection enters the table with one reference.                   *)
LEMMA NewReferences ==
  ASSUME References, NEW o \in Oids, NEW isProxy, newConnection(o, isProxy), _connections[o] = Nobody,
         UNCHANGED <<deferred, used, active, orb>>
  PROVE  References'
<1>1. PICK c : c = fresh(o)
  OBVIOUS
<1> HIDE DEF fresh
<1>2. /\ c \in Connections /\ c \in Callbacks /\ c # Nobody /\ _oidstr(c) = o
      /\ refs[c] = 0 /\ deferred[c] = "none" /\ c \notin used /\ ~hasEntry(c) /\ c \notin active
  BY <1>1, FreshFacts DEF References, newConnection
<1>3. _connections' = [_connections EXCEPT ![o] = c] /\ refs' = [refs EXCEPT ![c] = 1]
  BY <1>1 DEF newConnection
<1>4. TableTypes' /\ TableOK'
  BY <1>2, <1>3 DEF References, TableTypes, TableOK
<1>5. OrbListTypes'
  BY <1>2, <1>3 DEF References, OrbListTypes
<1>6. hasEntry(c)' /\ \A d \in Callbacks : d # c => (hasEntry(d)' <=> hasEntry(d))
  BY <1>2, <1>3, ConstantFacts DEF References, TableTypes, hasEntry
<1>7. ASSUME NEW d \in Callbacks
      PROVE  Counted(d)'
  <2>1. CASE d = c
    BY <1>2, <1>3, <1>6, <2>1 DEF References, OrbListTypes, Counted
  <2>2. CASE d # c
    BY <1>2, <1>3, <1>6, <1>7, <2>2 DEF References, OrbListTypes, CountOK, Counted
  <2> QED BY <2>1, <2>2
<1> QED BY <1>4, <1>5, <1>7 DEF References, CountOK

(* A Connection leaves the table, which drops its reference.               *)
LEMMA EraseReferences ==
  ASSUME References, NEW o \in Oids, NEW c, _connections[o] = c, c # Nobody, _remove_ref(c),
         _connections' = [_connections EXCEPT ![o] = Nobody],
         UNCHANGED <<used, active, orb>>
  PROVE  References'
<1>1. c \in Connections /\ c \in Callbacks /\ hasEntry(c)
  BY ConstantFacts DEF References, TableTypes, hasEntry
<1>2. Counted(c) /\ refs[c] \in Nat
  BY <1>1 DEF References, CountOK, OrbListTypes
<1>3. refs[c] - 1 \in Nat
  BY <1>1, <1>2 DEF Counted
<1>4. deferred' = deferred /\ refs' = [refs EXCEPT ![c] = refs[c] - 1]
  BY DEF _remove_ref
<1>5. OrbListTypes'
  BY <1>1, <1>3, <1>4 DEF References, OrbListTypes
<1>6. TableTypes' /\ TableOK'
  BY ConstantFacts DEF References, TableTypes, TableOK
<1>7. ~hasEntry(c)' /\ \A d \in Callbacks : d # c => (hasEntry(d)' <=> hasEntry(d))
  BY <1>1, ConstantFacts DEF References, TableTypes, TableOK, hasEntry
<1>8. ASSUME NEW d \in Callbacks
      PROVE  Counted(d)'
  <2>1. CASE d = c
    BY <1>1, <1>2, <1>4, <1>7, <2>1 DEF References, OrbListTypes, Counted
  <2>2. CASE d # c
    BY <1>1, <1>4, <1>7, <1>8, <2>2 DEF References, OrbListTypes, CountOK, Counted
  <2> QED BY <2>1, <2>2
<1> QED BY <1>5, <1>6, <1>8 DEF References, CountOK

(* The list or the POA takes, keeps or drops a reference of c.             *)
LEMMA ListReferences ==
  ASSUME References, NEW c \in Callbacks, UNCHANGED _connections,
         refs' = [refs EXCEPT ![c] = refs'[c]], refs'[c] \in Nat, Counted(c)',
         deferred' \in [Callbacks -> {"none", "waiting", "answered"}],
         used' \subseteq Callbacks, active' \subseteq Proxies,
         \A d \in Callbacks : d # c =>
           deferred'[d] = deferred[d] /\ (d \in used' <=> d \in used) /\ (d \in active' <=> d \in active),
         orb' \in {"sleep", "poll", "release", "cleanUp", "stuck", "done", "gone"}
  PROVE  References'
<1>1. TableTypes' /\ TableOK'
  BY DEF References, TableTypes, TableOK
<1>2. OrbListTypes'
  BY DEF References, OrbListTypes
<1>3. ASSUME NEW d \in Callbacks
      PROVE  Counted(d)'
  <2>1. CASE d = c
    BY <2>1
  <2>2. CASE d # c
    <3>1. refs'[d] = refs[d] /\ (hasEntry(d)' <=> hasEntry(d))
      BY <2>2 DEF References, OrbListTypes, hasEntry
    <3> QED BY <2>2, <3>1 DEF References, CountOK, Counted
  <2> QED BY <2>1, <2>2
<1> QED BY <1>1, <1>2, <1>3 DEF References, CountOK

LEMMA ReferencesStep ==
  ASSUME References, OrbOK, AskOK, CallOK, StartOK, ThreadTypes, [Next]_vars
  PROVE  References'
<1> USE ConstantFacts
<1>1. CASE Calm
  <2>1. orb' \in {"sleep", "poll", "release", "cleanUp", "stuck", "done", "gone"}
    <3>1. CASE \/ \E o \in Oids : disconnect_push_consumer(o)
               \/ connectOutput \/ discSend \/ discOutput \/ callRace \/ outputRace
      BY <3>1 DEF disconnect_push_consumer, connectOutput, discSend, discOutput, CallStep, deferredRequest,
                  callRace, outputRace, race, orbVars, runVars, References, OrbListTypes
    <3>2. CASE OrbStep(shutdown) \/ OrbStep(pollOrphans) \/ OrbStep(wake)
               \/ OrbStep(pollEnd) \/ OrbStep(releaseEnd) \/ OrbStep(cleanUpEnd)
      BY <3>2 DEF OrbStep, shutdown, pollOrphans, wake, pollEnd, releaseEnd, cleanUpEnd, runVars,
                  References, OrbListTypes
    <3>3. CASE destroy \/ disconnectSend \/ disconnectEnd \/ unrecord
      BY <3>3 DEF destroy, disconnectSend, disconnectEnd, unrecord, DestroyStep, runVars,
                  References, OrbListTypes
    <3>4. CASE outputStart \/ outputOne \/ outputEnd
      BY <3>4 DEF outputStart, outputOne, outputEnd, CheckpointStep, orbVars, runVars, References, OrbListTypes
    <3>5. CASE reincarnateBAD_PARAM \/ reincarnateRaises \/ started \/ UNCHANGED vars
      BY <3>5 DEF reincarnateBAD_PARAM, reincarnateRaises, started, ReincarnateStep, vars, orbVars, runVars,
                  References, OrbListTypes
    <3> QED BY <1>1, <3>1, <3>2, <3>3, <3>4, <3>5 DEF Calm
  <2> QED BY <1>1, <2>1, CalmFrame, ReferencesFrame DEF objects
<1>2. ASSUME NEW o \in Oids, connect_push_supplier(o)
      PROVE  References'
  BY <1>2, NewReferences DEF connect_push_supplier, runVars
<1>3. CASE connectDefer
  <2>1. PICK c \in Callbacks : c = call.connection
    BY <1>3 DEF connectDefer, CallStep, CallOK, Entered
  <2>2. deferred[c] = "none" /\ c \notin used /\ Counted(c) /\ refs[c] \in Nat
    BY <1>3, <2>1 DEF connectDefer, CallStep, AskOK, References, CountOK, OrbListTypes
  <2>3. UNCHANGED <<_connections, used, active, orb>>
    BY <1>3 DEF connectDefer, CallStep, runVars
  <2>4. CASE _shutdownRequested
    <3>1. UNCHANGED <<deferred, refs>>
      BY <1>3, <2>1, <2>4 DEF connectDefer, deferredRequest
    <3> QED BY <2>3, <3>1, ReferencesFrame DEF References, OrbListTypes
  <2>5. CASE ~_shutdownRequested
    <3>1. deferred' = [deferred EXCEPT ![c] = "waiting"] /\ refs' = [refs EXCEPT ![c] = refs[c] + 1]
      BY <1>3, <2>1, <2>5 DEF connectDefer, deferredRequest
    <3>2. Counted(c)' /\ refs'[c] = refs[c] + 1
      BY <2>2, <2>3, <3>1 DEF Counted, hasEntry, References, OrbListTypes
    <3>3. refs'[c] \in Nat /\ refs' = [refs EXCEPT ![c] = refs'[c]]
      BY <2>2, <3>1, <3>2 DEF References, OrbListTypes
    <3>4. deferred' \in [Callbacks -> {"none", "waiting", "answered"}]
      BY <3>1 DEF References, OrbListTypes
    <3>5. \A d \in Callbacks : d # c =>
            deferred'[d] = deferred[d] /\ (d \in used' <=> d \in used) /\ (d \in active' <=> d \in active)
      BY <2>3, <3>1 DEF References, OrbListTypes
    <3> QED BY <2>3, <3>2, <3>3, <3>4, <3>5, ListReferences DEF References, OrbListTypes, TableTypes
  <2> QED BY <2>4, <2>5
<1>4. CASE discErase
  <2>1. call.oid \in Oids /\ _connections[call.oid] = call.connection /\ call.connection # Nobody
    BY <1>4 DEF discErase, CallStep, CallOK, Entered
  <2> QED BY <1>4, <2>1, EraseReferences DEF discErase, CallStep, runVars
<1>5. CASE disconnectErase
  <2>1. firstAfter(0) \in connected
    <3>1. PICK o \in connected : TRUE
      BY <1>5 DEF disconnectErase
    <3>2. o \in Nat /\ 0 < o /\ o <= NumOids
      BY <3>1 DEF connected
    <3> QED BY <3>1, <3>2, FirstAfterFacts
  <2>2. PICK o \in Oids : o = firstAfter(0) /\ _connections[o] # Nobody
    BY <2>1 DEF connected
  <2> QED BY <1>5, <2>2, EraseReferences DEF disconnectErase, DestroyStep, runVars
<1>6. CASE destructor
  <2>1. \A c \in Callbacks : refs'[c] = refs[c] - (IF hasEntry(c) THEN 1 ELSE 0)
    BY <1>6, TableCount DEF destructor, References
  <2>2. refs' = [c \in Callbacks |-> refs[c] - tableRefs(c)]
    BY <1>6 DEF destructor
  <2>3. UNCHANGED <<deferred, used, active, orb>> /\ _connections' = [o \in Oids |-> Nobody]
    BY <1>6 DEF destructor, DestroyStep, runVars
  <2>4. \A c \in Callbacks : refs'[c] \in Nat /\ Counted(c)'
    BY <2>1, <2>3 DEF References, CountOK, Counted, hasEntry
  <2>5. OrbListTypes'
    BY <2>2, <2>3, <2>4 DEF References, OrbListTypes
  <2>6. TableTypes' /\ TableOK'
    BY <2>3 DEF References, TableTypes, TableOK
  <2> QED BY <2>4, <2>5, <2>6 DEF References, CountOK
<1>7. ASSUME NEW c \in Callbacks, orb = "poll", collect(c), UNCHANGED <<_connections, active>>
      PROVE  References'
  <2>1. /\ deferred[c] = "answered" /\ deferred' = [deferred EXCEPT ![c] = "none"]
        /\ used' = used \cup {c} /\ UNCHANGED <<orb, refs>>
    BY <1>7 DEF collect
  <2>2. c \notin used /\ Counted(c)
    BY <2>1 DEF OrbOK, References, CountOK
  <2>3. Counted(c)'
    BY <1>7, <2>1, <2>2 DEF Counted, hasEntry, References, OrbListTypes
  <2> QED BY <1>7, <2>1, <2>3, ListReferences DEF References, OrbListTypes, TableTypes
<1>8. ASSUME NEW c \in Callbacks, NEW answer \in Answers, callback(c, answer)
      PROVE  References'
  BY <1>7, <1>8 DEF callback, collect
<1>9. ASSUME NEW c \in Callbacks, OrbStep(pollException(c))
      PROVE  References'
  BY <1>7, <1>9 DEF OrbStep, pollException, collect, ppcVars
<1>10. ASSUME NEW c \in Callbacks, OrbStep(Respond(c))
       PROVE  References'
  <2>1. /\ deferred[c] = "waiting" /\ deferred' = [deferred EXCEPT ![c] = "answered"]
        /\ UNCHANGED <<_connections, active, used, orb, refs>>
    BY <1>10 DEF OrbStep, Respond, runVars, ppcVars
  <2>2. Counted(c)'
    BY <2>1 DEF Counted, hasEntry, References, OrbListTypes, CountOK
  <2> QED BY <2>1, <2>2, ListReferences DEF References, OrbListTypes, TableTypes
<1>11. ASSUME NEW c \in Callbacks, OrbStep(release(c))
       PROVE  References'
  <2>1. /\ c \in used /\ used' = used \ {c} /\ refs' = [refs EXCEPT ![c] = refs[c] - 1]
        /\ UNCHANGED <<_connections, active, deferred, orb>>
    BY <1>11 DEF OrbStep, release, _remove_ref, ppcVars
  <2>2. Counted(c) /\ refs[c] \in Nat
    BY DEF References, CountOK, OrbListTypes
  <2>3. refs'[c] \in Nat /\ Counted(c)'
    BY <2>1, <2>2 DEF Counted, hasEntry, References, OrbListTypes
  <2> QED BY <2>1, <2>3, ListReferences DEF References, OrbListTypes, TableTypes
<1>12. ASSUME NEW c \in Callbacks, OrbStep(cleanUp(c))
       PROVE  References'
  <2>1. UNCHANGED <<_connections, active, used>> /\ deferred[c] = "answered" /\ orb' \in {orb, "stuck"}
    BY <1>12 DEF OrbStep, cleanUp, ppcVars
  <2>2. CASE UNCHANGED <<deferred, refs>>
    BY <2>1, <2>2, ReferencesFrame DEF References, OrbListTypes
  <2>3. CASE deferred' = [deferred EXCEPT ![c] = "none"] /\ refs' = [refs EXCEPT ![c] = refs[c] - 1]
    <3>1. Counted(c) /\ refs[c] \in Nat
      BY DEF References, CountOK, OrbListTypes
    <3>2. refs'[c] \in Nat /\ Counted(c)'
      BY <2>1, <2>3, <3>1 DEF Counted, hasEntry, References, OrbListTypes
    <3> QED BY <2>1, <2>3, <3>2, ListReferences DEF References, OrbListTypes, TableTypes
  <2> QED BY <1>12, <2>2, <2>3 DEF OrbStep, cleanUp
<1>13. CASE OrbStep(releaseAll)
  <2>1. deferred = [c \in Callbacks |-> "none"]
    BY <1>13 DEF OrbStep, releaseAll, OrbOK, References, OrbListTypes
  <2> QED BY <1>13, <2>1, ReferencesFrame DEF OrbStep, releaseAll, ppcVars
<1>14. ASSUME NEW p \in Proxies, connect_push_consumer(p)
       PROVE  References'
  <2>1. /\ refs[p] = 0 /\ active' = active \cup {p} /\ UNCHANGED <<_connections, used, orb>>
        /\ \/ UNCHANGED deferred /\ refs' = [refs EXCEPT ![p] = 1]
           \/ deferred' = [deferred EXCEPT ![p] = "waiting"] /\ refs' = [refs EXCEPT ![p] = 2]
    BY <1>14 DEF connect_push_consumer, runVars
  <2>2. Counted(p) /\ p \in Callbacks /\ refs[p] = 0
    BY <2>1 DEF References, CountOK
  <2>3. deferred[p] = "none" /\ p \notin used /\ ~hasEntry(p) /\ p \notin active
    BY <2>2 DEF Counted
  <2>4. refs'[p] \in Nat /\ Counted(p)'
    BY <2>1, <2>2, <2>3 DEF Counted, hasEntry, References, OrbListTypes
  <2>5. deferred' \in [Callbacks -> {"none", "waiting", "answered"}] /\ refs' = [refs EXCEPT ![p] = refs'[p]]
    BY <2>1, <2>2 DEF References, OrbListTypes
  <2>6. \A d \in Callbacks : d # p =>
           deferred'[d] = deferred[d] /\ (d \in used' <=> d \in used) /\ (d \in active' <=> d \in active)
    BY <2>1 DEF References, OrbListTypes
  <2> QED BY <2>1, <2>2, <2>4, <2>5, <2>6, ListReferences DEF References, OrbListTypes, TableTypes
<1>15. ASSUME NEW p \in Proxies, NEW sent \in BOOLEAN, etherealize(p, sent)
       PROVE  References'
  <2>1. /\ p \in active /\ active' = active \ {p} /\ refs' = [refs EXCEPT ![p] = refs[p] - 1]
        /\ UNCHANGED <<_connections, used, orb, deferred>>
    BY <1>15 DEF etherealize, runVars
  <2>2. Counted(p) /\ refs[p] \in Nat /\ p \in Callbacks
    BY DEF References, CountOK, OrbListTypes
  <2>3. refs'[p] \in Nat /\ Counted(p)'
    BY <2>1, <2>2 DEF Counted, hasEntry, References, OrbListTypes
  <2> QED BY <2>1, <2>2, <2>3, ListReferences DEF References, OrbListTypes, TableTypes
<1>16. CASE restart
  <2>1. /\ deferred' = [c \in Callbacks |-> "none"] /\ refs' = [c \in Callbacks |-> 0]
        /\ used' = {} /\ active' = {} /\ orb' = "sleep" /\ _connections' = [o \in Oids |-> Nobody]
    BY <1>16 DEF restart
  <2> QED BY <2>1 DEF References, OrbListTypes, TableTypes, TableOK, CountOK, Counted, hasEntry
<1>17. CASE reincarnate
  <2>1. firstToDo \in todo /\ firstToDo \in Oids
    BY <1>17, FirstToDoFacts DEF reincarnate, ReincarnateStep, ThreadTypes
  <2>2. _connections[firstToDo] = Nobody
    BY <2>1 DEF StartOK
  <2> QED BY <1>17, <2>1, <2>2, NewReferences DEF reincarnate, ReincarnateStep, runVars
<1> QED BY <1>1, <1>2, <1>3, <1>4, <1>5, <1>6, <1>8, <1>9, <1>10, <1>11, <1>12, <1>13, <1>14,
           <1>15, <1>16, <1>17, Steps

-----------------------------------------------------------------------------
(* The list of requests.                                                   *)
LEMMA OrbStepOK ==
  ASSUME References, OrbOK, AskOK, CallOK, ThreadTypes, [Next]_vars
  PROVE  OrbOK'
<1> USE ConstantFacts DEF References, OrbListTypes, OrbOK
<1>1. CASE UNCHANGED <<deferred, used, orb, _shutdownRequested>>
  BY <1>1
<1>2. CASE Calm
  <2>1. CASE \/ \E o \in Oids : disconnect_push_consumer(o)
             \/ connectOutput \/ discSend \/ discOutput \/ callRace \/ outputRace
    BY <1>1, <2>1 DEF disconnect_push_consumer, connectOutput, discSend, discOutput, CallStep, deferredRequest,
                callRace, outputRace, race, orbVars, objVars, runVars
  <2>2. CASE OrbStep(shutdown) \/ OrbStep(pollOrphans) \/ OrbStep(pollEnd) \/ OrbStep(releaseEnd)
    BY <2>2 DEF OrbStep, shutdown, pollOrphans, pollEnd, releaseEnd, objVars, runVars
  <2>3. CASE OrbStep(wake) \/ OrbStep(cleanUpEnd)
    BY <2>3 DEF OrbStep, wake, cleanUpEnd, objVars
  <2>4. CASE destroy \/ disconnectSend \/ disconnectEnd \/ unrecord
    BY <1>1, <2>4 DEF destroy, disconnectSend, disconnectEnd, unrecord, DestroyStep, deferredRequest,
                objVars, runVars
  <2>5. CASE outputStart \/ outputOne \/ outputEnd
    BY <1>1, <2>5 DEF outputStart, outputOne, outputEnd, CheckpointStep, orbVars, objVars, runVars
  <2>6. CASE reincarnateBAD_PARAM \/ reincarnateRaises \/ started \/ UNCHANGED vars
    BY <1>1, <2>6 DEF reincarnateBAD_PARAM, reincarnateRaises, started, ReincarnateStep, vars, orbVars,
                objVars, runVars
  <2> QED BY <1>2, <2>1, <2>2, <2>3, <2>4, <2>5, <2>6 DEF Calm
<1>3. ASSUME NEW o \in Oids, connect_push_supplier(o)
      PROVE  OrbOK'
  BY <1>1, <1>3 DEF connect_push_supplier, runVars
<1>4. CASE connectDefer
  <2>1. call.connection \in Callbacks /\ call.connection \notin used /\ UNCHANGED runVars
    BY <1>4 DEF connectDefer, CallStep, CallOK, AskOK, Entered
  <2>2. CASE _shutdownRequested
    BY <1>1, <1>4, <2>1, <2>2 DEF connectDefer, deferredRequest, runVars
  <2>3. CASE ~_shutdownRequested
    <3>1. deferred' = [deferred EXCEPT ![call.connection] = "waiting"]
      BY <1>4, <2>1, <2>3 DEF connectDefer, deferredRequest
    <3> QED BY <2>1, <2>3, <3>1 DEF runVars
  <2> QED BY <2>2, <2>3
<1>5. CASE discErase \/ disconnectErase \/ destructor
  BY <1>1, <1>5 DEF discErase, disconnectErase, destructor, CallStep, DestroyStep, _remove_ref, runVars
<1>6. ASSUME NEW c \in Callbacks, collect(c)
      PROVE  OrbOK'
  BY <1>6 DEF collect
<1>7. ASSUME NEW c \in Callbacks, NEW answer \in Answers, callback(c, answer)
      PROVE  OrbOK'
  BY <1>6, <1>7 DEF callback
<1>8. ASSUME NEW c \in Callbacks, OrbStep(pollException(c))
      PROVE  OrbOK'
  BY <1>6, <1>8 DEF OrbStep, pollException
<1>9. ASSUME NEW c \in Callbacks, OrbStep(Respond(c))
      PROVE  OrbOK'
  BY <1>9 DEF OrbStep, Respond, runVars
<1>10. ASSUME NEW c \in Callbacks, OrbStep(release(c))
       PROVE  OrbOK'
  BY <1>10 DEF OrbStep, release, _remove_ref
<1>11. ASSUME NEW c \in Callbacks, OrbStep(cleanUp(c))
       PROVE  OrbOK'
  BY <1>11 DEF OrbStep, cleanUp
<1>12. CASE OrbStep(releaseAll)
  BY <1>12 DEF OrbStep, releaseAll
<1>13. ASSUME NEW p \in Proxies, connect_push_consumer(p)
       PROVE  OrbOK'
  <2>1. Counted(p) /\ refs[p] = 0
    BY <1>13 DEF CountOK, connect_push_consumer
  <2>2. p \notin used
    BY <2>1 DEF Counted
  <2> QED BY <1>13, <2>2 DEF connect_push_consumer, runVars
<1>14. ASSUME NEW p \in Proxies, NEW sent \in BOOLEAN, etherealize(p, sent)
       PROVE  OrbOK'
  BY <1>1, <1>14 DEF etherealize, runVars
<1>15. CASE restart
  BY <1>15 DEF restart
<1>16. CASE reincarnate
  BY <1>1, <1>16 DEF reincarnate, ReincarnateStep, runVars
<1> QED BY <1>2, <1>3, <1>4, <1>5, <1>7, <1>8, <1>9, <1>10, <1>11, <1>12, <1>13, <1>14,
           <1>15, <1>16, Steps

(* A connection that waits for an answer has not been told it yet.         *)
LEMMA AskStep ==
  ASSUME References, OrbFlagTypes, AskOK, CallOK, StartOK, ThreadTypes, [Next]_vars
  PROVE  AskOK'
<1> USE ConstantFacts DEF References, OrbListTypes, OrbFlagTypes, AskOK
<1>1. CASE UNCHANGED <<deferred, used, _targetIsProxy>> /\ (call' = call \/ call'.op # "connectDefer")
  BY <1>1
<1>2. CASE Calm
  <2>1. UNCHANGED <<deferred, used, _targetIsProxy>>
    BY <1>2, CalmFrame DEF objects
  <2>2. CASE \E o \in Oids : disconnect_push_consumer(o)
    BY <1>1, <2>1, <2>2 DEF disconnect_push_consumer
  <2>3. CASE connectOutput \/ discSend \/ discOutput
    BY <1>1, <2>1, <2>3 DEF connectOutput, discSend, discOutput, CallStep, ThreadTypes, Idle
  <2>4. CASE \/ OrbStep(shutdown) \/ OrbStep(pollOrphans) \/ OrbStep(pollEnd) \/ OrbStep(releaseEnd)
             \/ OrbStep(wake) \/ OrbStep(cleanUpEnd)
    BY <1>1, <2>1, <2>4 DEF OrbStep, ppcVars, threadVars
  <2>5. CASE destroy \/ disconnectSend \/ disconnectEnd \/ unrecord
    BY <1>1, <2>1, <2>5 DEF destroy, disconnectSend, disconnectEnd, unrecord, DestroyStep
  <2>6. CASE outputStart \/ outputOne \/ outputEnd \/ callRace \/ outputRace
    BY <1>1, <2>1, <2>6 DEF outputStart, outputOne, outputEnd, CheckpointStep, callRace, outputRace, race,
                            threadVars
  <2>7. CASE reincarnateBAD_PARAM \/ reincarnateRaises \/ started \/ UNCHANGED vars
    BY <1>1, <2>1, <2>7 DEF reincarnateBAD_PARAM, reincarnateRaises, started, ReincarnateStep, vars, ppcVars,
                            threadVars
  <2> QED BY <1>2, <2>2, <2>3, <2>4, <2>5, <2>6, <2>7 DEF Calm
<1>3. ASSUME NEW o \in Oids, connect_push_supplier(o)
      PROVE  AskOK'
  <2>1. PICK c : c = fresh(o)
    OBVIOUS
  <2>2. c \in Connections /\ c \in Callbacks /\ deferred[c] = "none" /\ c \notin used
    BY <1>3, <2>1, FreshFacts DEF connect_push_supplier, newConnection
  <2>3. /\ UNCHANGED <<deferred, used>> /\ _targetIsProxy' = [_targetIsProxy EXCEPT ![c] = FALSE]
        /\ call'.connection = c
    BY <1>3, <2>1 DEF connect_push_supplier, newConnection, runVars
  <2> HIDE DEF fresh
  <2> QED BY <2>2, <2>3
<1>4. CASE connectDefer
  <2>1. PICK c \in Connections : c = call.connection
    BY <1>4 DEF connectDefer, CallStep, CallOK, Entered
  <2>2. call'.op = "connectOutput" /\ UNCHANGED <<used, _targetIsProxy>> /\ ~_targetIsProxy[c]
    BY <1>4, <2>1 DEF connectDefer, CallStep, deferredRequest, runVars, ThreadTypes
  <2>3. deferred' = deferred \/ deferred' = [deferred EXCEPT ![c] = "waiting"]
    BY <1>4, <2>1 DEF connectDefer, deferredRequest
  <2> QED BY <2>1, <2>2, <2>3
<1>5. ASSUME UNCHANGED <<deferred, used>>, call' = call \/ call'.op # "connectDefer",
             \A c \in Callbacks : _targetIsProxy'[c] => _targetIsProxy[c]
      PROVE  AskOK'
  BY <1>5 DEF CallOK, Entered
<1>6. CASE discErase
  BY <1>5, <1>6 DEF discErase, CallStep, _remove_ref, runVars, ThreadTypes
<1>7. CASE disconnectErase
  BY <1>5, <1>7 DEF disconnectErase, DestroyStep, _remove_ref, runVars
<1>8. CASE destructor
  BY <1>5, <1>8 DEF destructor, DestroyStep, runVars
<1>9. ASSUME NEW c \in Callbacks, NEW answer \in Answers, callback(c, answer)
      PROVE  AskOK'
  <2>1. /\ deferred[c] = "answered" /\ deferred' = [deferred EXCEPT ![c] = "none"]
        /\ used' = used \cup {c} /\ call' = call
        /\ \A d \in Callbacks : d # c => (_targetIsProxy'[d] <=> _targetIsProxy[d])
    BY <1>9 DEF callback, collect, threadVars
  <2> QED BY <2>1 DEF CallOK, Entered
<1>10. ASSUME NEW c \in Callbacks, OrbStep(pollException(c))
       PROVE  AskOK'
  BY <1>10 DEF OrbStep, pollException, collect, ppcVars, threadVars
<1>11. ASSUME NEW c \in Callbacks, OrbStep(Respond(c))
       PROVE  AskOK'
  BY <1>11 DEF OrbStep, Respond, ppcVars, threadVars, runVars
<1>12. ASSUME NEW c \in Callbacks, OrbStep(release(c))
       PROVE  AskOK'
  <2>1. /\ deferred' = deferred /\ used' = used \ {c} /\ call' = call
        /\ \A d \in Callbacks : _targetIsProxy'[d] => _targetIsProxy[d]
    BY <1>12 DEF OrbStep, release, _remove_ref, ppcVars, threadVars
  <2> QED BY <2>1 DEF CallOK, Entered
<1>13. ASSUME NEW c \in Callbacks, OrbStep(cleanUp(c))
       PROVE  AskOK'
  <2>1. /\ deferred' = deferred \/ deferred' = [deferred EXCEPT ![c] = "none"]
        /\ used' = used /\ call' = call
        /\ \A d \in Callbacks : _targetIsProxy'[d] => _targetIsProxy[d]
    BY <1>13 DEF OrbStep, cleanUp, ppcVars, threadVars
  <2> QED BY <2>1 DEF CallOK, Entered
<1>14. CASE OrbStep(releaseAll)
  BY <1>14 DEF OrbStep, releaseAll, ppcVars, threadVars, CallOK, Entered
<1>15. ASSUME NEW p \in Proxies, connect_push_consumer(p)
       PROVE  AskOK'
  <2>1. /\ deferred' = deferred \/ deferred' = [deferred EXCEPT ![p] = "waiting"]
        /\ UNCHANGED <<used, call, _targetIsProxy>>
    BY <1>15 DEF connect_push_consumer, runVars, threadVars
  <2> QED BY <2>1 DEF CallOK, Entered
<1>16. ASSUME NEW p \in Proxies, NEW sent \in BOOLEAN, etherealize(p, sent)
       PROVE  AskOK'
  BY <1>5, <1>16 DEF etherealize, runVars, threadVars
<1>17. CASE restart
  BY <1>17 DEF restart, Idle
<1>18. CASE reincarnate
  <2>1. PICK c : c = fresh(firstToDo)
    OBVIOUS
  <2>2. firstToDo \in Oids /\ call = Idle
    BY <1>18, FirstToDoFacts DEF reincarnate, ReincarnateStep, ThreadTypes, StartOK
  <2>3. c \in Callbacks /\ deferred[c] = "none"
    BY <1>18, <2>1, <2>2, FreshFacts DEF reincarnate, newConnection
  <2>4. /\ UNCHANGED <<deferred, used, call>>
        /\ _targetIsProxy' = [_targetIsProxy EXCEPT ![c] = record[firstToDo].proxy]
    BY <1>18, <2>1 DEF reincarnate, ReincarnateStep, newConnection, runVars, threadVars
  <2> QED BY <2>2, <2>3, <2>4 DEF Idle
<1> QED BY <1>2, <1>3, <1>4, <1>6, <1>7, <1>8, <1>9, <1>10, <1>11, <1>12, <1>13, <1>14, <1>15, <1>16,
           <1>17, <1>18, Steps

-----------------------------------------------------------------------------
(* Steps that leave the threads, the table and the process alone.          *)
Aside ==
  \/ callRace \/ outputRace
  \/ OrbStep(shutdown) \/ OrbStep(pollOrphans)
  \/ OrbStep(wake) \/ OrbStep(pollEnd) \/ OrbStep(releaseEnd) \/ OrbStep(cleanUpEnd)
  \/ \E c \in Callbacks, answer \in Answers : callback(c, answer)
  \/ \E c \in Callbacks : OrbStep(pollException(c)) \/ OrbStep(Respond(c))
                          \/ OrbStep(release(c)) \/ OrbStep(cleanUp(c))
  \/ OrbStep(releaseAll)
  \/ \E p \in Proxies : connect_push_consumer(p)
  \/ \E p \in Proxies, sent \in BOOLEAN : etherealize(p, sent)
  \/ UNCHANGED vars

threads == <<_connections, call, destroyer, checkpoint, life, todo, crashes>>

LEMMA AsideFrame == Aside => UNCHANGED threads
<1> USE DEF threads
<1>1. CASE callRace \/ outputRace
  BY <1>1 DEF callRace, outputRace, race, threadVars
<1>3. CASE \/ OrbStep(shutdown) \/ OrbStep(pollOrphans) \/ OrbStep(releaseAll)
           \/ OrbStep(wake) \/ OrbStep(pollEnd) \/ OrbStep(releaseEnd) \/ OrbStep(cleanUpEnd)
           \/ \E c \in Callbacks : OrbStep(pollException(c)) \/ OrbStep(Respond(c))
                                   \/ OrbStep(release(c)) \/ OrbStep(cleanUp(c))
  BY <1>3 DEF OrbStep, ppcVars, threadVars, lifeVars
<1>4. CASE \E c \in Callbacks, answer \in Answers : callback(c, answer)
  BY <1>4 DEF callback, threadVars, lifeVars
<1>5. CASE \E p \in Proxies : connect_push_consumer(p)
  BY <1>5 DEF connect_push_consumer, threadVars
<1>6. CASE \E p \in Proxies, sent \in BOOLEAN : etherealize(p, sent)
  BY <1>6 DEF etherealize, threadVars, lifeVars
<1>7. CASE UNCHANGED vars
  BY <1>7 DEF vars, ppcVars, threadVars, lifeVars
<1> QED BY <1>1, <1>3, <1>4, <1>5, <1>6, <1>7 DEF Aside

LEMMA ThreadSteps ==
  ASSUME [Next]_vars
  PROVE  \/ Aside
         \/ \E o \in Oids : connect_push_supplier(o) \/ disconnect_push_consumer(o)
         \/ connectDefer \/ connectOutput \/ discErase \/ discSend \/ discOutput
         \/ destroy \/ disconnectErase \/ disconnectSend \/ disconnectEnd \/ unrecord \/ destructor
         \/ outputStart \/ outputOne \/ outputEnd
         \/ restart \/ reincarnate \/ reincarnateBAD_PARAM \/ reincarnateRaises \/ started
BY Steps DEF Calm, Aside

LEMMA ThreadTypesStep ==
  ASSUME References, ThreadTypes, CallOK, [Next]_vars
  PROVE  ThreadTypes'
<1> USE ConstantFacts, LimitsAssumption
<1>1. raced' \in BOOLEAN
  <2> USE DEF ThreadTypes
  <2>1. CASE Aside
    <3>1. CASE callRace \/ outputRace
      BY <3>1 DEF callRace, outputRace, race
    <3>2. CASE \/ OrbStep(shutdown) \/ OrbStep(pollOrphans) \/ OrbStep(releaseAll)
               \/ OrbStep(wake) \/ OrbStep(pollEnd) \/ OrbStep(releaseEnd) \/ OrbStep(cleanUpEnd)
               \/ \E c \in Callbacks : OrbStep(pollException(c)) \/ OrbStep(Respond(c))
                                       \/ OrbStep(release(c)) \/ OrbStep(cleanUp(c))
      BY <3>2 DEF OrbStep, ppcVars, lifeVars
    <3>3. CASE \/ \E c \in Callbacks, answer \in Answers : callback(c, answer)
               \/ \E p \in Proxies : connect_push_consumer(p)
               \/ \E p \in Proxies, sent \in BOOLEAN : etherealize(p, sent)
               \/ UNCHANGED vars
      BY <3>3 DEF callback, connect_push_consumer, etherealize, vars, ppcVars, lifeVars
    <3> QED BY <2>1, <3>1, <3>2, <3>3 DEF Aside
  <2>2. CASE \E o \in Oids : connect_push_supplier(o) \/ disconnect_push_consumer(o)
    BY <2>2 DEF connect_push_supplier, disconnect_push_consumer
  <2>3. CASE connectDefer \/ connectOutput \/ discErase \/ discSend \/ discOutput
    BY <2>3 DEF connectDefer, connectOutput, discErase, discSend, discOutput, CallStep, lifeVars
  <2>4. CASE destroy \/ disconnectErase \/ disconnectSend \/ disconnectEnd \/ unrecord \/ destructor
    BY <2>4 DEF destroy, disconnectErase, disconnectSend, disconnectEnd, unrecord, destructor, DestroyStep,
                lifeVars
  <2>5. CASE outputStart \/ outputOne \/ outputEnd
    BY <2>5 DEF outputStart, outputOne, outputEnd, CheckpointStep, lifeVars
  <2>6. CASE restart \/ reincarnate \/ reincarnateBAD_PARAM \/ reincarnateRaises \/ started
    BY <2>6 DEF restart, reincarnate, reincarnateBAD_PARAM, reincarnateRaises, started, ReincarnateStep
  <2> QED BY <2>1, <2>2, <2>3, <2>4, <2>5, <2>6, ThreadSteps
<1> DEFINE Calls == [op : Ops, oid : Oids \cup {0}, connection : Connections \cup {Nobody}]
<1> DEFINE Lives == {"up", "starting", "failed"}
<1> DEFINE Rest == /\ call' \in Calls /\ destroyer' \in Stages /\ life' \in Lives /\ todo' \subseteq Oids
                   /\ calls' \in 0 .. MaxCalls /\ crashes' \in 0 .. MaxCrashes
<1>2. Rest
  <2>0. /\ call \in Calls /\ destroyer \in Stages /\ life \in Lives /\ todo \subseteq Oids
        /\ calls \in 0 .. MaxCalls /\ crashes \in 0 .. MaxCrashes
    BY Zenon DEF ThreadTypes
  <2>1. CASE Aside
    <3>1. calls' \in 0 .. MaxCalls
      <4>1. CASE callRace \/ outputRace
        BY <2>0, <4>1 DEF callRace, outputRace, race
      <4>2. CASE \/ OrbStep(shutdown) \/ OrbStep(pollOrphans) \/ OrbStep(releaseAll)
                 \/ OrbStep(wake) \/ OrbStep(pollEnd) \/ OrbStep(releaseEnd) \/ OrbStep(cleanUpEnd)
                 \/ \E c \in Callbacks : OrbStep(pollException(c)) \/ OrbStep(Respond(c))
                                         \/ OrbStep(release(c)) \/ OrbStep(cleanUp(c))
        BY <2>0, <4>2 DEF OrbStep, ppcVars, lifeVars
      <4>3. CASE \/ \E c \in Callbacks, answer \in Answers : callback(c, answer)
                 \/ \E p \in Proxies, sent \in BOOLEAN : etherealize(p, sent)
                 \/ UNCHANGED vars
        BY <2>0, <4>3 DEF callback, etherealize, vars, ppcVars, lifeVars
      <4>4. ASSUME NEW p \in Proxies, connect_push_consumer(p)
            PROVE  calls' \in 0 .. MaxCalls
        BY <2>0, <4>4 DEF connect_push_consumer
      <4> QED BY <2>1, <4>1, <4>2, <4>3, <4>4 DEF Aside
    <3> QED BY <2>0, <2>1, <3>1, AsideFrame DEF threads
  <2>2. ASSUME NEW o \in Oids, connect_push_supplier(o)
        PROVE  Rest
    <3>1. PICK c : c = fresh(o)
      OBVIOUS
    <3>2. c \in Connections
      BY <2>2, <3>1, FreshFacts DEF connect_push_supplier, newConnection, References
    <3>3. call' = [op |-> "connectDefer", oid |-> o, connection |-> c]
      BY <2>2, <3>1 DEF connect_push_supplier
    <3>4. call' \in Calls
      BY <3>2, <3>3 DEF Ops
    <3>5. UNCHANGED <<destroyer, life, todo, crashes>> /\ calls < MaxCalls /\ calls' = calls + 1
      BY <2>2 DEF connect_push_supplier, StartCall
    <3> QED BY <2>0, <3>4, <3>5
  <2>3. ASSUME NEW o \in Oids, disconnect_push_consumer(o)
        PROVE  Rest
    <3>1. call' \in Calls
      BY <2>3 DEF disconnect_push_consumer, Ops, References, TableTypes
    <3>2. UNCHANGED <<destroyer, life, todo, crashes>> /\ calls < MaxCalls /\ calls' = calls + 1
      BY <2>3 DEF disconnect_push_consumer, StartCall
    <3> QED BY <2>0, <3>1, <3>2
  <2>4. CASE connectDefer \/ connectOutput \/ discErase \/ discSend \/ discOutput
    BY <2>0, <2>4 DEF connectDefer, connectOutput, discErase, discSend, discOutput, CallStep, lifeVars, Ops, Idle
  <2>5. CASE destroy \/ disconnectErase \/ disconnectSend \/ disconnectEnd \/ unrecord \/ destructor
    BY <2>0, <2>5 DEF destroy, disconnectErase, disconnectSend, disconnectEnd, unrecord, destructor,
                      DestroyStep, lifeVars, Stages
  <2>6. CASE outputStart \/ outputOne \/ outputEnd
    BY <2>0, <2>6 DEF outputStart, outputOne, outputEnd, CheckpointStep, lifeVars
  <2>7. CASE restart
    BY <2>0, <2>7 DEF restart, Idle, Ops, Stages
  <2>8. CASE reincarnate \/ reincarnateBAD_PARAM \/ reincarnateRaises \/ started
    BY <2>0, <2>8 DEF reincarnate, reincarnateBAD_PARAM, reincarnateRaises, started, ReincarnateStep, threadVars
  <2> QED BY <2>1, <2>2, <2>3, <2>4, <2>5, <2>6, <2>7, <2>8, ThreadSteps
<1> QED BY <1>1, <1>2, Zenon DEF ThreadTypes

(* What is written is a record.                                            *)
LEMMA Written ==
  /\ Nothing \in Records
  /\ \A c \in Connections : [connection |-> c, proxy |-> TRUE] \in Records
  /\ OrbFlagTypes => \A c \in Connections : output(c) \in Records
  /\ NoCheckpoint \in [at : 0 .. NumOids + 1, written : [Oids -> Records]]
<1>1. Nothing \in Records /\ \A c \in Connections : [connection |-> c, proxy |-> TRUE] \in Records
  BY DEF Nothing, Records
<1>2. OrbFlagTypes => \A c \in Connections : output(c) \in Records
  BY ConstantFacts DEF OrbFlagTypes, output, Records
<1> QED BY <1>1, <1>2, ConstantFacts DEF NoCheckpoint

LEMMA AppendTypes ==
  ASSUME record \in [Oids -> Records], NEW o, NEW r \in Records, append(o, r)
  PROVE  record' \in [Oids -> Records]
BY DEF append

LEMMA RecordTypesStep ==
  ASSUME OrbFlagTypes, References, RecordTypes, ThreadTypes, CallOK, [Next]_vars
  PROVE  RecordTypes'
<1> USE ConstantFacts
<1>0. /\ checkpoint \in [at : 0 .. NumOids + 1, written : [Oids -> Records]]
      /\ record \in [Oids -> Records] /\ late \subseteq Oids
  BY DEF RecordTypes
<1>1. CASE UNCHANGED <<checkpoint, record, late>>
  BY <1>1 DEF RecordTypes
<1>2. ASSUME NEW c \in Callbacks, NEW answer \in Answers, callback(c, answer)
      PROVE  RecordTypes'
  <2>1. checkpoint' = checkpoint
    BY <1>2 DEF callback, threadVars
  <2>2. CASE c \in Connections /\ answer = "true"
    <3>1. append(_oidstr(c), [connection |-> c, proxy |-> TRUE])
      BY <1>2, <2>2 DEF callback
    <3>2. record' \in [Oids -> Records]
      BY <1>0, <2>2, <3>1, AppendTypes, Written
    <3>3. _oidstr(c) \in Oids
      BY <2>2, LimitsAssumption DEF _oidstr, Oids
    <3>4. late' \subseteq Oids
      BY <1>0, <1>2, <2>2, <3>3 DEF callback
    <3> QED BY <1>0, <2>1, <3>2, <3>4 DEF RecordTypes
  <2>3. CASE ~(c \in Connections /\ answer = "true")
    BY <1>1, <1>2, <2>1, <2>3 DEF callback
  <2> QED BY <2>2, <2>3
<1>3. CASE Aside
  <2>1. checkpoint' = checkpoint
    BY <1>3, AsideFrame DEF threads
  <2>2. CASE callRace \/ outputRace
    BY <1>1, <2>1, <2>2 DEF callRace, outputRace, race
  <2>3. CASE \/ OrbStep(shutdown) \/ OrbStep(pollOrphans) \/ OrbStep(releaseAll)
             \/ OrbStep(wake) \/ OrbStep(pollEnd) \/ OrbStep(releaseEnd) \/ OrbStep(cleanUpEnd)
             \/ \E c \in Callbacks : OrbStep(pollException(c)) \/ OrbStep(Respond(c))
                                     \/ OrbStep(release(c)) \/ OrbStep(cleanUp(c))
    BY <1>1, <2>1, <2>3 DEF OrbStep, ppcVars
  <2>4. CASE \/ \E p \in Proxies : connect_push_consumer(p)
             \/ \E p \in Proxies, sent \in BOOLEAN : etherealize(p, sent)
             \/ UNCHANGED vars
    BY <1>1, <2>1, <2>4 DEF connect_push_consumer, etherealize, vars, ppcVars
  <2> QED BY <1>2, <1>3, <2>2, <2>3, <2>4 DEF Aside
<1>4. CASE \E o \in Oids : connect_push_supplier(o) \/ disconnect_push_consumer(o)
  BY <1>1, <1>4 DEF connect_push_supplier, disconnect_push_consumer
<1>5. CASE connectDefer \/ discErase \/ discSend
  BY <1>1, <1>5 DEF connectDefer, discErase, discSend, CallStep
<1>6. CASE connectOutput \/ discOutput
  <2>1. \E r \in Records : append(call.oid, r)
    BY <1>6, Written DEF connectOutput, discOutput, CallStep, CallOK, Entered
  <2>2. record' \in [Oids -> Records]
    BY <1>0, <2>1, AppendTypes
  <2>3. checkpoint' = checkpoint /\ late' = late \ {call.oid}
    BY <1>6 DEF connectOutput, discOutput, CallStep
  <2> QED BY <1>0, <2>2, <2>3 DEF RecordTypes
<1>7. CASE destroy \/ disconnectErase \/ disconnectSend \/ disconnectEnd \/ destructor
  BY <1>1, <1>7 DEF destroy, disconnectErase, disconnectSend, disconnectEnd, destructor, DestroyStep
<1>8. CASE unrecord
  BY <1>0, <1>8, Written DEF unrecord, DestroyStep, RecordTypes
<1>9. CASE outputStart
  <2>1. firstAfter(0) \in 0 .. NumOids + 1
    BY FirstAfterFacts
  <2>2. checkpoint' = [NoCheckpoint EXCEPT !.at = firstAfter(0)]
    BY <1>9 DEF outputStart
  <2>3. checkpoint' \in [at : 0 .. NumOids + 1, written : [Oids -> Records]]
    BY <2>1, <2>2, Written
  <2> QED BY <1>0, <1>9, <2>3 DEF outputStart, RecordTypes
<1>10. CASE outputOne
  <2>1. PICK o \in Oids : o = checkpoint.at /\ _connections[o] # Nobody
    BY <1>10 DEF outputOne, connected
  <2>2. firstAfter(o) \in 0 .. NumOids + 1
    BY FirstAfterFacts
  <2>3. output(_connections[o]) \in Records
    BY <2>1, Written DEF References, TableTypes
  <2>4. checkpoint' = [at |-> firstAfter(o),
                       written |-> [checkpoint.written EXCEPT ![o] = output(_connections[o])]]
    BY <1>10, <2>1 DEF outputOne
  <2>5. [checkpoint.written EXCEPT ![o] = output(_connections[o])] \in [Oids -> Records]
    BY <1>0, <2>3
  <2>6. checkpoint' \in [at : 0 .. NumOids + 1, written : [Oids -> Records]]
    BY <2>2, <2>4, <2>5
  <2> QED BY <1>0, <1>10, <2>6 DEF outputOne, RecordTypes
<1>11. CASE outputEnd
  BY <1>0, <1>11, Written DEF outputEnd, RecordTypes
<1>12. CASE restart
  BY <1>0, <1>12, Written DEF restart, RecordTypes
<1>13. CASE reincarnate
  <2>1. PICK o \in Oids : o = firstToDo
    BY <1>13, FirstToDoFacts DEF reincarnate, ReincarnateStep, ThreadTypes
  <2>2. PICK c \in Connections : c = fresh(o)
    BY <1>13, <2>1, FreshFacts DEF reincarnate, newConnection, References
  <2>3. record' = [record EXCEPT ![o].connection = c] /\ late' = late /\ checkpoint' = checkpoint
    BY <1>13, <2>1, <2>2 DEF reincarnate, ReincarnateStep, threadVars
  <2>4. [record[o] EXCEPT !.connection = c] \in Records
    BY <1>0 DEF Records
  <2>5. record' \in [Oids -> Records]
    BY <1>0, <2>3, <2>4
  <2> QED BY <1>0, <2>3, <2>5 DEF RecordTypes
<1>14. CASE reincarnateBAD_PARAM
  <2>1. firstToDo \in Oids
    BY <1>14, FirstToDoFacts DEF reincarnateBAD_PARAM, ReincarnateStep, ThreadTypes
  <2> QED BY <1>0, <1>14, <2>1 DEF reincarnateBAD_PARAM, ReincarnateStep, threadVars, RecordTypes
<1>15. CASE reincarnateRaises \/ started
  BY <1>1, <1>15 DEF reincarnateRaises, started, ReincarnateStep, threadVars
<1> QED BY <1>3, <1>4, <1>5, <1>6, <1>7, <1>8, <1>9, <1>10, <1>11, <1>12, <1>13, <1>14, <1>15, ThreadSteps

-----------------------------------------------------------------------------
(* The call under way has its entry, and a restart has no calls.           *)
LEMMA CallStepOK ==
  ASSUME References, ThreadTypes, CallOK, StartOK, [Next]_vars
  PROVE  CallOK'
<1> USE ConstantFacts DEF CallOK, Entered, Erased
<1>1. CASE UNCHANGED <<_connections, call>> /\ (destroyer' = "no" => destroyer = "no")
  BY <1>1
<1>2. CASE Aside
  BY <1>1, <1>2, AsideFrame DEF threads
<1>3. ASSUME NEW o \in Oids, connect_push_supplier(o)
      PROVE  CallOK'
  <2>1. PICK c \in Connections : c = fresh(o)
    BY <1>3, FreshFacts DEF connect_push_supplier, newConnection, References
  <2>2. call' = [op |-> "connectDefer", oid |-> o, connection |-> c] /\ _connections' = [_connections EXCEPT ![o] = c]
    BY <1>3, <2>1 DEF connect_push_supplier, newConnection
  <2> QED BY <2>2 DEF References, TableTypes
<1>4. ASSUME NEW o \in Oids, disconnect_push_consumer(o)
      PROVE  CallOK'
  <2>1. /\ _connections[o] \in Connections /\ _connections' = _connections
        /\ call' = [op |-> "discErase", oid |-> o, connection |-> _connections[o]]
    BY <1>4 DEF disconnect_push_consumer, References, TableTypes
  <2> QED BY <2>1
<1>5. CASE connectDefer
  <2>1. /\ call' = [call EXCEPT !.op = "connectOutput"] /\ call.op = "connectDefer"
        /\ UNCHANGED <<_connections, destroyer>>
    BY <1>5 DEF connectDefer, CallStep
  <2> QED BY <2>1 DEF ThreadTypes
<1>6. CASE connectOutput \/ discOutput
  <2>1. call' = Idle
    BY <1>6 DEF connectOutput, discOutput, CallStep
  <2> QED BY <2>1 DEF Idle
<1>7. CASE discErase
  <2>1. /\ call' = [call EXCEPT !.op = "discSend"] /\ call.op = "discErase"
        /\ _connections' = [_connections EXCEPT ![call.oid] = Nobody]
    BY <1>7 DEF discErase, CallStep
  <2> QED BY <2>1 DEF ThreadTypes, References, TableTypes
<1>8. CASE discSend
  <2>1. /\ call' = [call EXCEPT !.op = "discOutput"] /\ call.op = "discSend"
        /\ UNCHANGED <<_connections, destroyer>>
    BY <1>8 DEF discSend, CallStep
  <2> QED BY <2>1 DEF ThreadTypes
<1>9. CASE destroy \/ disconnectErase \/ disconnectSend \/ disconnectEnd \/ unrecord \/ destructor
  <2>1. call' = call /\ destroyer' # "no"
    BY <1>9 DEF destroy, disconnectErase, disconnectSend, disconnectEnd, unrecord, destructor, DestroyStep
  <2> QED BY <2>1
<1>10. CASE outputStart \/ outputOne \/ outputEnd
  BY <1>1, <1>10 DEF outputStart, outputOne, outputEnd, CheckpointStep
<1>11. CASE restart
  BY <1>11 DEF restart, Idle
<1>12. CASE reincarnate \/ reincarnateBAD_PARAM \/ reincarnateRaises \/ started
  <2>1. call' = Idle
    BY <1>12 DEF reincarnate, reincarnateBAD_PARAM, reincarnateRaises, started, ReincarnateStep, threadVars, StartOK
  <2> QED BY <2>1 DEF Idle
<1> QED BY <1>2, <1>3, <1>4, <1>5, <1>6, <1>7, <1>8, <1>9, <1>10, <1>11, <1>12, ThreadSteps

LEMMA StartStepOK ==
  ASSUME References, ThreadTypes, StartOK, [Next]_vars
  PROVE  StartOK'
<1> USE ConstantFacts DEF StartOK
<1>1. CASE life = "up" /\ life' = "up" /\ todo' = todo
  BY <1>1
<1>2. CASE Aside
  BY <1>2, AsideFrame DEF threads
<1>3. CASE \E o \in Oids : connect_push_supplier(o) \/ disconnect_push_consumer(o)
  BY <1>1, <1>3 DEF connect_push_supplier, disconnect_push_consumer, StartCall, Running
<1>4. CASE connectDefer \/ connectOutput \/ discErase \/ discSend \/ discOutput
  BY <1>1, <1>4 DEF connectDefer, connectOutput, discErase, discSend, discOutput, CallStep, Running, lifeVars
<1>5. CASE destroy \/ disconnectErase \/ disconnectSend \/ disconnectEnd \/ unrecord \/ destructor
  BY <1>1, <1>5 DEF destroy, disconnectErase, disconnectSend, disconnectEnd, unrecord, destructor, DestroyStep,
                    Running, lifeVars
<1>6. CASE outputStart \/ outputOne \/ outputEnd
  BY <1>1, <1>6 DEF outputStart, outputOne, outputEnd, CheckpointStep, Running, lifeVars
<1>7. CASE restart
  <2>1. life' = "starting" /\ call' = Idle /\ checkpoint' = NoCheckpoint /\ _connections' = [o \in Oids |-> Nobody]
        /\ todo' \subseteq Oids
    BY <1>7 DEF restart
  <2> QED BY <2>1
<1>8. CASE reincarnate
  <2>1. PICK o \in Oids : o = firstToDo
    BY <1>8, FirstToDoFacts DEF reincarnate, ReincarnateStep, ThreadTypes
  <2>2. /\ life = "starting" /\ life' = life /\ todo' = todo \ {o} /\ UNCHANGED <<call, checkpoint>>
        /\ _connections' = [_connections EXCEPT ![o] = fresh(o)]
    BY <1>8, <2>1 DEF reincarnate, ReincarnateStep, newConnection, threadVars
  <2> QED BY <2>2 DEF References, TableTypes, ThreadTypes
<1>9. CASE reincarnateBAD_PARAM \/ reincarnateRaises \/ started
  BY <1>9 DEF reincarnateBAD_PARAM, reincarnateRaises, started, ReincarnateStep, threadVars
<1> QED BY <1>2, <1>3, <1>4, <1>5, <1>6, <1>7, <1>8, <1>9, ThreadSteps

-----------------------------------------------------------------------------
(* The database.  What would be recorded of an id changes with its entry,  *)
(* or with what is known of the connection there.                          *)
LEMMA SameRecorded ==
  ASSUME NEW o \in Oids, _connections'[o] = _connections[o],
         _connections[o] # Nobody => _targetIsProxy'[_connections[o]] = _targetIsProxy[_connections[o]]
  PROVE  recorded(o)' = recorded(o)
<1>1. CASE _connections[o] = Nobody
  BY <1>1 DEF recorded
<1>2. CASE _connections[o] # Nobody
  BY <1>2 DEF recorded, output
<1> QED BY <1>1, <1>2

(* No object that the table refers to is deleted by the list.              *)
LEMMA EntryIsKept ==
  ASSUME References, NEW o \in Oids, NEW c \in Callbacks, _connections[o] = c,
         c \in used \/ deferred[c] # "none"
  PROVE  ~deletes(c)
<1>1. Counted(c) /\ hasEntry(c) /\ refs[c] \in Nat
  BY DEF References, CountOK, OrbListTypes, hasEntry
<1> QED BY <1>1 DEF Counted, deletes

Database == RecordOK /\ CheckpointOK

(* A step that keeps the database and the checkpoint as they are.          *)
LEMMA DatabaseFrame ==
  ASSUME Database, UNCHANGED <<record, checkpoint, todo>>,
         destroyer' = "no" => destroyer = "no", life' # "failed" => life # "failed", late \subseteq late',
         \A o \in Oids : /\ busy(o) => busy(o)'
                         /\ busy(o)' \/ recorded(o)' = recorded(o)
  PROVE  Database'
<1> HIDE DEF recorded, busy
<1>1. RecordOK'
  BY DEF Database, RecordOK
<1>2. CheckpointOK'
  BY DEF Database, CheckpointOK
<1> QED BY <1>1, <1>2 DEF Database

(* The same, with the call as it is.                                       *)
LEMMA TableFrame ==
  ASSUME Database, UNCHANGED <<record, late, threads>>,
         \A o \in Oids : _connections[o] # Nobody => _targetIsProxy'[_connections[o]] = _targetIsProxy[_connections[o]]
  PROVE  Database'
<1>1. \A o \in Oids : recorded(o)' = recorded(o)
  BY SameRecorded DEF threads
<1>2. \A o \in Oids : busy(o)' <=> busy(o)
  BY DEF busy, threads
<1> QED BY <1>1, <1>2, DatabaseFrame DEF threads

LEMMA AsideDatabase ==
  ASSUME References, OrbFlagTypes, OrbOK, AskOK, RecordTypes, Database, Aside
  PROVE  Database'
<1> USE ConstantFacts
<1>0. UNCHANGED threads
  BY AsideFrame
<1>1. CASE callRace \/ outputRace
  BY <1>0, <1>1, TableFrame DEF callRace, outputRace, race, orbVars, objVars
<1>2. CASE \/ OrbStep(shutdown) \/ OrbStep(pollOrphans) \/ OrbStep(releaseAll)
           \/ OrbStep(wake) \/ OrbStep(pollEnd) \/ OrbStep(releaseEnd) \/ OrbStep(cleanUpEnd)
  BY <1>0, <1>2, TableFrame DEF OrbStep, ppcVars, shutdown, pollOrphans, releaseAll, wake, pollEnd, releaseEnd,
                                cleanUpEnd, objVars
<1>3. ASSUME NEW c \in Callbacks, OrbStep(pollException(c)) \/ OrbStep(Respond(c))
      PROVE  Database'
  BY <1>0, <1>3, TableFrame DEF OrbStep, ppcVars, pollException, Respond
<1>4. ASSUME NEW c \in Callbacks, OrbStep(release(c))
      PROVE  Database'
  <2>1. c \in used /\ _targetIsProxy' = [_targetIsProxy EXCEPT ![c] = @ /\ ~deletes(c)] /\ UNCHANGED <<record, late>>
    BY <1>4 DEF OrbStep, release, _remove_ref, ppcVars
  <2>2. ASSUME NEW o \in Oids, _connections[o] # Nobody
        PROVE  _targetIsProxy'[_connections[o]] = _targetIsProxy[_connections[o]]
    <3>1. _connections[o] = c => ~deletes(c)
      BY <2>1, EntryIsKept
    <3> QED BY <2>1, <2>2, <3>1 DEF OrbFlagTypes, References, TableTypes
  <2> QED BY <1>0, <2>1, <2>2, TableFrame
<1>5. ASSUME NEW c \in Callbacks, OrbStep(cleanUp(c))
      PROVE  Database'
  <2>1. deferred[c] # "none" /\ UNCHANGED <<record, late>>
        /\ (_targetIsProxy' = _targetIsProxy \/ _targetIsProxy' = [_targetIsProxy EXCEPT ![c] = @ /\ ~deletes(c)])
    BY <1>5 DEF OrbStep, cleanUp, ppcVars
  <2>2. ASSUME NEW o \in Oids, _connections[o] # Nobody
        PROVE  _targetIsProxy'[_connections[o]] = _targetIsProxy[_connections[o]]
    <3>1. _connections[o] = c => ~deletes(c)
      BY <2>1, EntryIsKept
    <3> QED BY <2>1, <2>2, <3>1 DEF OrbFlagTypes, References, TableTypes
  <2> QED BY <1>0, <2>1, <2>2, TableFrame
<1>6. ASSUME NEW p \in Proxies, connect_push_consumer(p)
      PROVE  Database'
  BY <1>0, <1>6, TableFrame DEF connect_push_consumer
<1>7. ASSUME NEW p \in Proxies, NEW sent \in BOOLEAN, etherealize(p, sent)
      PROVE  Database'
  <2>1. _targetIsProxy' = _targetIsProxy \/ _targetIsProxy' = [_targetIsProxy EXCEPT ![p] = FALSE]
    BY <1>7 DEF etherealize
  <2>2. \A d \in Callbacks : d # p => _targetIsProxy'[d] = _targetIsProxy[d]
    BY <2>1 DEF OrbFlagTypes
  <2>3. \A o \in Oids : _connections[o] # Nobody => _connections[o] \in Callbacks /\ _connections[o] # p
    BY DEF References, TableTypes
  <2> QED BY <1>0, <1>7, <2>2, <2>3, TableFrame DEF etherealize
<1>8. CASE UNCHANGED vars
  BY <1>0, <1>8, TableFrame DEF vars, orbVars, objVars, ppcVars
<1>9. ASSUME NEW c \in Callbacks, NEW answer \in Answers, callback(c, answer)
      PROVE  Database'
  <2>1. deferred[c] = "answered"
        /\ _targetIsProxy' = [_targetIsProxy EXCEPT ![c] = IF answer = "unexpected" THEN @ ELSE answer = "true"]
    BY <1>9 DEF callback, collect
  <2>2. CASE c \in Connections /\ answer = "true"
    <3>1. append(_oidstr(c), [connection |-> c, proxy |-> TRUE])
          /\ late' = IF _connections[_oidstr(c)] # c THEN late \cup {_oidstr(c)} ELSE late
      BY <1>9, <2>2 DEF callback
    <3>2. CASE HasLog
      <4>1. checkpoint.at = 0 /\ record' = [record EXCEPT ![_oidstr(c)] = [connection |-> c, proxy |-> TRUE]]
        BY <3>1, <3>2 DEF append, LogFree
      <4>2. CheckpointOK'
        BY <1>0, <4>1 DEF CheckpointOK, threads
      <4>3. ASSUME NEW o \in Oids \ (late' \cup todo), ~busy(o), record[o] = recorded(o)
            PROVE  record'[o] = recorded(o)'
        <5>1. CASE _connections[o] = c
          <6>1. _oidstr(c) = o /\ _connections'[o] = c /\ _targetIsProxy'[c] = TRUE
            BY <1>0, <2>1, <2>2, <5>1 DEF References, TableOK, threads, OrbFlagTypes
          <6>2. recorded(o)' = [connection |-> c, proxy |-> TRUE]
            BY <6>1 DEF recorded, output
          <6> QED BY <4>1, <6>1, <6>2 DEF RecordTypes
        <5>2. CASE _connections[o] # c
          <6>1. _oidstr(c) # o
            BY <3>1, <4>3, <5>2
          <6>2. recorded(o)' = recorded(o)
            BY <1>0, <2>1, <5>2, SameRecorded DEF threads, OrbFlagTypes
          <6> QED BY <4>1, <4>3, <6>1, <6>2 DEF RecordTypes
        <5> QED BY <5>1, <5>2
      <4>4. late \subseteq late' /\ (\A o : busy(o)' <=> busy(o)) /\ UNCHANGED <<destroyer, life, todo>>
        BY <1>0, <3>1 DEF busy, threads
      <4>5. RecordOK'
        <5> HIDE DEF recorded, busy
        <5> QED BY <4>3, <4>4 DEF Database, RecordOK
      <4> QED BY <4>2, <4>5 DEF Database
    <3>3. CASE ~HasLog
      BY <3>3 DEF Database, RecordOK, CheckpointOK
    <3> QED BY <3>2, <3>3
  <2>3. CASE ~(c \in Connections /\ answer = "true")
    <3>1. UNCHANGED <<record, late>>
      BY <1>9, <2>3 DEF callback
    <3>2. ASSUME NEW o \in Oids, _connections[o] # Nobody
          PROVE  _targetIsProxy'[_connections[o]] = _targetIsProxy[_connections[o]]
      <4>1. CASE _connections[o] # c
        BY <2>1, <4>1 DEF OrbFlagTypes
      <4>2. CASE _connections[o] = c
        <5>1. c \in Connections /\ answer # "true"
          BY <2>3, <3>2, <4>2 DEF References, TableTypes
        <5>2. _targetIsProxy[c] = FALSE
          BY <2>1, <5>1 DEF AskOK, OrbFlagTypes
        <5> QED BY <2>1, <4>2, <5>1, <5>2 DEF OrbFlagTypes
      <4> QED BY <4>1, <4>2
    <3> QED BY <1>0, <3>1, <3>2, TableFrame
  <2> QED BY <2>2, <2>3
<1> QED BY <1>1, <1>2, <1>3, <1>4, <1>5, <1>6, <1>7, <1>8, <1>9 DEF Aside

(* Calls.                                                                  *)
LEMMA CallDatabase ==
  ASSUME References, OrbFlagTypes, ThreadTypes, RecordTypes, CallOK, Database,
         \/ \E o \in Oids : connect_push_supplier(o) \/ disconnect_push_consumer(o)
         \/ connectDefer \/ connectOutput \/ discErase \/ discSend \/ discOutput
  PROVE  Database'
<1> USE ConstantFacts
<1>1. ASSUME NEW o \in Oids, connect_push_supplier(o)
      PROVE  Database'
  <2>1. PICK c : c = fresh(o)
    OBVIOUS
  <2>2. c \in Connections /\ ~hasEntry(c)
    BY <1>1, <2>1, FreshFacts DEF connect_push_supplier, newConnection, References
  <2>3. /\ _connections' = [_connections EXCEPT ![o] = c]
        /\ _targetIsProxy' = [_targetIsProxy EXCEPT ![c] = FALSE]
        /\ call' = [op |-> "connectDefer", oid |-> o, connection |-> c] /\ call = Idle
        /\ UNCHANGED <<record, late, checkpoint, destroyer, life, todo>>
    BY <1>1, <2>1 DEF connect_push_supplier, newConnection, StartCall
  <2>4. \A q \in Oids : ~busy(q) /\ (q = o => busy(q)')
    BY <2>3 DEF busy, Idle
  <2>5. ASSUME NEW q \in Oids, q # o
        PROVE  recorded(q)' = recorded(q)
    <3>1. _connections[q] # c /\ _connections'[q] = _connections[q]
      BY <2>2, <2>3, <2>5 DEF hasEntry, References, TableTypes
    <3>2. _connections[q] # Nobody => _connections[q] \in Callbacks
      BY DEF References, TableTypes
    <3> QED BY <2>3, <3>1, <3>2, SameRecorded DEF OrbFlagTypes
  <2> QED BY <2>3, <2>4, <2>5, DatabaseFrame
<1>2. ASSUME NEW o \in Oids, disconnect_push_consumer(o)
      PROVE  Database'
  <2>1. call = Idle /\ UNCHANGED <<_connections, _targetIsProxy, record, late, checkpoint, destroyer, life, todo>>
    BY <1>2 DEF disconnect_push_consumer, StartCall, orbVars, objVars
  <2>2. \A q \in Oids : ~busy(q) /\ recorded(q)' = recorded(q)
    BY <2>1, SameRecorded DEF busy, Idle
  <2> QED BY <2>1, <2>2, DatabaseFrame
<1>3. ASSUME call'.op # "idle", call.op # "idle", call'.oid = call.oid,
             UNCHANGED <<record, late, checkpoint, destroyer, life, todo>>,
             \A q \in Oids : q # call.oid => recorded(q)' = recorded(q)
      PROVE  Database'
  <2>1. \A q \in Oids : (busy(q)' <=> busy(q)) /\ (q = call.oid => busy(q))
    BY <1>3 DEF busy
  <2> QED BY <1>3, <2>1, DatabaseFrame
<1>4. CASE connectDefer \/ discSend
  <2>1. /\ call'.op # "idle" /\ call.op # "idle" /\ call'.oid = call.oid
        /\ UNCHANGED <<_connections, _targetIsProxy, record, late, checkpoint, destroyer, life, todo>>
    BY <1>4 DEF connectDefer, discSend, CallStep, deferredRequest, lifeVars, ThreadTypes
  <2>2. \A q \in Oids : recorded(q)' = recorded(q)
    BY <2>1, SameRecorded
  <2> QED BY <1>3, <2>1, <2>2
<1>5. CASE discErase
  <2>1. PICK c, o : c = call.connection /\ o = call.oid
    OBVIOUS
  <2>2. /\ call'.op # "idle" /\ call.op # "idle" /\ call'.oid = call.oid
        /\ UNCHANGED <<record, late, checkpoint, destroyer, life, todo>>
        /\ _connections' = [_connections EXCEPT ![o] = Nobody] /\ _connections[o] = c
        /\ _targetIsProxy' = [_targetIsProxy EXCEPT ![c] = @ /\ ~deletes(c)]
    BY <1>5, <2>1 DEF discErase, CallStep, _remove_ref, lifeVars, ThreadTypes
  <2>3. o \in Oids /\ c \in Connections
    BY <1>5, <2>1 DEF discErase, CallStep, CallOK, Entered
  <2>4. ASSUME NEW q \in Oids, q # o
        PROVE  recorded(q)' = recorded(q)
    <3>1. _connections[q] # c /\ _connections'[q] = _connections[q]
      BY <2>2, <2>3, <2>4 DEF References, TableOK, TableTypes
    <3>2. _connections[q] # Nobody => _connections[q] \in Callbacks
      BY DEF References, TableTypes
    <3> QED BY <2>2, <3>1, <3>2, SameRecorded DEF OrbFlagTypes
  <2> QED BY <1>3, <2>1, <2>2, <2>4
<1>6. CASE connectOutput \/ discOutput
  <2>1. PICK o : o = call.oid
    OBVIOUS
  <2>2. /\ o \in Oids /\ call' = Idle /\ late' = late \ {o}
        /\ UNCHANGED <<_connections, _targetIsProxy, checkpoint, destroyer, life, todo>>
    BY <1>6, <2>1 DEF connectOutput, discOutput, CallStep, objVars, lifeVars, CallOK
  <2>3. CASE HasLog /\ destroyer = "no"
    <3>1. append(o, recorded(o))
      <4>1. CASE connectOutput
        <5>1. _connections[o] = call.connection /\ call.connection # Nobody
          BY <2>1, <2>3, <4>1 DEF connectOutput, CallStep, CallOK, Entered
        <5> QED BY <2>1, <4>1, <5>1 DEF connectOutput, recorded
      <4>2. CASE discOutput
        <5>1. _connections[o] = Nobody
          BY <2>1, <2>3, <4>2 DEF discOutput, CallStep, CallOK, Erased
        <5> QED BY <2>1, <4>2, <5>1 DEF discOutput, recorded
      <4> QED BY <1>6, <4>1, <4>2
    <3>2. checkpoint.at = 0 /\ record' = [record EXCEPT ![o] = recorded(o)]
      BY <2>3, <3>1 DEF append, LogFree
    <3>3. \A q \in Oids : recorded(q)' = recorded(q)
      BY <2>2, SameRecorded
    <3>4. \A q \in Oids : q # o => ~busy(q)
      BY <2>1 DEF busy
    <3> HIDE DEF recorded, busy
    <3>5. RecordOK'
      <4>1. ASSUME NEW q \in Oids \ (late' \cup todo'), life' # "failed"
            PROVE  record'[q] = recorded(q)'
        <5>1. CASE q = o
          BY <3>2, <3>3, <5>1 DEF RecordTypes
        <5>2. CASE q # o
          BY <2>2, <2>3, <3>2, <3>3, <3>4, <4>1, <5>2 DEF RecordTypes, Database, RecordOK
        <5> QED BY <5>1, <5>2
      <4> QED BY <4>1 DEF RecordOK
    <3>6. CheckpointOK'
      BY <2>2, <3>2 DEF CheckpointOK
    <3> QED BY <3>5, <3>6 DEF Database
  <2>4. CASE ~(HasLog /\ destroyer = "no")
    BY <2>2, <2>4 DEF Database, RecordOK, CheckpointOK
  <2> QED BY <2>3, <2>4
<1> QED BY <1>1, <1>2, <1>4, <1>5, <1>6

(* Checkpoints.                                                            *)
LEMMA CheckpointDatabase ==
  ASSUME References, RecordTypes, Database, outputStart \/ outputOne \/ outputEnd
  PROVE  Database'
<1> USE ConstantFacts
<1>0. UNCHANGED <<_connections, _targetIsProxy, call, destroyer, life, todo>>
  BY DEF outputStart, outputOne, outputEnd, CheckpointStep, orbVars, objVars, lifeVars
<1>1. \A o \in Oids : recorded(o)' = recorded(o) /\ (busy(o)' <=> busy(o))
  BY <1>0, SameRecorded DEF busy
<1>2. \A o \in Oids : o \notin connected => recorded(o) = Nothing
  BY DEF connected, recorded
<1>3. CASE outputStart
  <2>1. /\ UNCHANGED <<record, late>>
        /\ checkpoint'.at = firstAfter(0) /\ checkpoint'.written = [o \in Oids |-> Nothing]
    BY <1>3 DEF outputStart, NoCheckpoint
  <2>2. \A o \in Oids : o < firstAfter(0) => recorded(o) = Nothing
    BY <1>2, FirstAfterFacts
  <2> HIDE DEF recorded, busy
  <2>3. RecordOK'
    BY <1>0, <1>1, <2>1 DEF Database, RecordOK
  <2>4. CheckpointOK'
    BY <1>1, <2>1, <2>2 DEF CheckpointOK
  <2> QED BY <2>3, <2>4 DEF Database
<1>4. CASE outputOne
  <2>1. PICK a \in Oids : a = checkpoint.at /\ a \in connected
    BY <1>4 DEF outputOne, connected
  <2>2. PICK b : b = firstAfter(a)
    OBVIOUS
  <2>3. b \in Nat /\ a < b /\ \A o \in connected : o > a => b <= o
    <3>1. a \in Nat /\ a <= NumOids
      BY <2>1
    <3>2. /\ firstAfter(a) > a /\ firstAfter(a) \in 1 .. NumOids + 1
          /\ \A o \in connected : o > a => firstAfter(a) <= o
      BY <3>1, FirstAfterFacts
    <3> QED BY <2>2, <3>1, <3>2
  <2>4. /\ UNCHANGED <<record, late>>
        /\ checkpoint'.at = b /\ checkpoint'.written = [checkpoint.written EXCEPT ![a] = recorded(a)]
    BY <1>4, <2>1, <2>2 DEF outputOne, recorded, connected
  <2> HIDE DEF recorded, busy, firstAfter
  <2>5. RecordOK'
    BY <1>0, <1>1, <2>4 DEF Database, RecordOK
  <2>6. ASSUME HasLog, destroyer = "no", NEW o \in Oids, ~busy(o)
        PROVE  checkpoint'.written[o] = IF o < b THEN recorded(o) ELSE Nothing
    <3>1. checkpoint.written[o] = IF o < a THEN recorded(o) ELSE Nothing
      <4>1. checkpoint.at = a /\ a # 0
        BY <2>1
      <4>2. busy(o) \/ checkpoint.written[o] = IF o < checkpoint.at THEN recorded(o) ELSE Nothing
        BY <2>6, <4>1, Zenon DEF Database, CheckpointOK
      <4> QED BY ONLY <2>6, <4>1, <4>2
    <3>2. checkpoint'.written[o] = IF o = a THEN recorded(a) ELSE checkpoint.written[o]
      BY <2>4 DEF RecordTypes
    <3>3. a < o /\ o < b => recorded(o) = Nothing
      BY <1>2, <2>3
    <3>4. CASE o = a
      BY <2>3, <3>2, <3>4
    <3>5. CASE o < a \/ b <= o
      <4>1. o # a /\ (o < b <=> o < a)
        BY <2>3, <3>5
      <4> QED BY <3>1, <3>2, <4>1
    <3>6. CASE a < o /\ o < b
      <4>1. o # a /\ ~(o < a)
        BY <3>6
      <4> QED BY <3>1, <3>2, <3>3, <3>6, <4>1
    <3>7. o \in Nat /\ a \in Nat /\ b \in Nat
      BY <2>3
    <3>8. o = a \/ (o < a \/ b <= o) \/ (a < o /\ o < b)
      BY ONLY <3>7
    <3> QED BY <3>4, <3>5, <3>6, <3>8, Zenon
  <2>7. CheckpointOK'
    BY <1>0, <1>1, <2>4, <2>6 DEF CheckpointOK
  <2> QED BY <2>5, <2>7 DEF Database
<1>5. CASE outputEnd
  <2>1. checkpoint.at = NumOids + 1 /\ record' = checkpoint.written /\ checkpoint'.at = 0
    BY <1>5 DEF outputEnd, NoCheckpoint
  <2> HIDE DEF recorded, busy
  <2>2. ASSUME HasLog, destroyer = "no", NEW o \in Oids, ~busy(o)
        PROVE  record'[o] = recorded(o)
    <3>1. o < checkpoint.at /\ checkpoint.at # 0
      BY <2>1
    <3> QED BY <2>1, <2>2, <3>1 DEF Database, CheckpointOK
  <2>3. RecordOK'
    BY <1>0, <1>1, <2>2 DEF RecordOK
  <2>4. CheckpointOK'
    BY <2>1 DEF CheckpointOK
  <2> QED BY <2>3, <2>4 DEF Database
<1> QED BY <1>3, <1>4, <1>5

(* Restarts.                                                               *)
LEMMA StartDatabase ==
  ASSUME References, OrbFlagTypes, ThreadTypes, RecordTypes, StartOK, Database,
         restart \/ reincarnate \/ reincarnateBAD_PARAM \/ reincarnateRaises \/ started
  PROVE  Database'
<1> USE ConstantFacts
<1>0. CheckpointOK'
  <2>1. checkpoint' = NoCheckpoint
    BY DEF restart, reincarnate, reincarnateBAD_PARAM, reincarnateRaises, started, ReincarnateStep, threadVars, StartOK
  <2>2. checkpoint'.at = 0
    BY <2>1 DEF NoCheckpoint
  <2> QED BY <2>2 DEF CheckpointOK
<1>1. CASE restart
  <2>1. record' = record /\ todo' = {o \in Oids : record[o] # Nothing} /\ _connections' = [o \in Oids |-> Nobody]
    BY <1>1 DEF restart
  <2>2. \A o \in Oids : recorded(o)' = Nothing
    BY <2>1 DEF recorded
  <2>3. \A o \in Oids \ todo' : record'[o] = Nothing
    BY <2>1
  <2> HIDE DEF recorded, busy
  <2> QED BY <1>0, <2>2, <2>3 DEF Database, RecordOK
<1>2. CASE reincarnate
  <2>1. PICK o \in Oids : o = firstToDo /\ o \in todo
    BY <1>2, FirstToDoFacts DEF reincarnate, ReincarnateStep, ThreadTypes
  <2>2. PICK c : c = fresh(o)
    OBVIOUS
  <2>3. c \in Connections /\ ~hasEntry(c)
    BY <1>2, <2>1, <2>2, FreshFacts DEF reincarnate, newConnection, References
  <2>4. /\ _connections' = [_connections EXCEPT ![o] = c]
        /\ _targetIsProxy' = [_targetIsProxy EXCEPT ![c] = record[o].proxy]
        /\ record' = [record EXCEPT ![o].connection = c]
        /\ todo' = todo \ {o} /\ life = "starting" /\ UNCHANGED <<late, life, destroyer, call>>
    BY <1>2, <2>1, <2>2 DEF reincarnate, ReincarnateStep, newConnection, threadVars
  <2>5. record'[o] = recorded(o)'
    <3>1. record[o] \in Records
      BY DEF RecordTypes
    <3>2. record'[o] = [record[o] EXCEPT !.connection = c]
      BY <2>4 DEF RecordTypes
    <3>3. record'[o] = [connection |-> c, proxy |-> record[o].proxy]
      BY <3>1, <3>2 DEF Records
    <3>4. _connections'[o] = c /\ _targetIsProxy'[c] = record[o].proxy /\ c # Nobody
      BY <2>3, <2>4 DEF References, TableTypes, OrbFlagTypes
    <3> QED BY <3>3, <3>4 DEF recorded, output
  <2>6. ASSUME NEW q \in Oids, q # o
        PROVE  recorded(q)' = recorded(q) /\ record'[q] = record[q] /\ (busy(q)' <=> busy(q))
    <3>1. _connections[q] # c /\ _connections'[q] = _connections[q]
      BY <2>3, <2>4, <2>6 DEF hasEntry, References, TableTypes
    <3>2. _connections[q] # Nobody => _connections[q] \in Callbacks
      BY DEF References, TableTypes
    <3>3. recorded(q)' = recorded(q)
      BY <2>4, <3>1, <3>2, SameRecorded DEF OrbFlagTypes
    <3> QED BY <2>4, <2>6, <3>3 DEF busy, RecordTypes
  <2> HIDE DEF recorded, busy
  <2>7. RecordOK'
    BY <2>4, <2>5, <2>6 DEF Database, RecordOK
  <2> QED BY <1>0, <2>7 DEF Database
<1>3. CASE reincarnateBAD_PARAM
  <2>1. /\ todo' = todo \ {firstToDo} /\ late' = late \cup {firstToDo} /\ life = "starting"
        /\ UNCHANGED <<_connections, _targetIsProxy, record, destroyer, life, call>>
    BY <1>3 DEF reincarnateBAD_PARAM, ReincarnateStep, threadVars
  <2>2. \A o \in Oids : recorded(o)' = recorded(o) /\ (busy(o)' <=> busy(o))
    BY <2>1, SameRecorded DEF busy
  <2> HIDE DEF recorded, busy, firstToDo
  <2>3. RecordOK'
    BY <2>1, <2>2 DEF Database, RecordOK
  <2> QED BY <1>0, <2>3 DEF Database
<1>4. CASE reincarnateRaises
  <2>1. life' = "failed"
    BY <1>4 DEF reincarnateRaises
  <2> QED BY <1>0, <2>1 DEF Database, RecordOK
<1>5. CASE started
  <2>1. life # "failed" /\ UNCHANGED <<_connections, _targetIsProxy, record, late, destroyer, todo, call>>
    BY <1>5 DEF started, orbVars, objVars, threadVars
  <2>2. \A o \in Oids : recorded(o)' = recorded(o) /\ (busy(o)' <=> busy(o))
    BY <2>1, SameRecorded DEF busy
  <2> HIDE DEF recorded, busy
  <2>3. RecordOK'
    BY <2>1, <2>2 DEF Database, RecordOK
  <2> QED BY <1>0, <2>3 DEF Database
<1> QED BY <1>1, <1>2, <1>3, <1>4, <1>5

LEMMA DatabaseStep ==
  ASSUME References, OrbFlagTypes, OrbOK, AskOK, ThreadTypes, RecordTypes, CallOK, StartOK, Database, [Next]_vars
  PROVE  Database'
<1>1. CASE destroy \/ disconnectErase \/ disconnectSend \/ disconnectEnd \/ unrecord \/ destructor
  <2>1. destroyer' # "no"
    BY <1>1 DEF destroy, disconnectErase, disconnectSend, disconnectEnd, unrecord, destructor, DestroyStep
  <2> QED BY <2>1 DEF Database, RecordOK, CheckpointOK
<1> QED BY <1>1, AsideDatabase, CallDatabase, CheckpointDatabase, StartDatabase, ThreadSteps

-----------------------------------------------------------------------------
(* The inductive invariant holds throughout.                               *)
THEOREM Invariance == Spec => []IInv
<1>1. Init => IInv
  BY InitIInv
<1>2. IInv /\ [Next]_vars => IInv'
  <2> SUFFICES ASSUME IInv, [Next]_vars
               PROVE  IInv'
    OBVIOUS
  <2>1. /\ OrbFlagTypes /\ References /\ RecordTypes /\ ThreadTypes
        /\ OrbOK /\ AskOK /\ CallOK /\ StartOK /\ Database
    BY DEF IInv, TypeOK, OrbTypeOK, References, Database
  <2>2. /\ OrbFlagTypes' /\ References' /\ RecordTypes' /\ ThreadTypes'
        /\ OrbOK' /\ AskOK' /\ CallOK' /\ StartOK' /\ Database'
    BY <2>1, FlagTypesStep, ReferencesStep, RecordTypesStep, ThreadTypesStep, OrbStepOK, AskStep,
       CallStepOK, StartStepOK, DatabaseStep
  <2> QED BY <2>2 DEF IInv, TypeOK, OrbTypeOK, References, Database
<1> QED BY <1>1, <1>2, PTL DEF Spec

(* Every variable of the default servant and of the Orb keeps its type; in *)
(* particular no reference count becomes negative.                         *)
THEOREM TypeCorrect == Spec => []TypeOK
<1>1. IInv => TypeOK
  BY DEF IInv
<1> QED BY Invariance, <1>1, PTL

(* Callback and Orb::run(): an object has as many references as the *)
(* list, the used callbacks, the table and the POA hold, in every order of *)
(* answer, disconnect_push_consumer(), etherealize() and destroy().        *)
THEOREM CallbacksStayAlive == Spec => []CallbacksAlive
<1>1. IInv => CallbacksAlive
  <2> SUFFICES ASSUME IInv, NEW c \in Callbacks
               PROVE  refs[c] = holders(c)
    BY DEF CallbacksAlive
  <2>1. tableRefs(c) = IF hasEntry(c) THEN 1 ELSE 0
    BY TableCount DEF IInv
  <2>2. Counted(c)
    BY DEF IInv, CountOK
  <2> QED BY <2>1, <2>2 DEF Counted, holders, registered
<1> QED BY Invariance, <1>1, PTL

(* Connection::output(): when no call, checkpoint or destroy() is under    *)
(* way, the database has exactly the connections of the table, through any *)
(* number of restarts and of answers that come before, during or after a   *)
(* disconnect or a checkpoint.                                             *)
THEOREM ConnectionsAreRecorded == Spec => []ConnectionsRecorded
<1>1. IInv => ConnectionsRecorded
  <2> SUFFICES ASSUME IInv, Quiet, NEW o \in Oids \ late
               PROVE  record[o] = recorded(o)
    BY DEF ConnectionsRecorded
  <2>1. HasLog /\ destroyer = "no" /\ life = "up" /\ call = Idle
    BY DEF Quiet, Running
  <2>2. todo = {} /\ ~busy(o)
    BY <2>1 DEF IInv, StartOK, busy, Idle
  <2> HIDE DEF recorded, busy
  <2> QED BY <2>1, <2>2 DEF IInv, RecordOK
<1> QED BY Invariance, <1>1, PTL
=============================================================================
