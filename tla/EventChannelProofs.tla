------------------------- MODULE EventChannelProofs -------------------------
(***************************************************************************)
(* Proofs about EventChannel for every set of proxies and destroyers and   *)
(* every number of events.                                                 *)
(*                                                                         *)
(* The argument.  hold_requests(1) only protects a transfer as long as     *)
(* nobody activates the POAManager again.  The main loop does so after the *)
(* transfer; a client's destroy() may do so while hold_requests waits, but *)
(* it has set _shutdownRequested by then, and so there is no transfer.     *)
(* Hence the POAManager is not active during a transfer, no call of push() *)
(* changes the queues between trigger() and send(), and the event that     *)
(* push() sends past the queue finds the queue and the list empty.         *)
(***************************************************************************)
EXTENDS EventChannel, SequenceTheorems, TLAPS

Transfer == main \in {"collect", "send", "release"}

(* destroy() has passed its check only when it has set the flag.           *)
FlagOK == \A d \in Destroyers : dpc[d] \in {"state", "activate", "proxies"} => shutdown

(* During a transfer nobody is inside, and nobody can come in.             *)
GateOK ==
  /\ Transfer => push = "idle" /\ pm # "active"
  /\ Transfer => \A d \in Destroyers : ~Running(d)
  /\ main = "holding" /\ pm = "active" => shutdown

(* Where the events are: the list is empty outside a transfer, the queue   *)
(* is empty as long as push() goes past it.                                *)
OrderOK ==
  /\ arrived = sent \o events \o queue
  /\ main # "send" => events = << >>
  /\ ~useLocal => queue = << >>

(* The inductive invariant.                                                *)
IInv == TypeOK /\ FlagOK /\ (~DeleteAllCalled => GateOK /\ OrderOK)

-----------------------------------------------------------------------------
(* A new channel satisfies the invariant.                                  *)
LEMMA InitIInv == Init => IInv
<1> SUFFICES ASSUME Init PROVE IInv
  OBVIOUS
<1>1. TypeOK
  <2>1. FlagTypes
    BY DEF Init, FlagTypes
  <2>2. StateTypes
    BY DEF Init, StateTypes
  <2> QED BY <2>1, <2>2 DEF TypeOK
<1>2. FlagOK
  BY DEF Init, FlagOK
<1>3. GateOK
  BY DEF Init, GateOK, Transfer, Running
<1>4. OrderOK
  BY ConcatEmptySeq DEF Init, OrderOK
<1> QED BY <1>1, <1>2, <1>3, <1>4 DEF IInv

(* Every step of the channel, of a client or of the server keeps the types.*)
LEMMA FlagTypesStep == TypeOK /\ [Next]_vars => FlagTypes'
<1> SUFFICES ASSUME TypeOK, [Next]_vars PROVE FlagTypes'
  OBVIOUS
<1> USE ChannelAssumption DEF TypeOK, FlagTypes, StateTypes, transferVars, destroyVars
<1>1. CASE pushStart \/ pushEvent \/ pushFlag
  BY <1>1 DEF pushStart, pushEvent, pushFlag
<1>2. CASE insert \/ record \/ activate
  BY <1>2 DEF insert, record, activate
<1>3. CASE check \/ hold_requests \/ held
  BY <1>3 DEF check, hold_requests, held
<1>4. CASE collect
  BY <1>4 DEF collect
<1>5. CASE send
  BY <1>5 DEF send
<1>6. CASE sleep \/ erase \/ unrecord \/ destroyPoa
  BY <1>6 DEF sleep, erase, unrecord, destroyPoa
<1>7. ASSUME NEW d \in Destroyers, destroyStart(d) \/ destroyCheck(d)
      PROVE  FlagTypes'
  BY <1>7 DEF destroyStart, destroyCheck
<1>8. ASSUME NEW d \in Destroyers, destroyState(d) \/ destroyActivate(d)
      PROVE  FlagTypes'
  BY <1>8 DEF destroyState, destroyActivate, toProxies
<1>9. ASSUME NEW d \in Destroyers, NEW p \in Proxies, destroyProxy(d, p)
      PROVE  FlagTypes'
  BY <1>9 DEF destroyProxy
<1>10. ASSUME NEW d \in Destroyers, destroySuppliers(d)
       PROVE  FlagTypes'
  BY <1>10 DEF destroySuppliers
<1>11. CASE ServerShutdown \/ _remove_ref
  BY <1>11 DEF ServerShutdown, _remove_ref
<1>12. CASE UNCHANGED vars
  BY <1>12 DEF vars
<1> QED
  BY <1>1, <1>2, <1>3, <1>4, <1>5, <1>6, <1>7, <1>8, <1>9, <1>10, <1>11, <1>12
    DEF Next, pushCall, mainThread, destroy, Finished

(* A destroyer has the connected proxies to disconnect, and maybe others.  *)
LEMMA LeftSet ==
  ASSUME NEW f \in [Destroyers -> SUBSET Proxies], NEW d \in Destroyers, NEW u \in SUBSET Unconnected
  PROVE  [f EXCEPT ![d] = Connected \cup u] \in [Destroyers -> SUBSET Proxies]
BY DEF Proxies

(* A destroyer has one proxy less to disconnect.                           *)
LEMMA LeftType ==
  ASSUME NEW f \in [Destroyers -> SUBSET Proxies], NEW d \in Destroyers, NEW p
  PROVE  [f EXCEPT ![d] = @ \ {p}] \in [Destroyers -> SUBSET Proxies]
OBVIOUS

(* The same for the events, the threads and the destroyers.                *)
LEMMA StateTypesStep == TypeOK /\ [Next]_vars => StateTypes'
<1> SUFFICES ASSUME TypeOK, [Next]_vars PROVE StateTypes'
  OBVIOUS
<1> USE ChannelAssumption DEF TypeOK, FlagTypes, StateTypes, transferVars, destroyVars
<1>0. Arrive \in Nat /\ Len(arrived) \in Nat
  BY DEF Arrive
<1>1. CASE pushStart \/ pushFlag
  BY <1>1 DEF pushStart, pushFlag
<1>2. CASE pushEvent
  <2>1. \A s \in Seq(Nat) : Append(s, Arrive) \in Seq(Nat)
    BY <1>0, AppendProperties
  <2>2. arrived' \in Seq(Nat) /\ sent' \in Seq(Nat) /\ queue' \in Seq(Nat)
    BY <1>2, <2>1 DEF pushEvent
  <2> QED BY <1>2, <2>2 DEF pushEvent
<1>3. CASE insert \/ record \/ activate \/ check \/ hold_requests \/ held
  BY <1>3 DEF insert, record, activate, check, hold_requests, held
<1>4. CASE collect
  <2>1. PICK n \in 0 .. MaxPulled :
          /\ arrived' = arrived \o [i \in 1 .. n |-> Len(arrived) + i]
          /\ events' = queue \o [i \in 1 .. n |-> Len(arrived) + i]
    BY <1>4 DEF collect
  <2>2. [i \in 1 .. n |-> Len(arrived) + i] \in Seq(Nat)
    BY <1>0
  <2>3. arrived' \in Seq(Nat) /\ events' \in Seq(Nat)
    BY <2>1, <2>2, ConcatProperties
  <2> QED BY <1>4, <2>3 DEF collect
<1>5. CASE send
  BY <1>5, ConcatProperties DEF send
<1>6. CASE sleep \/ erase \/ unrecord \/ destroyPoa
  BY <1>6 DEF sleep, erase, unrecord, destroyPoa
<1>7. ASSUME NEW d \in Destroyers, destroyStart(d) \/ destroyCheck(d)
      PROVE  StateTypes'
  BY <1>7 DEF destroyStart, destroyCheck
<1>8. ASSUME NEW d \in Destroyers, destroyState(d) \/ destroyActivate(d)
      PROVE  StateTypes'
  <2>1. pm' \in {"holding", "active", "inactive"} /\ UNCHANGED <<main, transferVars, push, told>>
    BY <1>8 DEF destroyState, destroyActivate
  <2>2. dpc' \in [Destroyers -> {"idle", "check", "state", "activate", "proxies", "returned", "raised"}]
    BY <1>8 DEF destroyState, destroyActivate, toProxies
  <2>3. left' = left \/ \E u \in SUBSET Unconnected : left' = [left EXCEPT ![d] = Connected \cup u]
    BY <1>8 DEF destroyState, destroyActivate, toProxies
  <2>4. left' \in [Destroyers -> SUBSET Proxies]
    <3>1. CASE left' = left
      BY <3>1
    <3>2. ASSUME NEW u \in SUBSET Unconnected, left' = [left EXCEPT ![d] = Connected \cup u]
          PROVE  left' \in [Destroyers -> SUBSET Proxies]
      BY <3>2, LeftSet
    <3> QED BY <2>3, <3>1, <3>2
  <2> QED BY <2>1, <2>2, <2>4
<1>9. ASSUME NEW d \in Destroyers, NEW p \in Proxies, destroyProxy(d, p)
      PROVE  StateTypes'
  <2>1. dpc' \in [Destroyers -> {"idle", "check", "state", "activate", "proxies", "returned", "raised"}]
    BY <1>9 DEF destroyProxy
  <2>2. left' = left \/ left' = [left EXCEPT ![d] = @ \ {p}]
    BY <1>9 DEF destroyProxy
  <2>3. left' \in [Destroyers -> SUBSET Proxies]
    <3>1. left \in [Destroyers -> SUBSET Proxies]
      OBVIOUS
    <3> HIDE DEF TypeOK, StateTypes, FlagTypes
    <3> QED BY <2>2, <3>1, LeftType
  <2>4. told' \subseteq Proxies \cup PushSuppliers
    BY <1>9 DEF destroyProxy
  <2> QED BY <1>9, <2>1, <2>3, <2>4 DEF destroyProxy
<1>10. ASSUME NEW d \in Destroyers, destroySuppliers(d)
       PROVE  StateTypes'
  BY <1>10 DEF destroySuppliers
<1>11. CASE ServerShutdown \/ _remove_ref
  BY <1>11 DEF ServerShutdown, _remove_ref
<1>12. CASE UNCHANGED vars
  BY <1>12 DEF vars
<1> QED
  BY <1>1, <1>2, <1>3, <1>4, <1>5, <1>6, <1>7, <1>8, <1>9, <1>10, <1>11, <1>12
    DEF Next, pushCall, mainThread, destroy, Finished

(* _shutdownRequested is set once and stays set.                           *)
LEMMA FlagStep == TypeOK /\ FlagOK /\ [Next]_vars => FlagOK'
<1> SUFFICES ASSUME TypeOK, FlagOK, [Next]_vars PROVE FlagOK'
  OBVIOUS
<1> USE DEF TypeOK, FlagTypes, StateTypes, FlagOK
<1>1. CASE UNCHANGED <<dpc, shutdown>>
  BY <1>1
<1>2. ASSUME NEW d \in Destroyers, destroyStart(d) \/ destroyCheck(d) \/ destroyState(d) \/ destroyActivate(d)
      PROVE  FlagOK'
  BY <1>2 DEF destroyStart, destroyCheck, destroyState, destroyActivate, toProxies
<1>3. ASSUME NEW d \in Destroyers, NEW p \in Proxies, destroyProxy(d, p)
      PROVE  FlagOK'
  BY <1>3 DEF destroyProxy
<1>4. ASSUME NEW d \in Destroyers, destroySuppliers(d)
      PROVE  FlagOK'
  BY <1>4 DEF destroySuppliers
<1>5. CASE pushStart \/ pushCall \/ mainThread \/ ServerShutdown \/ _remove_ref \/ UNCHANGED vars
  <2>1. UNCHANGED <<dpc, shutdown>>
    BY <1>5 DEF pushStart, pushCall, pushEvent, pushFlag, mainThread, insert, record, activate,
                check, hold_requests, held, collect, send, sleep, erase, unrecord, destroyPoa,
                ServerShutdown, _remove_ref, vars, destroyVars
  <2> QED BY <1>1, <2>1
<1> QED BY <1>2, <1>3, <1>4, <1>5 DEF Next, destroy, Finished

(* delete_all() that was called stays called.                              *)
LEMMA CalledStep == TypeOK /\ [Next]_vars /\ DeleteAllCalled => DeleteAllCalled'
<1> SUFFICES ASSUME TypeOK, [Next]_vars, NEW e \in Destroyers, e = "delete_all", dpc[e] # "idle"
             PROVE  dpc'[e] # "idle"
  BY DEF DeleteAllCalled
<1> USE DEF TypeOK, StateTypes
<1>1. ASSUME NEW d \in Destroyers, destroyStart(d) \/ destroyCheck(d) \/ destroyState(d) \/ destroyActivate(d)
      PROVE  dpc'[e] # "idle"
  BY <1>1 DEF destroyStart, destroyCheck, destroyState, destroyActivate, toProxies
<1>2. ASSUME NEW d \in Destroyers, NEW p \in Proxies, destroyProxy(d, p)
      PROVE  dpc'[e] # "idle"
  BY <1>2 DEF destroyProxy
<1>3. ASSUME NEW d \in Destroyers, destroySuppliers(d)
      PROVE  dpc'[e] # "idle"
  BY <1>3 DEF destroySuppliers
<1>4. CASE pushStart \/ pushCall \/ mainThread \/ ServerShutdown \/ _remove_ref \/ UNCHANGED vars
  <2>1. UNCHANGED dpc
    BY <1>4 DEF pushStart, pushCall, pushEvent, pushFlag, mainThread, insert, record, activate,
                check, hold_requests, held, collect, send, sleep, erase, unrecord, destroyPoa,
                ServerShutdown, _remove_ref, vars, destroyVars
  <2> QED BY <2>1
<1> QED BY <1>1, <1>2, <1>3, <1>4 DEF Next, destroy, Finished

(* Nobody comes in during a transfer, as long as delete_all() is not       *)
(* called.                                                                 *)
LEMMA GateStep ==
  ASSUME TypeOK, FlagOK, GateOK, ~DeleteAllCalled, ~DeleteAllCalled', [Next]_vars
  PROVE  GateOK'
<1> USE ChannelAssumption DEF TypeOK, FlagTypes, StateTypes, GateOK, Transfer, Running, transferVars, destroyVars
<1>0. \A d \in Destroyers : d # "client" => d = "delete_all" /\ dpc[d] = "idle" /\ dpc'[d] = "idle"
  BY DEF DeleteAllCalled
<1>1. CASE pushStart \/ pushEvent \/ pushFlag
  BY <1>1 DEF pushStart, pushEvent, pushFlag
<1>2. CASE insert \/ record \/ activate \/ check \/ hold_requests
  BY <1>2 DEF insert, record, activate, check, hold_requests
<1>3. CASE held
  BY <1>0, <1>3 DEF held, CallsUnderWay
<1>4. CASE collect \/ send \/ sleep \/ erase \/ unrecord \/ destroyPoa
  BY <1>4 DEF collect, send, sleep, erase, unrecord, destroyPoa
<1>5. ASSUME NEW d \in Destroyers, destroyStart(d)
      PROVE  GateOK'
  <2>1. ~Transfer
    BY <1>0, <1>5 DEF destroyStart
  <2> QED BY <1>5, <2>1 DEF destroyStart
<1>6. ASSUME NEW d \in Destroyers, Running(d), UNCHANGED <<main, push>>,
             main = "holding" /\ pm' = "active" => shutdown'
      PROVE  GateOK'
  BY <1>6
<1>7. ASSUME NEW d \in Destroyers, destroyCheck(d)
      PROVE  GateOK'
  BY <1>6, <1>7 DEF destroyCheck
<1>8. ASSUME NEW d \in Destroyers, destroyState(d) \/ destroyActivate(d)
      PROVE  GateOK'
  BY <1>6, <1>8 DEF destroyState, destroyActivate, toProxies, FlagOK
<1>9. ASSUME NEW d \in Destroyers, NEW p \in Proxies, destroyProxy(d, p)
      PROVE  GateOK'
  BY <1>6, <1>9 DEF destroyProxy
<1>10. ASSUME NEW d \in Destroyers, destroySuppliers(d)
       PROVE  GateOK'
  BY <1>6, <1>10 DEF destroySuppliers
<1>11. CASE ServerShutdown \/ _remove_ref
  BY <1>11 DEF ServerShutdown, _remove_ref
<1>12. CASE UNCHANGED vars
  BY <1>12 DEF vars
<1> QED
  BY <1>1, <1>2, <1>3, <1>4, <1>5, <1>7, <1>8, <1>9, <1>10, <1>11, <1>12
    DEF Next, pushCall, mainThread, destroy, Finished

(* Events that join the queue come after all that is sent or queued.       *)
LEMMA Concat ==
  ASSUME TypeOK, NEW t \in Seq(Nat)
  PROVE  /\ sent \o queue \in Seq(Nat) /\ queue \o t \in Seq(Nat)
         /\ (sent \o queue) \o t = sent \o (queue \o t)
<1>1. sent \in Seq(Nat) /\ queue \in Seq(Nat)
  BY DEF TypeOK, StateTypes
<1>2. sent \o queue \in Seq(Nat) /\ queue \o t \in Seq(Nat)
  BY <1>1, ConcatProperties
<1>3. (sent \o queue) \o t = sent \o (queue \o t)
  BY ONLY <1>1, t \in Seq(Nat), ConcatAssociative, SMTT(30)
<1> QED BY <1>2, <1>3

(* The order of the events inside the channel survives every step.         *)
LEMMA OrderStep ==
  ASSUME TypeOK, GateOK, OrderOK, [Next]_vars
  PROVE  OrderOK'
<1> USE DEF TypeOK, FlagTypes, StateTypes, OrderOK, transferVars
<1>0. Arrive \in Nat /\ Len(arrived) \in Nat
  BY DEF Arrive
<1>1. CASE pushEvent
  <2>1. main # "send"
    BY <1>1 DEF pushEvent, GateOK, Transfer
  <2>2. events = << >> /\ arrived = sent \o queue
    BY <2>1, ConcatEmptySeq
  <2>3. CASE ~useLocal
    <3>1. queue = << >> /\ arrived = sent
      BY <2>2, <2>3, ConcatEmptySeq
    <3>2. arrived' = Append(sent, Arrive) /\ sent' = Append(sent, Arrive)
      BY <1>1, <2>3, <3>1 DEF pushEvent
    <3>3. sent' \in Seq(Nat)
      BY <1>0, <3>2, AppendProperties
    <3>4. sent' = sent' \o << >> \o << >>
      BY <3>3, ConcatEmptySeq
    <3> QED BY <1>1, <2>2, <2>3, <3>1, <3>2, <3>4 DEF pushEvent
  <2>4. CASE useLocal
    <3>1. /\ arrived' = Append(arrived, Arrive) /\ queue' = Append(queue, Arrive)
          /\ sent' = sent /\ events' = << >> /\ useLocal'
      BY <1>1, <2>2, <2>4 DEF pushEvent
    <3>2. <<Arrive>> \in Seq(Nat)
      BY <1>0
    <3>3. \A s \in Seq(Nat) : Append(s, Arrive) = s \o <<Arrive>>
      BY <1>0, AppendIsConcat
    <3>4. (sent \o queue) \o <<Arrive>> = sent \o (queue \o <<Arrive>>) /\ sent \o queue \in Seq(Nat)
      BY <3>2, Concat
    <3>5. arrived' = sent \o queue'
      BY <2>2, <3>1, <3>3, <3>4, Zenon
    <3>6. sent' \o events' = sent
      BY <3>1, ConcatEmptySeq
    <3> QED BY <1>1, <2>1, <3>1, <3>5, <3>6 DEF pushEvent
  <2> QED BY <2>3, <2>4
<1>2. CASE pushFlag
  BY <1>2 DEF pushFlag
<1>3. CASE collect
  <2>1. PICK n \in 0 .. MaxPulled :
          /\ arrived' = arrived \o [i \in 1 .. n |-> Len(arrived) + i]
          /\ events' = queue \o [i \in 1 .. n |-> Len(arrived) + i]
    BY <1>3 DEF collect
  <2> DEFINE pulled == [i \in 1 .. n |-> Len(arrived) + i]
  <2>2. pulled \in Seq(Nat)
    BY <1>0, ChannelAssumption
  <2> HIDE DEF pulled
  <2>3. arrived = sent \o queue
    BY <1>3, ConcatEmptySeq DEF collect
  <2>4. arrived' = (sent \o queue) \o pulled /\ events' = queue \o pulled
    BY <2>1, <2>3 DEF pulled
  <2>5. (sent \o queue) \o pulled = sent \o (queue \o pulled) /\ queue \o pulled \in Seq(Nat)
    BY <2>2, Concat
  <2>6. arrived' = sent \o events' /\ events' \in Seq(Nat)
    BY <2>4, <2>5, Zenon
  <2>7. sent \o events' \in Seq(Nat)
    BY <2>6, ConcatProperties
  <2>8. sent' = sent /\ queue' = << >> /\ main' = "send"
    BY <1>3 DEF collect
  <2> QED BY <2>6, <2>7, <2>8, ConcatEmptySeq
<1>4. CASE send
  <2>1. sent' = sent \o events /\ sent' \in Seq(Nat) /\ events' = << >>
    BY <1>4, ConcatProperties DEF send
  <2>2. sent' \o events' = sent \o events
    BY <2>1, ConcatEmptySeq
  <2> QED BY <1>4, <2>1, <2>2 DEF send
<1>5. CASE UNCHANGED transferVars /\ main # "send" /\ main' # "send"
  BY <1>5
<1>6. CASE UNCHANGED <<transferVars, main>>
  BY <1>6
<1>7. CASE insert \/ record \/ activate \/ check \/ hold_requests \/ held \/ sleep \/ erase
           \/ unrecord \/ destroyPoa
  BY <1>5, <1>7 DEF insert, record, activate, check, hold_requests, held, sleep, erase,
                    unrecord, destroyPoa
<1>8. CASE pushStart \/ ServerShutdown \/ _remove_ref \/ UNCHANGED vars
  BY <1>6, <1>8 DEF pushStart, ServerShutdown, _remove_ref, vars
<1>9. ASSUME NEW d \in Destroyers,
             destroyStart(d) \/ destroyCheck(d) \/ destroyState(d) \/ destroyActivate(d) \/ destroySuppliers(d)
      PROVE  OrderOK'
  BY <1>6, <1>9 DEF destroyStart, destroyCheck, destroyState, destroyActivate, toProxies, destroySuppliers
<1>10. ASSUME NEW d \in Destroyers, NEW p \in Proxies, destroyProxy(d, p)
       PROVE  OrderOK'
  BY <1>6, <1>10 DEF destroyProxy
<1> QED
  BY <1>1, <1>2, <1>3, <1>4, <1>7, <1>8, <1>9, <1>10
    DEF Next, pushCall, mainThread, destroy, Finished

(* The invariant is inductive.                                             *)
LEMMA Inductive == IInv /\ [Next]_vars => IInv'
BY FlagTypesStep, StateTypesStep, FlagStep, CalledStep, GateStep, OrderStep DEF IInv, TypeOK

LEMMA Invariance == Spec => []IInv
BY InitIInv, Inductive, PTL DEF Spec

-----------------------------------------------------------------------------
(* Every variable of the channel keeps its type, whoever destroys it and   *)
(* whenever the server stops.                                              *)
THEOREM TypeCorrect == Spec => []TypeOK
<1>1. IInv => TypeOK
  BY DEF IInv
<1> QED BY <1>1, Invariance, PTL

(* hold_requests(1) does what EventChannel.h promises: while mainLoop()    *)
(* moves events from the suppliers' to the consumers' side, no call of     *)
(* push() is under way, also when a client calls destroy() just then.      *)
THEOREM TransfersAreExclusive == Spec => []TransferIsExclusive
<1>1. IInv => TransferIsExclusive
  BY DEF IInv, GateOK, Transfer, TransferIsExclusive
<1> QED BY <1>1, Invariance, PTL

(* Both ways an event may take through the channel, past the queue or      *)
(* through it, keep all events in the order in which they arrived.         *)
THEOREM EventsKeepOrder == Spec => []NothingLostOrOvertaken
<1>1. IInv => NothingLostOrOvertaken
  BY DEF IInv, OrderOK, NothingLostOrOvertaken
<1> QED BY <1>1, Invariance, PTL
=============================================================================
