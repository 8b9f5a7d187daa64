----------------------- MODULE ProxyPushSupplierProofs -----------------------
(***************************************************************************)
(* Proofs about ProxyPushSupplier for every set of proxies, queue length   *)
(* and number of events and calls.                                         *)
(*                                                                         *)
(* The argument.  The manager's thread has the mutex from the moment it    *)
(* lists the servants until the round is over, and a servant is only freed *)
(* under the mutex.  The POA's thread runs without it; there the proof     *)
(* rests on the order of disconnect_push_supplier's steps: the servant is  *)
(* deactivated before its target is forgotten, so what a late trigger()    *)
(* does to it no client can see.  trigger() does it the other way round: a *)
(* target that a deactivated servant still has is one that came too late.  *)
(* A connection that is missing in the log file is one that is just being  *)
(* written, or whose record was just erased by a thread that will          *)
(* deactivate the servant next.                                            *)
(***************************************************************************)
EXTENDS ProxyPushSupplier, SequenceTheorems, TLAPS

StreamOK ==
  /\ \A p \in Proxies : pos[p] <= Len(stream)
  /\ Len(stream) <= MaxEvents
  /\ sender = "locking" => Len(stream) < MaxEvents

CallOK ==
  /\ call.pc = "idle" => call = idleCall
  /\ call.pc # "idle" => call.p \in Proxies /\ call.op # "none"
  /\ call.pc = "target" => poa[call.p] # "active"

(* A call runs in a servant once there is one, and nothing is left of one  *)
(* that was freed.                                                         *)
ServantOK ==
  /\ call.pc \in {"incarnate", "insert"} => poa[call.p] = "inactive"
  /\ call.pc \notin {"idle", "incarnate", "insert"} => poa[call.p] # "inactive"
  /\ \A p \in Proxies : poa[p] = "inactive" => ~target[p] /\ req[p] = "nil"

ManagerOK == mgr \in {"push", "erase", "deactivate"} => cur \in Proxies

(* A connected consumer was not told of an end yet.                        *)
ToldOK == \A p \in Proxies : target[p] => told[p] = 0

(* A target that trigger() has found and lost, or that a deactivated       *)
(* servant has, came too late or is about to be told.                      *)
LateOK ==
  /\ mgr \in {"erase", "deactivate"} /\ target[cur] => late[cur]
  /\ \A p \in Proxies :
       poa[p] # "active" /\ target[p] => late[p] \/ (call.p = p /\ call.pc = "target")

(* A connection the log file does not have: it is being written, or its    *)
(* proxy is about to be deactivated.                                       *)
LoggedOK ==
  HasLog /\ stray = "none" =>
    \A p \in Proxies :
      poa[p] = "active" /\ target[p] =>
        \/ logged[p]
        \/ call.p = p /\ call.pc \in {"output", "deactivate"}
        \/ cur = p /\ mgr = "deactivate"

(* The inductive invariant.                                                *)
IInv ==
  /\ TypeOK /\ StreamOK /\ CallOK /\ ServantOK /\ ManagerOK
  /\ ToldOK /\ LateOK /\ LoggedOK
  /\ NoFreedServant /\ NoOrphanRequest /\ EndIsTold

-----------------------------------------------------------------------------
(* Steps of the threads that touch no proxy, log record or event.          *)
Quiet ==
  \/ SendStart \/ SendSignal \/ incarnateWake \/ loop \/ endRound \/ resume
  \/ _remove_ref \/ _remove_refWake \/ join \/ UNCHANGED vars
  \/ \E p \in Proxies : StartCall("connect", p) \/ StartCall("disconnect", p)

LEMMA QuietFrame == Quiet => UNCHANGED <<queueVars, proxyVars, logVars>>
<1>1. CASE SendStart \/ SendSignal \/ incarnateWake \/ loop \/ endRound \/ resume
  BY <1>1 DEF SendStart, SendSignal, incarnateWake, loop, endRound, resume
<1>2. CASE _remove_ref \/ _remove_refWake \/ join \/ UNCHANGED vars
  BY <1>2 DEF _remove_ref, _remove_refWake, join, vars
<1>3. CASE \E p \in Proxies : StartCall("connect", p) \/ StartCall("disconnect", p)
  BY <1>3 DEF StartCall
<1> QED BY <1>1, <1>2, <1>3 DEF Quiet

LEMMA Steps ==
  ASSUME [Next]_vars
  PROVE  \/ Quiet \/ SendAppend \/ DestroyPoa
         \/ incarnate \/ incarnateInsert \/ connect \/ connectOutput
         \/ disconnectErase \/ disconnectDeactivate \/ disconnectTarget
         \/ triggerErase \/ triggerDeactivate \/ triggerPush
         \/ \E p \in Proxies : etherealize(p) \/ Respond(p) \/ triggerFailed(p) \/ triggerPoll(p)
BY DEF Next, Quiet, Finished, POAThread, Manager

(* A new manager satisfies the invariant.                                  *)
LEMMA InitIInv == Init => IInv
<1> SUFFICES ASSUME Init PROVE IInv
  OBVIOUS
<1> USE PushAssumption DEF Init
<1>1. QueueTypes /\ StreamOK
  BY DEF QueueTypes, StreamOK, Queue!Init, Queue!Absent
<1>2. FlagTypes
  BY DEF FlagTypes
<1>3. ProxyTypes
  BY DEF ProxyTypes
<1>4. ThreadTypes
  BY DEF ThreadTypes, idleCall
<1>5. CallOK /\ ServantOK /\ ManagerOK
  BY DEF CallOK, ServantOK, ManagerOK, idleCall
<1>6. ToldOK /\ LateOK /\ LoggedOK /\ NoOrphanRequest /\ EndIsTold
  BY DEF ToldOK, LateOK, LoggedOK, NoOrphanRequest, EndIsTold
<1>7. NoFreedServant
  BY DEF NoFreedServant
<1> QED BY <1>1, <1>2, <1>3, <1>4, <1>5, <1>6, <1>7 DEF IInv, TypeOK

(* Every reader stands within the stream, which stays within its bound.    *)
LEMMA StreamStep ==
  ASSUME QueueTypes, ThreadTypes, StreamOK, CallOK, [Next]_vars
  PROVE  QueueTypes' /\ StreamOK'
<1> DEFINE Goal == QueueTypes' /\ StreamOK'
<1> USE PushAssumption DEF QueueTypes, ThreadTypes, StreamOK, CallOK, Queue!Absent
<1>0. Len(stream) \in Nat /\ \A i \in 1 .. Len(stream) : stream[i] \in 1 .. MaxEvents
  BY ElementOfSeq
<1>1. CASE UNCHANGED queueVars /\ (sender' = "locking" => Len(stream) < MaxEvents)
  BY <1>1 DEF queueVars
<1>2. CASE SendAppend
  <2>1. Len(stream) + 1 \in 1 .. MaxEvents
    BY <1>0, <1>2 DEF SendAppend
  <2>2. stream' \in Seq(1 .. MaxEvents) /\ Len(stream') = Len(stream) + 1
    BY <1>2, <2>1, AppendProperties DEF SendAppend, Queue!Append1
  <2>3. \A p \in Proxies : pos'[p] \in {pos[p], Len(stream) + 1}
    BY <1>2 DEF SendAppend, Queue!Append1, Queue!AfterAppend
  <2>4. pos' \in [Proxies -> {Queue!Absent} \cup 0 .. MaxEvents]
    BY <1>2, <2>1, <2>3 DEF SendAppend, Queue!Append1
  <2>5. ASSUME NEW p \in Proxies
        PROVE  pos'[p] <= Len(stream')
    <3>1. pos[p] \in Int /\ pos[p] <= Len(stream)
      BY <1>0
    <3>2. pos'[p] = pos[p] \/ pos'[p] = Len(stream) + 1
      BY <2>3
    <3> QED BY <1>0, <2>2, <3>1, <3>2
  <2>6. Len(stream') <= MaxEvents /\ sender' = "signal" /\ seen' = seen
    BY <1>2, <2>1, <2>2 DEF SendAppend, Queue!Append1
  <2> QED BY <2>2, <2>4, <2>5, <2>6
<1>3. CASE incarnate
  <2>1. Queue!Newest(stream) \in 0 .. MaxEvents
    BY <1>0 DEF Queue!Newest
  <2>2. stream' = stream /\ sender' = sender /\ call.p \in Proxies
    BY <1>3 DEF incarnate, Queue!Join
  <2>3. pos' = [pos EXCEPT ![call.p] = Len(stream)]
    BY <1>3 DEF incarnate, Queue!Join
  <2>4. seen' \in [Proxies -> 0 .. MaxEvents]
    BY <1>3, <2>1, <2>2 DEF incarnate, Queue!Join
  <2>5. pos' \in [Proxies -> {Queue!Absent} \cup 0 .. MaxEvents]
    BY <1>0, <2>2, <2>3
  <2>6. \A p \in Proxies : pos'[p] <= Len(stream)
    BY <1>0, <2>2, <2>3
  <2> QED BY <1>0, <2>2, <2>4, <2>5, <2>6
<1>4. CASE triggerPush
  <2>1. CASE UNCHANGED queueVars
    BY <1>1, <1>4, <2>1 DEF triggerPush
  <2>2. CASE Queue!Read(cur)
    <3>1. stream' = stream /\ sender' = sender
      BY <1>4, <2>2 DEF triggerPush, Queue!Read
    <3>2. CASE cur \in Proxies
      <4>1. pos[cur] + 1 \in 1 .. Len(stream)
        BY <1>0, <2>2, <3>2 DEF Queue!Read
      <4>2. stream[pos[cur] + 1] \in 1 .. MaxEvents
        BY <1>0, <4>1
      <4>3. seen' \in [Proxies -> 0 .. MaxEvents]
        BY <2>2, <3>2, <4>2 DEF Queue!Read
      <4>4. pos' = [pos EXCEPT ![cur] = pos[cur] + 1]
        BY <2>2 DEF Queue!Read
      <4>5. pos' \in [Proxies -> {Queue!Absent} \cup 0 .. MaxEvents]
        BY <1>0, <3>2, <4>1, <4>4
      <4>6. \A p \in Proxies : pos'[p] <= Len(stream)
        BY <1>0, <3>2, <4>1, <4>4
      <4> QED BY <1>0, <3>1, <4>3, <4>5, <4>6
    <3>3. CASE cur \notin Proxies
      BY <2>2, <3>1, <3>3 DEF Queue!Read
    <3> QED BY <3>2, <3>3
  <2> QED BY <1>4, <2>1, <2>2 DEF triggerPush
<1>5. ASSUME NEW p \in Proxies, etherealize(p)
      PROVE  Goal
  BY <1>0, <1>5 DEF etherealize, Queue!Leave
<1>6. CASE Quiet
  <2>1. sender' = "locking" => Len(stream) < MaxEvents
    BY <1>6 DEF Quiet, SendStart, SendSignal, incarnateWake, loop, endRound, resume, _remove_ref,
                _remove_refWake, join, StartCall, vars
  <2> QED BY <1>1, <1>6, <2>1, QuietFrame
<1>7. CASE connect \/ connectOutput \/ disconnectErase \/ disconnectDeactivate \/ disconnectTarget
           \/ triggerErase \/ triggerDeactivate \/ DestroyPoa \/ incarnateInsert
  BY <1>1, <1>7 DEF connect, incarnateInsert, connectOutput, disconnectErase, disconnectDeactivate,
                    disconnectTarget, triggerErase, triggerDeactivate, DestroyPoa
<1>8. ASSUME NEW p \in Proxies, Respond(p) \/ triggerFailed(p) \/ triggerPoll(p)
      PROVE  Goal
  BY <1>1, <1>8 DEF Respond, triggerFailed, triggerPoll
<1> HIDE DEF Goal
<1> QED BY <1>2, <1>3, <1>4, <1>5, <1>6, <1>7, <1>8, Steps DEF Goal

(* The flags keep their types.                                             *)
LEMMA FlagTypesStep ==
  ASSUME FlagTypes, CallOK, [Next]_vars
  PROVE  FlagTypes'
<1> USE DEF FlagTypes
<1>1. CASE UNCHANGED <<target, ended, late, logged, busy, waiting>>
  BY <1>1
<1>2. CASE Quiet
  <2>1. busy' \in BOOLEAN /\ waiting' \in BOOLEAN
    BY <1>2 DEF Quiet, SendStart, SendSignal, incarnateWake, loop, endRound, resume, _remove_ref,
                _remove_refWake, join, StartCall, signal, leaveRound, vars, mgrVars
  <2> QED BY <1>2, <2>1, QuietFrame DEF proxyVars, logVars
<1>3. CASE incarnate
  BY <1>3 DEF incarnate, Queue!Join, mgrVars, proxyVars, logVars
<1>4. CASE connect
  BY <1>4 DEF connect, ending, mgrVars, proxyVars, logVars
<1>5. CASE connectOutput
  BY <1>5 DEF connectOutput, AfterLine, mgrVars, proxyVars, logVars
<1>6. CASE disconnectErase
  BY <1>6 DEF disconnectErase, eraseKey, eraseKeyRaises, AfterLine, mgrVars, proxyVars, logVars
<1>7. CASE disconnectTarget
  BY <1>7 DEF disconnectTarget, closeTarget, mgrVars, proxyVars, logVars
<1>8. CASE triggerErase
  BY <1>8 DEF triggerErase, leaveRound, eraseKey, eraseKeyRaises, AfterLine, mgrVars, proxyVars, logVars
<1>9. CASE triggerPush
  BY <1>9 DEF triggerPush, leaveRound, Queue!Read, mgrVars, proxyVars, logVars
<1>10. ASSUME NEW p \in Proxies, triggerFailed(p)
      PROVE  FlagTypes'
  BY <1>10 DEF triggerFailed, closeTarget, mgrVars, proxyVars, logVars
<1>11. ASSUME NEW p \in Proxies, triggerPoll(p)
      PROVE  FlagTypes'
  BY <1>11 DEF triggerPoll, mgrVars, proxyVars, logVars
<1>12. CASE SendAppend \/ disconnectDeactivate \/ triggerDeactivate \/ incarnateInsert
  BY <1>1, <1>12 DEF SendAppend, disconnectDeactivate, triggerDeactivate, incarnateInsert, queueVars,
    proxyVars, logVars, mgrVars
<1>13. ASSUME NEW p \in Proxies, etherealize(p) \/ Respond(p)
      PROVE  FlagTypes'
  BY <1>13 DEF etherealize, Respond, queueVars, proxyVars, logVars, mgrVars
<1>14. CASE DestroyPoa
  BY <1>14 DEF DestroyPoa, mgrVars, logVars
<1> QED BY <1>2, <1>3, <1>4, <1>5, <1>6, <1>7, <1>8, <1>9, <1>10, <1>11, <1>12, <1>13,
      <1>14, Steps

(* A consumer is told at most once of the end of its connection.           *)
LEMMA ProxyTypesStep ==
  ASSUME FlagTypes, ProxyTypes, CallOK, ToldOK, [Next]_vars
  PROVE  ProxyTypes'
<1> USE DEF ProxyTypes
<1>1. CASE UNCHANGED <<poa, req, told, stray>>
  BY <1>1
<1>2. CASE Quiet
  BY <1>1, <1>2, QuietFrame DEF proxyVars, logVars, queueVars
<1>3. CASE incarnate
  BY <1>3 DEF incarnate, Queue!Join, mgrVars, proxyVars, logVars, ToldOK
<1>4. CASE connect
  BY <1>4 DEF connect, mgrVars, proxyVars, logVars, ToldOK
<1>5. CASE connectOutput
  BY <1>5 DEF connectOutput, AfterLine, mgrVars, proxyVars, logVars, ToldOK
<1>6. CASE disconnectErase
  BY <1>6 DEF disconnectErase, eraseKey, eraseKeyRaises, AfterLine, mgrVars, proxyVars, logVars,
    ToldOK
<1>7. CASE disconnectDeactivate
  BY <1>7 DEF disconnectDeactivate, deactivateObject, mgrVars, proxyVars, logVars, ToldOK
<1>8. CASE disconnectTarget
  BY <1>8 DEF disconnectTarget, closeTarget, mgrVars, proxyVars, logVars, ToldOK
<1>9. CASE triggerErase
  BY <1>9 DEF triggerErase, eraseKey, eraseKeyRaises, AfterLine, mgrVars, proxyVars, logVars,
    ToldOK
<1>10. CASE triggerDeactivate
  BY <1>10 DEF triggerDeactivate, deactivateObject, mgrVars, proxyVars, logVars, ToldOK
<1>11. CASE triggerPush
  BY <1>11 DEF triggerPush, Queue!Read, mgrVars, proxyVars, logVars, ToldOK
<1>12. CASE DestroyPoa
  BY <1>12 DEF DestroyPoa, mgrVars, proxyVars, logVars, ToldOK
<1>13. ASSUME NEW p \in Proxies, etherealize(p)
      PROVE  ProxyTypes'
  BY <1>13 DEF etherealize, Queue!Leave, mayEtherealize, Locked, mgrVars, proxyVars, logVars,
    ToldOK
<1>14. ASSUME NEW p \in Proxies, Respond(p)
      PROVE  ProxyTypes'
  BY <1>14 DEF Respond, mgrVars, proxyVars, logVars, ToldOK
<1>15. ASSUME NEW p \in Proxies, triggerFailed(p)
      PROVE  ProxyTypes'
  BY <1>15 DEF triggerFailed, closeTarget, mgrVars, proxyVars, logVars, ToldOK
<1>16. ASSUME NEW p \in Proxies, triggerPoll(p)
      PROVE  ProxyTypes'
  BY <1>16 DEF triggerPoll, mgrVars, proxyVars, logVars, ToldOK
<1>17. CASE SendAppend
  BY <1>1, <1>17 DEF SendAppend, queueVars, proxyVars, logVars, mgrVars
<1>18. CASE incarnateInsert
  BY <1>18 DEF incarnateInsert, logVars
<1> QED BY <1>2, <1>3, <1>4, <1>5, <1>6, <1>7, <1>8, <1>9, <1>10, <1>11, <1>12, <1>13, <1>14,
      <1>15, <1>16, <1>17, <1>18, Steps

(* The threads keep their types.                                           *)
LEMMA ThreadTypesStep ==
  ASSUME ProxyTypes, ThreadTypes, CallOK, [Next]_vars
  PROVE  ThreadTypes'
<1> USE PushAssumption DEF ThreadTypes
<1>1. CASE UNCHANGED <<mgr, todo, cur, call, ncalls, sender, closer, refs>>
  BY <1>1
<1>2. CASE Quiet
  <2>1. CASE SendStart \/ SendSignal \/ incarnateWake
    BY <2>1 DEF SendStart, SendSignal, incarnateWake, signal, Signalled, mgrVars, CallOK
  <2>2. CASE loop \/ endRound \/ resume
    BY <2>2 DEF loop, endRound, leaveRound, resume, pause, servants
  <2>3. CASE _remove_ref \/ _remove_refWake \/ join \/ UNCHANGED vars
    BY <2>3 DEF _remove_ref, _remove_refWake, join, signal, Signalled, vars, mgrVars
  <2>4. ASSUME NEW p \in Proxies, NEW op \in {"connect", "disconnect"}, StartCall(op, p)
        PROVE  ThreadTypes'
    BY <2>4 DEF StartCall, mgrVars
  <2> QED BY <1>2, <2>1, <2>2, <2>3, <2>4 DEF Quiet
<1>3. CASE SendAppend
  BY <1>3 DEF SendAppend, Queue!Append1, mgrVars, idleCall
<1>4. CASE incarnate
  BY <1>4 DEF incarnate, Queue!Join, mgrVars, idleCall
<1>5. CASE connect
  BY <1>5 DEF connect, mgrVars, idleCall
<1>6. CASE connectOutput
  BY <1>6 DEF connectOutput, AfterLine, mgrVars, idleCall
<1>7. CASE disconnectErase
  BY <1>7 DEF disconnectErase, eraseKey, eraseKeyRaises, AfterLine, mgrVars, idleCall
<1>8. CASE disconnectDeactivate
  BY <1>8 DEF disconnectDeactivate, deactivateObject, mgrVars, idleCall
<1>9. CASE disconnectTarget
  BY <1>9 DEF disconnectTarget, closeTarget, mgrVars, idleCall
<1>10. CASE triggerErase
  BY <1>10 DEF triggerErase, leaveRound, eraseKey, eraseKeyRaises, AfterLine, mgrVars, idleCall
<1>11. CASE triggerDeactivate
  BY <1>11 DEF triggerDeactivate, deactivateObject, mgrVars, idleCall
<1>12. CASE triggerPush
  BY <1>12 DEF triggerPush, leaveRound, Queue!Read, mgrVars, idleCall
<1>13. CASE DestroyPoa
  BY <1>13 DEF DestroyPoa, mgrVars, idleCall
<1>14. ASSUME NEW p \in Proxies, triggerFailed(p)
      PROVE  ThreadTypes'
  BY <1>14 DEF triggerFailed, closeTarget, mgrVars, idleCall
<1>15. ASSUME NEW p \in Proxies, triggerPoll(p)
      PROVE  ThreadTypes'
  BY <1>15 DEF triggerPoll, mgrVars, idleCall
<1>16. ASSUME NEW p \in Proxies, etherealize(p) \/ Respond(p)
      PROVE  ThreadTypes'
  BY <1>1, <1>16 DEF etherealize, Respond, queueVars, proxyVars, logVars, mgrVars
<1>17. CASE incarnateInsert
  BY <1>17 DEF incarnateInsert, mgrVars
<1> QED BY <1>2, <1>3, <1>4, <1>5, <1>6, <1>7, <1>8, <1>9, <1>10, <1>11, <1>12, <1>13, <1>14,
      <1>15, <1>16, <1>17, Steps

(* disconnect_push_supplier() forgets the target of a servant that is not  *)
(* active any more; nobody etherealizes a servant with a call in it.       *)
LEMMA CallStep ==
  ASSUME ProxyTypes, ThreadTypes, CallOK, [Next]_vars
  PROVE  CallOK'
<1> USE DEF ProxyTypes, ThreadTypes, CallOK
<1>1. CASE UNCHANGED <<call, poa>>
  BY <1>1
<1>2. CASE Quiet
  <2>1. CASE incarnateWake
    BY <2>1 DEF incarnateWake, proxyVars
  <2>2. ASSUME NEW p \in Proxies, NEW op \in {"connect", "disconnect"}, StartCall(op, p)
        PROVE  CallOK'
    BY <2>2 DEF StartCall, proxyVars
  <2>3. CASE ~incarnateWake /\ UNCHANGED call
    BY <1>1, <1>2, <2>3, QuietFrame DEF proxyVars
  <2>4. incarnateWake \/ UNCHANGED call
        \/ \E p \in Proxies : StartCall("connect", p) \/ StartCall("disconnect", p)
    BY <1>2 DEF Quiet, SendStart, SendSignal, loop, endRound, resume, _remove_ref, _remove_refWake,
                join, vars
  <2> QED BY <2>1, <2>2, <2>3, <2>4
<1>3. CASE incarnate
  BY <1>3 DEF incarnate, Queue!Join, idleCall, proxyVars
<1>4. CASE connect
  BY <1>4 DEF connect, idleCall, proxyVars
<1>5. CASE connectOutput
  BY <1>5 DEF connectOutput, AfterLine, idleCall, proxyVars
<1>6. CASE disconnectErase
  BY <1>6 DEF disconnectErase, eraseKey, eraseKeyRaises, AfterLine, idleCall, proxyVars
<1>7. CASE disconnectDeactivate
  BY <1>7 DEF disconnectDeactivate, deactivateObject, idleCall, proxyVars
<1>8. CASE disconnectTarget
  BY <1>8 DEF disconnectTarget, closeTarget, idleCall, proxyVars
<1>9. CASE triggerDeactivate
  BY <1>9 DEF triggerDeactivate, deactivateObject, idleCall, proxyVars
<1>10. CASE DestroyPoa
  BY <1>10 DEF DestroyPoa, idleCall, proxyVars
<1>11. ASSUME NEW p \in Proxies, etherealize(p)
      PROVE  CallOK'
  BY <1>11 DEF etherealize, Queue!Leave, mayEtherealize, Locked, idleCall, proxyVars
<1>12. CASE SendAppend \/ triggerErase \/ triggerPush
  BY <1>1, <1>12 DEF SendAppend, triggerErase, triggerPush, queueVars, proxyVars, logVars, mgrVars
<1>13. ASSUME NEW p \in Proxies, Respond(p) \/ triggerFailed(p) \/ triggerPoll(p)
      PROVE  CallOK'
  BY <1>1, <1>13 DEF Respond, triggerFailed, triggerPoll, queueVars, proxyVars, logVars, mgrVars
<1>14. CASE incarnateInsert
  BY <1>14 DEF incarnateInsert
<1> QED BY <1>2, <1>3, <1>4, <1>5, <1>6, <1>7, <1>8, <1>9, <1>10, <1>11, <1>12, <1>13,
      <1>14, Steps

(* No servant is freed with a call in it.                                  *)
LEMMA ServantStep ==
  ASSUME FlagTypes, ProxyTypes, ThreadTypes, CallOK, ServantOK, ManagerOK, NoFreedServant,
         [Next]_vars
  PROVE  ServantOK'
<1> USE DEF FlagTypes, ProxyTypes, ThreadTypes, CallOK, ServantOK
<1>1. CASE UNCHANGED <<poa, target, req, call>>
  BY <1>1
<1>2. CASE Quiet
  <2>1. CASE incarnateWake
    BY <2>1 DEF incarnateWake, proxyVars
  <2>2. ASSUME NEW p \in Proxies, NEW op \in {"connect", "disconnect"}, StartCall(op, p)
        PROVE  ServantOK'
    BY <2>2 DEF StartCall, idleCall, proxyVars
  <2>3. CASE UNCHANGED call
    BY <1>1, <1>2, <2>3, QuietFrame DEF proxyVars
  <2>4. incarnateWake \/ UNCHANGED call
        \/ \E p \in Proxies : StartCall("connect", p) \/ StartCall("disconnect", p)
    BY <1>2 DEF Quiet, SendStart, SendSignal, loop, endRound, resume, _remove_ref, _remove_refWake,
                join, vars
  <2> QED BY <2>1, <2>2, <2>3, <2>4
<1>3. CASE incarnate
  BY <1>3 DEF incarnate
<1>4. CASE incarnateInsert
  BY <1>4 DEF incarnateInsert
<1>5. CASE connect
  BY <1>5 DEF connect, idleCall
<1>6. CASE disconnectErase \/ connectOutput
  BY <1>6 DEF disconnectErase, connectOutput, idleCall, proxyVars
<1>7. CASE disconnectDeactivate
  BY <1>7 DEF disconnectDeactivate, deactivateObject
<1>8. CASE disconnectTarget
  BY <1>8 DEF disconnectTarget, closeTarget, idleCall
<1>9. CASE triggerDeactivate
  BY <1>9 DEF triggerDeactivate, deactivateObject, ManagerOK
<1>10. CASE triggerPush
  BY <1>10 DEF triggerPush, ManagerOK, NoFreedServant, servants
<1>11. CASE DestroyPoa
  BY <1>11 DEF DestroyPoa, idleCall
<1>12. ASSUME NEW p \in Proxies, etherealize(p)
      PROVE  ServantOK'
  BY <1>12 DEF etherealize, mayEtherealize
<1>13. ASSUME NEW p \in Proxies, triggerFailed(p) \/ triggerPoll(p)
      PROVE  ServantOK'
  BY <1>13 DEF triggerFailed, triggerPoll, closeTarget, NoFreedServant, servants
<1>14. ASSUME NEW p \in Proxies, Respond(p)
      PROVE  ServantOK'
  BY <1>14 DEF Respond
<1>15. CASE SendAppend \/ triggerErase
  BY <1>1, <1>15 DEF SendAppend, triggerErase, proxyVars
<1> QED BY <1>2, <1>3, <1>4, <1>5, <1>6, <1>7, <1>8, <1>9, <1>10, <1>11, <1>12, <1>13, <1>14,
      <1>15, Steps

(* With the mutex locked no servant leaves the list of the round.          *)
LEMMA ManagerStep ==
  ASSUME ProxyTypes, ThreadTypes, CallOK, ManagerOK, NoFreedServant, [Next]_vars
  PROVE  (ManagerOK /\ NoFreedServant)'
<1> USE DEF ProxyTypes, ThreadTypes, ManagerOK, NoFreedServant, servants
<1>1. CASE UNCHANGED <<mgr, todo, cur, poa>>
  BY <1>1
<1>2. CASE Quiet
  <2>1. CASE UNCHANGED <<mgr, todo, cur>>
    BY <1>1, <1>2, <2>1, QuietFrame DEF proxyVars
  <2>2. CASE loop \/ endRound \/ resume
    BY <2>2 DEF loop, endRound, leaveRound, resume, pause, proxyVars
  <2>3. CASE signal
    BY <1>2, <2>3, QuietFrame DEF signal, Signalled, proxyVars
  <2>4. signal \/ loop \/ endRound \/ resume \/ UNCHANGED <<mgr, todo, cur>>
    BY <1>2 DEF Quiet, SendStart, SendSignal, incarnateWake, StartCall, _remove_ref, _remove_refWake,
                join, vars, mgrVars
  <2> QED BY <2>1, <2>2, <2>3, <2>4
<1>3. CASE incarnate
  BY <1>3 DEF incarnate, Queue!Join, proxyVars, mgrVars, CallOK
<1>4. CASE disconnectDeactivate
  BY <1>4 DEF disconnectDeactivate, deactivateObject, proxyVars, mgrVars
<1>5. CASE triggerErase
  BY <1>5 DEF triggerErase, leaveRound, eraseKey, eraseKeyRaises, AfterLine, proxyVars, mgrVars
<1>6. CASE triggerDeactivate
  BY <1>6 DEF triggerDeactivate, deactivateObject, proxyVars, mgrVars
<1>7. CASE triggerPush
  BY <1>7 DEF triggerPush, leaveRound, Queue!Read, proxyVars, mgrVars
<1>8. CASE DestroyPoa
  BY <1>8 DEF DestroyPoa, proxyVars, mgrVars
<1>9. ASSUME NEW p \in Proxies, etherealize(p)
      PROVE  (ManagerOK /\ NoFreedServant)'
  BY <1>9 DEF etherealize, Queue!Leave, mayEtherealize, Locked, proxyVars, mgrVars
<1>10. ASSUME NEW p \in Proxies, triggerFailed(p)
      PROVE  (ManagerOK /\ NoFreedServant)'
  BY <1>10 DEF triggerFailed, closeTarget, proxyVars, mgrVars
<1>11. ASSUME NEW p \in Proxies, triggerPoll(p)
      PROVE  (ManagerOK /\ NoFreedServant)'
  BY <1>11 DEF triggerPoll, proxyVars, mgrVars
<1>12. CASE SendAppend \/ connect \/ connectOutput \/ disconnectErase \/ disconnectTarget
  BY <1>1, <1>12 DEF SendAppend, connect, connectOutput, disconnectErase, disconnectTarget,
    queueVars, proxyVars, logVars, mgrVars
<1>13. ASSUME NEW p \in Proxies, Respond(p)
      PROVE  (ManagerOK /\ NoFreedServant)'
  BY <1>1, <1>13 DEF Respond, queueVars, proxyVars, logVars, mgrVars
<1>14. CASE incarnateInsert
  BY <1>14 DEF incarnateInsert, mgrVars, CallOK
<1> QED BY <1>2, <1>3, <1>4, <1>5, <1>6, <1>7, <1>8, <1>9, <1>10, <1>11, <1>12, <1>13,
      <1>14, Steps

(* What the manager's thread and the POA's thread do to a proxy whose      *)
(* object is being deactivated.                                            *)
LEMMA LateStep ==
  ASSUME FlagTypes, ProxyTypes, ThreadTypes, CallOK, ManagerOK, LateOK, [Next]_vars
  PROVE  LateOK'
<1> USE DEF FlagTypes, ProxyTypes, ThreadTypes, CallOK, ManagerOK, LateOK
<1>1. CASE UNCHANGED <<poa, target, late, call, cur, mgr>>
  BY <1>1
<1>2. CASE Quiet
  <2>1. call.pc = "target" => UNCHANGED call
    BY <1>2 DEF Quiet, SendStart, SendSignal, incarnateWake, loop, endRound, resume, _remove_ref,
                _remove_refWake, join, StartCall, idleCall, vars
  <2>2. mgr' \in {"erase", "deactivate"} => UNCHANGED <<mgr, cur>>
    BY <1>2 DEF Quiet, SendStart, SendSignal, incarnateWake, loop, endRound, pause, resume,
                _remove_ref, _remove_refWake, join, StartCall, signal, Signalled, vars, mgrVars
  <2> QED BY <1>2, <2>1, <2>2, QuietFrame DEF proxyVars
<1>3. CASE incarnate
  BY <1>3 DEF incarnate, mgrVars
<1>4. CASE incarnateInsert
  BY <1>4 DEF incarnateInsert, mgrVars
<1>5. CASE connect
  <2>1. UNCHANGED <<poa, mgr, cur>> /\ call.pc = "connect" /\ call'.pc # "target"
    BY <1>5 DEF connect, idleCall, mgrVars
  <2>2. CASE UNCHANGED <<target, late>>
    BY <2>1, <2>2
  <2>3. CASE /\ target' = [target EXCEPT ![call.p] = TRUE]
             /\ late' = [late EXCEPT ![call.p] = ending(call.p)]
    <3>1. call.p \in Proxies
      BY <2>1
    <3>2. \A p \in Proxies \ {call.p} : target'[p] = target[p] /\ late'[p] = late[p]
      BY <2>3
    <3>3. late'[call.p] = ending(call.p)
      BY <2>3, <3>1
    <3>4. ASSUME mgr \in {"erase", "deactivate"}, target'[cur]
          PROVE  late'[cur]
      <4>1. CASE cur = call.p
        BY <3>3, <3>4, <4>1 DEF ending
      <4>2. CASE cur # call.p
        BY <3>2, <3>4, <4>2
      <4> QED BY <4>1, <4>2
    <3>5. ASSUME NEW p \in Proxies, poa[p] # "active", target'[p]
          PROVE  late'[p]
      <4>1. CASE p = call.p
        BY <3>3, <3>5, <4>1 DEF ending
      <4>2. CASE p # call.p
        BY <2>1, <3>2, <3>5, <4>2
      <4> QED BY <4>1, <4>2
    <3> QED BY <2>1, <3>4, <3>5
  <2> QED BY <1>5, <2>2, <2>3 DEF connect
<1>6. CASE disconnectErase \/ connectOutput
  BY <1>6 DEF disconnectErase, connectOutput, idleCall, proxyVars, mgrVars
<1>7. CASE disconnectDeactivate
  BY <1>7 DEF disconnectDeactivate, deactivateObject, mgrVars
<1>8. CASE disconnectTarget
  BY <1>8 DEF disconnectTarget, closeTarget, idleCall, mgrVars
<1>9. CASE triggerErase
  BY <1>9 DEF triggerErase, leaveRound, proxyVars
<1>10. CASE triggerDeactivate
  BY <1>10 DEF triggerDeactivate, deactivateObject
<1>11. CASE triggerPush
  BY <1>11 DEF triggerPush, leaveRound
<1>12. CASE DestroyPoa
  BY <1>12 DEF DestroyPoa, mgrVars
<1>13. ASSUME NEW p \in Proxies, etherealize(p)
      PROVE  LateOK'
  BY <1>13 DEF etherealize, mayEtherealize, mgrVars
<1>14. ASSUME NEW p \in Proxies, triggerFailed(p)
      PROVE  LateOK'
  BY <1>14 DEF triggerFailed, closeTarget
<1>15. ASSUME NEW p \in Proxies, triggerPoll(p)
      PROVE  LateOK'
  BY <1>15 DEF triggerPoll
<1>16. CASE SendAppend
  BY <1>1, <1>16 DEF SendAppend, proxyVars, mgrVars
<1>17. ASSUME NEW p \in Proxies, Respond(p)
      PROVE  LateOK'
  BY <1>1, <1>17 DEF Respond, mgrVars
<1> QED BY <1>2, <1>3, <1>4, <1>5, <1>6, <1>7, <1>8, <1>9, <1>10, <1>11, <1>12, <1>13, <1>14,
      <1>15, <1>16, <1>17, Steps

(* A target is only forgotten together with telling its consumer, or with  *)
(* a servant that it came too late for.                                    *)
LEMMA ToldStep ==
  ASSUME FlagTypes, ProxyTypes, ThreadTypes, CallOK, ToldOK, LateOK, EndIsTold, [Next]_vars
  PROVE  (ToldOK /\ EndIsTold)'
<1> USE DEF FlagTypes, ProxyTypes, ToldOK, EndIsTold
<1>1. CASE UNCHANGED <<target, told, ended, late>>
  BY <1>1
<1>2. CASE Quiet
  BY <1>1, <1>2, QuietFrame DEF proxyVars, logVars, queueVars
<1>3. CASE incarnate
  BY <1>3 DEF incarnate, Queue!Join, CallOK
<1>4. CASE connect
  BY <1>4 DEF connect, CallOK
<1>5. CASE disconnectTarget
  BY <1>5 DEF disconnectTarget, closeTarget, CallOK
<1>6. ASSUME NEW p \in Proxies, triggerFailed(p)
      PROVE  (ToldOK /\ EndIsTold)'
  BY <1>6 DEF triggerFailed, closeTarget
<1>7. CASE SendAppend \/ connectOutput \/ disconnectErase \/ disconnectDeactivate \/
           triggerErase \/ triggerDeactivate \/ triggerPush \/ incarnateInsert
  BY <1>1, <1>7 DEF SendAppend, connectOutput, disconnectErase, disconnectDeactivate,
    triggerErase, triggerDeactivate, triggerPush, incarnateInsert, queueVars, proxyVars, logVars,
    mgrVars
<1>8. ASSUME NEW p \in Proxies, Respond(p) \/ triggerPoll(p)
      PROVE  (ToldOK /\ EndIsTold)'
  BY <1>1, <1>8 DEF Respond, triggerPoll, queueVars, proxyVars, logVars, mgrVars
<1>9. ASSUME NEW p \in Proxies, etherealize(p)
      PROVE  (ToldOK /\ EndIsTold)'
  <2>1. target[p] => late[p]
    BY <1>9 DEF LateOK, etherealize, mayEtherealize
  <2> QED BY <1>9, <2>1 DEF etherealize
<1>10. CASE DestroyPoa
  BY <1>10 DEF DestroyPoa
<1> QED BY <1>2, <1>3, <1>4, <1>5, <1>6, <1>7, <1>8, <1>9, <1>10, Steps

(* A request outlives its target only in a servant that is not active.     *)
LEMMA OrphanStep ==
  ASSUME FlagTypes, ProxyTypes, ThreadTypes, CallOK, ServantOK, ManagerOK, NoOrphanRequest, [Next]_vars
  PROVE  NoOrphanRequest'
<1> USE DEF FlagTypes, ProxyTypes, NoOrphanRequest
<1>1. CASE UNCHANGED <<poa, target, req>>
  BY <1>1
<1>2. CASE Quiet
  BY <1>1, <1>2, QuietFrame DEF proxyVars, logVars, queueVars
<1>3. CASE incarnate
  BY <1>3 DEF incarnate, Queue!Join, CallOK
<1>4. CASE connect
  BY <1>4 DEF connect, CallOK
<1>5. CASE disconnectDeactivate
  BY <1>5 DEF disconnectDeactivate, deactivateObject, CallOK
<1>6. CASE disconnectTarget
  BY <1>6 DEF disconnectTarget, closeTarget, CallOK
<1>7. CASE triggerDeactivate
  BY <1>7 DEF triggerDeactivate, deactivateObject
<1>8. CASE triggerPush
  BY <1>8 DEF triggerPush, Queue!Read, ManagerOK
<1>9. CASE DestroyPoa
  BY <1>9 DEF DestroyPoa
<1>10. ASSUME NEW p \in Proxies, etherealize(p)
      PROVE  NoOrphanRequest'
  BY <1>10 DEF etherealize, Queue!Leave, mayEtherealize, Locked
<1>11. ASSUME NEW p \in Proxies, Respond(p)
      PROVE  NoOrphanRequest'
  BY <1>11 DEF Respond
<1>12. ASSUME NEW p \in Proxies, triggerFailed(p)
      PROVE  NoOrphanRequest'
  BY <1>12 DEF triggerFailed, closeTarget
<1>13. ASSUME NEW p \in Proxies, triggerPoll(p)
      PROVE  NoOrphanRequest'
  BY <1>13 DEF triggerPoll
<1>15. CASE incarnateInsert
  BY <1>15 DEF incarnateInsert, CallOK, ServantOK
<1>14. CASE SendAppend \/ connectOutput \/ disconnectErase \/ triggerErase
  BY <1>1, <1>14 DEF SendAppend, connectOutput, disconnectErase, triggerErase, queueVars,
    proxyVars, logVars, mgrVars
<1> QED BY <1>2, <1>3, <1>4, <1>5, <1>6, <1>7, <1>8, <1>9, <1>10, <1>11, <1>12, <1>13, <1>14,
      <1>15, Steps

(* A record is missing only while a thread is on its way to write it or to *)
(* deactivate the servant.                                                 *)
LEMMA LoggedStep ==
  ASSUME FlagTypes, ProxyTypes, ThreadTypes, CallOK, ServantOK, ManagerOK, LoggedOK, [Next]_vars
  PROVE  LoggedOK'
<1> USE DEF FlagTypes, ProxyTypes, ThreadTypes, CallOK, ManagerOK, LoggedOK
<1>1. CASE UNCHANGED <<poa, target, logged, stray, call, cur, mgr>>
  BY <1>1
<1>2. CASE Quiet
  <2>1. call.pc \in {"output", "deactivate"} => UNCHANGED call
    BY <1>2 DEF Quiet, SendStart, SendSignal, incarnateWake, loop, endRound, leaveRound, resume, _remove_ref,
                _remove_refWake, join, StartCall, idleCall, vars
  <2>2. mgr = "deactivate" => UNCHANGED <<mgr, cur>>
    BY <1>2 DEF Quiet, SendStart, SendSignal, incarnateWake, loop, endRound, leaveRound, resume, _remove_ref,
                _remove_refWake, join, StartCall, signal, Signalled, vars, mgrVars
  <2> QED BY <1>2, <2>1, <2>2, QuietFrame DEF proxyVars, logVars
<1>3. CASE incarnate
  BY <1>3 DEF incarnate, Queue!Join, idleCall, proxyVars, mgrVars, logVars
<1>4. CASE connect
  BY <1>4 DEF connect, idleCall, proxyVars, mgrVars, logVars
<1>5. CASE connectOutput
  BY <1>5 DEF connectOutput, AfterLine, idleCall, proxyVars, mgrVars, logVars
<1>6. CASE disconnectErase
  BY <1>6 DEF disconnectErase, eraseKey, eraseKeyRaises, AfterLine, idleCall, proxyVars, mgrVars,
    logVars
<1>7. CASE disconnectDeactivate
  BY <1>7 DEF disconnectDeactivate, deactivateObject, idleCall, proxyVars, mgrVars, logVars
<1>8. CASE disconnectTarget
  BY <1>8 DEF disconnectTarget, closeTarget, idleCall, proxyVars, mgrVars, logVars
<1>9. CASE triggerErase
  BY <1>9 DEF triggerErase, leaveRound, eraseKey, eraseKeyRaises, AfterLine, idleCall, proxyVars, mgrVars,
    logVars
<1>10. CASE triggerDeactivate
  BY <1>10 DEF triggerDeactivate, deactivateObject, idleCall, proxyVars, mgrVars, logVars
<1>11. CASE triggerPush
  BY <1>11 DEF triggerPush, leaveRound, Queue!Read, idleCall, proxyVars, mgrVars, logVars
<1>12. CASE DestroyPoa
  BY <1>12 DEF DestroyPoa, idleCall, proxyVars, mgrVars, logVars
<1>13. ASSUME NEW p \in Proxies, etherealize(p)
      PROVE  LoggedOK'
  BY <1>13 DEF etherealize, Queue!Leave, mayEtherealize, Locked, idleCall, proxyVars, mgrVars,
    logVars
<1>14. ASSUME NEW p \in Proxies, triggerFailed(p)
      PROVE  LoggedOK'
  BY <1>14 DEF triggerFailed, closeTarget, idleCall, proxyVars, mgrVars, logVars
<1>15. ASSUME NEW p \in Proxies, triggerPoll(p)
      PROVE  LoggedOK'
  BY <1>15 DEF triggerPoll, idleCall, proxyVars, mgrVars, logVars
<1>16. CASE SendAppend
  BY <1>1, <1>16 DEF SendAppend, queueVars, proxyVars, logVars, mgrVars
<1>17. ASSUME NEW p \in Proxies, Respond(p)
      PROVE  LoggedOK'
  BY <1>1, <1>17 DEF Respond, queueVars, proxyVars, logVars, mgrVars
<1>18. CASE incarnateInsert
  BY <1>18 DEF incarnateInsert, ServantOK, mgrVars, logVars
<1> QED BY <1>2, <1>3, <1>4, <1>5, <1>6, <1>7, <1>8, <1>9, <1>10, <1>11, <1>12, <1>13, <1>14,
      <1>15, <1>16, <1>17, <1>18, Steps

(* The invariant is inductive.                                             *)
LEMMA Inductive == IInv /\ [Next]_vars => IInv'
<1> SUFFICES ASSUME IInv, [Next]_vars PROVE IInv'
  OBVIOUS
<1> USE DEF IInv, TypeOK
<1>1. TypeOK' /\ StreamOK'
  BY StreamStep, FlagTypesStep, ProxyTypesStep, ThreadTypesStep
<1>2. CallOK' /\ (ManagerOK /\ NoFreedServant)'
  BY CallStep, ManagerStep
<1>3. ServantOK' /\ LateOK' /\ (ToldOK /\ EndIsTold)' /\ NoOrphanRequest' /\ LoggedOK'
  BY ServantStep, LateStep, ToldStep, OrphanStep, LoggedStep
<1> QED BY <1>1, <1>2, <1>3

LEMMA Invariance == Spec => []IInv
BY InitIInv, Inductive, PTL DEF Spec

-----------------------------------------------------------------------------
(* Every variable keeps its type; in particular a consumer is told once at *)
(* most that its connection ended.                                         *)
THEOREM TypeCorrect == Spec => []TypeOK
<1>1. IInv => TypeOK
  BY DEF IInv
<1> QED BY <1>1, Invariance, PTL

(* ProxyPushSupplierManager::run_undetached never triggers a servant that  *)
(* etherealize() freed.                                                    *)
THEOREM ServantsAreAlive == Spec => []NoFreedServant
<1>1. IInv => NoFreedServant
  BY DEF IInv
<1> QED BY <1>1, Invariance, PTL

(* However trigger() and disconnect_push_supplier() interleave, a client   *)
(* can connect to a proxy that is not connected.                           *)
THEOREM RequestsHaveTargets == Spec => []NoOrphanRequest
<1>1. IInv => NoOrphanRequest
  BY DEF IInv
<1> QED BY <1>1, Invariance, PTL

(* A consumer is told of the end of its connection, whichever of the two   *)
(* threads ends it.                                                        *)
THEOREM EndsAreTold == Spec => []EndIsTold
<1>1. IInv => EndIsTold
  BY DEF IInv
<1> QED BY <1>1, Invariance, PTL

(* The log file has the connections that exist, once the POA's thread and  *)
(* the manager's, which write it without a common lock, are done.          *)
THEOREM ConnectionsAreLogged == Spec => []ConnectionsLogged
<1>1. IInv => ConnectionsLogged
  BY DEF IInv, LoggedOK, ConnectionsLogged, idleCall
<1> QED BY <1>1, Invariance, PTL
==============================================================================
