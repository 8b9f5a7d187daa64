----------------------- MODULE ProxyPullConsumerProofs -----------------------
(***************************************************************************)
(* Proofs about ProxyPullConsumer for every set of proxies, number of      *)
(* events, period and time.                                                *)
(*                                                                         *)
(* The argument for connections.  A servant counts the events of its       *)
(* supplier from zero, and each is in the answer (_req) until collect()    *)
(* takes it.  A new request needs a nil _req, and only collect() makes     *)
(* _req nil while the servant lives; so it has to be shown that a servant  *)
(* with a target is active, that one that was etherealized has neither     *)
(* target nor request, and that the connection of a proxy that failed four *)
(* times has ended, so that it is not asked again.                         *)
(*                                                                         *)
(* The argument for the schedule.  With seconds and nanoseconds as one     *)
(* number, a turn of the loop adds the period and the comparison is that   *)
(* of numbers.  So _nextPull stays on the grid; while the loop runs it is  *)
(* not after the time of the pull, which the last turn makes it pass.      *)
(***************************************************************************)
EXTENDS ProxyPullConsumer, TLAPS

(* The events given by a servant's supplier are accounted for, also after  *)
(* its connection ended.                                                   *)
AccountOK ==
  \A p \in Proxies :
    poa[p] # "inactive" => given[p] = collected[p] + (IF req[p] = "event" THEN 1 ELSE 0)

(* Only an active servant is connected, and none has no request.           *)
ServantOK ==
  \A p \in Proxies :
    /\ target[p] => poa[p] = "active"
    /\ poa[p] = "inactive" => req[p] = "nil"

(* A request is that of a connection, if only of one that has ended, and   *)
(* after the fourth exception in a row it has.                             *)
CountOK ==
  \A p \in Proxies :
    /\ req[p] # "nil" => target[p] \/ p \in ended
    /\ count[p] = 4 => req[p] = "nil" /\ p \in ended

(* An end of a connection is complete.                                     *)
EndOK ==
  \A p \in Proxies : p \in ended => p \in told \ logged /\ poa[p] # "active"

(* Where _nextPull is on the grid: during a transfer that pulls it is not  *)
(* after the time of the pull, and between transfers it is the first point *)
(* after the last pull.                                                    *)
Period_ns == period * MILLION
ScheduleOK ==
  period > Cycle =>
    /\ \E k \in Nat : Nanos(nextPull) = start + k * Period_ns
    /\ turn = "trigger" => last = now /\ Nanos(nextPull) <= last
    /\ turn # "trigger" /\ Nanos(nextPull) # start =>
         Nanos(nextPull) > last /\ Nanos(nextPull) - Period_ns <= last

(* The inductive invariant.                                                *)
IInv ==
  /\ FlagTypes /\ ProxyTypes /\ ThreadTypes /\ TimeTypes /\ ScheduleOK
  /\ AccountOK /\ ServantOK /\ CountOK /\ EndOK

-----------------------------------------------------------------------------
(* Arithmetic of the schedule.                                             *)

(* Division with a symbolic divisor.                                       *)
LEMMA DivMod ==
  ASSUME NEW n \in Nat, NEW d \in Nat \ {0}
  PROVE  \E q \in Nat, r \in 0 .. d - 1 : n = q * d + r /\ q = n \div d /\ r = n % d
OBVIOUS

(* A multiple leaves no rest.                                              *)
LEMMA Multiple ==
  ASSUME NEW i \in Nat, NEW d \in Nat \ {0}
  PROVE  i * d \in Nat /\ (i * d) % d = 0
<1>1. i * d \in Nat
  OBVIOUS
<1>2. (i * d) % d = 0
  OBVIOUS
<1> QED BY <1>1, <1>2, Zenon

(* Pairs of seconds and nanoseconds.                                       *)
Times == Nat \X (0 .. BILLION - 1)

(* A second has a positive number of nanoseconds.                          *)
LEMMA BillionFacts == BILLION \in Nat \ {0} /\ BILLION = MsPerSec * MILLION
BY PullConsumerAssumption DEF BILLION

(* A pair stands for a number.                                             *)
LEMMA NanosType ==
  ASSUME NEW t \in Times
  PROVE  t[1] \in Nat /\ t[2] \in 0 .. BILLION - 1 /\ Nanos(t) = t[1] * BILLION + t[2] /\ Nanos(t) \in Nat
<1>1. t[1] \in Nat /\ t[2] \in 0 .. BILLION - 1
  BY DEF Times
<1>2. t[1] * BILLION \in Nat
  BY <1>1, BillionFacts
<1> QED BY <1>1, <1>2, BillionFacts DEF Nanos

(* omni_thread::get_time splits the clock.                                 *)
LEMMA TimeOfNow ==
  ASSUME now \in Nat
  PROVE  get_time \in Times /\ Nanos(get_time) = now
<1>0. PICK B \in Nat \ {0} : B = BILLION
  BY BillionFacts
<1>1. PICK n \in Nat : n = now
  OBVIOUS
<1>2. PICK a \in Nat, b \in 0 .. B - 1 : n = a * B + b /\ a = n \div B /\ b = n % B
  BY DivMod
<1>3. get_time = <<a, b>>
  BY <1>0, <1>1, <1>2 DEF get_time
<1>4. n = a * B + b
  BY <1>2
<1> QED BY <1>0, <1>1, <1>3, <1>4 DEF Times, Nanos

(* The comparison of two pairs is that of the numbers they stand for.      *)
LEMMA Compare ==
  ASSUME NEW s \in Times, NEW t \in Times
  PROVE  AtLeast(s, t) <=> Nanos(s) >= Nanos(t)
<1> DEFINE B == BILLION
<1>0. B \in Nat \ {0} /\ s[1] \in Nat /\ t[1] \in Nat /\ s[2] \in 0 .. B - 1 /\ t[2] \in 0 .. B - 1
      /\ Nanos(s) = s[1] * B + s[2] /\ Nanos(t) = t[1] * B + t[2]
  BY BillionFacts, NanosType
<1> HIDE DEF B
<1>1. ASSUME NEW a \in Nat, NEW b \in Nat, a > b
      PROVE  a * B >= b * B + B
  BY <1>0, <1>1
<1>2. s[1] * B \in Nat /\ t[1] * B \in Nat
  BY <1>0
<1>3. CASE s[1] > t[1]
  <2>1. s[1] * B >= t[1] * B + B
    BY <1>0, <1>1, <1>3
  <2> QED BY <1>0, <1>2, <1>3, <2>1 DEF AtLeast
<1>4. CASE s[1] < t[1]
  <2>1. t[1] * B >= s[1] * B + B
    BY <1>0, <1>1, <1>4
  <2> QED BY <1>0, <1>2, <1>4, <2>1 DEF AtLeast
<1>5. CASE s[1] = t[1]
  BY <1>0, <1>2, <1>5 DEF AtLeast
<1> QED BY <1>0, <1>3, <1>4, <1>5

(* A turn of the loop adds PullRetryPeriod_ms, with its carry.             *)
LEMMA AddPeriod ==
  ASSUME NEW t \in Times, period \in Nat
  PROVE  addPeriod(t) \in Times /\ Nanos(addPeriod(t)) = Nanos(t) + Period_ns
<1>0. MsPerSec \in Nat \ {0} /\ MILLION \in Nat \ {0}
  BY PullConsumerAssumption
<1>1. PICK B \in Nat \ {0} : B = BILLION /\ B = MsPerSec * MILLION
  BY BillionFacts
<1>2. PICK q \in Nat, r \in 0 .. MsPerSec - 1 :
        period = q * MsPerSec + r /\ q = period \div MsPerSec /\ r = period % MsPerSec
  BY <1>0, DivMod
<1>3. q \in Nat /\ r \in Nat /\ period = q * MsPerSec + r
  BY <1>0, <1>2
<1>4. t[1] \in Nat /\ t[2] \in Nat /\ Nanos(t) = t[1] * B + t[2]
  BY <1>1, NanosType
<1>5. PICK ns \in Nat : ns = t[2] + r * MILLION
  BY <1>0, <1>3, <1>4
<1>6. PICK u \in Nat, v \in 0 .. B - 1 : ns = u * B + v /\ u = ns \div B /\ v = ns % B
  BY DivMod
<1>7. u \in Nat /\ v \in 0 .. B - 1 /\ ns = u * B + v
  BY <1>6
<1>8. addPeriod(t) = <<t[1] + q + u, v>>
  BY <1>1, <1>2, <1>5, <1>6 DEF addPeriod
<1>9. addPeriod(t) \in Times
  BY <1>1, <1>3, <1>4, <1>7, <1>8 DEF Times
<1>10. Nanos(addPeriod(t)) = (t[1] + q + u) * B + v
  BY <1>1, <1>8, <1>9, NanosType
<1>11. (t[1] + q + u) * B = t[1] * B + q * B + u * B
  BY <1>3, <1>4, <1>7
<1>12. q * B = (q * MsPerSec) * MILLION
  BY <1>0, <1>1, <1>3
<1>13. period * MILLION = (q * MsPerSec) * MILLION + r * MILLION
  BY <1>0, <1>3
<1>14. PICK x \in Nat, y \in Nat, z \in Nat, w \in Nat :
         x = t[1] * B /\ y = q * B /\ z = u * B /\ w = r * MILLION
  BY <1>0, <1>3, <1>4, <1>7
<1>15. Nanos(addPeriod(t)) = x + y + z + v /\ ns = z + v /\ ns = t[2] + w
  BY <1>5, <1>7, <1>10, <1>11, <1>14
<1>16. Nanos(t) = x + t[2] /\ Period_ns = y + w
  BY <1>4, <1>12, <1>13, <1>14 DEF Period_ns
<1>17. v \in Nat
  BY <1>7
<1> QED BY ONLY <1>4, <1>9, <1>15, <1>16, <1>17, x \in Nat, y \in Nat, z \in Nat, w \in Nat

(* A scheduled channel has a _nextPull.                                    *)
LEMMA Scheduled ==
  ASSUME TimeTypes, ScheduleOK, period > Cycle
  PROVE  /\ period \in Nat /\ Period_ns \in Nat \ {0}
         /\ nextPull \in Times /\ Nanos(nextPull) \in Nat /\ nextPull[1] # 0
<1>1. period \in Nat /\ Cycle \in Nat /\ MILLION \in Nat \ {0}
  BY PullConsumerAssumption DEF TimeTypes
<1>2. Period_ns \in Nat \ {0}
  BY <1>1 DEF Period_ns
<1>3. nextPull \in Times
  BY DEF TimeTypes, Times
<1>4. start \in Nat /\ start >= BILLION
  BY PullConsumerAssumption DEF TimeTypes, BILLION
<1>5. PICK k \in Nat : Nanos(nextPull) = start + k * Period_ns
  BY DEF ScheduleOK
<1>6. k * Period_ns \in Nat
  BY <1>2
<1>7. Nanos(nextPull) >= BILLION
  BY <1>4, <1>5, <1>6, BillionFacts
<1>8. nextPull[1] # 0
  <2>1. nextPull[2] \in 0 .. BILLION - 1 /\ Nanos(nextPull) = nextPull[1] * BILLION + nextPull[2]
    BY <1>3, NanosType
  <2> QED BY <1>7, <2>1, BillionFacts
<1> QED BY <1>1, <1>2, <1>3, <1>8, NanosType

-----------------------------------------------------------------------------
(* A new channel satisfies the invariant.                                  *)
LEMMA InitIInv == Init => IInv
<1> SUFFICES ASSUME Init PROVE IInv
  OBVIOUS
<1> USE PullConsumerAssumption DEF Init
<1>1. FlagTypes
  BY DEF FlagTypes
<1>2. ProxyTypes /\ ThreadTypes
  BY DEF ProxyTypes, ThreadTypes, Modes
<1>3. AccountOK /\ ServantOK
  BY DEF AccountOK, ServantOK
<1>4. CountOK /\ EndOK
  BY DEF CountOK, EndOK
<1>5. now \in Nat /\ get_time \in Times /\ Nanos(get_time) = now
  BY TimeOfNow
<1>6. nextPull \in Times /\ (period > Cycle => Nanos(nextPull) = start)
  <2>1. <<0, 0>> \in Times
    BY BillionFacts DEF Times
  <2> QED BY <1>5, <2>1
<1>7. TimeTypes
  BY <1>6 DEF TimeTypes, Times
<1>8. ScheduleOK
  <2>1. period * MILLION \in Nat
    BY DEF TimeTypes
  <2>2. start + 0 * Period_ns = start
    BY <1>5, <2>1 DEF Period_ns
  <2> QED BY <1>6, <2>2 DEF ScheduleOK
<1> QED BY <1>1, <1>2, <1>3, <1>4, <1>7, <1>8 DEF IInv

(* The steps that change a connection; all others leave every one alone.   *)
ConnectionStep(p) ==
  \/ ~aborted /\ \E isNil \in BOOLEAN : connect_pull_supplier(p, isNil)
  \/ ~aborted /\ disconnect_pull_consumer(p)
  \/ ~aborted /\ etherealize(p)
  \/ ~aborted /\ \E answer \in Answers : Respond(p, answer)
  \/ collectException(p) \/ collectResult(p) \/ triggerRequest(p)

LEMMA Steps ==
  ASSUME [Next]_vars
  PROVE  /\ UNCHANGED envThrows
         /\ (\E p \in Proxies : ConnectionStep(p)) \/ UNCHANGED <<proxyVars, aborted>>
<1>0. UNCHANGED envThrows
  BY DEF Next, channelThread, Finished, vars
<1>1. CASE Tick \/ hold_requests \/ schedule \/ activate \/ advance
  BY <1>0, <1>1 DEF Tick, hold_requests, schedule, activate, advance
<1>2. ASSUME NEW p \in Proxies, collectNothing(p) \/ collectThrows(p)
      PROVE  UNCHANGED <<proxyVars, aborted>>
  BY <1>2 DEF collectNothing, collectThrows
<1>3. CASE UNCHANGED vars
  BY <1>3 DEF vars
<1> QED BY <1>0, <1>1, <1>2, <1>3 DEF Next, channelThread, Finished, ConnectionStep

(* The shape of a client's call: the servant is active, or it is new.      *)
LEMMA CallFacts ==
  ASSUME ProxyTypes, NEW p \in Proxies, clientCall(p)
  PROVE  /\ poa[p] \in {"active", "inactive"} /\ UNCHANGED aborted
         /\ poa[p] = "active" => UNCHANGED <<mode, count, given, collected>>
         /\ poa[p] = "inactive" =>
              /\ mode' = [mode EXCEPT ![p] = "pull"] /\ count' = [count EXCEPT ![p] = 0]
              /\ given' = [given EXCEPT ![p] = 0] /\ collected' = [collected EXCEPT ![p] = 0]
BY DEF ProxyTypes, clientCall, incarnate

(* Types are kept by every step.                                           *)
LEMMA FlagTypesStep ==
  ASSUME FlagTypes, ProxyTypes, [Next]_vars
  PROVE  FlagTypes'
<1> USE PullConsumerAssumption DEF FlagTypes
<1>0. UNCHANGED envThrows
  BY Steps
<1>1. CASE UNCHANGED <<proxyVars, aborted>>
  BY <1>0, <1>1 DEF proxyVars
<1>2. ASSUME NEW p \in Proxies, ConnectionStep(p)
      PROVE  FlagTypes'
  <2>1. ASSUME NEW isNil \in BOOLEAN, ~aborted, connect_pull_supplier(p, isNil)
        PROVE  FlagTypes'
    BY <1>0, <2>1, CallFacts DEF connect_pull_supplier, isNew, hasTarget, hasReq
  <2>2. CASE ~aborted /\ disconnect_pull_consumer(p)
    BY <1>0, <2>2, CallFacts DEF disconnect_pull_consumer, close, isNew, hasTarget
  <2>3. CASE etherealize(p)
    BY <1>0, <2>3 DEF etherealize
  <2>4. ASSUME NEW answer \in Answers, Respond(p, answer)
        PROVE  FlagTypes'
    BY <1>0, <2>4 DEF Respond
  <2>5. CASE collectException(p)
    BY <1>0, <2>5 DEF collectException, step, close
  <2>6. CASE collectResult(p)
    BY <1>0, <2>6 DEF collectResult, step
  <2>7. CASE triggerRequest(p)
    BY <1>0, <2>7 DEF triggerRequest, step, mayAsk
  <2> QED
    BY <1>2, <2>1, <2>2, <2>3, <2>4, <2>5, <2>6, <2>7 DEF ConnectionStep
<1> QED BY <1>1, <1>2, Steps

(* The counters stay within their bounds: given events have been collected *)
(* at most once, and the fourth exception is the last.                     *)
LEMMA ProxyTypesStep ==
  ASSUME FlagTypes, ProxyTypes, AccountOK, ServantOK, CountOK, [Next]_vars
  PROVE  ProxyTypes'
<1> USE PullConsumerAssumption DEF ProxyTypes, Answers, Modes
<1>1. CASE UNCHANGED <<proxyVars, aborted>>
  BY <1>1 DEF proxyVars
<1>2. ASSUME NEW p \in Proxies, ConnectionStep(p)
      PROVE  ProxyTypes'
  <2>1. ASSUME NEW isNil \in BOOLEAN, ~aborted, connect_pull_supplier(p, isNil)
        PROVE  ProxyTypes'
    BY <2>1, CallFacts DEF connect_pull_supplier, isNew, hasTarget, hasReq
  <2>2. CASE ~aborted /\ disconnect_pull_consumer(p)
    BY <2>2, CallFacts DEF disconnect_pull_consumer, close, isNew, hasTarget
  <2>3. CASE etherealize(p)
    BY <2>3 DEF etherealize
  <2>4. ASSUME NEW answer \in Answers, Respond(p, answer)
        PROVE  ProxyTypes'
    BY <2>4 DEF Respond
  <2>5. CASE collectException(p)
    <3>1. count[p] # 4
      BY <2>5 DEF collectException, step, CountOK
    <3>2. count' \in [Proxies -> 0 .. 4] /\ req' \in [Proxies -> {"nil", "sent"} \cup Answers]
      BY <2>5, <3>1 DEF collectException
    <3>3. mode' \in [Proxies -> Modes] /\ poa' \in [Proxies -> {"inactive", "active", "deactivated"}]
      BY <2>5 DEF collectException, otherMode, close
    <3> QED BY <2>5, <3>2, <3>3 DEF collectException, close
  <2>6. CASE collectResult(p)
    <3>1. req[p] = "event" => given[p] = collected[p] + 1
      BY <2>6 DEF AccountOK, ServantOK
    <3>2. collected' \in [Proxies -> 0 .. MaxGiven]
      BY <2>6, <3>1 DEF collectResult
    <3> QED BY <2>6, <3>2 DEF collectResult
  <2>7. CASE triggerRequest(p)
    BY <2>7 DEF triggerRequest, step, mayAsk
  <2> QED
    BY <1>2, <2>1, <2>2, <2>3, <2>4, <2>5, <2>6, <2>7 DEF ConnectionStep
<1> QED BY <1>1, <1>2, Steps

(* The thread, and its loops over the servants.                            *)
LEMMA ThreadTypesStep ==
  ASSUME ThreadTypes, [Next]_vars
  PROVE  ThreadTypes'
<1> USE PullConsumerAssumption DEF ThreadTypes
<1>1. ASSUME NEW p \in Proxies, clientCall(p)
      PROVE  ThreadTypes'
  BY <1>1 DEF clientCall
<1>2. ASSUME NEW p \in Proxies, ConnectionStep(p)
      PROVE  ThreadTypes'
  BY <1>1, <1>2
    DEF ConnectionStep, connect_pull_supplier, disconnect_pull_consumer, etherealize, Respond,
        collectException, collectResult, triggerRequest, step, visit
<1>3. ASSUME NEW p \in Proxies, collectNothing(p) \/ collectThrows(p)
      PROVE  ThreadTypes'
  BY <1>3 DEF collectNothing, collectThrows, step, visit
<1>4. CASE Tick \/ hold_requests \/ schedule \/ activate \/ advance
  BY <1>4 DEF Tick, hold_requests, schedule, activate, advance, step, servants
<1>5. CASE UNCHANGED vars
  BY <1>5 DEF vars
<1> QED BY <1>2, <1>3, <1>4, <1>5 DEF Next, channelThread, Finished, ConnectionStep

(* A connection needs an active servant.                                   *)
LEMMA ServantStep ==
  ASSUME FlagTypes, ProxyTypes, ServantOK, [Next]_vars
  PROVE  ServantOK'
<1> USE PullConsumerAssumption DEF FlagTypes, ProxyTypes, ServantOK
<1>1. CASE UNCHANGED <<proxyVars, aborted>>
  BY <1>1 DEF proxyVars
<1>2. ASSUME NEW p \in Proxies, ConnectionStep(p)
      PROVE  ServantOK'
  <2>1. ASSUME NEW isNil \in BOOLEAN, ~aborted, connect_pull_supplier(p, isNil)
        PROVE  ServantOK'
    BY <2>1, CallFacts DEF connect_pull_supplier, isNew, hasTarget, hasReq
  <2>2. CASE ~aborted /\ disconnect_pull_consumer(p)
    BY <2>2, CallFacts DEF disconnect_pull_consumer, close, isNew, hasTarget
  <2>3. CASE etherealize(p)
    BY <2>3 DEF etherealize
  <2>4. ASSUME NEW answer \in Answers, Respond(p, answer)
        PROVE  ServantOK'
    BY <2>4 DEF Respond
  <2>5. CASE collectException(p)
    BY <2>5 DEF collectException, step, close
  <2>6. CASE collectResult(p)
    BY <2>6 DEF collectResult, step
  <2>7. CASE triggerRequest(p)
    BY <2>7 DEF triggerRequest, step, mayAsk
  <2> QED
    BY <1>2, <2>1, <2>2, <2>3, <2>4, <2>5, <2>6, <2>7 DEF ConnectionStep
<1> QED BY <1>1, <1>2, Steps

(* No answer with an event is dropped or replaced.                         *)
LEMMA AccountStep ==
  ASSUME ProxyTypes, ServantOK, AccountOK, [Next]_vars
  PROVE  AccountOK'
<1> USE PullConsumerAssumption DEF ProxyTypes, AccountOK, ServantOK
<1>1. CASE UNCHANGED <<proxyVars, aborted>>
  BY <1>1 DEF proxyVars
<1>2. ASSUME NEW p \in Proxies, ConnectionStep(p)
      PROVE  AccountOK'
  <2>1. ASSUME NEW isNil \in BOOLEAN, ~aborted, connect_pull_supplier(p, isNil)
        PROVE  AccountOK'
    BY <2>1, CallFacts DEF connect_pull_supplier, isNew, hasTarget, hasReq
  <2>2. CASE ~aborted /\ disconnect_pull_consumer(p)
    BY <2>2, CallFacts DEF disconnect_pull_consumer, close, isNew, hasTarget
  <2>3. CASE etherealize(p)
    BY <2>3 DEF etherealize
  <2>4. ASSUME NEW answer \in Answers, Respond(p, answer)
        PROVE  AccountOK'
    BY <2>4 DEF Respond
  <2>5. CASE collectException(p)
    BY <2>5 DEF collectException, step, close
  <2>6. CASE collectResult(p)
    BY <2>6 DEF collectResult, step
  <2>7. CASE triggerRequest(p)
    BY <2>7 DEF triggerRequest, step, mayAsk
  <2> QED
    BY <1>2, <2>1, <2>2, <2>3, <2>4, <2>5, <2>6, <2>7 DEF ConnectionStep
<1> QED BY <1>1, <1>2, Steps

(* A servant with four exceptions in a row has ended its connection.       *)
LEMMA CountStep ==
  ASSUME FlagTypes, ProxyTypes, ServantOK, CountOK, EndOK, [Next]_vars
  PROVE  CountOK'
<1> USE PullConsumerAssumption DEF FlagTypes, ProxyTypes, CountOK, ServantOK, EndOK
<1>1. CASE UNCHANGED <<proxyVars, aborted>>
  BY <1>1 DEF proxyVars
<1>2. ASSUME NEW p \in Proxies, ConnectionStep(p)
      PROVE  CountOK'
  <2>1. ASSUME NEW isNil \in BOOLEAN, ~aborted, connect_pull_supplier(p, isNil)
        PROVE  CountOK'
    BY <2>1, CallFacts DEF connect_pull_supplier, isNew, hasTarget, hasReq
  <2>2. CASE ~aborted /\ disconnect_pull_consumer(p)
    BY <2>2, CallFacts DEF disconnect_pull_consumer, close, isNew, hasTarget
  <2>3. CASE etherealize(p)
    BY <2>3 DEF etherealize
  <2>4. ASSUME NEW answer \in Answers, Respond(p, answer)
        PROVE  CountOK'
    BY <2>4 DEF Respond
  <2>5. CASE collectException(p)
    BY <2>5 DEF collectException, step, close
  <2>6. CASE collectResult(p)
    BY <2>6 DEF collectResult, step
  <2>7. CASE triggerRequest(p)
    BY <2>7 DEF triggerRequest, step, mayAsk
  <2> QED
    BY <1>2, <2>1, <2>2, <2>3, <2>4, <2>5, <2>6, <2>7 DEF ConnectionStep
<1> QED BY <1>1, <1>2, Steps

(* An ended connection is ended for the supplier, the log file and the POA.*)
LEMMA EndStep ==
  ASSUME ProxyTypes, EndOK, [Next]_vars
  PROVE  EndOK'
<1> USE PullConsumerAssumption DEF ProxyTypes, EndOK
<1>1. CASE UNCHANGED <<proxyVars, aborted>>
  BY <1>1 DEF proxyVars
<1>2. ASSUME NEW p \in Proxies, ConnectionStep(p)
      PROVE  EndOK'
  <2>1. ASSUME NEW isNil \in BOOLEAN, ~aborted, connect_pull_supplier(p, isNil)
        PROVE  EndOK'
    BY <2>1, CallFacts DEF connect_pull_supplier, isNew, hasTarget, hasReq
  <2>2. CASE ~aborted /\ disconnect_pull_consumer(p)
    BY <2>2, CallFacts DEF disconnect_pull_consumer, close, isNew, hasTarget
  <2>3. CASE etherealize(p)
    BY <2>3 DEF etherealize
  <2>4. ASSUME NEW answer \in Answers, Respond(p, answer)
        PROVE  EndOK'
    BY <2>4 DEF Respond
  <2>5. CASE collectException(p)
    BY <2>5 DEF collectException, step, close
  <2>6. CASE collectResult(p)
    BY <2>6 DEF collectResult, step
  <2>7. CASE triggerRequest(p)
    BY <2>7 DEF triggerRequest, step, mayAsk
  <2> QED
    BY <1>2, <2>1, <2>2, <2>3, <2>4, <2>5, <2>6, <2>7 DEF ConnectionStep
<1> QED BY <1>1, <1>2, Steps

(* What each step does to the schedule.                                    *)
LEMMA ScheduleSteps ==
  ASSUME [Next]_vars
  PROVE  \/ UNCHANGED timeVars /\ (turn' = turn \/ {turn, turn'} \subseteq {"open", "collect", "dead"})
         \/ Tick \/ schedule \/ activate \/ advance
<1> DEFINE Still == UNCHANGED timeVars /\ (turn' = turn \/ {turn, turn'} \subseteq {"open", "collect", "dead"})
<1>1. ASSUME NEW p \in Proxies, ConnectionStep(p) PROVE Still
  BY <1>1
    DEF ConnectionStep, connect_pull_supplier, disconnect_pull_consumer, clientCall, etherealize,
        Respond, collectException, collectResult, triggerRequest, step
<1>2. ASSUME NEW p \in Proxies, collectNothing(p) \/ collectThrows(p) PROVE Still
  BY <1>2 DEF collectNothing, collectThrows, step
<1>3. CASE hold_requests
  BY <1>3 DEF hold_requests, step
<1>4. CASE UNCHANGED vars
  BY <1>4 DEF vars
<1> QED BY <1>1, <1>2, <1>3, <1>4 DEF Next, channelThread, Finished, ConnectionStep

(* The clock and _nextPull keep their types.                               *)
LEMMA TimeTypesStep ==
  ASSUME TimeTypes, [Next]_vars
  PROVE  TimeTypes'
<1> USE PullConsumerAssumption DEF TimeTypes
<1>1. CASE UNCHANGED timeVars
  BY <1>1 DEF timeVars
<1>2. CASE Tick
  BY <1>2 DEF Tick
<1>3. CASE schedule
  BY <1>3 DEF schedule
<1>4. CASE activate
  BY <1>4 DEF activate, timeVars
<1>5. CASE advance
  <2>1. nextPull' \in Times
    BY <1>5, AddPeriod DEF advance, Times
  <2> QED BY <1>5, <2>1 DEF advance, Times
<1> QED BY <1>1, <1>2, <1>3, <1>4, <1>5, ScheduleSteps

(* _nextPull stays on the grid, whatever the time of a transfer.           *)
LEMMA ScheduleStep ==
  ASSUME ThreadTypes, TimeTypes, ScheduleOK, [Next]_vars
  PROVE  ScheduleOK'
<1> SUFFICES ASSUME period' > Cycle PROVE ScheduleOK'
  BY DEF ScheduleOK
<1>0. period' = period /\ start' = start /\ Period_ns' = Period_ns
  BY ScheduleSteps DEF timeVars, Tick, schedule, activate, advance, Period_ns
<1>1. now \in Nat /\ last \in Nat /\ start \in Nat
  BY PullConsumerAssumption DEF TimeTypes
<1>2. /\ period \in Nat /\ Period_ns \in Nat \ {0}
      /\ nextPull \in Times /\ Nanos(nextPull) \in Nat /\ nextPull[1] # 0
  BY <1>0, Scheduled
<1>3. CASE UNCHANGED timeVars /\ (turn' = turn \/ {turn, turn'} \subseteq {"open", "collect", "dead"})
  BY <1>0, <1>3 DEF ScheduleOK, timeVars, Nanos
<1>4. CASE Tick
  BY <1>0, <1>4 DEF ScheduleOK, Tick, Nanos
<1>5. CASE schedule
  <2>1. UNCHANGED <<nextPull, now>> /\ turn = "collect"
    BY <1>5 DEF schedule, step
  <2>2. CASE isDue /\ turn' = "trigger" /\ last' = now
    <3>1. Nanos(nextPull) <= now
      BY <1>1, <1>2, <2>2, Compare, TimeOfNow DEF isDue
    <3> QED BY <1>0, <1>1, <2>1, <2>2, <3>1 DEF ScheduleOK, Nanos
  <2>3. CASE turn' = "open" /\ last' = last
    BY <1>0, <2>1, <2>3 DEF ScheduleOK, Nanos
  <2> QED BY <1>5, <2>2, <2>3 DEF schedule, step
<1>6. CASE activate
  BY <1>2, <1>6 DEF activate
<1>7. CASE advance
  <2>1. /\ turn = "trigger" /\ UNCHANGED <<now, last>> /\ nextPull' = addPeriod(nextPull)
        /\ turn' = IF AtLeast(get_time, addPeriod(nextPull)) THEN "trigger" ELSE "open"
    BY <1>7 DEF advance, step
  <2>2. nextPull' \in Times /\ Nanos(nextPull') = Nanos(nextPull) + Period_ns
    BY <1>2, <2>1, AddPeriod
  <2>3. AtLeast(get_time, addPeriod(nextPull)) <=> now >= Nanos(nextPull')
    BY <1>1, <2>1, <2>2, Compare, TimeOfNow
  <2>4. last = now /\ Nanos(nextPull) <= last
    BY <1>0, <2>1 DEF ScheduleOK
  <2>5. \E k \in Nat : Nanos(nextPull') = start + k * Period_ns
    <3>1. PICK k \in Nat : Nanos(nextPull) = start + k * Period_ns
      BY <1>0 DEF ScheduleOK
    <3>2. (k + 1) * Period_ns = k * Period_ns + Period_ns /\ k * Period_ns \in Nat
      BY <1>2
    <3>3. Nanos(nextPull') = start + (k + 1) * Period_ns
      BY <1>1, <1>2, <2>2, <3>1, <3>2
    <3> QED BY <3>3
  <2>6. Nanos(nextPull)' = Nanos(nextPull')
    BY DEF Nanos
  <2>7. turn' = "trigger" => now >= Nanos(nextPull')
    BY <2>1, <2>3
  <2>8. turn' # "trigger" => Nanos(nextPull') > last /\ Nanos(nextPull') - Period_ns <= last
    BY <1>1, <1>2, <2>1, <2>2, <2>3, <2>4
  <2> QED BY <1>0, <1>1, <1>2, <2>1, <2>2, <2>4, <2>5, <2>6, <2>7, <2>8 DEF ScheduleOK
<1> QED BY <1>3, <1>4, <1>5, <1>6, <1>7, ScheduleSteps

(* The invariant is inductive.                                             *)
LEMMA Inductive == IInv /\ [Next]_vars => IInv'
BY FlagTypesStep, ProxyTypesStep, ThreadTypesStep, TimeTypesStep, ScheduleStep, ServantStep,
   AccountStep, CountStep, EndStep
  DEF IInv

LEMMA Invariance == Spec => []IInv
BY InitIInv, Inductive, PTL DEF Spec

-----------------------------------------------------------------------------
(* Every variable keeps its type; in particular _exceptionCount stays      *)
(* within 4, and the nanoseconds of _nextPull below a second.              *)
THEOREM TypeCorrect == Spec => []TypeOK
<1>1. IInv => TypeOK
  BY DEF IInv, TypeOK
<1> QED BY <1>1, Invariance, PTL

(* Between Respond and collect(), whatever calls come, no event of a       *)
(* connected supplier is lost or collected twice.                          *)
THEOREM EventsAreKept == Spec => []NoEventLost
<1>1. IInv => NoEventLost
  BY DEF IInv, ProxyTypes, AccountOK, ServantOK, NoEventLost
<1> QED BY <1>1, Invariance, PTL

(* collect() pulls without drift: however late a transfer is, the loop     *)
(* leaves _nextPull at the first point of the grid that is still to come.  *)
THEOREM PullsAreOnSchedule == Spec => []OnSchedule
<1>1. ASSUME IInv, period > Cycle
      PROVE  (Nanos(nextPull) - start) % (period * MILLION) = 0
  <2>1. Period_ns \in Nat \ {0} /\ start \in Nat
    BY <1>1, Scheduled, PullConsumerAssumption DEF IInv, TimeTypes
  <2>2. PICK k \in Nat : Nanos(nextPull) = start + k * Period_ns
    BY <1>1 DEF IInv, ScheduleOK
  <2>3. k * Period_ns \in Nat /\ (k * Period_ns) % Period_ns = 0
    BY <2>1, Multiple, Zenon
  <2>4. Nanos(nextPull) - start = k * Period_ns
    BY <2>1, <2>2, <2>3
  <2> QED BY <2>3, <2>4, Zenon DEF Period_ns
<1>2. IInv => OnSchedule
  BY <1>1 DEF IInv, ScheduleOK, OnSchedule, Period_ns
<1> QED BY <1>2, Invariance, PTL

(* However ProxyPullConsumer_i ends a connection, and a fourth failure in  *)
(* a row does, all three sides agree.                                      *)
THEOREM EndsAreComplete == Spec => []EndIsComplete
<1>1. IInv => EndIsComplete
  BY DEF IInv, ProxyTypes, CountOK, EndOK, ServantOK, EndIsComplete
<1> QED BY <1>1, Invariance, PTL
==============================================================================
