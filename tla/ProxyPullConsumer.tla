-------------------------- MODULE ProxyPullConsumer --------------------------
(***************************************************************************)
(* Events from pull suppliers: the proxies of one channel                  *)
(* (ProxyPullConsumer.cc), which ask their suppliers with pull() or        *)
(* try_pull(), and the channel's thread, which in each transfer collects   *)
(* the answers and, when it is time, sends new requests                    *)
(* (SupplierAdmin_i::collect).                                             *)
(*                                                                         *)
(* External (omniORB): no call of a client runs during a transfer, and     *)
(* those of one POA run one at a time, so a call is one step.  Suppliers   *)
(* answer at any time.  A deactivated servant is etherealized some time    *)
(* later, and its reference takes no calls until then.                     *)
(* With omniORB 4.2 env() throws the exception that a request ended with,  *)
(* with 4.1 it returns (comments in ProxyPushSupplier.cc and Orb.cc, which *)
(* catch it; collect() does not).  Both are modelled.                      *)
(***************************************************************************)
EXTENDS Integers, FiniteSets

CONSTANTS
  Proxies,      \* object references made by obtain_pull_consumer()
  Periods,      \* PullRetryPeriod_ms: the values to look at
  Cycle,        \* CyclePeriod_ns / MILLION
  MsPerSec,     \* 1000
  MILLION,      \* ns in a ms
  StartTimes,   \* when the channel may be made, in ns
  MaxTime,      \* bound: the clock, in ns
  MaxCalls,     \* bound: connect and disconnect calls
  MaxGiven      \* bound: events that one supplier gives on one connection

ASSUME PullConsumerAssumption ==
  /\ Periods \subseteq Nat /\ Cycle \in Nat /\ StartTimes \subseteq Nat
  /\ MsPerSec \in Nat \ {0} /\ MILLION \in Nat \ {0}
  /\ MaxTime \in Nat /\ MaxCalls \in Nat /\ MaxGiven \in Nat
  /\ \A t \in StartTimes : t >= MsPerSec * MILLION /\ t <= MaxTime   \* later than the first second

VARIABLES
  poa,        \* poa[p]: "inactive", "active", or "deactivated"
  target,     \* target[p]: _target is not nil
  req,        \* req[p]: _req: "nil", "sent", or the supplier's answer
  mode,       \* mode[p]: _mode, also the operation of _req
  count,      \* count[p]: _exceptionCount
  logged,     \* proxies whose connection the log file has
  told,       \* proxies that sent disconnect_pull_supplier
  ended,      \* history: servants that were connected, and are no more
  given,      \* history: events that p's supplier gave on this connection
  collected,  \* history: those that collect() put into SupplierAdmin's _queue
  envThrows,  \* the server is built with omniORB 4.2
  aborted,    \* an assertion has failed: the server is gone
  turn, todo, \* the channel's thread, and the proxies its loop has to visit
  ncalls,
  now,        \* the clock, in ns
  start,      \* history: when the channel was made
  last,       \* history: when requests were last sent
  period,     \* PullRetryPeriod_ms of this channel
  nextPull    \* SupplierAdmin_i::_nextPull: seconds and ns

proxyVars == <<poa, target, req, mode, count, logged, told, ended, given, collected>>
timeVars == <<now, start, last, period, nextPull>>
vars == <<proxyVars, envThrows, aborted, turn, todo, ncalls, timeVars>>

Modes == {"pull", "try_pull"}
Answers == {"event", "empty", "exception"}
BILLION == MsPerSec * MILLION
servants == {p \in Proxies : poa[p] # "inactive"}
get_time == <<now \div BILLION, now % BILLION>>
AtLeast(s, t) == s[1] > t[1] \/ (s[1] = t[1] /\ s[2] >= t[2])

(* The constructor of SupplierAdmin_i sets the time of the first pull only *)
(* if pulls are rarer than transfers.                                      *)
Init ==
  /\ poa = [p \in Proxies |-> "inactive"] /\ target = [p \in Proxies |-> FALSE]
  /\ req = [p \in Proxies |-> "nil"] /\ mode = [p \in Proxies |-> "pull"]
  /\ count = [p \in Proxies |-> 0]
  /\ logged = {} /\ told = {} /\ ended = {}
  /\ given = [p \in Proxies |-> 0] /\ collected = [p \in Proxies |-> 0]
  /\ envThrows \in BOOLEAN /\ aborted = FALSE /\ turn = "open" /\ todo = {} /\ ncalls = 0
  /\ now \in StartTimes /\ start = now /\ last = now
  /\ period \in Periods
  /\ nextPull = IF period > Cycle THEN get_time ELSE <<0, 0>>

-----------------------------------------------------------------------------
(* ProxyPullConsumerManager::incarnate, for a call on a reference without  *)
(* a servant.                                                              *)
incarnate(p) ==
  IF poa[p] = "active" THEN UNCHANGED <<mode, count, given, collected>>
  ELSE /\ mode' = [mode EXCEPT ![p] = "pull"] /\ count' = [count EXCEPT ![p] = 0]
       /\ given' = [given EXCEPT ![p] = 0] /\ collected' = [collected EXCEPT ![p] = 0]

(* The servant that serves a call: a new one has neither target nor _req.  *)
isNew(p) == poa[p] = "inactive"
hasTarget(p) == ~isNew(p) /\ target[p]
hasReq(p) == ~isNew(p) /\ req[p] # "nil"

clientCall(p) ==
  /\ turn = "open" /\ ncalls < MaxCalls /\ poa[p] # "deactivated"
  /\ ncalls' = ncalls + 1
  /\ incarnate(p)
  /\ UNCHANGED <<aborted, turn, todo, timeVars>>

(* BAD_PARAM for a nil supplier, AlreadyConnected for a second one.        *)
connect_pull_supplier(p, isNil) ==
  /\ clientCall(p)
  /\ poa' = [poa EXCEPT ![p] = "active"]
  /\ LET refused == isNil \/ hasTarget(p) \/ hasReq(p)
     IN  /\ target' = [target EXCEPT ![p] = IF refused THEN hasTarget(p) ELSE TRUE]
         /\ logged' = IF refused THEN logged ELSE logged \cup {p}
  /\ req' = [req EXCEPT ![p] = IF isNew(p) THEN "nil" ELSE @]
  /\ told' = IF isNew(p) THEN told \ {p} ELSE told
  /\ ended' = IF isNew(p) THEN ended \ {p} ELSE ended

(* Mutant of close: the supplier is not told.                              *)
closeSilently(p) ==
  /\ target' = [target EXCEPT ![p] = FALSE]
  /\ logged' = logged \ {p} /\ told' = told
  /\ ended' = ended \cup {p}
  /\ poa' = [poa EXCEPT ![p] = "deactivated"]

(* The end of a connection: the supplier is told, _target forgotten, the   *)
(* record erased, and the servant deactivated.                             *)
close(p) ==
  /\ target' = [target EXCEPT ![p] = FALSE]
  /\ logged' = logged \ {p} /\ told' = told \cup {p}
  /\ ended' = ended \cup {p}
  /\ poa' = [poa EXCEPT ![p] = "deactivated"]

(* OBJECT_NOT_EXIST, after the deactivation, when there is no target.  A   *)
(* request under way is left to the destructor.                            *)
disconnect_pull_consumer(p) ==
  /\ clientCall(p)
  /\ IF hasTarget(p) THEN close(p)
     ELSE /\ poa' = [poa EXCEPT ![p] = "deactivated"]
          /\ target' = [target EXCEPT ![p] = FALSE] /\ logged' = logged \ {p}
          /\ told' = told \ {p} /\ ended' = ended \ {p}
  /\ req' = [req EXCEPT ![p] = IF isNew(p) THEN "nil" ELSE @]

(* ProxyManager::etherealize.  ~Proxy gives the request to the Orb.        *)
etherealize(p) ==
  /\ turn = "open" /\ poa[p] = "deactivated"
  /\ poa' = [poa EXCEPT ![p] = "inactive"] /\ req' = [req EXCEPT ![p] = "nil"]
  /\ UNCHANGED <<target, mode, count, logged, told, ended, given, collected, aborted,
                 turn, todo, ncalls, timeVars>>

(* The supplier answers.  Only try_pull() may say that there is no event.  *)
Respond(p, answer) ==
  /\ req[p] = "sent"
  /\ answer = "empty" => mode[p] = "try_pull"
  /\ answer = "event" => given[p] < MaxGiven
  /\ req' = [req EXCEPT ![p] = answer]
  /\ given' = IF answer = "event" THEN [given EXCEPT ![p] = @ + 1] ELSE given
  /\ UNCHANGED <<poa, target, mode, count, logged, told, ended, collected, aborted,
                 turn, todo, ncalls, timeVars>>

(* The clock, where the code looks at it.                                  *)
Tick ==
  /\ turn = "open" /\ now < MaxTime /\ nextPull[1] # 0
  /\ now' = now + 1
  /\ UNCHANGED <<proxyVars, aborted, turn, todo, ncalls, start, last, period, nextPull>>

-----------------------------------------------------------------------------
step(from, to) == ~aborted /\ turn = from /\ turn' = to /\ UNCHANGED ncalls

(* mainLoop: hold_requests(1), then SupplierAdmin_i::collect.              *)
hold_requests ==
  /\ step("open", "collect")
  /\ todo' = servants
  /\ UNCHANGED <<proxyVars, aborted, timeVars>>

visit(p) == p \in todo /\ todo' = todo \ {p}

otherMode(m) == IF m = "pull" THEN "try_pull" ELSE "pull"

(* collect(): the answer is an exception, and the other operation is tried *)
(* next; or it is the fourth in a row, and the connection ends.            *)
(* reportObjectFailure() asserts that there is a target.                   *)
collectException(p) ==
  /\ ~envThrows
  /\ step("collect", "collect") /\ visit(p) /\ req[p] = "exception"
  /\ count' = [count EXCEPT ![p] = @ + 1]
  /\ mode' = [mode EXCEPT ![p] = otherMode(@)]
  /\ req' = [req EXCEPT ![p] = "nil"]
  /\ \/ count[p] + 1 < 4 /\ UNCHANGED <<poa, target, logged, told, ended, aborted>>
     \/ count[p] + 1 >= 4 /\ target[p] /\ close(p) /\ UNCHANGED aborted
     \/ /\ count[p] + 1 >= 4 /\ ~target[p]
        /\ aborted' = TRUE /\ UNCHANGED <<poa, target, logged, told, ended>>
  /\ UNCHANGED <<given, collected, timeVars>>

(* ... or, where env() throws, the exception leaves collect() and          *)
(* mainLoop(), and the channel's thread ends with the calls still held.    *)
collectThrows(p) ==
  /\ envThrows
  /\ step("collect", "dead") /\ visit(p) /\ req[p] = "exception"
  /\ UNCHANGED <<proxyVars, aborted, timeVars>>

(* ... or it is a result, with or without an event.                        *)
collectResult(p) ==
  /\ step("collect", "collect") /\ visit(p) /\ req[p] \in {"event", "empty"}
  /\ collected' = IF req[p] = "event" THEN [collected EXCEPT ![p] = @ + 1] ELSE collected
  /\ count' = [count EXCEPT ![p] = 0]
  /\ req' = [req EXCEPT ![p] = "nil"]
  /\ UNCHANGED <<poa, target, mode, logged, told, ended, given, aborted, timeVars>>

(* ... or there is no answer yet.                                          *)
collectNothing(p) ==
  /\ step("collect", "collect") /\ visit(p) /\ req[p] \in {"nil", "sent"}
  /\ UNCHANGED <<proxyVars, aborted, timeVars>>

(* Mutant of addPeriod: the carry to the seconds is lost.                  *)
addPeriodNoCarry(t) ==
  <<t[1] + period \div MsPerSec, (t[2] + (period % MsPerSec) * MILLION) % BILLION>>

(* One turn of the loop that advances _nextPull, with its carry.           *)
addPeriod(t) ==
  LET ns == t[2] + (period % MsPerSec) * MILLION
  IN  <<t[1] + period \div MsPerSec + ns \div BILLION, ns % BILLION>>

(* Mutant of isDue: the test for "no delay" is the wrong way round.        *)
isDueSwapped == nextPull[1] # 0 /\ AtLeast(get_time, nextPull)

(* Whether this transfer is to send new requests.                          *)
isDue == nextPull[1] = 0 \/ AtLeast(get_time, nextPull)

schedule ==
  /\ todo = {}
  /\ \/ isDue /\ step("collect", "trigger") /\ todo' = servants /\ last' = now
     \/ ~isDue /\ step("collect", "open") /\ UNCHANGED <<todo, last>>
  /\ UNCHANGED <<proxyVars, aborted, now, start, period, nextPull>>

(* Mutant of mayAsk: a request is replaced by a new one.                   *)
mayAskAgain(p) == target[p]

mayAsk(p) == req[p] = "nil" /\ target[p]

(* triggerRequest(), with pull() or try_pull().                            *)
triggerRequest(p) ==
  /\ step("trigger", "trigger") /\ visit(p)
  /\ req' = [req EXCEPT ![p] = IF mayAsk(p) THEN "sent" ELSE @]
  /\ UNCHANGED <<poa, target, mode, count, logged, told, ended, given, collected,
                 aborted, timeVars>>

(* No delay between pulls: the transfer ends.                              *)
activate ==
  /\ todo = {} /\ nextPull[1] = 0 /\ step("trigger", "open")
  /\ UNCHANGED <<proxyVars, aborted, todo, timeVars>>

(* Otherwise the loop over _nextPull: a turn at least, and another one     *)
(* while _nextPull is not after the time that was read before.             *)
advance ==
  /\ todo = {} /\ nextPull[1] # 0
  /\ nextPull' = addPeriod(nextPull)
  /\ step("trigger", IF AtLeast(get_time, addPeriod(nextPull)) THEN "trigger" ELSE "open")
  /\ UNCHANGED <<proxyVars, aborted, todo, now, start, last, period>>

-----------------------------------------------------------------------------
channelThread ==
  /\ UNCHANGED envThrows
  /\ \/ hold_requests \/ schedule \/ activate \/ advance
     \/ \E p \in Proxies :
          \/ collectException(p) \/ collectThrows(p) \/ collectResult(p) \/ collectNothing(p)
          \/ triggerRequest(p)

Finished == (aborted \/ turn = "dead") /\ UNCHANGED vars

Next ==
  \/ \E p \in Proxies :
       /\ ~aborted /\ UNCHANGED envThrows
       /\ \/ \E isNil \in BOOLEAN : connect_pull_supplier(p, isNil)
          \/ disconnect_pull_consumer(p) \/ etherealize(p)
          \/ \E answer \in Answers : Respond(p, answer)
  \/ ~aborted /\ Tick /\ UNCHANGED envThrows
  \/ channelThread
  \/ Finished

Spec == Init /\ [][Next]_vars

(* The channel's thread keeps running; suppliers need not answer.          *)
FairSpec == Spec /\ WF_vars(channelThread)

-----------------------------------------------------------------------------
(* Type correctness.                                                       *)
FlagTypes == target \in [Proxies -> BOOLEAN] /\ aborted \in BOOLEAN /\ envThrows \in BOOLEAN

ProxyTypes ==
  /\ poa \in [Proxies -> {"inactive", "active", "deactivated"}]
  /\ req \in [Proxies -> {"nil", "sent"} \cup Answers]
  /\ mode \in [Proxies -> Modes] /\ count \in [Proxies -> 0 .. 4]
  /\ logged \subseteq Proxies /\ told \subseteq Proxies /\ ended \subseteq Proxies
  /\ given \in [Proxies -> 0 .. MaxGiven] /\ collected \in [Proxies -> 0 .. MaxGiven]

ThreadTypes ==
  /\ turn \in {"open", "collect", "trigger", "dead"} /\ todo \subseteq Proxies
  /\ ncalls \in 0 .. MaxCalls

TimeTypes ==
  /\ now \in 0 .. MaxTime /\ start \in StartTimes /\ last \in 0 .. MaxTime
  /\ period \in Periods /\ nextPull \in Nat \X (0 .. BILLION - 1)

TypeOK == FlagTypes /\ ProxyTypes /\ ThreadTypes /\ TimeTypes

(* An event that a supplier gave away on a connection that still stands is *)
(* in the channel, or in the answer that the next transfer collects: no    *)
(* request is dropped or replaced with its answer unread.                  *)
NoEventLost ==
  \A p \in Proxies :
    target[p] => given[p] = collected[p] + (IF req[p] = "event" THEN 1 ELSE 0)

(* Four failed answers in a row end a connection, as the client's call     *)
(* does; and however it ends, the supplier is told, the log file forgets   *)
(* it, and the reference takes no more calls before it has a new servant.  *)
(* That is so also when the fourth failure is collected after the client's *)
(* disconnect, which fails an assertion.  Where env() throws, failures end *)
(* no connection, because the first of them ends the channel's thread.     *)
EndIsComplete ==
  \A p \in Proxies :
    p \in ended \/ count[p] >= 4 =>
      p \in told \ logged /\ ~target[p] /\ poa[p] # "active"

(* Pulls keep to the grid of PullRetryPeriod_ms that starts with the       *)
(* channel, without drift: after a pull, however late, the next one is due *)
(* at the first point of the grid that is still to come.                   *)
Nanos(t) == t[1] * BILLION + t[2]
OnSchedule ==
  period > Cycle =>
    /\ (Nanos(nextPull) - start) % (period * MILLION) = 0
    /\ turn # "trigger" /\ Nanos(nextPull) # start =>
         Nanos(nextPull) > last /\ Nanos(nextPull) - period * MILLION <= last

(* When pulls are not delayed, a supplier that connected, or that answered *)
(* the last request, is asked (again), or its connection ends; except that *)
(* with omniORB 4.2 a supplier's failed answer ends the channel's thread,  *)
(* after which none is asked again.                                        *)
ThreadKilled == envThrows /\ turn = "dead" /\ \E p \in Proxies : req[p] = "exception"
AskedAgain ==
  \A p \in Proxies :
    target[p] /\ req[p] # "sent" /\ nextPull[1] = 0 ~>
      req[p] = "sent" \/ ~target[p] \/ aborted \/ ThreadKilled
=============================================================================
