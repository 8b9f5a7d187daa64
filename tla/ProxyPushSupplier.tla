-------------------------- MODULE ProxyPushSupplier --------------------------
(***************************************************************************)
(* Delivery to the push consumers of one channel: the thread of            *)
(* ProxyPushSupplierManager, its mutex and condition, the proxies it       *)
(* triggers (ProxyPushSupplier.cc), the sender (ConsumerAdmin_i::send) and *)
(* the three other threads that touch a proxy:                             *)
(*   - the thread of the single threaded POA, which makes a servant on the *)
(*     first call (incarnate) and runs connect and disconnect calls one at *)
(*     a time, WITHOUT the manager's mutex;                                *)
(*   - the ORB's etherealizer, which frees a deactivated servant under the *)
(*     mutex;                                                              *)
(*   - the thread that shuts the channel down.                             *)
(* The event queue is the stream that EventQueue.tla is proved to          *)
(* implement.  Time is left out: a timed wait may end at any moment, so    *)
(* the doubling of its length makes no difference here.                    *)
(***************************************************************************)
EXTENDS Integers, Sequences

CONSTANTS
  Proxies,          \* object references made by obtain_push_supplier()
  MaxQueueLength,
  HasLog,           \* omniEventsLog::exists()
  Responsive,       \* the proxies whose consumers always answer in the end
  MaxEvents,        \* bound: events sent
  MaxCalls          \* bound: connect and disconnect calls made by clients

ASSUME PushAssumption ==
  /\ MaxQueueLength \in Nat \ {0} /\ MaxEvents \in Nat /\ MaxCalls \in Nat
  /\ HasLog \in BOOLEAN /\ Responsive \subseteq Proxies

VARIABLES
  stream, pos, seen,  \* the queue and the proxies' places in it (EventStream)
  poa,      \* poa[p]: "inactive" (no servant), "active", or "deactivated" and
            \* waiting to be etherealized
  target,   \* target[p]: _target is not nil
  req,      \* req[p]: the outstanding push: "nil", "sent", or its response
  told,     \* told[p]: disconnect_push_consumer calls sent on this connection
  ended,    \* ended[p]: history: p's servant was connected, and is no more
  late,     \* late[p]: history: p was connected when it was already being
            \* deactivated, or still when its POA was destroyed
  logged,   \* logged[p]: replaying the log file would restore p's connection
  stray,    \* a "-" that no key follows: "none", at the "end" of the log
            \* file, or in the "past"
  mgr,      \* where the manager's thread is
  todo,     \* servants its loop still has to trigger
  cur,      \* the servant it is triggering
  busy, waiting,
  call,     \* the POA's thread: the client call it runs and where it is
  ncalls,
  sender,   \* the thread in send()
  closer,   \* the thread that destroys the POA and drops the manager
  refs      \* ProxyPushSupplierManager::_refCount

queueVars == <<stream, pos, seen>>
proxyVars == <<poa, target, req, told, ended, late>>
logVars == <<logged, stray>>
mgrVars == <<mgr, todo, cur, busy, waiting>>
vars == <<queueVars, proxyVars, logVars, mgrVars, call, ncalls, sender, closer, refs>>

Queue == INSTANCE EventStream WITH
  Readers <- Proxies, Events <- 1 .. MaxEvents, Ring <- MaxQueueLength + 1

servants == {p \in Proxies : poa[p] # "inactive"}
moreEvents(p) == pos[p] # Queue!Absent /\ pos[p] < Len(stream)
idleCall == [op |-> "none", p |-> "none", pc |-> "idle"]

(* The manager's thread has the mutex except while it waits and for the    *)
(* moment between two busy rounds; every other critical section is one     *)
(* step.                                                                   *)
Locked == mgr \in {"loop", "trigger", "push", "erase", "deactivate"}

Init ==
  /\ Queue!Init
  /\ poa = [p \in Proxies |-> "inactive"]
  /\ target = [p \in Proxies |-> FALSE]
  /\ req = [p \in Proxies |-> "nil"]
  /\ told = [p \in Proxies |-> 0]
  /\ ended = [p \in Proxies |-> FALSE] /\ late = [p \in Proxies |-> FALSE]
  /\ logged = [p \in Proxies |-> FALSE] /\ stray = "none"
  /\ mgr = "loop" /\ todo = {} /\ cur = "none" /\ busy = FALSE /\ waiting = FALSE
  /\ call = idleCall /\ ncalls = 0
  /\ sender = "idle" /\ closer = "running" /\ refs = 2

-----------------------------------------------------------------------------
(* omni_condition::signal.                                                 *)
Signalled == IF mgr = "wait" THEN "woken" ELSE mgr
signal == mgr' = Signalled /\ UNCHANGED <<todo, cur, busy, waiting>>

(* Proxy::eraseKey: "-", the key, end of line.  keyOutput raises           *)
(* ServantNotActive once the servant is deactivated, after the "-" is out. *)
(* Behind a stray "-" the line names no key that exists.                   *)
AfterLine == IF stray = "end" THEN "past" ELSE stray
eraseKeyRaises(p) == HasLog /\ poa[p] # "active"
eraseKey(p) ==
  IF ~HasLog THEN UNCHANGED logVars
  ELSE /\ stray' = IF poa[p] # "active" THEN "end" ELSE AfterLine
       /\ logged' = [logged EXCEPT ![p] = @ /\ (poa[p] # "active" \/ stray = "end")]

(* Servant::deactivateObject: no effect when it is not active any more.    *)
deactivateObject(p) ==
  poa' = [poa EXCEPT ![p] = IF @ = "active" THEN "deactivated" ELSE @]

-----------------------------------------------------------------------------
(* ConsumerAdmin_i::send: append under the mutex, then signal.             *)
SendStart ==
  /\ sender = "idle" /\ closer = "running" /\ Len(stream) < MaxEvents
  /\ sender' = "locking"
  /\ UNCHANGED <<queueVars, proxyVars, logVars, mgrVars, call, ncalls, closer, refs>>

SendAppend ==
  /\ sender = "locking" /\ ~Locked
  /\ Queue!Append1(Len(stream) + 1)
  /\ sender' = "signal"
  /\ UNCHANGED <<proxyVars, logVars, mgrVars, call, ncalls, closer, refs>>

SendSignal ==
  /\ sender = "signal" /\ sender' = "idle"
  /\ signal
  /\ UNCHANGED <<queueVars, proxyVars, logVars, call, ncalls, closer, refs>>

-----------------------------------------------------------------------------
(* The POA's thread.  A call on a reference without a servant makes one    *)
(* first; calls wait while the old servant is still to be etherealized.    *)
StartCall(op, p) ==
  /\ call = idleCall /\ ncalls < MaxCalls /\ closer = "running"
  /\ poa[p] # "deactivated"
  /\ call' = [op |-> op, p |-> p, pc |-> IF poa[p] = "active" THEN op ELSE "incarnate"]
  /\ ncalls' = ncalls + 1
  /\ UNCHANGED <<queueVars, proxyVars, logVars, mgrVars, sender, closer, refs>>

(* ProxyPushSupplierManager::incarnate: a servant, which is a reader of    *)
(* the queue from now on ...                                               *)
incarnate ==
  /\ call.pc = "incarnate"
  /\ Queue!Join(call.p)
  /\ target' = [target EXCEPT ![call.p] = FALSE]
  /\ req' = [req EXCEPT ![call.p] = "nil"]
  /\ ended' = [ended EXCEPT ![call.p] = FALSE]
  /\ late' = [late EXCEPT ![call.p] = FALSE]
  /\ call' = [call EXCEPT !.pc = "insert"]
  /\ UNCHANGED <<poa, told, logVars, mgrVars, ncalls, sender, closer, refs>>

(* ... is put into _servants under the mutex, and the thread is woken.     *)
incarnateInsert ==
  /\ call.pc = "insert" /\ ~Locked
  /\ poa' = [poa EXCEPT ![call.p] = "active"]
  /\ call' = [call EXCEPT !.pc = "wake"]
  /\ UNCHANGED <<queueVars, target, req, told, ended, late, logVars, mgrVars, ncalls,
                 sender, closer, refs>>

incarnateWake ==
  /\ call.pc = "wake"
  /\ call' = [call EXCEPT !.pc = call.op]
  /\ signal
  /\ UNCHANGED <<queueVars, proxyVars, logVars, ncalls, sender, closer, refs>>

(* trigger() or disconnect_push_supplier() is about to deactivate p, or    *)
(* has.                                                                    *)
ending(p) == poa[p] # "active" \/ (mgr \in {"erase", "deactivate"} /\ cur = p)

(* connect_push_consumer: AlreadyConnected, or the target is set ...       *)
connect ==
  /\ call.pc = "connect"
  /\ \/ /\ target[call.p] \/ req[call.p] # "nil"
        /\ call' = idleCall
        /\ UNCHANGED <<target, told, late>>
     \/ /\ ~target[call.p] /\ req[call.p] = "nil"
        /\ target' = [target EXCEPT ![call.p] = TRUE]
        /\ told' = [told EXCEPT ![call.p] = 0]
        /\ late' = [late EXCEPT ![call.p] = ending(call.p)]
        /\ call' = [call EXCEPT !.pc = "output"]
  /\ ended' = [ended EXCEPT ![call.p] = @ /\ ~target'[call.p]]
  /\ UNCHANGED <<queueVars, poa, req, logVars, mgrVars, ncalls, sender, closer, refs>>

(* Mutant of connectOutput: only if the client has not been pushed yet.    *)
connectOutputIdle ==
  /\ call.pc = "output"
  /\ call' = idleCall
  /\ IF HasLog /\ poa[call.p] = "active" /\ req[call.p] = "nil"
       THEN stray' = AfterLine /\ logged' = [logged EXCEPT ![call.p] = stray # "end"]
       ELSE UNCHANGED logVars
  /\ UNCHANGED <<queueVars, proxyVars, mgrVars, ncalls, sender, closer, refs>>

(* ... and written to the log, unless the servant is deactivated by now    *)
(* (ServantNotActive).  Behind a stray "-" the record deletes its key.     *)
connectOutput ==
  /\ call.pc = "output"
  /\ call' = idleCall
  /\ IF HasLog /\ poa[call.p] = "active"
       THEN stray' = AfterLine /\ logged' = [logged EXCEPT ![call.p] = stray # "end"]
       ELSE UNCHANGED logVars
  /\ UNCHANGED <<queueVars, proxyVars, mgrVars, ncalls, sender, closer, refs>>

(* disconnect_push_supplier, in its three steps.                           *)
disconnectErase ==
  /\ call.pc = "disconnect"
  /\ eraseKey(call.p)
  /\ call' = IF eraseKeyRaises(call.p) THEN idleCall
             ELSE [call EXCEPT !.pc = "deactivate"]
  /\ UNCHANGED <<queueVars, proxyVars, mgrVars, ncalls, sender, closer, refs>>

disconnectDeactivate ==
  /\ call.pc = "deactivate"
  /\ deactivateObject(call.p)
  /\ call' = [call EXCEPT !.pc = "target"]
  /\ UNCHANGED <<queueVars, target, req, told, ended, late, logVars, mgrVars, ncalls,
                 sender, closer, refs>>

(* Mutant of closeTarget: the consumer is not told.                        *)
closeSilently(p) ==
  /\ target' = [target EXCEPT ![p] = FALSE]
  /\ ended' = [ended EXCEPT ![p] = TRUE]
  /\ UNCHANGED told

(* Send disconnect_push_consumer and forget the target.                    *)
closeTarget(p) ==
  /\ told' = [told EXCEPT ![p] = @ + 1]
  /\ target' = [target EXCEPT ![p] = FALSE]
  /\ ended' = [ended EXCEPT ![p] = TRUE]

(* OBJECT_NOT_EXIST when there is no target.                               *)
disconnectTarget ==
  /\ call.pc = "target"
  /\ IF target[call.p] THEN closeTarget(call.p) ELSE UNCHANGED <<target, told, ended>>
  /\ call' = idleCall
  /\ UNCHANGED <<queueVars, poa, req, late, logVars, mgrVars, ncalls, sender, closer, refs>>

(* Mutant of mayEtherealize: without the mutex.                            *)
etherealizeUnlocked(p) == poa[p] = "deactivated" /\ call.p # p

(* The ORB etherealizes a deactivated servant once no call runs in it.     *)
mayEtherealize(p) == poa[p] = "deactivated" /\ call.p # p /\ ~Locked

(* ProxyPushSupplierManager::etherealize.  A target that the servant still *)
(* has goes with it, and ~Proxy() gives its request to the Orb.            *)
etherealize(p) ==
  /\ mayEtherealize(p)
  /\ Queue!Leave(p)
  /\ poa' = [poa EXCEPT ![p] = "inactive"]
  /\ target' = [target EXCEPT ![p] = FALSE]
  /\ ended' = [ended EXCEPT ![p] = @ \/ target[p]]
  /\ req' = [req EXCEPT ![p] = "nil"]
  /\ UNCHANGED <<told, late, logVars, mgrVars, call, ncalls, sender, closer, refs>>

(* The consumer's answer to a push, or the ORB's time-out or failure.      *)
Respond(p) ==
  /\ req[p] = "sent"
  /\ \E r \in {"ok", "timeout", "failed"} : req' = [req EXCEPT ![p] = r]
  /\ UNCHANGED <<queueVars, poa, target, told, ended, late, logVars, mgrVars, call, ncalls,
                 sender, closer, refs>>

-----------------------------------------------------------------------------
(* busy, waiting and the iterator are local to a round.                    *)
leaveRound == busy' = FALSE /\ waiting' = FALSE /\ todo' = {} /\ cur' = "none"

(* run_undetached: the start of a round.                                   *)
loop ==
  /\ mgr = "loop"
  /\ IF refs < 1
       THEN mgr' = "done" /\ UNCHANGED todo
       ELSE mgr' = "trigger" /\ todo' = servants
  /\ UNCHANGED <<queueVars, proxyVars, logVars, cur, busy, waiting, call, ncalls, sender, closer, refs>>

(* Mutant of triggerFailed: the request is kept.                           *)
triggerFailedKeep(p) ==
  /\ mgr = "trigger" /\ p \in todo /\ req[p] = "failed"
  /\ IF target[p] THEN closeTarget(p) ELSE UNCHANGED <<told, target, ended>>
  /\ mgr' = "erase" /\ cur' = p
  /\ UNCHANGED <<queueVars, poa, req, late, logVars, todo, busy, waiting, call, ncalls, sender,
                 closer, refs>>

(* trigger(): a failed response shuts the connection down.  _req is only   *)
(* cleared while there is a target.                                        *)
triggerFailed(p) ==
  /\ mgr = "trigger" /\ p \in todo /\ req[p] = "failed"
  /\ IF target[p]
       THEN closeTarget(p) /\ req' = [req EXCEPT ![p] = "nil"]
       ELSE UNCHANGED <<told, target, ended, req>>
  /\ mgr' = "erase" /\ cur' = p
  /\ UNCHANGED <<queueVars, poa, late, logVars, todo, busy, waiting, call, ncalls, sender,
                 closer, refs>>

(* ... eraseKey; its ServantNotActive ends the round, but not the loop,    *)
(* and leaves the mutex locked ...                                         *)
triggerErase ==
  /\ mgr = "erase"
  /\ eraseKey(cur)
  /\ IF eraseKeyRaises(cur)
       THEN mgr' = "loop" /\ leaveRound
       ELSE mgr' = "deactivate" /\ UNCHANGED <<todo, cur, busy, waiting>>
  /\ UNCHANGED <<queueVars, proxyVars, call, ncalls, sender, closer, refs>>

triggerDeactivate ==
  /\ mgr = "deactivate"
  /\ deactivateObject(cur)
  /\ mgr' = "trigger" /\ todo' = todo \ {cur} /\ cur' = "none"
  /\ UNCHANGED <<queueVars, target, req, told, ended, late, logVars, busy, waiting, call,
                 ncalls, sender, closer, refs>>

(* Any other response, a time-out too, frees the proxy for another push.   *)
triggerPoll(p) ==
  /\ mgr = "trigger" /\ p \in todo /\ req[p] # "failed"
  /\ LET answered == req[p] \in {"ok", "timeout"}
         free == answered \/ req[p] = "nil"
     IN  /\ req' = [req EXCEPT ![p] = IF answered THEN "nil" ELSE @]
         /\ busy' = (busy \/ answered)
         /\ \/ /\ free /\ target[p] /\ moreEvents(p)
               /\ mgr' = "push" /\ cur' = p
               /\ UNCHANGED <<todo, waiting>>
            \/ /\ ~(free /\ target[p] /\ moreEvents(p))
               /\ waiting' = (waiting \/ ~free)
               /\ todo' = todo \ {p}
               /\ UNCHANGED <<mgr, cur>>
  /\ UNCHANGED <<queueVars, poa, target, told, ended, late, logVars, call, ncalls, sender,
                 closer, refs>>

(* The push itself.  The POA's thread may have made _target nil since it   *)
(* was tested: using it then raises a CORBA exception.                     *)
triggerPush ==
  /\ mgr = "push"
  /\ IF target[cur]
       THEN /\ Queue!Read(cur)
            /\ req' = [req EXCEPT ![cur] = "sent"]
            /\ busy' = TRUE /\ waiting' = TRUE
            /\ mgr' = "trigger" /\ todo' = todo \ {cur} /\ cur' = "none"
       ELSE mgr' = "loop" /\ leaveRound /\ UNCHANGED <<queueVars, req>>
  /\ UNCHANGED <<poa, target, told, ended, late, logVars, call, ncalls, sender, closer, refs>>

(* Mutant of pause: always block until a new event arrives.                *)
pauseWaiting == IF busy THEN "relock" ELSE "wait"

(* Mutant of pause: the mutex is kept from one busy round to the next.     *)
pauseSpinning == IF busy \/ waiting THEN "loop" ELSE "wait"

(* How the thread spends the time until the next round.                    *)
pause == IF busy THEN "relock" ELSE IF waiting THEN "timedwait" ELSE "wait"

endRound ==
  /\ mgr = "trigger" /\ todo = {}
  /\ mgr' = pause
  /\ leaveRound
  /\ UNCHANGED <<queueVars, proxyVars, logVars, call, ncalls, sender, closer, refs>>

resume ==
  /\ mgr \in {"relock", "timedwait", "woken"}
  /\ mgr' = "loop"
  /\ UNCHANGED <<queueVars, proxyVars, logVars, todo, cur, busy, waiting, call, ncalls,
                 sender, closer, refs>>

-----------------------------------------------------------------------------
(* Shutdown.  destroy() has called disconnect_push_supplier() for the      *)
(* servants it found, which is a client's call like any other; now the POA *)
(* is destroyed and etherealizes what there is.  Then it and               *)
(* ~ConsumerAdmin_i drop their references, and the last one joins.         *)
DestroyPoa ==
  /\ closer = "running" /\ call = idleCall /\ sender = "idle"
  /\ closer' = "destroyed"
  /\ poa' = [p \in Proxies |-> IF poa[p] = "active" THEN "deactivated" ELSE poa[p]]
  /\ late' = [p \in Proxies |-> late[p] \/ target[p]]
  /\ UNCHANGED <<queueVars, target, req, told, ended, logVars, mgrVars, call, ncalls,
                 sender, refs>>

_remove_ref ==
  /\ closer = "destroyed" /\ servants = {} /\ refs > 0 /\ ~Locked
  /\ refs' = refs - 1
  /\ closer' = "signal"
  /\ UNCHANGED <<queueVars, proxyVars, logVars, mgrVars, call, ncalls, sender>>

(* Mutant of _remove_refWake: the thread is not woken.                     *)
_remove_refSilent ==
  /\ closer = "signal"
  /\ closer' = IF refs = 0 THEN "joining" ELSE "destroyed"
  /\ UNCHANGED <<queueVars, proxyVars, logVars, mgrVars, call, ncalls, sender, refs>>

_remove_refWake ==
  /\ closer = "signal"
  /\ closer' = IF refs = 0 THEN "joining" ELSE "destroyed"
  /\ signal
  /\ UNCHANGED <<queueVars, proxyVars, logVars, call, ncalls, sender, refs>>

join ==
  /\ closer = "joining" /\ mgr = "done"
  /\ closer' = "closed"
  /\ UNCHANGED <<queueVars, proxyVars, logVars, mgrVars, call, ncalls, sender, refs>>

Finished == closer = "closed" /\ UNCHANGED vars

-----------------------------------------------------------------------------
POAThread ==
  incarnate \/ incarnateInsert \/ incarnateWake \/ connect \/ connectOutput \/ disconnectErase
    \/ disconnectDeactivate \/ disconnectTarget

Manager ==
  \/ loop \/ triggerErase \/ triggerDeactivate \/ triggerPush \/ endRound \/ resume
  \/ \E p \in Proxies : triggerFailed(p) \/ triggerPoll(p)

Next ==
  \/ SendStart \/ SendAppend \/ SendSignal
  \/ \E p \in Proxies : StartCall("connect", p) \/ StartCall("disconnect", p)
  \/ POAThread
  \/ \E p \in Proxies : etherealize(p) \/ Respond(p)
  \/ Manager
  \/ DestroyPoa \/ _remove_ref \/ _remove_refWake \/ join \/ Finished

Spec == Init /\ [][Next]_vars

(* Every thread keeps running, a thread that waits for the mutex gets it   *)
(* if it is released again and again, and the consumers of Responsive      *)
(* answer (or their calls time out); the others may hang for ever.         *)
Fairness ==
  /\ WF_vars(Manager) /\ WF_vars(SendSignal) /\ WF_vars(_remove_refWake) /\ WF_vars(join)
  /\ SF_vars(SendAppend) /\ SF_vars(POAThread) /\ SF_vars(_remove_ref)
  /\ \A p \in Proxies : SF_vars(etherealize(p))
  /\ \A p \in Responsive : WF_vars(Respond(p))

FairSpec == Spec /\ Fairness

-----------------------------------------------------------------------------
(* Type correctness.                                                       *)
QueueTypes ==
  /\ stream \in Seq(1 .. MaxEvents)
  /\ pos \in [Proxies -> {Queue!Absent} \cup 0 .. MaxEvents]
  /\ seen \in [Proxies -> 0 .. MaxEvents]

FlagTypes ==
  /\ target \in [Proxies -> BOOLEAN] /\ ended \in [Proxies -> BOOLEAN]
  /\ late \in [Proxies -> BOOLEAN]
  /\ logged \in [Proxies -> BOOLEAN] /\ busy \in BOOLEAN /\ waiting \in BOOLEAN

ProxyTypes ==
  /\ poa \in [Proxies -> {"inactive", "active", "deactivated"}]
  /\ req \in [Proxies -> {"nil", "sent", "ok", "timeout", "failed"}]
  /\ told \in [Proxies -> 0 .. 1] /\ stray \in {"none", "end", "past"}

ThreadTypes ==
  /\ mgr \in {"loop", "trigger", "push", "erase", "deactivate", "relock", "timedwait",
              "wait", "woken", "done"}
  /\ todo \subseteq Proxies /\ cur \in Proxies \cup {"none"}
  /\ call \in [op : {"none", "connect", "disconnect"}, p : Proxies \cup {"none"},
               pc : {"idle", "incarnate", "insert", "wake", "connect", "output", "disconnect",
                     "deactivate", "target"}]
  /\ ncalls \in 0 .. MaxCalls
  /\ sender \in {"idle", "locking", "signal"}
  /\ closer \in {"running", "destroyed", "signal", "joining", "closed"}
  /\ refs \in 0 .. 2

TypeOK == QueueTypes /\ FlagTypes /\ ProxyTypes /\ ThreadTypes

(* The manager's thread never touches a servant that has been freed: what  *)
(* it iterates over, and the one it is triggering, are in _servants, with  *)
(* the etherealizer running next to it.                                    *)
NoFreedServant ==
  /\ mgr \in {"trigger", "push", "erase", "deactivate"} => todo \subseteq servants
  /\ mgr \in {"push", "erase", "deactivate"} => cur \in servants

(* A proxy that clients can reach and that has no consumer has no push     *)
(* under way either, so a client that connects again is never refused with *)
(* AlreadyConnected because of its predecessor.                            *)
NoOrphanRequest ==
  \A p \in Proxies : poa[p] = "active" /\ ~target[p] => req[p] = "nil"

(* No connection ends behind its consumer's back: whichever threads close  *)
(* it, and if the servant is freed with it, the consumer was sent          *)
(* disconnect_push_consumer.  The exceptions are the connections that came *)
(* too late: after trigger() had made _target nil and before it            *)
(* deactivated the object, or between destroy() and the end of the POA.    *)
EndIsTold == \A p \in Proxies : ended[p] /\ ~late[p] => told[p] > 0

(* The manager's thread never unlocks its mutex again: a push has failed   *)
(* after disconnect_push_supplier(), and in every round eraseKey() raises. *)
Spins ==
  Locked /\ \E p \in Proxies : poa[p] = "deactivated" /\ req[p] = "failed" /\ ~target[p]

(* A wake-up is never lost and a hung consumer holds up nobody else: every *)
(* event that is sent while a consumer that answers its calls is connected *)
(* is pushed to it (seen is its number, and no reader is lapped in a ring  *)
(* this long), or the consumer is disconnected, or the thread spins.       *)
SentIsDelivered ==
  \/ \A p \in Responsive :
       (sender = "locking" /\ target[p]) ~>
         (~target[p] \/ (sender # "locking" /\ seen[p] = Len(stream)))
  \/ <>[]Spins

(* "Briefly unlock the mutex first, just to let the other kids get in if   *)
(* they need to" (run_undetached).  Whoever waits for the manager's mutex  *)
(* gets it, unless the thread spins: the sender, and the etherealizer with *)
(* a deactivated servant.                                                  *)
KidsGetIn ==
  \/ /\ sender = "locking" ~> sender # "locking"
     /\ \A p \in Proxies : poa[p] = "deactivated" ~> poa[p] # "deactivated"
  \/ <>[]Spins

(* _remove_ref's join returns: the thread sees the last reference go,      *)
(* unless it spins.                                                        *)
ShutdownEnds == (closer = "destroyed" ~> closer = "closed") \/ <>[]Spins

(* "writing all state changes to a file" (README): with no call under way, *)
(* the log file restores every connection that exists, as long as no       *)
(* eraseKey() has failed half way and left its "-" behind.                 *)
ConnectionsLogged ==
  HasLog /\ stray = "none" /\ call = idleCall /\ mgr \notin {"erase", "deactivate"} =>
    \A p \in Proxies : poa[p] = "active" /\ target[p] => logged[p]
=============================================================================
