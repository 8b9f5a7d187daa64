-------------------------------- MODULE Orb --------------------------------
(***************************************************************************)
(* The singleton Orb: the list of deferred requests, the loop that polls   *)
(* them and hands the answers to callbacks, and its end at shutdown.       *)
(*                                                                         *)
(* Callback objects are counted references.  refs[c] = 0 is an object that *)
(* was never made, or was deleted.  A Proxy among them may have a request  *)
(* of its own outstanding (_req), which its destructor hands to            *)
(* deferredRequest().  No object waits for two answers at a time, so the   *)
(* list is what each object waits for, and whether there are requests      *)
(* whose answer nobody gets.  The mutex _deferredRequestsLock is held by   *)
(* run() while it polls and while it cleans up.                            *)
(***************************************************************************)
EXTENDS Naturals

CONSTANTS
  Callbacks,  \* the objects that can be registered for an answer
  Nobody      \* no callback: the answer is picked up and ignored

ASSUME CallbacksAssumption == Nobody \notin Callbacks

VARIABLES
  deferred,           \* _deferredRequests: the request registered for each object
  orphans,            \* ... and whether there are requests without a callback
  used,               \* usedCallbacks
  orb,                \* where run() is
  refs,               \* reference count of each callback object
  _req,               \* does the proxy have a request of its own outstanding?
  _targetIsProxy,     \* did the client answer that it is a proxy itself?
  _shutdownRequested

objVars == <<deferred, orphans, refs, _req, _targetIsProxy>>
runVars == <<used, orb, _shutdownRequested>>
orbVars == <<objVars, runVars>>

OrbFlagTypes ==
  /\ orphans \in BOOLEAN
  /\ _req \in [Callbacks -> BOOLEAN]
  /\ _targetIsProxy \in [Callbacks -> BOOLEAN]
  /\ _shutdownRequested \in BOOLEAN

OrbListTypes ==
  /\ deferred \in [Callbacks -> {"none", "waiting", "answered"}]
  /\ used \subseteq Callbacks
  /\ orb \in {"sleep", "poll", "release", "cleanUp", "stuck", "done", "gone"}
  /\ refs \in [Callbacks -> Nat]

OrbTypeOK == OrbFlagTypes /\ OrbListTypes

OrbInit ==
  /\ deferred = [c \in Callbacks |-> "none"]
  /\ refs = [c \in Callbacks |-> 0]
  /\ _req = [c \in Callbacks |-> FALSE]
  /\ orphans = FALSE
  /\ used = {}
  /\ orb = "sleep"
  /\ _targetIsProxy = [c \in Callbacks |-> FALSE]
  /\ _shutdownRequested = FALSE

\* Mutant: used callbacks are released before the mutex is unlocked.
OrbLockedForRelease == orb \in {"poll", "release", "cleanUp", "stuck"}

\* Does run() hold _deferredRequestsLock?
OrbLocked == orb \in {"poll", "cleanUp", "stuck"}

\* Mutant: the callback is registered without a reference.
deferredRequestNoRef(c) ==
  /\ ~OrbLocked
  /\ IF c = Nobody \/ _shutdownRequested
     THEN orphans' = TRUE /\ UNCHANGED deferred
     ELSE deferred' = [deferred EXCEPT ![c] = "waiting"] /\ UNCHANGED orphans
  /\ UNCHANGED <<refs, _req, _targetIsProxy>>

(***************************************************************************)
(* deferredRequest(req, callback), called by another thread or by run()    *)
(* outside its mutex.  After shutdown() nobody is called back.             *)
(***************************************************************************)
deferredRequest(c) ==
  /\ ~OrbLocked
  /\ IF c = Nobody \/ _shutdownRequested
     THEN orphans' = TRUE /\ UNCHANGED <<deferred, refs>>
     ELSE /\ deferred' = [deferred EXCEPT ![c] = "waiting"]
          /\ refs' = [refs EXCEPT ![c] = @ + 1]
          /\ UNCHANGED orphans
  /\ UNCHANGED <<_req, _targetIsProxy>>

(***************************************************************************)
(* _remove_ref().  The last reference deletes the object, and ~Proxy()     *)
(* gives an outstanding request to deferredRequest().                      *)
(***************************************************************************)
deletes(c) == refs[c] = 1
needsLock(c) == deletes(c) /\ _req[c]

_remove_ref(c) ==
  /\ needsLock(c) => ~OrbLocked
  /\ refs' = [refs EXCEPT ![c] = @ - 1]
  /\ _req' = [_req EXCEPT ![c] = @ /\ ~deletes(c)]
  /\ _targetIsProxy' = [_targetIsProxy EXCEPT ![c] = @ /\ ~deletes(c)]
  /\ orphans' = (orphans \/ needsLock(c))
  /\ UNCHANGED deferred

(***************************************************************************)
(* The answer to a request arrives; what it says matters when it is        *)
(* polled.  An answer that arrives during a round has come before or after *)
(* run() looks for it: it is as if it came before or after the round.      *)
(***************************************************************************)
Respond(c) ==
  /\ orb # "poll"
  /\ deferred[c] = "waiting"
  /\ deferred' = [deferred EXCEPT ![c] = "answered"]
  /\ UNCHANGED <<orphans, refs, _req, _targetIsProxy, runVars>>

\* shutdown(): set by a signal handler or by the service control handler.
shutdown ==
  /\ ~_shutdownRequested
  /\ _shutdownRequested' = TRUE
  /\ UNCHANGED <<objVars, used, orb>>

\* The test of the loop, and the sleep of five seconds before the poll.
wake ==
  /\ orb = "sleep"
  /\ orb' = IF _shutdownRequested THEN "cleanUp" ELSE "poll"
  /\ UNCHANGED <<objVars, used, _shutdownRequested>>

(***************************************************************************)
(* poll_response() says that the answer to c's request is there.  The      *)
(* request is released and leaves the list; its callback is kept to be     *)
(* released later.                                                         *)
(***************************************************************************)
collect(c) ==
  /\ orb = "poll"
  /\ deferred[c] = "answered"
  /\ deferred' = [deferred EXCEPT ![c] = "none"]
  /\ used' = used \cup {c}
  /\ UNCHANGED <<orphans, orb, refs, _req, _shutdownRequested>>

\* The answer is an exception: nobody is called.
pollException(c) == collect(c) /\ UNCHANGED _targetIsProxy

\* The answers to all orphan calls are there, and are ignored.
pollOrphans ==
  /\ orb \in {"poll", "cleanUp"}
  /\ orphans
  /\ orphans' = FALSE
  /\ UNCHANGED <<deferred, refs, _req, _targetIsProxy, runVars>>

\* The end of the list: the mutex is unlocked.
pollEnd ==
  /\ orb = "poll"
  /\ \A c \in Callbacks : deferred[c] # "answered"
  /\ orb' = "release"
  /\ UNCHANGED <<objVars, used, _shutdownRequested>>

\* Used callbacks lose the list's reference, outside the mutex.
release(c) ==
  /\ orb = "release"
  /\ c \in used
  /\ _remove_ref(c)
  /\ used' = used \ {c}
  /\ UNCHANGED <<orb, _shutdownRequested>>

releaseEnd ==
  /\ orb = "release"
  /\ used = {}
  /\ orb' = "sleep"
  /\ UNCHANGED <<objVars, used, _shutdownRequested>>

(***************************************************************************)
(* After the loop: get_response() waits for each answer.  The reference is *)
(* dropped with the mutex locked, so a proxy that is deleted here and has  *)
(* a request outstanding waits for a mutex of its own thread.              *)
(***************************************************************************)
cleanUp(c) ==
  /\ orb = "cleanUp"
  /\ deferred[c] = "answered"
  /\ IF needsLock(c)
     THEN orb' = "stuck" /\ UNCHANGED <<deferred, refs, _targetIsProxy>>
     ELSE /\ deferred' = [deferred EXCEPT ![c] = "none"]
          /\ refs' = [refs EXCEPT ![c] = @ - 1]
          /\ _targetIsProxy' = [_targetIsProxy EXCEPT ![c] = @ /\ ~deletes(c)]
          /\ UNCHANGED orb
  /\ UNCHANGED <<orphans, used, _req, _shutdownRequested>>

cleanUpEnd ==
  /\ orb = "cleanUp"
  /\ ~orphans
  /\ \A c \in Callbacks : deferred[c] = "none"
  /\ orb' = "done"
  /\ UNCHANGED <<objVars, used, _shutdownRequested>>

\* ~Orb(), at the end of the process: what came too late is released.
releaseAll ==
  /\ orb = "done"
  /\ orb' = "gone"
  /\ orphans' = FALSE
  /\ deferred' = [c \in Callbacks |-> "none"]
  /\ UNCHANGED <<used, refs, _req, _targetIsProxy, _shutdownRequested>>

\* The steps of run() that wait for nobody and call no callback.
run ==
  \/ wake
  \/ pollEnd
  \/ releaseEnd
  \/ cleanUpEnd
  \/ \E c \in Callbacks : release(c) \/ cleanUp(c)

\* How often c is registered for an answer or waits to be released.
registered(c) ==
  (IF deferred[c] = "none" THEN 0 ELSE 1) + (IF c \in used THEN 1 ELSE 0)
=============================================================================
