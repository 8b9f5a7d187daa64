------------------------------- MODULE Daemon -------------------------------
(***************************************************************************)
(* Daemon of daemon_unix.cc and of daemon_windows.cc: a server process in  *)
(* the background.  On Unix, the process that was started waits at a pipe  *)
(* for the status of its child, the server, and a pidfile keeps a second   *)
(* server away.  On Windows the server is a service that tells the service *)
(* control manager (SCM) about its state.                                  *)
(*                                                                         *)
(* This module has the operations and the state; main() is in Server.      *)
(***************************************************************************)
EXTENDS Integers

CONSTANTS
  Servers,   \* the servers that are started, with the same options
  Nobody,    \* no file, no owner
  Empty,     \* a pidfile without a number in it
  Dead       \* a pidfile of a process that is gone

ASSUME NobodyAssumption ==
  Nobody \notin {-1, 0, 1} /\ {Nobody, Empty, Dead} \cap Servers = {}

VARIABLES
  platform,         \* "unix" or "windows"
  onExit,           \* HAVE_ON_EXIT: is shutdown() told the status of exit()?
  pc,               \* of each server: the next step of main()
  end,              \* "alive", "exited" or "killed"
  status,           \* the parameter of shutdown() while it runs
  exitHandler,      \* has daemonize() registered shutdown()?
  parent,           \* the process that waits for the server
  parentStatus,     \* its exit status, or Nobody
  parentWrites,     \* does the parent have the write end of the pipe?
  _pipe,            \* what is in the pipe: Nobody or a status
  _haveParent,
  _havePidfile,
  pidfile,          \* the file: Nobody, Empty, Dead or a server
  writable,         \* can the pidfile be written and removed?
  signals,          \* have the signal handlers been set?
  _shutdownRequested,
  registry,         \* the service's key: "none", "service" or "parameters"
  _serviceRunning,
  serviceStatus,    \* what the SCM was told last
  ctrl              \* is ctrlHandler() between its two steps?

unixVars == <<parent, parentStatus, parentWrites, _pipe, _haveParent, _havePidfile, pidfile>>
windowsVars == <<registry, _serviceRunning, serviceStatus, ctrl>>
daemonVars ==
  <<platform, onExit, pc, end, status, exitHandler, unixVars, writable, signals, _shutdownRequested, windowsVars>>

Statuses == {-1, 0, 1}

Steps ==
  {"start", "options", "daemonize", "checkPidfile", "openPidfile", "writePidfile", "redirect", "ORB_init",
   "resolveInitialReferences", "incarnateFactory", "bindName2Object", "signals", "runningOk", "redirectNull",
   "running", "unlink", "notify", "exit", "ended"}

DaemonFlagTypes ==
  /\ exitHandler \in [Servers -> BOOLEAN] /\ parentWrites \in [Servers -> BOOLEAN]
  /\ _haveParent \in [Servers -> BOOLEAN] /\ _havePidfile \in [Servers -> BOOLEAN]
  /\ signals \in [Servers -> BOOLEAN] /\ _shutdownRequested \in [Servers -> BOOLEAN]
  /\ _serviceRunning \in [Servers -> BOOLEAN] /\ ctrl \in [Servers -> BOOLEAN]
  /\ writable \in BOOLEAN /\ onExit \in BOOLEAN

DaemonTypes ==
  /\ platform \in {"unix", "windows"}
  /\ pc \in [Servers -> Steps]
  /\ end \in [Servers -> {"alive", "exited", "killed"}]
  /\ status \in [Servers -> Statuses]
  /\ parent \in [Servers -> {"none", "forked", "waiting", "killed", "exited"}]
  /\ parentStatus \in [Servers -> Statuses \cup {Nobody}]
  /\ _pipe \in [Servers -> Statuses \cup {Nobody}]
  /\ pidfile \in Servers \cup {Nobody, Empty, Dead}
  /\ registry \in {"none", "service", "parameters"}
  /\ serviceStatus \in [Servers -> {"none", "START_PENDING", "RUNNING", "STOP_PENDING", "STOPPED"}]

DaemonInit ==
  /\ platform \in {"unix", "windows"}
  /\ onExit \in IF platform = "unix" THEN BOOLEAN ELSE {FALSE}
  /\ pc = [s \in Servers |-> IF platform = "unix" THEN "options" ELSE "start"]
  /\ end = [s \in Servers |-> "alive"]
  /\ status = [s \in Servers |-> 0]
  /\ parent = [s \in Servers |-> "none"]
  /\ parentStatus = [s \in Servers |-> Nobody]
  /\ _pipe = [s \in Servers |-> Nobody]
  /\ pidfile \in IF platform = "unix" THEN {Nobody, Dead} ELSE {Nobody}
  /\ writable \in IF platform = "unix" THEN BOOLEAN ELSE {FALSE}
  /\ registry = "none"
  /\ serviceStatus = [s \in Servers |-> "none"]
  /\ exitHandler = [s \in Servers |-> FALSE]
  /\ parentWrites = exitHandler /\ _haveParent = exitHandler /\ _havePidfile = exitHandler
  /\ signals = exitHandler /\ _shutdownRequested = exitHandler
  /\ _serviceRunning = exitHandler /\ ctrl = exitHandler

set(f, s, v) == [f EXCEPT ![s] = v]

at(s, p) == end[s] = "alive" /\ pc[s] = p
goto(s, p) == pc' = set(pc, s, p) /\ UNCHANGED <<end, status>>

(***************************************************************************)
(* exit(n) runs the exit handler, if there is one by then: shutdown2(),    *)
(* with n, or where there is no on_exit() shutdown0(), with 0 in any case. *)
(* The end of main() runs ~Daemon() before that, which calls shutdown(0).  *)
(***************************************************************************)
handlerStatus(n) == IF onExit THEN n ELSE 0

exit(s, n) ==
  IF exitHandler[s]
  THEN pc' = set(pc, s, "unlink") /\ status' = set(status, s, handlerStatus(n)) /\ UNCHANGED end
  ELSE pc' = set(pc, s, "ended") /\ end' = set(end, s, "exited") /\ UNCHANGED status

exitMain(s) ==
  pc' = set(pc, s, "unlink") /\ status' = set(status, s, 0) /\ UNCHANGED end

\* A process that has ended has no memory, which need not be told apart.
forget(s) ==
  /\ status' = set(status, s, 0)
  /\ exitHandler' = set(exitHandler, s, FALSE)
  /\ signals' = set(signals, s, FALSE)
  /\ _shutdownRequested' = set(_shutdownRequested, s, FALSE)
  /\ _haveParent' = set(_haveParent, s, FALSE)
  /\ _havePidfile' = set(_havePidfile, s, FALSE)

---------------------------------------------------------------------------
\* Unix: daemonize().

\* on_exit() or atexit(), and fork().  In the foreground there is no parent.
fork(s, foreground) ==
  /\ exitHandler' = set(exitHandler, s, TRUE)
  /\ IF foreground
     THEN UNCHANGED <<parent, parentWrites, _haveParent>>
     ELSE /\ parent' = set(parent, s, "forked")
          /\ parentWrites' = set(parentWrites, s, TRUE)
          /\ _haveParent' = set(_haveParent, s, TRUE)
  /\ goto(s, "checkPidfile")
  /\ UNCHANGED <<parentStatus, _pipe, _havePidfile, pidfile, signals, _shutdownRequested, windowsVars>>

\* The handler is set; pipe() or fork() fails.  (If setsid() does, the child
\* goes the way of checkPidfileFails.)
forkFails(s) ==
  /\ exitHandler' = set(exitHandler, s, TRUE)
  /\ pc' = set(pc, s, "unlink") /\ status' = set(status, s, handlerStatus(-1)) /\ UNCHANGED end
  /\ UNCHANGED <<unixVars, signals, _shutdownRequested, windowsVars>>

\* Mutant: the parent keeps the write end of the pipe open.
parentClosesNothing(s) ==
  /\ parent[s] = "forked"
  /\ parent' = set(parent, s, "waiting")
  /\ UNCHANGED <<parentStatus, parentWrites, _pipe, _haveParent, _havePidfile, pidfile>>

parentCloses(s) ==
  /\ parent[s] = "forked"
  /\ parent' = set(parent, s, "waiting")
  /\ parentWrites' = set(parentWrites, s, FALSE)
  /\ UNCHANGED <<parentStatus, _pipe, _haveParent, _havePidfile, pidfile>>

\* Has the server closed its end of the pipe?
pipeClosed(s) == ~parentWrites[s] /\ (end[s] # "alive" \/ ~_haveParent[s])

\* Mutant: a read() that returns nothing leaves a status of 0.
waitForChildOrZero(s) ==
  /\ parent[s] = "waiting"
  /\ _pipe[s] # Nobody \/ pipeClosed(s)
  /\ parent' = set(parent, s, "exited")
  /\ parentStatus' = set(parentStatus, s, IF _pipe[s] # Nobody THEN _pipe[s] ELSE 0)
  /\ UNCHANGED <<parentWrites, _pipe, _haveParent, _havePidfile, pidfile>>

\* read() returns a status, or nothing at the end of the pipe.
waitForChild(s) ==
  /\ parent[s] = "waiting"
  /\ _pipe[s] # Nobody \/ pipeClosed(s)
  /\ parent' = set(parent, s, "exited")
  /\ parentStatus' = set(parentStatus, s, IF _pipe[s] # Nobody THEN _pipe[s] ELSE -1)
  /\ UNCHANGED <<parentWrites, _pipe, _haveParent, _havePidfile, pidfile>>

\* The pidfile names a process that is running.
pidfileIsTaken == pidfile \in Servers /\ end[pidfile] = "alive"

checkPidfileOrShutdown(s) ==
  /\ IF pidfileIsTaken THEN exit(s, -1) ELSE goto(s, "openPidfile")
  /\ UNCHANGED <<exitHandler, unixVars, signals, _shutdownRequested, windowsVars>>

\* writePidfile() truncates the file, and then writes a number.
openPidfile(s) ==
  /\ pidfile' = IF writable THEN Empty ELSE pidfile
  /\ goto(s, "writePidfile")
  /\ UNCHANGED <<exitHandler, parent, parentStatus, parentWrites, _pipe, _haveParent, _havePidfile,
       signals, _shutdownRequested, windowsVars>>

\* A stream that could not be opened does not raise anything.
writePidfile(s) ==
  /\ pidfile' = IF writable THEN s ELSE pidfile
  /\ _havePidfile' = set(_havePidfile, s, TRUE)
  /\ goto(s, "redirect")
  /\ UNCHANGED <<exitHandler, parent, parentStatus, parentWrites, _pipe, _haveParent, signals, _shutdownRequested,
       windowsVars>>

---------------------------------------------------------------------------
\* Unix: runningOk(), shutdown().

\* notifyParent() writes to a pipe that nobody may be reading.
notifyParent(s, n) ==
  _pipe' = IF _haveParent[s] /\ parent[s] # "killed" THEN set(_pipe, s, n) ELSE _pipe

runningOk(s) ==
  /\ notifyParent(s, 0)
  /\ _haveParent' = set(_haveParent, s, FALSE)
  /\ goto(s, "redirectNull")
  /\ UNCHANGED <<exitHandler, parent, parentStatus, parentWrites, _havePidfile, pidfile, signals, _shutdownRequested,
       windowsVars>>

\* Mutant: the pidfile is removed whoever has written it.
removePidfileAlways(s) ==
  /\ pidfile' = IF writable THEN Nobody ELSE pidfile
  /\ _havePidfile' = set(_havePidfile, s, FALSE)
  /\ pc' = set(pc, s, "notify")
  /\ UNCHANGED <<end, status, exitHandler, parent, parentStatus, parentWrites, _pipe, _haveParent, signals,
       _shutdownRequested, windowsVars>>

\* The first half of shutdown(): unlink() fails if there is no file.
removePidfile(s) ==
  /\ pidfile' = IF _havePidfile[s] /\ writable THEN Nobody ELSE pidfile
  /\ status' = IF _havePidfile[s] /\ (~writable \/ pidfile = Nobody) THEN set(status, s, -1) ELSE status
  /\ _havePidfile' = set(_havePidfile, s, FALSE)
  /\ pc' = set(pc, s, "notify")
  /\ UNCHANGED <<end, exitHandler, parent, parentStatus, parentWrites, _pipe, _haveParent, signals,
       _shutdownRequested, windowsVars>>

\* The second half, and the end of the process; SIGPIPE may be what ends it.
shutdown(s) ==
  /\ notifyParent(s, status[s])
  /\ pc' = set(pc, s, "ended")
  /\ end' = set(end, s, IF _haveParent[s] /\ parent[s] = "killed" /\ ~signals[s] THEN "killed" ELSE "exited")
  /\ forget(s)
  /\ UNCHANGED <<parent, parentStatus, parentWrites, pidfile, windowsVars>>

---------------------------------------------------------------------------
\* Windows.

\* install(): CreateService(), then writeParameters().  It may fail between.
install ==
  /\ \/ registry = "none" /\ registry' = "service"
     \/ registry = "service" /\ registry' = "parameters"
  /\ UNCHANGED <<_serviceRunning, serviceStatus, ctrl>>

uninstall ==
  /\ registry # "none"
  /\ registry' = "none"
  /\ UNCHANGED <<_serviceRunning, serviceStatus, ctrl>>

\* "omniEvents setoptions": the key must exist.
writeParameters ==
  /\ registry # "none"
  /\ registry' = "parameters"
  /\ UNCHANGED <<_serviceRunning, serviceStatus, ctrl>>

readParameters == registry = "parameters"

\* setServiceStatus() is refused, or it is not.
setServiceStatus(s, v) == serviceStatus' = set(serviceStatus, s, v)

\* The second call of start(): the process is in ServiceMain().
startService(s) ==
  /\ readParameters
  /\ setServiceStatus(s, "START_PENDING")
  /\ _serviceRunning' = set(_serviceRunning, s, TRUE)
  /\ goto(s, "options")
  /\ UNCHANGED <<exitHandler, unixVars, signals, _shutdownRequested, registry, ctrl>>

\* Not a service: "omniEvents run", or in the foreground.
startProgram(s, run) ==
  /\ run => readParameters
  /\ goto(s, "options")
  /\ UNCHANGED <<exitHandler, unixVars, signals, _shutdownRequested, windowsVars>>

\* No parameters, no control handler, or the status is refused: exit(1).
startFails(s) ==
  /\ exit(s, 1)
  /\ UNCHANGED <<exitHandler, unixVars, signals, _shutdownRequested, windowsVars>>

\* daemonize(): atexit().
atexit(s) ==
  /\ exitHandler' = set(exitHandler, s, TRUE)
  /\ goto(s, "ORB_init")
  /\ UNCHANGED <<unixVars, signals, _shutdownRequested, windowsVars>>

serviceRunningOk(s) ==
  /\ IF _serviceRunning[s] THEN setServiceStatus(s, "RUNNING") ELSE UNCHANGED serviceStatus
  /\ goto(s, "running")
  /\ UNCHANGED <<exitHandler, unixVars, signals, _shutdownRequested, registry, _serviceRunning, ctrl>>

\* Service::shutdown().
serviceShutdown(s) ==
  /\ IF _serviceRunning[s] THEN setServiceStatus(s, "STOPPED") ELSE UNCHANGED serviceStatus
  /\ _serviceRunning' = set(_serviceRunning, s, FALSE)
  /\ goto(s, "exit")
  /\ UNCHANGED <<exitHandler, unixVars, signals, _shutdownRequested, registry, ctrl>>

\* The process ends, and with it the thread of the SCM.
processEnds(s) ==
  /\ pc' = set(pc, s, "ended")
  /\ end' = set(end, s, "exited")
  /\ UNCHANGED <<status, exitHandler, unixVars, signals, _shutdownRequested, windowsVars>>

\* ctrlHandler() in the thread of the SCM: first it shuts down the ORB ...
ctrlHandler(s) ==
  /\ end[s] = "alive"
  /\ serviceStatus[s] = "RUNNING"
  /\ ~ctrl[s]
  /\ ctrl' = set(ctrl, s, TRUE)
  /\ _shutdownRequested' = set(_shutdownRequested, s, TRUE)
  /\ UNCHANGED <<pc, end, status, exitHandler, unixVars, signals, registry, _serviceRunning, serviceStatus>>

\* ... then it sets the status, maybe after the service has stopped.
ctrlHandlerEnd(s) ==
  /\ end[s] = "alive"
  /\ ctrl[s]
  /\ ctrl' = set(ctrl, s, FALSE)
  /\ setServiceStatus(s, "STOP_PENDING")
  /\ UNCHANGED <<pc, end, status, exitHandler, unixVars, signals, _shutdownRequested, registry, _serviceRunning>>

=============================================================================
