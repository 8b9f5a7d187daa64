------------------------------- MODULE Server -------------------------------
(***************************************************************************)
(* main(): the way of the server from its options to its end, with the     *)
(* Daemon around it.  On Unix, servers with the same pidfile and port are  *)
(* started at the same time, and the servers and the processes that        *)
(* started them may be killed.  On Windows there is one server, installed, *)
(* started and stopped by the SCM.                                         *)
(*                                                                         *)
(* What may go wrong in a step goes wrong by choice.  The ORB, the naming  *)
(* service and the operating system are external.                          *)
(***************************************************************************)
EXTENDS Daemon, FiniteSets

CONSTANT
  WindowsServer  \* the server that is the service

ASSUME WindowsServerAssumption == WindowsServer \in Servers

VARIABLES
  port,       \* who listens on the port
  ready,      \* history: the servers that have come to runningOk()
  unwound,    \* history: those that an exception has thrown out of main()
  raced,      \* history: those that checked the pidfile while another wrote it
  overtaken   \* history: services that ctrlHandler() set to STOP_PENDING after their end

history == <<ready, unwound, raced, overtaken>>
serverVars == <<daemonVars, port, history>>

ServerTypeOK ==
  /\ DaemonTypes /\ DaemonFlagTypes
  /\ port \in Servers \cup {Nobody}
  /\ ready \subseteq Servers /\ unwound \subseteq Servers /\ raced \subseteq Servers
  /\ overtaken \subseteq Servers

ServerInit ==
  /\ DaemonInit
  /\ port = Nobody /\ ready = {} /\ unwound = {} /\ raced = {} /\ overtaken = {}

unix == platform = "unix"
windows == platform = "windows"
fixed == <<platform, onExit, writable>>
daemonRest == <<exitHandler, unixVars, signals, _shutdownRequested, windowsVars>>

\* A step of main() that leaves the Daemon alone.
proceed(s, p, q) == at(s, p) /\ goto(s, q) /\ UNCHANGED <<daemonRest, fixed>>

\* A step of main() that calls exit().
exits(s, p, n) == at(s, p) /\ exit(s, n) /\ UNCHANGED <<daemonRest, fixed, port, history>>

\* CORBA::Exception is caught at the end of main(), which returns 1.
throws(s, p) ==
  /\ at(s, p)
  /\ exitMain(s)
  /\ unwound' = unwound \cup {s}
  /\ port' = IF port = s THEN Nobody ELSE port
  /\ UNCHANGED <<daemonRest, fixed, ready, raced, overtaken>>

---------------------------------------------------------------------------
\* Daemon's constructor, options, database.

\* On Unix, the constructor sets the initial values.
start(s) ==
  /\ windows /\ s = WindowsServer
  /\ at(s, "start")
  /\ \/ registry # "none" /\ startService(s)
     \/ \E run \in BOOLEAN : startProgram(s, run)
     \/ registry # "none" /\ startFails(s)
  /\ UNCHANGED <<fixed, port, history>>

(***************************************************************************)
(* The options, and the database.  exit(): -V, -h, a bad option; -P and -f *)
(* on Windows; a database that does not fit the options; only a backup.    *)
(***************************************************************************)
configure(s) ==
  \/ proceed(s, "options", "daemonize") /\ UNCHANGED <<port, history>>
  \/ exits(s, "options", 0)
  \/ exits(s, "options", 1)

daemonize(s) ==
  /\ at(s, "daemonize")
  /\ IF unix
     THEN forkFails(s) \/ \E foreground \in BOOLEAN : fork(s, foreground)
     ELSE atexit(s)
  /\ UNCHANGED <<fixed, port, history>>

\* The servers that have looked at the pidfile and not written it yet.
writing == {s \in Servers : at(s, "openPidfile") \/ at(s, "writePidfile")}

checkPidfile(s) ==
  /\ at(s, "checkPidfile")
  /\ checkPidfileOrShutdown(s)
  /\ raced' = IF writing = {} THEN raced ELSE raced \cup {s}
  /\ UNCHANGED <<fixed, port, ready, unwound, overtaken>>

\* The pidfile cannot be examined.
checkPidfileFails(s) == exits(s, "checkPidfile", -1)

\* No option -P: _pidfile is not set.
noPidfile(s) == proceed(s, "checkPidfile", "redirect") /\ UNCHANGED <<port, history>>

pidfileSteps(s) ==
  /\ \/ at(s, "openPidfile") /\ openPidfile(s)
     \/ at(s, "writePidfile") /\ writePidfile(s)
  /\ UNCHANGED <<fixed, port, history>>

\* umask, chdir, redirectStreamsTo().
redirect(s) ==
  \/ proceed(s, "redirect", "ORB_init") /\ UNCHANGED <<port, history>>
  \/ exits(s, "redirect", -1)

---------------------------------------------------------------------------
\* ORB, factory, naming service.

\* The ORB listens on the port, or raises INITIALIZE.
ORB_init(s) ==
  \/ /\ port = Nobody
     /\ proceed(s, "ORB_init", "resolveInitialReferences")
     /\ port' = s
     /\ UNCHANGED history
  \/ throws(s, "ORB_init")

\* exit(1) unless both POAs are found; there need not be a naming service.
\* _narrow() may call it.
resolveInitialReferences(s) ==
  \/ proceed(s, "resolveInitialReferences", "incarnateFactory") /\ UNCHANGED <<port, history>>
  \/ exits(s, "resolveInitialReferences", 1)

\* Factory, channels and proxies; createGCPOA().  A proxy that was connected
\* to another channel calls connect_push_consumer() there.
startFactory(s) ==
  \/ proceed(s, "incarnateFactory", "bindName2Object") /\ UNCHANGED <<port, history>>
  \/ throws(s, "incarnateFactory")

\* Contexts on the way, bind, rebind; exit(1) if the naming service fails.
bindName2Object(s) ==
  \/ proceed(s, "bindName2Object", "signals") /\ UNCHANGED <<port, history>>
  \/ exits(s, "bindName2Object", 1)

setSignals(s) ==
  /\ at(s, "signals")
  /\ signals' = set(signals, s, TRUE)
  /\ goto(s, "runningOk")
  /\ UNCHANGED <<exitHandler, unixVars, _shutdownRequested, windowsVars, fixed, port, history>>

running(s) ==
  /\ at(s, "runningOk")
  /\ IF unix THEN runningOk(s) ELSE serviceRunningOk(s)
  /\ ready' = ready \cup {s}
  /\ UNCHANGED <<fixed, port, unwound, raced, overtaken>>

\* The end of runningOk(): the streams go to /dev/null, or cannot.
redirectNull(s) ==
  \/ proceed(s, "redirectNull", "running") /\ UNCHANGED <<port, history>>
  \/ exits(s, "redirectNull", -1)

\* The SCM refuses the status.
runningOkFails(s) == windows /\ exits(s, "runningOk", 1)

---------------------------------------------------------------------------
\* The end.

\* Orb::run() returns; the ORB is shut down and destroyed; main() returns 0.
run(s) ==
  /\ at(s, "running")
  /\ _shutdownRequested[s]
  /\ exitMain(s)
  /\ port' = Nobody
  /\ UNCHANGED <<daemonRest, fixed, history>>

releasePort(s) == port' = IF port = s THEN Nobody ELSE port

unlink(s) ==
  /\ at(s, "unlink")
  /\ IF unix THEN removePidfile(s) ELSE serviceShutdown(s)
  /\ UNCHANGED <<fixed, port, history>>

finish(s) ==
  /\ \/ at(s, "notify") /\ shutdown(s)
     \/ at(s, "exit") /\ processEnds(s)
  /\ releasePort(s)
  /\ UNCHANGED <<fixed, history>>

\* SIGKILL, or SIGTERM before the handler is there.
kill(s) ==
  /\ unix
  /\ end[s] = "alive"
  /\ end' = set(end, s, "killed")
  /\ pc' = set(pc, s, "ended")
  /\ forget(s)
  /\ releasePort(s)
  /\ UNCHANGED <<parent, parentStatus, parentWrites, _pipe, pidfile, windowsVars, fixed, history>>

killParent(s) ==
  /\ unix
  /\ parent[s] \in {"forked", "waiting"}
  /\ parent' = set(parent, s, "killed")
  /\ parentWrites' = set(parentWrites, s, FALSE)
  /\ UNCHANGED <<pc, end, status, exitHandler, parentStatus, _pipe, _haveParent, _havePidfile, pidfile, signals,
       _shutdownRequested, windowsVars, fixed, port, history>>

\* OmniEvents_Orb_shutdown(), the handler of SIGINT and SIGTERM.
terminate(s) ==
  /\ unix
  /\ end[s] = "alive"
  /\ signals[s]
  /\ ~_shutdownRequested[s]
  /\ _shutdownRequested' = set(_shutdownRequested, s, TRUE)
  /\ UNCHANGED <<pc, end, status, exitHandler, unixVars, signals, windowsVars, fixed, port, history>>

\* "omniEvents install", "uninstall", "setoptions".
administer ==
  /\ windows
  /\ install \/ uninstall \/ writeParameters
  /\ UNCHANGED <<pc, end, status, exitHandler, unixVars, signals, _shutdownRequested, fixed, port, history>>

\* The steps of main() in which it calls other processes, with no time-out:
\* the naming service, and the peers of a federation.
RemoteCalls(s) == resolveInitialReferences(s) \/ startFactory(s) \/ bindName2Object(s)

LocalSteps(s) ==
  \/ start(s) \/ configure(s) \/ daemonize(s)
  \/ checkPidfile(s) \/ checkPidfileFails(s) \/ noPidfile(s) \/ pidfileSteps(s) \/ redirect(s)
  \/ ORB_init(s) \/ setSignals(s) \/ running(s) \/ redirectNull(s) \/ runningOkFails(s)
  \/ run(s) \/ unlink(s) \/ finish(s)

Main(s) == LocalSteps(s) \/ RemoteCalls(s)

Parent(s) ==
  /\ parentCloses(s) \/ waitForChild(s)
  /\ UNCHANGED <<pc, end, status, exitHandler, signals, _shutdownRequested, windowsVars, fixed, port, history>>

Control(s) ==
  /\ \/ ctrlHandler(s) /\ UNCHANGED overtaken
     \/ /\ ctrlHandlerEnd(s)
        /\ overtaken' = IF serviceStatus[s] = "STOPPED" THEN overtaken \cup {s} ELSE overtaken
  /\ UNCHANGED <<fixed, port, ready, unwound, raced>>

ServerNext ==
  \/ \E s \in Servers : Main(s) \/ Parent(s) \/ Control(s) \/ kill(s) \/ killParent(s) \/ terminate(s)
  \/ administer

\* Processes that are not killed run, but a call of another process need not
\* return.
ServerFairness == \A s \in Servers : WF_serverVars(LocalSteps(s)) /\ WF_serverVars(Parent(s))

ServerSpec == ServerInit /\ [][ServerNext]_serverVars /\ ServerFairness

---------------------------------------------------------------------------
(***************************************************************************)
(* "The status is usually '0' - indicating that the daemon has started     *)
(* successfully": the process that waits ends with 0 if the server came to *)
(* runningOk(), and otherwise not, whatever fails or is killed on the way. *)
(* Two exceptions, in which it is told 0 of a server that never ran: an    *)
(* exception out of main(), because ~Daemon() comes before exit(1), and in *)
(* a build without on_exit() every call of exit().                         *)
(***************************************************************************)
ToldZeroOfFailure(s) == s \in unwound \/ (~onExit /\ end[s] = "exited")
ParentIsTold ==
  \A s \in Servers :
    /\ parentStatus[s] = 0 => s \in ready \/ ToldZeroOfFailure(s)
    /\ s \in ready => parentStatus[s] \in {0, Nobody}

(***************************************************************************)
(* A service that has ended by itself is stopped for the SCM, unless       *)
(* ctrlHandler() came to its second step after the main thread had set     *)
(* STOPPED: then it stays STOP_PENDING.  Exits before the exit handler is  *)
(* set are not reported.                                                   *)
(***************************************************************************)
ServiceIsStopped ==
  \A s \in Servers :
    end[s] = "exited" /\ exitHandler[s] =>
      \/ serviceStatus[s] \in {"none", "STOPPED"}
      \/ serviceStatus[s] = "STOP_PENDING" /\ s \in overtaken

\* Whoever has started the server is told the truth about it.
StarterIsTold == ParentIsTold /\ ServiceIsStopped

(***************************************************************************)
(* The pidfile names the server that is up, through failed starts, kills   *)
(* and exits of other servers, as long as no server has checked it while   *)
(* another was writing it: the check and the write are two steps.          *)
(***************************************************************************)
PidfileIsKept ==
  \A s \in ready : unix /\ writable /\ at(s, "running") /\ _havePidfile[s] /\ raced = {} => pidfile = s

(***************************************************************************)
(* The process that waits for the server to start does not wait for ever,  *)
(* unless its server stays for ever in a call of another process.          *)
(***************************************************************************)
InRemoteCall(s) == at(s, "resolveInitialReferences") \/ at(s, "incarnateFactory") \/ at(s, "bindName2Object")
StarterReturns ==
  \A s \in Servers :
    \/ parent[s] \in {"forked", "waiting"} ~> parent[s] \notin {"forked", "waiting"}
    \/ <>[]InRemoteCall(s)

=============================================================================
