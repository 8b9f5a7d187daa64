----------------------------- MODULE PersistLog -----------------------------
(***************************************************************************)
(* The persistency database (omniEventsLog.cc, PersistNode.cc, main.cc):   *)
(* the active file, to which channels and proxies append records, the      *)
(* worker thread that replaces it by a checkpoint, the death of the        *)
(* process at any step, and the restart from the files that are left.      *)
(*                                                                         *)
(* A file is represented by the tree that parse() makes of it: readnode()  *)
(* is applied to each record when it is appended.  A record is appended    *)
(* whole: WriteLock flushes once.  Names are links to inodes, so that two  *)
(* of them may be the same file.  What is written survives the process.    *)
(***************************************************************************)
EXTENDS Integers, FiniteSets

CONSTANTS
  Channels,     \* names of channels
  PushNames,    \* object ids of proxy push suppliers
  PullNames,    \* object ids of proxy pull suppliers
  MaxCrashes,   \* bound: deaths of the process
  MaxIOErrors   \* bound: checkpoints abandoned for an I/O error

Phases == {"first", "wait", "open", "factory", "write", "closeLog", "unlinkBackup", "linkBackup",
           "unlinkActive", "linkActive", "unlinkCheckpoint", "reopen", "dead"}

ASSUME LogAssumption ==
  /\ MaxCrashes \in Nat /\ MaxIOErrors \in Nat
  /\ PushNames \cap PullNames = {}

VARIABLES
  up,          \* "down", "up", or "refused": the server will not start
  chan,        \* chan[c]: the life of the channel
  conn,        \* conn[k]: the life of the proxy with key k
  sior,        \* proxies that know the IOR of their target, connected since the server started
  file,        \* file[n]: inode that the file name n is linked to, or 0
  data,        \* data[i]: tree that the content of inode i parses to
  log,         \* inode that _logstream is open on, or 0
  ckpt,        \* phase of the worker
  left,        \* channels the checkpoint has still to write
  needed,      \* _checkpointNeeded
  established, \* history: a first checkpoint has been committed
  torn,        \* history: the process died with two names on the active file, and none was committed since
  dropped,     \* history: live proxies that a record or a checkpoint of their channel left out
  crashes, ioErrors

memory == <<chan, conn, sior>>
disk == <<file, data, log>>
worker == <<ckpt, left, needed>>
past == <<established, torn, dropped>>
vars == <<up, memory, disk, worker, past, crashes, ioErrors>>

Keys == Channels \X (PushNames \cup PullNames)
KeysOf(c) == {k \in Keys : k[1] = c}
Inodes == 1 .. 3
NoFile == 0
FileNames == {"active", "backup", "checkpoint"}

(* PersistNode trees: whether "ecf" has its port, the children of "ecf",   *)
(* and the attribute IOR of the proxies below them.                        *)
Tree == [ecf : BOOLEAN, chans : SUBSET Channels, conns : [Keys -> {"none", "empty", "ior"}]]
NoConns == [k \in Keys |-> "none"]
EmptyTree == [ecf |-> FALSE, chans |-> {}, conns |-> NoConns]

(* addnode: a leaf replaces the old leaf and all below it, missing         *)
(* branches are added.  delnode removes a node and all below it.           *)
addFactory(t) == [ecf |-> TRUE, chans |-> {}, conns |-> NoConns]
addChannel(t, c) ==
  [t EXCEPT !.chans = @ \cup {c},
            !.conns = [k \in Keys |-> IF k \in KeysOf(c) THEN "none" ELSE @[k]]]
addConn(t, k, ior) == [t EXCEPT !.chans = @ \cup {k[1]}, !.conns[k] = ior]
delChannel(t, c) ==
  [t EXCEPT !.chans = @ \ {c},
            !.conns = [k \in Keys |-> IF k \in KeysOf(c) THEN "none" ELSE @[k]]]
delConn(t, k) == [t EXCEPT !.conns[k] = "none"]

(* ProxyPushSupplier_i::output writes _target_sior; ProxyPullSupplier_i    *)
(* converts its _target.                                                   *)
iorOutput(k) == IF k \in sior \/ k[2] \in PullNames THEN "ior" ELSE "empty"

Locked == ckpt \notin {"first", "wait"}
StoreLocked == ckpt = "write"
Linked(f) == {f[n] : n \in FileNames} \ {NoFile}
Unused == CHOOSE i \in Inodes : i \notin Linked(file)

Init ==
  /\ up = "down"
  /\ chan = [c \in Channels |-> "none"] /\ conn = [k \in Keys |-> "none"] /\ sior = {}
  /\ file = [n \in FileNames |-> NoFile] /\ data = [i \in Inodes |-> EmptyTree] /\ log = NoFile
  /\ ckpt = "first" /\ left = {} /\ needed = FALSE
  /\ established = FALSE /\ torn = FALSE /\ dropped = {}
  /\ crashes = 0 /\ ioErrors = 0

-----------------------------------------------------------------------------
(* omniEventsLog::parse: the file must have a factory with a port.         *)
parse(t) == t.ecf

(* EventChannelFactory_i's constructor makes a channel of each child of    *)
(* "ecf"; ProxyManager::reincarnate makes a proxy of each node below it    *)
(* and deletes those without IOR.                                          *)
restoredChannels(t) == [c \in Channels |-> IF c \in t.chans THEN "restored" ELSE "none"]
restoredProxies(t) == [k \in Keys |-> IF t.conns[k] = "ior" THEN "on" ELSE conn[k]]

(* The active file is opened for append, and nothing is written yet.       *)
incarnateFactory(t, active) ==
  /\ up' = "up"
  /\ chan' = restoredChannels(t) /\ conn' = restoredProxies(t) /\ sior' = {}
  /\ file' = [file EXCEPT !["active"] = active] /\ log' = active
  /\ UNCHANGED data

(* main(): an active file is parsed; a backup without an active file is    *)
(* left to the operator; without files a new database is made.             *)
refuse == up' = "refused" /\ UNCHANGED <<memory, disk>>

startUp ==
  /\ up = "down"
  /\ \/ /\ file["active"] # NoFile
        /\ LET t == data[file["active"]]
           IN  \/ parse(t) /\ incarnateFactory(t, file["active"])
               \/ ~parse(t) /\ refuse
     \/ file["active"] = NoFile /\ file["backup"] # NoFile /\ refuse
     \/ /\ file["active"] = NoFile /\ file["backup"] = NoFile
        /\ incarnateFactory(EmptyTree, Unused)
  /\ ckpt' = "first" /\ left' = {} /\ needed' = TRUE
  /\ UNCHANGED <<past, crashes, ioErrors>>

(* What the server tells the operator to do: rename the backup file.       *)
renameBackup ==
  /\ up = "refused" /\ file["active"] = NoFile
  /\ up' = "down"
  /\ file' = [file EXCEPT !["active"] = file["backup"], !["backup"] = NoFile]
  /\ UNCHANGED <<memory, data, log, worker, past, crashes, ioErrors>>

(* Proxies that are no more.                                               *)
freeProxies(proxies) == sior' = sior \ proxies /\ dropped' = dropped \ proxies

(* The process dies, at any step, or an exit(1) of checkpoint() is taken.  *)
(* Before the unlink() of the checkpoint that was linked as the active     *)
(* file, it leaves one inode with both names: the next checkpoint          *)
(* truncates the file it is to replace.                                    *)
Crash ==
  /\ up = "up" /\ crashes < MaxCrashes
  /\ up' = "down" /\ crashes' = crashes + 1
  /\ chan' = [c \in Channels |-> "none"]
  /\ conn' = [k \in Keys |-> IF conn[k] = "none" THEN "none" ELSE "gone"]
  /\ freeProxies(Keys) /\ log' = NoFile
  /\ torn' = (torn \/ ckpt = "unlinkCheckpoint")
  /\ ckpt' = "first" /\ left' = {} /\ needed' = FALSE
  /\ UNCHANGED <<file, data, established, ioErrors>>

-----------------------------------------------------------------------------
(* class WriteLock: exclusive access, a flush, and a checkpoint is due.    *)
WriteLock(t) ==
  /\ up = "up" /\ ~Locked
  /\ data' = [data EXCEPT ![log] = t]
  /\ needed' = TRUE
  /\ UNCHANGED <<up, file, log, ckpt, left, established, torn, crashes, ioErrors>>

inMemory ==
  /\ up = "up"
  /\ UNCHANGED <<up, disk, worker, established, torn, crashes, ioErrors>>

(* EventChannel_i::output.  A proxy that is deactivated and not yet        *)
(* etherealized raises ServantNotActive: ConsumerAdmin_i::output catches   *)
(* it for push suppliers and drops those that come later; for pull         *)
(* suppliers it goes on to the caller.                                     *)
Live(c, names) == {k \in KeysOf(c) : k[2] \in names /\ conn[k] \in {"connecting", "on", "erased"}}
Closed(c, names) == {k \in KeysOf(c) : k[2] \in names /\ conn[k] = "closed"}
Written(c) ==
  LET push == Live(c, PushNames)
  IN  {p \cup Live(c, PullNames) : p \in IF Closed(c, PushNames) = {} THEN {push} ELSE SUBSET push}

leavesOut(c, written) == dropped' = dropped \cup (Live(c, PushNames) \ written)

(* Mutant of output: the admins' output is forgotten.                      *)
outputChannelOnly(t, c, written) == addChannel(t, c)

output(t, c, written) ==
  [addChannel(t, c) EXCEPT !.conns = [k \in Keys |-> IF k \in written THEN iorOutput(k) ELSE
                                                     IF k \in KeysOf(c) THEN "none" ELSE @[k]]]

(* EventChannelFactory_i::create_object, and the channel's thread: into    *)
(* the store, into the log file, and after destroy() the same backwards.   *)
create_object(c) ==
  /\ chan[c] = "none"
  /\ chan' = [chan EXCEPT ![c] = "created"]
  /\ inMemory /\ UNCHANGED <<conn, sior, dropped>>

insert(c) ==
  /\ chan[c] \in {"created", "restored"} /\ ~StoreLocked
  /\ chan' = [chan EXCEPT ![c] = "stored"]
  /\ inMemory /\ UNCHANGED <<conn, sior, dropped>>

record(c) ==
  /\ chan[c] = "stored"
  /\ \E w \in Written(c) : WriteLock(output(data[log], c, w)) /\ leavesOut(c, w)
  /\ chan' = [chan EXCEPT ![c] = "on"]
  /\ UNCHANGED <<conn, sior>>

erase(c) ==
  /\ chan[c] = "on" /\ ~StoreLocked
  /\ chan' = [chan EXCEPT ![c] = "erased"]
  /\ inMemory /\ UNCHANGED <<conn, sior, dropped>>

unrecord(c) ==
  /\ chan[c] = "erased"
  /\ WriteLock(delChannel(data[log], c))
  /\ chan' = [chan EXCEPT ![c] = "unrecorded"]
  /\ UNCHANGED <<conn, sior, dropped>>

destroyPoa(c) ==
  /\ chan[c] = "unrecorded"
  /\ chan' = [chan EXCEPT ![c] = "none"]
  /\ conn' = [k \in Keys |-> IF k \in KeysOf(c) /\ conn[k] # "none" THEN "gone" ELSE conn[k]]
  /\ inMemory /\ freeProxies(KeysOf(c))

(* The POA of a kind of proxy runs one call at a time.  A push that failed *)
(* is handled by another thread, outside the POA.                          *)
InCall(j) == conn[j] = "connecting" \/ (j[2] \in PullNames /\ conn[j] = "erased")
PoaFree(k) ==
  \A j \in KeysOf(k[1]) : (j[2] \in PullNames <=> k[2] \in PullNames) => ~InCall(j)

(* connect_push_consumer (connect_pull_consumer): the target is set, then  *)
(* the connection is recorded.  The POA takes calls until it is destroyed. *)
connect(k) ==
  /\ conn[k] = "none" /\ chan[k[1]] \in {"on", "erased", "unrecorded"} /\ PoaFree(k)
  /\ conn' = [conn EXCEPT ![k] = "connecting"] /\ sior' = sior \cup {k}
  /\ inMemory /\ UNCHANGED <<chan, dropped>>

connectRecord(k) ==
  /\ conn[k] = "connecting"
  /\ WriteLock(addConn(data[log], k, iorOutput(k)))
  /\ conn' = [conn EXCEPT ![k] = "on"]
  /\ UNCHANGED <<chan, sior, dropped>>

(* disconnect_push_supplier, or a push that failed: eraseKey(), then       *)
(* deactivateObject(); the POA etherealizes the proxy when it can.         *)
eraseKey(k) ==
  /\ conn[k] = "on" /\ (k[2] \in PullNames => PoaFree(k))
  /\ WriteLock(delConn(data[log], k))
  /\ conn' = [conn EXCEPT ![k] = "erased"]
  /\ UNCHANGED <<chan, sior, dropped>>

deactivateObject(k) ==
  /\ conn[k] = "erased"
  /\ conn' = [conn EXCEPT ![k] = "closed"]
  /\ inMemory /\ UNCHANGED <<chan, sior, dropped>>

etherealize(k) ==
  /\ conn[k] = "closed"
  /\ conn' = [conn EXCEPT ![k] = "gone"]
  /\ inMemory /\ freeProxies({k}) /\ UNCHANGED chan

-----------------------------------------------------------------------------
(* omniEventsLog::checkpoint.  The first one is taken at once, the others  *)
(* when a record was written since.                                        *)
phase(from, to) ==
  /\ up = "up" /\ ckpt = from /\ ckpt' = to
  /\ UNCHANGED <<up, memory, crashes>>

ckptLock ==
  /\ \/ phase("first", "open")
     \/ needed /\ phase("wait", "open")
  /\ UNCHANGED <<disk, left, needed, past, ioErrors>>

(* Opened with O_TRUNC: the content of the inode, if there is one, is lost.*)
ckptOpen ==
  /\ phase("open", "factory")
  /\ LET i == IF file["checkpoint"] # NoFile THEN file["checkpoint"] ELSE Unused
     IN  /\ file' = [file EXCEPT !["checkpoint"] = i]
         /\ data' = [data EXCEPT ![i] = EmptyTree]
  /\ UNCHANGED <<log, left, needed, past, ioErrors>>

(* EventChannelFactory_i::output, then EventChannelStore::output with the  *)
(* mutex of the store.                                                     *)
ckptFactory ==
  /\ phase("factory", "write")
  /\ data' = [data EXCEPT ![file["checkpoint"]] = addFactory(@)]
  /\ left' = {c \in Channels : chan[c] \in {"stored", "on"}}
  /\ UNCHANGED <<file, log, needed, past, ioErrors>>

(* An exception of a pull supplier's output ends the worker's thread, and  *)
(* the lock stays locked.                                                  *)
ckptChannel(c) ==
  /\ c \in left
  /\ \/ /\ Closed(c, PullNames) = {}
        /\ phase("write", "write")
        /\ left' = left \ {c}
        /\ \E w \in Written(c) :
             /\ data' = [data EXCEPT ![file["checkpoint"]] = output(@, c, w)]
             /\ leavesOut(c, w)
     \/ /\ Closed(c, PullNames) # {}
        /\ phase("write", "dead")
        /\ left' = {} /\ UNCHANGED <<data, dropped>>
  /\ UNCHANGED <<file, log, needed, established, torn, ioErrors>>

ckptWritten ==
  /\ left = {}
  /\ phase("write", "closeLog")
  /\ UNCHANGED <<disk, left, needed, past, ioErrors>>

(* link() and unlink() leave these links; an inode without any is freed.   *)
links(f) ==
  /\ file' = f
  /\ data' = [i \in Inodes |-> IF i \in Linked(f) THEN data[i] ELSE EmptyTree]

unlinkCheckpoint == links([file EXCEPT !["checkpoint"] = NoFile])

(* Mutant of ckptIOError: an incomplete checkpoint is committed.           *)
ckptIOErrorCommit ==
  /\ ioErrors < MaxIOErrors /\ ioErrors' = ioErrors + 1
  /\ \E from \in {"factory", "write"} : phase(from, "closeLog")
  /\ left' = {}
  /\ UNCHANGED <<disk, needed, past>>

(* Phase 1 fails: the checkpoint file is unlinked, the old log goes on.    *)
ckptIOError ==
  /\ ioErrors < MaxIOErrors /\ ioErrors' = ioErrors + 1
  /\ \E from \in {"open", "factory", "write"} : phase(from, "wait")
  /\ unlinkCheckpoint /\ left' = {}
  /\ UNCHANGED <<log, needed, past>>

ckptCloseLog ==
  /\ phase("closeLog", "unlinkBackup")
  /\ log' = NoFile
  /\ UNCHANGED <<file, data, left, needed, past, ioErrors>>

(* Phase 2: the file names are moved one by one.                           *)
rename(from, to, f) ==
  /\ phase(from, to)
  /\ links(f)
  /\ UNCHANGED <<log, left, needed, ioErrors>>

(* Mutant of ckptBackup: the old log file is unlinked before it is linked  *)
(* as the backup.                                                          *)
ckptBackupUnsafe ==
  /\ \/ rename("unlinkBackup", "linkBackup", [file EXCEPT !["active"] = NoFile])
     \/ rename("linkBackup", "unlinkActive", [file EXCEPT !["backup"] = NoFile])
     \/ rename("unlinkActive", "linkActive", file)
  /\ UNCHANGED past

ckptBackup ==
  /\ \/ rename("unlinkBackup", "linkBackup", [file EXCEPT !["backup"] = NoFile])
     \/ rename("linkBackup", "unlinkActive", [file EXCEPT !["backup"] = file["active"]])
     \/ rename("unlinkActive", "linkActive", [file EXCEPT !["active"] = NoFile])
  /\ UNCHANGED past

ckptActive ==
  \/ /\ rename("linkActive", "unlinkCheckpoint", [file EXCEPT !["active"] = file["checkpoint"]])
     /\ established' = TRUE /\ torn' = FALSE /\ UNCHANGED dropped
  \/ /\ rename("unlinkCheckpoint", "reopen", [file EXCEPT !["checkpoint"] = NoFile])
     /\ UNCHANGED past

ckptReopen ==
  /\ phase("reopen", "wait")
  /\ log' = file["active"] /\ needed' = FALSE
  /\ UNCHANGED <<file, data, left, past, ioErrors>>

-----------------------------------------------------------------------------
ckptWorker ==
  \/ ckptLock \/ ckptOpen \/ ckptFactory \/ (\E c \in Channels : ckptChannel(c)) \/ ckptWritten
  \/ ckptIOError \/ ckptCloseLog \/ ckptBackup \/ ckptActive \/ ckptReopen

channelThread(c) == insert(c) \/ record(c) \/ unrecord(c) \/ destroyPoa(c)

proxyCall(k) == connectRecord(k) \/ deactivateObject(k) \/ etherealize(k)

Next ==
  \/ startUp \/ renameBackup \/ Crash
  \/ ckptWorker
  \/ \E c \in Channels : create_object(c) \/ erase(c) \/ channelThread(c)
  \/ \E k \in Keys : connect(k) \/ eraseKey(k) \/ proxyCall(k)

Spec == Init /\ [][Next]_vars

-----------------------------------------------------------------------------
(* What a restart would read; without an active file, what the operator is *)
(* told to rename.                                                         *)
Database ==
  IF file["active"] # NoFile THEN data[file["active"]]
  ELSE IF file["backup"] # NoFile THEN data[file["backup"]] ELSE EmptyTree

(* Type correctness.                                                       *)
MemoryTypes ==
  /\ up \in {"down", "up", "refused"}
  /\ chan \in [Channels -> {"none", "created", "restored", "stored", "on", "erased", "unrecorded"}]
  /\ conn \in [Keys -> {"none", "connecting", "on", "erased", "closed", "gone"}]
  /\ sior \subseteq Keys /\ dropped \subseteq {k \in Keys : k[2] \in PushNames}

DiskTypes ==
  /\ file \in [FileNames -> Inodes \cup {NoFile}] /\ data \in [Inodes -> Tree]
  /\ log \in Inodes \cup {NoFile}

WorkerTypes ==
  /\ ckpt \in Phases /\ left \subseteq Channels
  /\ crashes \in 0 .. MaxCrashes /\ ioErrors \in 0 .. MaxIOErrors

FlagTypes == needed \in BOOLEAN /\ established \in BOOLEAN /\ torn \in BOOLEAN

TypeOK == MemoryTypes /\ DiskTypes /\ WorkerTypes /\ FlagTypes

(* "Channels and connections are continuously saved to disk, so that they  *)
(* can be recreated when the server restarts" (README): once the first     *)
(* checkpoint is committed, wherever the process dies, however often, a    *)
(* file with a factory is left to restart from.  Not so if it died between *)
(* linking the active file and unlinking the checkpoint, until the next    *)
(* checkpoint is committed; and before the first one there is no factory   *)
(* in the file.                                                            *)
Restorable == established /\ ~torn => Database.ecf

(* A channel whose thread has recorded it is in the database at every      *)
(* step of every checkpoint, until destroy() takes it out, with the first  *)
(* exception of Restorable.                                                *)
ChannelsKept == ~torn => \A c \in Channels : chan[c] = "on" => c \in Database.chans

(* A connection made since the server started, and not ended, is in the    *)
(* database with the IOR of its client at every step, with that exception  *)
(* and this: a push proxy that is deactivated and not yet etherealized     *)
(* makes ConsumerAdmin_i::output leave out others, and they are lost.      *)
ConnectionsKept ==
  ~torn => \A k \in sior \ dropped :
             conn[k] = "on" /\ chan[k[1]] = "on" => Database.conns[k] = "ior"
=============================================================================
