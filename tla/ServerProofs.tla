----------------------------- MODULE ServerProofs -----------------------------
(***************************************************************************)
(* Proofs about the life of the server process: about the database that    *)
(* survives it (PersistLog), for every set of channels and proxies and     *)
(* every number of crashes and I/O errors, and about its start and its end *)
(* (Server), for every number of servers that share a pidfile.             *)
(*                                                                         *)
(* PersistLog.  The checkpoint is written to an inode of its own, beside *)
(* the active and the backup file, so until it is linked as the active     *)
(* file nothing it does can be seen in the database.  Writers are kept out *)
(* from the moment it begins; hence what it has written of a channel still *)
(* holds when it is linked.  Each phase of the renaming leaves the         *)
(* database under the name active or, with no active file, under backup.   *)
(* One phase is different: between linking the active file and unlinking   *)
(* the checkpoint both names are the same inode, which the next checkpoint *)
(* would truncate.  After a process has died just there (torn), and until  *)
(* the next checkpoint is linked, nothing is known of the active file; of  *)
(* the checkpoint all is known as before, and with it the database is good *)
(* again.                                                                  *)
(*                                                                         *)
(* Server.  A status of 0 is written to the pipe by runningOk(), or as the *)
(* status with which main() ends; before runningOk() main() ends with 0    *)
(* only where no exit handler is set yet, or after an exception.  The      *)
(* pidfile is written after a check, and removed by who has written it: as *)
(* long as checks and writes do not overlap, at most one server that is    *)
(* alive has written it, and none while another is about to.               *)
(***************************************************************************)
EXTENDS PersistLog, Server, TLAPS

(* Phases in which the checkpoint has a factory, and those in which it is  *)
(* complete.                                                               *)
Complete == {"closeLog", "unlinkBackup", "linkBackup", "unlinkActive", "linkActive"}
Started == {"write"} \cup Complete

(* Which names are linked in which phase, and to what.                     *)
FilesOK ==
  /\ ~torn /\ file["checkpoint"] # NoFile /\ ckpt # "unlinkCheckpoint" =>
       file["checkpoint"] \notin {file["active"], file["backup"]}
  /\ up # "up" => ckpt = "first"
  /\ up = "up" /\ ckpt \in {"first", "wait", "open", "factory", "write", "closeLog", "dead"} =>
       log = file["active"]
  /\ up = "up" /\ ckpt # "linkActive" => file["active"] # NoFile
  /\ ckpt = "unlinkActive" => file["backup"] = file["active"]
  /\ ckpt = "linkActive" => file["active"] = NoFile /\ file["backup"] # NoFile
  /\ ckpt = "unlinkCheckpoint" => file["active"] = file["checkpoint"]
  /\ ckpt \in {"factory", "unlinkCheckpoint"} \cup Started => file["checkpoint"] # NoFile

Checkpoint == data[file["checkpoint"]]

(* The factory is in every database that was ever committed.               *)
FactoryOK ==
  /\ Restorable
  /\ ckpt \in Started => Checkpoint.ecf

(* Without the server there are no channels; a connection made since the   *)
(* start is in a channel that was recorded.                                *)
MemoryOK ==
  /\ up # "up" => sior = {} /\ \A c \in Channels : chan[c] # "on"
  /\ \A k \in Keys : conn[k] = "connecting" => k \in sior
  /\ \A k \in sior :
       conn[k] \in {"connecting", "on"} => chan[k[1]] \in {"on", "erased", "unrecorded"}

(* What a checkpoint has still to write, or has written.                   *)
ChannelsOK ==
  /\ ckpt \in Complete => left = {}
  /\ ckpt \in Started =>
       \A c \in Channels : chan[c] = "on" => c \in left \cup Checkpoint.chans

(* Connections that no other proxy's exception has kept out of a           *)
(* checkpoint.                                                             *)
Standing(k) == k \in sior \ dropped /\ conn[k] = "on" /\ chan[k[1]] = "on"

ConnsOK ==
  /\ ~torn => \A k \in Keys : Standing(k) => Database.conns[k] = "ior"
  /\ ckpt \in Started =>
       \A k \in Keys : Standing(k) => k[1] \in left \/ Checkpoint.conns[k] = "ior"

(* The inductive invariant.                                                *)
IInv == TypeOK /\ FilesOK /\ FactoryOK /\ MemoryOK /\ ChannelsKept /\ ChannelsOK /\ ConnsOK

-----------------------------------------------------------------------------
(* What the operations on trees do.                                        *)
LEMMA EmptyTreeFacts == NoConns \in [Keys -> {"none", "empty", "ior"}] /\ EmptyTree \in Tree /\ ~EmptyTree.ecf
BY DEF NoConns, EmptyTree, Tree

LEMMA AddFactoryFacts ==
  ASSUME NEW t \in Tree
  PROVE  addFactory(t) \in Tree /\ addFactory(t).ecf
BY EmptyTreeFacts DEF addFactory, Tree

LEMMA OutputFacts ==
  ASSUME NEW t \in Tree, NEW c \in Channels, NEW w
  PROVE  /\ output(t, c, w) \in Tree /\ output(t, c, w).ecf = t.ecf
         /\ output(t, c, w).chans = t.chans \cup {c}
         /\ \A k \in Keys : output(t, c, w).conns[k] =
              IF k \in w THEN iorOutput(k) ELSE IF k \in KeysOf(c) THEN "none" ELSE t.conns[k]
<1>1. addChannel(t, c) \in Tree /\ addChannel(t, c).ecf = t.ecf /\ addChannel(t, c).chans = t.chans \cup {c}
      /\ \A k \in Keys : k \notin KeysOf(c) => addChannel(t, c).conns[k] = t.conns[k]
  BY DEF addChannel, Tree
<1>2. \A k \in Keys : iorOutput(k) \in {"none", "empty", "ior"}
  BY DEF iorOutput
<1> QED BY <1>1, <1>2 DEF output, Tree

LEMMA DelChannelFacts ==
  ASSUME NEW t \in Tree, NEW c \in Channels
  PROVE  /\ delChannel(t, c) \in Tree /\ delChannel(t, c).ecf = t.ecf
         /\ delChannel(t, c).chans = t.chans \ {c}
         /\ \A k \in Keys : delChannel(t, c).conns[k] =
              IF k \in KeysOf(c) THEN "none" ELSE t.conns[k]
BY DEF delChannel, Tree

LEMMA AddConnFacts ==
  ASSUME NEW t \in Tree, NEW k \in Keys
  PROVE  /\ addConn(t, k, "ior") \in Tree /\ addConn(t, k, "ior").ecf = t.ecf
         /\ t.chans \subseteq addConn(t, k, "ior").chans
         /\ \A j \in Keys : addConn(t, k, "ior").conns[j] = IF j = k THEN "ior" ELSE t.conns[j]
<1>1. k[1] \in Channels
  BY DEF Keys
<1> QED BY <1>1 DEF addConn, Tree

LEMMA DelConnFacts ==
  ASSUME NEW t \in Tree, NEW k \in Keys
  PROVE  /\ delConn(t, k) \in Tree /\ delConn(t, k).ecf = t.ecf
         /\ delConn(t, k).chans = t.chans
         /\ \A j \in Keys : delConn(t, k).conns[j] = IF j = k THEN "none" ELSE t.conns[j]
BY DEF delConn, Tree

(* Three inodes are enough: when one of the names is not linked, there is  *)
(* an inode for it.                                                        *)
LEMMA UnusedFacts ==
  ASSUME DiskTypes, \E n \in FileNames : file[n] = NoFile
  PROVE  Unused \in Inodes /\ \A n \in FileNames : file[n] # Unused
<1>1. \E i \in Inodes : i \notin Linked(file)
  BY DEF DiskTypes, FileNames, Inodes, Linked, NoFile
<1>2. Unused \in Inodes /\ Unused \notin Linked(file)
  BY <1>1 DEF Unused
<1> QED BY <1>2 DEF Linked, Inodes, NoFile

(* The components of a key.                                                *)
LEMMA KeyFacts == \A k \in Keys : k[1] \in Channels /\ k \in KeysOf(k[1])
BY DEF Keys, KeysOf

-----------------------------------------------------------------------------
(* A new server, with no files, satisfies the invariant.                   *)
LEMMA InitIInv == Init => IInv
<1> SUFFICES ASSUME Init PROVE IInv
  OBVIOUS
<1> USE LogAssumption DEF Init
<1>1. MemoryTypes /\ WorkerTypes
  BY DEF MemoryTypes, WorkerTypes, Phases
<1>2. FlagTypes
  BY DEF FlagTypes
<1>3. DiskTypes
  BY EmptyTreeFacts DEF DiskTypes
<1>4. FilesOK
  BY DEF FilesOK, Started, Complete, FileNames
<1>5. FactoryOK /\ ChannelsOK
  BY DEF FactoryOK, Restorable, ChannelsOK, Started, Complete
<1>6. MemoryOK /\ ChannelsKept
  BY DEF MemoryOK, ChannelsKept
<1>7. ConnsOK
  BY DEF ConnsOK, Standing, Started, Complete
<1> QED BY <1>1, <1>2, <1>3, <1>4, <1>5, <1>6, <1>7 DEF IInv, TypeOK

(* No channel and no connection becomes one that has to be in the          *)
(* database.                                                               *)
Grows ==
  dropped \subseteq dropped' /\ dropped' \subseteq dropped \cup {k \in Keys : k[2] \in PushNames}

Shrinks ==
  /\ \A c \in Channels : chan'[c] = "on" => chan[c] = "on"
  /\ \A k \in Keys : Standing(k)' => Standing(k)

DatabaseOK ==
  FilesOK /\ FactoryOK /\ ChannelsKept /\ ChannelsOK /\ ConnsOK

(* Steps that happen in memory only.                                       *)
LEMMA InMemoryStep ==
  ASSUME IInv, inMemory, Shrinks
  PROVE  DiskTypes' /\ WorkerTypes' /\ FlagTypes' /\ DatabaseOK'
<1> USE DEF inMemory, disk, worker
<1>1. Database' = Database /\ Checkpoint' = Checkpoint
  BY DEF Database, Checkpoint
<1>2. DiskTypes' /\ WorkerTypes' /\ FlagTypes'
  BY DEF IInv, TypeOK, DiskTypes, WorkerTypes, FlagTypes
<1>3. FilesOK' /\ FactoryOK'
  BY <1>1 DEF IInv, FilesOK, FactoryOK, Restorable
<1>4. ChannelsKept' /\ ChannelsOK'
  BY <1>1 DEF IInv, ChannelsKept, ChannelsOK, Shrinks
<1>5. ConnsOK'
  BY <1>1 DEF IInv, ConnsOK, Shrinks
<1> QED BY <1>2, <1>3, <1>4, <1>5 DEF DatabaseOK

(* A record is appended to the active file, which is the database.         *)
LEMMA WriteLockStep ==
  ASSUME IInv, NEW t \in Tree, WriteLock(t), data[log].ecf => t.ecf
  PROVE  /\ Database = data[log] /\ Database' = t
         /\ DiskTypes' /\ WorkerTypes' /\ FlagTypes' /\ FilesOK' /\ FactoryOK' /\ ChannelsOK'
         /\ ckpt' \notin Started /\ up = "up" /\ up' = "up"
<1> USE DEF WriteLock
<1>1. /\ ckpt \in {"first", "wait"} /\ ckpt' = ckpt /\ file' = file /\ log' = log /\ up = "up"
      /\ up' = "up" /\ data' = [data EXCEPT ![log] = t] /\ left' = left
  BY DEF Locked
<1>2. log = file["active"] /\ log # NoFile /\ log \in Inodes
  BY <1>1 DEF IInv, TypeOK, DiskTypes, FilesOK
<1>3. Database = data[log] /\ Database' = t
  BY <1>1, <1>2 DEF Database, IInv, TypeOK, DiskTypes
<1>4. DiskTypes' /\ WorkerTypes'
  BY <1>1 DEF IInv, TypeOK, DiskTypes, WorkerTypes
<1>5. FlagTypes'
  BY DEF IInv, TypeOK, FlagTypes
<1>6. FilesOK'
  BY <1>1 DEF IInv, FilesOK, Started, Complete
<1>7. FactoryOK' /\ ChannelsOK' /\ ckpt' \notin Started
  BY <1>1, <1>3 DEF IInv, FactoryOK, Restorable, ChannelsOK, Started, Complete
<1> QED BY <1>1, <1>3, <1>4, <1>5, <1>6, <1>7

(* The log is open on an inode whenever records are written to it.         *)
LEMMA LogFacts ==
  ASSUME IInv, up = "up", ~Locked
  PROVE  log \in Inodes /\ data[log] \in Tree
BY DEF IInv, TypeOK, DiskTypes, FilesOK, Locked

(* EventChannel_i writes itself to the log.                                *)
LEMMA RecordStep ==
  ASSUME IInv, NEW c \in Channels, record(c)
  PROVE  IInv'
<1>1. PICK w \in Written(c) : WriteLock(output(data[log], c, w))
  BY DEF record
<1> DEFINE t == output(data[log], c, w)
<1>2. log \in Inodes /\ data[log] \in Tree
  BY <1>1, LogFacts DEF WriteLock
<1>3. /\ t \in Tree /\ t.ecf = data[log].ecf /\ t.chans = data[log].chans \cup {c}
      /\ \A k \in Keys : k \notin w /\ k \notin KeysOf(c) => t.conns[k] = data[log].conns[k]
  BY <1>2, OutputFacts
<1>4. \A k \in w : k \in KeysOf(c)
  BY DEF Written, Live
<1> HIDE DEF t
<1>5. WriteLock(t)
  BY <1>1 DEF t
<1>6. /\ Database = data[log] /\ Database' = t /\ DiskTypes' /\ WorkerTypes' /\ FlagTypes'
      /\ FilesOK' /\ FactoryOK' /\ ChannelsOK' /\ ckpt' \notin Started /\ up = "up" /\ up' = "up"
  BY <1>3, <1>5, WriteLockStep
<1>7. /\ chan[c] = "stored" /\ chan' = [chan EXCEPT ![c] = "on"] /\ conn' = conn /\ sior' = sior
      /\ Grows /\ torn' = torn
  BY DEF record, leavesOut, Live, KeysOf, Grows, WriteLock
<1>8. MemoryTypes'
  BY <1>6, <1>7 DEF IInv, TypeOK, MemoryTypes, Grows
<1>9. MemoryOK'
  BY <1>6, <1>7, KeyFacts DEF IInv, TypeOK, MemoryTypes, MemoryOK
<1>10. ChannelsKept'
  BY <1>3, <1>6, <1>7 DEF IInv, TypeOK, MemoryTypes, ChannelsKept
<1>11. ASSUME NEW k \in Keys, Standing(k)', ~torn
       PROVE  t.conns[k] = "ior"
  <2>1. k \in sior /\ conn[k] = "on" /\ k[1] \in Channels
    BY <1>7, <1>11, KeyFacts DEF Standing
  <2>2. k[1] # c
    BY <1>7, <2>1 DEF IInv, MemoryOK
  <2>3. Standing(k)
    BY <1>7, <1>11, <2>1, <2>2 DEF Standing, Grows, IInv, TypeOK, MemoryTypes
  <2>4. k \notin KeysOf(c)
    BY <2>2 DEF KeysOf
  <2> QED BY <1>3, <1>4, <1>6, <1>11, <2>3, <2>4 DEF IInv, ConnsOK
<1>12. ConnsOK'
  BY <1>6, <1>7, <1>11 DEF ConnsOK
<1> QED BY <1>6, <1>8, <1>9, <1>10, <1>12 DEF IInv, TypeOK

(* EventChannel_i erases itself from the log.                              *)
LEMMA UnrecordStep ==
  ASSUME IInv, NEW c \in Channels, unrecord(c)
  PROVE  IInv'
<1> DEFINE t == delChannel(data[log], c)
<1>2. log \in Inodes /\ data[log] \in Tree
  BY LogFacts DEF unrecord, WriteLock
<1>3. /\ t \in Tree /\ t.ecf = data[log].ecf /\ t.chans = data[log].chans \ {c}
      /\ \A k \in Keys : k \notin KeysOf(c) => t.conns[k] = data[log].conns[k]
  BY <1>2, DelChannelFacts
<1>5. WriteLock(t)
  BY DEF unrecord
<1> HIDE DEF t
<1>6. /\ Database = data[log] /\ Database' = t /\ DiskTypes' /\ WorkerTypes' /\ FlagTypes'
      /\ FilesOK' /\ FactoryOK' /\ ChannelsOK' /\ ckpt' \notin Started /\ up = "up" /\ up' = "up"
  BY <1>3, <1>5, WriteLockStep
<1>7. /\ chan[c] = "erased" /\ chan' = [chan EXCEPT ![c] = "unrecorded"] /\ conn' = conn
      /\ sior' = sior /\ dropped' = dropped /\ torn' = torn
  BY DEF unrecord, WriteLock
<1>8. MemoryTypes'
  BY <1>6, <1>7 DEF IInv, TypeOK, MemoryTypes
<1>9. MemoryOK'
  BY <1>6, <1>7, KeyFacts DEF IInv, TypeOK, MemoryTypes, MemoryOK
<1>10. ChannelsKept'
  BY <1>3, <1>6, <1>7 DEF IInv, TypeOK, MemoryTypes, ChannelsKept
<1>11. ASSUME NEW k \in Keys, Standing(k)', ~torn
       PROVE  t.conns[k] = "ior"
  <2>1. k[1] \in Channels /\ k[1] # c /\ chan[k[1]] = "on"
    BY <1>7, <1>11, KeyFacts DEF Standing, IInv, TypeOK, MemoryTypes
  <2>2. Standing(k) /\ k \notin KeysOf(c)
    BY <1>7, <1>11, <2>1 DEF Standing, KeysOf
  <2> QED BY <1>3, <1>6, <1>11, <2>2 DEF IInv, ConnsOK
<1>12. ConnsOK'
  BY <1>6, <1>7, <1>11 DEF ConnsOK
<1> QED BY <1>6, <1>8, <1>9, <1>10, <1>12 DEF IInv, TypeOK

(* A connection is recorded: one made since the start has its IOR.         *)
LEMMA ConnectRecordStep ==
  ASSUME IInv, NEW j \in Keys, connectRecord(j)
  PROVE  IInv'
<1> DEFINE t == addConn(data[log], j, iorOutput(j))
<1>1. /\ conn[j] = "connecting" /\ conn' = [conn EXCEPT ![j] = "on"] /\ chan' = chan /\ sior' = sior
      /\ dropped' = dropped /\ torn' = torn
  BY DEF connectRecord, WriteLock
<1>2. log \in Inodes /\ data[log] \in Tree
  BY LogFacts DEF connectRecord, WriteLock
<1>3. iorOutput(j) = "ior"
  BY <1>1 DEF iorOutput, IInv, MemoryOK
<1>5. WriteLock(t)
  BY DEF connectRecord
<1>14. t = addConn(data[log], j, "ior")
  BY <1>3
<1> HIDE DEF t
<1>4. /\ t \in Tree /\ t.ecf = data[log].ecf /\ data[log].chans \subseteq t.chans
      /\ \A k \in Keys : t.conns[k] = IF k = j THEN "ior" ELSE data[log].conns[k]
  BY <1>2, <1>14, AddConnFacts
<1>6. /\ Database = data[log] /\ Database' = t /\ DiskTypes' /\ WorkerTypes' /\ FlagTypes'
      /\ FilesOK' /\ FactoryOK' /\ ChannelsOK' /\ ckpt' \notin Started /\ up = "up" /\ up' = "up"
  BY <1>4, <1>5, WriteLockStep
<1>7. MemoryTypes'
  BY <1>1, <1>6 DEF IInv, TypeOK, MemoryTypes
<1>8. MemoryOK'
  BY <1>1, <1>6 DEF IInv, TypeOK, MemoryTypes, MemoryOK
<1>9. ChannelsKept'
  BY <1>1, <1>4, <1>6 DEF IInv, ChannelsKept
<1>10. ASSUME NEW k \in Keys, Standing(k)', k # j
       PROVE  Standing(k)
  BY <1>1, <1>10 DEF Standing, IInv, TypeOK, MemoryTypes
<1>11. ConnsOK'
  BY <1>1, <1>4, <1>6, <1>10 DEF IInv, ConnsOK
<1> QED BY <1>6, <1>7, <1>8, <1>9, <1>11 DEF IInv, TypeOK

(* A connection that ends is erased first.                                 *)
LEMMA EraseKeyStep ==
  ASSUME IInv, NEW j \in Keys, eraseKey(j)
  PROVE  IInv'
<1> DEFINE t == delConn(data[log], j)
<1>1. /\ conn[j] = "on" /\ conn' = [conn EXCEPT ![j] = "erased"] /\ chan' = chan /\ sior' = sior
      /\ dropped' = dropped /\ torn' = torn
  BY DEF eraseKey, WriteLock
<1>2. log \in Inodes /\ data[log] \in Tree
  BY LogFacts DEF eraseKey, WriteLock
<1>4. /\ t \in Tree /\ t.ecf = data[log].ecf /\ data[log].chans = t.chans
      /\ \A k \in Keys : k # j => t.conns[k] = data[log].conns[k]
  BY <1>2, DelConnFacts
<1>5. WriteLock(t)
  BY DEF eraseKey
<1> HIDE DEF t
<1>6. /\ Database = data[log] /\ Database' = t /\ DiskTypes' /\ WorkerTypes' /\ FlagTypes'
      /\ FilesOK' /\ FactoryOK' /\ ChannelsOK' /\ ckpt' \notin Started /\ up = "up" /\ up' = "up"
  BY <1>4, <1>5, WriteLockStep
<1>7. MemoryTypes'
  BY <1>1, <1>6 DEF IInv, TypeOK, MemoryTypes
<1>8. MemoryOK'
  BY <1>1, <1>6 DEF IInv, TypeOK, MemoryTypes, MemoryOK
<1>9. ChannelsKept'
  BY <1>1, <1>4, <1>6 DEF IInv, ChannelsKept
<1>10. ASSUME NEW k \in Keys, Standing(k)'
       PROVE  Standing(k) /\ k # j
  BY <1>1, <1>10 DEF Standing, IInv, TypeOK, MemoryTypes
<1>11. ConnsOK'
  BY <1>1, <1>4, <1>6, <1>10 DEF IInv, ConnsOK
<1> QED BY <1>6, <1>7, <1>8, <1>9, <1>11 DEF IInv, TypeOK

(* The steps of the threads in memory.                                     *)
LEMMA ChannelMemoryStep ==
  ASSUME IInv, NEW c \in Channels,
         create_object(c) \/ insert(c) \/ erase(c) \/ destroyPoa(c)
  PROVE  IInv'
<1> USE KeyFacts DEF IInv, TypeOK, MemoryTypes
<1>1. inMemory /\ up' = up /\ up = "up"
  BY DEF create_object, insert, erase, destroyPoa, inMemory
<1>2. ASSUME create_object(c) \/ insert(c) \/ erase(c)
      PROVE  MemoryTypes' /\ MemoryOK' /\ Shrinks
  <2>1. /\ conn' = conn /\ sior' = sior /\ dropped' = dropped
        /\ \/ chan[c] = "none" /\ chan' = [chan EXCEPT ![c] = "created"]
           \/ chan[c] \in {"created", "restored"} /\ chan' = [chan EXCEPT ![c] = "stored"]
           \/ chan[c] = "on" /\ chan' = [chan EXCEPT ![c] = "erased"]
    BY <1>2 DEF create_object, insert, erase
  <2>2. MemoryTypes'
    BY <1>1, <2>1
  <2>3. MemoryOK'
    BY <1>1, <2>1 DEF MemoryOK
  <2>4. Shrinks
    BY <1>1, <2>1 DEF Shrinks, Standing
  <2> QED BY <2>2, <2>3, <2>4
<1>3. ASSUME destroyPoa(c)
      PROVE  MemoryTypes' /\ MemoryOK' /\ Shrinks
  <2>1. /\ chan[c] = "unrecorded" /\ chan' = [chan EXCEPT ![c] = "none"]
        /\ conn' = [k \in Keys |-> IF k \in KeysOf(c) /\ conn[k] # "none" THEN "gone" ELSE conn[k]]
        /\ sior' = sior \ KeysOf(c) /\ dropped' = dropped \ KeysOf(c)
    BY <1>3 DEF destroyPoa, freeProxies
  <2>2. MemoryTypes'
    BY <1>1, <2>1
  <2>3. MemoryOK'
    BY <1>1, <2>1 DEF MemoryOK, KeysOf
  <2>4. Shrinks
    BY <1>1, <2>1 DEF Shrinks, Standing
  <2> QED BY <2>2, <2>3, <2>4
<1>4. MemoryTypes' /\ MemoryOK' /\ Shrinks
  BY <1>2, <1>3
<1>5. DiskTypes' /\ WorkerTypes' /\ FlagTypes' /\ DatabaseOK'
  BY <1>1, <1>4, InMemoryStep
<1> QED BY <1>4, <1>5 DEF DatabaseOK

LEMMA ProxyMemoryStep ==
  ASSUME IInv, NEW j \in Keys, connect(j) \/ deactivateObject(j) \/ etherealize(j)
  PROVE  IInv'
<1> USE KeyFacts DEF IInv, TypeOK, MemoryTypes
<1>1. /\ inMemory /\ chan' = chan /\ up' = up /\ up = "up"
      /\ \/ /\ chan[j[1]] \in {"on", "erased", "unrecorded"} /\ conn[j] = "none"
            /\ conn' = [conn EXCEPT ![j] = "connecting"]
            /\ sior' = sior \cup {j} /\ dropped' = dropped
         \/ /\ conn[j] = "erased" /\ sior' = sior /\ dropped' = dropped
            /\ conn' = [conn EXCEPT ![j] = "closed"]
         \/ /\ conn[j] = "closed" /\ sior' = sior \ {j} /\ dropped' = dropped \ {j}
            /\ conn' = [conn EXCEPT ![j] = "gone"]
  BY DEF connect, deactivateObject, etherealize, freeProxies, inMemory
<1>2. MemoryTypes'
  BY <1>1
<1>3. MemoryOK'
  BY <1>1 DEF MemoryOK
<1>4. Shrinks
  BY <1>1 DEF Shrinks, Standing
<1>5. DiskTypes' /\ WorkerTypes' /\ FlagTypes' /\ DatabaseOK'
  BY <1>1, <1>4, InMemoryStep
<1> QED BY <1>2, <1>3, <1>5 DEF DatabaseOK

-----------------------------------------------------------------------------
(* Start, repair and death of the server.                                  *)

(* Without channels and connections there is nothing to keep.              *)
LEMMA NothingToKeep ==
  ASSUME \A c \in Channels : chan'[c] # "on", sior' = {}, ckpt' = "first",
         \A k \in Keys : conn'[k] # "connecting"
  PROVE  MemoryOK' /\ ChannelsKept' /\ ChannelsOK' /\ ConnsOK'
BY DEF MemoryOK, ChannelsKept, ChannelsOK, ConnsOK, Standing, Started, Complete

LEMMA StartUpStep == IInv /\ startUp => IInv'
<1> SUFFICES ASSUME IInv, startUp PROVE IInv'
  OBVIOUS
<1>1. /\ up = "down" /\ ckpt' = "first" /\ left' = {} /\ needed' = TRUE
      /\ established' = established /\ torn' = torn /\ dropped' = dropped
      /\ crashes' = crashes /\ ioErrors' = ioErrors /\ data' = data
  BY DEF startUp, incarnateFactory, refuse, disk, past
<1>2. sior = {} /\ (\A c \in Channels : chan[c] # "on") /\ ckpt = "first"
      /\ \A k \in Keys : conn[k] # "connecting"
  BY <1>1 DEF IInv, MemoryOK, FilesOK
<1>3. WorkerTypes'
  BY <1>1 DEF IInv, TypeOK, WorkerTypes, Phases
<1>4. FlagTypes'
  BY <1>1 DEF IInv, TypeOK, FlagTypes
<1> DEFINE a == IF file["active"] # NoFile THEN file["active"] ELSE Unused
<1>5. ASSUME NEW t, incarnateFactory(t, a), file["active"] = NoFile => file["backup"] = NoFile
      PROVE  IInv'
  <2>1. a \in Inodes /\ a # NoFile /\ (file["active"] = NoFile => \A n \in FileNames : file[n] # a)
    BY UnusedFacts DEF IInv, TypeOK, DiskTypes, FileNames, Inodes, NoFile
  <2>2. /\ up' = "up" /\ sior' = {} /\ file' = [file EXCEPT !["active"] = a] /\ log' = a
        /\ chan' = restoredChannels(t) /\ conn' = restoredProxies(t)
    BY <1>5 DEF incarnateFactory
  <2> HIDE DEF a
  <2>3. MemoryTypes'
    BY <1>1, <2>2 DEF IInv, TypeOK, MemoryTypes, restoredChannels, restoredProxies
  <2>4. DiskTypes'
    BY <1>1, <2>1, <2>2 DEF IInv, TypeOK, DiskTypes, FileNames
  <2>5. MemoryOK' /\ ChannelsKept' /\ ChannelsOK' /\ ConnsOK'
    <3>1. \A c \in Channels : chan'[c] # "on"
      BY <2>2 DEF restoredChannels
    <3>2. \A k \in Keys : conn'[k] # "connecting"
      BY <1>2, <2>2 DEF restoredProxies
    <3> QED BY <1>1, <2>2, <3>1, <3>2, NothingToKeep
  <2>6. FilesOK'
    BY <1>1, <1>2, <2>1, <2>2 DEF a, IInv, TypeOK, DiskTypes, FilesOK, FileNames, Started, Complete
  <2>7. FactoryOK'
    <3>1. CASE file["active"] # NoFile
      BY <1>1, <2>1, <2>2, <3>1
        DEF a, IInv, TypeOK, DiskTypes, FactoryOK, Restorable, Database, FileNames, Started, Complete
    <3>2. CASE file["active"] = NoFile
      <4>1. ~(established /\ ~torn)
        BY <1>5, <3>2, EmptyTreeFacts DEF IInv, FactoryOK, Restorable, Database
      <4> QED BY <1>1, <4>1 DEF FactoryOK, Restorable, Started, Complete
    <3> QED BY <3>1, <3>2
  <2> QED BY <1>3, <1>4, <2>3, <2>4, <2>5, <2>6, <2>7 DEF IInv, TypeOK
<1>6. CASE refuse
  <2>1. up' = "refused" /\ chan' = chan /\ conn' = conn /\ sior' = sior /\ file' = file /\ log' = log
    BY <1>6 DEF refuse, memory, disk
  <2>2. MemoryTypes' /\ DiskTypes'
    BY <1>1, <2>1 DEF IInv, TypeOK, MemoryTypes, DiskTypes
  <2>3. MemoryOK' /\ ChannelsKept' /\ ChannelsOK' /\ ConnsOK'
    BY <1>1, <1>2, <2>1, NothingToKeep
  <2>4. FilesOK'
    BY <1>1, <1>2, <2>1 DEF IInv, FilesOK, Started, Complete
  <2>5. Database' = Database
    BY <1>1, <2>1 DEF Database
  <2>6. FactoryOK'
    BY <1>1, <2>5 DEF IInv, FactoryOK, Restorable, Started, Complete
  <2> QED BY <1>3, <1>4, <2>2, <2>3, <2>4, <2>6 DEF IInv, TypeOK
<1> QED BY <1>5, <1>6 DEF startUp

LEMMA RenameBackupStep == IInv /\ renameBackup => IInv'
<1> SUFFICES ASSUME IInv, renameBackup PROVE IInv'
  OBVIOUS
<1>1. /\ up = "refused" /\ up' = "down" /\ file["active"] = NoFile
      /\ file' = [file EXCEPT !["active"] = file["backup"], !["backup"] = NoFile]
      /\ chan' = chan /\ conn' = conn /\ sior' = sior /\ data' = data /\ log' = log
      /\ ckpt' = ckpt /\ left' = left /\ crashes' = crashes /\ ioErrors' = ioErrors
  BY DEF renameBackup, memory, worker
<1>2. /\ needed' = needed /\ established' = established /\ torn' = torn /\ dropped' = dropped
  BY DEF renameBackup, worker, past
<1>3. FlagTypes'
  BY <1>2 DEF IInv, TypeOK, FlagTypes
<1>4. MemoryTypes' /\ DiskTypes' /\ WorkerTypes'
  BY <1>1, <1>2 DEF IInv, TypeOK, MemoryTypes, DiskTypes, WorkerTypes, FileNames
<1>5. ckpt = "first" /\ sior = {} /\ \A c \in Channels : chan[c] # "on"
  BY <1>1 DEF IInv, FilesOK, MemoryOK
<1>6. MemoryOK' /\ ChannelsKept' /\ ChannelsOK' /\ ConnsOK'
  BY <1>1, <1>5, NothingToKeep DEF IInv, MemoryOK
<1>7. file'["active"] = file["backup"] /\ file'["backup"] = NoFile
      /\ file'["checkpoint"] = file["checkpoint"]
  BY <1>1 DEF IInv, TypeOK, DiskTypes, FileNames
<1>8. FilesOK'
  BY <1>1, <1>2, <1>5, <1>7 DEF IInv, FilesOK, Started, Complete
<1>9. Database' = Database
  BY <1>1, <1>7 DEF Database
<1>10. FactoryOK'
  BY <1>1, <1>2, <1>5, <1>9 DEF IInv, FactoryOK, Restorable, Started, Complete
<1> QED BY <1>3, <1>4, <1>6, <1>8, <1>10 DEF IInv, TypeOK

LEMMA CrashStep ==
  ASSUME IInv, Crash
  PROVE  IInv'
<1>1. /\ up = "up" /\ crashes < MaxCrashes
      /\ up' = "down" /\ crashes' = crashes + 1
      /\ chan' = [c \in Channels |-> "none"]
      /\ conn' = [k \in Keys |-> IF conn[k] = "none" THEN "none" ELSE "gone"]
      /\ sior' = {} /\ dropped' = {} /\ torn' = (torn \/ ckpt = "unlinkCheckpoint")
      /\ log' = NoFile /\ ckpt' = "first" /\ left' = {} /\ needed' = FALSE
      /\ file' = file /\ data' = data /\ established' = established /\ ioErrors' = ioErrors
  BY DEF Crash, freeProxies, IInv, TypeOK, MemoryTypes
<1>2. MemoryTypes' /\ DiskTypes'
  BY <1>1 DEF IInv, TypeOK, MemoryTypes, DiskTypes
<1>3. WorkerTypes'
  BY <1>1, LogAssumption DEF IInv, TypeOK, WorkerTypes, Phases
<1>4. FlagTypes'
  BY <1>1 DEF IInv, TypeOK, FlagTypes
<1>5. \A k \in Keys : conn'[k] # "connecting"
  BY <1>1
<1>6. MemoryOK' /\ ChannelsKept' /\ ChannelsOK' /\ ConnsOK'
  BY <1>1, <1>5, NothingToKeep
<1>7. FilesOK'
  BY <1>1 DEF IInv, FilesOK, Started, Complete
<1>8. Database' = Database
  BY <1>1 DEF Database
<1>9. FactoryOK'
  BY <1>1, <1>8 DEF IInv, FactoryOK, Restorable, Started, Complete
<1> QED BY <1>2, <1>3, <1>4, <1>6, <1>7, <1>9 DEF IInv, TypeOK
-----------------------------------------------------------------------------
(* The steps of the worker.  It leaves the memory alone.                   *)
LEMMA PhaseFrame ==
  ASSUME IInv, NEW from, NEW to, phase(from, to), Grows
  PROVE  /\ up = "up" /\ up' = "up" /\ ckpt = from /\ ckpt' = to /\ crashes' = crashes
         /\ chan' = chan /\ conn' = conn /\ sior' = sior
         /\ MemoryTypes' /\ MemoryOK'
         /\ \A k \in Keys : Standing(k)' => Standing(k)
<1>1. /\ up = "up" /\ up' = "up" /\ ckpt = from /\ ckpt' = to /\ crashes' = crashes
      /\ chan' = chan /\ conn' = conn /\ sior' = sior
  BY DEF phase, memory
<1>2. MemoryTypes' /\ MemoryOK'
  BY <1>1 DEF IInv, TypeOK, MemoryTypes, MemoryOK, Grows
<1>3. \A k \in Keys : Standing(k)' => Standing(k)
  BY <1>1 DEF Standing, Grows
<1> QED BY <1>1, <1>2, <1>3

(* A step that cannot be seen in the database.                             *)
LEMMA UnseenStep ==
  ASSUME IInv, NEW from, NEW to, phase(from, to),
         ~torn => Database' = Database, established' = established, torn' = torn, dropped' = dropped,
         to \in Started => from \in Started /\ Checkpoint' = Checkpoint /\ left' = left,
         to \in Complete => left' = {}
  PROVE  FactoryOK' /\ ChannelsKept' /\ ChannelsOK' /\ ConnsOK'
<1>1. /\ ckpt = from /\ ckpt' = to /\ chan' = chan
      /\ \A k \in Keys : Standing(k)' => Standing(k)
  BY PhaseFrame DEF Grows
<1>2. FactoryOK'
  BY <1>1 DEF IInv, FactoryOK, Restorable
<1>3. ChannelsKept' /\ ChannelsOK'
  BY <1>1 DEF IInv, ChannelsKept, ChannelsOK
<1>4. ConnsOK'
  BY <1>1 DEF IInv, ConnsOK
<1> QED BY <1>2, <1>3, <1>4

LEMMA CkptLockStep == IInv /\ ckptLock => IInv'
<1> SUFFICES ASSUME IInv, ckptLock PROVE IInv'
  OBVIOUS
<1>1. PICK from \in {"first", "wait"} : phase(from, "open")
  BY DEF ckptLock
<1>2. /\ file' = file /\ data' = data /\ log' = log /\ left' = left /\ needed' = needed
      /\ established' = established /\ torn' = torn /\ dropped' = dropped /\ ioErrors' = ioErrors
  BY DEF ckptLock, disk, past
<1>3. /\ ckpt = from /\ ckpt' = "open" /\ up = "up" /\ up' = "up" /\ crashes' = crashes
      /\ MemoryTypes' /\ MemoryOK'
  BY <1>1, <1>2, PhaseFrame DEF Grows
<1>4. Database' = Database
  BY <1>2 DEF Database
<1>5. FactoryOK' /\ ChannelsKept' /\ ChannelsOK' /\ ConnsOK'
  BY <1>1, <1>2, <1>4, UnseenStep DEF Started, Complete
<1>6. FilesOK'
  BY <1>2, <1>3 DEF IInv, FilesOK, Started, Complete
<1>7. DiskTypes' /\ WorkerTypes'
  BY <1>2, <1>3 DEF IInv, TypeOK, DiskTypes, WorkerTypes, Phases
<1>8. FlagTypes'
  BY <1>2 DEF IInv, TypeOK, FlagTypes
<1> QED BY <1>3, <1>5, <1>6, <1>7, <1>8 DEF IInv, TypeOK

(* The checkpoint gets an inode that is neither the active nor the backup  *)
(* file's.                                                                 *)
LEMMA CkptOpenStep == IInv /\ ckptOpen => IInv'
<1> SUFFICES ASSUME IInv, ckptOpen PROVE IInv'
  OBVIOUS
<1> DEFINE i == IF file["checkpoint"] # NoFile THEN file["checkpoint"] ELSE Unused
<1>1. /\ phase("open", "factory")
      /\ file' = [file EXCEPT !["checkpoint"] = i] /\ data' = [data EXCEPT ![i] = EmptyTree]
      /\ log' = log /\ left' = left /\ needed' = needed
      /\ established' = established /\ torn' = torn /\ dropped' = dropped /\ ioErrors' = ioErrors
  BY DEF ckptOpen, past
<1>2. /\ ckpt = "open" /\ ckpt' = "factory" /\ up = "up" /\ up' = "up" /\ crashes' = crashes
      /\ MemoryTypes' /\ MemoryOK'
  BY <1>1, PhaseFrame DEF Grows
<1>3. i \in Inodes /\ (~torn => i \notin {file["active"], file["backup"]})
  BY <1>2, UnusedFacts DEF IInv, TypeOK, DiskTypes, FilesOK, FileNames, NoFile, Inodes
<1> HIDE DEF i
<1>4. file'["active"] = file["active"] /\ file'["backup"] = file["backup"] /\ file'["checkpoint"] = i
  BY <1>1 DEF IInv, TypeOK, DiskTypes, FileNames
<1>5. DiskTypes' /\ WorkerTypes'
  BY <1>1, <1>2, <1>3, EmptyTreeFacts DEF IInv, TypeOK, DiskTypes, WorkerTypes, Phases, FileNames
<1>6. ~torn => Database' = Database
  BY <1>1, <1>2, <1>3, <1>4 DEF IInv, TypeOK, DiskTypes, FilesOK, Database
<1>7. FactoryOK' /\ ChannelsKept' /\ ChannelsOK' /\ ConnsOK'
  BY <1>1, <1>6, UnseenStep DEF Started, Complete
<1>8. FilesOK'
  BY <1>1, <1>2, <1>3, <1>4 DEF IInv, FilesOK, Started, Complete, Inodes, NoFile
<1>9. FlagTypes'
  BY <1>1 DEF IInv, TypeOK, FlagTypes
<1> QED BY <1>2, <1>5, <1>7, <1>8, <1>9 DEF IInv, TypeOK

(* A record is added to the checkpoint, and not to the database.           *)
LEMMA CheckpointWrite ==
  ASSUME IInv, NEW from, NEW t \in Tree, phase(from, "write"), from \in {"factory", "write"},
         data' = [data EXCEPT ![file["checkpoint"]] = t], file' = file, log' = log,
         needed' = needed, established' = established, torn' = torn, Grows, ioErrors' = ioErrors,
         left' \subseteq Channels
  PROVE  /\ Checkpoint \in Tree /\ Checkpoint' = t /\ (~torn => Database' = Database)
         /\ TypeOK' /\ FilesOK' /\ MemoryOK' /\ ChannelsKept' /\ Restorable'
<1>1. /\ ckpt = from /\ ckpt' = "write" /\ up = "up" /\ up' = "up" /\ crashes' = crashes
      /\ chan' = chan /\ MemoryTypes' /\ MemoryOK'
  BY PhaseFrame
<1>2. /\ file["checkpoint"] \in Inodes
      /\ ~torn => file["checkpoint"] \notin {file["active"], file["backup"]}
      /\ file["active"] \in Inodes /\ file["active"] # NoFile
  BY <1>1 DEF IInv, TypeOK, DiskTypes, FilesOK, FileNames, Started
<1>3. Checkpoint \in Tree /\ Checkpoint' = t /\ (~torn => Database' = Database)
  BY <1>2 DEF IInv, TypeOK, DiskTypes, Checkpoint, Database
<1>4. DiskTypes' /\ WorkerTypes'
  BY <1>1 DEF IInv, TypeOK, DiskTypes, WorkerTypes, Phases
<1>5. FlagTypes'
  BY DEF IInv, TypeOK, FlagTypes
<1>6. FilesOK'
  BY <1>1, <1>2 DEF IInv, FilesOK, Started, Complete
<1>7. ChannelsKept'
  BY <1>1, <1>3 DEF IInv, ChannelsKept
<1>8. Restorable'
  BY <1>3 DEF IInv, FactoryOK, Restorable
<1> QED BY <1>1, <1>3, <1>4, <1>5, <1>6, <1>7, <1>8 DEF TypeOK

LEMMA CkptFactoryStep == IInv /\ ckptFactory => IInv'
<1> SUFFICES ASSUME IInv, ckptFactory PROVE IInv'
  OBVIOUS
<1> DEFINE t == addFactory(Checkpoint)
<1>1. /\ phase("factory", "write") /\ left' = {c \in Channels : chan[c] \in {"stored", "on"}}
      /\ file' = file /\ log' = log /\ needed' = needed /\ established' = established
      /\ torn' = torn /\ dropped' = dropped /\ ioErrors' = ioErrors
  BY DEF ckptFactory, past
<1>2. /\ ckpt = "factory" /\ ckpt' = "write" /\ chan' = chan
      /\ \A k \in Keys : Standing(k)' => Standing(k)
  BY <1>1, PhaseFrame DEF Grows
<1>3. Checkpoint \in Tree
  BY <1>2 DEF IInv, TypeOK, DiskTypes, FilesOK, FileNames, Started, Checkpoint
<1>4. t \in Tree /\ t.ecf
  BY <1>3, AddFactoryFacts
<1>5. data' = [data EXCEPT ![file["checkpoint"]] = t]
  BY DEF ckptFactory, Checkpoint
<1> HIDE DEF t
<1>6. /\ Checkpoint' = t /\ (~torn => Database' = Database) /\ TypeOK' /\ FilesOK' /\ MemoryOK'
      /\ ChannelsKept' /\ Restorable'
  BY <1>1, <1>4, <1>5, CheckpointWrite DEF Grows
<1>7. FactoryOK'
  BY <1>4, <1>6 DEF FactoryOK, Restorable
<1>8. ChannelsOK'
  BY <1>1, <1>2 DEF ChannelsOK, Complete
<1>9. ConnsOK'
  BY <1>1, <1>2, <1>6, KeyFacts DEF IInv, ConnsOK, Standing
<1> QED BY <1>6, <1>7, <1>8, <1>9 DEF IInv

(* The connections of a channel that stand are written.                    *)
LEMMA WrittenFacts ==
  ASSUME IInv, NEW c \in Channels, NEW w \in Written(c)
  PROVE  /\ w \subseteq KeysOf(c)
         /\ \A k \in KeysOf(c) :
              Standing(k) /\ k \notin Live(c, PushNames) \ w => k \in w /\ iorOutput(k) = "ior"
<1>1. PICK p \in SUBSET Live(c, PushNames) : w = p \cup Live(c, PullNames)
  BY DEF Written
<1>2. w \subseteq KeysOf(c)
  BY <1>1 DEF Live
<1>3. ASSUME NEW k \in KeysOf(c), Standing(k), k \notin Live(c, PushNames) \ w
      PROVE  k \in w /\ iorOutput(k) = "ior"
  <2>1. /\ k \in Keys /\ k[1] = c /\ k[2] \in PushNames \cup PullNames
        /\ conn[k] = "on" /\ k \in sior
    BY <1>3 DEF KeysOf, Keys, Standing
  <2>2. k \in Live(c, PushNames) \cup Live(c, PullNames)
    BY <2>1 DEF Live, KeysOf
  <2> QED BY <1>1, <1>3, <2>1, <2>2 DEF iorOutput
<1> QED BY <1>2, <1>3

LEMMA CkptChannelStep ==
  ASSUME IInv, NEW c \in Channels, ckptChannel(c)
  PROVE  IInv'
<1>1. /\ c \in left /\ file' = file /\ log' = log /\ needed' = needed
      /\ established' = established /\ torn' = torn /\ ioErrors' = ioErrors
  BY DEF ckptChannel
<1>2. ASSUME phase("write", "write"), left' = left \ {c}, NEW w \in Written(c),
             data' = [data EXCEPT ![file["checkpoint"]] = output(@, c, w)], leavesOut(c, w)
      PROVE  IInv'
  <2> DEFINE t == output(Checkpoint, c, w)
  <2>11. Grows /\ dropped' = dropped \cup (Live(c, PushNames) \ w)
    BY <1>2 DEF leavesOut, Live, KeysOf, Grows
  <2>1. /\ ckpt = "write" /\ ckpt' = "write" /\ chan' = chan
        /\ \A k \in Keys : Standing(k)' => Standing(k)
    BY <1>2, <2>11, PhaseFrame
  <2>2. Checkpoint \in Tree
    BY <2>1 DEF IInv, TypeOK, DiskTypes, FilesOK, FileNames, Started, Checkpoint
  <2>3. /\ t \in Tree /\ t.ecf = Checkpoint.ecf /\ t.chans = Checkpoint.chans \cup {c}
        /\ \A k \in Keys : t.conns[k] =
             IF k \in w THEN iorOutput(k) ELSE IF k \in KeysOf(c) THEN "none" ELSE Checkpoint.conns[k]
    BY <2>2, OutputFacts
  <2>4. data' = [data EXCEPT ![file["checkpoint"]] = t]
    BY <1>2 DEF Checkpoint
  <2> HIDE DEF t
  <2>5. left' \subseteq Channels
    BY <1>2 DEF IInv, TypeOK, WorkerTypes
  <2>6. /\ Checkpoint' = t /\ (~torn => Database' = Database) /\ TypeOK' /\ FilesOK' /\ MemoryOK'
        /\ ChannelsKept' /\ Restorable'
    BY <1>1, <1>2, <2>3, <2>4, <2>5, <2>11, CheckpointWrite
  <2>7. FactoryOK'
    BY <2>1, <2>3, <2>6 DEF IInv, FactoryOK, Restorable, Started
  <2>8. ChannelsOK'
    BY <1>2, <2>1, <2>3, <2>6 DEF IInv, ChannelsOK, Started, Complete
  <2>9. ASSUME NEW k \in Keys, Standing(k)'
        PROVE  k[1] \in left' \/ t.conns[k] = "ior"
    <3>1. CASE k \in KeysOf(c)
      <4>1. Standing(k) /\ k \notin Live(c, PushNames) \ w
        BY <2>1, <2>9, <2>11 DEF Standing
      <4> QED BY <2>3, <3>1, <4>1, WrittenFacts
    <3>2. CASE k \notin KeysOf(c)
      <4>1. k \notin w /\ k[1] # c
        BY <3>2, WrittenFacts DEF KeysOf
      <4>2. k[1] \in left \/ Checkpoint.conns[k] = "ior"
        BY <2>1, <2>9 DEF IInv, ConnsOK, Started
      <4> QED BY <1>2, <2>3, <3>2, <4>1, <4>2
    <3> QED BY <3>1, <3>2
  <2>10. ConnsOK'
    BY <1>1, <2>1, <2>6, <2>9 DEF IInv, ConnsOK
  <2> QED BY <2>6, <2>7, <2>8, <2>10 DEF IInv
<1>3. ASSUME phase("write", "dead"), left' = {}, data' = data, dropped' = dropped
      PROVE  IInv'
  <2>1. /\ ckpt = "write" /\ ckpt' = "dead" /\ up = "up" /\ up' = "up" /\ crashes' = crashes
        /\ MemoryTypes' /\ MemoryOK'
    BY <1>3, PhaseFrame DEF Grows
  <2>2. Database' = Database
    BY <1>1, <1>3 DEF Database
  <2>3. FactoryOK' /\ ChannelsKept' /\ ChannelsOK' /\ ConnsOK'
    BY <1>1, <1>3, <2>2, UnseenStep DEF Started, Complete
  <2>4. FilesOK'
    BY <1>1, <2>1 DEF IInv, FilesOK, Started, Complete
  <2>5. DiskTypes' /\ WorkerTypes'
    BY <1>1, <1>3, <2>1 DEF IInv, TypeOK, DiskTypes, WorkerTypes, Phases
  <2>6. FlagTypes'
    BY <1>1 DEF IInv, TypeOK, FlagTypes
  <2> QED BY <2>1, <2>3, <2>4, <2>5, <2>6 DEF IInv, TypeOK
<1> QED BY <1>2, <1>3 DEF ckptChannel

(* The checkpoint is complete when no channel is left.                     *)
LEMMA CkptWrittenStep == IInv /\ ckptWritten => IInv'
<1> SUFFICES ASSUME IInv, ckptWritten PROVE IInv'
  OBVIOUS
<1>1. /\ phase("write", "closeLog") /\ left = {} /\ file' = file /\ data' = data /\ log' = log
      /\ left' = left /\ needed' = needed /\ established' = established /\ ioErrors' = ioErrors
      /\ torn' = torn /\ dropped' = dropped
  BY DEF ckptWritten, disk, past
<1>2. /\ ckpt = "write" /\ ckpt' = "closeLog" /\ up = "up" /\ up' = "up" /\ crashes' = crashes
      /\ MemoryTypes' /\ MemoryOK'
  BY <1>1, PhaseFrame DEF Grows
<1>3. Database' = Database /\ Checkpoint' = Checkpoint
  BY <1>1 DEF Database, Checkpoint
<1>4. FactoryOK' /\ ChannelsKept' /\ ChannelsOK' /\ ConnsOK'
  BY <1>1, <1>3, UnseenStep DEF Started
<1>5. FilesOK'
  BY <1>1, <1>2 DEF IInv, FilesOK, Started, Complete
<1>6. DiskTypes' /\ WorkerTypes'
  BY <1>1, <1>2 DEF IInv, TypeOK, DiskTypes, WorkerTypes, Phases
<1>7. FlagTypes'
  BY <1>1 DEF IInv, TypeOK, FlagTypes
<1> QED BY <1>2, <1>4, <1>5, <1>6, <1>7 DEF IInv, TypeOK

LEMMA CkptIOErrorStep == IInv /\ ckptIOError => IInv'
<1> SUFFICES ASSUME IInv, ckptIOError PROVE IInv'
  OBVIOUS
<1>1. PICK from \in {"open", "factory", "write"} : phase(from, "wait")
  BY DEF ckptIOError
<1>2. /\ ioErrors < MaxIOErrors /\ ioErrors' = ioErrors + 1
      /\ file' = [file EXCEPT !["checkpoint"] = NoFile] /\ left' = {}
      /\ data' = [i \in Inodes |-> IF i \in Linked(file') THEN data[i] ELSE EmptyTree]
      /\ log' = log /\ needed' = needed /\ established' = established
      /\ torn' = torn /\ dropped' = dropped
  BY DEF ckptIOError, unlinkCheckpoint, links, past
<1>3. /\ ckpt = from /\ ckpt' = "wait" /\ up = "up" /\ up' = "up" /\ crashes' = crashes
      /\ MemoryTypes' /\ MemoryOK'
  BY <1>1, <1>2, PhaseFrame DEF Grows
<1>4. /\ file'["active"] = file["active"] /\ file'["backup"] = file["backup"]
      /\ file'["checkpoint"] = NoFile
  BY <1>2 DEF IInv, TypeOK, DiskTypes, FileNames
<1>5. Database' = Database
  <2>1. \A n \in {"active", "backup"} : file[n] # NoFile => data'[file[n]] = data[file[n]]
    BY <1>2, <1>4 DEF Linked, IInv, TypeOK, DiskTypes, FileNames
  <2> QED BY <1>4, <2>1 DEF Database
<1>6. FactoryOK' /\ ChannelsKept' /\ ChannelsOK' /\ ConnsOK'
  BY <1>1, <1>2, <1>5, UnseenStep DEF Started, Complete
<1>7. FilesOK'
  BY <1>2, <1>3, <1>4 DEF IInv, FilesOK, Started, Complete
<1>8. DiskTypes'
  BY <1>2, EmptyTreeFacts DEF IInv, TypeOK, DiskTypes
<1>9. WorkerTypes'
  BY <1>2, <1>3, LogAssumption DEF IInv, TypeOK, WorkerTypes, Phases
<1>10. FlagTypes'
  BY <1>2 DEF IInv, TypeOK, FlagTypes
<1> QED BY <1>3, <1>6, <1>7, <1>8, <1>9, <1>10 DEF IInv, TypeOK

LEMMA CkptCloseLogStep == IInv /\ ckptCloseLog => IInv'
<1> SUFFICES ASSUME IInv, ckptCloseLog PROVE IInv'
  OBVIOUS
<1>1. /\ phase("closeLog", "unlinkBackup") /\ file' = file /\ data' = data /\ log' = NoFile
      /\ left' = left /\ needed' = needed /\ established' = established /\ ioErrors' = ioErrors
      /\ torn' = torn /\ dropped' = dropped
  BY DEF ckptCloseLog, past
<1>2. /\ ckpt = "closeLog" /\ ckpt' = "unlinkBackup" /\ up = "up" /\ up' = "up"
      /\ crashes' = crashes /\ MemoryTypes' /\ MemoryOK'
  BY <1>1, PhaseFrame DEF Grows
<1>3. Database' = Database /\ Checkpoint' = Checkpoint
  BY <1>1 DEF Database, Checkpoint
<1>4. FactoryOK' /\ ChannelsKept' /\ ChannelsOK' /\ ConnsOK'
  <2>1. left = {}
    BY <1>2 DEF IInv, ChannelsOK, Complete
  <2> QED BY <1>1, <1>3, <2>1, UnseenStep DEF Started, Complete
<1>5. FilesOK'
  BY <1>1, <1>2 DEF IInv, FilesOK, Started, Complete
<1>6. DiskTypes' /\ WorkerTypes'
  BY <1>1, <1>2 DEF IInv, TypeOK, DiskTypes, WorkerTypes, Phases
<1>7. FlagTypes'
  BY <1>1 DEF IInv, TypeOK, FlagTypes
<1> QED BY <1>2, <1>4, <1>5, <1>6, <1>7 DEF IInv, TypeOK

(* Renaming keeps the content of what is still linked.                     *)
LEMMA RenameFacts ==
  ASSUME IInv, NEW from, NEW to \in Phases, NEW f \in [FileNames -> Inodes \cup {NoFile}],
         rename(from, to, f), dropped' = dropped
  PROVE  /\ phase(from, to) /\ file' = f /\ log' = log /\ left' = left /\ needed' = needed
         /\ \A n \in FileNames : f[n] # NoFile => data'[f[n]] = data[f[n]]
         /\ ckpt = from /\ ckpt' = to /\ up = "up" /\ up' = "up"
         /\ MemoryTypes' /\ DiskTypes' /\ WorkerTypes' /\ MemoryOK'
<1>1. /\ phase(from, to) /\ file' = f /\ log' = log /\ left' = left /\ needed' = needed
      /\ ioErrors' = ioErrors
      /\ data' = [i \in Inodes |-> IF i \in Linked(f) THEN data[i] ELSE EmptyTree]
  BY DEF rename, links
<1>2. /\ ckpt = from /\ ckpt' = to /\ up = "up" /\ up' = "up" /\ crashes' = crashes
      /\ MemoryTypes' /\ MemoryOK'
  BY <1>1, PhaseFrame DEF Grows
<1>3. \A n \in FileNames : f[n] # NoFile => data'[f[n]] = data[f[n]]
  BY <1>1 DEF Linked
<1>4. DiskTypes' /\ WorkerTypes'
  BY <1>1, <1>2, EmptyTreeFacts DEF IInv, TypeOK, DiskTypes, WorkerTypes
<1> QED BY <1>1, <1>2, <1>3, <1>4

(* The old database becomes the backup, and stays the database.            *)
LEMMA CkptBackupStep == IInv /\ ckptBackup => IInv'
<1> SUFFICES ASSUME IInv, ckptBackup PROVE IInv'
  OBVIOUS
<1>1. /\ established' = established /\ torn' = torn /\ dropped' = dropped
      /\ file \in [FileNames -> Inodes \cup {NoFile}]
  BY DEF ckptBackup, past, IInv, TypeOK, DiskTypes
<1>2. PICK from \in {"unlinkBackup", "linkBackup", "unlinkActive"} :
      \E to \in {"linkBackup", "unlinkActive", "linkActive"},
         f \in [FileNames -> Inodes \cup {NoFile}] :
        /\ rename(from, to, f)
        /\ from = "unlinkBackup" =>
             to = "linkBackup" /\ f = [file EXCEPT !["backup"] = NoFile]
        /\ from = "linkBackup" =>
             to = "unlinkActive" /\ f = [file EXCEPT !["backup"] = file["active"]]
        /\ from = "unlinkActive" =>
             to = "linkActive" /\ f = [file EXCEPT !["active"] = NoFile]
  <2>1. /\ [file EXCEPT !["backup"] = NoFile] \in [FileNames -> Inodes \cup {NoFile}]
        /\ [file EXCEPT !["backup"] = file["active"]] \in [FileNames -> Inodes \cup {NoFile}]
        /\ [file EXCEPT !["active"] = NoFile] \in [FileNames -> Inodes \cup {NoFile}]
    BY <1>1 DEF FileNames
  <2> QED BY <2>1 DEF ckptBackup
<1>3. PICK to \in {"linkBackup", "unlinkActive", "linkActive"},
           f \in [FileNames -> Inodes \cup {NoFile}] :
        /\ rename(from, to, f)
        /\ from = "unlinkBackup" =>
             to = "linkBackup" /\ f = [file EXCEPT !["backup"] = NoFile]
        /\ from = "linkBackup" =>
             to = "unlinkActive" /\ f = [file EXCEPT !["backup"] = file["active"]]
        /\ from = "unlinkActive" =>
             to = "linkActive" /\ f = [file EXCEPT !["active"] = NoFile]
  BY <1>2
<1>4. to \in Phases
  BY DEF Phases
<1>5. /\ phase(from, to) /\ file' = f /\ log' = log /\ left' = left /\ needed' = needed
      /\ \A n \in FileNames : f[n] # NoFile => data'[f[n]] = data[f[n]]
      /\ ckpt = from /\ ckpt' = to /\ up = "up" /\ up' = "up"
      /\ MemoryTypes' /\ DiskTypes' /\ WorkerTypes' /\ MemoryOK'
  BY <1>1, <1>3, <1>4, RenameFacts
<1>6. /\ f["checkpoint"] = file["checkpoint"] /\ f["checkpoint"] # NoFile
      /\ file["active"] # NoFile /\ (~torn => f["checkpoint"] \notin {f["active"], f["backup"]})
      /\ from # "unlinkActive" => f["active"] = file["active"]
      /\ from = "linkBackup" => f["backup"] = f["active"]
      /\ from = "unlinkActive" => f["active"] = NoFile /\ f["backup"] = file["active"]
  BY <1>1, <1>3, <1>5 DEF IInv, FilesOK, FileNames, Started, Complete
<1>7. Database' = Database /\ Checkpoint' = Checkpoint
  BY <1>5, <1>6 DEF Database, Checkpoint, FileNames
<1>8. left = {} /\ from \in Started
  BY <1>5 DEF IInv, ChannelsOK, Started, Complete
<1>9. FactoryOK' /\ ChannelsKept' /\ ChannelsOK' /\ ConnsOK'
  BY <1>1, <1>5, <1>7, <1>8, UnseenStep
<1>10. FilesOK'
  BY <1>1, <1>3, <1>5, <1>6 DEF FilesOK
<1>11. FlagTypes'
  BY <1>1, <1>5 DEF IInv, TypeOK, FlagTypes
<1> QED BY <1>5, <1>9, <1>10, <1>11 DEF IInv, TypeOK

(* The complete checkpoint becomes the database, and loses its old name.   *)
LEMMA CkptActiveStep == IInv /\ ckptActive => IInv'
<1> SUFFICES ASSUME IInv, ckptActive PROVE IInv'
  OBVIOUS
<1>1. file \in [FileNames -> Inodes \cup {NoFile}]
  BY DEF IInv, TypeOK, DiskTypes
<1>2. ASSUME rename("linkActive", "unlinkCheckpoint",
                    [file EXCEPT !["active"] = file["checkpoint"]]),
             established' = TRUE, torn' = FALSE, dropped' = dropped
      PROVE  IInv'
  <2> DEFINE f == [file EXCEPT !["active"] = file["checkpoint"]]
  <2>1. f \in [FileNames -> Inodes \cup {NoFile}] /\ f["active"] = file["checkpoint"]
        /\ f["checkpoint"] = file["checkpoint"]
    BY <1>1 DEF FileNames
  <2>2. rename("linkActive", "unlinkCheckpoint", f) /\ "unlinkCheckpoint" \in Phases
    BY <1>2 DEF Phases
  <2> HIDE DEF f
  <2>3. /\ phase("linkActive", "unlinkCheckpoint") /\ file' = f /\ left' = left
        /\ needed' = needed
        /\ \A n \in FileNames : f[n] # NoFile => data'[f[n]] = data[f[n]]
        /\ ckpt = "linkActive" /\ ckpt' = "unlinkCheckpoint" /\ up = "up" /\ up' = "up"
        /\ MemoryTypes' /\ DiskTypes' /\ WorkerTypes' /\ MemoryOK'
    BY <1>2, <2>1, <2>2, RenameFacts
  <2>4. file["checkpoint"] # NoFile
    BY <2>3 DEF IInv, FilesOK, Started, Complete
  <2>5. Database' = Checkpoint
    BY <2>1, <2>3, <2>4 DEF Database, Checkpoint, FileNames
  <2>6. /\ chan' = chan /\ \A k \in Keys : Standing(k)' => Standing(k)
    BY <1>2, <2>3, PhaseFrame DEF Grows
  <2>7. left = {} /\ ckpt \in Started
    BY <2>3 DEF IInv, ChannelsOK, Started, Complete
  <2>8. FactoryOK'
    BY <2>3, <2>5, <2>7 DEF IInv, FactoryOK, Restorable, Started, Complete
  <2>9. ChannelsKept' /\ ChannelsOK'
    BY <2>3, <2>5, <2>6, <2>7 DEF IInv, ChannelsKept, ChannelsOK, Started, Complete
  <2>10. ConnsOK'
    BY <2>3, <2>5, <2>6, <2>7 DEF IInv, ConnsOK, Started, Complete
  <2>11. FilesOK'
    BY <2>1, <2>3, <2>4 DEF FilesOK, Started, Complete
  <2>12. FlagTypes'
    BY <1>2, <2>3 DEF IInv, TypeOK, FlagTypes
  <2> QED BY <2>3, <2>8, <2>9, <2>10, <2>11, <2>12 DEF IInv, TypeOK
<1>3. ASSUME rename("unlinkCheckpoint", "reopen", [file EXCEPT !["checkpoint"] = NoFile]),
             established' = established, torn' = torn, dropped' = dropped
      PROVE  IInv'
  <2> DEFINE f == [file EXCEPT !["checkpoint"] = NoFile]
  <2>1. f \in [FileNames -> Inodes \cup {NoFile}] /\ f["active"] = file["active"]
        /\ f["checkpoint"] = NoFile
    BY <1>1 DEF FileNames
  <2>2. rename("unlinkCheckpoint", "reopen", f) /\ "reopen" \in Phases
    BY <1>3 DEF Phases
  <2> HIDE DEF f
  <2>3. /\ phase("unlinkCheckpoint", "reopen") /\ file' = f /\ left' = left /\ needed' = needed
        /\ \A n \in FileNames : f[n] # NoFile => data'[f[n]] = data[f[n]]
        /\ ckpt = "unlinkCheckpoint" /\ ckpt' = "reopen" /\ up = "up" /\ up' = "up"
        /\ MemoryTypes' /\ DiskTypes' /\ WorkerTypes' /\ MemoryOK'
    BY <1>3, <2>1, <2>2, RenameFacts
  <2>4. file["active"] # NoFile
    BY <2>3 DEF IInv, FilesOK
  <2>5. Database' = Database
    BY <2>1, <2>3, <2>4 DEF Database, FileNames
  <2>6. FactoryOK' /\ ChannelsKept' /\ ChannelsOK' /\ ConnsOK'
    BY <1>3, <2>3, <2>5, UnseenStep DEF Started, Complete
  <2>7. FilesOK'
    BY <2>1, <2>3, <2>4 DEF FilesOK, Started, Complete
  <2>8. FlagTypes'
    BY <1>3, <2>3 DEF IInv, TypeOK, FlagTypes
  <2> QED BY <2>3, <2>6, <2>7, <2>8 DEF IInv, TypeOK
<1> QED BY <1>2, <1>3 DEF ckptActive, past

LEMMA CkptReopenStep == IInv /\ ckptReopen => IInv'
<1> SUFFICES ASSUME IInv, ckptReopen PROVE IInv'
  OBVIOUS
<1>1. /\ phase("reopen", "wait") /\ log' = file["active"] /\ needed' = FALSE
      /\ file' = file /\ data' = data /\ left' = left /\ established' = established
      /\ torn' = torn /\ dropped' = dropped /\ ioErrors' = ioErrors
  BY DEF ckptReopen, past
<1>2. /\ ckpt = "reopen" /\ ckpt' = "wait" /\ up = "up" /\ up' = "up" /\ crashes' = crashes
      /\ MemoryTypes' /\ MemoryOK'
  BY <1>1, PhaseFrame DEF Grows
<1>3. Database' = Database
  BY <1>1 DEF Database
<1>4. FactoryOK' /\ ChannelsKept' /\ ChannelsOK' /\ ConnsOK'
  BY <1>1, <1>3, UnseenStep DEF Started, Complete
<1>5. FilesOK'
  BY <1>1, <1>2 DEF IInv, FilesOK, Started, Complete
<1>6. DiskTypes' /\ WorkerTypes'
  BY <1>1, <1>2 DEF IInv, TypeOK, DiskTypes, WorkerTypes, Phases, FileNames
<1>7. FlagTypes'
  BY <1>1 DEF IInv, TypeOK, FlagTypes
<1> QED BY <1>2, <1>4, <1>5, <1>6, <1>7 DEF IInv, TypeOK

-----------------------------------------------------------------------------
LEMMA NextIInv ==
  ASSUME IInv, [Next]_vars
  PROVE  IInv'
<1>1. CASE UNCHANGED vars
  <2> USE <1>1 DEF vars, memory, disk, worker, past
  <2>2. Database' = Database /\ Checkpoint' = Checkpoint /\ \A k \in Keys : Standing(k)' = Standing(k)
    BY DEF Database, Checkpoint, Standing
  <2>3. MemoryTypes' /\ DiskTypes' /\ WorkerTypes'
    BY DEF IInv, TypeOK, MemoryTypes, DiskTypes, WorkerTypes
  <2>4. FlagTypes'
    BY DEF IInv, TypeOK, FlagTypes
  <2>5. FilesOK' /\ FactoryOK' /\ MemoryOK' /\ ChannelsKept' /\ ChannelsOK'
    BY <2>2 DEF IInv, FilesOK, FactoryOK, Restorable, MemoryOK, ChannelsKept, ChannelsOK
  <2>6. ConnsOK'
    BY <2>2 DEF IInv, ConnsOK
  <2> QED BY <2>3, <2>4, <2>5, <2>6 DEF IInv, TypeOK
<1>2. CASE startUp \/ renameBackup \/ Crash
  BY <1>2, StartUpStep, RenameBackupStep, CrashStep
<1>3. CASE ckptWorker
  BY <1>3, CkptLockStep, CkptOpenStep, CkptFactoryStep, CkptChannelStep, CkptWrittenStep,
     CkptIOErrorStep, CkptCloseLogStep, CkptBackupStep, CkptActiveStep, CkptReopenStep
     DEF ckptWorker
<1>4. ASSUME NEW c \in Channels, create_object(c) \/ erase(c) \/ channelThread(c)
      PROVE  IInv'
  BY <1>4, ChannelMemoryStep, RecordStep, UnrecordStep DEF channelThread
<1>5. ASSUME NEW k \in Keys, connect(k) \/ eraseKey(k) \/ proxyCall(k)
      PROVE  IInv'
  BY <1>5, ProxyMemoryStep, ConnectRecordStep, EraseKeyStep DEF proxyCall
<1> QED BY <1>1, <1>2, <1>3, <1>4, <1>5 DEF Next

(* The invariant holds always.                                             *)
THEOREM Invariance == Spec => []IInv
<1>1. IInv /\ [Next]_vars => IInv'
  BY NextIInv
<1> QED BY InitIInv, <1>1, PTL DEF Spec

(* omniEventsLog::checkpoint and its renaming: once a checkpoint has been  *)
(* committed, there is at every step a file with a factory to restart      *)
(* from, under the name active or backup, unless the process has died      *)
(* between the last two links and no checkpoint was committed since.       *)
THEOREM DatabaseIsRestorable == Spec => []Restorable
<1>1. IInv => Restorable
  BY DEF IInv, FactoryOK
<1> QED BY Invariance, <1>1, PTL

(* omniEventsLog::checkpoint: at every step, whatever dies or fails and    *)
(* how often, a channel whose thread has recorded it is in the file that a *)
(* restart would read, with the same exception.                            *)
THEOREM ChannelsAreKept == Spec => []ChannelsKept
<1>1. IInv => ChannelsKept
  BY DEF IInv
<1> QED BY Invariance, <1>1, PTL

(* And so is every connection that was made since the start, however many  *)
(* proxies there are, except those that ConsumerAdmin_i::output left out   *)
(* after a push proxy that was being closed.                               *)
THEOREM ConnectionsAreKept == Spec => []ConnectionsKept
<1>1. IInv => ConnectionsKept
  BY DEF IInv, TypeOK, MemoryTypes, ConnsOK, Standing, ConnectionsKept
<1> QED BY Invariance, <1>1, PTL

(* A connection of a pull supplier's proxy, made since the start, is in    *)
(* the file that a restart would read.                                     *)
PullConnectionsKept ==
  ~torn => \A k \in sior :
             k[2] \in PullNames /\ conn[k] = "on" /\ chan[k[1]] = "on" => Database.conns[k] = "ior"

(* ConsumerAdmin_i::output never leaves out a pull supplier's proxy: its   *)
(* connection stays in the database, however many proxies of any kind      *)
(* there are.                                                              *)
THEOREM PullConnectionsAreKept == Spec => []PullConnectionsKept
<1>1. IInv => PullConnectionsKept
  BY LogAssumption DEF IInv, TypeOK, MemoryTypes, ConnsOK, Standing, PullConnectionsKept
<1> QED BY Invariance, <1>1, PTL

-----------------------------------------------------------------------------
(* The server's start and end.                                             *)

(* What the server has told and will tell: a status of 0 is in the pipe,   *)
(* or about to be written, only for a server that has come to runningOk(), *)
(* that an exception has ended, or that has no on_exit().  Before          *)
(* daemonize() nobody is told.                                             *)
ToldOK ==
  \A s \in Servers :
    /\ parentStatus[s] = 0 \/ _pipe[s] = 0 =>
         s \in ready \cup unwound \/ (~onExit /\ end[s] = "exited")
    /\ pc[s] \in {"redirectNull", "running"} => s \in ready
    /\ pc[s] \in {"unlink", "notify"} /\ status[s] = 0 => s \in ready \cup unwound \/ ~onExit
    /\ pc[s] \in {"start", "options", "daemonize"} => ~exitHandler[s]

(* A server on its way to runningOk() has told nothing, and its parent     *)
(* cannot see the end of the pipe; one that was there has told 0.          *)
Early ==
  {"start", "options", "daemonize", "checkPidfile", "openPidfile", "writePidfile", "redirect", "ORB_init",
   "resolveInitialReferences", "incarnateFactory", "bindName2Object", "signals", "runningOk"}
ReadyOK ==
  \A s \in Servers :
    /\ pc[s] \in Early =>
         /\ s \notin ready /\ end[s] = "alive"
         /\ parentStatus[s] = Nobody /\ _pipe[s] = Nobody
         /\ parent[s] \in {"forked", "waiting"} => _haveParent[s]
    /\ s \in ready =>
         /\ ~_haveParent[s] /\ parentStatus[s] \in {0, Nobody}
         /\ parent[s] \in {"forked", "waiting"} => _pipe[s] = 0
    /\ windows => ~_haveParent[s] /\ parent[s] = "none"

(* The SCM believes a service to be up or stopping only while              *)
(* _serviceRunning says so, unless ctrlHandler() was overtaken; and        *)
(* shutdown() has reset that before the process exits.                     *)
ServiceOK ==
  \A s \in Servers :
    /\ serviceStatus[s] \in {"START_PENDING", "RUNNING"} => _serviceRunning[s]
    /\ serviceStatus[s] = "STOP_PENDING" => _serviceRunning[s] \/ s \in overtaken
    /\ ctrl[s] => serviceStatus[s] # "none"
    /\ pc[s] = "exit" \/ (end[s] = "exited" /\ exitHandler[s]) => ~_serviceRunning[s]

(* While no check of the pidfile has overlapped a write: the file has the  *)
(* number of the one server that is alive and has written it, and a server *)
(* that is about to write it is alone.                                     *)
holds(s) == end[s] = "alive" /\ _havePidfile[s]
PidfileOK ==
  unix /\ writable /\ raced = {} =>
    /\ \A s \in Servers : holds(s) => pidfile = s
    /\ \A s \in writing : writing = {s} /\ \A t \in Servers : ~holds(t)

(* The inductive invariant of Server.                                      *)
ServerInv == ServerTypeOK /\ ToldOK /\ ReadyOK /\ ServiceOK /\ PidfileOK

(* A server that starts satisfies the invariant.                           *)
LEMMA InitServerInv == ServerInit => ServerInv
<1> SUFFICES ASSUME ServerInit PROVE ServerInv
  OBVIOUS
<1> USE NobodyAssumption DEF ServerInit, DaemonInit
<1>1. DaemonTypes
  BY DEF DaemonTypes, Steps, Statuses
<1>2. DaemonFlagTypes
  BY DEF DaemonFlagTypes
<1>3. ServerTypeOK
  BY <1>1, <1>2 DEF ServerTypeOK
<1>4. ToldOK
  BY DEF ToldOK
<1>5. ServiceOK /\ ReadyOK
  BY DEF ServiceOK, ReadyOK
<1>6. PidfileOK
  BY DEF PidfileOK, holds, writing, at
<1> QED BY <1>3, <1>4, <1>5, <1>6 DEF ServerInv

(* Most steps of main() go on to the next one, exit or throw.              *)
Onward ==
  {<<"options", "daemonize">>, <<"checkPidfile", "redirect">>, <<"redirect", "ORB_init">>,
   <<"ORB_init", "resolveInitialReferences">>, <<"resolveInitialReferences", "incarnateFactory">>,
   <<"incarnateFactory", "bindName2Object">>, <<"bindName2Object", "signals">>,
   <<"redirectNull", "running">>}

onward(s) ==
  \E p, q : <<p, q>> \in Onward /\ proceed(s, p, q) /\ port' \in Servers \cup {Nobody} /\ UNCHANGED history
leaves(s) == \E p, n : n \in Statuses /\ (n = 0 => p = "options") /\ exits(s, p, n)
raises(s) == \E p : throws(s, p)

(* Those steps, and the ones that do more.                                 *)
LEMMA MainSteps ==
  ASSUME NEW s \in Servers, Main(s), ServerTypeOK
  PROVE  \/ onward(s) \/ leaves(s) \/ raises(s)
         \/ start(s) \/ daemonize(s) \/ checkPidfile(s) \/ pidfileSteps(s)
         \/ setSignals(s) \/ running(s) \/ run(s) \/ unlink(s) \/ finish(s)
<1>0. ASSUME NEW p, NEW q, <<p, q>> \in Onward, proceed(s, p, q), port' \in Servers \cup {Nobody},
             UNCHANGED history
      PROVE  onward(s)
  BY <1>0, Zenon DEF onward
<1>1. ASSUME NEW p, NEW n \in Statuses, n = 0 => p = "options", exits(s, p, n)
      PROVE  leaves(s)
  BY <1>1, Zenon DEF leaves
<1>2. ASSUME NEW p, throws(s, p)
      PROVE  raises(s)
  BY <1>2, Zenon DEF raises
<1>3. port \in Servers \cup {Nobody}
  BY DEF ServerTypeOK
<1> USE DEF Onward, Statuses
<1>4. CASE configure(s)
  BY <1>0, <1>1, <1>3, <1>4 DEF configure
<1>5. CASE checkPidfileFails(s) \/ noPidfile(s)
  BY <1>0, <1>1, <1>3, <1>5 DEF checkPidfileFails, noPidfile
<1>6. CASE redirect(s)
  BY <1>0, <1>1, <1>3, <1>6 DEF redirect
<1>7. CASE ORB_init(s)
  BY <1>0, <1>2, <1>7 DEF ORB_init
<1>8. CASE resolveInitialReferences(s)
  BY <1>0, <1>1, <1>3, <1>8 DEF resolveInitialReferences
<1>9. CASE startFactory(s)
  BY <1>0, <1>2, <1>3, <1>9 DEF startFactory
<1>10. CASE bindName2Object(s)
  BY <1>0, <1>1, <1>3, <1>10 DEF bindName2Object
<1>11. CASE redirectNull(s) \/ runningOkFails(s)
  BY <1>0, <1>1, <1>3, <1>11 DEF redirectNull, runningOkFails
<1> HIDE DEF Onward, Statuses
<1> QED
  BY <1>4, <1>5, <1>6, <1>7, <1>8, <1>9, <1>10, <1>11 DEF Main, LocalSteps, RemoteCalls

(* The parts of the type invariant.                                        *)
LEMMA FlagsStep ==
  ASSUME ServerTypeOK, [ServerNext]_serverVars
  PROVE  DaemonFlagTypes'
<1> USE DEF ServerTypeOK, DaemonTypes, DaemonFlagTypes
<1> USE DEF at, goto, set, daemonRest, unixVars, windowsVars, fixed, history
<1>1. ASSUME NEW s \in Servers, Main(s)
      PROVE  DaemonFlagTypes'
  <2>1. CASE onward(s)
    BY <2>1 DEF onward, proceed
  <2>2. CASE leaves(s)
    BY <2>2 DEF leaves, exits, exit, handlerStatus
  <2>3. CASE raises(s)
    BY <2>3 DEF raises, throws, exitMain
  <2>4. CASE start(s)
    BY <2>4 DEF start, startService, startProgram, startFails, exit, handlerStatus, setServiceStatus
  <2>5. CASE daemonize(s)
    <3>1. UNCHANGED <<signals, _shutdownRequested, _serviceRunning, ctrl, writable, onExit, _havePidfile>>
      BY <2>5 DEF daemonize, fork, forkFails, atexit, handlerStatus
    <3>2. exitHandler' \in [Servers -> BOOLEAN]
      BY <2>5 DEF daemonize, fork, forkFails, atexit, handlerStatus
    <3>3. \/ UNCHANGED <<parentWrites, _haveParent>>
          \/ parentWrites' = set(parentWrites, s, TRUE) /\ _haveParent' = set(_haveParent, s, TRUE)
      BY <2>5 DEF daemonize, fork, forkFails, atexit
    <3>4. parentWrites' \in [Servers -> BOOLEAN] /\ _haveParent' \in [Servers -> BOOLEAN]
      BY <3>3
    <3> QED BY <3>1, <3>2, <3>4
  <2>6. CASE checkPidfile(s)
    BY <2>6 DEF checkPidfile, checkPidfileOrShutdown, exit, handlerStatus
  <2>7. CASE pidfileSteps(s)
    BY <2>7 DEF pidfileSteps, openPidfile, writePidfile
  <2>8. CASE setSignals(s)
    BY <2>8 DEF setSignals
  <2>9. CASE running(s)
    BY <2>9 DEF running, runningOk, serviceRunningOk, notifyParent, setServiceStatus
  <2>10. CASE run(s)
    BY <2>10 DEF run, exitMain
  <2>11. CASE unlink(s)
    BY <2>11 DEF unlink, removePidfile, serviceShutdown, setServiceStatus
  <2>12. CASE finish(s)
    BY <2>12 DEF finish, shutdown, processEnds, notifyParent, forget, releasePort
  <2> QED
    BY <1>1, <2>1, <2>2, <2>3, <2>4, <2>5, <2>6, <2>7, <2>8, <2>9, <2>10, <2>11, <2>12, MainSteps
<1>2. ASSUME NEW s \in Servers, Parent(s)
      PROVE  DaemonFlagTypes'
  BY <1>2 DEF Parent, parentCloses, waitForChild
<1>3. ASSUME NEW s \in Servers, Control(s)
      PROVE  DaemonFlagTypes'
  BY <1>3 DEF Control, ctrlHandler, ctrlHandlerEnd, setServiceStatus
<1>4. ASSUME NEW s \in Servers, kill(s)
      PROVE  DaemonFlagTypes'
  BY <1>4 DEF kill, forget, releasePort
<1>5. ASSUME NEW s \in Servers, killParent(s)
      PROVE  DaemonFlagTypes'
  BY <1>5 DEF killParent
<1>6. ASSUME NEW s \in Servers, terminate(s)
      PROVE  DaemonFlagTypes'
  BY <1>6 DEF terminate
<1>7. CASE administer
  BY <1>7 DEF administer, install, uninstall, writeParameters
<1>8. CASE UNCHANGED serverVars
  BY <1>8 DEF serverVars, daemonVars
<1> QED BY <1>1, <1>2, <1>3, <1>4, <1>5, <1>6, <1>7, <1>8 DEF ServerNext

(* ... and those that are not Boolean.                                     *)
LEMMA TypesStep ==
  ASSUME ServerTypeOK, [ServerNext]_serverVars
  PROVE  DaemonTypes'
<1> USE NobodyAssumption DEF ServerTypeOK, DaemonTypes, DaemonFlagTypes, Steps, Statuses, Onward
<1> USE DEF at, goto, set, daemonRest, unixVars, windowsVars, fixed, history
<1>1. ASSUME NEW s \in Servers, Main(s)
      PROVE  DaemonTypes'
  <2>1. CASE onward(s)
    BY <2>1 DEF onward, proceed
  <2>2. CASE leaves(s)
    BY <2>2 DEF leaves, exits, exit, handlerStatus
  <2>3. CASE raises(s)
    BY <2>3 DEF raises, throws, exitMain
  <2>4. CASE start(s)
    BY <2>4 DEF start, startService, startProgram, startFails, exit, handlerStatus, setServiceStatus
  <2>5. CASE daemonize(s)
    BY <2>5 DEF daemonize, fork, forkFails, atexit, handlerStatus
  <2>6. CASE checkPidfile(s)
    BY <2>6 DEF checkPidfile, checkPidfileOrShutdown, exit, handlerStatus
  <2>7. CASE pidfileSteps(s)
    BY <2>7 DEF pidfileSteps, openPidfile, writePidfile
  <2>8. CASE setSignals(s)
    BY <2>8 DEF setSignals
  <2>9. CASE running(s)
    BY <2>9 DEF running, runningOk, serviceRunningOk, notifyParent, setServiceStatus
  <2>10. CASE run(s)
    BY <2>10 DEF run, exitMain
  <2>11. CASE unlink(s)
    BY <2>11 DEF unlink, removePidfile, serviceShutdown, setServiceStatus
  <2>12. CASE finish(s)
    <3>1. status[s] \in Statuses /\ _pipe' \in [Servers -> Statuses \cup {Nobody}]
      BY <2>12 DEF finish, shutdown, processEnds, notifyParent
    <3>2. pc' \in [Servers -> Steps] /\ end' \in [Servers -> {"alive", "exited", "killed"}]
          /\ status' \in [Servers -> Statuses]
      BY <2>12 DEF finish, shutdown, processEnds, forget
    <3> QED BY <2>12, <3>1, <3>2 DEF finish, shutdown, processEnds
  <2> QED
    BY <1>1, <2>1, <2>2, <2>3, <2>4, <2>5, <2>6, <2>7, <2>8, <2>9, <2>10, <2>11, <2>12, MainSteps
<1>2. ASSUME NEW s \in Servers, Parent(s)
      PROVE  DaemonTypes'
  BY <1>2 DEF Parent, parentCloses, waitForChild
<1>3. ASSUME NEW s \in Servers, Control(s)
      PROVE  DaemonTypes'
  BY <1>3 DEF Control, ctrlHandler, ctrlHandlerEnd, setServiceStatus
<1>4. ASSUME NEW s \in Servers, kill(s)
      PROVE  DaemonTypes'
  BY <1>4 DEF kill, forget, releasePort
<1>5. ASSUME NEW s \in Servers, killParent(s)
      PROVE  DaemonTypes'
  BY <1>5 DEF killParent
<1>6. ASSUME NEW s \in Servers, terminate(s)
      PROVE  DaemonTypes'
  BY <1>6 DEF terminate
<1>7. CASE administer
  BY <1>7 DEF administer, install, uninstall, writeParameters
<1>8. CASE UNCHANGED serverVars
  BY <1>8 DEF serverVars, daemonVars
<1> QED BY <1>1, <1>2, <1>3, <1>4, <1>5, <1>6, <1>7, <1>8 DEF ServerNext

(* Nobody is told 0 for a server that did not come up.                     *)
LEMMA ToldStep ==
  ASSUME ServerTypeOK, ToldOK, [ServerNext]_serverVars
  PROVE  ToldOK'
<1> USE NobodyAssumption DEF ServerTypeOK, DaemonTypes, DaemonFlagTypes, ToldOK, Onward, Statuses
<1> USE DEF at, goto, set, daemonRest, unixVars, windowsVars, fixed, history
<1>1. ASSUME NEW s \in Servers, Main(s)
      PROVE  ToldOK'
  <2>1. CASE onward(s)
    BY <2>1 DEF onward, proceed
  <2>2. CASE leaves(s)
    BY <2>2 DEF leaves, exits, exit, handlerStatus
  <2>3. CASE raises(s)
    BY <2>3 DEF raises, throws, exitMain
  <2>4. CASE start(s)
    BY <2>4 DEF start, startService, startProgram, startFails, exit, handlerStatus, setServiceStatus
  <2>5. CASE daemonize(s)
    BY <2>5 DEF daemonize, fork, forkFails, atexit, handlerStatus
  <2>6. CASE checkPidfile(s)
    BY <2>6 DEF checkPidfile, checkPidfileOrShutdown, exit, handlerStatus
  <2>7. CASE pidfileSteps(s)
    BY <2>7 DEF pidfileSteps, openPidfile, writePidfile
  <2>8. CASE setSignals(s)
    BY <2>8 DEF setSignals
  <2>9. CASE running(s)
    BY <2>9 DEF running, runningOk, serviceRunningOk, notifyParent, setServiceStatus
  <2>10. CASE run(s)
    BY <2>10 DEF run, exitMain
  <2>11. CASE unlink(s)
    BY <2>11 DEF unlink, removePidfile, serviceShutdown, setServiceStatus
  <2>12. CASE finish(s)
    BY <2>12 DEF finish, shutdown, processEnds, notifyParent, forget, releasePort
  <2> QED
    BY <1>1, <2>1, <2>2, <2>3, <2>4, <2>5, <2>6, <2>7, <2>8, <2>9, <2>10, <2>11, <2>12, MainSteps
<1>2. ASSUME NEW s \in Servers, Parent(s)
      PROVE  ToldOK'
  BY <1>2 DEF Parent, parentCloses, waitForChild
<1>3. ASSUME NEW s \in Servers, Control(s)
      PROVE  ToldOK'
  BY <1>3 DEF Control, ctrlHandler, ctrlHandlerEnd, setServiceStatus
<1>4. ASSUME NEW s \in Servers, kill(s)
      PROVE  ToldOK'
  BY <1>4 DEF kill, forget, releasePort
<1>5. ASSUME NEW s \in Servers, killParent(s)
      PROVE  ToldOK'
  BY <1>5 DEF killParent
<1>6. ASSUME NEW s \in Servers, terminate(s)
      PROVE  ToldOK'
  BY <1>6 DEF terminate
<1>7. CASE administer
  BY <1>7 DEF administer, install, uninstall, writeParameters
<1>8. CASE UNCHANGED serverVars
  BY <1>8 DEF serverVars, daemonVars
<1> QED BY <1>1, <1>2, <1>3, <1>4, <1>5, <1>6, <1>7, <1>8 DEF ServerNext

(* Nobody is told of a failure of a server that did come up.               *)
LEMMA ReadyStep ==
  ASSUME ServerTypeOK, ToldOK, ReadyOK, [ServerNext]_serverVars
  PROVE  ReadyOK'
<1> USE NobodyAssumption DEF ServerTypeOK, ToldOK, Early, DaemonTypes, DaemonFlagTypes, ReadyOK, Onward, Statuses
<1> USE DEF unix, windows
<1> USE DEF at, goto, set, daemonRest, unixVars, windowsVars, fixed, history
<1>1. ASSUME NEW s \in Servers, Main(s)
      PROVE  ReadyOK'
  <2>1. CASE onward(s)
    BY <2>1 DEF onward, proceed
  <2>2. CASE leaves(s)
    BY <2>2 DEF leaves, exits, exit, handlerStatus
  <2>3. CASE raises(s)
    BY <2>3 DEF raises, throws, exitMain
  <2>4. CASE start(s)
    BY <2>4 DEF start, startService, startProgram, startFails, exit, handlerStatus, setServiceStatus
  <2>5. CASE daemonize(s)
    BY <2>5 DEF daemonize, fork, forkFails, atexit, handlerStatus
  <2>6. CASE checkPidfile(s)
    BY <2>6 DEF checkPidfile, checkPidfileOrShutdown, exit, handlerStatus
  <2>7. CASE pidfileSteps(s)
    BY <2>7 DEF pidfileSteps, openPidfile, writePidfile
  <2>8. CASE setSignals(s)
    BY <2>8 DEF setSignals
  <2>9. CASE running(s)
    BY <2>9 DEF running, runningOk, serviceRunningOk, notifyParent, setServiceStatus
  <2>10. CASE run(s)
    BY <2>10 DEF run, exitMain
  <2>11. CASE unlink(s)
    BY <2>11 DEF unlink, removePidfile, serviceShutdown, setServiceStatus
  <2>12. CASE finish(s)
    BY <2>12 DEF finish, shutdown, processEnds, notifyParent, forget, releasePort
  <2> QED
    BY <1>1, <2>1, <2>2, <2>3, <2>4, <2>5, <2>6, <2>7, <2>8, <2>9, <2>10, <2>11, <2>12, MainSteps
<1>2. ASSUME NEW s \in Servers, Parent(s)
      PROVE  ReadyOK'
  BY <1>2 DEF Parent, parentCloses, waitForChild, pipeClosed
<1>3. ASSUME NEW s \in Servers, Control(s)
      PROVE  ReadyOK'
  BY <1>3 DEF Control, ctrlHandler, ctrlHandlerEnd, setServiceStatus
<1>4. ASSUME NEW s \in Servers, kill(s)
      PROVE  ReadyOK'
  BY <1>4 DEF kill, forget, releasePort
<1>5. ASSUME NEW s \in Servers, killParent(s)
      PROVE  ReadyOK'
  BY <1>5 DEF killParent
<1>6. ASSUME NEW s \in Servers, terminate(s)
      PROVE  ReadyOK'
  BY <1>6 DEF terminate
<1>7. CASE administer
  BY <1>7 DEF administer, install, uninstall, writeParameters
<1>8. CASE UNCHANGED serverVars
  BY <1>8 DEF serverVars, daemonVars
<1> QED BY <1>1, <1>2, <1>3, <1>4, <1>5, <1>6, <1>7, <1>8 DEF ServerNext

(* The SCM is not left with a service that is gone.                        *)
LEMMA ServiceStep ==
  ASSUME ServerTypeOK, ServiceOK, [ServerNext]_serverVars
  PROVE  ServiceOK'
<1> USE DEF ServerTypeOK, DaemonTypes, DaemonFlagTypes, ServiceOK, Onward
<1> USE DEF at, goto, set, daemonRest, unixVars, windowsVars, fixed, history
<1>1. ASSUME NEW s \in Servers, Main(s)
      PROVE  ServiceOK'
  <2>1. CASE onward(s)
    BY <2>1 DEF onward, proceed
  <2>2. CASE leaves(s)
    BY <2>2 DEF leaves, exits, exit, handlerStatus
  <2>3. CASE raises(s)
    BY <2>3 DEF raises, throws, exitMain
  <2>4. CASE start(s)
    BY <2>4 DEF start, startService, startProgram, startFails, exit, handlerStatus, setServiceStatus
  <2>5. CASE daemonize(s)
    BY <2>5 DEF daemonize, fork, forkFails, atexit, handlerStatus
  <2>6. CASE checkPidfile(s)
    BY <2>6 DEF checkPidfile, checkPidfileOrShutdown, exit, handlerStatus
  <2>7. CASE pidfileSteps(s)
    BY <2>7 DEF pidfileSteps, openPidfile, writePidfile
  <2>8. CASE setSignals(s)
    BY <2>8 DEF setSignals
  <2>9. CASE running(s)
    BY <2>9 DEF running, runningOk, serviceRunningOk, notifyParent, setServiceStatus
  <2>10. CASE run(s)
    BY <2>10 DEF run, exitMain
  <2>11. CASE unlink(s)
    BY <2>11 DEF unlink, removePidfile, serviceShutdown, setServiceStatus
  <2>12. CASE finish(s)
    BY <2>12 DEF finish, shutdown, processEnds, notifyParent, forget, releasePort
  <2> QED
    BY <1>1, <2>1, <2>2, <2>3, <2>4, <2>5, <2>6, <2>7, <2>8, <2>9, <2>10, <2>11, <2>12, MainSteps
<1>2. ASSUME NEW s \in Servers, Parent(s)
      PROVE  ServiceOK'
  BY <1>2 DEF Parent, parentCloses, waitForChild
<1>3. ASSUME NEW s \in Servers, Control(s)
      PROVE  ServiceOK'
  BY <1>3 DEF Control, ctrlHandler, ctrlHandlerEnd, setServiceStatus
<1>4. ASSUME NEW s \in Servers, kill(s)
      PROVE  ServiceOK'
  BY <1>4 DEF kill, forget, releasePort
<1>5. ASSUME NEW s \in Servers, killParent(s)
      PROVE  ServiceOK'
  BY <1>5 DEF killParent
<1>6. ASSUME NEW s \in Servers, terminate(s)
      PROVE  ServiceOK'
  BY <1>6 DEF terminate
<1>7. CASE administer
  BY <1>7 DEF administer, install, uninstall, writeParameters
<1>8. CASE UNCHANGED serverVars
  BY <1>8 DEF serverVars, daemonVars
<1> QED BY <1>1, <1>2, <1>3, <1>4, <1>5, <1>6, <1>7, <1>8 DEF ServerNext

(* Failed starts, kills and exits of others do not touch the pidfile.      *)
LEMMA PidfileStep ==
  ASSUME ServerTypeOK, PidfileOK, [ServerNext]_serverVars
  PROVE  PidfileOK'
<1> USE DEF ServerTypeOK, DaemonTypes, DaemonFlagTypes, PidfileOK, holds, writing, unix, Onward
<1> USE DEF at, goto, set, daemonRest, unixVars, windowsVars, fixed, history
<1>1. ASSUME NEW s \in Servers, Main(s)
      PROVE  PidfileOK'
  <2>1. CASE onward(s)
    BY <2>1 DEF onward, proceed
  <2>2. CASE leaves(s)
    BY <2>2 DEF leaves, exits, exit, handlerStatus
  <2>3. CASE raises(s)
    BY <2>3 DEF raises, throws, exitMain
  <2>4. CASE start(s)
    BY <2>4 DEF start, startService, startProgram, startFails, exit, handlerStatus, setServiceStatus
  <2>5. CASE daemonize(s)
    BY <2>5 DEF daemonize, fork, forkFails, atexit, handlerStatus
  <2>6. CASE checkPidfile(s)
    <3> SUFFICES ASSUME unix', writable', raced' = {}
                 PROVE  PidfileOK'
      BY DEF PidfileOK
    <3>1. unix /\ writable /\ raced = {} /\ writing = {} /\ UNCHANGED <<pidfile, _havePidfile>>
      BY <2>6 DEF checkPidfile, checkPidfileOrShutdown
    <3>2. CASE pidfileIsTaken
      <4>1. \A t \in Servers : end'[t] = "alive" => end[t] = "alive"
        BY <2>6, <3>2 DEF checkPidfile, checkPidfileOrShutdown, exit, handlerStatus
      <4>2. \A t \in Servers : pc'[t] \in {"unlink", "ended", pc[t]}
        BY <2>6, <3>2 DEF checkPidfile, checkPidfileOrShutdown, exit, handlerStatus
      <4>3. writing' = {}
        BY <3>1, <4>1, <4>2
      <4> QED BY <3>1, <4>1, <4>3
    <3>3. CASE ~pidfileIsTaken
      <4>1. \A t \in Servers : ~holds(t)
        BY <3>1, <3>3 DEF pidfileIsTaken
      <4>2. end' = end /\ pc' = [pc EXCEPT ![s] = "openPidfile"]
        BY <2>6, <3>3 DEF checkPidfile, checkPidfileOrShutdown
      <4>3. writing' \subseteq {s}
        BY <3>1, <4>2
      <4> QED BY <3>1, <4>1, <4>2, <4>3
    <3> QED BY <3>2, <3>3
  <2>7. CASE pidfileSteps(s)
    BY <2>7 DEF pidfileSteps, openPidfile, writePidfile
  <2>8. CASE setSignals(s)
    BY <2>8 DEF setSignals
  <2>9. CASE running(s)
    BY <2>9 DEF running, runningOk, serviceRunningOk, notifyParent, setServiceStatus
  <2>10. CASE run(s)
    BY <2>10 DEF run, exitMain
  <2>11. CASE unlink(s)
    BY <2>11 DEF unlink, removePidfile, serviceShutdown, setServiceStatus
  <2>12. CASE finish(s)
    <3>1. end'[s] # "alive" /\ UNCHANGED <<pidfile, platform, writable, raced>>
      BY <2>12 DEF finish, shutdown, processEnds, forget
    <3>2. \A t \in Servers \ {s} : end'[t] = end[t] /\ pc'[t] = pc[t] /\ _havePidfile'[t] = _havePidfile[t]
      BY <2>12 DEF finish, shutdown, processEnds, forget
    <3>3. pc'[s] = "ended"
      BY <2>12 DEF finish, shutdown, processEnds
    <3>4. writing' \subseteq writing /\ \A t \in Servers : holds(t)' => holds(t)
      BY <3>1, <3>2, <3>3
    <3> QED BY <3>1, <3>4
  <2> QED
    BY <1>1, <2>1, <2>2, <2>3, <2>4, <2>5, <2>6, <2>7, <2>8, <2>9, <2>10, <2>11, <2>12, MainSteps
<1>2. ASSUME NEW s \in Servers, Parent(s)
      PROVE  PidfileOK'
  BY <1>2 DEF Parent, parentCloses, waitForChild
<1>3. ASSUME NEW s \in Servers, Control(s)
      PROVE  PidfileOK'
  BY <1>3 DEF Control, ctrlHandler, ctrlHandlerEnd, setServiceStatus
<1>4. ASSUME NEW s \in Servers, kill(s)
      PROVE  PidfileOK'
  BY <1>4 DEF kill, forget, releasePort
<1>5. ASSUME NEW s \in Servers, killParent(s)
      PROVE  PidfileOK'
  BY <1>5 DEF killParent
<1>6. ASSUME NEW s \in Servers, terminate(s)
      PROVE  PidfileOK'
  BY <1>6 DEF terminate
<1>7. CASE administer
  BY <1>7 DEF administer, install, uninstall, writeParameters
<1>8. CASE UNCHANGED serverVars
  BY <1>8 DEF serverVars, daemonVars
<1> QED BY <1>1, <1>2, <1>3, <1>4, <1>5, <1>6, <1>7, <1>8 DEF ServerNext

(* The port and the histories.                                             *)
LEMMA ServerTypeStep ==
  ASSUME ServerTypeOK, [ServerNext]_serverVars
  PROVE  ServerTypeOK'
<1> DEFINE Goal ==
      /\ port' \in Servers \cup {Nobody}
      /\ ready' \subseteq Servers /\ unwound' \subseteq Servers /\ raced' \subseteq Servers
      /\ overtaken' \subseteq Servers
<1>1. ASSUME NEW s \in Servers, Main(s)
      PROVE  Goal
  <2> USE DEF ServerTypeOK, history, fixed
  <2>1. CASE onward(s) \/ leaves(s) \/ raises(s)
    BY <2>1 DEF onward, leaves, raises, proceed, exits, throws
  <2>2. CASE start(s) \/ daemonize(s) \/ checkPidfile(s) \/ pidfileSteps(s)
    BY <2>2 DEF start, daemonize, checkPidfile, pidfileSteps
  <2>3. CASE setSignals(s) \/ running(s) \/ run(s) \/ unlink(s) \/ finish(s)
    BY <2>3 DEF setSignals, running, run, unlink, finish, releasePort
  <2> QED BY <1>1, <2>1, <2>2, <2>3, MainSteps
<1>2. ASSUME NEW s \in Servers, Parent(s) \/ Control(s) \/ kill(s) \/ killParent(s) \/ terminate(s)
      PROVE  Goal
  BY <1>2 DEF Parent, Control, kill, killParent, terminate, releasePort, ServerTypeOK, history
<1>3. ASSUME administer PROVE Goal
  BY <1>3 DEF administer, ServerTypeOK, history
<1>4. ASSUME UNCHANGED serverVars PROVE Goal
  BY <1>4 DEF serverVars, ServerTypeOK, history
<1> HIDE DEF Goal
<1>5. Goal
  BY <1>1, <1>2, <1>3, <1>4 DEF ServerNext
<1> QED BY <1>5, FlagsStep, TypesStep DEF ServerTypeOK, Goal

(* The invariant of Server is inductive.                                   *)
LEMMA ServerInductive == ServerInv /\ [ServerNext]_serverVars => ServerInv'
BY ServerTypeStep, ToldStep, ReadyStep, ServiceStep, PidfileStep DEF ServerInv

LEMMA ServerInvariance == ServerSpec => []ServerInv
BY InitServerInv, ServerInductive, PTL DEF ServerSpec

(* Every variable of main() and of Daemon keeps its type; pc is a step of  *)
(* main() at any time.                                                     *)
THEOREM ServerTypeCorrect == ServerSpec => []ServerTypeOK
<1>1. ServerInv => ServerTypeOK
  BY DEF ServerInv
<1> QED BY <1>1, ServerInvariance, PTL

(* Whatever step of main() fails, and whoever is killed when, the process  *)
(* that waits at the pipe of daemonize() and the SCM are told the truth,   *)
(* but for the exceptions that the property names.                         *)
THEOREM StartersAreTold == ServerSpec => []StarterIsTold
<1>1. ServerInv => ParentIsTold
  BY DEF ServerInv, ToldOK, ReadyOK, ParentIsTold, ToldZeroOfFailure
<1>2. ServerInv => ServiceIsStopped
  BY DEF ServerInv, ServerTypeOK, DaemonTypes, ServiceOK, ServiceIsStopped
<1>3. ServerInv => StarterIsTold
  BY <1>1, <1>2 DEF StarterIsTold
<1> QED BY <1>3, ServerInvariance, PTL

(* However many servers are started, fail, exit and are killed, the        *)
(* pidfile stays with the one that is up, unless a check of it overlapped  *)
(* a write.                                                                *)
THEOREM PidfilesAreKept == ServerSpec => []PidfileIsKept
<1>1. ASSUME ServerInv, NEW s \in ready, unix, writable, at(s, "running"), _havePidfile[s], raced = {}
      PROVE  pidfile = s
  <2>1. s \in Servers
    BY <1>1 DEF ServerInv, ServerTypeOK
  <2> QED BY <1>1, <2>1 DEF ServerInv, PidfileOK, holds, at
<1>2. ServerInv => PidfileIsKept
  BY <1>1 DEF PidfileIsKept
<1> QED BY <1>2, ServerInvariance, PTL
=============================================================================
