------------------------ MODULE EventChannelFactory ------------------------
(***************************************************************************)
(* The factory's channels from their creation to their deletion: POA names *)
(* in the root POA, names in the INSPOA, the store with its mutex, and the *)
(* thread of each channel as far as these are concerned.                   *)
(*                                                                         *)
(* The factory is called by several clients at a time.  A channel is an    *)
(* object; phase says how far it has come.  Its POA is named after the     *)
(* InsName of its criteria or else by a new unique id, so two POAs can     *)
(* only meet in a common InsName.                                          *)
(*                                                                         *)
(* Threads may wait for ever: for hold_requests(1) (EventChannel.tla), for *)
(* the log's mutex or with the store's mutex locked (DeleteAll.tla).  Here *)
(* such a thread becomes "hung", at any time at which it may.              *)
(***************************************************************************)
EXTENDS Integers, FiniteSets, SequencesExt

CONSTANTS
  MaxChannels,  \* bound on the channels ever made
  UlongBits,    \* width of CORBA::ULong, 32
  Names,        \* InsNames that clients ask for
  FactoryName,  \* "omniEvents", the factory's own name in the INSPOA
  NoName,       \* criteria without InsName
  Clients,      \* callers of the factory
  Nobody        \* no caller, no channel

Channels == 1 .. MaxChannels

ASSUME MaxChannelsAssumption == MaxChannels \in Nat \ {0}
ASSUME UlongBitsAssumption == UlongBits \in 1 .. 32
ASSUME NamesAssumption == FactoryName \in Names /\ NoName \notin Names
ASSUME NobodyAssumption == Nobody \notin Clients /\ Nobody \notin Channels

VARIABLES
  phase,               \* of each channel
  _attr,               \* of each channel: its attributes
  _shutdownRequested,  \* of each channel
  inspoa,              \* the INSPOA: what each name stands for
  _channels,           \* the store
  storeLock,           \* who holds the store's mutex for longer than a step
  todo,                \* the channels that the holder has still to visit
  hung                 \* channels and callers whose threads wait for ever

channelVars == <<phase, _attr, _shutdownRequested, inspoa>>
storeVars == <<_channels, storeLock, todo, hung>>
factoryVars == <<channelVars, storeVars>>

Phases == {"none", "poa", "started", "stored", "erased", "poaGone", "deleted", "wrecked"}

insName(c) == IF "InsName" \in DOMAIN _attr[c] THEN _attr[c]["InsName"] ELSE NoName

FactoryTypeOK ==
  /\ phase \in [Channels -> Phases]
  /\ \A c \in Channels : insName(c) \in Names \cup {NoName}
  /\ _shutdownRequested \in [Channels -> BOOLEAN]
  /\ inspoa \in [Names -> Channels \cup {Nobody, FactoryName}]
  /\ _channels \subseteq Channels
  /\ storeLock \in Clients \cup {Nobody}
  /\ todo \subseteq Channels
  /\ hung \subseteq Channels \cup Clients

\* The server is up, and has restored one channel, with or without InsName.
FactoryInit ==
  /\ phase = [c \in Channels |-> IF c = 1 THEN "stored" ELSE "none"]
  /\ \E n \in {NoName} \cup (Names \ {FactoryName}) :
       /\ _attr = [c \in Channels |-> IF c = 1 /\ n # NoName THEN [InsName |-> n] ELSE <<>>]
       /\ inspoa = [m \in Names |-> IF m = FactoryName THEN FactoryName ELSE IF m = n THEN 1 ELSE Nobody]
  /\ _shutdownRequested = [c \in Channels |-> FALSE]
  /\ _channels = {1}
  /\ storeLock = Nobody
  /\ todo = {}
  /\ hung = {}

minimum(S) == CHOOSE x \in S : \A y \in S : x <= y

---------------------------------------------------------------------------
\* create_object().

unmade == {c \in Channels : phase[c] = "none"}

Criterion == {"PullRetryPeriod_ms", "PullRetryPeriod", "MaxQueueLength", "MaxNumProxies",
  "CyclePeriod_ns", "InsName", "FilterId"}

\* addattr() formats a long with "%i": what the text says is an int.
asInt(v) == IF v >= 2^(UlongBits - 1) THEN v - 2^UlongBits ELSE v

addattr(result, key, v) == [result EXCEPT !.attr = [k \in DOMAIN @ \cup {key} |-> IF k = key THEN v ELSE @[k]]]

ignored(result, c) ==
  \/ c.name \notin Criterion
  \/ c.name = "PullRetryPeriod" /\ "PullRetryPeriod_ms" \in DOMAIN result.attr

(***************************************************************************)
(* One round of parseCriteria().  A criterion has a name, a value and      *)
(* whether the value is of the type that the name asks for.  Seconds are   *)
(* turned into milliseconds in the width of CORBA::ULong.                  *)
(***************************************************************************)
parseOne(result, c) ==
  CASE result.error # "none" \/ ignored(result, c) -> result
    [] ~c.typed -> [result EXCEPT !.error = "InvalidCriteria"]
    [] c.name \in {"PullRetryPeriod_ms", "PullRetryPeriod"} /\ c.value = 0 ->
         [result EXCEPT !.error = "CannotMeetCriteria"]
    [] c.name = "PullRetryPeriod" ->
         addattr(result, "PullRetryPeriod_ms", asInt((c.value * 1000) % 2^UlongBits))
    [] c.value \in {0, NoName} -> result
    [] c.name \in {"InsName", "FilterId"} -> addattr(result, c.name, c.value)
    [] OTHER -> addattr(result, c.name, asInt(c.value))

parseCriteria(criteria) == FoldLeft(parseOne, [error |-> "none", attr |-> <<>>], criteria)

\* Does some POA have this name?  It has it from create_POA to destroy.
poaExists(n) ==
  \E c \in Channels : insName(c) = n /\ phase[c] \in {"poa", "started", "stored", "erased", "wrecked"}

\* createPoa() raises AdapterAlreadyExists.
adapterAlreadyExists(attr) == "InsName" \in DOMAIN attr /\ poaExists(attr["InsName"])

createPoa(c, attr) ==
  /\ phase[c] = "none"
  /\ phase' = [phase EXCEPT ![c] = "poa"]
  /\ _attr' = [_attr EXCEPT ![c] = attr]
  /\ UNCHANGED <<_shutdownRequested, inspoa, storeVars>>

\* setInsName(): the Mapper is activated, and the channel's thread started.
setInsName(c) ==
  /\ phase[c] = "poa"
  /\ insName(c) # NoName => inspoa[insName(c)] = Nobody
  /\ inspoa' = IF insName(c) = NoName THEN inspoa ELSE [inspoa EXCEPT ![insName(c)] = c]
  /\ phase' = [phase EXCEPT ![c] = "started"]
  /\ UNCHANGED <<_attr, _shutdownRequested, storeVars>>

\* ObjectAlreadyActive: auto_ptr deletes a channel that its POA refers to.
setInsNameRaises(c) ==
  /\ phase[c] = "poa"
  /\ insName(c) # NoName
  /\ inspoa[insName(c)] # Nobody
  /\ phase' = [phase EXCEPT ![c] = "wrecked"]
  /\ UNCHANGED <<_attr, _shutdownRequested, inspoa, storeVars>>

---------------------------------------------------------------------------
\* The thread of a channel, run_undetached().

storeFree == storeLock = Nobody

storeInsert(c) ==
  /\ phase[c] = "started"
  /\ storeFree
  /\ phase' = [phase EXCEPT ![c] = "stored"]
  /\ _channels' = _channels \cup {c}
  /\ UNCHANGED <<_attr, _shutdownRequested, inspoa, storeLock, todo, hung>>

\* Mutant: the store is changed without its mutex.
storeEraseNoLock(c) ==
  /\ phase[c] = "stored"
  /\ _shutdownRequested[c]
  /\ c \notin hung
  /\ phase' = [phase EXCEPT ![c] = "erased"]
  /\ _channels' = _channels \ {c}
  /\ UNCHANGED <<_attr, _shutdownRequested, inspoa, storeLock, todo, hung>>

\* The main loop of a destroyed channel, or its record, waits for ever:
\* hold_requests(1) for a destroy() that is held, or the log's mutex for a
\* thread that keeps it.
hang(c) ==
  /\ phase[c] \in {"stored", "erased"}
  /\ _shutdownRequested[c]
  /\ c \notin hung
  /\ hung' = hung \cup {c}
  /\ UNCHANGED <<channelVars, _channels, storeLock, todo>>

\* The main loop has ended.
storeErase(c) ==
  /\ phase[c] = "stored"
  /\ _shutdownRequested[c]
  /\ c \notin hung
  /\ storeFree
  /\ phase' = [phase EXCEPT ![c] = "erased"]
  /\ _channels' = _channels \ {c}
  /\ UNCHANGED <<_attr, _shutdownRequested, inspoa, storeLock, todo, hung>>

\* The record of the channel is removed from the log, and the POA destroyed.
destroyPoa(c) ==
  /\ phase[c] = "erased"
  /\ c \notin hung
  /\ phase' = [phase EXCEPT ![c] = "poaGone"]
  /\ UNCHANGED <<_attr, _shutdownRequested, inspoa, storeVars>>

\* Mutant: the mapper is left in the INSPOA.
deleteChannelKeepMapper(c) ==
  /\ phase[c] = "poaGone"
  /\ phase' = [phase EXCEPT ![c] = "deleted"]
  /\ UNCHANGED <<_attr, _shutdownRequested, inspoa, storeVars>>

\* ~EventChannel_i(), when the POA has let go of it: the mapper goes too.
deleteChannel(c) ==
  /\ phase[c] = "poaGone"
  /\ phase' = [phase EXCEPT ![c] = "deleted"]
  /\ inspoa' = [n \in Names |-> IF inspoa[n] = c THEN Nobody ELSE inspoa[n]]
  /\ UNCHANGED <<_attr, _shutdownRequested, storeVars>>

channelThread(c) == storeInsert(c) \/ storeErase(c) \/ destroyPoa(c) \/ deleteChannel(c)

---------------------------------------------------------------------------
\* Calls to a channel, and delete_all().

\* The main loop lets calls in; a channel that is being destroyed refuses.
responds(c) == phase[c] = "stored" /\ ~_shutdownRequested[c]

\* OBJECT_NOT_EXIST, from the channel or from the root POA.
refuses(c) == _shutdownRequested[c]

\* join_channel(), get_channel(), a corbaloc URI: the name's Mapper forwards.
joins(n) == inspoa[n] \in Channels

destroy(c) ==
  /\ responds(c)
  /\ _shutdownRequested' = [_shutdownRequested EXCEPT ![c] = TRUE]
  /\ UNCHANGED <<phase, _attr, inspoa, storeVars>>

\* EventChannelStore::empty() locks the store for as long as it takes.
emptyStart(t) ==
  /\ storeFree
  /\ storeLock' = t
  /\ todo' = _channels
  /\ UNCHANGED <<channelVars, _channels, hung>>

\* A destroy() among its calls waits for ever, and the store stays locked.
emptyHangs(t) ==
  /\ storeLock = t
  /\ t \notin hung
  /\ hung' = hung \cup {t}
  /\ UNCHANGED <<channelVars, _channels, storeLock, todo>>

emptyOne(t) ==
  /\ storeLock = t
  /\ t \notin hung
  /\ todo # {}
  /\ ~_shutdownRequested[minimum(todo)]
  /\ _shutdownRequested' = [_shutdownRequested EXCEPT ![minimum(todo)] = TRUE]
  /\ todo' = todo \ {minimum(todo)}
  /\ UNCHANGED <<phase, _attr, inspoa, _channels, storeLock, hung>>

\* destroy() raises OBJECT_NOT_EXIST: the other channels are not visited.
emptyRaises(t) ==
  /\ storeLock = t
  /\ t \notin hung
  /\ todo # {}
  /\ _shutdownRequested[minimum(todo)]
  /\ storeLock' = Nobody
  /\ todo' = {}
  /\ UNCHANGED <<channelVars, _channels, hung>>

emptyEnd(t) ==
  /\ storeLock = t
  /\ t \notin hung
  /\ todo = {}
  /\ storeLock' = Nobody
  /\ UNCHANGED <<channelVars, _channels, todo, hung>>

(***************************************************************************)
(* list(): the length of the list is the size of the store before the lock *)
(* was taken.  Channels beyond it are left out, in the order of addresses, *)
(* which is any order; a store that has shrunk leaves empty entries.       *)
(***************************************************************************)
listed(size) ==
  IF Cardinality(_channels) <= size
  THEN {_channels}
  ELSE {S \in SUBSET _channels : Cardinality(S) = size}

=============================================================================
