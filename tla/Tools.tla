------------------------------- MODULE Tools -------------------------------
(***************************************************************************)
(* The command line tools against one server and one naming service:       *)
(* eventc, rmeventc, rmeventall, eventl, and a program that uses the       *)
(* iterator of list_channels() to its end ("browse").  They run at the     *)
(* same time, one after the other in each client.  Nothing makes a tool go *)
(* on to its next call: it may be interrupted between two.                 *)
(*                                                                         *)
(* The naming service is external: bind, rebind, resolve and unbind are    *)
(* atomic.  pc of a tool names the call that it is going to make.          *)
(***************************************************************************)
EXTENDS EventChannelFactory, IteratorSupport

CONSTANTS
  EventChannelName,  \* "EventChannel", the default name of a channel
  MaxRuns            \* bound on the tools ever run

ASSUME MaxRunsAssumption == MaxRuns \in Nat /\ Iterators = 1 .. MaxRuns

NsNames == (Names \ {FactoryName}) \cup {EventChannelName}

VARIABLES
  names,     \* the naming service: what each name is bound to
  tool,      \* the tool that each client runs
  runs,      \* how many have been started
  bypassed   \* history: channels destroyed other than by name

toolVars == <<names, tool, runs, bypassed>>
vars == <<factoryVars, iterVars, toolVars>>

Idle == [kind |-> "none", pc |-> "idle", name |-> NoName, channel |-> Nobody,
  attr |-> <<>>, size |-> 0, iter |-> Nobody]

Kinds == {"eventc", "rmeventc", "rmeventall", "eventl", "browse"}

ToolsTypeOK ==
  /\ names \in [NsNames -> Channels \cup {Nobody}]
  /\ \A t \in Clients :
       /\ tool[t].kind \in Kinds \cup {"none"}
       /\ tool[t].name \in Names \cup NsNames \cup {NoName}
       /\ tool[t].channel \in Channels \cup {Nobody}
       /\ tool[t].size \in 0 .. MaxChannels
       /\ tool[t].iter \in Iterators \cup {Nobody}
  /\ runs \in 0 .. MaxRuns
  /\ bypassed \subseteq Channels

TypeOK == FactoryTypeOK /\ IterTypeOK /\ ToolsTypeOK

Init ==
  /\ FactoryInit
  /\ IterInit
  /\ names = [n \in NsNames |-> IF n = EventChannelName THEN 1 ELSE Nobody]
  /\ tool = [t \in Clients |-> Idle]
  /\ runs = 0
  /\ bypassed = {}

pc(t, p) == tool[t].pc = p
goto(t, p) == tool' = [tool EXCEPT ![t].pc = p]
finish(t) == tool' = [tool EXCEPT ![t] = Idle]
is(t, kind) == tool[t].kind = kind

\* A call that does not concern the factory, the iterators or the names.
begin(t, new) ==
  /\ pc(t, "idle")
  /\ runs < MaxRuns
  /\ runs' = runs + 1
  /\ tool' = [tool EXCEPT ![t] = new]
  /\ UNCHANGED <<factoryVars, iterVars, names, bypassed>>

---------------------------------------------------------------------------
\* eventc [-n name] [-i InsName] [-r seconds] ...

\* appendCriterion(), appendCriterionStr().
appendCriterion(criteria, name, v) == Append(criteria, [name |-> name, value |-> v, typed |-> TRUE])

\* The options that are tried: none, -i, an -i of the factory's name, -r 0.
criteriaAsked ==
  {<<>>, appendCriterion(<<>>, "PullRetryPeriod", 0)}
    \cup {appendCriterion(appendCriterion(<<>>, "PullRetryPeriod", 1), "InsName", n) : n \in Names}

eventc(t) ==
  \E n \in NsNames \cup {NoName}, criteria \in criteriaAsked :
    LET parsed == parseCriteria(criteria)
    IN  begin(t, IF parsed.error = "none"
                 THEN [Idle EXCEPT !.kind = "eventc", !.pc = "create_object", !.name = n, !.attr = parsed.attr]
                 ELSE Idle)

createObject(t) ==
  /\ pc(t, "create_object")
  /\ unmade # {}
  /\ LET c == minimum(unmade)
     IN  /\ ~adapterAlreadyExists(tool[t].attr)
         /\ createPoa(c, tool[t].attr)
         /\ tool' = [tool EXCEPT ![t].channel = c, ![t].pc = "setInsName", ![t].attr = <<>>]
  /\ UNCHANGED <<iterVars, names, runs, bypassed>>

createObjectRaises(t) ==
  /\ pc(t, "create_object")
  /\ adapterAlreadyExists(tool[t].attr)
  /\ finish(t)
  /\ UNCHANGED <<factoryVars, iterVars, names, runs, bypassed>>

\* The rest of create_object().  Without a naming service, that is all.
createObjectEnd(t) ==
  /\ pc(t, "setInsName")
  /\ setInsName(tool[t].channel)
  /\ IF tool[t].name = NoName THEN finish(t) ELSE goto(t, "bind")
  /\ UNCHANGED <<iterVars, names, runs, bypassed>>

createObjectEndRaises(t) ==
  /\ pc(t, "setInsName")
  /\ setInsNameRaises(tool[t].channel)
  /\ finish(t)
  /\ UNCHANGED <<iterVars, names, runs, bypassed>>

bind(t) ==
  /\ pc(t, "bind")
  /\ IF names[tool[t].name] = Nobody
     THEN names' = [names EXCEPT ![tool[t].name] = tool[t].channel] /\ finish(t)
     ELSE UNCHANGED names /\ goto(t, "rebind")
  /\ UNCHANGED <<factoryVars, iterVars, runs, bypassed>>

rebind(t) ==
  /\ pc(t, "rebind")
  /\ names' = [names EXCEPT ![tool[t].name] = tool[t].channel]
  /\ finish(t)
  /\ UNCHANGED <<factoryVars, iterVars, runs, bypassed>>

---------------------------------------------------------------------------
\* rmeventc [-n name], rmeventc corbaloc::host:port/InsName.

rmeventc(t) ==
  \/ \E n \in NsNames : begin(t, [Idle EXCEPT !.kind = "rmeventc", !.pc = "resolve", !.name = n])
  \/ \E n \in Names : begin(t, [Idle EXCEPT !.kind = "rmeventc", !.pc = "string_to_object", !.name = n])

resolve(t) ==
  /\ pc(t, "resolve")
  /\ IF names[tool[t].name] = Nobody
     THEN finish(t)
     ELSE tool' = [tool EXCEPT ![t].channel = names[tool[t].name], ![t].pc = "unbind"]
  /\ UNCHANGED <<factoryVars, iterVars, names, runs, bypassed>>

\* Mutant: the channel is destroyed before its name is unbound.
unbindLater(t) ==
  /\ pc(t, "unbind")
  /\ goto(t, "destroy")
  /\ UNCHANGED <<factoryVars, iterVars, names, runs, bypassed>>

\* NotFound if somebody else has unbound the name meanwhile.
unbind(t) ==
  /\ pc(t, "unbind")
  /\ IF names[tool[t].name] = Nobody
     THEN finish(t) /\ UNCHANGED names
     ELSE goto(t, "destroy") /\ names' = [names EXCEPT ![tool[t].name] = Nobody]
  /\ UNCHANGED <<factoryVars, iterVars, runs, bypassed>>

\* The URI names a Mapper, or nothing, or the factory (a nil channel).
stringToObject(t) ==
  /\ pc(t, "string_to_object")
  /\ IF joins(tool[t].name)
     THEN tool' = [tool EXCEPT ![t].channel = inspoa[tool[t].name], ![t].pc = "destroyUri"]
     ELSE finish(t)
  /\ UNCHANGED <<factoryVars, iterVars, names, runs, bypassed>>

\* A call that comes before the channel's main loop waits for it.
destroyChannel(t) ==
  /\ pc(t, "destroy") \/ pc(t, "destroyUri")
  /\ \/ /\ destroy(tool[t].channel)
        /\ bypassed' = IF pc(t, "destroyUri") THEN bypassed \cup {tool[t].channel} ELSE bypassed
     \/ refuses(tool[t].channel) /\ UNCHANGED <<factoryVars, bypassed>>
  /\ finish(t)
  /\ UNCHANGED <<iterVars, names, runs>>

---------------------------------------------------------------------------
\* rmeventall [-n], eventl, and list_channels() of the factory.

\* A tool lists the channels once: its iterator has the number of the run.
listing(kind) == [Idle EXCEPT !.kind = kind, !.pc = "list_channels", !.iter = runs + 1]

rmeventall(t) ==
  \/ begin(t, listing("rmeventall"))
  \/ begin(t, [Idle EXCEPT !.kind = "rmeventall", !.pc = "delete_all"])

eventl(t) == begin(t, listing("eventl"))

browse(t) == begin(t, listing("browse"))

\* What the tool does when it is through with the list, or has failed in it.
listDone(t) == IF is(t, "rmeventall") THEN goto(t, "delete_all") ELSE finish(t)

\* list_channels() first takes the size of the store.
listSize(t) ==
  /\ pc(t, "list_channels")
  /\ tool' = [tool EXCEPT ![t].size = Cardinality(_channels), ![t].pc = "list"]
  /\ UNCHANGED <<factoryVars, iterVars, names, runs, bypassed>>

\* A list of that size, its first entries filled in.
asList(S, size) ==
  LET filled == SetToSortSeq(S, <)
  IN  [k \in 1 .. size |-> IF k <= Len(filled) THEN filled[k] ELSE Nobody]

\* how_many of the tools is 0; "browse" asks for one.
listCopy(t) ==
  /\ pc(t, "list")
  /\ storeFree
  /\ \E S \in listed(tool[t].size) :
       LET items    == asList(S, tool[t].size)
           how_many == IF is(t, "browse") THEN 1 ELSE 0
       IN  IF fits(how_many, items)
           THEN listDone(t) /\ UNCHANGED iterVars
           ELSE /\ activateGCObject(tool[t].iter, how_many, items)
                /\ tool' = [tool EXCEPT ![t].size = 0, ![t].pc = "next"]
  /\ UNCHANGED <<factoryVars, names, runs, bypassed>>

\* next_one() arrives at the server; "browse" calls next_n() or destroy().
nextCall(t) ==
  /\ pc(t, "next")
  /\ IF notExist(tool[t].iter)
     THEN listDone(t) /\ UNCHANGED iterVars
     ELSE preinvoke(tool[t].iter) /\ goto(t, "nextReturn")
  /\ UNCHANGED <<factoryVars, names, runs, bypassed>>

nextReturn(t) ==
  LET i == tool[t].iter
  IN  /\ pc(t, "nextReturn")
      /\ next_n(i, IF is(t, "browse") THEN 2 ELSE 1)
      /\ CASE atEnd(i) -> listDone(t)
           [] ~atEnd(i) /\ is(t, "rmeventall") ->
                tool' = [tool EXCEPT ![t].channel = Head(list_[i]), ![t].pc = "unbindItem"]
           [] OTHER -> goto(t, "next")
      /\ UNCHANGED <<factoryVars, names, runs, bypassed>>

\* The name is that of the channel's POA.  Every exception is ignored.
unbindItem(t) ==
  LET c == tool[t].channel
  IN  /\ pc(t, "unbindItem")
      /\ names' = [n \in NsNames |-> IF c # Nobody /\ n = insName(c) THEN Nobody ELSE names[n]]
      /\ tool' = [tool EXCEPT ![t].channel = Nobody, ![t].pc = "next"]
      /\ UNCHANGED <<factoryVars, iterVars, runs, bypassed>>

iterDestroy(t) ==
  /\ pc(t, "next")
  /\ is(t, "browse")
  /\ IF notExist(tool[t].iter)
     THEN finish(t) /\ UNCHANGED iterVars
     ELSE preinvokeDestroy(tool[t].iter) /\ goto(t, "destroyReturn")
  /\ UNCHANGED <<factoryVars, names, runs, bypassed>>

iterDestroyReturn(t) ==
  /\ pc(t, "destroyReturn")
  /\ iterDestroyed(tool[t].iter)
  /\ finish(t)
  /\ UNCHANGED <<factoryVars, names, runs, bypassed>>

deleteAll(t) ==
  /\ pc(t, "delete_all")
  /\ emptyStart(t)
  /\ tool' = [tool EXCEPT ![t] = [Idle EXCEPT !.kind = "rmeventall", !.pc = "empty"]]
  /\ UNCHANGED <<iterVars, names, runs, bypassed>>

deleteOne(t) ==
  /\ pc(t, "empty")
  /\ emptyOne(t)
  /\ bypassed' = bypassed \cup {minimum(todo)}
  /\ UNCHANGED <<iterVars, names, tool, runs>>

deleteAllEnd(t) ==
  /\ pc(t, "empty")
  /\ emptyEnd(t) \/ emptyRaises(t)
  /\ finish(t)
  /\ UNCHANGED <<iterVars, names, runs, bypassed>>

---------------------------------------------------------------------------
ToolStarts(t) == eventc(t) \/ rmeventc(t) \/ rmeventall(t) \/ eventl(t) \/ browse(t)

ToolCalls(t) ==
  \/ createObject(t) \/ createObjectRaises(t) \/ bind(t) \/ rebind(t)
  \/ resolve(t) \/ unbind(t) \/ stringToObject(t) \/ destroyChannel(t)
  \/ listSize(t) \/ nextCall(t) \/ unbindItem(t) \/ iterDestroy(t) \/ deleteAll(t)

\* The server goes on with a call that has reached it.
ServerStep(t) ==
  \/ createObjectEnd(t) \/ createObjectEndRaises(t) \/ listCopy(t)
  \/ nextReturn(t) \/ iterDestroyReturn(t) \/ deleteOne(t) \/ deleteAllEnd(t)

ChannelStep(c) == channelThread(c) /\ UNCHANGED <<iterVars, toolVars>>
ChannelHangs(c) == hang(c) /\ UNCHANGED <<iterVars, toolVars>>
DeleteAllHangs(t) == emptyHangs(t) /\ UNCHANGED <<iterVars, toolVars>>
Sweep(i) == sweep(i) /\ UNCHANGED <<factoryVars, toolVars>>
Time == Tick /\ UNCHANGED <<factoryVars, toolVars>>

Next ==
  \/ \E t \in Clients : ToolStarts(t) \/ ToolCalls(t) \/ ServerStep(t) \/ DeleteAllHangs(t)
  \/ \E c \in Channels : ChannelStep(c) \/ ChannelHangs(c)
  \/ \E i \in Iterators : Sweep(i)
  \/ Time

\* The server's threads run unless they hang, and the GC thread wakes up
\* every second.
Fairness ==
  /\ \A t \in Clients : WF_vars(ServerStep(t))
  /\ \A c \in Channels : SF_vars(ChannelStep(c))
  /\ \A i \in Iterators : WF_vars(Sweep(i))
  /\ WF_vars(Time)

Spec == Init /\ [][Next]_vars /\ Fairness

---------------------------------------------------------------------------
(***************************************************************************)
(* Whoever goes through the store with its mutex finds channels that have  *)
(* not been deleted: delete_all() while clients destroy the same channels. *)
(***************************************************************************)
StoreIsAlive == \A c \in _channels \cup todo : phase[c] \in {"started", "stored", "erased"}

(***************************************************************************)
(* A name in the naming service leads to a channel that was destroyed only *)
(* if it was destroyed behind the naming service's back: rmeventc, eventc  *)
(* and their interruptions, at the same time, leave no such name behind.   *)
(***************************************************************************)
NamesAreAlive ==
  \A n \in NsNames : names[n] # Nobody /\ _shutdownRequested[names[n]] => names[n] \in bypassed

(***************************************************************************)
(* A channel that is destroyed goes away in the end, from the store, from  *)
(* the root POA and from the INSPOA, whoever else creates, lists or        *)
(* destroys channels.  Two exceptions: its own thread hangs (the runs      *)
(* channel_destroy and delete_all show how), or a delete_all() hangs with  *)
(* the store locked.                                                       *)
(***************************************************************************)
DestroyedNameIsFree ==
  \A c \in Channels :
    _shutdownRequested[c] ~>
      \/ phase[c] = "deleted" /\ \A n \in Names : inspoa[n] # c
      \/ c \in hung \/ storeLock \in hung

=============================================================================
