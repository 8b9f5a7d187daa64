----------------------------- MODULE ToolsProofs -----------------------------
(***************************************************************************)
(* Proofs about the command line tools for every number of clients, tools, *)
(* channels, names and iterators, and every time to live.                  *)
(*                                                                         *)
(* The argument.  The store holds the channels whose thread is in its main *)
(* loop, and they leave it with its mutex only: whoever goes through the   *)
(* store with the mutex finds them alive.  An iterator belongs to one run  *)
(* of one tool, which makes one call at a time: its references are that of *)
(* the map and that of the call.  A channel gets one name, from the tool   *)
(* that has made it, and loses it before the tool that looked it up under  *)
(* that name destroys it.                                                  *)
(***************************************************************************)
EXTENDS Tools, FiniteSetTheorems, WellFoundedInduction, TLAPS

(* A set of channels that is not empty has a first one.                    *)
LEMMA MinimumFacts ==
  ASSUME NEW S \in SUBSET Channels, S # {}
  PROVE  minimum(S) \in S
<1>1. S \subseteq Nat
  BY MaxChannelsAssumption DEF Channels
<1>2. PICK x \in S : \A y \in S : <<y, x>> \notin OpToRel(<, Nat)
  BY <1>1, NatLessThanWellFounded, WFMin
<1>3. \A y \in S : ~ (y < x)
  BY <1>1, <1>2 DEF OpToRel
<1>4. \A y \in S : x <= y
  BY <1>1, <1>3
<1> QED BY <1>4 DEF minimum

-----------------------------------------------------------------------------
(* The store.  Channels that are in it are in their main loop, and what    *)
(* empty() has still to visit is in the store.                             *)
StoreOK ==
  /\ phase \in [Channels -> Phases] /\ _channels \subseteq Channels
  /\ \A c \in _channels : phase[c] = "stored"
  /\ todo \subseteq _channels
  /\ storeLock = Nobody => todo = {}

LEMMA StoreInit == Init => StoreOK
<1>1. 1 \in Channels
  BY MaxChannelsAssumption DEF Channels
<1> QED BY <1>1 DEF Init, FactoryInit, StoreOK, Phases

(* What the factory's operations do to the store and to the channels.      *)
LEMMA ChannelStepStore ==
  ASSUME StoreOK, NEW c \in Channels,
         \/ channelThread(c) \/ setInsName(c) \/ setInsNameRaises(c)
         \/ \E attr : createPoa(c, attr)
  PROVE  StoreOK' /\ (\A d \in Channels : phase[d] # "none" => phase'[d] # "none")
<1> USE DEF StoreOK
<1>1. CASE storeInsert(c)
  BY <1>1 DEF storeInsert, Phases
<1>2. CASE storeErase(c)
  BY <1>2 DEF storeErase, storeFree, Phases
<1>3. CASE destroyPoa(c)
  BY <1>3 DEF destroyPoa, storeVars, Phases
<1>4. CASE deleteChannel(c)
  BY <1>4 DEF deleteChannel, storeVars, Phases
<1>5. CASE setInsName(c)
  BY <1>5 DEF setInsName, storeVars, Phases
<1>6. CASE setInsNameRaises(c)
  BY <1>6 DEF setInsNameRaises, storeVars, Phases
<1>7. ASSUME NEW attr, createPoa(c, attr)
      PROVE  StoreOK' /\ (\A d \in Channels : phase[d] # "none" => phase'[d] # "none")
  BY <1>7 DEF createPoa, storeVars, Phases
<1> QED BY <1>1, <1>2, <1>3, <1>4, <1>5, <1>6, <1>7 DEF channelThread

LEMMA EmptyStepStore ==
  ASSUME StoreOK, NEW t \in Clients,
         emptyStart(t) \/ emptyOne(t) \/ emptyRaises(t) \/ emptyEnd(t)
  PROVE  StoreOK' /\ phase' = phase
<1> USE NobodyAssumption DEF StoreOK, emptyStart, emptyOne, emptyRaises, emptyEnd, channelVars
<1> QED OBVIOUS

-----------------------------------------------------------------------------
(* The tools.  A tool is a record; a step of a tool changes one of them.   *)
Rec(r) == [kind |-> r.kind, pc |-> r.pc, name |-> r.name, channel |-> r.channel,
           attr |-> r.attr, size |-> r.size, iter |-> r.iter]
ToolShape == tool = [t \in Clients |-> Rec(tool[t])]

Moves(t, p, n, c, i) ==
  /\ ToolShape'
  /\ tool'[t].pc = p /\ tool'[t].name = n /\ tool'[t].channel = c /\ tool'[t].iter = i
  /\ \A u \in Clients \ {t} : tool'[u] = tool[u]

LEMMA UpdateMoves ==
  ASSUME ToolShape, NEW t \in Clients, NEW r, r = Rec(r), tool' = [tool EXCEPT ![t] = r]
  PROVE  Moves(t, r.pc, r.name, r.channel, r.iter)
<1>1. /\ tool'[t] = r /\ DOMAIN tool' = Clients
      /\ \A u \in Clients \ {t} : tool'[u] = tool[u] /\ tool[u] = Rec(tool[u])
      /\ tool' = [u \in Clients |-> tool'[u]]
  BY DEF ToolShape
<1>2. \A u \in Clients : tool'[u] = Rec(tool'[u])
  BY <1>1
<1> QED BY <1>1, <1>2 DEF Moves, ToolShape

LEMMA GotoMoves ==
  ASSUME ToolShape, NEW t \in Clients, NEW p, goto(t, p)
  PROVE  Moves(t, p, tool[t].name, tool[t].channel, tool[t].iter)
<1> DEFINE r == [tool[t] EXCEPT !.pc = p]
<1>1. tool[t] = Rec(tool[t])
  BY DEF ToolShape
<1>2. /\ r = Rec(r) /\ r.pc = p /\ r.name = tool[t].name /\ r.channel = tool[t].channel
      /\ r.iter = tool[t].iter
  BY <1>1 DEF Rec
<1>3. tool' = [tool EXCEPT ![t] = r]
  BY DEF goto
<1> HIDE DEF r
<1>4. Moves(t, r.pc, r.name, r.channel, r.iter)
  BY <1>2, <1>3, UpdateMoves
<1> QED BY <1>2, <1>4

LEMMA IdleShape == Idle = Rec(Idle)
BY DEF Idle, Rec

LEMMA FinishMoves ==
  ASSUME ToolShape, NEW t \in Clients, finish(t)
  PROVE  Moves(t, "idle", NoName, Nobody, Nobody)
<1>1. Moves(t, Idle.pc, Idle.name, Idle.channel, Idle.iter)
  BY IdleShape, UpdateMoves DEF finish
<1> QED BY <1>1 DEF Idle

LEMMA ListDoneMoves ==
  ASSUME ToolShape, NEW t \in Clients, listDone(t)
  PROVE  \/ Moves(t, "delete_all", tool[t].name, tool[t].channel, tool[t].iter)
         \/ Moves(t, "idle", NoName, Nobody, Nobody)
BY GotoMoves, FinishMoves DEF listDone

(* Which tools are started, and with what.                                 *)
LEMMA StartMoves ==
  ASSUME ToolShape, NEW t \in Clients, ToolStarts(t)
  PROVE  /\ pc(t, "idle") /\ runs < MaxRuns /\ runs' = runs + 1
         /\ UNCHANGED <<factoryVars, iterVars, names, bypassed>>
         /\ \E n : \E p \in {"idle", "create_object", "resolve", "string_to_object", "delete_all"} :
              /\ p = "resolve" => n \in NsNames
              /\ \/ Moves(t, p, n, Nobody, Nobody)
                 \/ Moves(t, "list_channels", n, Nobody, runs + 1)
<1>1. ASSUME NEW r, begin(t, r)
      PROVE  /\ pc(t, "idle") /\ runs < MaxRuns /\ runs' = runs + 1
             /\ UNCHANGED <<factoryVars, iterVars, names, bypassed>>
             /\ r = Rec(r) => Moves(t, r.pc, r.name, r.channel, r.iter)
  BY <1>1, UpdateMoves DEF begin
<1>2. ASSUME eventc(t)
      PROVE  \E r : begin(t, r) /\ r = Rec(r) /\ r.channel = Nobody /\ r.iter = Nobody
                    /\ r.pc \in {"idle", "create_object"}
  <2>1. PICK n \in NsNames \cup {NoName}, criteria \in criteriaAsked :
          LET parsed == parseCriteria(criteria)
          IN  begin(t, IF parsed.error = "none"
                       THEN [Idle EXCEPT !.kind = "eventc", !.pc = "create_object", !.name = n,
                                         !.attr = parsed.attr]
                       ELSE Idle)
    BY <1>2 DEF eventc
  <2>2. PICK a : a = parseCriteria(criteria).attr
    OBVIOUS
  <2>3. PICK q : q = [Idle EXCEPT !.kind = "eventc", !.pc = "create_object", !.name = n, !.attr = a]
    OBVIOUS
  <2>4. begin(t, q) \/ begin(t, Idle)
    BY <2>1, <2>2, <2>3
  <2>5. q.channel = Nobody /\ q.iter = Nobody /\ q.pc = "create_object"
    BY <2>3 DEF Idle
  <2>6. q = Rec(q)
    BY <2>3, Zenon DEF Idle, Rec
  <2>7. Idle.channel = Nobody /\ Idle.iter = Nobody /\ Idle.pc = "idle"
    BY DEF Idle
  <2> QED BY <2>4, <2>5, <2>6, <2>7, IdleShape
<1>3. ASSUME NEW n, NEW p \in {"resolve", "string_to_object"}, NEW q,
             q = [Idle EXCEPT !.kind = "rmeventc", !.pc = p, !.name = n], begin(t, q),
             p = "resolve" => n \in NsNames
      PROVE  \E r : begin(t, r) /\ r = Rec(r) /\ r.channel = Nobody /\ r.iter = Nobody
                    /\ r.pc \in {"resolve", "string_to_object"}
                    /\ (r.pc = "resolve" => r.name \in NsNames)
  <2>1. q.channel = Nobody /\ q.iter = Nobody /\ q.pc = p /\ q.name = n
    BY <1>3 DEF Idle
  <2>2. q = Rec(q)
    BY <1>3, Zenon DEF Idle, Rec
  <2> HIDE DEF begin
  <2>3. q.pc \in {"resolve", "string_to_object"} /\ (q.pc = "resolve" => q.name \in NsNames)
    BY <1>3, <2>1
  <2> QED BY <1>3, <2>1, <2>2, <2>3, Zenon
<1>4. ASSUME NEW k, NEW q, q = [Idle EXCEPT !.kind = k, !.pc = "list_channels", !.iter = runs + 1],
             begin(t, q)
      PROVE  \E r : begin(t, r) /\ r = Rec(r) /\ r.channel = Nobody /\ r.iter = runs + 1
                    /\ r.pc = "list_channels"
  <2>1. q.channel = Nobody /\ q.iter = runs + 1 /\ q.pc = "list_channels"
    BY <1>4 DEF Idle
  <2>2. q = Rec(q)
    BY <1>4, Zenon DEF Idle, Rec
  <2> QED BY <1>4, <2>1, <2>2
<1>5. ASSUME NEW q, q = [Idle EXCEPT !.kind = "rmeventall", !.pc = "delete_all"], begin(t, q)
      PROVE  \E r : begin(t, r) /\ r = Rec(r) /\ r.channel = Nobody /\ r.iter = Nobody
                    /\ r.pc = "delete_all"
  <2>1. q.channel = Nobody /\ q.iter = Nobody /\ q.pc = "delete_all"
    BY <1>5 DEF Idle
  <2>2. q = Rec(q)
    BY <1>5, Zenon DEF Idle, Rec
  <2> QED BY <1>5, <2>1, <2>2
<1> DEFINE Fine(r) ==
      /\ begin(t, r) /\ r = Rec(r) /\ r.channel = Nobody
      /\ \/ r.iter = Nobody /\ r.pc \in {"idle", "create_object", "resolve", "string_to_object",
                                         "delete_all"}
         \/ r.iter = runs + 1 /\ r.pc = "list_channels"
      /\ r.pc = "resolve" => r.name \in NsNames
<1>8. ASSUME rmeventc(t)
      PROVE  \E r : Fine(r)
  <2>1. \E n, q : /\ \/ /\ q = [Idle EXCEPT !.kind = "rmeventc", !.pc = "resolve", !.name = n]
                        /\ n \in NsNames
                     \/ q = [Idle EXCEPT !.kind = "rmeventc", !.pc = "string_to_object", !.name = n]
                  /\ begin(t, q)
    BY <1>8, Zenon DEF rmeventc
  <2> QED BY <1>3, <2>1
<1>9. ASSUME NEW k, begin(t, listing(k))
      PROVE  \E r : Fine(r)
  <2>1. \E q : q = [Idle EXCEPT !.kind = k, !.pc = "list_channels", !.iter = runs + 1] /\ begin(t, q)
    BY <1>9, Zenon DEF listing
  <2> QED BY <1>4, <2>1
<1>10. ASSUME begin(t, [Idle EXCEPT !.kind = "rmeventall", !.pc = "delete_all"])
       PROVE  \E r : Fine(r)
  <2>1. \E q : q = [Idle EXCEPT !.kind = "rmeventall", !.pc = "delete_all"] /\ begin(t, q)
    BY <1>10, Zenon
  <2> QED BY <1>5, <2>1
<1>11. ASSUME eventc(t)
       PROVE  \E r : Fine(r)
  BY <1>2, <1>11
<1> HIDE DEF Fine
<1>12. \E r : Fine(r)
  BY <1>8, <1>9, <1>10, <1>11 DEF ToolStarts, rmeventall, eventl, browse
<1>6. PICK r : /\ begin(t, r) /\ r = Rec(r) /\ r.channel = Nobody
               /\ \/ r.iter = Nobody /\ r.pc \in {"idle", "create_object", "resolve",
                                                  "string_to_object", "delete_all"}
                  \/ r.iter = runs + 1 /\ r.pc = "list_channels"
               /\ r.pc = "resolve" => r.name \in NsNames
  BY <1>12 DEF Fine
<1>7. Moves(t, r.pc, r.name, r.channel, r.iter)
  BY <1>1, <1>6
<1> QED BY <1>1, <1>6, <1>7

(* What every other call of a tool, and every step of the server for it,   *)
(* does to the record of the tool.                                         *)
Stays(t, p) == Moves(t, p, tool[t].name, tool[t].channel, tool[t].iter)
Ends(t) == Moves(t, "idle", NoName, Nobody, Nobody)

LEMMA CallMoves ==
  ASSUME ToolShape, NEW t \in Clients
  PROVE  /\ createObject(t) => Moves(t, "setInsName", tool[t].name, minimum(unmade), tool[t].iter)
         /\ createObjectRaises(t) \/ rebind(t) \/ createObjectEndRaises(t) \/ destroyChannel(t)
              \/ iterDestroyReturn(t) \/ deleteAllEnd(t) => Ends(t)
         /\ createObjectEnd(t) => Ends(t) \/ Stays(t, "bind")
         /\ bind(t) => Ends(t) \/ Stays(t, "rebind")
         /\ resolve(t) =>
              \/ Ends(t)
              \/ Moves(t, "unbind", tool[t].name, names[tool[t].name], tool[t].iter)
                 /\ names[tool[t].name] # Nobody
         /\ unbind(t) =>
              \/ Ends(t) /\ names' = names
              \/ Stays(t, "destroy") /\ names' = [names EXCEPT ![tool[t].name] = Nobody]
         /\ stringToObject(t) =>
              Ends(t) \/ Moves(t, "destroyUri", tool[t].name, inspoa[tool[t].name], tool[t].iter)
         /\ listSize(t) => Stays(t, "list")
         /\ listCopy(t) => Stays(t, "delete_all") \/ Ends(t) \/ Stays(t, "next")
         /\ nextCall(t) => Stays(t, "delete_all") \/ Ends(t) \/ Stays(t, "nextReturn")
         /\ nextReturn(t) =>
              \/ Stays(t, "delete_all") \/ Ends(t) \/ Stays(t, "next")
              \/ Moves(t, "unbindItem", tool[t].name, Head(list_[tool[t].iter]), tool[t].iter)
         /\ unbindItem(t) => Moves(t, "next", tool[t].name, Nobody, tool[t].iter)
         /\ iterDestroy(t) => Ends(t) \/ Stays(t, "destroyReturn")
         /\ deleteAll(t) => Moves(t, "empty", NoName, Nobody, Nobody)
<1>1. tool = [u \in Clients |-> tool[u]] /\ \A u \in Clients : tool[u] = Rec(tool[u])
  BY DEF ToolShape
<1>2. ASSUME NEW p, NEW c, tool' = [tool EXCEPT ![t].channel = c, ![t].pc = p]
      PROVE  Moves(t, p, tool[t].name, c, tool[t].iter)
  <2>1. /\ tool'[t].pc = p /\ tool'[t].channel = c /\ tool'[t].name = tool[t].name
        /\ tool'[t].iter = tool[t].iter
    <3>1. tool'[t] = [tool[t] EXCEPT !.channel = c, !.pc = p]
      BY <1>1, <1>2
    <3>2. DOMAIN tool[t] = {"kind", "pc", "name", "channel", "attr", "size", "iter"}
      BY <1>1 DEF Rec
    <3> QED BY <3>1, <3>2
  <2>2. tool'[t] = Rec(tool'[t])
    BY <1>1, <1>2, Zenon DEF Rec
  <2>3. tool' = [u \in Clients |-> tool'[u]] /\ \A u \in Clients \ {t} : tool'[u] = tool[u]
    BY <1>1, <1>2
  <2>4. tool' = [u \in Clients |-> Rec(tool'[u])]
    BY <1>1, <2>2, <2>3
  <2> QED BY <2>1, <2>3, <2>4 DEF Moves, ToolShape
<1>3. ASSUME NEW p, NEW c, NEW a, tool' = [tool EXCEPT ![t].channel = c, ![t].pc = p, ![t].attr = a]
      PROVE  Moves(t, p, tool[t].name, c, tool[t].iter)
  <2>1. /\ tool'[t].pc = p /\ tool'[t].channel = c /\ tool'[t].name = tool[t].name
        /\ tool'[t].iter = tool[t].iter
    BY <1>1, <1>3 DEF Rec
  <2>2. tool'[t] = Rec(tool'[t])
    BY <1>1, <1>3, Zenon DEF Rec
  <2>3. tool' = [u \in Clients |-> tool'[u]] /\ \A u \in Clients \ {t} : tool'[u] = tool[u]
    BY <1>1, <1>3
  <2>4. tool' = [u \in Clients |-> Rec(tool'[u])]
    BY <1>1, <2>2, <2>3
  <2> QED BY <2>1, <2>3, <2>4 DEF Moves, ToolShape
<1>4. ASSUME NEW p, NEW z, tool' = [tool EXCEPT ![t].size = z, ![t].pc = p]
      PROVE  Moves(t, p, tool[t].name, tool[t].channel, tool[t].iter)
  <2>1. /\ tool'[t].pc = p /\ tool'[t].channel = tool[t].channel /\ tool'[t].name = tool[t].name
        /\ tool'[t].iter = tool[t].iter
    <3>1. tool'[t] = [tool[t] EXCEPT !.size = z, !.pc = p]
      BY <1>1, <1>4
    <3>2. DOMAIN tool[t] = {"kind", "pc", "name", "channel", "attr", "size", "iter"}
      BY <1>1 DEF Rec
    <3> QED BY <3>1, <3>2
  <2>2. tool'[t] = Rec(tool'[t])
    BY <1>1, <1>4, Zenon DEF Rec
  <2>3. tool' = [u \in Clients |-> tool'[u]] /\ \A u \in Clients \ {t} : tool'[u] = tool[u]
    BY <1>1, <1>4
  <2>4. tool' = [u \in Clients |-> Rec(tool'[u])]
    BY <1>1, <2>2, <2>3
  <2> QED BY <2>1, <2>3, <2>4 DEF Moves, ToolShape
<1>5. ASSUME tool' = [tool EXCEPT ![t] = [Idle EXCEPT !.kind = "rmeventall", !.pc = "empty"]]
      PROVE  Moves(t, "empty", NoName, Nobody, Nobody)
  <2>1. PICK q : q = [Idle EXCEPT !.kind = "rmeventall", !.pc = "empty"]
    OBVIOUS
  <2>2. q.pc = "empty" /\ q.name = NoName /\ q.channel = Nobody /\ q.iter = Nobody
    BY <2>1 DEF Idle
  <2>3. q = Rec(q)
    BY <2>1, Zenon DEF Idle, Rec
  <2>4. Moves(t, q.pc, q.name, q.channel, q.iter)
    BY <1>5, <2>1, <2>3, UpdateMoves
  <2> QED BY <2>2, <2>4
<1>6. createObject(t) => Moves(t, "setInsName", tool[t].name, minimum(unmade), tool[t].iter)
  BY <1>3 DEF createObject
<1>7. createObjectRaises(t) \/ rebind(t) \/ createObjectEndRaises(t) \/ destroyChannel(t)
        \/ iterDestroyReturn(t) \/ deleteAllEnd(t) => finish(t)
  BY DEF createObjectRaises, rebind, createObjectEndRaises, destroyChannel, iterDestroyReturn,
         deleteAllEnd
<1>8. createObjectEnd(t) => finish(t) \/ goto(t, "bind")
  BY DEF createObjectEnd
<1>9. bind(t) => finish(t) \/ goto(t, "rebind")
  BY DEF bind
<1>10. resolve(t) =>
         \/ finish(t)
         \/ Moves(t, "unbind", tool[t].name, names[tool[t].name], tool[t].iter)
            /\ names[tool[t].name] # Nobody
  BY <1>2 DEF resolve
<1>11. unbind(t) =>
         \/ finish(t) /\ names' = names
         \/ goto(t, "destroy") /\ names' = [names EXCEPT ![tool[t].name] = Nobody]
  BY DEF unbind
<1>12. stringToObject(t) =>
         finish(t) \/ Moves(t, "destroyUri", tool[t].name, inspoa[tool[t].name], tool[t].iter)
  BY <1>2 DEF stringToObject
<1>13. listSize(t) => Stays(t, "list")
  BY <1>4 DEF listSize, Stays
<1>14. listCopy(t) => listDone(t) \/ Stays(t, "next")
  BY <1>4 DEF listCopy, Stays
<1>15. nextCall(t) => listDone(t) \/ goto(t, "nextReturn")
  BY DEF nextCall
<1>16. nextReturn(t) =>
         \/ listDone(t) \/ goto(t, "next")
         \/ Moves(t, "unbindItem", tool[t].name, Head(list_[tool[t].iter]), tool[t].iter)
  BY <1>2 DEF nextReturn
<1>17. unbindItem(t) => Moves(t, "next", tool[t].name, Nobody, tool[t].iter)
  BY <1>2 DEF unbindItem
<1>18. iterDestroy(t) => finish(t) \/ goto(t, "destroyReturn")
  BY DEF iterDestroy
<1>19. deleteAll(t) => Moves(t, "empty", NoName, Nobody, Nobody)
  BY <1>5 DEF deleteAll
<1>20. /\ \A p : goto(t, p) => Stays(t, p)
       /\ finish(t) => Ends(t)
       /\ listDone(t) => Stays(t, "delete_all") \/ Ends(t)
  BY GotoMoves, FinishMoves, ListDoneMoves DEF Stays, Ends
<1> QED BY <1>6, <1>7, <1>8, <1>9, <1>10, <1>11, <1>12, <1>13, <1>14, <1>15, <1>16, <1>17, <1>18,
           <1>19, <1>20
-----------------------------------------------------------------------------
(* The iterators.  A tool that goes through a list has an iterator of its  *)
(* own, and an iterator in use belongs to the tool that waits for it.      *)
ListPcs == {"list_channels", "list", "next", "nextReturn", "unbindItem", "destroyReturn"}
Lists(t) == tool[t].pc \in ListPcs

OwnersOK ==
  /\ runs \in 0 .. MaxRuns
  /\ \A t \in Clients : Lists(t) => tool[t].iter \in 1 .. runs
  /\ \A t, u \in Clients : Lists(t) /\ Lists(u) /\ tool[t].iter = tool[u].iter => t = u
  /\ \A i \in Iterators : using[i] = "next" =>
       \E t \in Clients : tool[t].pc = "nextReturn" /\ tool[t].iter = i
  /\ \A i \in Iterators : using[i] = "destroy" =>
       \E t \in Clients : tool[t].pc = "destroyReturn" /\ tool[t].iter = i

CountsOK ==
  /\ refs \in [Iterators -> Nat] /\ using \in [Iterators -> {"no", "next", "destroy"}]
  /\ mapped \in [Iterators -> BOOLEAN]
  /\ IteratorsAlive

LEMMA IteratorInit == Init => CountsOK /\ OwnersOK
<1> SUFFICES ASSUME Init PROVE CountsOK /\ OwnersOK
  OBVIOUS
<1>1. CountsOK
  BY DEF Init, IterInit, CountsOK, IteratorsAlive, holders
<1>2. \A t \in Clients : tool[t].pc = "idle"
  BY DEF Init, Idle
<1>3. OwnersOK
  BY <1>2, MaxRunsAssumption DEF Init, IterInit, OwnersOK, Lists, ListPcs
<1> QED BY <1>1, <1>3

(* A step of IteratorSupport changes the references of an iterator with    *)
(* those who hold them, if a call begins only when none is under way.      *)
LEMMA CountsStep ==
  ASSUME CountsOK, NEW i \in Iterators, NEW n, NEW items, NEW m,
         \/ activateGCObject(i, n, items) \/ next_n(i, m) \/ iterDestroyed(i) \/ sweep(i)
         \/ using[i] = "no" /\ (preinvoke(i) \/ preinvokeDestroy(i))
  PROVE  CountsOK'
<1>1. \A j \in Iterators : refs[j] = holders(j) /\ mapped[j] \in BOOLEAN
  BY DEF CountsOK, IteratorsAlive
<1>2. /\ refs \in [Iterators -> Nat] /\ using \in [Iterators -> {"no", "next", "destroy"}]
      /\ mapped \in [Iterators -> BOOLEAN]
  BY DEF CountsOK
<1>3. ASSUME refs' \in [Iterators -> Int], using' \in [Iterators -> {"no", "next", "destroy"}],
             mapped' \in [Iterators -> BOOLEAN],
             refs'[i] = holders(i)',
             \A j \in Iterators \ {i} : /\ refs'[j] = refs[j] /\ using'[j] = using[j]
                                        /\ mapped'[j] = mapped[j]
      PROVE  CountsOK'
  <2>1. \A j \in Iterators \ {i} : holders(j)' = holders(j)
    BY <1>3 DEF holders
  <2>2. \A j \in Iterators : refs'[j] = holders(j)'
    BY <1>1, <1>3, <2>1
  <2>3. \A j \in Iterators : holders(j)' \in Nat
    BY DEF holders
  <2>4. refs' \in [Iterators -> Nat]
    BY <1>3, <2>2, <2>3
  <2> QED BY <1>3, <2>2, <2>4 DEF CountsOK, IteratorsAlive
<1>4. CASE activateGCObject(i, n, items)
  <2>1. ~mapped[i] /\ using[i] = "no"
    BY <1>1, <1>2, <1>4 DEF activateGCObject, holders
  <2>2. mapped' \in [Iterators -> BOOLEAN] /\ mapped'[i]
        /\ \A j \in Iterators \ {i} : mapped'[j] = mapped[j]
    BY <1>2, <1>4 DEF activateGCObject
  <2>3. /\ refs' \in [Iterators -> Int] /\ refs'[i] = 1 /\ using' = using
        /\ \A j \in Iterators \ {i} : refs'[j] = refs[j]
    BY <1>2, <1>4 DEF activateGCObject
  <2>4. refs'[i] = holders(i)'
    BY <2>1, <2>2, <2>3 DEF holders
  <2> QED BY <1>2, <1>3, <2>2, <2>3, <2>4
<1>5. CASE next_n(i, m) \/ iterDestroyed(i)
  <2>1. /\ using[i] # "no" /\ refs' = [refs EXCEPT ![i] = @ - 1]
        /\ using' = [using EXCEPT ![i] = "no"] /\ mapped' = mapped
    BY <1>2, <1>5 DEF next_n, iterDestroyed, _remove_ref
  <2>2. /\ refs' \in [Iterators -> Int] /\ refs'[i] = refs[i] - 1 /\ using'[i] = "no"
        /\ using' \in [Iterators -> {"no", "next", "destroy"}]
        /\ \A j \in Iterators \ {i} : refs'[j] = refs[j] /\ using'[j] = using[j]
    BY <1>2, <2>1
  <2>3. refs'[i] = holders(i)'
    BY <1>1, <2>1, <2>2 DEF holders
  <2> QED BY <1>2, <1>3, <2>1, <2>2, <2>3
<1>6. CASE sweep(i)
  <2>1. mapped[i] /\ mapped' \in [Iterators -> BOOLEAN] /\ ~mapped'[i]
        /\ \A j \in Iterators \ {i} : mapped'[j] = mapped[j]
    BY <1>2, <1>6 DEF sweep
  <2>2. /\ refs' \in [Iterators -> Int] /\ refs'[i] = refs[i] - 1 /\ using' = using
        /\ \A j \in Iterators \ {i} : refs'[j] = refs[j]
    BY <1>2, <1>6 DEF sweep, _remove_ref
  <2>3. refs'[i] = holders(i)'
    BY <1>1, <2>1, <2>2 DEF holders
  <2> QED BY <1>2, <1>3, <2>1, <2>2, <2>3
<1>7. CASE using[i] = "no" /\ preinvoke(i)
  <2>1. /\ refs' \in [Iterators -> Int] /\ refs'[i] = refs[i] + 1 /\ mapped' = mapped
        /\ using' \in [Iterators -> {"no", "next", "destroy"}] /\ using'[i] = "next"
        /\ \A j \in Iterators \ {i} : refs'[j] = refs[j] /\ using'[j] = using[j]
    BY <1>2, <1>7 DEF preinvoke
  <2>2. refs'[i] = holders(i)'
    BY <1>1, <1>7, <2>1 DEF holders
  <2> QED BY <1>2, <1>3, <2>1, <2>2
<1>8. CASE using[i] = "no" /\ preinvokeDestroy(i)
  <2>1. mapped[i] /\ mapped' \in [Iterators -> BOOLEAN] /\ ~mapped'[i]
        /\ \A j \in Iterators \ {i} : mapped'[j] = mapped[j]
    BY <1>2, <1>8 DEF preinvokeDestroy
  <2>2. /\ refs' = refs /\ using' \in [Iterators -> {"no", "next", "destroy"}]
        /\ using'[i] = "destroy" /\ \A j \in Iterators \ {i} : using'[j] = using[j]
    BY <1>2, <1>8 DEF preinvokeDestroy
  <2>3. refs'[i] = holders(i)'
    BY <1>1, <1>8, <2>1, <2>2 DEF holders
  <2> QED BY <1>2, <1>3, <2>1, <2>2, <2>3
<1> QED BY <1>4, <1>5, <1>6, <1>7, <1>8

LEMMA CountsUnchanged ==
  ASSUME CountsOK, refs' = refs, using' = using, mapped' = mapped
  PROVE  CountsOK'
<1>1. \A i \in Iterators : holders(i)' = holders(i)
  BY DEF holders
<1> QED BY <1>1 DEF CountsOK, IteratorsAlive

(* Which steps of a tool leave its iterator alone, begin a call of it, or  *)
(* end one.                                                                *)
LEMMA OwnersQuiet ==
  ASSUME OwnersOK, NEW t \in Clients, NEW p, NEW n, NEW c, NEW i, Moves(t, p, n, c, i),
         runs' = runs, using' = using, tool[t].pc \notin {"nextReturn", "destroyReturn"},
         p \in ListPcs => Lists(t) /\ i = tool[t].iter
  PROVE  OwnersOK'
BY DEF OwnersOK, Moves, Lists

LEMMA OwnersStart ==
  ASSUME OwnersOK, NEW t \in Clients, NEW p, NEW n, NEW c, NEW i, Moves(t, p, n, c, i),
         runs < MaxRuns, runs' = runs + 1, using' = using, tool[t].pc = "idle",
         p \in ListPcs => i = runs + 1
  PROVE  OwnersOK'
<1>1. runs \in 0 .. MaxRuns /\ runs' \in 0 .. MaxRuns /\ runs' \in Nat
  BY MaxRunsAssumption DEF OwnersOK
<1>2. \A u \in Clients \ {t} : Lists(u)' => Lists(u) /\ tool'[u].iter = tool[u].iter
  BY DEF Moves, Lists
<1>3. \A u \in Clients : Lists(u)' => tool'[u].iter \in 1 .. runs'
  BY <1>1, <1>2 DEF OwnersOK, Moves, Lists
<1>4. \A u \in Clients \ {t} : Lists(u)' => tool'[u].iter # runs + 1
  BY <1>1, <1>2 DEF OwnersOK
<1>5. \A u, v \in Clients : Lists(u)' /\ Lists(v)' /\ tool'[u].iter = tool'[v].iter => u = v
  BY <1>2, <1>4 DEF OwnersOK, Moves, Lists
<1>6. \A j \in Iterators : using'[j] = "next" =>
        \E u \in Clients : tool'[u].pc = "nextReturn" /\ tool'[u].iter = j
  BY DEF OwnersOK, Moves
<1>7. \A j \in Iterators : using'[j] = "destroy" =>
        \E u \in Clients : tool'[u].pc = "destroyReturn" /\ tool'[u].iter = j
  BY DEF OwnersOK, Moves
<1> QED BY <1>1, <1>3, <1>5, <1>6, <1>7 DEF OwnersOK

LEMMA OwnersCall ==
  ASSUME OwnersOK, CountsOK, NEW t \in Clients, Lists(t), NEW p, NEW n, NEW c,
         Moves(t, p, n, c, tool[t].iter), runs' = runs,
         \/ p = "nextReturn" /\ using' = [using EXCEPT ![tool[t].iter] = "next"]
         \/ p = "destroyReturn" /\ using' = [using EXCEPT ![tool[t].iter] = "destroy"],
         tool[t].pc = "next"
  PROVE  OwnersOK'
<1>1. \A u \in Clients : Lists(u)' => Lists(u) /\ tool'[u].iter = tool[u].iter
  BY DEF Moves, Lists, ListPcs
<1>2. \A j \in Iterators : j # tool[t].iter => using'[j] = using[j]
  BY DEF CountsOK
<1>3. tool[t].iter \in Iterators =>
        \/ p = "nextReturn" /\ using'[tool[t].iter] = "next"
        \/ p = "destroyReturn" /\ using'[tool[t].iter] = "destroy"
  BY DEF CountsOK
<1>4. \A j \in Iterators : using'[j] = "next" =>
        \E u \in Clients : tool'[u].pc = "nextReturn" /\ tool'[u].iter = j
  BY <1>2, <1>3 DEF OwnersOK, Moves
<1>5. \A j \in Iterators : using'[j] = "destroy" =>
        \E u \in Clients : tool'[u].pc = "destroyReturn" /\ tool'[u].iter = j
  BY <1>2, <1>3 DEF OwnersOK, Moves
<1> QED BY <1>1, <1>4, <1>5 DEF OwnersOK

LEMMA OwnersReturn ==
  ASSUME OwnersOK, CountsOK, NEW t \in Clients, Lists(t), NEW p, NEW n, NEW c, NEW i,
         Moves(t, p, n, c, i), runs' = runs,
         using' = [using EXCEPT ![tool[t].iter] = "no"],
         p \in ListPcs => i = tool[t].iter
  PROVE  OwnersOK'
<1>1. \A u \in Clients : Lists(u)' => Lists(u) /\ tool'[u].iter = tool[u].iter
  BY DEF Moves, Lists
<1>2. \A j \in Iterators : using'[j] # "no" => j # tool[t].iter /\ using'[j] = using[j]
  BY DEF CountsOK
<1>3. \A j \in Iterators : using'[j] = "next" =>
        \E u \in Clients : tool'[u].pc = "nextReturn" /\ tool'[u].iter = j
  BY <1>2 DEF OwnersOK, Moves
<1>4. \A j \in Iterators : using'[j] = "destroy" =>
        \E u \in Clients : tool'[u].pc = "destroyReturn" /\ tool'[u].iter = j
  BY <1>2 DEF OwnersOK, Moves
<1> QED BY <1>1, <1>3, <1>4 DEF OwnersOK

(* An iterator that its tool calls is not in use.                          *)
LEMMA NotInUse ==
  ASSUME OwnersOK, CountsOK, NEW t \in Clients, tool[t].pc = "next"
  PROVE  tool[t].iter \in Iterators /\ using[tool[t].iter] = "no"
<1>1. Lists(t) /\ tool[t].iter \in Iterators
  BY MaxRunsAssumption DEF OwnersOK, Lists, ListPcs
<1>2. using[tool[t].iter] \in {"no", "next", "destroy"}
  BY <1>1 DEF CountsOK
<1> QED BY <1>1, <1>2 DEF OwnersOK, Lists, ListPcs

IteratorsOK == ToolShape /\ CountsOK /\ OwnersOK

(* The steps of tools that have nothing to do with an iterator.            *)
LEMMA NoIteratorStep ==
  ASSUME IteratorsOK, NEW t \in Clients,
         \/ createObject(t) \/ createObjectRaises(t) \/ createObjectEnd(t)
         \/ createObjectEndRaises(t) \/ bind(t) \/ rebind(t) \/ resolve(t) \/ unbind(t)
         \/ stringToObject(t) \/ destroyChannel(t) \/ listSize(t) \/ unbindItem(t)
         \/ deleteAll(t) \/ deleteOne(t) \/ deleteAllEnd(t)
  PROVE  IteratorsOK'
<1> USE DEF IteratorsOK
<1>1. UNCHANGED iterVars /\ runs' = runs
  BY DEF createObject, createObjectRaises, createObjectEnd, createObjectEndRaises, bind, rebind,
         resolve, unbind, stringToObject, destroyChannel, listSize, unbindItem, deleteAll,
         deleteOne, deleteAllEnd
<1>2. CountsOK'
  BY <1>1, CountsUnchanged DEF iterVars
<1>3. using' = using
  BY <1>1 DEF iterVars
<1>4. ASSUME NEW p, NEW n, NEW c, NEW i, Moves(t, p, n, c, i),
             tool[t].pc \notin {"nextReturn", "destroyReturn"},
             p \in ListPcs => Lists(t) /\ i = tool[t].iter
      PROVE  ToolShape' /\ OwnersOK'
  <2>1. OwnersOK'
    BY <1>1, <1>3, <1>4, OwnersQuiet
  <2> QED BY <1>4, <2>1 DEF Moves
<1>5. CASE deleteOne(t)
  BY <1>1, <1>2, <1>3, <1>5 DEF deleteOne, ToolShape, OwnersOK, Lists
<1>6. CASE listSize(t)
  <2>1. Moves(t, "list", tool[t].name, tool[t].channel, tool[t].iter) /\ tool[t].pc = "list_channels"
    BY <1>6, CallMoves DEF listSize, pc, Stays
  <2> QED BY <1>2, <1>4, <2>1 DEF Lists, ListPcs
<1>7. CASE unbindItem(t)
  <2>1. Moves(t, "next", tool[t].name, Nobody, tool[t].iter) /\ tool[t].pc = "unbindItem"
    BY <1>7, CallMoves DEF unbindItem, pc
  <2> QED BY <1>2, <1>4, <2>1 DEF Lists, ListPcs
<1>8. CASE ~deleteOne(t) /\ ~listSize(t) /\ ~unbindItem(t)
  <2>1. tool[t].pc \notin {"nextReturn", "destroyReturn"} \/ deleteAllEnd(t)
    BY <1>8 DEF createObject, createObjectRaises, createObjectEnd, createObjectEndRaises, bind,
       rebind, resolve, unbind, stringToObject, destroyChannel, deleteAll, pc
  <2>2. tool[t].pc \notin {"nextReturn", "destroyReturn"}
    BY <2>1 DEF deleteAllEnd, pc
  <2>3. \E n, c, i :
          \E p \in {"setInsName", "idle", "bind", "rebind", "unbind", "destroy", "destroyUri", "empty"} :
            Moves(t, p, n, c, i)
    BY <1>8, CallMoves DEF Stays, Ends
  <2> QED BY <1>2, <1>4, <2>2, <2>3 DEF ListPcs
<1> QED BY <1>5, <1>6, <1>7, <1>8

(* The steps of tools that go through a list.                              *)
LEMMA IteratorCallStep ==
  ASSUME IteratorsOK, NEW t \in Clients,
         \/ listCopy(t) \/ nextCall(t) \/ nextReturn(t) \/ iterDestroy(t) \/ iterDestroyReturn(t)
  PROVE  IteratorsOK'
<1> USE DEF IteratorsOK
<1>1. runs' = runs
  BY DEF listCopy, nextCall, nextReturn, iterDestroy, iterDestroyReturn
<1>2. ASSUME NEW p, NEW n, NEW c, NEW i, Moves(t, p, n, c, i)
      PROVE  ToolShape'
  BY <1>2 DEF Moves
<1>3. ASSUME UNCHANGED iterVars, tool[t].pc \in {"list", "next"}, NEW p, NEW n, NEW c, NEW i,
             Moves(t, p, n, c, i), p \in ListPcs => i = tool[t].iter
      PROVE  IteratorsOK'
  <2>1. CountsOK' /\ using' = using
    BY <1>3, CountsUnchanged DEF iterVars
  <2>2. OwnersOK'
    BY <1>1, <1>3, <2>1, OwnersQuiet DEF Lists, ListPcs
  <2> QED BY <1>2, <1>3, <2>1, <2>2
<1>4. CASE listCopy(t)
  <2>1. tool[t].pc = "list" /\ tool[t].iter \in Iterators /\ Lists(t)
    BY <1>4, MaxRunsAssumption DEF listCopy, pc, OwnersOK, Lists, ListPcs
  <2>2. \E n, c, i : \E p \in {"delete_all", "idle", "next"} :
          Moves(t, p, n, c, i) /\ (p \in ListPcs => i = tool[t].iter)
    BY <1>4, CallMoves DEF Stays, Ends, ListPcs
  <2>3. CASE UNCHANGED iterVars
    BY <1>3, <2>1, <2>2, <2>3
  <2>4. ASSUME NEW n, NEW items, activateGCObject(tool[t].iter, n, items)
        PROVE  IteratorsOK'
    <3>1. CountsOK' /\ using' = using
      BY <2>1, <2>4, CountsStep DEF activateGCObject
    <3>2. OwnersOK'
      BY <1>1, <2>1, <2>2, <3>1, OwnersQuiet
    <3> QED BY <1>2, <2>2, <3>1, <3>2
  <2> QED BY <1>4, <2>3, <2>4 DEF listCopy
<1>5. CASE nextCall(t)
  <2>1. tool[t].pc = "next" /\ tool[t].iter \in Iterators /\ using[tool[t].iter] = "no" /\ Lists(t)
    BY <1>5, NotInUse DEF nextCall, pc, Lists, ListPcs
  <2>2. CASE listDone(t) /\ UNCHANGED iterVars
    <3>1. \E n, c, i : \E p \in {"delete_all", "idle"} : Moves(t, p, n, c, i)
      BY <2>2, ListDoneMoves
    <3> QED BY <1>3, <2>1, <2>2, <3>1 DEF ListPcs
  <2>3. CASE preinvoke(tool[t].iter) /\ goto(t, "nextReturn")
    <3>1. Moves(t, "nextReturn", tool[t].name, tool[t].channel, tool[t].iter)
      BY <2>3, GotoMoves
    <3>2. CountsOK' /\ using' = [using EXCEPT ![tool[t].iter] = "next"]
      BY <2>1, <2>3, CountsStep DEF preinvoke
    <3>3. OwnersOK'
      BY <1>1, <2>1, <3>1, <3>2, OwnersCall
    <3> QED BY <1>2, <3>1, <3>2, <3>3
  <2> QED BY <1>5, <2>2, <2>3 DEF nextCall
<1>6. CASE iterDestroy(t)
  <2>1. tool[t].pc = "next" /\ tool[t].iter \in Iterators /\ using[tool[t].iter] = "no" /\ Lists(t)
    BY <1>6, NotInUse DEF iterDestroy, pc, Lists, ListPcs
  <2>2. CASE finish(t) /\ UNCHANGED iterVars
    <3>1. Moves(t, "idle", NoName, Nobody, Nobody)
      BY <2>2, FinishMoves
    <3> QED BY <1>3, <2>1, <2>2, <3>1 DEF ListPcs
  <2>3. CASE preinvokeDestroy(tool[t].iter) /\ goto(t, "destroyReturn")
    <3>1. Moves(t, "destroyReturn", tool[t].name, tool[t].channel, tool[t].iter)
      BY <2>3, GotoMoves
    <3>2. CountsOK' /\ using' = [using EXCEPT ![tool[t].iter] = "destroy"]
      BY <2>1, <2>3, CountsStep DEF preinvokeDestroy
    <3>3. OwnersOK'
      BY <1>1, <2>1, <3>1, <3>2, OwnersCall
    <3> QED BY <1>2, <3>1, <3>2, <3>3
  <2> QED BY <1>6, <2>2, <2>3 DEF iterDestroy
<1>7. CASE nextReturn(t)
  <2>1. tool[t].pc = "nextReturn" /\ tool[t].iter \in Iterators /\ Lists(t)
    BY <1>7, MaxRunsAssumption DEF nextReturn, pc, OwnersOK, Lists, ListPcs
  <2>2. \E m : next_n(tool[t].iter, m)
    BY <1>7 DEF nextReturn
  <2>3. CountsOK' /\ using' = [using EXCEPT ![tool[t].iter] = "no"]
    BY <2>1, <2>2, CountsStep DEF next_n
  <2>4. \E p, n, c, i : Moves(t, p, n, c, i) /\ (p \in ListPcs => i = tool[t].iter)
    BY <1>7, CallMoves DEF Stays, Ends, ListPcs
  <2>5. OwnersOK'
    BY <1>1, <2>1, <2>3, <2>4, OwnersReturn
  <2> QED BY <1>2, <2>3, <2>4, <2>5
<1>8. CASE iterDestroyReturn(t)
  <2>1. tool[t].pc = "destroyReturn" /\ tool[t].iter \in Iterators /\ Lists(t)
    BY <1>8, MaxRunsAssumption DEF iterDestroyReturn, pc, OwnersOK, Lists, ListPcs
  <2>2. iterDestroyed(tool[t].iter)
    BY <1>8 DEF iterDestroyReturn
  <2>3. CountsOK' /\ using' = [using EXCEPT ![tool[t].iter] = "no"]
    BY <2>1, <2>2, CountsStep DEF iterDestroyed
  <2>4. Moves(t, "idle", NoName, Nobody, Nobody)
    BY <1>8, CallMoves DEF Ends
  <2>5. OwnersOK'
    BY <1>1, <2>1, <2>3, <2>4, OwnersReturn DEF ListPcs
  <2> QED BY <1>2, <2>3, <2>4, <2>5
<1> QED BY <1>4, <1>5, <1>6, <1>7, <1>8

(* A thread that hangs changes nothing else.                               *)
Hangs ==
  \/ \E c \in Channels : ChannelHangs(c)
  \/ \E t \in Clients : DeleteAllHangs(t)

LEMMA HangFacts ==
  ASSUME Hangs
  PROVE  UNCHANGED <<channelVars, _channels, storeLock, todo, iterVars, toolVars>>
BY DEF Hangs, ChannelHangs, DeleteAllHangs, hang, emptyHangs

LEMMA IteratorsStep == IteratorsOK /\ [Next]_vars => IteratorsOK'
<1> SUFFICES ASSUME IteratorsOK, [Next]_vars PROVE IteratorsOK'
  OBVIOUS
<1> USE DEF IteratorsOK
<1>1. ASSUME UNCHANGED toolVars, UNCHANGED using, CountsOK'
      PROVE  IteratorsOK'
  BY <1>1 DEF toolVars, ToolShape, OwnersOK, Lists
<1>2. CASE UNCHANGED vars
  <2>1. CountsOK'
    BY <1>2, CountsUnchanged DEF vars, iterVars
  <2> QED BY <1>1, <1>2, <2>1 DEF vars, iterVars
<1>3. ASSUME NEW c \in Channels, ChannelStep(c) PROVE IteratorsOK'
  <2>1. CountsOK'
    BY <1>3, CountsUnchanged DEF ChannelStep, iterVars
  <2> QED BY <1>1, <1>3, <2>1 DEF ChannelStep, iterVars
<1>4. ASSUME NEW i \in Iterators, Sweep(i) PROVE IteratorsOK'
  <2>1. CountsOK'
    BY <1>4, CountsStep DEF Sweep
  <2> QED BY <1>1, <1>4, <2>1 DEF Sweep, sweep
<1>5. CASE Time
  <2>1. CountsOK'
    BY <1>5, CountsUnchanged DEF Time, Tick
  <2> QED BY <1>1, <1>5, <2>1 DEF Time, Tick
<1>6. ASSUME NEW t \in Clients, ToolStarts(t) PROVE IteratorsOK'
  <2>1. /\ pc(t, "idle") /\ runs < MaxRuns /\ runs' = runs + 1 /\ UNCHANGED iterVars
        /\ \E n : \E p \in {"idle", "create_object", "resolve", "string_to_object", "delete_all"} :
             /\ p = "resolve" => n \in NsNames
             /\ \/ Moves(t, p, n, Nobody, Nobody)
                \/ Moves(t, "list_channels", n, Nobody, runs + 1)
    BY <1>6, StartMoves
  <2>2. PICK p, n, i : Moves(t, p, n, Nobody, i) /\ (p \in ListPcs => i = runs + 1)
    BY <2>1 DEF ListPcs
  <2>3. CountsOK' /\ using' = using
    BY <2>1, CountsUnchanged DEF iterVars
  <2>4. OwnersOK'
    BY <2>1, <2>2, <2>3, OwnersStart DEF pc
  <2> QED BY <2>2, <2>3, <2>4 DEF Moves
<1>7. ASSUME NEW t \in Clients, ToolCalls(t) \/ ServerStep(t) PROVE IteratorsOK'
  BY <1>7, NoIteratorStep, IteratorCallStep DEF ToolCalls, ServerStep
<1>8. CASE Hangs
  <2>1. UNCHANGED <<iterVars, toolVars>>
    BY <1>8, HangFacts
  <2>2. CountsOK'
    BY <2>1, CountsUnchanged DEF iterVars
  <2> QED BY <1>1, <2>1, <2>2 DEF iterVars
<1> QED BY <1>2, <1>3, <1>4, <1>5, <1>6, <1>7, <1>8 DEF Next, Hangs
-----------------------------------------------------------------------------
(* The names.  A channel that is being made has no name yet and only one   *)
(* tool that will give it one; it is not among those that rmeventc is      *)
(* removing, which have no other name than the one they were found under,  *)
(* and after unbind none at all.                                           *)
Making(t) == tool[t].pc \in {"setInsName", "bind", "rebind"}
Removing(t) == tool[t].pc \in {"unbind", "destroy"}
Made(c) == c \in Channels /\ phase[c] # "none"

BoundOK ==
  /\ names \in [NsNames -> Channels \cup {Nobody}]
  /\ \A n \in NsNames : names[n] # Nobody => Made(names[n])
  /\ \A m, n \in NsNames : names[m] = names[n] /\ names[m] # Nobody => m = n

MakingOK ==
  /\ \A t \in Clients : Making(t) =>
       Made(tool[t].channel) /\ \A n \in NsNames : names[n] # tool[t].channel
  /\ \A t, u \in Clients : Making(t) /\ Making(u) /\ tool[t].channel = tool[u].channel => t = u
  /\ \A t, u \in Clients : Making(t) /\ Removing(u) => tool[t].channel # tool[u].channel

RemovingOK ==
  \A t \in Clients : Removing(t) =>
    /\ Made(tool[t].channel)
    /\ \A n \in NsNames : names[n] = tool[t].channel => tool[t].pc = "unbind" /\ n = tool[t].name

(* A channel that was destroyed by its name has none, and gets none.       *)
EndedOK ==
  /\ _shutdownRequested \in [Channels -> BOOLEAN]
  /\ \A c \in Channels : _shutdownRequested[c] =>
       /\ phase[c] # "none"
       /\ \/ c \in bypassed
          \/ /\ \A n \in NsNames : names[n] # c
             /\ \A t \in Clients : Making(t) => tool[t].channel # c

NamesOK == BoundOK /\ MakingOK /\ RemovingOK /\ EndedOK

LEMMA NamesInit == Init => NamesOK
<1> SUFFICES ASSUME Init PROVE NamesOK
  OBVIOUS
<1>1. 1 \in Channels /\ Nobody \notin Channels
  BY MaxChannelsAssumption, NobodyAssumption DEF Channels
<1>2. \A t \in Clients : tool[t].pc = "idle"
  BY DEF Init, Idle
<1>3. BoundOK
  BY <1>1 DEF Init, FactoryInit, BoundOK, Made
<1>4. MakingOK /\ RemovingOK
  BY <1>2 DEF MakingOK, RemovingOK, Making, Removing
<1>5. EndedOK
  BY DEF Init, FactoryInit, EndedOK
<1> QED BY <1>3, <1>4, <1>5 DEF NamesOK

(* Channels that are made stay made.                                       *)
Growing == \A c \in Channels : phase[c] # "none" => phase'[c] # "none"

(* No channel is destroyed by this step, except behind the naming          *)
(* service's back.                                                         *)
NoneEnded ==
  /\ _shutdownRequested' \in [Channels -> BOOLEAN]
  /\ bypassed \subseteq bypassed'
  /\ \A c \in Channels : _shutdownRequested'[c] =>
       _shutdownRequested[c] \/ (phase'[c] # "none" /\ c \in bypassed')

(* No tool comes to make a channel or to remove one.                       *)
NoneBegun ==
  \A t \in Clients :
    /\ Making(t)' => Making(t) /\ tool'[t].channel = tool[t].channel
    /\ Removing(t)' => /\ tool'[t].pc = tool[t].pc /\ tool'[t].channel = tool[t].channel
                       /\ tool'[t].name = tool[t].name

LEMMA NamesQuiet ==
  ASSUME NamesOK, Growing, NoneEnded, NoneBegun,
         names' \in [NsNames -> Channels \cup {Nobody}],
         \A n \in NsNames : names'[n] = names[n] \/ names'[n] = Nobody
  PROVE  NamesOK'
<1>1. Nobody \notin Channels
  BY NobodyAssumption
<1>2. \A c : Made(c) => Made(c)'
  BY DEF Made, Growing
<1>3. \A t \in Clients : Removing(t)' => Removing(t)
  BY DEF NoneBegun, Removing
<1>4. BoundOK'
  BY <1>2 DEF NamesOK, BoundOK
<1>5. MakingOK'
  <2>1. \A t \in Clients : Making(t)' =>
          Made(tool[t].channel)' /\ \A n \in NsNames : names'[n] # tool'[t].channel
    BY <1>1, <1>2 DEF NamesOK, MakingOK, NoneBegun, Made
  <2>2. \A t, u \in Clients : Making(t)' /\ Making(u)' /\ tool'[t].channel = tool'[u].channel => t = u
    BY DEF NamesOK, MakingOK, NoneBegun
  <2>3. \A t, u \in Clients : Making(t)' /\ Removing(u)' => tool'[t].channel # tool'[u].channel
    BY <1>3 DEF NamesOK, MakingOK, NoneBegun
  <2> QED BY <2>1, <2>2, <2>3 DEF MakingOK
<1>6. RemovingOK'
  BY <1>1, <1>2, <1>3 DEF NamesOK, RemovingOK, NoneBegun, Made
<1>7. ASSUME NEW c \in Channels, _shutdownRequested'[c]
      PROVE  /\ phase'[c] # "none"
             /\ \/ c \in bypassed'
                \/ /\ \A n \in NsNames : names'[n] # c
                   /\ \A t \in Clients : Making(t)' => tool'[t].channel # c
  <2>1. _shutdownRequested[c] \/ (phase'[c] # "none" /\ c \in bypassed')
    BY <1>7 DEF NoneEnded
  <2>2. CASE _shutdownRequested[c]
    <3>1. /\ phase[c] # "none"
          /\ \/ c \in bypassed
             \/ /\ \A n \in NsNames : names[n] # c
                /\ \A t \in Clients : Making(t) => tool[t].channel # c
      BY <2>2 DEF NamesOK, EndedOK
    <3> QED BY <1>1, <3>1 DEF Growing, NoneEnded, NoneBegun
  <2> QED BY <2>1, <2>2
<1>8. EndedOK'
  BY <1>7 DEF EndedOK, NoneEnded
<1> QED BY <1>4, <1>5, <1>6, <1>8 DEF NamesOK

LEMMA NotBegun ==
  ASSUME NEW t \in Clients, NEW p, NEW n, NEW c, NEW i, Moves(t, p, n, c, i),
         p \notin {"setInsName", "unbind", "destroy"},
         p \in {"bind", "rebind"} => Making(t) /\ c = tool[t].channel
  PROVE  NoneBegun
BY DEF NoneBegun, Moves, Making, Removing

(* The steps that neither make a channel, nor name one, nor destroy one.   *)
LEMMA NamesToolStep ==
  ASSUME ToolShape, StoreOK, NamesOK, Growing, NEW t \in Clients,
         \/ createObjectRaises(t) \/ createObjectEnd(t) \/ createObjectEndRaises(t)
         \/ stringToObject(t) \/ listSize(t) \/ listCopy(t) \/ nextCall(t) \/ nextReturn(t)
         \/ unbindItem(t) \/ iterDestroy(t) \/ iterDestroyReturn(t) \/ deleteAll(t)
         \/ deleteAllEnd(t)
  PROVE  NamesOK'
<1>1. _shutdownRequested' = _shutdownRequested
  BY DEF createObjectRaises, createObjectEnd, setInsName, createObjectEndRaises, setInsNameRaises,
         stringToObject, listSize, listCopy, nextCall, nextReturn, unbindItem, iterDestroy,
         iterDestroyReturn, deleteAll, deleteAllEnd, emptyStart, emptyEnd, emptyRaises,
         factoryVars, channelVars
<1>2. bypassed' = bypassed
  BY DEF createObjectRaises, createObjectEnd, createObjectEndRaises,
         stringToObject, listSize, listCopy, nextCall, nextReturn, unbindItem, iterDestroy,
         iterDestroyReturn, deleteAll, deleteAllEnd
<1>3. NoneEnded
  BY <1>1, <1>2 DEF NoneEnded, NamesOK, EndedOK
<1>4. CASE unbindItem(t)
  <2>1. names' = [n \in NsNames |-> IF tool[t].channel # Nobody /\ n = insName(tool[t].channel)
                                    THEN Nobody ELSE names[n]]
    BY <1>4 DEF unbindItem
  <2>2. /\ names' \in [NsNames -> Channels \cup {Nobody}]
        /\ \A n \in NsNames : names'[n] = names[n] \/ names'[n] = Nobody
    BY <2>1 DEF NamesOK, BoundOK
  <2>3. NoneBegun
    BY <1>4, CallMoves, NotBegun
  <2> QED BY <1>3, <2>2, <2>3, NamesQuiet
<1>5. CASE createObjectEnd(t)
  <2>1. names' = names /\ tool[t].pc = "setInsName"
    BY <1>5 DEF createObjectEnd, pc
  <2>2. NoneBegun
    BY <1>5, <2>1, CallMoves, NotBegun DEF Stays, Ends, Making
  <2> QED BY <1>3, <2>1, <2>2, NamesQuiet DEF NamesOK, BoundOK
<1>6. CASE ~unbindItem(t) /\ ~createObjectEnd(t)
  <2>1. names' = names
    BY <1>6 DEF createObjectRaises, createObjectEndRaises, stringToObject, listSize, listCopy,
       nextCall, nextReturn, iterDestroy, iterDestroyReturn, deleteAll, deleteAllEnd
  <2>2. \E n, c, i : \E q \in {"idle", "destroyUri", "list", "delete_all", "next", "nextReturn",
                               "unbindItem", "destroyReturn", "empty"} : Moves(t, q, n, c, i)
    BY <1>6, CallMoves DEF Stays, Ends
  <2>3. NoneBegun
    BY <2>2, NotBegun
  <2> QED BY <1>3, <2>1, <2>3, NamesQuiet DEF NamesOK, BoundOK
<1> QED BY <1>4, <1>5, <1>6

(* create_object() makes a channel that nobody has named or destroyed.     *)
LEMMA NamesCreate ==
  ASSUME ToolShape, StoreOK, NamesOK, Growing, NEW t \in Clients, createObject(t)
  PROVE  NamesOK'
<1>13. PICK c : c = minimum(unmade)
  OBVIOUS
<1>1. c \in Channels /\ phase[c] = "none" /\ phase' = [phase EXCEPT ![c] = "poa"]
  <2>1. unmade # {} /\ unmade \in SUBSET Channels
    BY DEF createObject, unmade
  <2>2. c \in unmade
    BY <1>13, <2>1, MinimumFacts
  <2>3. phase' = [phase EXCEPT ![c] = "poa"]
    BY <1>13 DEF createObject, createPoa
  <2> QED BY <2>2, <2>3 DEF unmade
<1>2. Moves(t, "setInsName", tool[t].name, c, tool[t].iter)
  BY <1>13, CallMoves
<1>3. names' = names /\ _shutdownRequested' = _shutdownRequested /\ bypassed' = bypassed
  BY DEF createObject, createPoa
<1>4. /\ tool'[t].pc = "setInsName" /\ tool'[t].channel = c
      /\ \A u \in Clients \ {t} : tool'[u] = tool[u]
  BY <1>2 DEF Moves
<1>5. /\ \A d : Made(d) => Made(d)' /\ d # c
      /\ Made(c)'
  BY <1>1 DEF Made, Growing, StoreOK
<1>6. \A n \in NsNames : names[n] # c
  BY <1>1, <1>5, NobodyAssumption DEF NamesOK, BoundOK
<1>7. \A u \in Clients \ {t} :
        /\ Making(u)' => Making(u) /\ tool'[u].channel = tool[u].channel /\ tool[u].channel # c
        /\ Removing(u)' => Removing(u) /\ tool'[u] = tool[u] /\ tool[u].channel # c
  BY <1>4, <1>5 DEF Making, Removing, NamesOK, MakingOK, RemovingOK
<1>8. ~Removing(t)'
  BY <1>4 DEF Removing
<1>9. BoundOK'
  BY <1>3, <1>5 DEF NamesOK, BoundOK
<1>10. MakingOK'
  BY <1>3, <1>4, <1>5, <1>6, <1>7, <1>8 DEF NamesOK, MakingOK
<1>11. RemovingOK'
  BY <1>3, <1>5, <1>7, <1>8 DEF NamesOK, RemovingOK
<1>12. EndedOK'
  <2>1. \A d \in Channels : _shutdownRequested[d] => d # c
    BY <1>1 DEF NamesOK, EndedOK
  <2> QED BY <1>3, <1>4, <1>7, <2>1 DEF NamesOK, EndedOK, Growing
<1> QED BY <1>9, <1>10, <1>11, <1>12 DEF NamesOK

(* eventc gives its channel a name.                                        *)
LEMMA NamesBind ==
  ASSUME ToolShape, StoreOK, NamesOK, Growing, NEW t \in Clients, bind(t) \/ rebind(t)
  PROVE  NamesOK'
<1> DEFINE c == tool[t].channel
           m == tool[t].name
<1>1. /\ _shutdownRequested' = _shutdownRequested /\ bypassed' = bypassed /\ phase' = phase
      /\ Making(t)
  BY DEF bind, rebind, factoryVars, channelVars, pc, Making
<1>2. CASE names' = names
  <2>1. NoneEnded
    BY <1>1 DEF NoneEnded, NamesOK, EndedOK
  <2>2. NoneBegun
    BY <1>1, CallMoves, NotBegun DEF Stays, Ends
  <2> QED BY <1>2, <2>1, <2>2, NamesQuiet DEF NamesOK, BoundOK
<1>3. CASE names' # names
  <2>1. names' = [names EXCEPT ![m] = c] /\ finish(t)
    BY <1>3 DEF bind, rebind
  <2>2. Moves(t, "idle", NoName, Nobody, Nobody)
    BY <2>1, FinishMoves
  <2>3. Made(c) /\ (\A n \in NsNames : names[n] # c) /\ c # Nobody
    BY <1>1, NobodyAssumption DEF NamesOK, MakingOK, Made
  <2>4. /\ \A n \in NsNames : n # m => names'[n] = names[n]
        /\ \A n \in NsNames : n = m => names'[n] = c
        /\ names' \in [NsNames -> Channels \cup {Nobody}]
    BY <2>1, <2>3 DEF NamesOK, BoundOK, Made
  <2>5. ~Making(t)' /\ ~Removing(t)' /\ \A u \in Clients \ {t} : tool'[u] = tool[u]
    BY <2>2 DEF Moves, Making, Removing
  <2>6. \A u \in Clients \ {t} :
          /\ Making(u)' => Making(u) /\ tool'[u].channel = tool[u].channel /\ tool[u].channel # c
          /\ Removing(u)' => Removing(u) /\ tool'[u] = tool[u] /\ tool[u].channel # c
    BY <1>1, <2>5 DEF NamesOK, MakingOK, Making, Removing
  <2>7. \A d : Made(d) => Made(d)'
    BY <1>1 DEF Made
  <2>8. \A d \in Channels : _shutdownRequested[d] /\ d = c => d \in bypassed
    BY <1>1 DEF NamesOK, EndedOK
  <2> HIDE DEF c, m
  <2>9. BoundOK'
    BY <2>3, <2>4, <2>7 DEF NamesOK, BoundOK
  <2>10. MakingOK'
    BY <2>4, <2>5, <2>6, <2>7 DEF NamesOK, MakingOK
  <2>11. RemovingOK'
    BY <2>4, <2>5, <2>6, <2>7 DEF NamesOK, RemovingOK
  <2>12. EndedOK'
    BY <1>1, <2>4, <2>5, <2>6, <2>8 DEF NamesOK, EndedOK
  <2> QED BY <2>9, <2>10, <2>11, <2>12 DEF NamesOK
<1> QED BY <1>2, <1>3

(* rmeventc looks a channel up, takes its name away and destroys it.       *)
LEMMA NamesResolve ==
  ASSUME ToolShape, StoreOK, NamesOK, Growing, NEW t \in Clients, resolve(t), tool[t].name \in NsNames
  PROVE  NamesOK'
<1> DEFINE c == names[tool[t].name]
<1>1. /\ names' = names /\ _shutdownRequested' = _shutdownRequested /\ bypassed' = bypassed
      /\ phase' = phase
  BY DEF resolve, factoryVars, channelVars
<1>2. CASE Moves(t, "idle", NoName, Nobody, Nobody)
  <2>1. NoneEnded
    BY <1>1 DEF NoneEnded, NamesOK, EndedOK
  <2>2. NoneBegun
    BY <1>2, NotBegun
  <2> QED BY <1>1, <2>1, <2>2, NamesQuiet DEF NamesOK, BoundOK
<1>3. CASE Moves(t, "unbind", tool[t].name, c, tool[t].iter) /\ c # Nobody
  <2>1. /\ tool'[t].pc = "unbind" /\ tool'[t].name = tool[t].name /\ tool'[t].channel = c
        /\ \A u \in Clients \ {t} : tool'[u] = tool[u]
    BY <1>3 DEF Moves
  <2>2. Made(c) /\ \A n \in NsNames : names[n] = c => n = tool[t].name
    BY <1>3 DEF NamesOK, BoundOK
  <2>3. \A d : Made(d) => Made(d)'
    BY <1>1 DEF Made
  <2>4. ~Making(t)' /\ \A u \in Clients \ {t} :
          /\ Making(u)' => Making(u) /\ tool'[u].channel = tool[u].channel /\ tool[u].channel # c
          /\ Removing(u)' => Removing(u) /\ tool'[u] = tool[u]
    BY <2>1 DEF NamesOK, MakingOK, Making, Removing
  <2> HIDE DEF c
  <2>5. BoundOK'
    BY <1>1, <2>3 DEF NamesOK, BoundOK
  <2>6. MakingOK'
    BY <1>1, <2>1, <2>3, <2>4 DEF NamesOK, MakingOK
  <2>7. RemovingOK'
    BY <1>1, <2>1, <2>2, <2>3, <2>4 DEF NamesOK, RemovingOK
  <2>8. EndedOK'
    BY <1>1, <2>4 DEF NamesOK, EndedOK
  <2> QED BY <2>5, <2>6, <2>7, <2>8 DEF NamesOK
<1> QED BY <1>2, <1>3, CallMoves DEF Ends

LEMMA NamesUnbind ==
  ASSUME ToolShape, StoreOK, NamesOK, Growing, NEW t \in Clients, unbind(t), tool[t].name \in NsNames
  PROVE  NamesOK'
<1>4. PICK c : c = tool[t].channel
  OBVIOUS
<1>1. /\ _shutdownRequested' = _shutdownRequested /\ bypassed' = bypassed /\ phase' = phase
      /\ tool[t].pc = "unbind"
  BY DEF unbind, factoryVars, channelVars, pc
<1>2. CASE Moves(t, "idle", NoName, Nobody, Nobody) /\ names' = names
  <2>1. NoneEnded
    BY <1>1 DEF NoneEnded, NamesOK, EndedOK
  <2>2. NoneBegun
    BY <1>2, NotBegun
  <2> QED BY <1>2, <2>1, <2>2, NamesQuiet DEF NamesOK, BoundOK
<1>3. CASE /\ Moves(t, "destroy", tool[t].name, c, tool[t].iter)
           /\ names' = [names EXCEPT ![tool[t].name] = Nobody]
  <2>1. /\ tool'[t].pc = "destroy" /\ tool'[t].channel = c
        /\ \A u \in Clients \ {t} : tool'[u] = tool[u]
    BY <1>3 DEF Moves
  <2>2. Removing(t) /\ Made(c) /\ (\A n \in NsNames : names[n] = c => n = tool[t].name)
        /\ c # Nobody
    BY <1>1, <1>4, NobodyAssumption DEF NamesOK, RemovingOK, Removing, Made
  <2>3. /\ names' \in [NsNames -> Channels \cup {Nobody}]
        /\ names'[tool[t].name] = Nobody
        /\ \A n \in NsNames : names'[n] = names[n] \/ names'[n] = Nobody
    BY <1>3 DEF NamesOK, BoundOK
  <2>4. \A n \in NsNames : names'[n] # c
    BY <2>2, <2>3
  <2>5. \A d : Made(d) => Made(d)' /\ d # Nobody
    BY <1>1, NobodyAssumption DEF Made
  <2>6. ~Making(t)' /\ \A u \in Clients \ {t} :
          /\ Making(u)' => Making(u) /\ tool'[u].channel = tool[u].channel /\ tool[u].channel # c
          /\ Removing(u)' => Removing(u) /\ tool'[u] = tool[u]
    BY <1>4, <2>1, <2>2 DEF NamesOK, MakingOK, Making, Removing
  <2>7. BoundOK'
    BY <2>3, <2>5 DEF NamesOK, BoundOK
  <2>8. MakingOK'
    BY <2>1, <2>3, <2>5, <2>6 DEF NamesOK, MakingOK
  <2>9. RemovingOK'
    <3>1. Made(c)'
      BY <2>2, <2>5
    <3> QED BY <2>1, <2>3, <2>4, <2>5, <2>6, <3>1 DEF NamesOK, RemovingOK
  <2>10. EndedOK'
    BY <1>1, <2>3, <2>6, NobodyAssumption DEF NamesOK, EndedOK
  <2> QED BY <2>7, <2>8, <2>9, <2>10 DEF NamesOK
<1> QED BY <1>2, <1>3, <1>4, CallMoves DEF Ends, Stays

LEMMA NamesDestroy ==
  ASSUME ToolShape, StoreOK, NamesOK, Growing, NEW t \in Clients, destroyChannel(t)
  PROVE  NamesOK'
<1>1. Moves(t, "idle", NoName, Nobody, Nobody) /\ names' = names
  BY CallMoves DEF Ends, destroyChannel
<1>2. NoneBegun
  BY <1>1, NotBegun
<1>3. CASE UNCHANGED <<factoryVars, bypassed>>
  <2>1. NoneEnded
    BY <1>3 DEF NoneEnded, NamesOK, EndedOK, factoryVars, channelVars
  <2> QED BY <1>1, <1>2, <2>1, NamesQuiet DEF NamesOK, BoundOK
<1>4. PICK c : c = tool[t].channel
  OBVIOUS
<1>5. ASSUME destroy(c),
             bypassed' = IF pc(t, "destroyUri") THEN bypassed \cup {c} ELSE bypassed
      PROVE  NamesOK'
  <2>1. /\ phase[c] = "stored" /\ phase' = phase
        /\ _shutdownRequested' = [_shutdownRequested EXCEPT ![c] = TRUE]
    BY <1>5 DEF destroy, responds
  <2>2. /\ _shutdownRequested' \in [Channels -> BOOLEAN]
        /\ \A d \in Channels : _shutdownRequested'[d] => _shutdownRequested[d] \/ d = c
    BY <2>1 DEF NamesOK, EndedOK
  <2>3. CASE pc(t, "destroyUri")
    <3>1. bypassed' = bypassed \cup {c}
      BY <1>5, <2>3
    <3>2. NoneEnded
      BY <2>1, <2>2, <3>1 DEF NoneEnded
    <3> QED BY <1>1, <1>2, <3>2, NamesQuiet DEF NamesOK, BoundOK
  <2>4. CASE ~pc(t, "destroyUri")
    <3>1. tool[t].pc = "destroy" /\ bypassed' = bypassed
      BY <1>5, <2>4 DEF destroyChannel, pc
    <3>2. /\ Removing(t) /\ \A n \in NsNames : names[n] # c
      BY <1>4, <3>1 DEF NamesOK, RemovingOK, Removing
    <3>3. \A u \in Clients : Making(u)' => Making(u) /\ tool'[u].channel # c
                             /\ tool'[u].channel = tool[u].channel
      BY <1>2, <1>4, <3>2 DEF NoneBegun, NamesOK, MakingOK
    <3>4. \A u \in Clients : Removing(u)' => /\ Removing(u) /\ tool'[u].pc = tool[u].pc
                                             /\ tool'[u].channel = tool[u].channel
                                             /\ tool'[u].name = tool[u].name
      BY <1>2 DEF NoneBegun, Removing
    <3>5. \A d : Made(d) => Made(d)'
      BY <2>1 DEF Made
    <3>6. BoundOK'
      BY <1>1, <3>5 DEF NamesOK, BoundOK
    <3>7. MakingOK'
      BY <1>1, <3>3, <3>4, <3>5 DEF NamesOK, MakingOK
    <3>8. RemovingOK'
      BY <1>1, <3>4, <3>5 DEF NamesOK, RemovingOK
    <3>9. \A d \in Channels : _shutdownRequested'[d] =>
            /\ phase'[d] # "none"
            /\ \/ d \in bypassed'
               \/ /\ \A n \in NsNames : names'[n] # d
                  /\ \A u \in Clients : Making(u)' => tool'[u].channel # d
      <4>1. \A d \in Channels : d = c =>
              /\ phase'[d] # "none"
              /\ \A n \in NsNames : names'[n] # d
              /\ \A u \in Clients : Making(u)' => tool'[u].channel # d
        BY <1>1, <2>1, <3>2, <3>3
      <4>2. \A d \in Channels : _shutdownRequested[d] =>
              /\ phase'[d] # "none"
              /\ \/ d \in bypassed'
                 \/ /\ \A n \in NsNames : names'[n] # d
                    /\ \A u \in Clients : Making(u)' => tool'[u].channel # d
        BY <1>1, <2>1, <3>1, <3>3 DEF NamesOK, EndedOK
      <4> QED BY <2>2, <4>1, <4>2
    <3>10. EndedOK'
      BY <2>2, <3>9 DEF EndedOK
    <3> QED BY <3>6, <3>7, <3>8, <3>10 DEF NamesOK
  <2> QED BY <2>3, <2>4
<1> QED BY <1>3, <1>4, <1>5 DEF destroyChannel

(* delete_all() destroys what is in the store.                             *)
LEMMA NamesDelete ==
  ASSUME StoreOK, NamesOK, Growing, NEW t \in Clients, deleteOne(t)
  PROVE  NamesOK'
<1>1. PICK c : c = minimum(todo)
  OBVIOUS
<1>2. /\ todo # {} /\ _shutdownRequested' = [_shutdownRequested EXCEPT ![c] = TRUE]
      /\ phase' = phase /\ bypassed' = bypassed \cup {c} /\ names' = names /\ tool' = tool
  BY <1>1 DEF deleteOne, emptyOne
<1>3. c \in todo
  <2>1. todo \in SUBSET Channels
    BY DEF StoreOK
  <2> QED BY <1>1, <1>2, <2>1, MinimumFacts
<1>4. phase'[c] # "none"
  BY <1>2, <1>3 DEF StoreOK
<1>5. /\ _shutdownRequested' \in [Channels -> BOOLEAN]
      /\ \A d \in Channels : _shutdownRequested'[d] => _shutdownRequested[d] \/ d = c
  BY <1>2 DEF NamesOK, EndedOK
<1>6. NoneEnded
  BY <1>2, <1>4, <1>5 DEF NoneEnded
<1>7. NoneBegun
  BY <1>2 DEF NoneBegun, Making, Removing
<1> QED BY <1>2, <1>6, <1>7, NamesQuiet DEF NamesOK, BoundOK

(* rmeventc has the name that it was given.                                *)
LookupOK == \A t \in Clients : tool[t].pc \in {"resolve", "unbind"} => tool[t].name \in NsNames

ToolsOK == IteratorsOK /\ StoreOK /\ NamesOK /\ LookupOK

(* The store, through all steps: only the factory's operations change it.  *)
LEMMA StoreStep ==
  ASSUME ToolsOK, [Next]_vars
  PROVE  StoreOK' /\ Growing
<1>1. ASSUME UNCHANGED factoryVars
      PROVE  StoreOK' /\ Growing
  BY <1>1 DEF ToolsOK, StoreOK, Growing, factoryVars, channelVars, storeVars
<1>2. CASE UNCHANGED vars
  BY <1>1, <1>2 DEF vars
<1>3. ASSUME NEW c \in Channels, ChannelStep(c) PROVE StoreOK' /\ Growing
  BY <1>3, ChannelStepStore DEF ToolsOK, Growing, ChannelStep
<1>4. CASE Time \/ \E i \in Iterators : Sweep(i)
  BY <1>1, <1>4 DEF Time, Sweep
<1>5. ASSUME NEW t \in Clients, createObject(t) PROVE StoreOK' /\ Growing
  <2>1. unmade # {} /\ unmade \in SUBSET Channels
    BY <1>5 DEF createObject, unmade
  <2>2. minimum(unmade) \in Channels
    BY <2>1, MinimumFacts
  <2>3. \E attr : createPoa(minimum(unmade), attr)
    BY <1>5 DEF createObject
  <2> QED BY <2>2, <2>3, ChannelStepStore DEF ToolsOK, Growing
<1>6. ASSUME NEW t \in Clients, createObjectEnd(t) \/ createObjectEndRaises(t)
      PROVE  StoreOK' /\ Growing
  <2>1. tool[t].pc = "setInsName" /\ Making(t)
    BY <1>6 DEF createObjectEnd, createObjectEndRaises, pc, Making
  <2>2. tool[t].channel \in Channels
    BY <2>1 DEF ToolsOK, NamesOK, MakingOK, Made
  <2>3. setInsName(tool[t].channel) \/ setInsNameRaises(tool[t].channel)
    BY <1>6 DEF createObjectEnd, createObjectEndRaises
  <2> QED BY <2>2, <2>3, ChannelStepStore DEF ToolsOK, Growing
<1>7. ASSUME NEW t \in Clients, deleteAll(t) \/ deleteOne(t) \/ deleteAllEnd(t)
      PROVE  StoreOK' /\ Growing
  <2>1. emptyStart(t) \/ emptyOne(t) \/ emptyRaises(t) \/ emptyEnd(t)
    BY <1>7 DEF deleteAll, deleteOne, deleteAllEnd
  <2> QED BY <2>1, EmptyStepStore DEF ToolsOK, Growing
<1>8. ASSUME NEW t \in Clients, destroyChannel(t) PROVE StoreOK' /\ Growing
  <2>1. phase' = phase /\ UNCHANGED storeVars
    BY <1>8 DEF destroyChannel, destroy, factoryVars, channelVars, storeVars
  <2> QED BY <2>1 DEF ToolsOK, StoreOK, Growing, storeVars
<1>9. ASSUME NEW t \in Clients, ToolStarts(t) PROVE StoreOK' /\ Growing
  BY <1>1, <1>9, StartMoves DEF ToolsOK, IteratorsOK
<1>10. ASSUME NEW t \in Clients,
              \/ createObjectRaises(t) \/ bind(t) \/ rebind(t) \/ resolve(t) \/ unbind(t)
              \/ stringToObject(t) \/ listSize(t) \/ nextCall(t) \/ unbindItem(t)
              \/ iterDestroy(t) \/ listCopy(t) \/ nextReturn(t) \/ iterDestroyReturn(t)
       PROVE  StoreOK' /\ Growing
  <2>1. UNCHANGED factoryVars
    BY <1>10 DEF createObjectRaises, bind, rebind, resolve, unbind, stringToObject, listSize,
       nextCall, unbindItem, iterDestroy, listCopy, nextReturn, iterDestroyReturn
  <2> QED BY <1>1, <2>1
<1>11. CASE Hangs
  <2>1. UNCHANGED <<phase, _channels, storeLock, todo>>
    BY <1>11, HangFacts DEF channelVars
  <2> QED BY <2>1 DEF ToolsOK, StoreOK, Growing
<1> QED
  BY <1>2, <1>3, <1>4, <1>5, <1>6, <1>7, <1>8, <1>9, <1>10, <1>11
  DEF Next, ToolCalls, ServerStep, Hangs

(* The names, through all steps.                                           *)
LEMMA NamesStep ==
  ASSUME ToolsOK, [Next]_vars
  PROVE  NamesOK'
<1>1. ToolShape /\ StoreOK /\ NamesOK /\ Growing
  BY StoreStep DEF ToolsOK, IteratorsOK
<1>2. ASSUME UNCHANGED toolVars, _shutdownRequested' = _shutdownRequested
      PROVE  NamesOK'
  <2>1. NoneEnded
    BY <1>1, <1>2 DEF NoneEnded, NamesOK, EndedOK, toolVars
  <2>2. NoneBegun
    BY <1>2 DEF NoneBegun, Making, Removing, toolVars
  <2> QED BY <1>1, <1>2, <2>1, <2>2, NamesQuiet DEF NamesOK, BoundOK, toolVars
<1>3. CASE UNCHANGED vars
  BY <1>2, <1>3 DEF vars, factoryVars, channelVars
<1>4. ASSUME NEW c \in Channels, ChannelStep(c) PROVE NamesOK'
  BY <1>2, <1>4
     DEF ChannelStep, channelThread, storeInsert, storeErase, destroyPoa, deleteChannel
<1>5. CASE Time \/ \E i \in Iterators : Sweep(i)
  BY <1>2, <1>5 DEF Time, Sweep, factoryVars, channelVars
<1>6. ASSUME NEW t \in Clients, ToolStarts(t) PROVE NamesOK'
  <2>1. /\ UNCHANGED <<factoryVars, names, bypassed>>
        /\ \E n, i : \E q \in {"idle", "create_object", "resolve", "string_to_object",
                               "delete_all", "list_channels"} : Moves(t, q, n, Nobody, i)
    BY <1>1, <1>6, StartMoves
  <2>2. NoneEnded
    BY <1>1, <2>1 DEF NoneEnded, NamesOK, EndedOK, factoryVars, channelVars
  <2>3. NoneBegun
    BY <2>1, NotBegun
  <2> QED BY <1>1, <2>1, <2>2, <2>3, NamesQuiet DEF NamesOK, BoundOK
<1>7. ASSUME NEW t \in Clients, resolve(t) \/ unbind(t) PROVE NamesOK'
  <2>1. tool[t].name \in NsNames
    BY <1>7 DEF ToolsOK, LookupOK, resolve, unbind, pc
  <2> QED BY <1>1, <1>7, <2>1, NamesResolve, NamesUnbind
<1>8. ASSUME NEW t \in Clients, ToolCalls(t) \/ ServerStep(t), ~resolve(t), ~unbind(t)
      PROVE  NamesOK'
  BY <1>1, <1>8, NamesToolStep, NamesCreate, NamesBind, NamesDestroy, NamesDelete
     DEF ToolCalls, ServerStep
<1>9. CASE Hangs
  BY <1>2, <1>9, HangFacts DEF channelVars
<1> QED BY <1>3, <1>4, <1>5, <1>6, <1>7, <1>8, <1>9 DEF Next, Hangs

LEMMA LookupStep ==
  ASSUME ToolsOK, [Next]_vars
  PROVE  LookupOK'
<1>1. ToolShape
  BY DEF ToolsOK, IteratorsOK
<1>2. ASSUME tool' = tool
      PROVE  LookupOK'
  BY <1>2 DEF ToolsOK, LookupOK
<1>3. ASSUME NEW t \in Clients, NEW q, NEW n, NEW c, NEW i, Moves(t, q, n, c, i),
             q \in {"resolve", "unbind"} => n \in NsNames
      PROVE  LookupOK'
  BY <1>3 DEF ToolsOK, LookupOK, Moves
<1>4. CASE UNCHANGED vars \/ Time \/ (\E i \in Iterators : Sweep(i)) \/ \E c \in Channels : ChannelStep(c)
  BY <1>2, <1>4 DEF vars, Time, Sweep, ChannelStep, toolVars
<1>5. ASSUME NEW t \in Clients, ToolStarts(t) PROVE LookupOK'
  <2>1. \E n, i : \E q \in {"idle", "create_object", "resolve", "string_to_object",
                            "delete_all", "list_channels"} :
          Moves(t, q, n, Nobody, i) /\ (q = "resolve" => n \in NsNames)
    BY <1>1, <1>5, StartMoves
  <2> QED BY <1>3, <2>1
<1>6. ASSUME NEW t \in Clients, resolve(t) PROVE LookupOK'
  <2>1. tool[t].name \in NsNames
    BY <1>6 DEF ToolsOK, LookupOK, resolve, pc
  <2>2. \E q, n, c, i : Moves(t, q, n, c, i) /\ (q \in {"resolve", "unbind"} => n \in NsNames)
    BY <1>1, <1>6, <2>1, CallMoves DEF Ends
  <2> QED BY <1>3, <2>2
<1>7. ASSUME NEW t \in Clients, ToolCalls(t) \/ ServerStep(t), ~resolve(t) PROVE LookupOK'
  <2>1. \/ tool' = tool
        \/ \E n, c, i : \E q \in {"setInsName", "idle", "bind", "rebind", "destroy", "destroyUri",
             "list", "delete_all", "next", "nextReturn", "unbindItem", "destroyReturn", "empty"} :
             Moves(t, q, n, c, i)
    BY <1>1, <1>7, CallMoves DEF ToolCalls, ServerStep, Stays, Ends, deleteOne
  <2> QED BY <1>2, <1>3, <2>1
<1>8. CASE Hangs
  BY <1>2, <1>8, HangFacts DEF toolVars
<1> QED BY <1>4, <1>5, <1>6, <1>7, <1>8 DEF Next, Hangs

(* The inductive invariant holds always.                                   *)
THEOREM ToolsInvariance == Spec => []ToolsOK
<1>1. Init => ToolsOK
  <2> SUFFICES ASSUME Init PROVE ToolsOK
    OBVIOUS
  <2>1. tool = [t \in Clients |-> Idle]
    BY DEF Init
  <2>2. ToolShape
    BY <2>1, IdleShape DEF ToolShape
  <2>3. LookupOK
    BY <2>1 DEF LookupOK, Idle
  <2> QED BY <2>2, <2>3, IteratorInit, StoreInit, NamesInit DEF ToolsOK, IteratorsOK
<1>2. ToolsOK /\ [Next]_vars => ToolsOK'
  BY IteratorsStep, StoreStep, NamesStep, LookupStep DEF ToolsOK
<1> QED BY <1>1, <1>2, PTL DEF Spec

(* EventChannelStore::empty() and the threads of the channels: whatever is *)
(* in the store, and whatever delete_all() has still to visit, is a        *)
(* channel that has not been deleted.                                      *)
THEOREM StoreStaysAlive == Spec => []StoreIsAlive
<1>1. ToolsOK => StoreIsAlive
  BY DEF ToolsOK, StoreOK, StoreIsAlive
<1> QED BY ToolsInvariance, <1>1, PTL

(* GCServantLocator: an iterator has as many references as the map and the *)
(* call under way hold, through sweeps and destroy().                      *)
THEOREM IteratorsStayAlive == Spec => []IteratorsAlive
<1>1. ToolsOK => IteratorsAlive
  BY DEF ToolsOK, IteratorsOK, CountsOK
<1> QED BY ToolsInvariance, <1>1, PTL

(* rmeventc and eventc: a name leads to a destroyed channel only if it was *)
(* not destroyed by its name.                                              *)
THEOREM NamesStayAlive == Spec => []NamesAreAlive
<1>1. ToolsOK => NamesAreAlive
  <2> SUFFICES ASSUME ToolsOK, NEW n \in NsNames, names[n] # Nobody, _shutdownRequested[names[n]]
               PROVE  names[n] \in bypassed
    BY DEF NamesAreAlive
  <2>1. names[n] \in Channels
    BY DEF ToolsOK, NamesOK, BoundOK
  <2> QED BY <2>1 DEF ToolsOK, NamesOK, EndedOK
<1> QED BY ToolsInvariance, <1>1, PTL
=============================================================================
