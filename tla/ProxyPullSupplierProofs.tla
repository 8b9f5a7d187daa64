----------------------- MODULE ProxyPullSupplierProofs -----------------------
(***************************************************************************)
(* Proofs about ProxyPullSupplier for every queue length, limit on the     *)
(* number of proxies, set of clients and number of events.                 *)
(*                                                                         *)
(* The argument for pull(), which takes no mutex.  A transfer waits for    *)
(* calls to return, so only push() appends beside pull(), and only once:   *)
(* it deletes the event at _next when it begins, and _useLocalQueue stops  *)
(* the next one.  When pull() has seen moreEvents(), it is not at _next.   *)
(* If push() catches up with it before it reads, push() is over; if push() *)
(* begins after the read, then what was read is not at _next, because the  *)
(* ring holds no event twice.                                              *)
(***************************************************************************)
EXTENDS ProxyPullSupplier, FiniteSetTheorems, TLAPS

(* Who appends: push() beside calls, with _useLocalQueue off; the          *)
(* channel's thread in a transfer, without calls.                          *)
WriterOK ==
  /\ writer.pc = "idle" <=> writer.by = "none"
  /\ writer.pc = "store" => made < MaxEvents
  /\ writer.by = "push" => ~useLocal /\ pm # "transfer"
  /\ writer.by = "channel" => pm = "transfer"

CallOK ==
  /\ call.pc = "idle" => call = idleCall
  /\ call.pc # "idle" => call.p \in Proxies /\ call.op # "none"
  /\ call # idleCall => pm # "transfer"

(* The ring after its first turn.                                          *)
Full == \A i \in Slots : queue[i] # NULL

(* No event is in the ring twice, and those in it are alive but for the    *)
(* one that append() is replacing.                                         *)
RingOK ==
  /\ \A i \in Slots : queue[i] <= made
  /\ \A i, j \in Slots : queue[i] = queue[j] => i = j \/ queue[i] = NULL
  /\ \A i \in Slots :
       queue[i] # NULL /\ ~(writer.pc = "store" /\ i = next) => queue[i] \in heap
  /\ \A i \in Slots : i < next => queue[i] # NULL
  /\ writer.pc = "move" => queue[next] # NULL

ReaderOK == \A p \in Proxies : rnext[p] > next => Full

(* pull() between moreEvents() and nextEvent(): when it is at _next, it    *)
(* was lapped, and nobody appends until it returns.                        *)
NextOK ==
  call.pc = "next" /\ rnext[call.p] = next => Full /\ writer = idleWriter /\ useLocal

(* pull() that has read an event: an append that may yet begin does not    *)
(* delete it.                                                              *)
CopyOK ==
  call.pc = "copy" =>
    /\ call.event \in heap
    /\ writer = idleWriter /\ ~useLocal => call.event # queue[next]

(* The inductive invariant for the queue.                                  *)
IInv == TypeOK /\ WriterOK /\ CallOK /\ RingOK /\ ReaderOK /\ NextOK /\ CopyOK

(* The inductive invariant for the servants.                               *)
ServantsOK == IsFiniteSet(servants) /\ FewProxies

-----------------------------------------------------------------------------
(* The ring has at least two slots, and (_next+1)%_size is one of them.    *)
LEMMA SuccCases ==
  /\ Size \in Nat /\ Size > 1
  /\ \A i \in Slots : Succ(i) = (IF i + 1 = Size THEN 0 ELSE i + 1) /\ Succ(i) \in Slots
<1>1. Size \in Nat /\ Size > 1
  BY PullSupplierAssumption DEF Size
<1>2. ASSUME NEW i \in Slots
      PROVE  Succ(i) = (IF i + 1 = Size THEN 0 ELSE i + 1) /\ Succ(i) \in Slots
  <2>1. CASE i + 1 = Size
    BY <1>1, <2>1 DEF Succ, Slots
  <2>2. CASE i + 1 # Size
    BY <1>1, <2>2 DEF Succ, Slots
  <2> QED BY <2>1, <2>2
<1> QED BY <1>1, <1>2

(* A new channel satisfies the invariant.                                  *)
LEMMA InitIInv == Init => IInv
<1> SUFFICES ASSUME Init PROVE IInv
  OBVIOUS
<1> USE PullSupplierAssumption, SuccCases DEF Init
<1>1. QueueTypes
  BY DEF QueueTypes, Slots, NULL, idleWriter
<1>2. FlagTypes
  BY DEF FlagTypes
<1>3. ServantTypes
  BY DEF ServantTypes
<1>4. CallTypes
  BY DEF CallTypes, idleCall, NULL
<1>5. WriterOK /\ CallOK
  BY DEF WriterOK, CallOK, idleWriter, idleCall
<1>6. RingOK /\ ReaderOK
  BY DEF RingOK, ReaderOK, Slots, NULL, idleWriter
<1>7. NextOK /\ CopyOK
  BY DEF NextOK, CopyOK, idleCall
<1> QED BY <1>1, <1>2, <1>3, <1>4, <1>5, <1>6, <1>7 DEF IInv, TypeOK

(* Types, and who may write and call when, are kept by every step.         *)
LEMMA QueueTypesStep ==
  ASSUME TypeOK, WriterOK, CallOK, [Next]_vars
  PROVE  QueueTypes'
<1> USE PullSupplierAssumption DEF TypeOK, QueueTypes, CallTypes, WriterOK, CallOK, queueVars, writeVars,
                               NULL, idleWriter
<1>1. CASE push \/ send
  <2>1. writer' \in [pc : {"idle", "store", "move"}, by : {"none", "push", "channel"}]
    BY <1>1 DEF push, send, appendDelete
  <2> QED BY <1>1, <2>1 DEF push, send, appendDelete
<1>2. CASE appendStore
  BY <1>2, SuccCases DEF appendStore
<1>3. CASE appendMove
  BY <1>3, SuccCases DEF appendMove
<1>4. CASE hold_requests \/ collect \/ activate \/ Tick
  BY <1>4, SuccCases DEF hold_requests, collect, activate, Tick
<1>5. ASSUME NEW p \in Proxies, NEW op \in {"connect", "disconnect", "pull"}, StartCall(op, p)
      PROVE  QueueTypes'
  BY <1>5, SuccCases DEF StartCall
<1>6. CASE incarnate
  BY <1>6, SuccCases DEF incarnate, newServant
<1>7. CASE incarnateFull
  BY <1>7, SuccCases DEF incarnateFull, evict, evictAny, newServant, Evictable, servants
<1>8. CASE connect_pull_consumer
  BY <1>8, SuccCases DEF connect_pull_consumer, return, touch
<1>9. CASE disconnect_pull_supplier
  BY <1>9, SuccCases DEF disconnect_pull_supplier, return, touch
<1>10. CASE pullEmpty \/ pullReturn
  BY <1>10, SuccCases DEF pullEmpty, pullReturn, return, touch
<1>11. CASE pullEvent
  BY <1>11, SuccCases DEF pullEvent, touch
<1>12. CASE nextEvent
  BY <1>12, SuccCases DEF nextEvent
<1>13. ASSUME NEW p \in Proxies, etherealize(p)
       PROVE  QueueTypes'
  <2>1. 0 \in Slots
    BY SuccCases DEF Slots
  <2> QED BY <1>13, <2>1 DEF etherealize
<1>14. CASE UNCHANGED vars
  BY <1>14, SuccCases DEF vars
<1> QED
  BY <1>1, <1>2, <1>3, <1>4, <1>5, <1>6, <1>7, <1>8, <1>9, <1>10, <1>11, <1>12, <1>13, <1>14
    DEF Next, Append, POAThread

(* The flags.                                                              *)
LEMMA FlagTypesStep ==
  ASSUME TypeOK, WriterOK, CallOK, [Next]_vars
  PROVE  FlagTypes'
<1> USE PullSupplierAssumption DEF TypeOK, FlagTypes, CallTypes, QueueTypes, CallOK, writeVars, proxyVars
<1>1. CASE push \/ send
  BY <1>1 DEF push, send, appendDelete
<1>2. CASE appendStore
  BY <1>2 DEF appendStore
<1>3. CASE appendMove
  BY <1>3 DEF appendMove
<1>4. CASE hold_requests \/ collect \/ activate \/ Tick
  BY <1>4 DEF hold_requests, collect, activate, Tick
<1>5. ASSUME NEW p \in Proxies, NEW op \in {"connect", "disconnect", "pull"}, StartCall(op, p)
      PROVE  FlagTypes'
  BY <1>5 DEF StartCall
<1>6. CASE incarnate
  BY <1>6 DEF incarnate, newServant
<1>7. CASE incarnateFull
  BY <1>7 DEF incarnateFull, evict, evictAny, newServant, Evictable, servants
<1>8. CASE connect_pull_consumer
  BY <1>8 DEF connect_pull_consumer, return, touch
<1>9. CASE disconnect_pull_supplier
  BY <1>9 DEF disconnect_pull_supplier, return, touch
<1>10. CASE pullEmpty \/ pullReturn
  BY <1>10 DEF pullEmpty, pullReturn, return, touch
<1>11. CASE pullEvent
  BY <1>11 DEF pullEvent, touch
<1>12. CASE nextEvent
  BY <1>12 DEF nextEvent
<1>13. ASSUME NEW p \in Proxies, etherealize(p)
       PROVE  FlagTypes'
  BY <1>13 DEF etherealize
<1>14. CASE UNCHANGED vars
  BY <1>14 DEF vars
<1> QED
  BY <1>1, <1>2, <1>3, <1>4, <1>5, <1>6, <1>7, <1>8, <1>9, <1>10, <1>11, <1>12, <1>13, <1>14
    DEF Next, Append, POAThread

(* The servants.                                                           *)
LEMMA ServantTypesStep ==
  ASSUME TypeOK, WriterOK, CallOK, [Next]_vars
  PROVE  ServantTypes'
<1> USE PullSupplierAssumption DEF TypeOK, ServantTypes, CallTypes, CallOK, proxyVars
<1>1. CASE push \/ send
  BY <1>1 DEF push, send, appendDelete
<1>2. CASE appendStore
  BY <1>2 DEF appendStore
<1>3. CASE appendMove
  BY <1>3 DEF appendMove
<1>4. CASE hold_requests \/ collect \/ activate \/ Tick
  BY <1>4 DEF hold_requests, collect, activate, Tick
<1>5. ASSUME NEW p \in Proxies, NEW op \in {"connect", "disconnect", "pull"}, StartCall(op, p)
      PROVE  ServantTypes'
  BY <1>5 DEF StartCall
<1>6. CASE incarnate
  BY <1>6 DEF incarnate, newServant
<1>7. CASE incarnateFull
  BY <1>7 DEF incarnateFull, evict, evictAny, newServant, Evictable, servants
<1>8. CASE connect_pull_consumer
  BY <1>8 DEF connect_pull_consumer, return, touch
<1>9. CASE disconnect_pull_supplier
  BY <1>9 DEF disconnect_pull_supplier, return, touch
<1>10. CASE pullEmpty \/ pullReturn
  BY <1>10 DEF pullEmpty, pullReturn, return, touch
<1>11. CASE pullEvent
  BY <1>11 DEF pullEvent, touch
<1>12. CASE nextEvent
  BY <1>12 DEF nextEvent
<1>13. ASSUME NEW p \in Proxies, etherealize(p)
       PROVE  ServantTypes'
  BY <1>13 DEF etherealize
<1>14. CASE UNCHANGED vars
  BY <1>14 DEF vars
<1> QED
  BY <1>1, <1>2, <1>3, <1>4, <1>5, <1>6, <1>7, <1>8, <1>9, <1>10, <1>11, <1>12, <1>13, <1>14
    DEF Next, Append, POAThread

(* The calls.                                                              *)
LEMMA CallTypesStep ==
  ASSUME TypeOK, WriterOK, CallOK, [Next]_vars
  PROVE  CallTypes'
<1> USE PullSupplierAssumption DEF TypeOK, CallTypes, QueueTypes, CallOK, idleCall, NULL
<1>1. CASE push \/ send
  BY <1>1 DEF push, send, appendDelete
<1>2. CASE appendStore
  BY <1>2 DEF appendStore
<1>3. CASE appendMove
  BY <1>3 DEF appendMove
<1>4. CASE hold_requests \/ collect \/ activate \/ Tick
  BY <1>4 DEF hold_requests, collect, activate, Tick
<1>5. ASSUME NEW p \in Proxies, NEW op \in {"connect", "disconnect", "pull"}, StartCall(op, p)
      PROVE  CallTypes'
  BY <1>5 DEF StartCall
<1>6. CASE incarnate
  BY <1>6 DEF incarnate, newServant
<1>7. CASE incarnateFull
  BY <1>7 DEF incarnateFull, evict, evictAny, newServant, Evictable, servants
<1>8. CASE connect_pull_consumer
  BY <1>8 DEF connect_pull_consumer, return, touch
<1>9. CASE disconnect_pull_supplier
  BY <1>9 DEF disconnect_pull_supplier, return, touch
<1>10. CASE pullEmpty \/ pullReturn
  BY <1>10 DEF pullEmpty, pullReturn, return, touch
<1>11. CASE pullEvent
  BY <1>11 DEF pullEvent, touch
<1>12. CASE nextEvent
  BY <1>12 DEF nextEvent
<1>13. ASSUME NEW p \in Proxies, etherealize(p)
       PROVE  CallTypes'
  BY <1>13 DEF etherealize
<1>14. CASE UNCHANGED vars
  BY <1>14 DEF vars
<1> QED
  BY <1>1, <1>2, <1>3, <1>4, <1>5, <1>6, <1>7, <1>8, <1>9, <1>10, <1>11, <1>12, <1>13, <1>14
    DEF Next, Append, POAThread

(* push() and a transfer never append at the same time.                    *)
LEMMA WriterStep ==
  ASSUME TypeOK, WriterOK, CallOK, [Next]_vars
  PROVE  WriterOK'
<1> USE PullSupplierAssumption DEF TypeOK, FlagTypes, QueueTypes, CallTypes, WriterOK, CallOK,
                               queueVars, writeVars, idleWriter, CallsUnderWay
<1>1. CASE push \/ send
  BY <1>1 DEF push, send, appendDelete
<1>2. CASE appendStore
  BY <1>2 DEF appendStore
<1>3. CASE appendMove
  BY <1>3 DEF appendMove
<1>4. CASE hold_requests \/ collect \/ activate \/ Tick
  BY <1>4 DEF hold_requests, collect, activate, Tick
<1>5. ASSUME NEW p \in Proxies, NEW op \in {"connect", "disconnect", "pull"}, StartCall(op, p)
      PROVE  WriterOK'
  BY <1>5 DEF StartCall
<1>6. CASE incarnate
  BY <1>6 DEF incarnate, newServant
<1>7. CASE incarnateFull
  BY <1>7 DEF incarnateFull, evict, evictAny, newServant, Evictable, servants
<1>8. CASE connect_pull_consumer
  BY <1>8 DEF connect_pull_consumer, return, touch
<1>9. CASE disconnect_pull_supplier
  BY <1>9 DEF disconnect_pull_supplier, return, touch
<1>10. CASE pullEmpty \/ pullReturn
  BY <1>10 DEF pullEmpty, pullReturn, return, touch
<1>11. CASE pullEvent
  BY <1>11 DEF pullEvent, touch
<1>12. CASE nextEvent
  BY <1>12 DEF nextEvent
<1>13. ASSUME NEW p \in Proxies, etherealize(p)
       PROVE  WriterOK'
  BY <1>13 DEF etherealize
<1>14. CASE UNCHANGED vars
  BY <1>14 DEF vars
<1> QED
  BY <1>1, <1>2, <1>3, <1>4, <1>5, <1>6, <1>7, <1>8, <1>9, <1>10, <1>11, <1>12, <1>13, <1>14
    DEF Next, Append, POAThread

(* No call is under way in a transfer.                                     *)
LEMMA CallStep ==
  ASSUME TypeOK, WriterOK, CallOK, [Next]_vars
  PROVE  CallOK'
<1> USE PullSupplierAssumption DEF TypeOK, CallTypes, CallOK, idleCall, CallsUnderWay
<1>1. CASE push \/ send
  BY <1>1 DEF push, send, appendDelete
<1>2. CASE appendStore
  BY <1>2 DEF appendStore
<1>3. CASE appendMove
  BY <1>3 DEF appendMove
<1>4. CASE hold_requests \/ collect \/ activate \/ Tick
  BY <1>4 DEF hold_requests, collect, activate, Tick
<1>5. ASSUME NEW p \in Proxies, NEW op \in {"connect", "disconnect", "pull"}, StartCall(op, p)
      PROVE  CallOK'
  BY <1>5 DEF StartCall
<1>6. CASE incarnate
  BY <1>6 DEF incarnate, newServant
<1>7. CASE incarnateFull
  BY <1>7 DEF incarnateFull, evict, evictAny, newServant, Evictable, servants
<1>8. CASE connect_pull_consumer
  BY <1>8 DEF connect_pull_consumer, return, touch
<1>9. CASE disconnect_pull_supplier
  BY <1>9 DEF disconnect_pull_supplier, return, touch
<1>10. CASE pullEmpty \/ pullReturn
  BY <1>10 DEF pullEmpty, pullReturn, return, touch
<1>11. CASE pullEvent
  BY <1>11 DEF pullEvent, touch
<1>12. CASE nextEvent
  BY <1>12 DEF nextEvent
<1>13. ASSUME NEW p \in Proxies, etherealize(p)
       PROVE  CallOK'
  BY <1>13 DEF etherealize
<1>14. CASE UNCHANGED vars
  BY <1>14 DEF vars
<1> QED
  BY <1>1, <1>2, <1>3, <1>4, <1>5, <1>6, <1>7, <1>8, <1>9, <1>10, <1>11, <1>12, <1>13, <1>14
    DEF Next, Append, POAThread

-----------------------------------------------------------------------------
(* append() begins: the event at _next goes, and no reader needs it.       *)
LEMMA DeleteStep ==
  ASSUME IInv, NEW by \in {"push", "channel"}, appendDelete(by),
         by = "push" => ~useLocal, by = "channel" => pm = "transfer"
  PROVE  RingOK' /\ ReaderOK' /\ NextOK' /\ CopyOK'
<1> USE DEF appendDelete, queueVars, proxyVars
<1>1. /\ queue' = queue /\ next' = next /\ made' = made /\ rnext' = rnext /\ call' = call
      /\ useLocal' = useLocal /\ heap' = heap \ {queue[next]} /\ writer = idleWriter
      /\ writer'.pc = "store" /\ writer' # idleWriter /\ next \in Slots
  BY DEF IInv, TypeOK, QueueTypes, idleWriter
<1>2. call.pc \in {"next", "copy"} => by = "push" /\ ~useLocal
  BY DEF IInv, CallOK, idleCall
<1>3. RingOK'
  <2>1. ASSUME NEW i \in Slots, queue[i] # NULL, i # next
        PROVE  queue[i] \in heap \ {queue[next]}
    <3>1. queue[i] \in heap
      BY <2>1 DEF IInv, RingOK
    <3>2. queue[i] # queue[next]
      BY <1>1, <2>1 DEF IInv, RingOK
    <3> QED BY <3>1, <3>2
  <2> QED BY <1>1, <2>1 DEF IInv, RingOK
<1>4. ReaderOK'
  BY <1>1 DEF IInv, ReaderOK, Full
<1>5. NextOK'
  BY <1>1, <1>2 DEF IInv, NextOK
<1>6. CopyOK'
  BY <1>1, <1>2 DEF IInv, CopyOK
<1> QED BY <1>3, <1>4, <1>5, <1>6

(* The new event is in the slot.                                           *)
LEMMA StoreStep ==
  ASSUME IInv, appendStore
  PROVE  RingOK' /\ ReaderOK' /\ NextOK' /\ CopyOK'
<1>1. /\ queue' = [queue EXCEPT ![next] = made + 1] /\ next' = next /\ made' = made + 1
      /\ rnext' = rnext /\ call' = call /\ useLocal' = useLocal /\ heap' = heap \cup {made + 1}
      /\ writer # idleWriter /\ writer'.pc = "move" /\ writer' # idleWriter
      /\ next \in Slots /\ made \in Nat /\ made + 1 # NULL
      /\ \A i \in Slots : queue[i] \in Nat
  BY PullSupplierAssumption DEF IInv, TypeOK, QueueTypes, appendStore, idleWriter, proxyVars, NULL
<1>2. \A i \in Slots : queue'[i] = IF i = next THEN made + 1 ELSE queue[i]
  BY <1>1 DEF IInv, TypeOK, QueueTypes
<1>3. RingOK'
  <2>1. \A i \in Slots : queue[i] <= made
    BY DEF IInv, RingOK
  <2>2. \A i \in Slots : queue'[i] <= made'
    BY <1>1, <1>2, <2>1
  <2>3. \A i, j \in Slots : queue'[i] = queue'[j] => i = j \/ queue'[i] = NULL
    BY <1>1, <1>2, <2>1 DEF IInv, RingOK
  <2> QED BY <1>1, <1>2, <2>2, <2>3 DEF IInv, RingOK
<1>4. ReaderOK'
  BY <1>1, <1>2 DEF IInv, ReaderOK, Full
<1>5. NextOK'
  BY <1>1, <1>2 DEF IInv, NextOK
<1>6. CopyOK'
  BY <1>1 DEF IInv, CopyOK
<1> QED BY <1>3, <1>4, <1>5, <1>6

(* _next moves on: it may reach a reader, which then stands at the oldest  *)
(* event of a full ring.                                                   *)
LEMMA MoveStep ==
  ASSUME IInv, appendMove
  PROVE  RingOK' /\ ReaderOK' /\ NextOK' /\ CopyOK'
<1>1. /\ queue' = queue /\ next' = Succ(next) /\ made' = made /\ rnext' = rnext /\ call' = call
      /\ heap' = heap /\ writer.pc = "move" /\ writer' = idleWriter /\ writer'.pc = "idle"
      /\ next \in Slots /\ \A p \in Proxies : rnext[p] \in Slots
  BY DEF IInv, TypeOK, QueueTypes, appendMove, idleWriter, proxyVars
<1>2. next' = (IF next + 1 = Size THEN 0 ELSE next + 1) /\ next' \in Slots
  BY <1>1, SuccCases
<1>3. \A i \in Slots : i <= next => queue[i] # NULL
  BY <1>1 DEF IInv, RingOK, Slots
<1>4. next + 1 = Size => Full
  BY <1>1, <1>3, SuccCases DEF Full, Slots
<1>5. RingOK'
  <2>1. \A i \in Slots : i < next' => queue[i] # NULL
    BY <1>1, <1>2, <1>3, SuccCases DEF Slots
  <2> QED BY <1>1, <2>1 DEF IInv, RingOK
<1>6. ASSUME NEW p \in Proxies, rnext[p] >= next', rnext[p] # next
      PROVE  Full
  BY <1>1, <1>2, <1>4, <1>6, SuccCases DEF IInv, ReaderOK, Slots
<1>7. ReaderOK'
  <2>1. ASSUME NEW p \in Proxies, rnext[p] > next' PROVE Full
    <3>1. CASE rnext[p] # next
      BY <1>1, <1>2, <1>6, <2>1, <3>1 DEF Slots
    <3>2. CASE rnext[p] = next
      BY <1>1, <1>2, <1>4, <2>1, <3>2, SuccCases DEF Slots
    <3> QED BY <3>1, <3>2
  <2> QED BY <1>1, <2>1 DEF ReaderOK, Full
<1>8. call.pc \in {"next", "copy"} => useLocal' /\ call.p \in Proxies
  <2>1. call.pc \in {"next", "copy"} => call # idleCall /\ call.p \in Proxies
    BY DEF IInv, CallOK, idleCall
  <2>2. call # idleCall => writer.by = "push"
    BY <1>1 DEF IInv, CallOK, WriterOK, TypeOK, QueueTypes
  <2>3. writer.by = "push" => useLocal'
    BY DEF appendMove
  <2> QED BY <2>1, <2>2, <2>3
<1>9. NextOK'
  <2>1. ASSUME call.pc = "next", rnext[call.p] = next' PROVE Full
    <3>1. call.p \in Proxies
      BY <1>8, <2>1
    <3>2. writer # idleWriter
      BY <1>1 DEF idleWriter
    <3>3. rnext[call.p] # next
      BY <2>1, <3>2 DEF IInv, NextOK
    <3> QED BY <1>1, <1>2, <1>6, <2>1, <3>1, <3>3 DEF Slots
  <2> QED BY <1>1, <1>8, <2>1 DEF NextOK, Full
<1>10. CopyOK'
  BY <1>1, <1>8 DEF IInv, CopyOK
<1> QED BY <1>5, <1>7, <1>9, <1>10

(* A reader takes the event at its slot.                                   *)
LEMMA NextEventStep ==
  ASSUME IInv, nextEvent
  PROVE  RingOK' /\ ReaderOK' /\ NextOK' /\ CopyOK'
<1> DEFINE p == call.p
           r == rnext[p]
<1>1. /\ queue' = queue /\ next' = next /\ made' = made /\ heap' = heap /\ writer' = writer
      /\ useLocal' = useLocal /\ rnext' = [rnext EXCEPT ![p] = Succ(r)]
      /\ call'.pc = "copy" /\ call'.event = queue[r]
      /\ call.pc = "next" /\ p \in Proxies /\ r \in Slots /\ next \in Slots
  BY DEF IInv, TypeOK, QueueTypes, CallTypes, CallOK, nextEvent, writeVars
<1>2. Succ(r) = (IF r + 1 = Size THEN 0 ELSE r + 1) /\ Succ(r) \in Slots
  BY <1>1, SuccCases
<1>3. r = next => Full /\ writer = idleWriter /\ useLocal
  BY <1>1 DEF IInv, NextOK
<1>4. r > next => Full
  BY <1>1 DEF IInv, ReaderOK
<1>5. queue[r] # NULL
  <2>1. r < next => queue[r] # NULL
    BY <1>1 DEF IInv, RingOK
  <2> QED BY <1>1, <1>3, <1>4, <2>1 DEF Full, Slots
<1>6. queue[r] \in heap
  BY <1>1, <1>3, <1>5 DEF IInv, RingOK, idleWriter
<1>7. CopyOK'
  <2>1. r # next => queue[r] # queue[next]
    BY <1>1, <1>5 DEF IInv, RingOK
  <2> QED BY <1>1, <1>3, <1>6, <2>1 DEF CopyOK
<1>8. RingOK'
  BY <1>1 DEF IInv, RingOK
<1>9. ReaderOK'
  <2>1. Succ(r) > next => Full
    BY <1>1, <1>2, <1>3, <1>4, SuccCases DEF Slots
  <2>2. ASSUME NEW q \in Proxies, rnext'[q] > next' PROVE Full
    <3>1. rnext'[q] = IF q = p THEN Succ(r) ELSE rnext[q]
      BY <1>1 DEF IInv, TypeOK, QueueTypes
    <3> QED BY <1>1, <2>1, <2>2, <3>1 DEF IInv, ReaderOK
  <2> QED BY <1>1, <2>2 DEF ReaderOK, Full
<1>10. NextOK'
  BY <1>1 DEF NextOK
<1> QED BY <1>7, <1>8, <1>9, <1>10

(* pull() sees an event.                                                   *)
LEMMA PullEventStep ==
  ASSUME IInv, pullEvent
  PROVE  RingOK' /\ ReaderOK' /\ NextOK' /\ CopyOK'
<1>1. /\ UNCHANGED <<queue, next, made, heap, writer, useLocal, rnext>>
      /\ call'.pc = "next" /\ call'.p = call.p /\ rnext[call.p] # next
  BY DEF IInv, TypeOK, CallTypes, pullEvent, moreEvents, queueVars, writeVars
<1> QED BY <1>1 DEF IInv, RingOK, ReaderOK, NextOK, CopyOK, Full

(* Steps that leave the queue alone, but for a reader put at _next or at   *)
(* slot 0, and that do not begin or end a read.                            *)
LEMMA OtherStep ==
  ASSUME IInv, UNCHANGED <<queue, next, made, heap, writer>>,
         \A p \in Proxies : rnext'[p] \in {rnext[p], next, 0},
         \/ call'.pc \notin {"next", "copy"}
         \/ UNCHANGED <<call, rnext, useLocal>>
  PROVE  RingOK' /\ ReaderOK' /\ NextOK' /\ CopyOK'
<1>1. RingOK'
  BY DEF IInv, RingOK
<1>2. ReaderOK'
  BY DEF IInv, TypeOK, QueueTypes, ReaderOK, Full, Slots
<1>3. NextOK' /\ CopyOK'
  BY DEF IInv, NextOK, CopyOK, Full
<1> QED BY <1>1, <1>2, <1>3

(* Every step keeps the ring and its readers in order.                     *)
LEMMA RingStep ==
  ASSUME IInv, [Next]_vars
  PROVE  RingOK' /\ ReaderOK' /\ NextOK' /\ CopyOK'
<1> DEFINE Goal == RingOK' /\ ReaderOK' /\ NextOK' /\ CopyOK'
<1> USE DEF queueVars, writeVars, proxyVars
<1>0. /\ rnext \in [Proxies -> Slots]
      /\ call.pc # "idle" => call.p \in Proxies /\ call.op \in {"connect", "disconnect", "pull"}
  BY DEF IInv, TypeOK, QueueTypes, CallTypes, CallOK
<1>1. CASE push \/ send
  BY <1>1, DeleteStep DEF push, send
<1>2. CASE appendStore \/ appendMove
  BY <1>2, StoreStep, MoveStep
<1>3. CASE pullEvent \/ nextEvent
  BY <1>3, PullEventStep, NextEventStep
<1>4. CASE hold_requests \/ activate \/ Tick
  BY <1>4, OtherStep DEF hold_requests, activate, Tick
<1>5. CASE collect
  <2>1. call'.pc \notin {"next", "copy"}
    BY <1>5 DEF collect, CallsUnderWay, idleCall
  <2> QED BY <1>5, <2>1, OtherStep DEF collect
<1>6. ASSUME NEW p \in Proxies, NEW op \in {"connect", "disconnect", "pull"}, StartCall(op, p)
      PROVE  Goal
  <2>1. call'.pc \notin {"next", "copy"}
    BY <1>6 DEF StartCall
  <2> QED BY <1>6, <2>1, OtherStep DEF StartCall
<1>7. ASSUME call.pc = "incarnate", newServant(call.p)
      PROVE  Goal
  <2>1. call'.pc \notin {"next", "copy"}
    BY <1>0, <1>7 DEF newServant, IInv, TypeOK, CallTypes
  <2>2. \A p \in Proxies : rnext'[p] \in {rnext[p], next}
    BY <1>0, <1>7 DEF newServant
  <2> QED BY <1>7, <2>1, <2>2, OtherStep DEF newServant
<1>8. CASE incarnate
  BY <1>7, <1>8 DEF incarnate
<1>9. ASSUME call' = idleCall, UNCHANGED <<queueVars, writeVars>>
      PROVE  Goal
  <2>1. call'.pc \notin {"next", "copy"}
    BY <1>9 DEF idleCall
  <2> QED BY <1>9, <2>1, OtherStep
<1>10. CASE incarnateFull
  BY <1>7, <1>9, <1>10 DEF incarnateFull, evict, evictAny
<1>11. CASE connect_pull_consumer \/ disconnect_pull_supplier \/ pullEmpty \/ pullReturn
  BY <1>9, <1>11
    DEF connect_pull_consumer, disconnect_pull_supplier, pullEmpty, pullReturn, return
<1>12. ASSUME NEW p \in Proxies, etherealize(p)
       PROVE  Goal
  <2>1. call'.pc \notin {"next", "copy"}
    BY <1>12 DEF etherealize, idleCall
  <2>2. \A q \in Proxies : rnext'[q] \in {rnext[q], 0}
    BY <1>0, <1>12 DEF etherealize
  <2> QED BY <1>12, <2>1, <2>2, OtherStep DEF etherealize
<1>13. CASE UNCHANGED vars
  BY <1>13, OtherStep DEF vars
<1> HIDE DEF Goal
<1> QED
  BY <1>1, <1>2, <1>3, <1>4, <1>5, <1>6, <1>8, <1>10, <1>11, <1>12, <1>13
    DEF Next, Append, POAThread, Goal

(* The invariant is inductive.                                             *)
LEMMA Inductive == IInv /\ [Next]_vars => IInv'
BY QueueTypesStep, FlagTypesStep, ServantTypesStep, CallTypesStep, WriterStep, CallStep, RingStep
  DEF IInv, TypeOK

LEMMA Invariance == Spec => []IInv
BY InitIInv, Inductive, PTL DEF Spec

(* The proxies that serve clients are among those that have a servant.     *)
Active == {p \in Proxies : poa[p] = "active"}

LEMMA ActiveFacts ==
  ASSUME IsFiniteSet(servants)
  PROVE  /\ IsFiniteSet(Active) /\ Cardinality(Active) <= Cardinality(servants)
         /\ Cardinality(Active) \in Nat /\ Cardinality(servants) \in Nat
<1>1. Active \subseteq servants
  BY DEF Active, servants
<1> QED BY <1>1, FS_Subset, FS_CardinalityType

(* One more element.                                                       *)
LEMMA AddOne ==
  ASSUME NEW S, NEW x, IsFiniteSet(S)
  PROVE  /\ Cardinality(S \cup {x}) \in Nat /\ Cardinality(S) \in Nat
         /\ Cardinality(S \cup {x}) <= Cardinality(S) + 1
<1>1. IsFiniteSet(S \cup {x}) /\ Cardinality(S \cup {x}) =
        IF x \in S THEN Cardinality(S) ELSE Cardinality(S) + 1
  BY FS_AddElement
<1>2. Cardinality(S) \in Nat /\ Cardinality(S \cup {x}) \in Nat
  BY <1>1, FS_CardinalityType
<1> QED BY <1>1, <1>2

(* A step that adds no servant and activates none.                         *)
LEMMA FewerServants ==
  ASSUME ServantsOK, servants' \subseteq servants, Active' \subseteq Active
  PROVE  ServantsOK'
<1>1. IsFiniteSet(servants) /\ IsFiniteSet(Active) /\ Cardinality(Active) <= MaxNumProxies
  BY ActiveFacts DEF ServantsOK, FewProxies, Active
<1>2. IsFiniteSet(servants')
  BY <1>1, FS_Subset
<1>3. Cardinality(Active') <= Cardinality(Active) /\ Cardinality(Active') \in Nat
      /\ Cardinality(Active) \in Nat
  BY <1>1, FS_Subset, FS_CardinalityType
<1>4. Cardinality(Active') <= MaxNumProxies
  BY <1>1, <1>3, PullSupplierAssumption
<1> QED BY <1>2, <1>4 DEF ServantsOK, FewProxies, Active

(* incarnate() below the limit adds one.                                   *)
LEMMA IncarnateStep ==
  ASSUME TypeOK, CallOK, ServantsOK, incarnate
  PROVE  ServantsOK'
<1> DEFINE p == call.p
<1>1. p \in Proxies /\ poa' = [poa EXCEPT ![p] = "active"]
  BY DEF incarnate, CallOK
<1>2. servants' = servants \cup {p} /\ Active' = Active \cup {p}
  BY <1>1 DEF servants, Active, TypeOK, ServantTypes
<1>3. /\ IsFiniteSet(servants) /\ IsFiniteSet(Active) /\ Cardinality(Active) \in Nat
      /\ Cardinality(Active) <= Cardinality(servants) /\ Cardinality(servants) \in Nat
      /\ Cardinality(servants) < MaxNumProxies
  BY ActiveFacts DEF ServantsOK, incarnate
<1>4. IsFiniteSet(servants')
  BY <1>2, <1>3, FS_AddElement
<1>5. Cardinality(Active') <= Cardinality(Active) + 1 /\ Cardinality(Active') \in Nat
  BY <1>2, <1>3, AddOne
<1>6. Cardinality(Active') <= MaxNumProxies
  BY <1>3, <1>5, PullSupplierAssumption
<1> QED BY <1>4, <1>6 DEF ServantsOK, FewProxies, Active

(* At the limit one proxy stops serving clients for the one that is added: *)
(* with the log in place only an active one can be evicted.                *)
LEMMA EvictStep ==
  ASSUME HasLog, TypeOK, CallOK, ServantsOK, incarnateFull
  PROVE  ServantsOK'
<1> DEFINE p == call.p
<1>1. PICK old \in servants : evict(old)
  BY DEF incarnateFull, Evictable
<1>2. CASE UNCHANGED poa
  BY <1>2, FewerServants DEF servants, Active
<1>3. CASE poa[old] = "active" /\ evictAny(old)
  <2>1. /\ p \in Proxies /\ old \in Proxies
        /\ poa' = [poa EXCEPT ![old] = "deactivated", ![p] = "active"]
    BY <1>3 DEF incarnateFull, CallOK, evictAny, servants
  <2>2. servants' = servants \cup {p} /\ Active' = (Active \ {old}) \cup {p} /\ old \in Active
    BY <1>3, <2>1 DEF servants, Active, TypeOK, ServantTypes
  <2>3. /\ IsFiniteSet(servants) /\ IsFiniteSet(Active) /\ Cardinality(Active) \in Nat
        /\ Cardinality(Active) <= MaxNumProxies
    BY ActiveFacts DEF ServantsOK, FewProxies, Active
  <2>4. IsFiniteSet(servants')
    BY <2>2, <2>3, FS_AddElement
  <2>5. /\ IsFiniteSet(Active \ {old})
        /\ Cardinality(Active \ {old}) = Cardinality(Active) - 1
    BY <2>2, <2>3, FS_RemoveElement
  <2>6. /\ Cardinality(Active') <= Cardinality(Active \ {old}) + 1
        /\ Cardinality(Active') \in Nat
    BY <2>2, <2>5, AddOne
  <2>7. Cardinality(Active') <= MaxNumProxies
    BY <2>3, <2>5, <2>6, PullSupplierAssumption
  <2> QED BY <2>4, <2>7 DEF ServantsOK, FewProxies, Active
<1> QED BY <1>1, <1>2, <1>3 DEF evict

(* No step of any thread gives a client one proxy too many.                *)
LEMMA ServantsStep ==
  ASSUME HasLog, TypeOK, CallOK, ServantsOK, [Next]_vars
  PROVE  ServantsOK'
<1> USE DEF proxyVars
<1>1. CASE incarnate
  BY <1>1, IncarnateStep
<1>2. CASE incarnateFull
  BY <1>2, EvictStep
<1>3. CASE UNCHANGED poa
  BY <1>3, FewerServants DEF servants, Active
<1>4. CASE push \/ send \/ appendStore \/ appendMove
  BY <1>3, <1>4 DEF push, send, appendDelete, appendStore, appendMove
<1>5. CASE hold_requests \/ collect \/ activate \/ Tick
  BY <1>3, <1>5 DEF hold_requests, collect, activate, Tick
<1>6. ASSUME NEW p \in Proxies, NEW op \in {"connect", "disconnect", "pull"}, StartCall(op, p)
      PROVE  ServantsOK'
  BY <1>3, <1>6 DEF StartCall
<1>7. CASE connect_pull_consumer \/ pullEmpty \/ pullEvent \/ nextEvent \/ pullReturn
  BY <1>3, <1>7 DEF connect_pull_consumer, pullEmpty, pullEvent, nextEvent, pullReturn
<1>8. CASE disconnect_pull_supplier
  <2>1. call.p \in Proxies /\ poa' = [poa EXCEPT ![call.p] = "deactivated"]
    BY <1>8 DEF disconnect_pull_supplier, CallOK
  <2>2. Active' \subseteq Active
    BY <2>1 DEF Active, TypeOK, ServantTypes
  <2>3. CASE poa[call.p] # "inactive"
    BY <2>1, <2>2, <2>3, FewerServants DEF servants, TypeOK, ServantTypes
  <2>4. CASE poa[call.p] = "inactive"
    <3>1. servants' = servants \cup {call.p}
      BY <2>1 DEF servants, TypeOK, ServantTypes
    <3>2. IsFiniteSet(servants')
      BY <3>1, FS_AddElement DEF ServantsOK
    <3>3. /\ IsFiniteSet(Active) /\ Cardinality(Active) \in Nat
          /\ Cardinality(Active) <= MaxNumProxies
      BY ActiveFacts DEF ServantsOK, FewProxies, Active
    <3>4. Cardinality(Active') <= Cardinality(Active) /\ Cardinality(Active') \in Nat
      BY <2>2, <3>3, FS_Subset, FS_CardinalityType
    <3>5. Cardinality(Active') <= MaxNumProxies
      BY <3>3, <3>4, PullSupplierAssumption
    <3> QED BY <3>2, <3>5 DEF ServantsOK, FewProxies, Active
  <2> QED BY <2>3, <2>4
<1>9. ASSUME NEW p \in Proxies, etherealize(p)
      PROVE  ServantsOK'
  <2>1. servants' \subseteq servants /\ Active' \subseteq Active
    BY <1>9 DEF etherealize, servants, Active, TypeOK, ServantTypes
  <2> QED BY <2>1, FewerServants
<1>10. CASE UNCHANGED vars
  BY <1>3, <1>10 DEF vars
<1> QED
  BY <1>1, <1>2, <1>4, <1>5, <1>6, <1>7, <1>8, <1>9, <1>10 DEF Next, Append, POAThread

-----------------------------------------------------------------------------
(* Every variable keeps its type.                                          *)
THEOREM TypeCorrect == Spec => []TypeOK
<1>1. IInv => TypeOK
  BY DEF IInv
<1> QED BY <1>1, Invariance, PTL

(* pull() without a mutex is safe: the event that ProxyPullSupplier_i      *)
(* copies for its client is never one that EventQueue::append deleted,     *)
(* for every queue length and however pull() and push() interleave.        *)
THEOREM CopiesAreSafe == Spec => []CopyIsSafe
<1>1. IInv => CopyIsSafe
  BY DEF IInv, CopyOK, CopyIsSafe
<1> QED BY <1>1, Invariance, PTL

(* ProxyPullSupplierManager keeps its limit in the server, where the log   *)
(* exists, however late the POA etherealizes the servants it evicted.      *)
THEOREM LimitIsKept == ASSUME HasLog PROVE Spec => []FewProxies
<1>1. Init => ServantsOK
  <2>1. Init => servants = {} /\ Active = {}
    BY DEF Init, servants, Active
  <2> QED BY <2>1, FS_EmptySet, PullSupplierAssumption DEF ServantsOK, FewProxies, Active
<1>2. IInv /\ ServantsOK /\ [Next]_vars => ServantsOK'
  BY ServantsStep DEF IInv
<1>3. ServantsOK => FewProxies
  BY DEF ServantsOK
<1> QED BY <1>1, <1>2, <1>3, Invariance, PTL DEF Spec
==============================================================================
