-------------------------- MODULE EventQueueProofs --------------------------
(***************************************************************************)
(* Proofs about EventQueue for every queue length, set of readers, filter  *)
(* and number of events.                                                   *)
(*                                                                         *)
(* The argument.  Let the turn base be the number of kept events when the  *)
(* writer last stood at slot 0.  Slots before _next hold the events of     *)
(* this turn, the others those of the turn before (or NULL in the first    *)
(* turn), and a reader that is ahead of _next is still in the turn before, *)
(* so there was one.  This says which event of the stream each slot holds, *)
(* and with it what every read returns.                                    *)
(***************************************************************************)
EXTENDS EventQueue, FiniteSetTheorems, TLAPS

(* Kept events before the writer's current turn of the ring.               *)
Base == Len(stored) - next

TurnOK == Base \in Nat /\ (Base = 0 \/ Base >= Size)

RingOK ==
  \A i \in Slots :
    queue[i] = IF i < next THEN stored[Base + i + 1]
               ELSE IF Base = 0 THEN NULL ELSE stored[Base - Size + i + 1]

StoredOK ==
  /\ \A i \in 1 .. Len(stored) : stored[i] \in 1 .. made
  /\ \A i, j \in 1 .. Len(stored) : i < j => stored[i] < stored[j]

ReaderOK == \A r \in Readers : rnext[r] > next => Base # 0

HeapOK ==
  /\ heap \subseteq 1 .. made
  /\ \A i \in Slots : queue[i] # NULL => queue[i] \in heap

SeenOK ==
  \A r \in Readers :
    /\ seen[r] <= made
    /\ rnext[r] # Absent =>
         \A i \in 1 .. Len(stored) : Pos(r) < i => seen[r] < stored[i]

(* The inductive invariant.                                                *)
IInv == TypeOK /\ made <= MaxEvents /\ TurnOK /\ RingOK /\ StoredOK /\ ReaderOK /\ HeapOK /\ SeenOK

-----------------------------------------------------------------------------
(* The ring has at least two slots.                                        *)
LEMMA SizeType == Size \in Nat /\ Size > 1
BY QueueAssumption DEF Size

(* (_next+1)%_size without the modulus.                                    *)
LEMMA SuccCases ==
  ASSUME NEW i \in Slots
  PROVE  Succ(i) = (IF i + 1 = Size THEN 0 ELSE i + 1) /\ Succ(i) \in Slots
<1>1. Size \in Nat /\ Size > 1 BY SizeType
<1>2. CASE i + 1 = Size
  BY <1>1, <1>2 DEF Succ, Slots
<1>3. CASE i + 1 # Size
  BY <1>1, <1>3 DEF Succ, Slots
<1> QED BY <1>2, <1>3

(* A queue that was just constructed satisfies the invariant.              *)
LEMMA InitIInv == Init => IInv
BY SizeType, BoundAssumption
  DEF Init, IInv, TypeOK, TurnOK, RingOK, StoredOK, ReaderOK, HeapOK, SeenOK,
      Base, Slots, NULL, Absent

(* What appending to the stream of kept events does to it.                 *)
LEMMA AppendFacts ==
  ASSUME NEW s \in Seq(Nat), NEW e \in Nat
  PROVE  /\ Append(s, e) \in Seq(Nat)
         /\ Len(Append(s, e)) = Len(s) + 1
         /\ \A i \in 1 .. Len(s) : Append(s, e)[i] = s[i]
         /\ Append(s, e)[Len(s) + 1] = e
OBVIOUS

(* A backlog is at least nothing and less than the ring.                   *)
LEMMA BehindType ==
  ASSUME NEW x \in Slots, NEW n \in Slots
  PROVE  Behind(x, n) \in 0 .. Size - 1
BY SizeType DEF Slots, Behind

(* One more event in the ring: a reader is one event further behind, or,   *)
(* _size behind, at the writer's slot again.                               *)
LEMMA BehindSucc ==
  ASSUME NEW x \in Slots, NEW n \in Slots
  PROVE  Behind(x, Succ(n)) = IF Behind(x, n) + 1 = Size THEN 0 ELSE Behind(x, n) + 1
<1> DEFINE m == IF n + 1 = Size THEN 0 ELSE n + 1
<1>1. Succ(n) = m
  BY SuccCases
<1>2. Behind(x, m) = IF Behind(x, n) + 1 = Size THEN 0 ELSE Behind(x, n) + 1
  BY SizeType DEF Slots, Behind
<1> QED BY <1>1, <1>2

(* An append never moves a reader back in the stream, and moves it only    *)
(* when the writer catches up with it.                                     *)
LEMMA PosStep ==
  ASSUME IInv, AppendKept(made + 1), UNCHANGED rnext,
         NEW r \in Readers, rnext[r] # Absent
  PROVE  /\ Pos(r) \in Int /\ Pos(r)' \in Int /\ Pos(r)' >= Pos(r)
         /\ Pos(r)' = IF Len(stored) + 1 - Pos(r) = Size THEN Len(stored) + 1 ELSE Pos(r)
<1> USE SizeType
<1> DEFINE b == Behind(rnext[r], next)
           c == Behind(rnext[r], next')
<1>1. /\ rnext[r] \in Slots /\ rnext'[r] = rnext[r] /\ next \in Slots
      /\ Len(stored) \in Nat /\ made \in Nat
  BY DEF IInv, TypeOK
<1>2. next' = Succ(next) /\ Len(stored') = Len(stored) + 1 /\ next' \in Slots
  BY <1>1, SuccCases, AppendFacts DEF AppendKept, IInv, TypeOK
<1>3. Pos(r) = Len(stored) - b
  BY DEF Pos, Backlog
<1>4. Pos(r)' = Len(stored') - Behind(rnext'[r], next')
  BY DEF Pos, Backlog
<1>5. b \in 0 .. Size - 1 /\ c \in 0 .. Size - 1
  BY <1>1, <1>2, BehindType
<1>6. c = IF b + 1 = Size THEN 0 ELSE b + 1
  BY <1>1, <1>2, BehindSucc
<1> HIDE DEF b
<1>7. Pos(r)' = Len(stored) + 1 - c
  BY <1>1, <1>2, <1>4, <1>5
<1> HIDE DEF c
<1>8. CASE b + 1 = Size
  BY <1>1, <1>3, <1>5, <1>6, <1>7, <1>8
<1>9. CASE b + 1 # Size
  <2>1. c = b + 1
    BY <1>6, <1>9
  <2>2. Pos(r)' = Len(stored) - b
    BY <1>1, <1>5, <1>7, <2>1
  <2>3. Len(stored) + 1 - Pos(r) # Size
    BY <1>1, <1>3, <1>5, <1>9
  <2> QED BY <2>2, <2>3, <1>1, <1>3, <1>5
<1> QED BY <1>8, <1>9

(* append() of an event that the filter keeps preserves the invariant.     *)
LEMMA KeptStep ==
  ASSUME IInv, made < MaxEvents, made' = made + 1, AppendKept(made + 1),
         UNCHANGED <<rnext, seen>>
  PROVE  IInv'
<1> USE SizeType
<1> DEFINE e == made + 1
<1>0. /\ next \in Slots /\ stored \in Seq(Nat) /\ e \in Nat /\ Len(stored) \in Nat
      /\ made \in Nat
  BY DEF IInv, TypeOK
<1>1. /\ stored' \in Seq(Nat)
      /\ Len(stored') = Len(stored) + 1
      /\ \A i \in 1 .. Len(stored) : stored'[i] = stored[i]
      /\ stored'[Len(stored) + 1] = e
  BY <1>0, AppendFacts DEF AppendKept
<1>2. /\ next' = (IF next + 1 = Size THEN 0 ELSE next + 1)
      /\ next' \in Slots
  BY <1>0, SuccCases DEF AppendKept
<1>3. Base' = IF next + 1 = Size THEN Base + Size ELSE Base
  BY <1>0, <1>1, <1>2 DEF Base, Slots
<1>4. TypeOK'
  BY <1>0, <1>1, <1>2 DEF IInv, TypeOK, AppendKept
<1>5. TurnOK'
  BY <1>3 DEF IInv, TurnOK
<1>6. RingOK'
  <2> SUFFICES ASSUME NEW i \in Slots
               PROVE  queue'[i] = IF i < next' THEN stored'[Base' + i + 1]
                        ELSE IF Base' = 0 THEN NULL ELSE stored'[Base' - Size + i + 1]
    BY DEF RingOK
  <2>1. CASE i = next
    <3>1. queue'[i] = e
      BY <2>1 DEF AppendKept, IInv, TypeOK
    <3>2. Base + i + 1 = Len(stored) + 1
      BY <1>0, <2>1 DEF Base, Slots
    <3> QED BY <3>1, <3>2, <2>1, <1>0, <1>1, <1>2, <1>3 DEF Slots, IInv, TurnOK
  <2>2. CASE i # next
    <3>1. queue'[i] = queue[i]
      BY <2>2 DEF AppendKept, IInv, TypeOK
    <3>2. queue[i] = IF i < next THEN stored[Base + i + 1]
               ELSE IF Base = 0 THEN NULL ELSE stored[Base - Size + i + 1]
      BY DEF IInv, RingOK
    <3>3. Len(stored) = Base + next /\ Base \in Nat /\ (Base = 0 \/ Base >= Size)
      BY <1>0 DEF Base, IInv, TurnOK, Slots
    <3>4. CASE i < next
      <4>1. Base + i + 1 \in 1 .. Len(stored)
        BY <3>3, <3>4, <1>0 DEF Slots
      <4>2. stored'[Base + i + 1] = stored[Base + i + 1]
        BY <4>1, <1>1
      <4> QED BY <4>2, <3>1, <3>2, <3>3, <3>4, <1>0, <1>2, <1>3 DEF Slots
    <3>5. CASE i > next
      <4>1. next + 1 # Size
        BY <3>5, <1>0 DEF Slots
      <4>2. CASE Base = 0
        BY <4>1, <4>2, <3>1, <3>2, <3>5, <1>0, <1>2, <1>3 DEF Slots
      <4>3. CASE Base # 0
        <5>1. Base - Size + i + 1 \in 1 .. Len(stored)
          BY <3>3, <4>3, <1>0 DEF Slots
        <5>2. stored'[Base - Size + i + 1] = stored[Base - Size + i + 1]
          BY <5>1, <1>1
        <5> QED BY <5>2, <4>1, <4>3, <3>1, <3>2, <3>5, <1>0, <1>2, <1>3 DEF Slots
      <4> QED BY <4>2, <4>3
    <3> QED BY <3>4, <3>5, <2>2, <1>0 DEF Slots
  <2> QED BY <2>1, <2>2
<1>7. StoredOK'
  <2>1. \A i \in 1 .. Len(stored') :
           i \in 1 .. Len(stored) \/ i = Len(stored) + 1
    BY <1>0, <1>1
  <2>2. \A i \in 1 .. Len(stored) : stored[i] \in 1 .. made
    BY DEF IInv, StoredOK
  <2>3. \A i, j \in 1 .. Len(stored) : i < j => stored[i] < stored[j]
    BY DEF IInv, StoredOK
  <2>4. \A i \in 1 .. Len(stored') : stored'[i] \in 1 .. made'
    <3> SUFFICES ASSUME NEW i \in 1 .. Len(stored')
                 PROVE  stored'[i] \in 1 .. made + 1
      OBVIOUS
    <3>1. CASE i \in 1 .. Len(stored)
      <4>1. stored'[i] = stored[i] /\ stored[i] \in 1 .. made
        BY <3>1, <2>2, <1>1
      <4> QED BY <4>1, <1>0
    <3>2. CASE i = Len(stored) + 1
      BY <3>2, <1>0, <1>1
    <3> QED BY <2>1, <3>1, <3>2
  <2>5. ASSUME NEW i \in 1 .. Len(stored'), NEW j \in 1 .. Len(stored'), i < j
        PROVE  stored'[i] < stored'[j]
    <3>1. i \in 1 .. Len(stored)
      BY <2>5, <1>0, <1>1
    <3>2. CASE j \in 1 .. Len(stored)
      BY <3>1, <3>2, <2>3, <2>5, <1>1
    <3>3. CASE j = Len(stored) + 1
      <4>1. stored'[i] = stored[i] /\ stored[i] \in 1 .. made
        BY <3>1, <2>2, <1>1
      <4>2. stored'[j] = made + 1
        BY <3>3, <1>1
      <4> QED BY <4>1, <4>2, <1>0
    <3> QED BY <2>1, <3>2, <3>3
  <2> QED BY <2>4, <2>5 DEF StoredOK
<1>8. ReaderOK'
  <2> SUFFICES ASSUME NEW r \in Readers, rnext'[r] > next'
               PROVE  Base' # 0
    BY DEF ReaderOK
  <2>1. rnext'[r] = rnext[r] /\ rnext[r] \in Int
    BY DEF IInv, TypeOK, Slots, Absent
  <2>2. Base \in Nat /\ (rnext[r] > next => Base # 0)
    BY DEF IInv, ReaderOK, TurnOK
  <2> QED BY <2>1, <2>2, <1>0, <1>2, <1>3 DEF Slots
<1>9. HeapOK'
  <2>1. heap' \subseteq 1 .. made'
    <3>1. heap' \subseteq heap \cup {e} /\ heap \subseteq 1 .. made
      BY DEF IInv, HeapOK, AppendKept
    <3>2. \A x \in 1 .. made : x \in 1 .. made'
      BY <1>0
    <3>3. e \in 1 .. made'
      BY <1>0
    <3> QED BY <3>1, <3>2, <3>3
  <2>2. ASSUME NEW i \in Slots, queue'[i] # NULL
        PROVE  queue'[i] \in heap'
    <3>1. CASE i = next
      BY <3>1 DEF AppendKept, IInv, TypeOK
    <3>2. CASE i # next
      <4>1. queue'[i] = queue[i] /\ queue[i] \in heap
        BY <3>2, <2>2 DEF AppendKept, IInv, TypeOK, HeapOK
      <4>2. queue[i] # queue[next]
        <5> DEFINE k(x) == IF x < next THEN Base + x + 1 ELSE Base - Size + x + 1
        <5>1. Len(stored) = Base + next /\ Base \in Nat /\ (Base = 0 \/ Base >= Size)
          BY <1>0 DEF Base, IInv, TurnOK, Slots
        <5>2. CASE Base = 0
          <6>1. queue[next] = NULL
            BY <5>2, <1>0 DEF IInv, RingOK, Slots
          <6> QED BY <6>1, <4>1, <2>2
        <5>3. CASE Base # 0
          <6>1. queue[i] = stored[k(i)] /\ queue[next] = stored[k(next)]
            BY <5>3, <1>0 DEF IInv, RingOK, Slots
          <6>2. k(i) \in 1 .. Len(stored) /\ k(next) \in 1 .. Len(stored) /\ k(next) < k(i)
            BY <5>1, <5>3, <3>2, <1>0 DEF Slots
          <6>3. stored[k(next)] < stored[k(i)]
            BY <6>2 DEF IInv, StoredOK
          <6> HIDE DEF k
          <6>4. stored[k(next)] \in Nat /\ stored[k(i)] \in Nat
            BY <6>2, <1>0
          <6> QED BY <6>1, <6>3, <6>4
        <5> QED BY <5>2, <5>3
      <4> QED BY <4>1, <4>2 DEF AppendKept
    <3> QED BY <3>1, <3>2
  <2> QED BY <2>1, <2>2 DEF HeapOK
<1>10. SeenOK'
  <2> SUFFICES ASSUME NEW r \in Readers, rnext'[r] # Absent,
                      NEW i \in 1 .. Len(stored'), Pos(r)' < i
               PROVE  seen'[r] < stored'[i]
    <3>1. \A r \in Readers : seen'[r] <= made'
      BY <1>0 DEF IInv, SeenOK, TypeOK
    <3> QED BY <3>1 DEF SeenOK
  <2>1. rnext'[r] = rnext[r] /\ seen'[r] = seen[r] /\ rnext[r] \in Slots
    BY DEF IInv, TypeOK
  <2>2. Pos(r)' >= Pos(r) /\ Pos(r) \in Int /\ Pos(r)' \in Int
    BY <2>1, PosStep
  <2>3. CASE i \in 1 .. Len(stored)
    <3>1. Pos(r) < i
      BY <2>2, <2>3
    <3>2. seen[r] < stored[i]
      BY <3>1, <2>1, <2>3 DEF IInv, SeenOK
    <3> QED BY <3>2, <2>1, <2>3, <1>1
  <2>4. CASE i = Len(stored) + 1
    <3>1. seen[r] < e
      BY <1>0 DEF IInv, SeenOK, TypeOK
    <3> QED BY <3>1, <2>1, <2>4, <1>1
  <2> QED BY <2>3, <2>4, <1>0, <1>1
<1> QED
  BY <1>0, <1>4, <1>5, <1>6, <1>7, <1>8, <1>9, <1>10, BoundAssumption DEF IInv

(* The filter rejects the event: only the count of events changes.         *)
LEMMA RejectedStep ==
  ASSUME IInv, made < MaxEvents, made' = made + 1, heap' = heap \cup {made + 1},
         UNCHANGED <<queue, next, stored, rnext, seen>>
  PROVE  IInv'
<1>0. made \in Nat /\ made + 1 \in Nat
  BY DEF IInv, TypeOK
<1>1. TypeOK'
  BY <1>0 DEF IInv, TypeOK
<1>2. TurnOK' /\ RingOK' /\ ReaderOK'
  BY DEF IInv, TurnOK, RingOK, ReaderOK, Base
<1>3. StoredOK'
  <2>1. \A x \in 1 .. made : x \in 1 .. made'
    BY <1>0
  <2> QED BY <2>1 DEF IInv, StoredOK
<1>4. HeapOK'
  <2>1. \A x \in 1 .. made : x \in 1 .. made'
    BY <1>0
  <2>2. made + 1 \in 1 .. made'
    BY <1>0
  <2> QED BY <2>1, <2>2 DEF IInv, HeapOK
<1>5. SeenOK'
  <2>1. \A r \in Readers : Pos(r)' = Pos(r)
    BY DEF Pos, Backlog
  <2>2. \A r \in Readers : seen'[r] <= made'
    BY <1>0 DEF IInv, SeenOK, TypeOK
  <2> QED BY <2>1, <2>2 DEF IInv, SeenOK
<1> QED
  BY <1>0, <1>1, <1>2, <1>3, <1>4, <1>5, BoundAssumption DEF IInv

(* A new reader starts at the writer's slot, with no backlog.              *)
LEMMA NewReaderStep ==
  ASSUME IInv, NEW r \in Readers, NewReader(r)
  PROVE  IInv'
<1> USE SizeType
<1>0. /\ next \in Slots /\ stored \in Seq(Nat) /\ Len(stored) \in Nat /\ made \in Nat
      /\ rnext \in [Readers -> Slots \cup {Absent}] /\ seen \in [Readers -> Nat]
      /\ UNCHANGED <<next, queue, heap, made, stored>>
  BY DEF IInv, TypeOK, NewReader
<1>1. newest \in Nat /\ newest <= made
  <2>1. CASE stored = << >>
    BY <2>1, <1>0 DEF newest
  <2>2. CASE stored # << >>
    <3>1. Len(stored) \in 1 .. Len(stored)
      BY <2>2, <1>0
    <3>2. newest = stored[Len(stored)] /\ newest \in 1 .. made
      BY <3>1, <2>2 DEF newest, IInv, StoredOK
    <3> QED BY <3>2, <1>0
  <2> QED BY <2>1, <2>2
<1>2. TypeOK'
  BY <1>0, <1>1 DEF IInv, TypeOK, NewReader
<1>3. TurnOK' /\ RingOK' /\ StoredOK' /\ HeapOK'
  BY <1>0 DEF IInv, TurnOK, RingOK, StoredOK, HeapOK, Base
<1>4. \A q \in Readers : rnext'[q] = IF q = r THEN next ELSE rnext[q]
  BY <1>0 DEF NewReader
<1>5. ReaderOK'
  <2>1. Base' = Base
    BY <1>0 DEF Base
  <2> QED BY <2>1, <1>0, <1>4 DEF IInv, ReaderOK, Slots
<1>6. SeenOK'
  <2> SUFFICES ASSUME NEW q \in Readers
               PROVE  /\ seen'[q] <= made
                      /\ rnext'[q] # Absent =>
                           \A i \in 1 .. Len(stored) :
                             Pos(q)' < i => seen'[q] < stored[i]
    BY <1>0 DEF SeenOK
  <2>1. CASE q = r
    <3>1. seen'[q] = newest
      BY <1>0, <2>1 DEF NewReader
    <3>2. Behind(rnext'[q], next') = 0
      BY <2>1, <1>0, <1>4 DEF Behind, Slots
    <3>3. Pos(q)' = Len(stored)
      BY <3>2, <1>0 DEF Pos, Backlog
    <3> QED BY <3>1, <3>3, <1>0, <1>1
  <2>2. CASE q # r
    <3>1. seen'[q] = seen[q] /\ rnext'[q] = rnext[q]
      BY <2>2, <1>0, <1>4 DEF NewReader
    <3>2. Pos(q)' = Pos(q)
      BY <3>1, <1>0 DEF Pos, Backlog
    <3> QED BY <3>1, <3>2 DEF IInv, SeenOK
  <2> QED BY <2>1, <2>2
<1> QED
  BY <1>0, <1>2, <1>3, <1>5, <1>6 DEF IInv

(* A reader that is deleted leaves the others as they are.                 *)
LEMMA DeleteReaderStep ==
  ASSUME IInv, NEW r \in Readers, DeleteReader(r)
  PROVE  IInv'
<1> USE SizeType
<1>0. /\ next \in Slots /\ rnext \in [Readers -> Slots \cup {Absent}]
      /\ UNCHANGED <<next, queue, heap, made, stored, seen>>
      /\ \A q \in Readers : rnext'[q] = IF q = r THEN Absent ELSE rnext[q]
  BY DEF IInv, TypeOK, DeleteReader
<1>1. TypeOK'
  BY <1>0 DEF IInv, TypeOK, DeleteReader
<1>2. TurnOK' /\ RingOK' /\ StoredOK' /\ HeapOK'
  BY <1>0 DEF IInv, TurnOK, RingOK, StoredOK, HeapOK, Base
<1>3. ReaderOK'
  <2>1. Base' = Base
    BY <1>0 DEF Base
  <2> QED BY <2>1, <1>0 DEF IInv, ReaderOK, Slots, Absent
<1>4. SeenOK'
  <2>1. \A q \in Readers : rnext'[q] # Absent => Pos(q)' = Pos(q) /\ rnext'[q] = rnext[q]
    BY <1>0 DEF Pos, Backlog
  <2> QED BY <2>1, <1>0 DEF IInv, SeenOK
<1> QED
  BY <1>0, <1>1, <1>2, <1>3, <1>4 DEF IInv

(* What a read returns: the event at the reader's position in the stream.  *)
LEMMA ReadFacts ==
  ASSUME IInv, NEW r \in Readers, rnext[r] # Absent, moreEvents(r)
  PROVE  /\ Pos(r) \in Nat
         /\ Pos(r) < Len(stored)
         /\ queue[rnext[r]] = stored[Pos(r) + 1]
<1> USE SizeType
<1>1. /\ rnext[r] \in Slots /\ next \in Slots /\ Len(stored) \in Nat
      /\ rnext[r] # next
  BY DEF IInv, TypeOK, moreEvents
<1>2. Base \in Nat /\ (Base = 0 \/ Base >= Size) /\ Len(stored) = Base + next
  BY <1>1 DEF IInv, TurnOK, Base, Slots
<1>3. queue[rnext[r]] = IF rnext[r] < next THEN stored[Base + rnext[r] + 1]
                        ELSE IF Base = 0 THEN NULL ELSE stored[Base - Size + rnext[r] + 1]
  BY <1>1 DEF IInv, RingOK
<1>4. rnext[r] > next => Base # 0
  BY DEF IInv, ReaderOK
<1>5. Pos(r) = Len(stored) - Behind(rnext[r], next)
  BY DEF Pos, Backlog
<1>6. CASE rnext[r] < next
  <2>1. Pos(r) = Base + rnext[r]
    BY <1>1, <1>2, <1>5, <1>6 DEF Behind, Slots
  <2> QED BY <2>1, <1>1, <1>2, <1>3, <1>6 DEF Slots
<1>7. CASE rnext[r] > next
  <2>1. Pos(r) = Base - Size + rnext[r]
    BY <1>1, <1>2, <1>5, <1>7 DEF Behind, Slots
  <2> QED BY <2>1, <1>1, <1>2, <1>3, <1>4, <1>7 DEF Slots
<1> QED BY <1>1, <1>6, <1>7 DEF Slots

(* A reader's position is a place in the stream.                           *)
LEMMA PosNat ==
  ASSUME IInv, NEW r \in Readers, rnext[r] # Absent
  PROVE  Pos(r) \in Nat
<1> USE SizeType
<1>1. CASE moreEvents(r)
  BY <1>1, ReadFacts
<1>2. CASE ~moreEvents(r)
  <2>1. rnext[r] = next /\ next \in Slots /\ Len(stored) \in Nat
    BY <1>2 DEF moreEvents, IInv, TypeOK
  <2>2. Behind(rnext[r], next) = 0
    BY <2>1 DEF Behind, Slots
  <2> QED BY <2>1, <2>2 DEF Pos, Backlog
<1> QED BY <1>1, <1>2

(* A read moves the reader forward by one event.                           *)
LEMMA BehindRead ==
  ASSUME NEW x \in Slots, NEW n \in Slots, x # n
  PROVE  Behind(Succ(x), n) = Behind(x, n) - 1
<1> DEFINE y == IF x + 1 = Size THEN 0 ELSE x + 1
<1>1. Succ(x) = y
  BY SuccCases
<1>2. Behind(y, n) = Behind(x, n) - 1
  BY SizeType DEF Slots, Behind
<1> QED BY <1>1, <1>2

(* In the stream too, a read moves the reader forward by one event.        *)
LEMMA PosRead ==
  ASSUME IInv, NEW r \in Readers, nextEvent(r)
  PROVE  Pos(r)' = Pos(r) + 1
<1> USE SizeType
<1>1. /\ rnext[r] \in Slots /\ next \in Slots /\ Len(stored) \in Nat
      /\ rnext[r] # next /\ next' = next /\ stored' = stored
      /\ rnext'[r] = Succ(rnext[r])
  BY DEF IInv, TypeOK, moreEvents, nextEvent
<1>2. Pos(r) = Len(stored) - Behind(rnext[r], next)
  BY DEF Pos, Backlog
<1>3. Pos(r)' = Len(stored') - Behind(rnext'[r], next')
  BY DEF Pos, Backlog
<1>4. Behind(Succ(rnext[r]), next) = Behind(rnext[r], next) - 1
  BY <1>1, BehindRead
<1>5. Behind(rnext[r], next) \in 0 .. Size - 1
  BY <1>1, BehindType
<1>6. Pos(r)' = Len(stored) - (Behind(rnext[r], next) - 1)
  BY <1>1, <1>3, <1>4
<1> HIDE DEF Behind
<1> QED BY <1>1, <1>2, <1>5, <1>6

(* nextEvent() preserves the invariant.                                    *)
LEMMA ReadStep ==
  ASSUME IInv, NEW r \in Readers, nextEvent(r)
  PROVE  IInv' /\ seen'[r] > seen[r]
<1> USE SizeType
<1>0. /\ next \in Slots /\ Len(stored) \in Nat /\ made \in Nat /\ stored \in Seq(Nat)
      /\ rnext \in [Readers -> Slots \cup {Absent}] /\ seen \in [Readers -> Nat]
      /\ rnext[r] \in Slots
      /\ rnext[r] # next
      /\ UNCHANGED <<next, queue, heap, made, stored>>
      /\ \A q \in Readers : rnext'[q] = IF q = r THEN Succ(rnext[r]) ELSE rnext[q]
      /\ \A q \in Readers : seen'[q] = IF q = r THEN queue[rnext[r]] ELSE seen[q]
  BY DEF IInv, TypeOK, nextEvent, moreEvents
<1>1. /\ Pos(r) \in Nat
      /\ Pos(r) < Len(stored)
      /\ queue[rnext[r]] = stored[Pos(r) + 1]
  BY ReadFacts DEF nextEvent
<1>2. Pos(r) + 1 \in 1 .. Len(stored)
  BY <1>0, <1>1
<1>3. Succ(rnext[r]) = (IF rnext[r] + 1 = Size THEN 0 ELSE rnext[r] + 1)
      /\ Succ(rnext[r]) \in Slots
  BY <1>0, SuccCases
<1>4. TypeOK'
  BY <1>0, <1>3 DEF IInv, TypeOK, nextEvent
<1>5. TurnOK' /\ RingOK' /\ StoredOK' /\ HeapOK'
  BY <1>0 DEF IInv, TurnOK, RingOK, StoredOK, HeapOK, Base
<1>6. ReaderOK'
  <2> SUFFICES ASSUME NEW q \in Readers, rnext'[q] > next
               PROVE  Base # 0
    BY <1>0 DEF ReaderOK, Base
  <2>1. CASE q = r
    <3>1. rnext[r] > next
      BY <2>1, <1>0, <1>3 DEF Slots
    <3> QED BY <3>1 DEF IInv, ReaderOK
  <2>2. CASE q # r
    BY <2>2, <1>0 DEF IInv, ReaderOK
  <2> QED BY <2>1, <2>2
<1>7. stored[Pos(r) + 1] \in 1 .. made
  BY <1>2 DEF IInv, StoredOK
<1>8. SeenOK'
  <2> SUFFICES ASSUME NEW q \in Readers
               PROVE  /\ seen'[q] <= made
                      /\ rnext'[q] # Absent =>
                           \A i \in 1 .. Len(stored) :
                             Pos(q)' < i => seen'[q] < stored[i]
    BY <1>0 DEF SeenOK
  <2>1. CASE q = r
    <3>1. seen'[q] = stored[Pos(r) + 1] /\ seen'[q] <= made
      BY <2>1, <1>0, <1>1, <1>7
    <3>2. Pos(q)' = Pos(r) + 1
      BY <2>1, PosRead
    <3>3. \A i \in 1 .. Len(stored) : Pos(r) + 1 < i => stored[Pos(r) + 1] < stored[i]
      BY <1>2 DEF IInv, StoredOK
    <3> QED BY <3>1, <3>2, <3>3
  <2>2. CASE q # r
    <3>1. seen'[q] = seen[q] /\ rnext'[q] = rnext[q]
      BY <2>2, <1>0
    <3>2. Pos(q)' = Pos(q)
      BY <3>1, <1>0 DEF Pos, Backlog
    <3> QED BY <3>1, <3>2 DEF IInv, SeenOK
  <2> QED BY <2>1, <2>2
<1>9. seen'[r] > seen[r]
  <2>1. seen[r] < stored[Pos(r) + 1]
    <3>1. rnext[r] # Absent
      BY DEF nextEvent
    <3>2. \A i \in 1 .. Len(stored) : Pos(r) < i => seen[r] < stored[i]
      BY <3>1 DEF IInv, SeenOK
    <3>3. Pos(r) < Pos(r) + 1
      BY <1>1
    <3> QED BY <3>2, <3>3, <1>2
  <2>2. seen'[r] = stored[Pos(r) + 1]
    BY <1>0, <1>1
  <2> QED BY <2>1, <2>2, <1>0, <1>7
<1> QED
  BY <1>0, <1>4, <1>5, <1>6, <1>8, <1>9 DEF IInv

-----------------------------------------------------------------------------
(* Every step of the queue keeps the inductive invariant.                  *)
LEMMA NextIInv == IInv /\ [Next]_vars => IInv'
<1> SUFFICES ASSUME IInv, [Next]_vars PROVE IInv'
  OBVIOUS
<1>1. ASSUME NEW t \in Types, append(t) PROVE IInv'
  <2>1. CASE keep(t) /\ AppendKept(made + 1)
    BY <1>1, <2>1, KeptStep DEF append
  <2>2. CASE ~keep(t) /\ heap' = heap \cup {made + 1} /\ UNCHANGED <<queue, next, stored>>
    BY <1>1, <2>2, RejectedStep DEF append
  <2> QED BY <1>1, <2>1, <2>2 DEF append
<1>2. ASSUME NEW r \in Readers, NewReader(r) PROVE IInv'
  BY <1>2, NewReaderStep
<1>3. ASSUME NEW r \in Readers, DeleteReader(r) PROVE IInv'
  BY <1>3, DeleteReaderStep
<1>4. ASSUME NEW r \in Readers, nextEvent(r) PROVE IInv'
  BY <1>4, ReadStep
<1>5. CASE UNCHANGED vars
  BY <1>5 DEF vars, IInv, TypeOK, TurnOK, RingOK, StoredOK, ReaderOK, HeapOK,
              SeenOK, Base, Pos, Backlog
<1> QED BY <1>1, <1>2, <1>3, <1>4, <1>5 DEF Next

(* The invariant holds in every state of every behaviour.                  *)
LEMMA Invariance == Spec => []IInv
<1> QED BY InitIInv, NextIInv, PTL DEF Spec

(* The variables of the queue keep their types.                            *)
THEOREM TypeCorrect == Spec => []TypeOK
<1>1. IInv => TypeOK
  BY DEF IInv
<1> QED BY <1>1, Invariance, PTL

(* Whenever moreEvents() lets a reader call nextEvent(), the slot it reads *)
(* holds an event that is still allocated, for every queue length and      *)
(* however far the reader has fallen behind.                               *)
THEOREM ReadsAreSafe == Spec => []NoDanglingRead
<1>1. IInv => NoDanglingRead
  <2> SUFFICES ASSUME IInv, NEW r \in Readers, rnext[r] # Absent, moreEvents(r)
               PROVE  queue[rnext[r]] \in heap
    BY DEF NoDanglingRead
  <2>1. Pos(r) + 1 \in 1 .. Len(stored) /\ queue[rnext[r]] = stored[Pos(r) + 1]
    BY ReadFacts DEF IInv, TypeOK
  <2>2. queue[rnext[r]] \in 1 .. made
    BY <2>1 DEF IInv, StoredOK
  <2>3. rnext[r] \in Slots
    BY DEF IInv, TypeOK
  <2> QED BY <2>2, <2>3 DEF IInv, HeapOK, NULL
<1> QED BY <1>1, Invariance, PTL

(* nextEvent() never gives a reader an event it was already given, nor an  *)
(* older one.                                                              *)
THEOREM ReadsInOrder == Spec => InOrder
<1>1. IInv /\ [Next]_vars => [\A r \in Readers : nextEvent(r) => seen'[r] > seen[r]]_vars
  BY ReadStep
<1> QED BY <1>1, Invariance, PTL DEF Spec, InOrder

-----------------------------------------------------------------------------
(* A step of the queue is a step of the stream, or none of its business.   *)
LEMMA StreamStep == IInv /\ [Next]_vars => [Stream!Next]_(Stream!vars)
<1> SUFFICES ASSUME IInv, [Next]_vars
             PROVE  Stream!Next \/ UNCHANGED Stream!vars
  BY DEF Stream!vars
<1> USE SizeType, BoundAssumption
<1>0. /\ rnext \in [Readers -> Slots \cup {Absent}] /\ Absent \notin Slots
      /\ seen \in [Readers -> Nat] /\ Len(stored) \in Nat /\ stored \in Seq(Nat)
      /\ made \in Nat /\ next \in Slots
  BY DEF IInv, TypeOK, Absent, Slots
<1>1. ASSUME NEW t \in Types, append(t)
      PROVE  Stream!Next \/ UNCHANGED Stream!vars
  <2>1. CASE keep(t) /\ AppendKept(made + 1)
    <3>1. made + 1 \in 1 .. MaxEvents
      BY <1>0, <1>1 DEF append
    <3>2. ASSUME NEW r \in Readers
          PROVE  position'[r] = Stream!AfterAppend(position[r])
      <4>1. position'[r] = IF rnext'[r] = Absent THEN Absent ELSE Pos(r)'
        BY DEF position
      <4>2. position[r] = IF rnext[r] = Absent THEN Absent ELSE Pos(r)
        BY DEF position
      <4>3. rnext' = rnext
        BY <1>1 DEF append
      <4>4. CASE rnext[r] = Absent
        BY <4>1, <4>2, <4>3, <4>4 DEF Stream!AfterAppend, Stream!Absent, Absent
      <4>5. CASE rnext[r] # Absent
        <5>1. /\ Pos(r) \in Int
              /\ Pos(r)' = IF Len(stored) + 1 - Pos(r) = Size THEN Len(stored) + 1 ELSE Pos(r)
          BY <4>3, <4>5, <2>1, PosStep
        <5>2. Pos(r) # Absent
          BY <4>5, PosNat DEF Absent
        <5> QED BY <5>1, <5>2, <4>1, <4>2, <4>3, <4>5 DEF Stream!AfterAppend, Stream!Absent, Absent
      <4> QED BY <4>4, <4>5
    <3>3. position' = [r \in Readers |-> Stream!AfterAppend(position[r])]
      BY <3>2 DEF position
    <3>4. Stream!Append1(made + 1)
      BY <3>3, <2>1, <1>1 DEF Stream!Append1, AppendKept, append
    <3> QED BY <3>1, <3>4 DEF Stream!Next
  <2>2. CASE ~keep(t) /\ heap' = heap \cup {made + 1} /\ UNCHANGED <<queue, next, stored>>
    BY <1>1, <2>2 DEF append, Stream!vars, position, Pos, Backlog
  <2> QED BY <1>1, <2>1, <2>2 DEF append
<1>2. ASSUME NEW r \in Readers, NewReader(r) PROVE Stream!Join(r)
  <2>1. position[r] = Absent
    BY <1>2 DEF NewReader, position
  <2>2. position' = [position EXCEPT ![r] = Len(stored)]
    <3>1. ASSUME NEW q \in Readers
          PROVE  position'[q] = IF q = r THEN Len(stored) ELSE position[q]
      <4>0. position'[q] = IF rnext'[q] = Absent THEN Absent ELSE Len(stored') - Behind(rnext'[q], next')
        BY DEF position, Pos, Backlog
      <4>1. next' = next /\ stored' = stored
        BY <1>2 DEF NewReader
      <4>2. CASE q = r
        <5>1. rnext'[q] = next
          BY <1>0, <1>2, <4>2 DEF NewReader
        <5>2. Behind(next, next) = 0
          BY <1>0 DEF Behind, Slots
        <5> QED BY <5>1, <5>2, <4>0, <4>1, <4>2, <1>0
      <4>3. CASE q # r
        <5>1. rnext'[q] = rnext[q]
          BY <1>0, <1>2, <4>3 DEF NewReader
        <5> QED BY <5>1, <4>0, <4>1, <4>3 DEF position, Pos, Backlog
      <4> QED BY <4>2, <4>3
    <3> QED BY <3>1 DEF position
  <2>3. newest = Stream!Newest(stored)
    BY DEF newest, Stream!Newest
  <2> QED BY <1>2, <2>1, <2>2, <2>3 DEF NewReader, Stream!Join, Stream!Absent, Absent
<1>3. ASSUME NEW r \in Readers, DeleteReader(r) PROVE Stream!Leave(r)
  <2>1. position[r] # Absent
    BY <1>3, PosNat DEF DeleteReader, position, Absent
  <2>2. position' = [position EXCEPT ![r] = Absent]
    BY <1>0, <1>3 DEF DeleteReader, position, Pos, Backlog
  <2> QED BY <1>3, <2>1, <2>2 DEF DeleteReader, Stream!Leave, Stream!Absent, Absent
<1>4. ASSUME NEW r \in Readers, nextEvent(r) PROVE Stream!Read(r)
  <2>1. /\ Pos(r) \in Nat /\ Pos(r) < Len(stored)
        /\ queue[rnext[r]] = stored[Pos(r) + 1]
        /\ position[r] = Pos(r)
    BY <1>4, ReadFacts DEF nextEvent, position
  <2>2. position' = [position EXCEPT ![r] = @ + 1]
    <3>1. ASSUME NEW q \in Readers
          PROVE  position'[q] = IF q = r THEN Pos(r) + 1 ELSE position[q]
      <4>1. position'[q] = IF rnext'[q] = Absent THEN Absent ELSE Pos(q)'
        BY DEF position
      <4>2. CASE q = r
        <5>1. rnext'[r] = Succ(rnext[r]) /\ rnext[r] \in Slots
          BY <1>0, <1>4 DEF nextEvent
        <5>2. rnext'[r] # Absent
          BY <5>1, <1>0, SuccCases
        <5>3. Pos(r)' = Pos(r) + 1
          BY <1>4, PosRead
        <5> QED BY <5>2, <5>3, <4>1, <4>2
      <4>3. CASE q # r
        <5>1. rnext'[q] = rnext[q] /\ next' = next /\ stored' = stored
          BY <1>0, <1>4, <4>3 DEF nextEvent
        <5> QED BY <5>1, <4>1, <4>3 DEF position, Pos, Backlog
      <4> QED BY <4>2, <4>3
    <3> QED BY <3>1, <2>1 DEF position
  <2> QED BY <1>4, <2>1, <2>2 DEF nextEvent, Stream!Read, Stream!Absent
<1>5. CASE UNCHANGED vars
  BY <1>5 DEF vars, Stream!vars, position, Pos, Backlog
<1> QED BY <1>1, <1>2, <1>3, <1>4, <1>5 DEF Next, Stream!Next

(* The ring buffer of every size implements the stream specification: what *)
(* its readers are given, and what they miss, is what EventStream says.    *)
THEOREM RingImplementsStream == Spec => ImplementsStream
<1>1. Init => Stream!Init
  BY DEF Init, Stream!Init, position, Stream!Absent, Absent
<1> QED BY <1>1, StreamStep, Invariance, PTL DEF Spec, ImplementsStream, Stream!Spec

-----------------------------------------------------------------------------
(* What is on the heap: the event of every slot that was ever filled, and  *)
(* every event that the filter rejected.                                   *)
Filled == IF Len(stored) < Size THEN Len(stored) ELSE Size
MemoryOK == IsFiniteSet(heap) /\ Cardinality(heap) = Filled + (made - Len(stored))

(* A queue without a filter stores every event.                            *)
AllKept == made = Len(stored)

(* append() of an event that the filter keeps deletes the one it replaces. *)
LEMMA KeptMemory ==
  ASSUME IInv, MemoryOK, made' = made + 1, AppendKept(made + 1)
  PROVE  MemoryOK'
<1> USE SizeType
<1>0. /\ next \in Slots /\ stored \in Seq(Nat) /\ made \in Nat /\ Len(stored) \in Nat
      /\ heap \subseteq 1 .. made /\ IsFiniteSet(heap)
      /\ Cardinality(heap) = Filled + (made - Len(stored))
  BY DEF IInv, TypeOK, HeapOK, MemoryOK
<1>1. Len(stored') = Len(stored) + 1
  BY <1>0, AppendFacts DEF AppendKept
<1>2. Len(stored) = Base + next /\ Base \in Nat /\ (Base = 0 \/ Base >= Size)
  BY <1>0 DEF Base, IInv, TurnOK, Slots
<1>3. PICK rest : rest = heap \ {queue[next]}
  OBVIOUS
<1>4. heap' = rest \cup {made + 1} /\ made + 1 \notin rest
  BY <1>0, <1>3 DEF AppendKept
<1>5. /\ IsFiniteSet(rest)
      /\ Cardinality(rest) = IF queue[next] \in heap THEN Cardinality(heap) - 1 ELSE Cardinality(heap)
  BY <1>0, <1>3, FS_RemoveElement
<1>6. IsFiniteSet(heap') /\ Cardinality(heap') = Cardinality(rest) + 1
  BY <1>4, <1>5, FS_AddElement
<1>7. CASE Base = 0
  <2>1. queue[next] = NULL
    BY <1>0, <1>7 DEF IInv, RingOK, Slots
  <2>2. queue[next] \notin heap
    BY <1>0, <2>1 DEF NULL
  <2>3. Len(stored) < Size
    BY <1>0, <1>2, <1>7 DEF Slots
  <2>4. Filled' = Filled + 1
    BY <1>0, <1>1, <2>3 DEF Filled
  <2>5. Filled \in Nat
    BY <1>0 DEF Filled
  <2> HIDE DEF Filled
  <2>6. Cardinality(heap') = Cardinality(heap) + 1
    BY <1>5, <1>6, <2>2
  <2> QED BY <1>0, <1>1, <1>6, <2>4, <2>5, <2>6 DEF MemoryOK
<1>8. CASE Base # 0
  <2>1. queue[next] = stored[Base - Size + next + 1]
    BY <1>0, <1>8 DEF IInv, RingOK, Slots
  <2>2. Base - Size + next + 1 \in 1 .. Len(stored)
    BY <1>0, <1>2, <1>8 DEF Slots
  <2>3. queue[next] \in 1 .. made
    BY <2>1, <2>2 DEF IInv, StoredOK
  <2>4. queue[next] \in heap
    BY <1>0, <2>3 DEF IInv, HeapOK, NULL
  <2>5. Filled = Size /\ Filled' = Size
    BY <1>0, <1>1, <1>2, <1>8 DEF Filled, Slots
  <2> HIDE DEF Filled
  <2>6. Cardinality(heap) \in Nat
    BY <1>0, FS_CardinalityType
  <2>7. Cardinality(heap') = Cardinality(heap)
    BY <1>5, <1>6, <2>4, <2>6
  <2> QED BY <1>0, <1>1, <1>6, <2>5, <2>7 DEF MemoryOK
<1> QED BY <1>7, <1>8

(* An event that the filter rejects stays.                                 *)
LEMMA MemoryStep == IInv /\ MemoryOK /\ [Next]_vars => MemoryOK'
<1> SUFFICES ASSUME IInv, MemoryOK, [Next]_vars
             PROVE  MemoryOK'
  OBVIOUS
<1>1. ASSUME NEW t \in Types, append(t)
      PROVE  MemoryOK'
  <2>1. CASE AppendKept(made + 1)
    BY <1>1, <2>1, KeptMemory DEF append
  <2>2. CASE heap' = heap \cup {made + 1} /\ UNCHANGED <<queue, next, stored>>
    <3>1. /\ IsFiniteSet(heap) /\ Cardinality(heap) = Filled + (made - Len(stored))
          /\ made \in Nat /\ Len(stored) \in Nat /\ made + 1 \notin heap /\ made' = made + 1
      BY <1>1 DEF IInv, TypeOK, HeapOK, MemoryOK, append
    <3>2. IsFiniteSet(heap') /\ Cardinality(heap') = Cardinality(heap) + 1
      BY <2>2, <3>1, FS_AddElement
    <3>3. Filled' = Filled /\ Filled \in Nat
      BY <2>2, <3>1, SizeType DEF Filled
    <3> HIDE DEF Filled
    <3> QED BY <2>2, <3>1, <3>2, <3>3 DEF MemoryOK
  <2> QED BY <1>1, <2>1, <2>2 DEF append
<1>2. CASE UNCHANGED <<heap, made, stored>>
  BY <1>2 DEF MemoryOK, Filled
<1>3. CASE \E r \in Readers : NewReader(r) \/ DeleteReader(r) \/ nextEvent(r)
  BY <1>2, <1>3 DEF NewReader, DeleteReader, nextEvent
<1> QED BY <1>1, <1>2, <1>3 DEF Next, vars

(* EventQueue::append(): in a queue without a filter, the events on the    *)
(* heap are at most one per slot, whatever the readers do.                 *)
THEOREM MemoryIsBounded ==
  ASSUME RepositoryId = NoFilter
  PROVE  Spec => []MemoryBounded
<1>1. Init => MemoryOK /\ AllKept
  BY FS_EmptySet, SizeType DEF Init, MemoryOK, Filled, AllKept
<1>2. IInv /\ MemoryOK /\ AllKept => MemoryBounded
  <2> SUFFICES ASSUME IInv, MemoryOK, AllKept
               PROVE  MemoryBounded
    OBVIOUS
  <2>1. made \in Nat /\ Len(stored) \in Nat
    BY DEF IInv, TypeOK
  <2>2. Filled <= Size /\ Filled \in Nat
    BY <2>1, SizeType DEF Filled
  <2> HIDE DEF Filled
  <2> QED BY <2>1, <2>2, SizeType DEF MemoryOK, MemoryBounded, AllKept
<1>3. IInv /\ AllKept /\ [Next]_vars => AllKept'
  <2> SUFFICES ASSUME IInv, AllKept, [Next]_vars
               PROVE  AllKept'
    OBVIOUS
  <2>1. stored \in Seq(Nat) /\ made \in Nat
    BY DEF IInv, TypeOK
  <2>2. ASSUME NEW t \in Types, append(t)
        PROVE  AllKept'
    BY <2>1, <2>2 DEF append, keep, AppendKept, AllKept
  <2>3. CASE UNCHANGED <<made, stored>>
    BY <2>3 DEF AllKept
  <2> QED BY <2>2, <2>3 DEF Next, NewReader, DeleteReader, nextEvent, vars
<1> QED BY <1>1, <1>2, <1>3, MemoryStep, Invariance, PTL DEF Spec
=============================================================================
