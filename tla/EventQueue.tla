----------------------------- MODULE EventQueue -----------------------------
(***************************************************************************)
(* The circular event buffer of a ConsumerAdmin (EventQueue.h/.cc) with    *)
(* its filter (Filter.cc) and its readers.                                 *)
(*                                                                         *)
(* A CORBA::Any on the heap is a number: the events are numbered in the    *)
(* order they are created, NULL is 0.  "heap" holds the ones that have not *)
(* been deleted.  "made", "stored" and "seen" are history: how many events *)
(* were created, which ones the filter kept, and the newest event a reader *)
(* was given (or that was in the queue before the reader was made).        *)
(***************************************************************************)
EXTENDS Integers, Sequences, FiniteSets

CONSTANTS
  MaxQueueLength,   \* constructor argument: how many events are buffered
  Readers,          \* the proxies that may be made as readers
  Types,            \* the types of events, as far as a filter sees them
  RepositoryId,     \* the type the filter keeps, or NoFilter
  NoFilter,
  MaxEvents         \* bound: events created in a behaviour

ASSUME QueueAssumption == MaxQueueLength \in Nat \ {0}
ASSUME BoundAssumption == MaxEvents \in Nat

VARIABLES
  next,     \* EventQueue::_next
  queue,    \* EventQueue::_queue
  rnext,    \* rnext[r]: Reader::_next, Absent when r does not exist
  heap,     \* the CORBA::Any objects that are allocated
  made, stored, seen

vars == <<next, queue, rnext, heap, made, stored, seen>>

NULL == 0
Absent == -1

(* _size: one entry more than asked for, the `empty' one at the head.      *)
Size == MaxQueueLength + 1
Slots == 0 .. Size - 1

Init ==
  /\ next = 0
  /\ queue = [i \in Slots |-> NULL]
  /\ rnext = [r \in Readers |-> Absent]
  /\ heap = {}
  /\ made = 0
  /\ stored = << >>
  /\ seen = [r \in Readers |-> 0]

(* Mutant of Succ: the ring turns round one slot too early.                *)
SuccShort(i) == (i + 1) % (Size - 1)

(* The slot after slot i: (_next+1)%_size.                                 *)
Succ(i) == (i + 1) % Size

(* FilterByRepositoryId::keep, and a queue with no filter.                 *)
keep(t) == RepositoryId = NoFilter \/ t = RepositoryId

(* Mutant of AppendKept: the slot is overwritten first, and the new event  *)
(* deleted.                                                                *)
AppendThenDelete(e) ==
  /\ heap' = heap \ {e}
  /\ queue' = [queue EXCEPT ![next] = e]
  /\ next' = Succ(next)
  /\ stored' = Append(stored, e)

(* append() of an event the filter keeps.                                  *)
AppendKept(e) ==
  /\ heap' = (heap \ {queue[next]}) \cup {e}
  /\ queue' = [queue EXCEPT ![next] = e]
  /\ next' = Succ(next)
  /\ stored' = Append(stored, e)

(* append(): a rejected event is left alone by the queue: it is not        *)
(* stored, and nobody deletes it.                                          *)
append(t) ==
  /\ made < MaxEvents
  /\ made' = made + 1
  /\ \/ keep(t) /\ AppendKept(made + 1)
     \/ ~keep(t) /\ heap' = heap \cup {made + 1} /\ UNCHANGED <<queue, next, stored>>
  /\ UNCHANGED <<rnext, seen>>

(* Reader::Reader.                                                         *)
newest == IF stored = << >> THEN 0 ELSE stored[Len(stored)]
NewReader(r) ==
  /\ rnext[r] = Absent
  /\ rnext' = [rnext EXCEPT ![r] = next]
  /\ seen' = [seen EXCEPT ![r] = newest]
  /\ UNCHANGED <<next, queue, heap, made, stored>>

DeleteReader(r) ==
  /\ rnext[r] # Absent
  /\ rnext' = [rnext EXCEPT ![r] = Absent]
  /\ UNCHANGED <<next, queue, heap, made, stored, seen>>

(* Mutant of moreEvents: any event in the slot will do.                    *)
SlotInUse(r) == queue[rnext[r]] # NULL

moreEvents(r) == rnext[r] # next

(* nextEvent(), only ever called after moreEvents().                       *)
nextEvent(r) ==
  /\ rnext[r] # Absent
  /\ moreEvents(r)
  /\ seen' = [seen EXCEPT ![r] = queue[rnext[r]]]
  /\ rnext' = [rnext EXCEPT ![r] = Succ(@)]
  /\ UNCHANGED <<next, queue, heap, made, stored>>

Next ==
  \/ \E t \in Types : append(t)
  \/ \E r \in Readers : NewReader(r) \/ DeleteReader(r) \/ nextEvent(r)

Spec == Init /\ [][Next]_vars

-----------------------------------------------------------------------------
(* Type correctness.                                                       *)
TypeOK ==
  /\ next \in Slots
  /\ queue \in [Slots -> Nat]
  /\ rnext \in [Readers -> Slots \cup {Absent}]
  /\ heap \subseteq Nat
  /\ made \in Nat
  /\ stored \in Seq(Nat)
  /\ seen \in [Readers -> Nat]

(* No reader is ever handed a dangling or a null pointer: when moreEvents()*)
(* lets it call nextEvent(), the slot holds an event append() has not      *)
(* deleted, however often the writer has gone round since the last read.   *)
NoDanglingRead ==
  \A r \in Readers :
    rnext[r] # Absent /\ moreEvents(r) => queue[rnext[r]] \in heap

(* No reader is given an event twice or an older one after a newer one,    *)
(* even when the ring wrapped round between two of its reads.              *)
InOrder ==
  [][\A r \in Readers :
       nextEvent(r) => seen'[r] > seen[r]]_vars

(* How many events moreEvents() and nextEvent() still give a reader.       *)
Behind(from, to) == IF from <= to THEN to - from ELSE to + Size - from
Backlog(r) == Behind(rnext[r], next)

(* A reader's position in the stream of kept events.                       *)
Pos(r) == Len(stored) - Backlog(r)
position == [r \in Readers |-> IF rnext[r] = Absent THEN Absent ELSE Pos(r)]

(* The ring buffer implements the stream: the position of a reader is its  *)
(* backlog counted back from the end of the stream.                        *)
Stream == INSTANCE EventStream WITH
  Events <- 1 .. MaxEvents,
  Ring <- Size,
  stream <- stored,
  pos <- position

(* Every behaviour of the ring buffer is one of the stream: readers get    *)
(* the kept events one by one and in order, and a reader that falls _size  *)
(* events behind misses exactly those _size events.                        *)
ImplementsStream == Stream!Spec

(* EventQueue.h: "guarantees that the worst-case memory usage will never   *)
(* rise above the defined maximum": one event per slot.  It does rise: an  *)
(* event that the filter rejects is neither stored nor deleted.            *)
MemoryBounded == Cardinality(heap) <= Size

=============================================================================
