---------------------------- MODULE EventStream ----------------------------
(***************************************************************************)
(* What the event queue of a ConsumerAdmin promises to its readers, with   *)
(* no ring buffer in sight (EventQueue.h, the comment of class             *)
(* EventQueue).                                                            *)
(*                                                                         *)
(* The kept events form one growing stream.  A reader stands at a position *)
(* of it: it has been given, or has missed, everything up to there.  It is *)
(* given the events after its position one by one and in order.  When a    *)
(* reader falls Ring events behind, it misses all of them at once and      *)
(* stands at the end of the stream again.                                  *)
(***************************************************************************)
EXTENDS Integers, Sequences

CONSTANTS
  Readers,  \* the proxies that read the queue
  Events,   \* the events that may be kept
  Ring      \* how far a reader falls behind before it misses events

VARIABLES
  stream,   \* the kept events, oldest first
  pos,      \* pos[r]: the reader's position, Absent when there is no reader
  seen      \* seen[r]: the newest event r was given, or found in the queue

Absent == -1

Newest(s) == IF s = << >> THEN 0 ELSE s[Len(s)]

Init ==
  /\ stream = << >>
  /\ pos = [r \in Readers |-> Absent]
  /\ seen = [r \in Readers |-> 0]

(* A reader that is already Ring - 1 events behind misses them all.        *)
AfterAppend(p) ==
  IF p # Absent /\ Len(stream) + 1 - p = Ring THEN Len(stream) + 1 ELSE p

Append1(e) ==
  /\ stream' = Append(stream, e)
  /\ pos' = [r \in Readers |-> AfterAppend(pos[r])]
  /\ UNCHANGED seen

Join(r) ==
  /\ pos[r] = Absent
  /\ pos' = [pos EXCEPT ![r] = Len(stream)]
  /\ seen' = [seen EXCEPT ![r] = Newest(stream)]
  /\ UNCHANGED stream

Leave(r) ==
  /\ pos[r] # Absent
  /\ pos' = [pos EXCEPT ![r] = Absent]
  /\ UNCHANGED <<stream, seen>>

Read(r) ==
  /\ pos[r] # Absent
  /\ pos[r] < Len(stream)
  /\ pos' = [pos EXCEPT ![r] = @ + 1]
  /\ seen' = [seen EXCEPT ![r] = stream[pos[r] + 1]]
  /\ UNCHANGED stream

Next ==
  \/ \E e \in Events : Append1(e)
  \/ \E r \in Readers : Join(r) \/ Leave(r) \/ Read(r)

vars == <<stream, pos, seen>>

Spec == Init /\ [][Next]_vars
=============================================================================
