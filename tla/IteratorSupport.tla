-------------------------- MODULE IteratorSupport --------------------------
(***************************************************************************)
(* Iterators over lists, in a POA with a servant locator that collects     *)
(* garbage.  refs counts the references of an iterator: one of the         *)
(* locator's map and one of each call under way.  The call "destroy" takes *)
(* over the reference of the map.  A thread sweeps the map and drops the   *)
(* entries that nobody has used for longer than their time to live.        *)
(***************************************************************************)
EXTENDS Naturals, SequencesExt

CONSTANTS
  Iterators,  \* bound on the iterators at a time
  Ttl         \* time to live of an unused iterator

ASSUME TtlAssumption == Ttl \in Nat

VARIABLES
  refs,     \* reference count of each iterator, 0 if it does not exist
  list_,    \* what is left of its list, from offset_ on
  mapped,   \* is it in activeMap_?
  age,      \* time since last_access
  using     \* the call under way: "no", "next" or "destroy"

iterVars == <<refs, list_, mapped, age, using>>

IterTypeOK ==
  /\ refs \in [Iterators -> Nat]
  /\ \A i \in Iterators : refs[i] = 0 => list_[i] = <<>>
  /\ mapped \in [Iterators -> BOOLEAN]
  /\ age \in [Iterators -> 0 .. Ttl + 1]
  /\ using \in [Iterators -> {"no", "next", "destroy"}]

IterInit ==
  /\ refs = [i \in Iterators |-> 0]
  /\ list_ = [i \in Iterators |-> <<>>]
  /\ mapped = [i \in Iterators |-> FALSE]
  /\ age = [i \in Iterators |-> 0]
  /\ using = [i \in Iterators |-> "no"]

\* _remove_ref(): the last reference deletes the iterator and its list.
_remove_ref(i) ==
  /\ refs' = [refs EXCEPT ![i] = @ - 1]
  /\ list_' = IF refs[i] = 1 THEN [list_ EXCEPT ![i] = <<>>] ELSE list_

\* list(count, items) returns everything, and no iterator.
fits(count, items) == count >= Len(items)

\* list() makes an iterator for what is left after the first count items.
activateGCObject(i, count, items) ==
  /\ refs[i] = 0
  /\ refs' = [refs EXCEPT ![i] = 1]
  /\ list_' = [list_ EXCEPT ![i] = SubSeq(items, count + 1, Len(items))]
  /\ mapped' = [mapped EXCEPT ![i] = TRUE]
  /\ age' = [age EXCEPT ![i] = 0]
  /\ UNCHANGED using

\* Mutant: the call does not get a reference of its own.
preinvokeNoRef(i) ==
  /\ mapped[i]
  /\ age' = [age EXCEPT ![i] = 0]
  /\ using' = [using EXCEPT ![i] = "next"]
  /\ UNCHANGED <<refs, list_, mapped>>

\* preinvoke() of a call other than destroy.
preinvoke(i) ==
  /\ mapped[i]
  /\ refs' = [refs EXCEPT ![i] = @ + 1]
  /\ age' = [age EXCEPT ![i] = 0]
  /\ using' = [using EXCEPT ![i] = "next"]
  /\ UNCHANGED <<list_, mapped>>

\* preinvoke() of destroy: the entry goes, and the call has its reference.
preinvokeDestroy(i) ==
  /\ mapped[i]
  /\ mapped' = [mapped EXCEPT ![i] = FALSE]
  /\ age' = [age EXCEPT ![i] = 0]
  /\ using' = [using EXCEPT ![i] = "destroy"]
  /\ UNCHANGED <<refs, list_>>

\* preinvoke() raises OBJECT_NOT_EXIST.
notExist(i) == ~mapped[i]

\* next_one() and next_n() return false at the end of the list.
atEnd(i) == list_[i] = <<>>

\* The body of next_n(), of which next_one() is next_n(1), and postinvoke().
next_n(i, how_many) ==
  /\ using[i] = "next"
  /\ refs' = [refs EXCEPT ![i] = @ - 1]
  /\ list_' = [list_ EXCEPT ![i] =
       IF refs[i] = 1 \/ how_many >= Len(@) THEN <<>> ELSE SubSeq(@, how_many + 1, Len(@))]
  /\ using' = [using EXCEPT ![i] = "no"]
  /\ UNCHANGED <<mapped, age>>

\* The empty body of destroy(), and postinvoke().
iterDestroyed(i) ==
  /\ using[i] = "destroy"
  /\ _remove_ref(i)
  /\ using' = [using EXCEPT ![i] = "no"]
  /\ UNCHANGED <<mapped, age>>

\* Mutant: the sweep counts as a use.
sweepTouches(i) ==
  /\ mapped[i]
  /\ age[i] > Ttl
  /\ age' = [age EXCEPT ![i] = 0]
  /\ UNCHANGED <<refs, list_, mapped, using>>

\* gc_sweep() finds that the entry is too old.
sweep(i) ==
  /\ mapped[i]
  /\ age[i] > Ttl
  /\ mapped' = [mapped EXCEPT ![i] = FALSE]
  /\ age' = [age EXCEPT ![i] = 0]
  /\ _remove_ref(i)
  /\ UNCHANGED using

\* Time passes.
Tick ==
  /\ \E i \in Iterators : mapped[i] /\ age[i] <= Ttl
  /\ age' = [i \in Iterators |-> IF mapped[i] /\ age[i] <= Ttl THEN age[i] + 1 ELSE age[i]]
  /\ UNCHANGED <<refs, list_, mapped, using>>

\* The references that the locator and a call under way have.
holders(i) == (IF mapped[i] THEN 1 ELSE 0) + (IF using[i] # "no" THEN 1 ELSE 0)

(***************************************************************************)
(* A call uses an iterator that exists, even if it is swept or destroyed   *)
(* at the same time, and an iterator that nobody can use is deleted.       *)
(***************************************************************************)
IteratorsAlive == \A i \in Iterators : refs[i] = holders(i)

\* An iterator that its client has left alone is deleted in the end: the
\* list of eventl and of rmeventall, which never destroy theirs.
AbandonedAreFreed == \A i \in Iterators : refs[i] > 0 ~> refs[i] = 0

=============================================================================
