---------------------------- MODULE BoundedQueue ----------------------------
(***************************************************************************)
(* What an lv2 event queue promises: a bounded first-in first-out queue of *)
(* distinct events.  An event that is offered is stored, given at once to  *)
(* a receiver that waits, or refused.  It is offered once, and once more   *)
(* when its sender is kept from learning that a receiver has it.           *)
(***************************************************************************)
EXTENDS Naturals, Sequences

CONSTANTS
  Capacity, \* events that can be stored
  Events    \* all events

VARIABLES
  stored, \* the events in the queue
  given,  \* the events that receivers were given, in this order
  again   \* the events that are offered once more

vars == <<stored, given, again>>

Init == stored = <<>> /\ given = <<>> /\ again = {}

\* The event is neither stored nor given.
Fresh(e) ==
  /\ \A i \in DOMAIN stored : stored[i] # e
  /\ \A i \in DOMAIN given : given[i] # e

Offered(e) == Fresh(e) \/ e \in again

Store(e) ==
  /\ Offered(e)
  /\ Len(stored) < Capacity
  /\ stored' = Append(stored, e)
  /\ again' = again \ {e}
  /\ UNCHANGED given

\* Only if no stored event is passed over.
Pass(e) ==
  /\ Offered(e)
  /\ stored = <<>>
  /\ given' = Append(given, e)
  /\ again' = again \ {e}
  /\ UNCHANGED stored

Refuse(e) == again' = again \ {e} /\ UNCHANGED <<stored, given>>

\* The sender of an event that a receiver has does not learn so.
OfferAgain(e) ==
  /\ \E i \in DOMAIN given : given[i] = e
  /\ again' = again \cup {e}
  /\ UNCHANGED <<stored, given>>

Take(count) ==
  /\ given' = given \o SubSeq(stored, 1, count)
  /\ stored' = SubSeq(stored, count + 1, Len(stored))
  /\ UNCHANGED again

Discard == stored' = <<>> /\ UNCHANGED <<given, again>>

Next ==
  \/ \E e \in Events : Store(e) \/ Pass(e) \/ Refuse(e) \/ OfferAgain(e)
  \/ \E count \in 1..Len(stored) : Take(count)
  \/ Discard

Spec == Init /\ [][Next]_vars
=============================================================================
