--------------------------- MODULE DurableDelivery ---------------------------
(***************************************************************************)
(* What the durable event outbox promises the rest of the platform,        *)
(* independently of how rows are claimed, retried and marked:              *)
(*   - an event is accepted once, by the transaction that made the change; *)
(*   - only an accepted event reaches the stream;                          *)
(*   - an event is recorded as delivered only once the stream holds it,    *)
(*     and that record is final;                                           *)
(*   - an event is given up only while it is not recorded as delivered,    *)
(*     and giving up never removes it.                                     *)
(* A late acknowledgement may still confirm an event that was given up.    *)
(***************************************************************************)
CONSTANT Events

VARIABLES accepted, inStream, confirmed, givenUp

vars == <<accepted, inStream, confirmed, givenUp>>

Init ==
  /\ accepted = {}
  /\ inStream = {}
  /\ confirmed = {}
  /\ givenUp = {}

Accept(e) ==
  /\ e \notin accepted
  /\ accepted' = accepted \cup {e}
  /\ UNCHANGED <<inStream, confirmed, givenUp>>

Store(e) ==
  /\ e \in accepted
  /\ inStream' = inStream \cup {e}
  /\ UNCHANGED <<accepted, confirmed, givenUp>>

Confirm(e) ==
  /\ e \in inStream
  /\ confirmed' = confirmed \cup {e}
  /\ UNCHANGED <<accepted, inStream, givenUp>>

(* One pass may exhaust the budget of several events at once. *)
GiveUp(S) ==
  /\ S \subseteq accepted \ confirmed
  /\ givenUp' = givenUp \cup S
  /\ UNCHANGED <<accepted, inStream, confirmed>>

Next ==
  \/ \E e \in Events : Accept(e) \/ Store(e) \/ Confirm(e)
  \/ \E S \in SUBSET Events : GiveUp(S)

Spec == Init /\ [][Next]_vars
=============================================================================
