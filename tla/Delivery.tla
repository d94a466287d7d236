------------------------------ MODULE Delivery ------------------------------
(***************************************************************************)
(* What the receivers of a set of subscriptions are promised: each         *)
(* subscription is a FIFO channel.  The server publishes messages          *)
(* 1, 2, 3, ... on it and the application is handed exactly that sequence, *)
(* message after message, however late.                                    *)
(***************************************************************************)
EXTENDS Integers, Sequences

CONSTANT Subscriptions

VARIABLES
  published,  \* how many messages the server has published, per subscription
  delivered   \* the message ids handed to the application, per subscription

Init ==
  /\ published = [sub \in Subscriptions |-> 0]
  /\ delivered = [sub \in Subscriptions |-> <<>>]

Publish(sub) ==
  /\ published' = [published EXCEPT ![sub] = @ + 1]
  /\ UNCHANGED delivered

Deliver(sub) ==
  /\ Len(delivered[sub]) < published[sub]
  /\ delivered' = [delivered EXCEPT ![sub] = Append(@, Len(@) + 1)]
  /\ UNCHANGED published

Next == \E sub \in Subscriptions : Publish(sub) \/ Deliver(sub)

Spec == Init /\ [][Next]_<<published, delivered>>
=============================================================================
