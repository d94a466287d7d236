----------------------------- MODULE MCSession -----------------------------
(***************************************************************************)
(* Instances of Session for TLC.                                           *)
(***************************************************************************)
EXTENDS Session, TLC

Plain(command, timeout) ==
  [command |-> command, subscription |-> None, receiptTimeout |-> timeout]
On(command, sub, timeout) ==
  [command |-> command, subscription |-> sub, receiptTimeout |-> timeout]

\* Sends with and without a receipt, and every way to disconnect.
SendRequests ==
  {Plain("SEND", RECEIPT_DEFAULT_TIMEOUT), Plain("SEND", 1000),
   Plain("DISCONNECT", RECEIPT_DEFAULT_TIMEOUT),
   Plain("DISCONNECT", RECEIPT_NOT_REQUESTED)}

\* Sends with a receipt beside a subscription that is opened and closed without
\* one, and another that is open from the start.
LiveRequests ==
  {Plain("SEND", 1000)}
    \cup
  {On(command, sub, RECEIPT_NOT_REQUESTED) :
     command \in {"SUBSCRIBE", "UNSUBSCRIBE"}, sub \in Subscriptions \ PreSubscribed}

\* Subscriptions opened with and without a receipt, and closed with one.
SubscriptionRequests ==
  UNION {{On("SUBSCRIBE", sub, RECEIPT_DEFAULT_TIMEOUT),
          On("SUBSCRIBE", sub, 1000),
          On("UNSUBSCRIBE", sub, RECEIPT_DEFAULT_TIMEOUT)} : sub \in Subscriptions}

\* Nothing in Session tells one subscription from another.
Symmetry == Permutations(Subscriptions)
=============================================================================
