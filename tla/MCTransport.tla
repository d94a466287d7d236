---------------------------- MODULE MCTransport ----------------------------
(***************************************************************************)
(* Instances of Transport for TLC.                                         *)
(***************************************************************************)
EXTENDS Transport

Rates(w, r) == [valid |-> TRUE, write |-> w, read |-> r]

\* A malformed header, no heart-beat, one direction only, and rates below and
\* above the client's own.
HeartBeats ==
  {[valid |-> FALSE, write |-> 0, read |-> 0],
   Rates(0, 0), Rates(3, 0), Rates(0, 3), Rates(1, 3), Rates(3, 1)}
=============================================================================
