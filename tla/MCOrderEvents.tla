---------------------------- MODULE MCOrderEvents ----------------------------
(***************************************************************************)
(* Instances of OrderEvents for TLC: events 1 and 3 are about one order.   *)
(***************************************************************************)
EXTENDS OrderEvents

TwoOrders == [e \in Events |-> e % 2]

=============================================================================
