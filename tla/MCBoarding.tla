----------------------------- MODULE MCBoarding -----------------------------
(* Small instances of Boarding for TLC. *)
EXTENDS Boarding, TLC

CONSTANTS o1, o2, k1, k2, k3, leg1, leg2

\* One passenger on two legs, and a second order of one ticket.
MCOrders  == {o1, o2}
MCTickets == {k1, k2, k3}
MCOrderOf == (k1 :> o1) @@ (k2 :> o1) @@ (k3 :> o2)
TwoLegs   == {leg1, leg2}
MCLegOf   == (k1 :> leg1) @@ (k2 :> leg2) @@ (k3 :> leg1)

OneOrder    == {o1}
TwoTickets  == {k1, k2}
TwoOrderOf  == (k1 :> o1) @@ (k2 :> o1)
TwoLegOf    == (k1 :> leg1) @@ (k2 :> leg2)

Symmetry == Permutations(Devices) \cup Permutations(Stamps) \cup Permutations(Workers)
=============================================================================
