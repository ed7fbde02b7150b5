----------------------------- MODULE MCPayments -----------------------------
(* Small instances of Payments for TLC. *)
EXTENDS Payments, TLC

Symmetry == Permutations(Webhooks) \cup Permutations(Requests)
=============================================================================
