---------------------------- MODULE MCTicketKeys ----------------------------
(* Small instances of TicketKeys for TLC. *)
EXTENDS TicketKeys, TLC

Symmetry == Permutations(Replicas) \cup Permutations(Orders) \cup Permutations(Devices)
=============================================================================
