------------------------------ MODULE MCHolds ------------------------------
(* Small instances of Holds for TLC. *)
EXTENDS Holds, TLC

CONSTANTS s1, s2, s3, s4

Seat(u, span) == [unit |-> u, span |-> span]

\* Itineraries over the same seats in opposite orders: the first two coexist on one
\* seat and collide on the other, the first and the third coexist on both.
MCItineraries == {<<Seat(s1, {1}), Seat(s2, {0})>>, <<Seat(s2, {0, 1}), Seat(s1, {0})>>,
                  <<Seat(s2, {1}), Seat(s1, {0})>>}

\* More than the ceiling of three, by two requests.
MoreSeats == {<<Seat(s1, {0}), Seat(s2, {0})>>, <<Seat(s3, {0}), Seat(s4, {0})>>}

Symmetry == Permutations(Sessions)
=============================================================================
