------------------------------ MODULE MCOrders ------------------------------
(* Small instances of Orders for TLC. *)
EXTENDS Orders, TLC

CONSTANTS t1, t2, s1, s2, p1

MCTrips    == {t1, t2}
MCSeats    == {s1, s2}
MCPools    == {p1}
MCTripOf   == (s1 :> t1) @@ (s2 :> t2) @@ (p1 :> t1)
MCCapacity == (p1 :> 2)

Line(from, to, qty) == [span |-> Span(from, to), qty |-> qty]
Ask(lines) == [u \in {s1, s2, p1} |->
                 IF u \in DOMAIN lines THEN lines[u] ELSE NoLine]

\* A two-leg itinerary with a pool line, the later leg of its first seat with a
\* pool line that overlaps it, that whole seat, the second seat with all of the
\* pool, an empty pool line, and a pool line alone.
TwoLegs     == Ask((s1 :> Line(0, 1, 1)) @@ (s2 :> Line(0, 1, 1)) @@ (p1 :> Line(0, 1, 1)))
LaterLeg    == Ask((s1 :> Line(1, 2, 1)) @@ (p1 :> Line(0, 2, 1)))
WholeSeat   == Ask(s1 :> Line(0, 2, 1))
SeatAndPool == Ask((s2 :> Line(0, 1, 1)) @@ (p1 :> Line(0, 2, 2)))
NoQuantity  == Ask(p1 :> Line(0, 1, 0))
PoolOnly    == Ask(p1 :> Line(1, 2, 1))

MCRequests   == {TwoLegs, LaterLeg, WholeSeat, SeatAndPool, NoQuantity}
TaskRequests == MCRequests \cup {PoolOnly}   \* a standalone claim has one line

Symmetry == Permutations(Orders)
=============================================================================
