----------------------------- MODULE Inventory -----------------------------
(***************************************************************************)
(* The capacity ledger of crates/lulan-engine/src/inventory/store.rs: one   *)
(* seat_occupancy row per (trip, seat) with the mask of sold segments, one  *)
(* pool_occupancy row per (trip, pool) with the remaining quantity of each  *)
(* segment.  A unit below is such a row, so it belongs to one trip.         *)
(*                                                                         *)
(* Every claim and release is one guarded UPDATE.  A transaction that does  *)
(* several keeps each row locked until it commits and rolls all of them     *)
(* back when one affects no row, so a whole cart is claimed or released in  *)
(* one step here (module ClaimTx keeps the row locks apart).                *)
(***************************************************************************)
EXTENDS Integers, FiniteSets

CONSTANTS Trips,      \* departures
          Seats,      \* seat_occupancy rows
          Pools,      \* pool_occupancy rows
          TripOf,     \* the trip a row belongs to
          NSeg,       \* segments of a route (stops - 1)
          Capacity    \* capacity_units.pool_capacity of each pool

Units == Seats \cup Pools
Segs  == 0 .. NSeg - 1

ASSUME InventoryAssumption ==
  /\ Seats \cap Pools = {}
  /\ TripOf \in [Units -> Trips]
  /\ NSeg \in Nat \ {0}
  /\ Capacity \in [Pools -> Nat]

VARIABLES mask,       \* seat_occupancy.occupied_mask, as the set of its bits
          remaining   \* pool_occupancy.remaining

ledger == <<mask, remaining>>

LedgerTypeOK ==
  /\ mask \in [Seats -> SUBSET Segs]
  /\ remaining \in [Pools -> [Segs -> Nat]]
  /\ \A p \in Pools, k \in Segs : remaining[p][k] <= Capacity[p]

\* SegmentSpan [from, to): the segments it covers.
Span(from, to) == from .. to - 1
Spans == {Span(a, b) : a \in Segs, b \in 1..NSeg} \ {{}}

\* A cart gives each unit what one order claims on it: at most one line per
\* unit (the primary key of order_items), with the empty span for no line.
Lines  == [span : Spans \cup {{}}, qty : Nat]
NoLine == [span |-> {}, qty |-> 0]
Carts  == [Units -> Lines]
NoCart == [u \in Units |-> NoLine]

Touched(cart) == {u \in Units : cart[u].span # {}}
Legs(cart)    == {TripOf[u] : u \in Touched(cart)}

LedgerInit ==
  /\ mask = [s \in Seats |-> {}]
  /\ remaining = [p \in Pools |-> [k \in Segs |-> Capacity[p]]]

\* A mutant is what a plausible bug would make of the definition after it; only
\* the mutation runs use it.
CanClaimSeatUnlessAllSold(s, line) ==        \* mutant: (mask & span) <> span
  line.span = {} \/ ~(line.span \subseteq mask[s])

CanClaimSeat(s, line) == mask[s] \cap line.span = {}

SeatClaimed(s, line) == mask[s] \cup line.span

CanClaimPool(p, line) ==
  /\ line.qty > 0
  /\ \A k \in line.span : remaining[p][k] >= line.qty

PoolClaimed(p, line) ==
  [k \in Segs |-> remaining[p][k] - (IF k \in line.span THEN line.qty ELSE 0)]

CanClaim(cart) ==
  /\ \A s \in Seats : CanClaimSeat(s, cart[s])
  /\ \A p \in Pools : cart[p].span # {} => CanClaimPool(p, cart[p])

Claim(cart) ==
  /\ mask' = [s \in Seats |-> SeatClaimed(s, cart[s])]
  /\ remaining' = [p \in Pools |-> PoolClaimed(p, cart[p])]

\* The releases' own guards: a row that fails its guard is left as it is.
OwnsSeat(s, line) == line.span \subseteq mask[s]

SeatReset(s, line) ==                        \* mutant: mask = 0
  IF line.span = {} THEN mask[s] ELSE {}

SeatReleased(s, line) ==
  IF OwnsSeat(s, line) THEN mask[s] \ line.span ELSE mask[s]

FitsPoolStrictly(p, line) ==                 \* mutant: < for <=
  \A k \in line.span : remaining[p][k] + line.qty < Capacity[p]

FitsPool(p, line) == \A k \in line.span : remaining[p][k] + line.qty <= Capacity[p]

PoolReleased(p, line) ==
  IF FitsPool(p, line)
  THEN [k \in Segs |-> remaining[p][k] + (IF k \in line.span THEN line.qty ELSE 0)]
  ELSE remaining[p]

Release(cart) ==
  /\ mask' = [s \in Seats |-> SeatReleased(s, cart[s])]
  /\ remaining' = [p \in Pools |-> PoolReleased(p, cart[p])]
=============================================================================
