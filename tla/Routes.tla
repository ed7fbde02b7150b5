------------------------------- MODULE Routes -------------------------------
(***************************************************************************)
(* Stops of a route, the spans between them and the units left on a span     *)
(* (crates/lulan-engine/src/domain/segment.rs, domain/network.rs,            *)
(* domain/pool.rs and inventory/store.rs): how a claim, search and the domain *)
(* type each find the span of a journey, and the database and the domain     *)
(* type what is left of a pool on it.                                       *)
(***************************************************************************)
EXTENDS Integers, Sequences, SequencesExt

CONSTANTS MaxSegments,   \* MAX_SEGMENTS: the width of an occupancy mask
          NSeg           \* segments of a route

ASSUME RoutesAssumption == MaxSegments \in Nat /\ NSeg \in 1..MaxSegments

\* SegmentSpan::new.
SpanOk(a, b) == a < b /\ b <= MaxSegments
Spans == {s \in [from : 0..NSeg, to : 0..NSeg] : SpanOk(s.from, s.to)}

\* pick_span: the first stop of the origin, then the first of the destination
\* behind it; the span has the stops' indexes, from zero.
Calls(stops, code) == {i \in DOMAIN stops : stops[i] = code}

PickSpan(stops, origin, destination) ==
  LET from  == Min(Calls(stops, origin))
      after == {i \in Calls(stops, destination) : i > from}
  IN  IF Calls(stops, origin) = {} \/ after = {} THEN {}
      ELSE {[from |-> from - 1, to |-> Min(after) - 1]}

\* Route::span_between, on the domain type.
SpanBetween(stops, origin, destination) ==
  {s \in Spans : /\ Calls(stops, origin) # {} /\ Calls(stops, destination) # {}
                 /\ s.from + 1 = Min(Calls(stops, origin))
                 /\ s.to + 1 = Min(Calls(stops, destination))}

\* search_trips: the join of the trip's route with itself, o before d.
SearchSpans(stops, origin, destination) ==
  {s \in Spans : s.from + 1 \in Calls(stops, origin) /\ s.to + 1 \in Calls(stops, destination)}

\* The claim, search and the domain type have the same span for a journey.
SpansAgree(stops, origin, destination) ==
  LET claimed == PickSpan(stops, origin, destination)
  IN  /\ claimed = SearchSpans(stops, origin, destination)
      /\ claimed = SpanBetween(stops, origin, destination)

-----------------------------------------------------------------------------
(* A row of pool_occupancy, stored and in memory *)

\* Postgres arrays are 1-based: span [from, to) is the slice [from+1 : to].
Slice(s) == s.from + 1 .. s.to

SliceMin(row, from, to) ==
  LET cells == {row[k] : k \in (from .. to) \cap DOMAIN row}
  IN  IF cells = {} THEN 0 ELSE Min(cells)

PoolTakes(row, s, qty)   == \A k \in Slice(s) : row[k] >= qty
PoolClaimed(row, s, qty) ==
  [k \in DOMAIN row |-> IF k \in Slice(s) THEN row[k] - qty ELSE row[k]]

PoolReleased(row, s, qty, capacity) ==
  IF \A k \in Slice(s) : row[k] + qty <= capacity
  THEN PoolClaimed(row, s, -qty) ELSE row

\* pool_availability: the slice of the span.
PoolLeft(row, s) == SliceMin(row, s.from + 1, s.to)

\* PoolOccupancy, the same counters in memory, from zero.
InMemory(row) == [i \in 0..NSeg - 1 |-> row[i + 1]]
RemainingFor(cells, s) == Min({cells[i] : i \in s.from .. s.to - 1})
Reserved(cells, s, qty) ==
  [i \in DOMAIN cells |-> IF i \in s.from .. s.to - 1 THEN cells[i] - qty ELSE cells[i]]
=============================================================================
