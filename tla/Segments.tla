------------------------------ MODULE Segments ------------------------------
(***************************************************************************)
(* What the database stores of spans: a seat's segments as the bits of a    *)
(* word that SQL sees as a signed integer, a pool's units as an array        *)
(* counted from one (module Routes); crates/lulan-engine/src/domain/segment.rs *)
(* and inventory/store.rs.  Module Inventory has the same ledger as sets of   *)
(* segments.                                                                *)
(***************************************************************************)
EXTENDS Routes

Power[k \in 0..MaxSegments] == IF k = 0 THEN 1 ELSE 2 * Power[k - 1]

Word      == Power[MaxSegments]
Positions == 0 .. MaxSegments - 1

\* A word as a set, and a set as a word.
Bits(w) == {k \in Positions : (w \div Power[k]) % 2 = 1}
WordOf  == [B \in SUBSET Positions |-> CHOOSE w \in 0 .. Word - 1 : Bits(w) = B]

\* The &, | and ~ of the statements, bit by bit.
BitAnd(v, w) == WordOf[Bits(v) \cap Bits(w)]
BitOr(v, w)  == WordOf[Bits(v) \cup Bits(w)]
BitNot(w)    == WordOf[Positions \ Bits(w)]

SpanMaskNarrow(s) ==                         \* mutant: no case for the full width (1 << 64 is 1 << 0)
  LET width == (s.to - s.from) % MaxSegments
  IN  (Power[width] - 1) * Power[s.from]

\* SegmentSpan::mask.
SpanMask(s) ==
  LET width == s.to - s.from
  IN  IF width = MaxSegments THEN Word - 1 ELSE (Power[width] - 1) * Power[s.from]

\* `as i64` for the bigint column, `as u64` back.
AsSigned(m) == IF m >= Word \div 2 THEN m - Word ELSE m
AsWord(i)   == i % Word

-----------------------------------------------------------------------------
(* A row of seat_occupancy *)

\* (occupied_mask & $3) <> 0
Hits(stored, s) == BitAnd(AsWord(stored), SpanMask(s)) # 0

SeatClaimed(stored, s)  == AsSigned(BitOr(AsWord(stored), SpanMask(s)))

\* Only a row that has all of the span is changed.
SeatReleased(stored, s) ==
  IF BitAnd(AsWord(stored), SpanMask(s)) = SpanMask(s)
  THEN AsSigned(BitAnd(AsWord(stored), BitNot(SpanMask(s)))) ELSE stored

-----------------------------------------------------------------------------
(* What search and the seat map answer *)

\* fare_availability_batch and trip_availability.
FreeSeats(rows, s) == {x \in DOMAIN rows : ~Hits(rows[x], s)}

TrailingZeros(m) == Min({k \in 0..MaxSegments : k = MaxSegments \/ k \in Bits(m)})
LeadingZeros(m)  == Min({k \in 0..MaxSegments : k = MaxSegments \/ MaxSegments - 1 - k \in Bits(m)})

BatchLeftTopBit(row, i) ==                   \* mutant: the upper end without its last segment
  LET m == AsWord(i)
  IN  SliceMin(row, TrailingZeros(m) + 1, MaxSegments - 1 - LeadingZeros(m))

\* pool_availability_batch: from and to come back out of the mask.
BatchLeft(row, i) ==
  LET m == AsWord(i)
  IN  SliceMin(row, TrailingZeros(m) + 1, MaxSegments - LeadingZeros(m))

\* span_occupancy_bp: for a seat the seats of its class that the span meets,
\* for a pool the fullest segment.
SeatsSoldBp(rows, s) ==
  IF DOMAIN rows = {} THEN 0
  ELSE (Cardinality({x \in DOMAIN rows : Hits(rows[x], s)}) * 10000) \div Cardinality(DOMAIN rows)

PoolSoldBp(row, s, capacity) ==
  IF capacity <= 0 THEN 0 ELSE ((capacity - PoolLeft(row, s)) * 10000) \div capacity
=============================================================================
