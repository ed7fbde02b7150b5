-------------------------------- MODULE Fares --------------------------------
(***************************************************************************)
(* From a search to a priced order: the ledger as it is stored, live prices  *)
(* at its occupancy, signed quotes and orders, fare rules and their switches *)
(* (crates/lulan-api/src/pricing.rs and orders.rs; inventory/store.rs of     *)
(* lulan-engine).                                                           *)
(*                                                                         *)
(* Composes Quotes, whose requests read one occupancy per line, FareRules,   *)
(* whose switches run in between, and Segments, whose rows other orders      *)
(* sell and release meanwhile.                                              *)
(***************************************************************************)
EXTENDS Segments, Quotes

CONSTANTS Trips,
          Pools, Capacity,     \* pools of the vessel
          Walkups              \* orders of others, booked and released

\* Vessels have finitely many seats; UNIQUE (route_id, location_id) keeps the stops
\* of a route apart; carts are those that resolve_target found a unit and a span for.
ASSUME FaresAssumption ==
  /\ Seats \cap Pools = {} /\ IsFiniteSet(Seats) /\ Capacity \in [Pools -> Nat]
  /\ \A t \in Trips : /\ Route[t] \in [1..NSeg + 1 -> ToSet(Route[t])]
                      /\ \A i, j \in 1..NSeg + 1 : Route[t][i] = Route[t][j] => i = j
  /\ \A cart \in Walkups \cup {ask.cart : ask \in Asks} : \A l \in ToSet(Lines(cart)) :
       /\ l.trip \in Trips /\ l.item.unit \in Seats \cup Pools /\ l.item.quantity \in Int
       /\ PickSpan(Route[l.trip], l.item.origin, l.item.destination) # {}

VARIABLES mask, left,     \* seat_occupancy and pool_occupancy rows
          walkup          \* orders of others that are held

ledger == <<mask, left>>
vars   == <<ledger, walkup, rules_vars, quotes_vars>>

SameClass(u) == {s \in Seats : FareClass[s] = FareClass[u]}

\* span_occupancy_bp.
Occupancy(l) ==
  IF l.item.unit \in Seats
  THEN SeatsSoldBp([s \in SameClass(l.item.unit) |-> mask[l.trip][s]], SpanOf(l))
  ELSE PoolSoldBp(left[l.trip][l.item.unit], SpanOf(l), Capacity[l.item.unit])

TypeOK ==
  /\ mask \in [Trips -> [Seats -> -(Word \div 2) .. (Word \div 2) - 1]]
  /\ \A t \in Trips, p \in Pools, k \in 1..NSeg : left[t][p][k] \in 0..Capacity[p]
  /\ walkup \subseteq Walkups
  /\ FareRulesTypeOK

Init ==
  /\ mask = [t \in Trips |-> [s \in Seats |-> 0]]
  /\ left = [t \in Trips |-> [p \in Pools |-> [k \in 1..NSeg |-> Capacity[p]]]]
  /\ walkup = {}
  /\ FareRulesInit
  /\ QuotesInit

-----------------------------------------------------------------------------
(* Selling and releasing *)

CanBook(l) ==
  IF l.item.unit \in Seats THEN ~Hits(mask[l.trip][l.item.unit], SpanOf(l))
  ELSE l.item.quantity > 0 /\ PoolTakes(left[l.trip][l.item.unit], SpanOf(l), l.item.quantity)

\* PRIMARY KEY (order_id, trip_id, unit_id) of order_items: a second line for a unit
\* of the trip fails, and the order with it.
UnitsApart(cart) ==
  \A i, j \in DOMAIN Lines(cart) :
    LET k == Lines(cart)[i]
        l == Lines(cart)[j]
    IN  k.trip = l.trip /\ k.item.unit = l.item.unit => i = j

CanBookAll(cart) == UnitsApart(cart) /\ \A l \in ToSet(Lines(cart)) : CanBook(l)

BookLines(ls) ==
  /\ mask' = [t \in Trips |-> [s \in Seats |->
       IF \E l \in ls : l.trip = t /\ l.item.unit = s
       THEN SeatClaimed(mask[t][s], SpanOf(CHOOSE l \in ls : l.trip = t /\ l.item.unit = s))
       ELSE mask[t][s]]]
  /\ left' = [t \in Trips |-> [p \in Pools |->
       IF \E l \in ls : l.trip = t /\ l.item.unit = p
       THEN LET l == CHOOSE x \in ls : x.trip = t /\ x.item.unit = p
            IN  PoolClaimed(left[t][p], SpanOf(l), l.item.quantity)
       ELSE left[t][p]]]

\* OrderStore::create takes the lines of the order, or none of them; module
\* Orders has its inside.
Book(q) ==
  LET won == CanBookAll(request[q].cart)
  IN  /\ Place(q, won)
      /\ IF won THEN BookLines(ToSet(Lines(request[q].cart))) ELSE UNCHANGED ledger
      /\ UNCHANGED walkup

\* release_item, line by line.
ReleaseLines(ls) ==
  /\ mask' = [t \in Trips |-> [s \in Seats |->
       IF \E l \in ls : l.trip = t /\ l.item.unit = s
       THEN SeatReleased(mask[t][s], SpanOf(CHOOSE l \in ls : l.trip = t /\ l.item.unit = s))
       ELSE mask[t][s]]]
  /\ left' = [t \in Trips |-> [p \in Pools |->
       IF \E l \in ls : l.trip = t /\ l.item.unit = p
       THEN LET l == CHOOSE x \in ls : x.trip = t /\ x.item.unit = p
            IN  PoolReleased(left[t][p], SpanOf(l), l.item.quantity, Capacity[p])
       ELSE left[t][p]]]

\* Orders of others, sold and released.
WalkupBooks(cart) ==
  /\ cart \notin walkup
  /\ CanBookAll(cart)
  /\ walkup' = walkup \cup {cart}
  /\ BookLines(ToSet(Lines(cart)))
  /\ UNCHANGED <<rules_vars, quotes_vars>>

WalkupReleases(cart) ==
  /\ cart \in walkup
  /\ walkup' = walkup \ {cart}
  /\ ReleaseLines(ToSet(Lines(cart)))
  /\ UNCHANGED <<rules_vars, quotes_vars>>

\* One line, at the occupancy of this moment.
PriceNextLine(q) == PriceLine(q, Occupancy(NextLine(request[q])))

Next ==
  \/ (\E w \in Switchers : Switch(w)) /\ UNCHANGED <<ledger, walkup, quotes_vars>>
  \/ /\ (\E q \in Requests : LoadRules(q) \/ PriceNextLine(q) \/ Sign(q) \/ PresentQuote(q)) \/ Tick
     /\ UNCHANGED <<ledger, walkup, rules_vars>>
  \/ (\E q \in Requests : Book(q)) /\ UNCHANGED rules_vars
  \/ \E cart \in Walkups : WalkupBooks(cart) \/ WalkupReleases(cart)

Spec == Init /\ [][Next]_vars

-----------------------------------------------------------------------------
(* Properties *)

\* Who holds what: orders of this checkout and of others, each with its lines and
\* their spans.
Holders   == ({"order"} \X PlacedOrders) \cup ({"walkup"} \X walkup)
CartOf(h) == IF h[1] = "order" THEN request[h[2]].cart ELSE h[2]

LinesOf(h, cart) == {[holder |-> h, line |-> l, span |-> SpanOf(l)] : l \in ToSet(Lines(cart))}
Sold             == UNION {LinesOf(h, CartOf(h)) : h \in Holders}

SoldOn(sold, t, u) == {x \in sold : x.line.trip = t /\ x.line.item.unit = u}
Over(sold, k)      == {x \in sold : x.span.from <= k /\ k < x.span.to}

\* A seat is taken whole, of a pool as many units as the line says.
UnitsOf(l)      == IF l.item.unit \in Seats THEN 1 ELSE l.item.quantity
Places(sold, k) == UNION {{x} \X (1..UnitsOf(x.line)) : x \in Over(sold, k)}
Units(sold, k)  == Cardinality(Places(sold, k))

\* The stored words and arrays say what is sold, bit by bit and cell by cell:
\* whole-route spans, the sign bit of the column and the 1-based arrays
\* included (segment.rs:56, store.rs:767-871).
RowsSayWhatIsSold ==
  LET sold == Sold
  IN  \A t \in Trips, k \in 0..NSeg - 1 :
        /\ \A s \in Seats : (AsWord(mask[t][s]) \div Power[k]) % 2 = Units(SoldOn(sold, t, s), k)
        /\ \A p \in Pools : left[t][p][k + 1] = Capacity[p] - Units(SoldOn(sold, t, p), k)

\* What a trip can be searched for, and the spans a claim can have on it.
Asked(t)  == ToSet(Route[t]) \X ToSet(Route[t])
SpansSold == [t \in Trips |-> UNION {PickSpan(Route[t], od[1], od[2]) : od \in Asked(t)}]

SameSpans == \A t \in Trips : \A od \in Asked(t) : SpansAgree(Route[t], od[1], od[2])

\* What search and the seat map show is what a claim on that journey would find:
\* three ways to a span and three ways to a remainder agree (store.rs:388-758,
\* network.rs:40, pool.rs:71).
SearchShowsWhatSells ==
  LET sold == Sold
  IN  /\ SameSpans
      /\ \A t \in Trips : \A s \in SpansSold[t] :
           LET segments == s.from .. s.to - 1
           IN  /\ FreeSeats(mask[t], s) =
                    {x \in Seats : \A k \in segments : Over(SoldOn(sold, t, x), k) = {}}
               /\ \A p \in Pools :
                    LET free == Min({Capacity[p] - Units(SoldOn(sold, t, p), k) : k \in segments})
                    IN  /\ PoolLeft(left[t][p], s) = free
                        /\ BatchLeft(left[t][p], AsSigned(SpanMask(s))) = free
                        /\ RemainingFor(InMemory(left[t][p]), s) = free
                        /\ \A n \in 1..free :
                             InMemory(PoolClaimed(left[t][p], s, n)) = Reserved(InMemory(left[t][p]), s, n)
=============================================================================
