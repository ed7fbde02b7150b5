-------------------------------- MODULE Quotes --------------------------------
(***************************************************************************)
(* Live prices, signed quotes and what an order is charged                   *)
(* (crates/lulan-pricing/src/rules.rs; pricing.rs, quotes.rs and orders.rs   *)
(* of lulan-api).                                                           *)
(*                                                                         *)
(* A request loads the rules once and then prices one line after the other,  *)
(* each at the occupancy of its moment, while operators switch rules.  Here  *)
(* the occupancy is any; module Fares has the ledger it comes from.          *)
(***************************************************************************)
EXTENDS Routes, FareRules

CONSTANTS Route,               \* stops of each trip's route, in order
          Seats, FareClass,    \* seats of the vessel
          Policy,              \* fare_rules.rules
          Weekday, Lead,       \* of the trips; days to go at time 0
          Midnight,            \* when the date changes
          Requests,            \* clients: POST /quotes, then POST /orders, one by one
          Asks,                \* bodies: the journeys and whether a promo code is good
          QUOTE_TTL,
          MaxTokens, MaxTime   \* bounds: quotes signed, the clock

VARIABLES now, request,   \* per request: the handler's locals, then its order
          tokens          \* quotes signed so far

quotes_vars == <<now, request, tokens>>

-----------------------------------------------------------------------------
(* Lines, journeys, prices *)

\* One journey per trip; its items carry the trip when flattened.
Lines(cart) == FlattenSeq([j \in DOMAIN cart |->
  [i \in DOMAIN cart[j].items |-> [trip |-> cart[j].trip, item |-> cart[j].items[i]]]])

\* A body that passed validation: a line at least.
ASSUME QuotesAssumption ==
  /\ \A ask \in Asks :
       LET lines == Lines(ask.cart)
       IN  Len(lines) \in Nat \ {0} /\ DOMAIN lines = 1..Len(lines) /\ ask.promo \in BOOLEAN
  /\ QUOTE_TTL \in Nat \ {0} /\ MaxTokens \in Nat /\ MaxTime \in Nat /\ Midnight \in Nat

\* journey_context.
IsRoundTrip(cart) ==
  /\ Len(cart) = 2
  /\ cart[1].trip # cart[2].trip
  /\ cart[1].items[1].origin = cart[2].items[1].destination
  /\ cart[1].items[1].destination = cart[2].items[1].origin

\* The one span of a line that can be sold (resolve_target).
SpanOf(l) == CHOOSE s \in PickSpan(Route[l.trip], l.item.origin, l.item.destination) : TRUE

\* ClaimTarget::fare_key.
FareKey(l) == IF l.item.unit \in Seats THEN FareClass[l.item.unit] ELSE l.item.unit

Days(t) == IF t < Midnight THEN Lead ELSE Lead - 1

\* Occupancy in basis points.
Bps == 0..10000

Bp(amount, points) == (amount * points) \div 10000

\* The tier with the highest threshold that is reached.
TierBp(tiers, x) ==
  LET reached == {m \in DOMAIN tiers : m <= x}
  IN  IF reached = {} THEN 0 ELSE tiers[Max(reached)]

\* evaluate: what a policy makes of a line, given its occupancy, the day and the
\* itinerary.
Evaluate(policy, l, occ, days, promo, round) ==
  LET base     == policy.base[FareKey(l)] * (SpanOf(l).to - SpanOf(l).from) * l.item.quantity
      raised   == (IF Weekday[l.trip] \in policy.peak THEN Bp(base, policy.peakBp) ELSE 0)
                    + Bp(base, TierBp(policy.occupancy, occ))
      lowered  == Bp(base, TierBp(policy.advance, days))
                    + Bp(base, policy.passenger[l.item.type])
                    + (IF round THEN Bp(base, policy.roundBp) ELSE 0)
                    + (IF promo THEN Bp(base, policy.promoBp) ELSE 0)
  IN  Max({base + raised - lowered, 0})

Fresh == [step |-> "new", kind |-> "none", cart |-> <<>>, prices |-> <<>>, rule |-> Seeded,
          currency |-> "none", promo |-> FALSE, round |-> FALSE, at |-> 0, end |-> 0]

PlacedOrders == {q \in Requests : request[q].step = "booked"}

QuotesInit ==
  /\ now = 0
  /\ request = [q \in Requests |-> Fresh]
  /\ tokens = {}

-----------------------------------------------------------------------------
(* price_items, for a quote or for an order without one *)

LoadRules(q) ==
  /\ request[q] = Fresh
  /\ ActiveRules # {}
  /\ \E ask \in Asks, kind \in {"quote", "order"} :
       /\ kind = "quote" => Cardinality(tokens) < MaxTokens
       /\ request' = [request EXCEPT ![q] =
            [step |-> "pricing", kind |-> kind, cart |-> ask.cart, prices |-> <<>>, rule |-> InForce,
             currency |-> Policy[InForce].currency, promo |-> ask.promo,
             round |-> IsRoundTrip(ask.cart), at |-> now, end |-> now]]
  /\ UNCHANGED <<now, tokens>>

NextLine(r) == Lines(r.cart)[Len(r.prices) + 1]

\* The request with its next line priced; a policy without a base fare for the
\* line refuses the request.
WithNextLine(r, occ) ==
  LET l     == NextLine(r)
      price == Evaluate(Policy[r.rule], l, occ, Days(now), r.promo, r.round)
      last  == Len(r.prices) + 1 = Len(Lines(r.cart))
  IN  IF FareKey(l) \notin DOMAIN Policy[r.rule].base THEN [r EXCEPT !.step = "refused"]
      ELSE [r EXCEPT !.prices = Append(r.prices, [minor |-> price, occ |-> occ]),
                     !.step = IF last THEN "priced" ELSE "pricing"]

\* The next line, at the occupancy of this moment.
PriceLine(q, occ) ==
  /\ request[q].step = "pricing"
  /\ request' = [request EXCEPT ![q] = WithNextLine(request[q], occ)]
  /\ UNCHANGED <<now, tokens>>

\* The signed token: the lines with their prices, valid for QUOTE_TTL.
Sign(q) ==
  /\ request[q].step = "priced" /\ request[q].kind = "quote"
  /\ Cardinality(tokens) < MaxTokens
  /\ tokens' = tokens \cup {[quote |-> request[q], exp |-> now + QUOTE_TTL]}
  /\ request' = [request EXCEPT ![q] = Fresh]
  /\ UNCHANGED now

-----------------------------------------------------------------------------
(* POST /orders *)

MatchesAnyone(quoted, l) ==                  \* mutant: passenger type not in the match key
  [quoted.item EXCEPT !.type = l.item.type] = l.item /\ quoted.trip = l.trip

\* A quoted line covers an order line that is the same trip, unit, stops,
\* quantity and passenger type.
Matches(quoted, l) == quoted = l

\* The first one does.
QuotedPrice(token, l) ==
  LET quoted == Lines(token.quote.cart)
      fits   == {i \in DOMAIN quoted : Matches(quoted[i], l)}
  IN  IF fits = {} THEN {} ELSE {token.quote.prices[Min(fits)]}

\* The order of this body at the prices of the quote.
AtQuotedPrices(token, cart) ==
  LET lines == Lines(cart)
  IN  [token.quote EXCEPT
         !.step = "priced", !.kind = "order", !.cart = cart, !.end = now,
         !.prices = [i \in DOMAIN lines |-> CHOOSE p \in QuotedPrice(token, lines[i]) : TRUE]]

\* verify, and every item covered.
PresentQuote(q) ==
  /\ request[q] = Fresh
  /\ \E token \in tokens, ask \in Asks :
       /\ token.exp > now
       /\ \A i \in DOMAIN Lines(ask.cart) : QuotedPrice(token, Lines(ask.cart)[i]) # {}
       /\ request' = [request EXCEPT ![q] = AtQuotedPrices(token, ask.cart)]
  /\ UNCHANGED <<now, tokens>>

\* OrderStore::create commits with these prices, or is rolled back at a
\* conflict.
Place(q, won) ==
  /\ request[q].step = "priced" /\ request[q].kind = "order"
  /\ request' = [request EXCEPT ![q].step = IF won THEN "booked" ELSE "refused"]
  /\ UNCHANGED <<now, tokens>>

\* The clock in parts of QUOTE_TTL; requests and transactions are far shorter
\* than one.
Tick ==
  /\ now < MaxTime
  /\ Idle
  /\ \A q \in Requests : request[q].step \notin {"pricing", "priced"}
  /\ now' = now + 1
  /\ UNCHANGED <<request, tokens>>

RequestStep(q) ==
  \/ LoadRules(q) \/ Sign(q) \/ PresentQuote(q)
  \/ \E occ \in Bps : PriceLine(q, occ)
  \/ \E won \in BOOLEAN : Place(q, won)

QuotesNext ==
  \/ FareRulesNext /\ UNCHANGED quotes_vars
  \/ ((\E q \in Requests : RequestStep(q)) \/ Tick) /\ UNCHANGED rules_vars

QuotesSpec ==
  /\ FareRulesInit /\ QuotesInit
  /\ [][QuotesNext]_<<rules_vars, quotes_vars>>

-----------------------------------------------------------------------------
(* Properties *)

\* An order is charged, for the lines and the passengers it books, what the
\* ruleset of its quote asked for them within the last QUOTE_TTL, in its currency:
\* neither a switch of rules between its lines, nor a quote for someone else, nor
\* an old one gives another price (quotes.rs:27, 56; orders.rs:332).
ChargedWhatWasDue ==
  \A q \in PlacedOrders :
    LET o == request[q]
    IN  /\ o.end - o.at < QUOTE_TTL
        /\ o.currency = Policy[o.rule].currency
        /\ \A i \in DOMAIN o.prices :
             o.prices[i].minor = Evaluate(Policy[o.rule], Lines(o.cart)[i], o.prices[i].occ,
                                          Days(o.at), o.promo, o.round)
=============================================================================
