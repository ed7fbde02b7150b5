# Verification of lulan

lulan is a reservation engine for carriers (ferries, buses, trains): a Rust
workspace with an HTTP API (`src/crates/lulan-api`), an engine on Postgres and
Redis with the domain types (`lulan-engine`), pricing as a WASI component
(`lulan-pricing`, `lulan-pricing-guest`), the ticket validator and its bindings
(`lulan-validate`, `lulan-validate-wasm`) and a load generator. This directory holds TLA+ modules translated from that code,
the TLC configurations that check them, and theorems about them checked by TLAPS.

Sections: 1 system and inventory, 2 modules and code, 3 what each run shows,
4 bounds, 5 fairness, 6 proofs, 7 only model-checked and not modelled,
8 known disagreements, 9 plan.

To run: `tlc -config Orders_safety.cfg MCOrders.tla` (the other configurations
are named after the module they instantiate: `X_*.cfg` goes with `MCX.tla`),
`tlapm XProofs.tla` for `X` in `Orders`, `Boarding`, `Holds`, `Payments`, `Outbox`,
`TicketKeys`, `Fares` and `FrontDoor`.

## 1. The system: parts, state, interactions

A *trip* is one departure of a vessel on a route; the route's stops cut it into
segments, and a passenger holds a *span* of segments. A seat is a bit mask of
sold segments (`seat_occupancy.occupied_mask`), a pool an array of the units left
per segment (`pool_occupancy.remaining`). An *order* holds several items (seat or pool,
trip, span); its rows are a projection of an append-only event stream.

| Part | State it keeps | Operations | What makes it hard | Correct when |
|---|---|---|---|---|
| Order lifecycle (`domain/order.rs`) | none: statuses, events, transition table | `apply`, `replay` | every caller races others to a transition | outcomes are final; the row is the replay of the stream |
| Inventory ledger (`inventory/store.rs`, `domain/segment.rs`, `pool.rs`) | seat masks, pool arrays | conditional UPDATE claims, masked releases, reads for search | concurrent claims, rollback, releases of what was claimed at another time | no span sold twice; ledger = sum of claims |
| Order store (`orders/mod.rs`) | orders, items, events, idempotency keys | create, request_payment, apply_payment_result, cancel, expire_due, refund, settle_cancelled_trips | lists read without locks and used later, several items per transaction | ledger exact, nothing resurrected, overdue orders settle |
| Idempotency keys (`api/idempotency.rs`) | key rows: reserved or completed | begin, complete, abandon, sweep | insert and select are two statements; crashes; unacknowledged commits | one booking per key, replays are true |
| Payments (`payments/*`, `api/orders.rs`) | intents at the provider, intent on the order | create intent, webhook, refund, cascade | duplicated and late notifications, work between provider and database | paid once, by its own intent; refunds settle |
| Holds (`inventory/holds.rs`, `api/reservations.rs`) | Redis keys with TTL, a per-trip index | acquire all-or-rollback, release, expiry, pressure read | expiry in the middle of anything; index and keys in separate commands | no overlapping holds; a granted one lasts; a refused itinerary leaves what Redis would not release and no more |
| Tickets and gates (`ticket/mod.rs`, `api/tickets.rs`) | tickets, scans, revocation list on devices | issue, scan, journal upload, sync, refund voids | clones, offline devices, overlapping scans | one scan boards; refund voids all; journals are recorded |
| Ticket keys (`ticket/mod.rs`, `ticket/sealing.rs`) | signing key rows, per-process signer | load_or_create, seal, rotate, publish | several replicas boot, seal and rotate at once | always a key; sealed once; tickets verify |
| Outbox and webhooks (`events/mod.rs`, `webhooks/mod.rs`) | outbox rows, endpoints, deliveries | append, relay, fan-out, deliver, retry | replicas with SKIP LOCKED, partial batches, crashes | nothing missed; delivered means taken |
| Search and availability (`inventory/store.rs`, `api/trips.rs`) | none: reads the ledger | search, seat map, pool remainders single and batched, occupancy | spans in four forms: stops, indexes, bits of a signed word, slices counted from one | what is shown is what a claim finds |
| Pricing and quotes (`lulan-pricing/src/rules.rs`, `api/pricing.rs`, `api/quotes.rs`) | signed quotes | price, quote, verify, order with a quote | rules and inventory change between the lines of a request and between quote and order | a client pays what one ruleset asked, while the quote lasts |
| Fare rules (`api/admin.rs`, `api/seed.rs`) | fare rule rows, the newest active one in force | publish, activate | two-statement transactions that overlap | never without rules; a switch takes effect |
| API keys and staff (`api/auth.rs`, `staff.rs`, `admin.rs`) | key and staff rows, audit log | bootstrap, authenticate, create, enrol, revoke | change and audit row are two statements; boots run against revocations | a key that works is on record, and what is revoked stays out |
| Customers and identity (`api/identity.rs`, `orders.rs`) | customer of an order, copy of the provider's keys per process | sign in, place, claim and access an order; fetch and renew keys | claims race with the handlers they let in; rounds of the renewal fail | an owner stays the owner; withdrawn keys stop verifying |
| Rate limit (`api/rate_limit.rs`) | a sorted set per caller and bucket | one script per request | clocks of replicas differ; the set expires by the clock of Redis | the budget, up to the skew |
| Network and schedule (`api/admin.rs`, `domain/network.rs`) | locations, routes, vessels, trips | creates, cancel_trip | spans on a route | the initial ledger of a trip |
| Ancillaries, GTFS, seed, HTTP shell, SDKs, load generator | rows or none | | | |

Interactions. Handlers are tokio tasks in several API replicas; all shared state
is in Postgres (READ COMMITTED transactions, row locks, conditional updates) and
Redis (single commands and pipelines). Every replica runs three background
tasks (`main.rs:151-200`): the event relay, the webhook worker and a 30 s
sweeper (expiry, cancelled-trip cascade, key sweep). The payment provider calls
back by webhook. Gate devices cache public keys and a revocation list, decide
offline and upload a journal. The order store calls the ledger inside its
transactions, appends to the outbox in the same transaction, and voids tickets on
refund; the API calls the order store, the provider and the ticket store in
separate transactions.

The hazards that follow from this are listed in `PROJECT.json` with the line
where each bites and the properties that would catch it.

## 2. Modules and the code

| Module | Extends | Models |
|---|---|---|
| `OrderLifecycle` | | `OrderStatus::apply`, `OrderEvent`, `replay` of `domain/order.rs` |
| `Inventory` | | the ledger statements of `inventory/store.rs` and the pool arithmetic: `CanClaim`, `Claim`, `Release` |
| `Booking` | | abstract specification: parties take and give back disjoint cells |
| `Orders` | `Inventory`, `OrderLifecycle`; INSTANCE `Booking` | `orders/mod.rs`, `create_claim`, `cancel_trip`, `refund_order`, the sweeper |
| `Boarding` | `OrderLifecycle` | `ticket/mod.rs` and `api/tickets.rs` from issue to gate, offline devices included |
| `Holds` | | `inventory/holds.rs` and the ceiling of `api/reservations.rs` |
| `Idempotency` | | `api/idempotency.rs` and the create handler around it |
| `Payments` | `OrderLifecycle` | provider calls of `api/orders.rs`, `api/admin.rs`, `orders/mod.rs`, `payments/*` |
| `Outbox` | | `events/mod.rs`, `webhooks/mod.rs`, `api/webhooks_admin.rs` |
| `TicketKeys` | | signing keys of `ticket/mod.rs`, `ticket/sealing.rs`, `/v1/ticket-keys` |
| `Routes` | | `pick_span`, `search_trips`, `span_between`; pool rows as arrays from one and as `PoolOccupancy` |
| `Segments` | `Routes` | seat masks as stored (signed words of a stated width, `&`, `\|` and `~` by their bits), the queries of search and availability |
| `FareRules` | | fare rule administration of `api/admin.rs`: publications and activations as transactions |
| `Quotes` | `Routes`, `FareRules` | `lulan-pricing/src/rules.rs`, `api/pricing.rs`, `api/quotes.rs`, the priced half of `api/orders.rs`, at any occupancy |
| `Fares` | `Segments`, `Quotes` | both over the ledger as stored: the occupancy comes from its rows, orders change them |
| `Ownership` | | whose an order is: create, `claim_order`, `authorize_order_access` of `api/orders.rs`, `identity.rs` |
| `Credentials` | | API keys, staff and their audit rows: `api/auth.rs`, `staff.rs`, the staff handlers of `admin.rs` |
| `ProviderKeys` | | `connect`, `fetch_jwks`, `refresh_jwks`, `verify` of `api/identity.rs` |
| `RateLimit` | | the script of `api/rate_limit.rs` |
| `MCX` | `X` | constants, small sets and symmetry for TLC |
| `MCFrontDoor` | the four modules above | the four side by side: they share no variable, so a run chooses one (`part`) and takes its steps |
| `XProofs` | `X`, `TLAPS` | theorems about `X`: `Orders`, `Boarding`, `Holds`, `Payments`, `Outbox`, `TicketKeys`, `Fares` (with all it extends) |
| `FrontDoorProofs` | `Ownership`, `Credentials`, `RateLimit`, `Idempotency`, `TLAPS` | theorems about these four |

How a step is cut. A statement, a transaction that holds the row lock of the
order from its first statement on, and a Redis script or command are each one
action. What a handler reads outside of that and uses later is a variable, so
other actors can run in between:

- `Orders.resolving` holds the targets `resolve_target` returned before the
  write transaction of `OrderStore::create`; `due` and `settling` are the lists
  `expire_due` and `settle_cancelled_trips` selected without locks. `mask` and
  `remaining` are the rows of `seat_occupancy` and `pool_occupancy` (segments as a set
  rather than as bits: the mask operators `&`, `|`, `& ~` are intersection, union
  and difference), `stream` the `events` rows, `expiry` the state of
  `expires_at` relative to the clock.
- `Boarding.open` is a `record_scan` transaction between its count and its
  commit. Tickets are locked by it, so a refund waits; the count itself
  reads what had been committed (READ COMMITTED). `journal` and `cached` are
  device storage. A pull asks for one trip or for none, in which case the list
  stops at a horizon (any set of trips may depart within it at that moment), and
  the answer replaces what the device had. `told` is a history variable: the
  tickets that list had to name. A device that holds the list of another trip, or
  the unscoped one, still admits later legs of a refunded order, as
  `RevocationParams` says (`tickets.rs:99`).
- `Holds.hash`, `index` are Redis keys with their expiry times; `unindex` is an
  SREM a release has decided on but not sent, `stale` the member list of a
  reader between its reads and its SREM. Redis drops keys in `Tick`. A Redis error
  ends a request where `?` passes it on (`Fails`), lets a hold through where only
  the ceiling was to be measured (`CheckCeiling`), and in the rollback is discarded
  (`let _ = self.release(..)`, `UnholdFails`): the next seat's turn comes and the
  request still answers 409. `lost` is a history variable: the seats that rollback
  did not get released.
- `Idempotency.pc` runs through the statements: replay check, INSERT, SELECT,
  `OrderStore::create`, then `complete` or `release`. `booked` is a history
  variable, emptied when the retention window of a response ends.
- `Payments.request`, `hook` and `refund` hold what a handler read, or was given
  by the provider, before the transaction in which it acts on it. The provider
  (`money`, `sent`) is external: it keeps an intent payable until paid, sends each
  notification again and again, and answers a repeated call as its idempotency
  headers are configured (`IntentKeyed`, `RefundKeyed`).
- `Outbox.batch` and `marked` are the rows a relay holds (`FOR UPDATE SKIP
  LOCKED`), not yet and already given to the sink in its open transaction; what
  the sink inserts is committed by itself. `posting` is what a worker holds: its
  POSTs go out one by one, but they write nothing before the transaction
  commits, so the batch has its answers in `WorkerCommit`. `entitled` is a history
  variable: who was registered when the event committed. Every endpoint is taken as
  subscribed to every event type: the filter of the fan-out (`webhooks/mod.rs:92`)
  is left out.
- `TicketKeys.rotation` cuts the rotation transaction at its UPDATE (snapshot, then
  row locks) and its commit, `issue` cuts `issue_for_order` between the signer
  read and its transaction, `unsealed` is the list a booting replica seals one by one.

- `Quotes.request` is a pricing request between its lines: rules loaded once,
  occupancy read line by line. `switch` cuts a publication or activation at the
  snapshot of its first UPDATE and at its commit: between them are its row locks
  and its second statement, which nobody else sees. `mask` and `left` are
  the rows of `Fares` as Postgres has them, `walkup` the orders of others, `tokens` the
  signed quotes; a signature is the token's membership in that set.
  `OrderStore::create` is one step there (`Book`): `Orders` has its inside, on sets of
  segments, and `FaresProofs!WordsAreSets` shows that the stored words are those sets.
- `Credentials.request` is an admin request between its credential check, its
  change and its audit row, each committed by itself. `told` is who has seen the
  text of a key: only the answer carries it. `Ownership.asking` is a handler that
  has looked at the token, or at the order's customer, and has not yet acted.
- `ProviderKeys.fetched` is a response that has arrived and is not yet written
  under the lock of the copy. `RateLimit.clock` is the clock of Redis; a replica's
  own clock, which the script uses for the scores, is ahead of it by `Ahead`, and no
  two replicas are further apart than `Skew`.
  `admitted` and `refused` are history variables: what was let through, by the clock
  of Redis, and how often the answer was 429. A set never holds more than its limit,
  so that is all a refusal changes; the second one makes it a step.

Each action of `Fares` is one of `Quotes` or `FareRules` with the ledger beside it: the
occupancy of a line is computed from the rows where `Quotes` takes any in
`0..10000`, and an order is placed exactly if its lines can be claimed where
`Quotes` lets both happen (`CheckoutQuotes` proves it). What is proved of `QuotesSpec`
holds of `Fares`. Two lines of one order for the same unit and trip fail, by the primary
key of `order_items` (migrations 0003 and 0007): `UnitsApart`.

Where two modules meet, each keeps the other's part as the moves it allows:
`Payments.Elsewhere` is any move `Orders` and `Boarding` may make on the order,
`Orders.BoardLastTicket` and `IssueTickets` are what ticketing does to an order,
`Orders.PaymentCaptured` a webhook that may come at any time. All of them share
`OrderLifecycle`, so a move is legal in all or in none.

## 3. What each run shows

| Run | Question | Checked |
|---|---|---|
| `Orders_safety` | Two orders over two trips, two seats and a pool race through every handler, sweeper and cascade. Is anything sold twice, lost, or resurrected? | `NoDoubleSell`, `SeatLedgerExact`, `PoolLedgerExact`, `StreamReplays`, `OutcomesAreFinal`, and `ImplementsBooking` (refinement of `Booking`) |
| `Orders_tasks` | An order and a standalone claim share the ledger while trips depart, sweeps abort and refunds fail. Does overdue and cancelled work drain? | `OverdueSettles`, `CancelledTripsDrain` |
| `Boarding_devices` | Two devices, two legs, clones, replays, a refund, aborted transactions, revocation lists for one trip, for another and for none. | `BoardedMeansAllAboard`, `OneScanBoards`, `RefundVoidsEveryTicket`, `RevokedStaysOut`, `JournalsDrain` |
| `Holds_safety` | Two requests take two-seat itineraries in opposite orders, coexist, collide, roll back (with releases that fail), expire. | `NoOverlappingHolds`, `GrantedHoldsLast`, `RefusedHoldsOnlyLost` |
| `Idempotency_key` | Three attempts with one key and two bodies; creates fail, commits go unacknowledged, handlers die. | `RacingRetriesBookOnce`, `ReplayMatchesRequest`, `RepliesAreBookings`, `KeyIsFreedAgain` |
| `Idempotency_race` | Does a retry ever book twice? It does (section 8). | `OneBooking` violated |
| `Payments_order` | Requests, duplicated webhooks, a support refund and the cascade over one order, both provider calls keyed. | `PaidOnce`, `PaidIntentIsCaptured`, `CascadePaysFirst`, `CancelledTripSettles` |
| `Payments_unpaid_refund` | Is money always given back before the order is refunded? Not by support (section 8). | `MoneyBeforeInventory` violated |
| `Outbox_queue` | Two relays and two workers share the queues; orders append and roll back, endpoints come and go, batches are cut, processes die. | `NoEventMissed`, `SettledStays`, `EveryDeliverySettles` |
| `TicketKeys_replicas` | Two replicas boot, seal, rotate, restart and issue at once; a device caches keys. | `SomeKeySigns`, `SealedAtMostOnce`, `SealingConverges`, `RotationReachesAll`, `TicketsKeepVerifying` |
| `Fares_quotes` | A client asks for a quote and orders with or without one; others book and give back; two operators publish and activate at once; transactions abort; the date changes. | `RowsSayWhatIsSold`, `SearchShowsWhatSells`, `ChargedWhatWasDue`, `SwitchesTakeEffect` |
| `Front_door` | Customers claim guest orders while handlers act for others; admins change keys and staff while handlers die and processes boot; the provider changes its keys; replicas with different clocks count one caller. | `OwnersStayOwners`, `KeysLetInAreOnRecord`, `CopiesConverge`, `BudgetsHold` |

Each module has its type invariant (`TypeOK`, or named after the module where four
are composed). No run spends a property on them: section 6 proves those of
the modules with proofs, with the strengthening each needs. `PROJECT.json` lists, for each property, a
mutant: a plausible slip in the code (a dropped guard, a missing status in an IN
list, a list trusted for too long) under which TLC finds it violated.

## 4. Bounds

- `Orders_safety`: two orders, two segments, two seats on different trips, one
  pool of capacity 2, carts of one to three lines (two can share
  the pool, and one has an empty pool line), two payment requests each.
  Two orders suffice for every pairwise conflict; two segments let spans nest,
  meet and be disjoint; two trips give itineraries of which one leg is
  cancelled; two payments give a failure and a retry. The orders are symmetric.
- `Orders_tasks`: one order and one claim keep the state space small enough for
  liveness; the claim is the row that has no order, has one line (a seat or a pool) and is
  never released.
  `MaxDeparted = 1` lets a trip leave the first stop between resolve and create.
- `Boarding_devices`: one order with two tickets on two legs, two devices, one
  timestamp, two scan transactions in flight. Two tickets are what the
  last-ticket count needs; the device is part of the scan, so clones differ. On two
  legs a list for one trip, and a horizon, can leave one of the tickets out.
- `Holds_safety`: two requests, any of three two-seat itineraries: two of them share
  one seat and collide on the other, in opposite orders, two coexist on both. TTLs
  of 1, 2 and 3 with `MaxTime = 3`, so that a hold expires while another one, still
  live, sits in the same hash, and a rollback, whole or failing at either seat,
  meets both.
- `Idempotency_key`: three attempts, because the race of section 8 needs one to
  fail, one to lose its row and one to book in between (four to book twice).
- `Payments_order`: one intent, since with a keyed create there is one; two
  deliveries so that one acts on what the other changed; two declines.
- `Outbox_queue`: two events and a relay batch of two, so that a batch is cut in
  the middle; a worker batch of one, since what a worker holds together it also
  commits together; two attempts, so that one fails and one gives up; two relays
  and two workers for SKIP LOCKED.
- `TicketKeys_replicas`: three keys are two rotations besides the first key;
  two replicas give every overlap of boot, seal and rotation.
- `Fares_quotes`: a word of three bits for a route of three segments, so that the
  whole route is the full width and sets the sign bit; two seats of one class,
  of which another order moves the occupancy over a tier, and an order that asks for
  one seat twice; a pool of 2 whose uneven rows tell slices apart; a one-way cart for a senior and a round trip for an
  adult on the same seat, so that one's quote almost fits the other; a second
  ruleset in another currency with a missing base fare; two operators, who may
  switch and fail for ever; the clock passes midnight and the end of a quote.
- `Front_door`: two orders, two customers and three handlers, so that a claim runs
  between another handler's check and its answer; two keys, of which one is the
  bootstrap key, one person and two admin requests, so that one is between change
  and audit row while the other uses, revokes or creates; two provider keys and
  one replica, since replicas share nothing there; budgets of 2 and 1, a window of 3
  and one replica's clock a tick behind the other's (`Skew = 1`), `MaxClock = 5`, so that
  windows of both replicas slide past admissions of the other; one refusal per set is
  recorded (`MaxRefused`): it leaves nothing behind for a second one to find.
- `MaxPayments`, `MaxDeparted`, `MaxTime`, `MaxDeclines`, `MaxEvents`, `MaxKeys`,
  `MaxTokens`, `MaxClock`, `MaxRefused` are the only bounds on counters; all are constants and
  stand in the guards. (`MaxAttempts`, `RelayBatch`, `PostBatch` are limits of the
  code, given small values.)

`CHECK_DEADLOCK FALSE` is set throughout: with a bounded number of
requests a system in which all of them are answered really does stop.

## 5. Fairness

Clients, staff, devices at the gate and the payment provider promise nothing.

- `Orders`: `ExpireSelect` and `SettleSelect` are weakly fair (the 30 s interval of
  `main.rs:163` ticks for ever and always selects), the per-order steps strongly
  fair: a pass can be abandoned at any order, since an error leaves the loop and
  the list is lost (`ExpireAbort`), but each pass begins anew and errors are not
  permanent. Nothing is assumed of a refund that always fails.
- `Boarding`: a device keeps its journal until each row is answered, so uploads
  are strongly fair per scan: of those that find the ticket row free, one begins its
  transaction or answers. Of the transactions that are open, some are committed
  (`SF` on all workers together); any one may abort.
- `Idempotency`: a handler that has begun runs on unless it dies; time passes; the
  sweep runs. `GrowStale` requires that no handler is at work: a reservation is
  stale after `ORDER_TTL_MINUTES`, far longer than any request.
- `Payments`: `SF` on the cascade's provider call and transaction: the provider and
  the process are not down whenever the cascade comes round.
- `Outbox`: relay and worker loops tick for ever (2 s) in every replica. The
  fairness is that of all relays, or all workers, together: some relay selects
  (`WF`), gives the next row to the sink and marks what it gave (`SF`), some worker
  gets to the end of a batch (`SF`), and each delivery is taken now and then (`SF`
  per delivery: `ORDER BY next_attempt_at` with a LIMIT does not starve one, since
  a failure moves its row back). Without the last two a worker that dies after its
  first POST would starve the rest.
- `ProviderKeys`: the renewal task ticks as long as its process runs, and not every
  round fails (`SF` on the fetch and on the write). Nothing is assumed of `Connect`:
  a process that came up without a provider may stay so.

## 6. Proofs

Every safety property of the passing runs is also a theorem. Eight modules prove them, for every value of the
constants that satisfies the named assumptions of the module (`OrdersAssumption`,
`HoldsAssumption`, ...: disjoint sets, natural capacities and limits, finitely many
seats, rulesets and switches, ...):

| Theorem | Says |
|---|---|
| `OrdersProofs!TypeCorrect` | types, and with them that no pool goes below zero or above its capacity |
| `OrdersProofs!NeverDoubleSold` | `NoDoubleSell` is invariant |
| `OrdersProofs!SeatLedgerIsExact` | `SeatLedgerExact` is invariant |
| `OrdersProofs!PoolLedgerIsExact` | `PoolLedgerExact` is invariant |
| `OrdersProofs!ReleasesAlwaysApply` | whoever holds capacity passes the guards of the release statements: none is silently skipped |
| `OrdersProofs!StreamsReplay` | `StreamReplays`, for streams of any length |
| `OrdersProofs!OutcomesStayFinal` | `OutcomesAreFinal`: no paid order is expired or cancelled, nothing released comes back |
| `OrdersProofs!Refinement` | `Spec => B!Spec`: the seat side implements `Booking` |
| `BoardingProofs!TypeCorrect` | types |
| `BoardingProofs!NeverBoardedEarly` | `BoardedMeansAllAboard` |
| `BoardingProofs!TicketsAdmitOnce` | `OneScanBoards` |
| `BoardingProofs!RefundsVoid` | `RefundVoidsEveryTicket` |
| `BoardingProofs!GatesRefuseRefunded` | `RevokedStaysOut`: a gate refuses what its list had to name, for any trips, scopes and horizons |
| `HoldsProofs!TypeCorrect` | types; a seat's Redis key outlives each of its entries |
| `HoldsProofs!HoldsNeverOverlap` | `NoOverlappingHolds` |
| `HoldsProofs!GrantsLast` | `GrantedHoldsLast` |
| `HoldsProofs!RefusalsLeaveOnlyLost` | `RefusedHoldsOnlyLost`: what a refused request still holds is what its rollback tried to release and could not |
| `PaymentsProofs!TypeCorrect` | types; an order that got as far as the provider has an intent |
| `PaymentsProofs!OrderIsPaidOnce` | `PaidOnce` |
| `PaymentsProofs!CascadeRefundsMoneyFirst` | `CascadePaysFirst` |
| `PaymentsProofs!PaidIntentsAreCaptured` | `PaidIntentIsCaptured`, if the provider deduplicates `create_intent` (`IntentKeyed`); without that it is false (section 8) |
| `OutboxProofs!TypeCorrect` | types |
| `OutboxProofs!NoEventIsMissed` | `NoEventMissed` |
| `OutboxProofs!SettledForGood` | `SettledStays` |
| `TicketKeysProofs!TypeCorrect` | types; no two rotations hold the same row |
| `TicketKeysProofs!SigningNeverStops` | `SomeKeySigns`: an active row is there; a replica without the wrapping key may be unable to open it |
| `TicketKeysProofs!NeverSealedTwice` | `SealedAtMostOnce` |
| `TicketKeysProofs!RollingRestartsConverge` | `SealingConverges` |
| `TicketKeysProofs!RotationTakesEffect` | `RotationReachesAll` |
| `TicketKeysProofs!OldTicketsVerify` | `TicketsKeepVerifying` |
| `FrontDoorProofs!TypeCorrect` | types of `Idempotency` |
| `FrontDoorProofs!RacingRetriesBook` | `RacingRetriesBookOnce` |
| `FrontDoorProofs!ReplaysMatch` | `ReplayMatchesRequest` |
| `FrontDoorProofs!AnswersAreBooked` | `RepliesAreBookings` |
| `FaresProofs!SwitchesWork` | `QuotesSpec => SwitchesTakeEffect` |
| `FaresProofs!ChargesAreDue` | `QuotesSpec => []ChargedWhatWasDue` |
| `FaresProofs!JourneysAgree` | on a route that calls at no location twice, `pick_span`, the join of `search_trips` and `Route::span_between` find the same span for any journey, or none |
| `FaresProofs!PoolsAgree` | for any pool row and span, SQL slices and `PoolOccupancy` have the same remainder, before and after a claim; a claim is accepted for what search shows and no more; a release undoes it |
| `FaresProofs!WordsAreSets` | for any width of a word, a stored word is a set of segments: the SQL guards and updates on masks are disjointness, union and difference, and the batched answer finds both ends of a span in its mask |
| `FaresProofs!CheckoutTypes` | `Spec => []TypeOK` of `Fares`: words within the signed column, pools within `0..capacity` |
| `FaresProofs!RowsAreTheOrders` | `RowsSayWhatIsSold` |
| `FaresProofs!SearchIsTheLedger` | `SearchShowsWhatSells` |
| `FaresProofs!CheckoutQuotes` | `Spec => QuotesSpec`: a checkout over its ledger takes only steps of `Quotes` |
| `FaresProofs!CheckoutCharges`, `CheckoutSwitches` | `ChargedWhatWasDue` and `SwitchesTakeEffect`, of `Fares` |
| `FrontDoorProofs!OwnersAreKept` | `OwnersStayOwners` |
| `FrontDoorProofs!OwnershipTypeCorrect` | types of `Ownership` |
| `FrontDoorProofs!OwnersAreForGood` | no step takes an order from a customer or hands it to another |
| `FrontDoorProofs!CredentialsTypeCorrect` | types of `Credentials` |
| `FrontDoorProofs!WorkingKeysAreOnRecord` | `KeysLetInAreOnRecord` |
| `FrontDoorProofs!LimiterTypeCorrect` | types of `RateLimit`; every request adds a member of its own |
| `FrontDoorProofs!BudgetsAreHeld` | `BudgetsHold`, for any window, limits, callers and clocks within `Skew` |

Every proof has the same plan: an inductive invariant (`IInv`, `HoldsInv`, ...), a
lemma for its initial state, one lemma per action or per kind of step, a lemma
that collects them, and the theorems as consequences.

The argument for `Orders`. `NoDoubleSell` alone is not inductive: a claim is
admitted on the row (`mask`), not on what the others own, so the invariant must
say that the row is exact (`SeatLedgerExact`); and exactness needs that a
claimant with resolved targets does not yet own anything (`Undecided`), or a
second create of the same id would replace what it holds. `IInv` is the
conjunction. Steps are of three kinds, and each action is shown once to be one of
them: *Quiet* (ledger and owners unchanged), *Takes* one claimant (its span is
free and is added) and *Gives* one order (its span is removed). The invariant,
the refinement and the type of the ledger are then three lemmas per
kind instead of one per action. That a release removes no one else's segments is
where `NoDoubleSell` is used; that a claim meets no owner's segments is where
`SeatLedgerExact` is.

`PoolLedgerExact` counts: a row is its capacity less the number of places
(`Places`: one for each unit of each holder on a segment). `PoolInv` has with it that places
are finitely many and each holder's are its own, so that claiming adds exactly
as many as the row loses and releasing gives back what was there; a sum over
holders, which would need induction, is never taken. With it and `IInv` the
guards of both release statements are true for any holder (`ReleasesApply`).

`StreamReplays` compares a status with the replay of a sequence. A recursive
function over 0..n is unique where it exists (`FoldIsUnique`, from a least number
where two would differ). `Folded` says that a fold of an order's stream exists and
ends in its status: one event more extends it by one value (`FoldAppends`), and
`Replay`, which chooses a fold, chooses that one (`ReplayIsFold`). Induction over a
number is taken this way throughout: by a smallest counterexample, which `WFMin` of
the library gives for the naturals.

The argument for `Boarding`. The invariant adds that the ticket of an open scan is
issued and locked by one transaction, that the `last` verdict of an open scan
stays true while it is open (a ticket never becomes issued again, and an issue is
possible only before any scan), and that a ticket the list of a device had to name
is in that device's cache and void, since a void ticket is never anything else
(`Informed`). That the list has it is the step `PullRevocations`: a refunded order has
only void tickets (`RefundVoidsEveryTicket`), and the list has the void tickets of
the trips it covers. `OneScanBoards` needs that a scan recorded as
boarded has its ticket boarded or void.

The argument for `Holds`. That entries of a seat do not overlap is inductive, since
the script checks and adds in one step. That a refusal leaves only what was lost is not: it
needs that what is in Redis of a request is what the request remembers having
acquired and not yet let go, or what its rollback failed to let go. `Kept` says that
what is remembered is still in the hash of its seat, until its own expiry (a seat's
key expires with its last entry, never before: this is where finitely many seats
are used), `Accounted` that nothing else is there than that and what was lost, with the
expiry it was acquired with. A release takes the entries of its own request only, so
what others hold in the same hash stays (`GrantsLast`).

The argument for `Payments`. `Once`: a capture that moved the order left it in a
status (`PaidFor`) no event leads back from, so a second one is a NoOp. `Cascading`:
the intent the cascade read is still the order's, since no request is granted to
a paid order. `Keyed`, under `IntentKeyed`: there is one intent, and every request
and notification names it.

The argument for `Outbox`. A relay marks a row some steps after it gave it to the
sink, and an endpoint could be registered in between: `Given` says that what is
given has its delivery rows, `Registered` that whoever was entitled had been
registered (an id is registered once), `Exclusive` that no two processes hold the
same row, `Numbered` that an id belongs to one transaction and, once handed out,
to no later one, `Counted` that attempts stay below the limit while pending.

The argument for `TicketKeys`. `Retiring`: the UPDATE of a rotation has seen every
key that was active when it began; `Fresh`: its new key is nobody else's. So the
commit retires what it saw and adds one, and `Serving` (some key is active
while a replica serves) is kept. `Retired`: a replaced key is never active again.
`ToSeal` names the replica that will seal what is in the clear: the last one to
boot with the variable set; `Awake` that only a running replica has a rotation.

The argument for `Idempotency`. While no attempt has failed or died (`Undisturbed`) the row
tells what the attempts have done (`Calm`): without a row nothing is booked and nobody
has the key; a pending row is one attempt's, which is at work, so that the sweep
cannot take its key for abandoned; a completed row names the one booking. Whatever
fails (`Backed`), an attempt completes a row only after it booked, and bookings are
forgotten only with the row. Without `Undisturbed` the first two theorems are
false (section 8).

The argument for `FareRules`. A switch that found all others idle stays alone until
another one begins, and while alone it has seen every active row (`Undivided`),
so its commit leaves its own row as the only one. That a new row's `created_at`
is a number at all needs the largest of finitely many (`Largest`).

The argument for `Quotes`. Every price in a handler's locals and in a token is what the
ruleset named there gives for its line at the day the rules were loaded (`PricedRight`);
a request between its lines keeps its day, because the clock moves only when no
request is running. What a client presents need not be the cart it was quoted for: the
price of an order line is that of the first quoted line equal to it (`QuotedLine`), and
there is one because a token has as many prices as lines (`AllPriced`). `Evaluate` is
never expanded, so the theorem holds for any price function of these arguments.

The argument for `Fares` has three layers. *Words.* `&`, `|` and `~` act on `Bits`, so
all there is to show is that a word below a power of two and its set of bits
determine each other, in both directions and for any width: by halving
(`BitsByHalves`, `WordsDiffer`, `WordExists`), with every induction a least
counterexample. The mask of a span has exactly its segments, the full width
included, where `1 << 64` would not be a word (`MaskOfSpan`); reading the column as
signed loses nothing (`SignedWords`). *Rows.* `SeatExact` and `PoolExact` relate one
row to the lines sold of it: the bits are the disjoint union of their spans, a
cell is the capacity less the places counted. Neither claim nor release says anything
about the others' lines, so disjointness must be part of it; then what a release
finds is its own (`SeatGiven`), and a pool's release passes its guard (`PoolGiven`).
*Steps.* As in `Orders`, each is quiet, one cart more or one cart less (`StepKinds`);
a cart has at most one line for a row, or a second one would be booked over the
first (`UnitsApart`, `OneLine`). `LedgerInv` says that all rows are exact and all
carts bookable. The refinement needs `LedgerInv` too: an occupancy is a share of
10000 only if no row is over its capacity (`OccupancyIsAShare`). With it the
theorems about `QuotesSpec` hold of a checkout while the ledger moves. What search
shows follows: `JourneysAgree`, `PoolsAgree` and `WordsAreSets` take each of the
three answers to the same exact rows.

`FaresAssumption` says what makes a vessel, a route and a body: finitely many seats,
no pool among them, natural capacities, no stop twice on a route (migration 0002), and
lines for which `resolve_target` found a unit and a span (others are refused before
a price or a claim). A quantity is any integer.

`JourneysAgree` has the hypothesis that migration 0002 enforces, `UNIQUE (route_id,
location_id)`: on a loop route `pick_span` takes the first later call and the join
of search takes them all.

The argument for `Credentials`. `Recorded`: a key whose text is out has its row in
the log, because the audit row comes before the answer. `New`: a key is created by
one request and absent until then. `Out`: a key that is, or is about to be, logged
as revoked is inactive, and only a boot makes a key active again.

The argument for `Ownership`. `OnePlaced`: a handler has only to do with orders that
exist, which no create writes again. `Named`: an owner who was let in is a
customer, so the row is not NULL and no claim takes it.

The argument for `RateLimit`. A member is scored by the clock of the replica that
added it (`Dated`) and trimmed by the clock of the one that asks next. What is
younger than the window less `Skew` no replica can have taken for old, and Redis
keeps a set while it has a member within the window (`Expiring`), so it is still
counted (`Lasting`); what is counted is younger than the window plus `Skew`. `BudgetsHold`
promises the limit over the first and refuses only who used it up within the
second; a request moves one of the two counts, of its own set (`RequestCases`). Members are numbered in the order of admission (`Numbered`), so each request
adds one and the size of a set is a number of requests.

## 7. Only model-checked, and not modelled

- Liveness under fairness (`OverdueSettles`, `CancelledTripsDrain`, `JournalsDrain`,
  `KeyIsFreedAgain`, `CancelledTripSettles`, `EveryDeliverySettles`, `CopiesConverge`)
  and anything about ENABLED: TLC only.
- The two runs that expect a violation (section 8).
- Abstracted: SQL text, signatures and encryption (which key, sealed or not),
  HTTP mapping, JSON, passenger data beyond the fare type, times of day beyond "departed",
  "expired" and TTLs, back-off intervals.
- Not modelled: ancillaries (a catalogue and extras of an order, independent of the
  ledger; two observations are in section 8), the component host (a boundary
  around the same `evaluate`), GTFS export and seed data (formatting and fixtures),
  the HTTP shell, bindings and SDKs, the load generator and deployment: they keep
  no state that the parts above depend on. In the modelled parts: dates, paging and
  fare columns of search, passenger details of an order, header and signature
  schemes of the HTTP payment provider, the unique constraints of the network's
  tables. Of the hazards in `PROJECT.json`, those without a property say why there.

## 8. Known disagreements

Places where the code does something else than a comment or document of the
repository says, found by TLC with the constants given. The first two are runs;
each of the others is reproduced by the constants named in the last column.

| Where | The text says | The code does | Reproduce |
|---|---|---|---|
| `idempotency.rs:158` | "A booking retry must never produce a second booking" (line 3) | `release` can delete the row between another attempt's INSERT and SELECT; that attempt proceeds without a row | run `Idempotency_race` |
| `admin.rs:835` | "Money first, inventory second" (line 843) | whether there is money to return is read without a lock; a payment may be recorded in between | run `Payments_unpaid_refund` |
| `store.rs:197`, `orders/mod.rs:224-296` | "stops the departure being sold the moment this returns" (`admin.rs:715`) | the trip status is read before the write transaction; the late order is settled by the cascade | `CancelStopsSales`, as `Orders_tasks` with one order, no claims |
| `ticket/mod.rs:731` | "When the last ticket of an order boards, the order transitions" (656, README) | two overlapping last scans each count the other's ticket as issued; the order stays Ticketed | `LastScanBoards`, as `Boarding_devices` with two `Stamps` |
| `holds.rs:246` | "if any seat is already held or sold, nothing is held (409)" (`reservations.rs:117`) | the rollback discards the result of each release: after a Redis error the seat stays held to its expiry, and the request answers 409 | `RefusedHoldsNothing`, as `Holds_safety` |
| `holds.rs:214`, `356` | the index "can never miss one" (15-17) | the emptiness check and the SREM are separate commands; a hold acquired in between leaves the index | `IndexMissesNone`, as `Holds_safety` |
| `reservations.rs:216` | holds are refused only on a verified number (`holds.rs:404`) | `held + adding > ceiling` is judged on the unverified SCARD when that alone is below the ceiling | `RefusalsAreVerified`, as `Holds_safety` |
| `reservations.rs:215`, `240` | the ceiling bounds what may be held (49) | it is read before the seats are taken: concurrent requests exceed it together | `CeilingHolds`, as `Holds_safety` with `MoreSeats`; also where every measurement succeeds |
| `orders.rs:431` | "Nothing was booked on any failing path" | a commit whose acknowledgement is lost returns an error and the key is given back | `OneBooking` with `Faults = {"commit"}` |
| `idempotency.rs:192` | a key replayed with another body is refused (18) | `complete` writes by key alone: an attempt without a row completes another's | `ReplayMatchesRequest` without `Undisturbed` |
| `orders/mod.rs:557` | duplicates are "never re-applied" (README 270) | a late failure notice of an earlier attempt moves a retried payment back to locked | `NeverReapplied`, as `Payments_order` with `RefundKeyed = FALSE` and no `Refunds` |
| `orders/mod.rs:536`, `543` | | without an idempotency header on the create call the order can be given a new intent between lookup and transaction: it is paid by one intent and names another | `PaidIntentIsCaptured` with `IntentKeyed = FALSE`, two `Intents` |
| `orders/mod.rs:683` | the cascade "is resumable and idempotent" (647) | without an idempotency header on the refund call, a crash after the provider refunded makes every retry fail | `CancelledTripSettles` with `RefundKeyed = FALSE` |
| `events/mod.rs:131` | "undelivered rows retry next tick in order" (154) | a second relay passes over locked rows and may fan out later events of an order first | `FannedOutInOrder`, as `Outbox_queue` with `RelayBatch = 1`; with one relay it holds |
| `ticket/mod.rs:370` | "A replica still signing with a retired key is precisely what rotation exists to stop" (144) | the signer is read before the transaction; a rotation may complete in between | `NoRetiredSignature` with two replicas, one order |

Read from the code: a staff change and its audit row are separate statements, so a
handler that dies in between leaves a change without the row `admin.rs:3` promises
of every mutation (in `Credentials`, `Leave` after `EnrollStaff`; a key made that way is
harmless, since nobody has its text); `identity.rs:113` says a misconfigured URL fails
at boot, but `provider_from_env` logs the error and the process runs without a
provider until it is booted again (`ProviderKeys.Connect`); a quote with ancillaries
A and B accepts an order with A twice (`orders.rs:347-385`), and a quote cannot be used
once one of its ancillaries is deactivated. Also: migration 0002's `UNIQUE (route_id,
location_id)` on `route_stops` excludes the loop routes `pick_span`'s comment
speaks of (the trips of `Fares` have none); `rules.rs:68` says of the quantity "Seats: 1",
but nothing refuses more: a seat line of two is priced and recorded as two and claims
one seat (`pricing.rs:131`, `orders/mod.rs:338-384`); `expire_due`'s comment says SKIP LOCKED, the
statement is FOR UPDATE; `seed.rs:76` says "Exactly one ruleset is active at a time", but
two publications that both saw the old one leave two (the newest is in force); a
quote for a round trip may be presented for one of its legs, whose price then has
the discount of "every item of a round-trip itinerary" (`rules.rs:42`); the comment at
`store.rs:169` says search hides past departures, its statement selects by
date and status only.

## 9. Plan

Order of the work: what can lose money or seats first, then what can block, then
what can mislead.

Done: the order engine over the ledger with its refinement, boarding, holds,
payments, outbox and webhooks, ticket keys, idempotency, prices, quotes, fare
rules, spans as stored and search, credentials, ownership and the rate limit, each with
its proofs; provider keys, by TLC.

Next:

1. `ClaimTx`: the item loop of `OrderStore::create` statement by statement with row
   locks, and the ticket and order locks of refund and `record_scan`: deadlocks and
   their abort, refining `Orders`.
2. The safety half of the liveness properties: what a pass of a task leaves closer
   to its end, as action properties over a measure.
3. Ancillaries beside `Quotes`; network and schedule (unique constraints,
   `create_trips`) as the initial states of `Inventory`.
