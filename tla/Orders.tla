------------------------------- MODULE Orders -------------------------------
(***************************************************************************)
(* The order engine (crates/lulan-engine/src/orders/mod.rs) over the        *)
(* capacity ledger: booking handlers, payment results, cancellations, the   *)
(* expiry sweeper, the cancellation cascade and admin refunds, interleaved  *)
(* statement by statement wherever the code leaves a transaction.           *)
(*                                                                         *)
(* A transaction that takes the order row FOR UPDATE is one step; what a    *)
(* handler reads before it opens that transaction is a step of its own and  *)
(* may be stale when used: the resolved targets of a booking (resolving),   *)
(* the sweeper's list of overdue orders (due), the cascade's rows           *)
(* (settling).  Ticket rows are in module Boarding, money in Payments.      *)
(***************************************************************************)
EXTENDS Inventory, OrderLifecycle

CONSTANTS Orders,        \* booking requests, each with the order id it makes
          Claims,        \* standalone POST /claims requests
          Requests,      \* the carts clients ask for
          MaxPayments,   \* bound: payment requests per order
          MaxDeparted    \* bound: stops a trip leaves

Claimants == Orders \cup Claims

ASSUME OrdersAssumption ==
  /\ Orders \cap Claims = {}
  /\ Requests \subseteq Carts
  /\ MaxPayments \in Nat
  /\ MaxDeparted \in Nat

VARIABLES tripStatus,  \* trips.status
          departed,    \* stops whose boarding time has passed, per trip
          cart,        \* order_items rows (a claim's response for Claims)
          resolving,   \* resolved targets a handler holds before its transaction
          status,      \* orders.status
          stream,      \* events rows of the order, by stream_seq
          expiry,      \* orders.expires_at: NULL, ahead or passed
          due,         \* ids selected by expire_due and not yet processed
          settling     \* rows selected by settle_cancelled_trips, not yet processed

vars == <<mask, remaining, tripStatus, departed, cart, resolving, status,
          stream, expiry, due, settling>>

TypeOK ==
  /\ LedgerTypeOK
  /\ tripStatus \in [Trips -> {"scheduled", "cancelled"}]
  /\ departed \in [Trips -> Nat]
  /\ cart \in [Claimants -> Carts]
  /\ resolving \in [Claimants -> Carts]
  /\ status \in [Orders -> Statuses \cup {NoOrder}]
  /\ stream \in [Orders -> Seq(Events)]
  /\ expiry \in [Orders -> {"null", "ahead", "passed"}]
  /\ due \subseteq Orders
  /\ settling \in [Orders -> {"idle", "unpaid", "paid"}]

Init ==
  /\ LedgerInit
  /\ tripStatus = [t \in Trips |-> "scheduled"]
  /\ departed = [t \in Trips |-> 0]
  /\ cart = [c \in Claimants |-> NoCart]
  /\ resolving = [c \in Claimants |-> NoCart]
  /\ status = [o \in Orders |-> NoOrder]
  /\ stream = [o \in Orders |-> <<>>]
  /\ expiry = [o \in Orders |-> "null"]
  /\ due = {}
  /\ settling = [o \in Orders |-> "idle"]

-----------------------------------------------------------------------------
(* Booking *)

\* resolve_target, for every line: the trip is scheduled and has not left the
\* boarding stop.  Read without a lock, before the write transaction.
Sellable(c) ==
  \A u \in Touched(c) :
    /\ tripStatus[TripOf[u]] = "scheduled"
    /\ \A k \in c[u].span : k >= departed[TripOf[u]]

\* A booking makes one order id; a standalone claim names one unit and leaves
\* no row behind but the ledger's.
Fresh(c) == IF c \in Orders THEN status[c] = NoOrder ELSE cart[c] = NoCart

Resolve(c) ==
  /\ Fresh(c)
  /\ resolving[c] = NoCart
  /\ \E r \in Requests :
       /\ Touched(r) # {}
       /\ c \in Claims => Cardinality(Touched(r)) = 1
       /\ Sellable(r)
       /\ resolving' = [resolving EXCEPT ![c] = r]
  /\ UNCHANGED <<ledger, tripStatus, departed, cart, status, stream, expiry,
                 due, settling>>

CreateUnlogged(o) ==                         \* mutant: InventoryLocked not appended
  /\ resolving[o] # NoCart
  /\ CanClaim(resolving[o])
  /\ Claim(resolving[o])
  /\ cart' = [cart EXCEPT ![o] = resolving[o]]
  /\ resolving' = [resolving EXCEPT ![o] = NoCart]
  /\ status' = [status EXCEPT ![o] = "locked"]
  /\ stream' = [stream EXCEPT ![o] = <<"order_created">>]
  /\ expiry' = [expiry EXCEPT ![o] = "ahead"]
  /\ UNCHANGED <<tripStatus, departed, due, settling>>

\* The write transaction of OrderStore::create: order row, claims, items and
\* both events commit together.
Create(o) ==
  /\ resolving[o] # NoCart
  /\ CanClaim(resolving[o])
  /\ Claim(resolving[o])
  /\ cart' = [cart EXCEPT ![o] = resolving[o]]
  /\ resolving' = [resolving EXCEPT ![o] = NoCart]
  /\ status' = [status EXCEPT ![o] = "locked"]
  /\ stream' = [stream EXCEPT ![o] = <<"order_created", "inventory_locked">>]
  /\ expiry' = [expiry EXCEPT ![o] = "ahead"]
  /\ UNCHANGED <<tripStatus, departed, due, settling>>

\* A line whose claim affects no row rolls the transaction back: Conflict.
CreateConflict(c) ==
  /\ resolving[c] # NoCart
  /\ ~CanClaim(resolving[c])
  /\ resolving' = [resolving EXCEPT ![c] = NoCart]
  /\ UNCHANGED <<ledger, tripStatus, departed, cart, status, stream, expiry,
                 due, settling>>

\* POST /claims: the guarded UPDATE alone, never given back.
ClaimUnit(c) ==
  /\ resolving[c] # NoCart
  /\ CanClaim(resolving[c])
  /\ Claim(resolving[c])
  /\ cart' = [cart EXCEPT ![c] = resolving[c]]
  /\ resolving' = [resolving EXCEPT ![c] = NoCart]
  /\ UNCHANGED <<tripStatus, departed, status, stream, expiry, due, settling>>

-----------------------------------------------------------------------------
(* Transitions under the order row lock *)

\* apply_event_locked, when the event is legal in the status read under the
\* lock; an illegal one is a NoOp and changes nothing.
Transition(o, e) ==
  /\ Legal(status[o], e)
  /\ status' = [status EXCEPT ![o] = Apply(status[o], e)]
  /\ stream' = [stream EXCEPT ![o] = Append(@, e)]

\* A transition whose transaction also gives the claims back.
TransitionAndRelease(o, e) ==
  /\ Transition(o, e)
  /\ Release(cart[o])

PaymentsRequested(o) ==
  Cardinality({n \in DOMAIN stream[o] : stream[o][n] = "payment_requested"})

RequestPayment(o) ==
  /\ PaymentsRequested(o) < MaxPayments
  /\ Transition(o, "payment_requested")
  /\ UNCHANGED <<ledger, tripStatus, departed, cart, resolving, expiry, due,
                 settling>>

\* apply_payment_result, for a webhook that may come late, twice or out of
\* order once an intent was recorded.
PaymentCaptured(o) ==
  /\ Transition(o, "payment_captured")
  /\ expiry' = [expiry EXCEPT ![o] = "null"]
  /\ UNCHANGED <<ledger, tripStatus, departed, cart, resolving, due, settling>>

PaymentFailed(o) ==
  /\ Transition(o, "payment_failed")
  /\ UNCHANGED <<ledger, tripStatus, departed, cart, resolving, expiry, due,
                 settling>>

Cancel(o) ==
  /\ TransitionAndRelease(o, "order_cancelled")
  /\ UNCHANGED <<tripStatus, departed, cart, resolving, expiry, due, settling>>

\* Ticketing and the scan of the last ticket, as they move the order.
IssueTickets(o) ==
  /\ Transition(o, "ticket_issued")
  /\ UNCHANGED <<ledger, tripStatus, departed, cart, resolving, expiry, due,
                 settling>>

BoardLastTicket(o) ==
  /\ Transition(o, "passenger_boarded")
  /\ UNCHANGED <<ledger, tripStatus, departed, cart, resolving, expiry, due,
                 settling>>

AdminRefundKeepsSeats(o) ==                  \* mutant: release_order_items forgotten
  /\ Transition(o, "order_refunded")
  /\ UNCHANGED <<ledger, tripStatus, departed, cart, resolving, expiry, due,
                 settling>>

\* refund_order: the provider has paid back, then the store refunds.
AdminRefund(o) ==
  /\ TransitionAndRelease(o, "order_refunded")
  /\ UNCHANGED <<tripStatus, departed, cart, resolving, expiry, due, settling>>

-----------------------------------------------------------------------------
(* The expiry sweeper: select without a lock, then one transaction each *)

Overdue(o) == status[o] \in Provisional /\ expiry[o] = "passed"

ExpireSelectPending ==                       \* mutant: status = 'pending_payment' only
  /\ due' = due \cup {o \in Orders : status[o] = "pending_payment" /\ Overdue(o)}
  /\ UNCHANGED <<ledger, tripStatus, departed, cart, resolving, status, stream,
                 expiry, settling>>

ExpireSelect ==
  /\ due' = due \cup {o \in Orders : Overdue(o)}
  /\ UNCHANGED <<ledger, tripStatus, departed, cart, resolving, status, stream,
                 expiry, settling>>

ExpireNextUnchecked(o) ==                    \* mutant: trusts the status it selected by
  /\ o \in due
  /\ due' = due \ {o}
  /\ status' = [status EXCEPT ![o] = "expired"]
  /\ stream' = [stream EXCEPT ![o] = Append(@, "order_expired")]
  /\ Release(cart[o])
  /\ UNCHANGED <<tripStatus, departed, cart, resolving, expiry, settling>>

ExpireNext(o) ==
  /\ o \in due
  /\ due' = due \ {o}
  /\ IF Legal(status[o], "order_expired")
     THEN TransitionAndRelease(o, "order_expired")
     ELSE UNCHANGED <<ledger, status, stream>>
  /\ UNCHANGED <<tripStatus, departed, cart, resolving, expiry, settling>>

\* A database error leaves the loop through `?`; a crash drops the list too.
ExpireAbort ==
  /\ due # {}
  /\ due' = {}
  /\ UNCHANGED <<ledger, tripStatus, departed, cart, resolving, status, stream,
                 expiry, settling>>

-----------------------------------------------------------------------------
(* The cancellation cascade: rows read first, settled one by one *)

Unsettled(o) ==
  /\ status[o] \in Provisional \cup {"paid", "ticketed"}
  /\ \E t \in Legs(cart[o]) : tripStatus[t] = "cancelled"

SettleSelectPaidOnly ==                      \* mutant: 'ticketed' missing from the IN list
  /\ settling' = [o \in Orders |->
                    IF ~Unsettled(o) \/ status[o] = "ticketed" THEN settling[o]
                    ELSE IF status[o] \in Provisional THEN "unpaid" ELSE "paid"]
  /\ UNCHANGED <<ledger, tripStatus, departed, cart, resolving, status, stream,
                 expiry, due>>

SettleSelect ==
  /\ settling' = [o \in Orders |->
                    IF ~Unsettled(o) THEN settling[o]
                    ELSE IF status[o] \in Provisional THEN "unpaid" ELSE "paid"]
  /\ UNCHANGED <<ledger, tripStatus, departed, cart, resolving, status, stream,
                 expiry, due>>

\* The row's event, applied to whatever status the order has by now.
SettleNext(o) ==
  LET e == IF settling[o] = "unpaid" THEN "order_cancelled" ELSE "order_refunded"
  IN  /\ settling[o] # "idle"
      /\ settling' = [settling EXCEPT ![o] = "idle"]
      /\ IF Legal(status[o], e)
         THEN TransitionAndRelease(o, e)
         ELSE UNCHANGED <<ledger, status, stream>>
      /\ UNCHANGED <<tripStatus, departed, cart, resolving, expiry, due>>

\* provider.refund failed: the order is left for the next pass.
SettleRefundFails(o) ==
  /\ settling[o] = "paid"
  /\ settling' = [settling EXCEPT ![o] = "idle"]
  /\ UNCHANGED <<ledger, tripStatus, departed, cart, resolving, status, stream,
                 expiry, due>>

-----------------------------------------------------------------------------
(* Operations staff and the clock *)

CancelTrip(t) ==
  /\ tripStatus[t] = "scheduled"
  /\ tripStatus' = [tripStatus EXCEPT ![t] = "cancelled"]
  /\ UNCHANGED <<ledger, departed, cart, resolving, status, stream, expiry, due,
                 settling>>

DepartStop(t) ==
  /\ departed[t] < MaxDeparted
  /\ departed' = [departed EXCEPT ![t] = @ + 1]
  /\ UNCHANGED <<ledger, tripStatus, cart, resolving, status, stream, expiry,
                 due, settling>>

TtlPasses(o) ==
  /\ expiry[o] = "ahead"
  /\ expiry' = [expiry EXCEPT ![o] = "passed"]
  /\ UNCHANGED <<ledger, tripStatus, departed, cart, resolving, status, stream,
                 due, settling>>

OrderStep(o) ==
  \/ Create(o)
  \/ RequestPayment(o) \/ PaymentCaptured(o) \/ PaymentFailed(o)
  \/ Cancel(o) \/ IssueTickets(o) \/ BoardLastTicket(o) \/ AdminRefund(o)
  \/ ExpireNext(o) \/ SettleNext(o) \/ SettleRefundFails(o) \/ TtlPasses(o)

Next ==
  \/ \E c \in Claimants : Resolve(c) \/ CreateConflict(c)
  \/ \E c \in Claims : ClaimUnit(c)
  \/ \E o \in Orders : OrderStep(o)
  \/ ExpireSelect \/ ExpireAbort \/ SettleSelect
  \/ \E t \in Trips : CancelTrip(t) \/ DepartStop(t)

Spec == Init /\ [][Next]_vars

\* The sweeper and the cascade run every 30 s in every replica and errors do
\* not last for ever: each is tried again until it succeeds.  Clients, staff
\* and the provider promise nothing.
FairSpec ==
  /\ Spec
  /\ WF_vars(ExpireSelect) /\ WF_vars(SettleSelect)
  /\ \A o \in Orders : SF_vars(ExpireNext(o)) /\ SF_vars(SettleNext(o))

-----------------------------------------------------------------------------
(* Properties *)

\* Who owns capacity now: orders until cancelled, expired or refunded, and
\* standalone claims for ever.
Holder(c) == IF c \in Orders THEN status[c] \in Holding ELSE cart[c] # NoCart
Holders   == {c \in Claimants : Holder(c)}

\* No segment of a seat is ever owned twice, whatever handlers, sweepers and
\* cascades interleave ("Postgres cannot double-sell a segment", store.rs:307).
NoDoubleSell ==
  \A c, d \in Holders : c # d =>
    \A s \in Seats : cart[c][s].span \cap cart[d][s].span = {}

\* A seat row marks exactly the segments of the orders that hold it: no claim
\* outlives its order and no release takes another's segments.
SeatLedgerExact ==
  \A s \in Seats : mask[s] = UNION {cart[c][s].span : c \in Holders}

\* The places that its holders have on a segment of a pool.
Places(p, k) ==
  UNION {{c} \X (1..cart[c][p].qty) : c \in {d \in Holders : k \in cart[d][p].span}}

\* A pool row is its capacity less what the holders have on each segment: no
\* release is refused or counts twice, although its guard only sees the sums.
PoolLedgerExact ==
  \A p \in Pools, k \in Segs :
    remaining[p][k] = Capacity[p] - Cardinality(Places(p, k))

\* Replaying an order's events gives its read-model status (the Phase 3 exit
\* criterion of replay_status, orders/mod.rs:864).
StreamReplays == \A o \in Orders : Replay(stream[o]) = status[o]

\* Captured money keeps the claims: the sweeper or the cascade acting on a row
\* it read before the payment never cancels or expires a paid order, and an
\* order that gave its claims back never comes to life again.
OutcomesAreFinal ==
  [][\A o \in Orders :
       /\ status[o] \in {"paid", "ticketed", "boarded"} =>
            status'[o] \in Holding \cup {"refunded"}
       /\ status[o] \in Released => status'[o] = status[o]]_vars

\* cancel_trip "stops the departure being sold the moment this returns"
\* (admin.rs:715): no order is created on a cancelled trip.
CancelStopsSales ==
  [][\A o \in Orders : status[o] = NoOrder /\ status'[o] # NoOrder =>
       \A t \in Legs(cart'[o]) : tripStatus[t] = "scheduled"]_vars

\* An unpaid order past its deadline gives its claims back in the end (or is
\* paid, cancelled or settled first), although sweeps fail half-way.
OverdueSettles == \A o \in Orders : Overdue(o) ~> ~Overdue(o)

\* Every order on a cancelled trip is settled in the end, those booked by a
\* request that had resolved its targets before the cancellation included.
CancelledTripsDrain == \A o \in Orders : Unsettled(o) ~> ~Unsettled(o)

\* The seat side of this module implements Booking.
SeatCells(c) == {x \in Seats \X Segs : x[2] \in cart[c][x[1]].span}

Over(c)  == c \in Orders /\ status[c] \in Released
Phase(c) == IF Holder(c) THEN "held" ELSE IF Over(c) THEN "over" ELSE "new"

B == INSTANCE Booking WITH
       Parties <- Claimants,
       Keepers <- Claims,
       Cells   <- Seats \X Segs,
       taken   <- {x \in Seats \X Segs : x[2] \in mask[x[1]]},
       bag     <- [c \in Claimants |-> SeatCells(c)],
       phase   <- [c \in Claimants |-> Phase(c)]

ImplementsBooking == B!Spec
=============================================================================
