---------------------------- MODULE OrdersProofs ----------------------------
(***************************************************************************)
(* Proofs about module Orders, for every set of orders, claims, seats,      *)
(* pools, requests and every route length.                                  *)
(*                                                                         *)
(* The argument: each step either leaves the holders and the seat rows      *)
(* alone (Quiet), makes one claimant a holder after claiming its cart       *)
(* (Takes), or ends one order after releasing its cart (Gives).  The        *)
(* invariants are preserved by each of the three kinds.                     *)
(***************************************************************************)
EXTENDS Orders, FiniteSetTheorems, WellFoundedInduction, TLAPS

USE InventoryAssumption, OrdersAssumption

LEMMA NoCartType == NoCart \in Carts
  BY DEF NoCart, NoLine, Carts, Lines

\* A line covers segments of the route, in a quantity that is a number.
LEMMA LineFacts ==
  ASSUME NEW c \in Carts, NEW u \in Units
  PROVE  c[u].span \subseteq Segs /\ c[u].qty \in Nat
<1>1. \A a \in Segs, b \in 1..NSeg : Span(a, b) \subseteq Segs
  BY DEF Span, Segs
<1>2. c[u] \in Lines
  BY DEF Carts
<1>3. QED BY <1>1, <1>2 DEF Lines, Spans

LEMMA ApplyType ==
  ASSUME NEW s \in Statuses \cup {NoOrder}, NEW e \in Events, Legal(s, e)
  PROVE  Apply(s, e) \in Statuses
  BY DEF Apply, Legal, Statuses, Illegal, NoOrder, Provisional

LEMMA InitTypeOK == Init => TypeOK
  BY NoCartType DEF Init, TypeOK, LedgerInit, LedgerTypeOK, Segs, Statuses, NoOrder

LEMMA ClaimType ==
  ASSUME LedgerTypeOK, NEW c \in Carts, CanClaim(c), Claim(c)
  PROVE  LedgerTypeOK'
<1>1. mask' \in [Seats -> SUBSET Segs]
  BY LineFacts DEF LedgerTypeOK, Claim, SeatClaimed, Units
<1>2. ASSUME NEW p \in Pools, NEW k \in Segs
      PROVE  /\ remaining'[p][k] \in Nat
             /\ remaining'[p][k] <= Capacity[p]
  <2>1. /\ c[p].qty \in Nat
        /\ k \in c[p].span => remaining[p][k] >= c[p].qty
        /\ remaining[p][k] \in Nat
        /\ Capacity[p] \in Nat
        /\ remaining[p][k] <= Capacity[p]
    BY LineFacts DEF LedgerTypeOK, CanClaim, CanClaimPool, Units
  <2>2. remaining'[p][k] = remaining[p][k] - (IF k \in c[p].span THEN c[p].qty ELSE 0)
    BY DEF Claim, PoolClaimed
  <2>3. QED BY <2>1, <2>2
<1>3. remaining' \in [Pools -> [Segs -> Nat]]
  <2>1. ASSUME NEW p \in Pools
        PROVE  PoolClaimed(p, c[p]) \in [Segs -> Nat]
    BY <1>2, <2>1 DEF Claim, PoolClaimed
  <2>2. QED BY <2>1 DEF Claim
<1>4. QED BY <1>1, <1>2, <1>3 DEF LedgerTypeOK

LEMMA ReleaseType ==
  ASSUME LedgerTypeOK, NEW c \in Carts, Release(c)
  PROVE  LedgerTypeOK'
<1>1. mask' \in [Seats -> SUBSET Segs]
  BY DEF LedgerTypeOK, Release, SeatReleased
<1>2. ASSUME NEW p \in Pools
      PROVE  /\ remaining'[p] \in [Segs -> Nat]
             /\ \A k \in Segs : remaining'[p][k] <= Capacity[p]
  <2>1. /\ c[p].qty \in Nat
        /\ c[p].span \subseteq Segs
        /\ Capacity[p] \in Nat
        /\ remaining[p] \in [Segs -> Nat]
        /\ \A k \in Segs : remaining[p][k] <= Capacity[p]
    BY LineFacts DEF LedgerTypeOK, Units
  <2>2. CASE FitsPool(p, c[p])
    <3>1. remaining'[p] = [k \in Segs |-> remaining[p][k]
                                + (IF k \in c[p].span THEN c[p].qty ELSE 0)]
      BY <2>2 DEF Release, PoolReleased
    <3>2. \A k \in c[p].span : remaining[p][k] + c[p].qty <= Capacity[p]
      BY <2>2 DEF FitsPool
    <3>3. QED BY <2>1, <3>1, <3>2
  <2>3. CASE ~FitsPool(p, c[p])
    BY <2>1, <2>3 DEF Release, PoolReleased
  <2>4. QED BY <2>2, <2>3
<1>3. remaining' \in [Pools -> [Segs -> Nat]]
  BY <1>2 DEF Release
<1>4. QED BY <1>1, <1>2, <1>3 DEF LedgerTypeOK

-----------------------------------------------------------------------------
(* What a step does to claims and holders *)

\* Who may be in the middle of a booking: only one that holds nothing yet.
Undecided == \A c \in Claimants : resolving[c] # NoCart => Fresh(c)

\* Neither the ledger nor anybody's claims change.
Quiet == /\ UNCHANGED <<mask, remaining, cart>>
         /\ \A d \in Claimants : (Holder(d)' <=> Holder(d)) /\ (Over(d)' <=> Over(d))

\* c becomes a holder of the cart it has just claimed.
Takes(c) == /\ ~Holder(c) /\ ~Over(c)
            /\ CanClaim(resolving[c])
            /\ Claim(resolving[c])
            /\ cart' = [cart EXCEPT ![c] = resolving[c]]
            /\ \A d \in Claimants : /\ Holder(d)' <=> (d = c \/ Holder(d))
                                    /\ Over(d)' <=> Over(d)

\* Order o gives its cart back and is no holder any more.
Gives(o) == /\ Holder(o)
            /\ Release(cart[o])
            /\ UNCHANGED cart
            /\ \A d \in Claimants : /\ Holder(d)' <=> (d # o /\ Holder(d))
                                    /\ Over(d)' <=> (d = o \/ Over(d))

\* The events that keep an order holding, and those that end it.
LEMMA ApplyFacts ==
  ASSUME NEW s, NEW e, Legal(s, e)
  PROVE  /\ e \in {"payment_requested", "payment_captured", "payment_failed",
                   "ticket_issued", "passenger_boarded"}
              => s \in Holding /\ Apply(s, e) \in Holding
         /\ e \in {"order_cancelled", "order_expired", "order_refunded"}
              => s \in Holding /\ Apply(s, e) \in Released
  BY DEF Apply, Legal, Illegal, Holding, Provisional, Released, NoOrder

LEMMA ReleasedNotHolding ==
  /\ Released \cap Holding = {}
  /\ "locked" \in Holding
  /\ NoOrder \notin Holding \cup Released
  BY DEF Released, Holding, Provisional, NoOrder

LEMMA TransitionQuiet ==
  ASSUME TypeOK, NEW o \in Orders,
         NEW e \in {"payment_requested", "payment_captured", "payment_failed",
                    "ticket_issued", "passenger_boarded"},
         Transition(o, e), UNCHANGED <<ledger, cart>>
  PROVE  Quiet
  BY ApplyFacts, ReleasedNotHolding DEF Transition, Quiet, Holder, Over, ledger, TypeOK

LEMMA TransitionGives ==
  ASSUME TypeOK, NEW o \in Orders,
         NEW e \in {"order_cancelled", "order_expired", "order_refunded"},
         TransitionAndRelease(o, e), UNCHANGED cart
  PROVE  Gives(o)
<1>1. /\ status[o] \in Holding
      /\ status'[o] \in Released
      /\ status' = [status EXCEPT ![o] = Apply(status[o], e)]
  BY ApplyFacts DEF TransitionAndRelease, Transition, TypeOK
<1>2. ASSUME NEW d \in Claimants
      PROVE  /\ Holder(d)' <=> (d # o /\ Holder(d))
             /\ Over(d)' <=> (d = o \/ Over(d))
  BY <1>1, ReleasedNotHolding DEF Holder, Over, TypeOK
<1>3. QED
  BY <1>1, <1>2 DEF Gives, Holder, TransitionAndRelease

LEMMA QuietWhenUnchanged ==
  ASSUME UNCHANGED <<mask, remaining, cart, status>>
  PROVE  Quiet
  BY DEF Quiet, Holder, Over

LEMMA CreateTakes ==
  ASSUME TypeOK, Undecided, NEW o \in Orders, Create(o)
  PROVE  Takes(o)
<1>1. status[o] = NoOrder /\ status'[o] = "locked"
  BY DEF Create, Undecided, Fresh, TypeOK, Claimants
<1>2. ASSUME NEW d \in Claimants
      PROVE  /\ Holder(d)' <=> (d = o \/ Holder(d))
             /\ Over(d)' <=> Over(d)
  BY <1>1, ReleasedNotHolding DEF Create, Holder, Over, TypeOK, Claimants
<1>3. QED
  BY <1>1, <1>2, ReleasedNotHolding DEF Create, Takes, Holder, Over

LEMMA ClaimUnitTakes ==
  ASSUME TypeOK, Undecided, NEW c \in Claims, ClaimUnit(c)
  PROVE  Takes(c)
<1>1. c \notin Orders /\ c \in Claimants
  BY DEF Claimants
<1>2. cart[c] = NoCart /\ cart'[c] # NoCart
  BY <1>1 DEF ClaimUnit, Undecided, Fresh, TypeOK, Claimants
<1>3. ASSUME NEW d \in Claimants
      PROVE  /\ Holder(d)' <=> (d = c \/ Holder(d))
             /\ Over(d)' <=> Over(d)
  BY <1>1, <1>2 DEF ClaimUnit, Holder, Over, TypeOK, Claimants
<1>4. QED
  BY <1>1, <1>2, <1>3 DEF ClaimUnit, Takes, Holder, Over

LEMMA OrderStepKind ==
  ASSUME TypeOK, Undecided, NEW o \in Orders, OrderStep(o)
  PROVE  Quiet \/ Takes(o) \/ Gives(o)
<1>1. CASE Create(o)
  BY <1>1, CreateTakes
<1>2. CASE RequestPayment(o)
  BY <1>2, TransitionQuiet DEF RequestPayment
<1>3. CASE PaymentCaptured(o)
  BY <1>3, TransitionQuiet DEF PaymentCaptured
<1>4. CASE PaymentFailed(o)
  BY <1>4, TransitionQuiet DEF PaymentFailed
<1>5. CASE Cancel(o)
  BY <1>5, TransitionGives DEF Cancel
<1>6. CASE IssueTickets(o)
  BY <1>6, TransitionQuiet DEF IssueTickets
<1>7. CASE BoardLastTicket(o)
  BY <1>7, TransitionQuiet DEF BoardLastTicket
<1>8. CASE AdminRefund(o)
  BY <1>8, TransitionGives DEF AdminRefund
<1>9. CASE ExpireNext(o)
  BY <1>9, TransitionGives, QuietWhenUnchanged DEF ExpireNext, ledger
<1>10. CASE SettleNext(o)
  <2>1. PICK e \in {"order_cancelled", "order_refunded"} :
          /\ IF Legal(status[o], e)
             THEN TransitionAndRelease(o, e)
             ELSE UNCHANGED <<ledger, status, stream>>
          /\ UNCHANGED cart
    BY <1>10 DEF SettleNext
  <2>2. QED BY <2>1, TransitionGives, QuietWhenUnchanged DEF ledger
<1>11. CASE SettleRefundFails(o)
  BY <1>11, QuietWhenUnchanged DEF SettleRefundFails, ledger
<1>12. CASE TtlPasses(o)
  BY <1>12, QuietWhenUnchanged DEF TtlPasses, ledger
<1>13. QED
  BY <1>1, <1>2, <1>3, <1>4, <1>5, <1>6, <1>7, <1>8, <1>9, <1>10, <1>11, <1>12
  DEF OrderStep

LEMMA StepKind ==
  ASSUME TypeOK, Undecided, [Next]_vars
  PROVE  \/ Quiet
         \/ \E c \in Claimants : Takes(c)
         \/ \E o \in Orders : Gives(o)
<1>1. ASSUME NEW c \in Claimants, Resolve(c) \/ CreateConflict(c)
      PROVE  Quiet
  BY <1>1, QuietWhenUnchanged DEF Resolve, CreateConflict, ledger
<1>2. ASSUME NEW c \in Claims, ClaimUnit(c)
      PROVE  \E d \in Claimants : Takes(d)
  BY <1>2, ClaimUnitTakes DEF Claimants
<1>3. ASSUME NEW o \in Orders, OrderStep(o)
      PROVE  Quiet \/ (\E c \in Claimants : Takes(c)) \/ Gives(o)
  BY <1>3, OrderStepKind DEF Claimants
<1>4. CASE ExpireSelect \/ ExpireAbort \/ SettleSelect
  BY <1>4, QuietWhenUnchanged DEF ExpireSelect, ExpireAbort, SettleSelect, ledger
<1>5. ASSUME NEW t \in Trips, CancelTrip(t) \/ DepartStop(t)
      PROVE  Quiet
  BY <1>5, QuietWhenUnchanged DEF CancelTrip, DepartStop, ledger
<1>6. CASE UNCHANGED vars
  BY <1>6, QuietWhenUnchanged DEF vars
<1>7. QED
  BY <1>1, <1>2, <1>3, <1>4, <1>5, <1>6 DEF Next

-----------------------------------------------------------------------------
(* Type correctness *)

\* The types of everything but the ledger and the claims.
ControlTypeOK ==
  /\ tripStatus \in [Trips -> {"scheduled", "cancelled"}]
  /\ departed \in [Trips -> Nat]
  /\ resolving \in [Claimants -> Carts]
  /\ status \in [Orders -> Statuses \cup {NoOrder}]
  /\ stream \in [Orders -> Seq(Events)]
  /\ expiry \in [Orders -> {"null", "ahead", "passed"}]
  /\ due \subseteq Orders
  /\ settling \in [Orders -> {"idle", "unpaid", "paid"}]

LEMMA KindLedgerType ==
  ASSUME TypeOK,
         Quiet \/ (\E c \in Claimants : Takes(c)) \/ (\E o \in Orders : Gives(o))
  PROVE  LedgerTypeOK' /\ cart' \in [Claimants -> Carts]
<1>1. CASE Quiet
  BY <1>1 DEF Quiet, TypeOK, LedgerTypeOK
<1>2. ASSUME NEW c \in Claimants, Takes(c)
      PROVE  LedgerTypeOK' /\ cart' \in [Claimants -> Carts]
  BY <1>2, ClaimType DEF Takes, TypeOK
<1>3. ASSUME NEW o \in Orders, Gives(o)
      PROVE  LedgerTypeOK' /\ cart' \in [Claimants -> Carts]
  BY <1>3, ReleaseType DEF Gives, TypeOK, Claimants
<1>4. QED BY <1>1, <1>2, <1>3

LEMMA TransitionType ==
  ASSUME TypeOK, NEW o \in Orders, NEW e \in Events, Transition(o, e)
  PROVE  /\ status' \in [Orders -> Statuses \cup {NoOrder}]
         /\ stream' \in [Orders -> Seq(Events)]
<1>1. Apply(status[o], e) \in Statuses
  BY ApplyType DEF Transition, TypeOK
<1>2. Append(stream[o], e) \in Seq(Events)
  BY DEF TypeOK
<1>3. QED BY <1>1, <1>2 DEF Transition, TypeOK

LEMMA OrderStepControlType ==
  ASSUME TypeOK, NEW o \in Orders, OrderStep(o)
  PROVE  ControlTypeOK'
<1> USE DEF TypeOK, ControlTypeOK
<1>1. CASE Create(o)
  <2>1. /\ "locked" \in Statuses
        /\ <<"order_created", "inventory_locked">> \in Seq(Events)
    BY DEF Statuses, Events
  <2>2. QED BY <1>1, <2>1, NoCartType DEF Create
<1>2. CASE RequestPayment(o)
  BY <1>2, TransitionType DEF RequestPayment, Events
<1>3. CASE PaymentCaptured(o)
  BY <1>3, TransitionType DEF PaymentCaptured, Events
<1>4. CASE PaymentFailed(o)
  BY <1>4, TransitionType DEF PaymentFailed, Events
<1>5. CASE Cancel(o)
  BY <1>5, TransitionType DEF Cancel, TransitionAndRelease, Events
<1>6. CASE IssueTickets(o)
  BY <1>6, TransitionType DEF IssueTickets, Events
<1>7. CASE BoardLastTicket(o)
  BY <1>7, TransitionType DEF BoardLastTicket, Events
<1>8. CASE AdminRefund(o)
  BY <1>8, TransitionType DEF AdminRefund, TransitionAndRelease, Events
<1>9. CASE ExpireNext(o)
  BY <1>9, TransitionType DEF ExpireNext, TransitionAndRelease, Events
<1>10. CASE SettleNext(o)
  <2>1. PICK e \in {"order_cancelled", "order_refunded"} :
          /\ IF Legal(status[o], e)
             THEN TransitionAndRelease(o, e)
             ELSE UNCHANGED <<ledger, status, stream>>
          /\ settling' = [settling EXCEPT ![o] = "idle"]
          /\ UNCHANGED <<tripStatus, departed, cart, resolving, expiry, due>>
    BY <1>10 DEF SettleNext
  <2>2. e \in Events
    BY DEF Events
  <2>3. QED BY <2>1, <2>2, TransitionType DEF TransitionAndRelease
<1>11. CASE SettleRefundFails(o)
  BY <1>11 DEF SettleRefundFails
<1>12. CASE TtlPasses(o)
  BY <1>12 DEF TtlPasses
<1>13. QED
  BY <1>1, <1>2, <1>3, <1>4, <1>5, <1>6, <1>7, <1>8, <1>9, <1>10, <1>11, <1>12
  DEF OrderStep

LEMMA StepControlType ==
  ASSUME TypeOK, [Next]_vars
  PROVE  ControlTypeOK'
<1> USE DEF TypeOK, ControlTypeOK
<1>1. ASSUME NEW c \in Claimants, Resolve(c)
      PROVE  ControlTypeOK'
  BY <1>1 DEF Resolve
<1>2. ASSUME NEW c \in Claimants, CreateConflict(c)
      PROVE  ControlTypeOK'
  BY <1>2, NoCartType DEF CreateConflict
<1>3. ASSUME NEW c \in Claims, ClaimUnit(c)
      PROVE  ControlTypeOK'
  BY <1>3, NoCartType DEF ClaimUnit, Claimants
<1>4. ASSUME NEW o \in Orders, OrderStep(o)
      PROVE  ControlTypeOK'
  BY <1>4, OrderStepControlType
<1>5. CASE ExpireSelect \/ ExpireAbort
  BY <1>5 DEF ExpireSelect, ExpireAbort
<1>6. CASE SettleSelect
  BY <1>6 DEF SettleSelect
<1>7. ASSUME NEW t \in Trips, CancelTrip(t) \/ DepartStop(t)
      PROVE  ControlTypeOK'
  BY <1>7 DEF CancelTrip, DepartStop
<1>8. CASE UNCHANGED vars
  BY <1>8 DEF vars
<1>9. QED
  BY <1>1, <1>2, <1>3, <1>4, <1>5, <1>6, <1>7, <1>8 DEF Next

LEMMA UndecidedStep ==
  ASSUME TypeOK, Undecided, [Next]_vars
  PROVE  Undecided'
<1> USE DEF Undecided, Fresh, TypeOK
<1>1. ASSUME NEW c \in Claimants, Resolve(c) \/ CreateConflict(c)
      PROVE  Undecided'
  BY <1>1 DEF Resolve, CreateConflict
<1>2. ASSUME NEW c \in Claims, ClaimUnit(c)
      PROVE  Undecided'
  BY <1>2 DEF ClaimUnit, Claimants
<1>3. ASSUME NEW o \in Orders, Create(o)
      PROVE  Undecided'
  BY <1>3 DEF Create, Claimants
<1>4. ASSUME NEW o \in Orders, OrderStep(o), ~Create(o)
      PROVE  Undecided'
  <2>1. UNCHANGED <<resolving, cart>>
    BY <1>4 DEF OrderStep, RequestPayment, PaymentCaptured, PaymentFailed, Cancel,
       IssueTickets, BoardLastTicket, AdminRefund, ExpireNext, SettleNext,
       SettleRefundFails, TtlPasses
  <2>2. \A p \in Orders : \A e : status[p] = NoOrder /\ Legal(status[p], e)
                               => e = "order_created"
    BY DEF Legal, Apply, Illegal, NoOrder, Provisional
  <2>3. \A p \in Orders : status[p] = NoOrder => status'[p] = NoOrder
    BY <1>4, <2>2 DEF OrderStep, RequestPayment, PaymentCaptured, PaymentFailed,
       Cancel, IssueTickets, BoardLastTicket, AdminRefund, ExpireNext, SettleNext,
       SettleRefundFails, TtlPasses, TransitionAndRelease, Transition
  <2>4. QED BY <2>1, <2>3
<1>5. CASE ExpireSelect \/ ExpireAbort \/ SettleSelect
  BY <1>5 DEF ExpireSelect, ExpireAbort, SettleSelect
<1>6. ASSUME NEW t \in Trips, CancelTrip(t) \/ DepartStop(t)
      PROVE  Undecided'
  BY <1>6 DEF CancelTrip, DepartStop
<1>7. CASE UNCHANGED vars
  BY <1>7 DEF vars
<1>8. QED
  BY <1>1, <1>2, <1>3, <1>4, <1>5, <1>6, <1>7 DEF Next

-----------------------------------------------------------------------------
(* The seat ledger *)

\* NoDoubleSell is not inductive: a claim is refused by looking at the mask,
\* so the mask has to be exactly what the holders own.
IInv == TypeOK /\ Undecided /\ NoDoubleSell /\ SeatLedgerExact

LEMMA InitIInv == Init => IInv
<1> SUFFICES ASSUME Init PROVE IInv
  OBVIOUS
<1>1. Holders = {}
  BY ReleasedNotHolding DEF Init, Holders, Holder, Claimants
<1>2. QED
  BY <1>1, InitTypeOK
  DEF Init, LedgerInit, IInv, Undecided, NoDoubleSell, SeatLedgerExact

LEMMA QuietSeats ==
  ASSUME IInv, Quiet
  PROVE  NoDoubleSell' /\ SeatLedgerExact'
<1>1. Holders' = Holders
  BY DEF Quiet, Holders
<1>2. QED
  BY <1>1 DEF Quiet, IInv, NoDoubleSell, SeatLedgerExact

LEMMA TakesSeats ==
  ASSUME IInv, NEW c \in Claimants, Takes(c)
  PROVE  NoDoubleSell' /\ SeatLedgerExact'
<1>1. Holders' = Holders \cup {c}
  BY DEF Takes, Holders
<1>2. c \notin Holders
  BY DEF Takes, Holders
<1>3. /\ cart'[c] = resolving[c]
      /\ \A d \in Holders : cart'[d] = cart[d]
  BY <1>2 DEF Takes, IInv, TypeOK, Holders
<1>4. ASSUME NEW s \in Seats
      PROVE  /\ mask'[s] = mask[s] \cup resolving[c][s].span
             /\ mask[s] \cap resolving[c][s].span = {}
             /\ mask[s] = UNION {cart[d][s].span : d \in Holders}
  BY DEF Takes, Claim, SeatClaimed, CanClaim, CanClaimSeat, IInv, SeatLedgerExact
<1>5. ASSUME NEW s \in Seats, NEW d \in Holders
      PROVE  cart[d][s].span \cap resolving[c][s].span = {}
  BY <1>4
<1>6. NoDoubleSell'
  BY <1>1, <1>2, <1>3, <1>5 DEF NoDoubleSell, IInv
<1>7. ASSUME NEW s \in Seats
      PROVE  mask'[s] = UNION {cart'[d][s].span : d \in Holders'}
  BY <1>1, <1>3, <1>4
<1>8. QED BY <1>6, <1>7 DEF SeatLedgerExact

LEMMA GivesSeats ==
  ASSUME IInv, NEW o \in Orders, Gives(o)
  PROVE  NoDoubleSell' /\ SeatLedgerExact'
<1>1. /\ Holders' = Holders \ {o}
      /\ o \in Holders
      /\ cart' = cart
  BY DEF Gives, Holders, Claimants
<1>2. ASSUME NEW s \in Seats
      PROVE  /\ mask[s] = UNION {cart[d][s].span : d \in Holders}
             /\ mask'[s] = mask[s] \ cart[o][s].span
  BY <1>1 DEF Gives, Release, SeatReleased, OwnsSeat, IInv, SeatLedgerExact
<1>3. ASSUME NEW s \in Seats, NEW d \in Holders, d # o
      PROVE  cart[d][s].span \cap cart[o][s].span = {}
  BY <1>1, <1>3 DEF IInv, NoDoubleSell
<1>4. ASSUME NEW s \in Seats
      PROVE  mask'[s] = UNION {cart'[d][s].span : d \in Holders'}
  BY <1>1, <1>2, <1>3
<1>5. NoDoubleSell'
  BY <1>1 DEF IInv, NoDoubleSell
<1>6. QED BY <1>4, <1>5 DEF SeatLedgerExact

LEMMA StepIInv == IInv /\ [Next]_vars => IInv'
<1> SUFFICES ASSUME IInv, [Next]_vars PROVE IInv'
  OBVIOUS
<1>1. TypeOK /\ Undecided
  BY DEF IInv
<1>2. Quiet \/ (\E c \in Claimants : Takes(c)) \/ (\E o \in Orders : Gives(o))
  BY <1>1, StepKind
<1>3. TypeOK'
  BY <1>1, <1>2, KindLedgerType, StepControlType DEF TypeOK, ControlTypeOK
<1>4. Undecided'
  BY <1>1, UndecidedStep
<1>5. NoDoubleSell' /\ SeatLedgerExact'
  BY <1>2, QuietSeats, TakesSeats, GivesSeats
<1>6. QED BY <1>3, <1>4, <1>5 DEF IInv

\* The ledger, the claimants and what they own always agree: the inductive
\* invariant of the order store (orders/mod.rs create, release on every outcome).
THEOREM Invariance == Spec => []IInv
  BY InitIInv, StepIInv, PTL DEF Spec

\* Types, and with them that no pool ever sells a segment below zero or is
\* filled above its capacity, whatever the guarded UPDATEs interleave with.
THEOREM TypeCorrect == Spec => []TypeOK
<1>1. IInv => TypeOK
  BY DEF IInv
<1>2. QED BY <1>1, Invariance, PTL

\* No seat segment is ever owned by two bookings (the guarded UPDATE of
\* claim_seat_exec inside OrderStore::create and create_claim).
THEOREM NeverDoubleSold == Spec => []NoDoubleSell
<1>1. IInv => NoDoubleSell
  BY DEF IInv
<1>2. QED BY <1>1, Invariance, PTL

\* seat_occupancy and the orders never drift apart: cancel, expire, refund and
\* the cascade free what the order had and nothing else.
THEOREM SeatLedgerIsExact == Spec => []SeatLedgerExact
<1>1. IInv => SeatLedgerExact
  BY DEF IInv
<1>2. QED BY <1>1, Invariance, PTL

-----------------------------------------------------------------------------
(* The pool ledger *)

\* With SeatLedgerExact: the pool rows are exact, and what is sold is finite.
PoolInv ==
  /\ IInv
  /\ \A p \in Pools, k \in Segs : IsFiniteSet(Places(p, k))
  /\ PoolLedgerExact

LEMMA PlacesOf ==
  ASSUME NEW p \in Pools, NEW k \in Segs
  PROVE  \A x : x \in Places(p, k) <=>
                  \E c \in Holders : k \in cart[c][p].span /\ x \in {c} \X (1..cart[c][p].qty)
  BY DEF Places

\* As many places as the quantity of a line.
LEMMA PlacesOfOne ==
  ASSUME NEW c, NEW n \in Nat
  PROVE  IsFiniteSet({c} \X (1..n)) /\ Cardinality({c} \X (1..n)) = n
<1>1. IsFiniteSet(1..n) /\ Cardinality(1..n) = n
  BY FS_Interval
<1>2. IsFiniteSet({c}) /\ Cardinality({c}) = 1
  BY FS_Singleton
<1> QED
  BY <1>1, <1>2, FS_Product

LEMMA InitPools == Init => PoolInv
<1> SUFFICES ASSUME Init PROVE PoolInv
  OBVIOUS
<1>1. Holders = {}
  BY ReleasedNotHolding DEF Init, Holders, Holder, Claimants
<1>2. ASSUME NEW p \in Pools, NEW k \in Segs
      PROVE  /\ IsFiniteSet(Places(p, k)) /\ Cardinality(Places(p, k)) = 0
             /\ remaining[p][k] = Capacity[p] /\ Capacity[p] \in Nat
  <2>1. Places(p, k) = {}
    BY <1>1, PlacesOf
  <2> QED
    BY <2>1, FS_EmptySet DEF Init, LedgerInit
<1> QED
  BY <1>2, InitIInv DEF PoolInv, PoolLedgerExact

LEMMA QuietPools ==
  ASSUME PoolInv, Quiet, NEW p \in Pools, NEW k \in Segs
  PROVE  /\ IsFiniteSet(Places(p, k)')
         /\ remaining'[p][k] = Capacity[p] - Cardinality(Places(p, k)')
<1>1. Holders' = Holders
  BY DEF Quiet, Holders
<1>2. Places(p, k)' = Places(p, k)
  BY <1>1 DEF Quiet, Places
<1> QED
  BY <1>2 DEF Quiet, PoolInv, PoolLedgerExact

\* A claim takes places of its own, as many as it takes from the row.
LEMMA TakesPools ==
  ASSUME PoolInv, NEW c \in Claimants, Takes(c), NEW p \in Pools, NEW k \in Segs
  PROVE  /\ IsFiniteSet(Places(p, k)')
         /\ remaining'[p][k] = Capacity[p] - Cardinality(Places(p, k)')
<1>1. /\ Holders' = Holders \cup {c} /\ c \notin Holders
      /\ cart'[c] = resolving[c] /\ \A d \in Holders : cart'[d] = cart[d]
  BY DEF Takes, PoolInv, IInv, TypeOK, Holders
<1>2. PICK line : line = resolving[c][p]
  OBVIOUS
<1>3. PICK old : old = Places(p, k)
  OBVIOUS
<1>4. /\ line.qty \in Nat
      /\ remaining[p][k] \in Nat /\ Capacity[p] \in Nat
      /\ IsFiniteSet(old) /\ Cardinality(old) \in Nat
      /\ remaining[p][k] = Capacity[p] - Cardinality(old)
      /\ remaining'[p][k] = remaining[p][k] - (IF k \in line.span THEN line.qty ELSE 0)
  BY <1>2, <1>3, LineFacts, FS_CardinalityType
  DEF Takes, Claim, PoolClaimed, PoolInv, IInv, TypeOK, LedgerTypeOK, PoolLedgerExact, Units
<1>5. CASE k \in line.span
  <2>1. PICK new : new = {c} \X (1..line.qty)
    OBVIOUS
  <2>2. IsFiniteSet(new) /\ Cardinality(new) = line.qty
    BY <1>4, <2>1, PlacesOfOne
  <2>3. old \cap new = {}
    BY <1>1, <1>3, <2>1, PlacesOf
  <2>4. Places(p, k)' = old \cup new
    BY <1>1, <1>2, <1>3, <1>5, <2>1 DEF Places
  <2>5. IsFiniteSet(old \cup new) /\ Cardinality(old \cup new) = Cardinality(old) + line.qty
    <3>1. /\ IsFiniteSet(old \cup new)
          /\ Cardinality(old \cup new)
               = Cardinality(old) + Cardinality(new) - Cardinality(old \cap new)
      BY <1>4, <2>2, FS_Union
    <3>2. Cardinality(old \cap new) = 0
      BY <2>3, FS_EmptySet
    <3> QED
      BY <1>4, <2>2, <3>1, <3>2
  <2> QED
    BY <1>4, <1>5, <2>4, <2>5
<1>6. CASE k \notin line.span
  <2>1. Places(p, k)' = old
    BY <1>1, <1>2, <1>3, <1>6 DEF Places
  <2> QED
    BY <1>4, <1>6, <2>1
<1> QED
  BY <1>5, <1>6

\* What a holder has is there to be given back: the guards of the releases hold.
ReleasesApply ==
  \A c \in Holders : /\ \A s \in Seats : OwnsSeat(s, cart[c][s])
                     /\ \A p \in Pools : FitsPool(p, cart[c][p])

LEMMA HoldersFit ==
  ASSUME PoolInv, NEW c \in Holders
  PROVE  /\ \A s \in Seats : OwnsSeat(s, cart[c][s])
         /\ \A p \in Pools : FitsPool(p, cart[c][p])
<1>1. ASSUME NEW s \in Seats
      PROVE  OwnsSeat(s, cart[c][s])
  BY DEF PoolInv, IInv, SeatLedgerExact, OwnsSeat
<1>2. ASSUME NEW p \in Pools, NEW k \in cart[c][p].span
      PROVE  remaining[p][k] + cart[c][p].qty <= Capacity[p]
  <2>1. k \in Segs /\ cart[c][p].qty \in Nat
    BY LineFacts DEF PoolInv, IInv, TypeOK, Holders, Units
  <2>2. PICK own, all : own = {c} \X (1..cart[c][p].qty) /\ all = Places(p, k)
    OBVIOUS
  <2>3. own \subseteq all
    BY <1>2, <2>1, <2>2, PlacesOf
  <2>4. IsFiniteSet(all) /\ Cardinality(all) \in Nat
    BY <2>1, <2>2, FS_CardinalityType DEF PoolInv
  <2>5. Cardinality(own) = cart[c][p].qty
    BY <2>1, <2>2, PlacesOfOne
  <2>6. Cardinality(own) <= Cardinality(all)
    BY <2>3, <2>4, FS_Subset
  <2>7. remaining[p][k] = Capacity[p] - Cardinality(all) /\ Capacity[p] \in Nat
    BY <2>1, <2>2 DEF PoolInv, PoolLedgerExact
  <2> QED
    BY <2>1, <2>4, <2>5, <2>6, <2>7
<1> QED
  BY <1>1, <1>2 DEF FitsPool

\* A release gives back the places of its order and no others.
LEMMA GivesPools ==
  ASSUME PoolInv, NEW o \in Orders, Gives(o), NEW p \in Pools, NEW k \in Segs
  PROVE  /\ IsFiniteSet(Places(p, k)')
         /\ remaining'[p][k] = Capacity[p] - Cardinality(Places(p, k)')
<1>1. /\ Holders' = Holders \ {o} /\ o \in Holders
      /\ cart' = cart
  BY DEF Gives, Holders, Claimants
<1>2. PICK line : line = cart[o][p]
  OBVIOUS
<1>3. PICK old : old = Places(p, k)
  OBVIOUS
<1>4. /\ line.qty \in Nat
      /\ remaining[p][k] \in Nat /\ Capacity[p] \in Nat
      /\ IsFiniteSet(old) /\ Cardinality(old) \in Nat
      /\ remaining[p][k] = Capacity[p] - Cardinality(old)
  BY <1>2, <1>3, LineFacts, FS_CardinalityType
  DEF PoolInv, IInv, TypeOK, LedgerTypeOK, PoolLedgerExact, Units, Claimants
<1>5. remaining'[p][k] = remaining[p][k] + (IF k \in line.span THEN line.qty ELSE 0)
  BY <1>1, <1>2, HoldersFit DEF Gives, Release, PoolReleased
<1>6. CASE k \in line.span
  <2>1. PICK own : own = {o} \X (1..line.qty)
    OBVIOUS
  <2>2. IsFiniteSet(own) /\ Cardinality(own) = line.qty
    BY <1>4, <2>1, PlacesOfOne
  <2>3. own \subseteq old
    BY <1>1, <1>2, <1>3, <1>6, <2>1, PlacesOf
  <2>4. Places(p, k)' = old \ own
    BY <1>1, <1>2, <1>3, <2>1 DEF Places
  <2>5. IsFiniteSet(old \ own) /\ Cardinality(old \ own) = Cardinality(old) - line.qty
    <3>1. old \cap own = own
      BY <2>3
    <3>2. /\ IsFiniteSet(old \ own)
          /\ Cardinality(old \ own) = Cardinality(old) - Cardinality(old \cap own)
      BY <1>4, FS_Difference
    <3> QED
      BY <2>2, <3>1, <3>2
  <2> QED
    BY <1>4, <1>5, <1>6, <2>4, <2>5
<1>7. CASE k \notin line.span
  <2>1. Places(p, k)' = old
    BY <1>1, <1>2, <1>3, <1>7 DEF Places
  <2> QED
    BY <1>4, <1>5, <1>7, <2>1
<1> QED
  BY <1>6, <1>7

LEMMA StepPools == PoolInv /\ [Next]_vars => PoolInv'
<1> SUFFICES ASSUME PoolInv, [Next]_vars PROVE PoolInv'
  OBVIOUS
<1>1. Quiet \/ (\E c \in Claimants : Takes(c)) \/ (\E o \in Orders : Gives(o))
  BY StepKind DEF PoolInv, IInv
<1>2. \A p \in Pools, k \in Segs :
        /\ IsFiniteSet(Places(p, k)')
        /\ remaining'[p][k] = Capacity[p] - Cardinality(Places(p, k)')
  BY <1>1, QuietPools, TakesPools, GivesPools
<1> QED
  BY <1>2, StepIInv DEF PoolInv, PoolLedgerExact

LEMMA PoolInvariance == Spec => []PoolInv
  BY InitPools, StepPools, PTL DEF Spec

\* pool_occupancy and the orders never drift apart, for any quantities and
\* overlapping spans (claim_pool_exec and release_pool_exec, store.rs).
THEOREM PoolLedgerIsExact == Spec => []PoolLedgerExact
<1>1. PoolInv => PoolLedgerExact
  BY DEF PoolInv
<1> QED
  BY <1>1, PoolInvariance, PTL

\* No release is skipped: the rows of whoever holds something always pass the
\* guards of release_seat_exec and release_pool_exec (store.rs).
THEOREM ReleasesAlwaysApply == Spec => []ReleasesApply
<1>1. PoolInv => ReleasesApply
  BY HoldersFit DEF ReleasesApply
<1> QED
  BY <1>1, PoolInvariance, PTL

-----------------------------------------------------------------------------
(* The event stream *)

\* f is the fold of the events of s: its value at n is the status after n of them.
IsFold(f, s) ==
  f = [n \in 0..Len(s) |-> IF n = 0 THEN NoOrder ELSE Apply(f[n - 1], s[n])]

\* A set of numbers has a least one.
LEMMA LeastNumber ==
  ASSUME NEW T \in SUBSET Nat, T # {}
  PROVE  \E n \in T : \A m \in T : n <= m
<1> DEFINE R == OpToRel(<, Nat)
<1>1. IsWellFoundedOn(R, Nat)
  BY NatLessThanWellFounded
<1>2. PICK n \in T : \A m \in T : ~(<<m, n>> \in R)
  <2> HIDE DEF R
  <2> QED
    BY <1>1, WFMin
<1>3. \A m \in T : ~(m < n)
  BY <1>2 DEF OpToRel
<1> QED
  BY <1>3

\* There is no other fold: two of them would differ first at some n.
LEMMA FoldIsUnique ==
  ASSUME NEW s \in Seq(Events), NEW f, NEW g, IsFold(f, s), IsFold(g, s)
  PROVE  f[Len(s)] = g[Len(s)]
<1> DEFINE D == {n \in 0..Len(s) : f[n] # g[n]}
<1>1. Len(s) \in Nat
  OBVIOUS
<1>2. SUFFICES ASSUME D # {} PROVE FALSE
  BY <1>1
<1>3. PICK n \in D : \A m \in D : n <= m
  <2>1. D \in SUBSET Nat
    BY <1>1
  <2> HIDE DEF D
  <2> QED
    BY <1>2, <2>1, LeastNumber
<1>4. n # 0
  BY <1>1 DEF IsFold
<1>5. n - 1 \in 0..Len(s) /\ n - 1 \notin D
  BY <1>1, <1>3, <1>4
<1>6. f[n] = Apply(f[n - 1], s[n]) /\ g[n] = Apply(g[n - 1], s[n])
  BY <1>1, <1>4 DEF IsFold
<1> QED
  BY <1>3, <1>5, <1>6

\* Replay takes any fold there is.
LEMMA ReplayIsFold ==
  ASSUME NEW s \in Seq(Events), NEW f, IsFold(f, s)
  PROVE  Replay(s) = f[Len(s)]
<1>1. PICK g : g = CHOOSE h : h = [n \in 0..Len(s) |->
                                    IF n = 0 THEN NoOrder ELSE Apply(h[n - 1], s[n])]
  OBVIOUS
<1>2. IsFold(g, s)
  BY <1>1 DEF IsFold
<1>3. Replay(s) = g[Len(s)]
  BY <1>1 DEF Replay
<1> QED
  BY <1>2, <1>3, FoldIsUnique

\* The status of each order is the end of a fold of its stream.
Folded == \A o \in Orders : \E f : IsFold(f, stream[o]) /\ f[Len(stream[o])] = status[o]

\* An event more is a step of the fold.
LEMMA FoldAppends ==
  ASSUME NEW s \in Seq(Events), NEW e \in Events, NEW f, IsFold(f, s)
  PROVE  \E g : IsFold(g, Append(s, e)) /\ g[Len(s) + 1] = Apply(f[Len(s)], e)
<1> DEFINE t == Append(s, e)
           g == [n \in 0..Len(t) |-> IF n <= Len(s) THEN f[n] ELSE Apply(f[Len(s)], e)]
<1>1. /\ Len(s) \in Nat /\ Len(t) = Len(s) + 1
      /\ t[Len(s) + 1] = e /\ \A n \in 1..Len(s) : t[n] = s[n]
  OBVIOUS
<1>2. \A n \in 1..Len(s) : f[n] = Apply(f[n - 1], s[n])
  BY <1>1 DEF IsFold
<1>3. f[0] = NoOrder
  BY <1>1 DEF IsFold
<1>4. ASSUME NEW n \in 0..Len(t)
      PROVE  g[n] = IF n = 0 THEN NoOrder ELSE Apply(g[n - 1], t[n])
  <2>1. CASE n = 0
    BY <1>1, <1>3, <2>1
  <2>2. CASE n \in 1..Len(s)
    BY <1>1, <1>2, <2>2
  <2>3. CASE n = Len(s) + 1
    BY <1>1, <2>3
  <2> QED
    BY <1>1, <2>1, <2>2, <2>3
<1>5. IsFold(g, t)
  BY <1>4 DEF IsFold
<1>6. g[Len(s) + 1] = Apply(f[Len(s)], e)
  BY <1>1
<1> QED
  BY <1>5, <1>6

\* A new order's stream is folded to "locked".
LEMMA CreateFolds ==
  ASSUME NEW s, s = <<"order_created", "inventory_locked">>
  PROVE  \E f : IsFold(f, s) /\ f[Len(s)] = "locked"
<1> DEFINE f == [n \in 0..2 |-> IF n = 0 THEN NoOrder ELSE IF n = 1 THEN "draft" ELSE "locked"]
<1>1. Len(s) = 2 /\ s[1] = "order_created" /\ s[2] = "inventory_locked"
  OBVIOUS
<1>2. Apply(NoOrder, "order_created") = "draft" /\ Apply("draft", "inventory_locked") = "locked"
  BY DEF Apply, NoOrder, Provisional
<1>3. ASSUME NEW n \in 0..2
      PROVE  f[n] = IF n = 0 THEN NoOrder ELSE Apply(f[n - 1], s[n])
  BY <1>1, <1>2
<1>4. IsFold(f, s) /\ f[Len(s)] = "locked"
  BY <1>1, <1>3 DEF IsFold
<1> HIDE DEF f
<1> QED
  BY <1>4

\* Create starts a stream and a transition appends to it; nothing else does.
LEMMA StreamStep ==
  ASSUME TypeOK, [Next]_vars, NEW p \in Orders
  PROVE  \/ status'[p] = status[p] /\ stream'[p] = stream[p]
         \/ /\ stream'[p] = <<"order_created", "inventory_locked">>
            /\ status'[p] = "locked"
         \/ \E e \in Events : /\ stream'[p] = Append(stream[p], e)
                              /\ status'[p] = Apply(status[p], e)
<1> DEFINE Moves == \/ status'[p] = status[p] /\ stream'[p] = stream[p]
                    \/ /\ stream'[p] = <<"order_created", "inventory_locked">>
                       /\ status'[p] = "locked"
                    \/ \E e \in Events : /\ stream'[p] = Append(stream[p], e)
                                         /\ status'[p] = Apply(status[p], e)
<1>1. ASSUME NEW o \in Orders, NEW e \in Events, Transition(o, e)
      PROVE  Moves
  BY <1>1 DEF Transition, TypeOK
<1>2. ASSUME NEW o \in Orders, OrderStep(o)
      PROVE  Moves
  <2>1. CASE Create(o)
    BY <2>1 DEF Create, TypeOK
  <2>2. CASE ~Create(o)
    <3>1. (\E e \in Events : Transition(o, e)) \/ UNCHANGED <<status, stream>>
      BY <1>2, <2>2 DEF OrderStep, RequestPayment, PaymentCaptured, PaymentFailed,
         Cancel, IssueTickets, BoardLastTicket, AdminRefund, ExpireNext, SettleNext,
         SettleRefundFails, TtlPasses, TransitionAndRelease, Events
    <3> QED
      BY <3>1, <1>1
  <2> QED
    BY <2>1, <2>2
<1>3. (\E o \in Orders : OrderStep(o)) \/ UNCHANGED <<status, stream>>
  BY DEF Next, vars, Resolve, CreateConflict, ClaimUnit, ExpireSelect, ExpireAbort,
     SettleSelect, CancelTrip, DepartStop
<1> QED
  BY <1>2, <1>3

LEMMA InitFolded == Init => Folded
<1> SUFFICES ASSUME Init, NEW o \in Orders
             PROVE  \E f : IsFold(f, stream[o]) /\ f[Len(stream[o])] = status[o]
  BY DEF Folded
<1> DEFINE f == [n \in 0..0 |-> NoOrder]
<1>1. stream[o] = <<>> /\ status[o] = NoOrder /\ Len(<<>>) = 0
  BY DEF Init
<1>2. IsFold(f, <<>>) /\ f[0] = NoOrder
  BY <1>1 DEF IsFold
<1> HIDE DEF f
<1> QED
  BY <1>1, <1>2

LEMMA StepFolded == TypeOK /\ Folded /\ [Next]_vars => Folded'
<1> SUFFICES ASSUME TypeOK, Folded, [Next]_vars, NEW o \in Orders
             PROVE  \E f : IsFold(f, stream'[o]) /\ f[Len(stream'[o])] = status'[o]
  BY DEF Folded, IsFold
<1>1. PICK f : IsFold(f, stream[o]) /\ f[Len(stream[o])] = status[o]
  BY DEF Folded
<1>2. CASE status'[o] = status[o] /\ stream'[o] = stream[o]
  BY <1>1, <1>2
<1>3. CASE /\ stream'[o] = <<"order_created", "inventory_locked">>
           /\ status'[o] = "locked"
  BY <1>3, CreateFolds
<1>4. ASSUME NEW e \in Events,
             stream'[o] = Append(stream[o], e), status'[o] = Apply(status[o], e)
      PROVE  \E g : IsFold(g, stream'[o]) /\ g[Len(stream'[o])] = status'[o]
  <2>1. stream[o] \in Seq(Events) /\ Len(Append(stream[o], e)) = Len(stream[o]) + 1
    BY DEF TypeOK
  <2> QED
    BY <1>1, <1>4, <2>1, FoldAppends
<1> QED
  BY <1>2, <1>3, <1>4, StreamStep

\* Replaying the events of any order gives its status, however long its stream
\* (replay_status, orders/mod.rs:864).
THEOREM StreamsReplay == Spec => []StreamReplays
<1>1. TypeOK /\ Folded => StreamReplays
  <2> SUFFICES ASSUME TypeOK, Folded, NEW o \in Orders PROVE Replay(stream[o]) = status[o]
    BY DEF StreamReplays
  <2>1. stream[o] \in Seq(Events)
    BY DEF TypeOK
  <2> QED
    BY <2>1, ReplayIsFold DEF Folded
<1> QED
  BY <1>1, InitFolded, StepFolded, TypeCorrect, PTL DEF Spec

-----------------------------------------------------------------------------
(* Outcomes are final *)

LEMMA ApplyFinal ==
  ASSUME NEW s, NEW e, Legal(s, e)
  PROVE  /\ s \notin Released
         /\ s \in {"paid", "ticketed", "boarded"} => Apply(s, e) \in Holding \cup {"refunded"}
  BY DEF Apply, Legal, Illegal, Holding, Provisional, Released, NoOrder

\* A step moves an order only by an event legal in its status, or creates it.
LEMMA StatusStep ==
  ASSUME TypeOK, Undecided, [Next]_vars, NEW p \in Orders
  PROVE  \/ status'[p] = status[p]
         \/ status[p] = NoOrder
         \/ \E e : Legal(status[p], e) /\ status'[p] = Apply(status[p], e)
<1> DEFINE Moves == \/ status'[p] = status[p]
                    \/ status[p] = NoOrder
                    \/ \E e : Legal(status[p], e) /\ status'[p] = Apply(status[p], e)
<1>1. ASSUME NEW o \in Orders, NEW e, Transition(o, e)
      PROVE  Moves
  BY <1>1 DEF Transition, TypeOK
<1>2. ASSUME NEW o \in Orders, OrderStep(o)
      PROVE  Moves
  <2>1. CASE Create(o)
    BY <2>1 DEF Create, Undecided, Fresh, TypeOK, Claimants
  <2>2. CASE ~Create(o)
    <3>1. (\E e : Transition(o, e)) \/ UNCHANGED status
      BY <1>2, <2>2 DEF OrderStep, RequestPayment, PaymentCaptured, PaymentFailed,
         Cancel, IssueTickets, BoardLastTicket, AdminRefund, ExpireNext, SettleNext,
         SettleRefundFails, TtlPasses, TransitionAndRelease
    <3>2. QED BY <3>1, <1>1
  <2>3. QED BY <2>1, <2>2
<1>3. (\E o \in Orders : OrderStep(o)) \/ UNCHANGED status
  BY DEF Next, vars, Resolve, CreateConflict, ClaimUnit, ExpireSelect, ExpireAbort,
     SettleSelect, CancelTrip, DepartStop
<1>4. QED BY <1>2, <1>3

\* A paid order leaves its claims only by a refund, and what was cancelled,
\* expired or refunded stays so: the re-check of apply_event_locked under the
\* row lock makes the stale lists of the sweeper and the cascade harmless.
THEOREM OutcomesStayFinal == Spec => OutcomesAreFinal
<1>1. ASSUME IInv, [Next]_vars, NEW o \in Orders
      PROVE  /\ status[o] \in {"paid", "ticketed", "boarded"} =>
                  status'[o] \in Holding \cup {"refunded"}
             /\ status[o] \in Released => status'[o] = status[o]
  <2>1. \/ status'[o] = status[o]
        \/ status[o] = NoOrder
        \/ \E e : Legal(status[o], e) /\ status'[o] = Apply(status[o], e)
    BY <1>1, StatusStep DEF IInv
  <2>2. {"paid", "ticketed", "boarded"} \subseteq Holding
    BY DEF Holding
  <2>3. QED BY <2>1, <2>2, ApplyFinal, ReleasedNotHolding
<1>2. IInv /\ [Next]_vars =>
        [\A o \in Orders :
            /\ status[o] \in {"paid", "ticketed", "boarded"} =>
                 status'[o] \in Holding \cup {"refunded"}
            /\ status[o] \in Released => status'[o] = status[o]]_vars
  BY <1>1
<1>3. QED BY <1>2, Invariance, PTL DEF Spec, OutcomesAreFinal

-----------------------------------------------------------------------------
(* Orders implements Booking *)

Cells == Seats \X Segs

TakenBar == {x \in Cells : x[2] \in mask[x[1]]}
BagBar   == [c \in Claimants |-> SeatCells(c)]
PhaseBar == [c \in Claimants |-> Phase(c)]

LEMMA InitBooking == Init => B!Init
<1> SUFFICES ASSUME Init PROVE B!Init
  OBVIOUS
<1>1. TakenBar = {}
  BY DEF Init, LedgerInit, TakenBar, Cells
<1>2. ASSUME NEW c \in Claimants
      PROVE  SeatCells(c) = {} /\ Phase(c) = "new"
  BY <1>2, ReleasedNotHolding
  DEF Init, SeatCells, Phase, Holder, Over, NoCart, NoLine, Claimants, Units
<1>3. QED
  BY <1>1, <1>2 DEF B!Init, TakenBar, Cells

LEMMA QuietBooking ==
  ASSUME Quiet
  PROVE  UNCHANGED B!bvars
<1>1. \A c \in Claimants : SeatCells(c)' = SeatCells(c) /\ Phase(c)' = Phase(c)
  BY DEF Quiet, SeatCells, Phase
<1>2. TakenBar' = TakenBar
  BY DEF Quiet, TakenBar
<1>3. QED
  BY <1>1, <1>2 DEF B!bvars, TakenBar, Cells

LEMMA TakesBooking ==
  ASSUME IInv, NEW c \in Claimants, Takes(c)
  PROVE  B!Take(c)
<1> DEFINE new == {x \in Cells : x[2] \in resolving[c][x[1]].span}
<1>1. \A d \in Claimants : SeatCells(d)' = IF d = c THEN new ELSE SeatCells(d)
  BY DEF Takes, SeatCells, Cells, IInv, TypeOK
<1>2. \A d \in Claimants : Phase(d)' = IF d = c THEN "held" ELSE Phase(d)
  BY DEF Takes, Phase
<1>3. Phase(c) = "new"
  BY DEF Takes, Phase
<1>4. TakenBar' = TakenBar \cup new /\ new \cap TakenBar = {}
  BY DEF Takes, Claim, SeatClaimed, CanClaim, CanClaimSeat, TakenBar, Cells
<1>5. BagBar' = [BagBar EXCEPT ![c] = new]
  BY <1>1 DEF BagBar
<1>6. PhaseBar' = [PhaseBar EXCEPT ![c] = "held"]
  BY <1>2 DEF PhaseBar
<1>7. PhaseBar[c] = "new"
  BY <1>3 DEF PhaseBar
<1>8. new \in SUBSET Cells
  OBVIOUS
<1>9. QED
  BY <1>4, <1>5, <1>6, <1>7, <1>8 DEF B!Take, TakenBar, BagBar, PhaseBar, Cells

LEMMA GivesBooking ==
  ASSUME IInv, NEW o \in Orders, Gives(o)
  PROVE  B!GiveBack(o)
<1>1. o \in Claimants /\ o \notin Claims
  BY DEF Claimants
<1>2. BagBar' = BagBar
  BY DEF Gives, BagBar, SeatCells
<1>3. \A d \in Claimants : Phase(d)' = IF d = o THEN "over" ELSE Phase(d)
  BY <1>1 DEF Gives, Phase
<1>4. PhaseBar' = [PhaseBar EXCEPT ![o] = "over"] /\ PhaseBar[o] = "held"
  BY <1>1, <1>3 DEF PhaseBar, Gives, Phase
<1>5. ASSUME NEW s \in Seats
      PROVE  mask'[s] = mask[s] \ cart[o][s].span
  BY <1>1 DEF Gives, Release, SeatReleased, OwnsSeat, IInv, SeatLedgerExact, Holders
<1>6. TakenBar' = TakenBar \ BagBar[o]
  BY <1>1, <1>5 DEF TakenBar, BagBar, SeatCells, Cells
<1>7. QED
  BY <1>1, <1>2, <1>4, <1>6 DEF B!GiveBack, TakenBar, BagBar, PhaseBar, Cells

\* Whatever the handlers, the sweeper and the cascade do, callers see bookings
\* that take all their seat segments or none, and give all of them back once.
THEOREM Refinement == Spec => ImplementsBooking
<1>1. IInv /\ [Next]_vars => [B!Next]_(B!bvars)
  <2> SUFFICES ASSUME IInv, [Next]_vars PROVE [B!Next]_(B!bvars)
    OBVIOUS
  <2>1. Quiet \/ (\E c \in Claimants : Takes(c)) \/ (\E o \in Orders : Gives(o))
    BY StepKind DEF IInv
  <2>2. CASE Quiet
    BY <2>2, QuietBooking
  <2>3. CASE \E c \in Claimants : Takes(c)
    BY <2>3, TakesBooking DEF B!Next
  <2>4. CASE \E o \in Orders : Gives(o)
    BY <2>4, GivesBooking DEF B!Next, Claimants
  <2>5. QED BY <2>1, <2>2, <2>3, <2>4
<1>2. QED
  BY <1>1, InitBooking, Invariance, PTL DEF Spec, ImplementsBooking, B!Spec
=============================================================================
