------------------------------ MODULE Payments ------------------------------
(***************************************************************************)
(* Money: one order, its payment intents at the provider and the handlers   *)
(* that move both.  A handler calls the provider and the database in turn,  *)
(* and what it read before a call may be stale after it:                    *)
(*   request_payment    creates the intent, then records it;                *)
(*   payment_webhook    looks the order up by intent, then applies;         *)
(*   refund_order       reads the intent, refunds it, then refunds the order;*)
(*   settle_cancelled_trips does the same for a row it selected as paid.    *)
(* Notifications of the provider are delivered at least once, in any order. *)
(*                                                                         *)
(* Each provider call may be configured with an idempotency_header or not   *)
(* (http.rs:113).  With it, asking again for an order returns the same      *)
(* intent, and refunding again succeeds; without it every request makes an  *)
(* intent, and the provider rejects the second refund of an intent.         *)
(***************************************************************************)
EXTENDS OrderLifecycle, FiniteSets

CONSTANTS Intents,            \* intents the provider may create for the order
          IntentKeyed,        \* create_intent has an idempotency_header
          RefundKeyed,        \* refund has one
          Requests,           \* POST /orders/{id}/payment calls
          Webhooks,           \* concurrent webhook deliveries
          Refunds,            \* admin refund calls
          Cascade,            \* settle_cancelled_trips
          MaxDeclines         \* bound: declined attempts of an intent

NoIntent == "no intent"

ASSUME PaymentsAssumption ==
  /\ NoIntent \notin Intents /\ "done" \notin Intents
  /\ IntentKeyed \in BOOLEAN /\ RefundKeyed \in BOOLEAN
  /\ Cascade \notin Refunds
  /\ MaxDeclines \in Nat

Notes    == [intent : Intents, kind : {"captured", "failed"}, n : 1..MaxDeclines + 1]
None     == "none"
Refunders == Refunds \cup {Cascade}
Progress == [step : {"idle", "read", "paid back", "done"}, intent : Intents \cup {NoIntent}]
Idle     == [step |-> "idle", intent |-> NoIntent]

VARIABLES status,    \* orders.status
          intent,    \* orders.payment_intent_id
          cancelled, \* the trip was cancelled
          money,     \* intents at the provider
          sent,      \* notifications the provider has sent (and sends again)
          applied,   \* history: how often each notification moved the order
          request,   \* per request: the intent it was given
          hook,      \* per delivery: the notification whose order is found
          refund     \* per refunder: how far it is, and the intent it read

handlers == <<request, hook, refund>>
provider == <<money, sent>>
vars     == <<status, intent, cancelled, provider, applied, handlers>>

TypeOK ==
  /\ status \in Statuses
  /\ intent \in Intents \cup {NoIntent}
  /\ cancelled \in BOOLEAN
  /\ money \in [Intents -> {None, "open", "captured", "refunded"}]
  /\ sent \subseteq Notes
  /\ applied \in [Notes -> Nat]
  /\ request \in [Requests -> Intents \cup {NoIntent, "done"}]
  /\ hook \in [Webhooks -> {{}} \cup {{n} : n \in sent}]
  /\ refund \in [Refunders -> Progress]
  /\ status \in {"pending_payment", "paid", "ticketed", "boarded", "refunded"}
        => intent # NoIntent

Init ==
  /\ status = "locked"
  /\ intent = NoIntent
  /\ cancelled = FALSE
  /\ money = [i \in Intents |-> None]
  /\ sent = {}
  /\ applied = [n \in Notes |-> 0]
  /\ request = [r \in Requests |-> NoIntent]
  /\ hook = [w \in Webhooks |-> {}]
  /\ refund = [a \in Refunders |-> Idle]

Transition(e) == Legal(status, e) /\ status' = Apply(status, e)

-----------------------------------------------------------------------------
(* The provider *)

Created == {i \in Intents : money[i] # None}

\* What create_intent answers: the order's intent again, or a new one.
IntentFor(i) ==
  IF IntentKeyed /\ Created # {} THEN i \in Created ELSE i \notin Created

\* The customer is declined, any number of times, or pays; an intent stays
\* payable until then, whatever becomes of the order.
Decline(i) ==
  /\ money[i] = "open"
  /\ \E n \in 1..MaxDeclines :
       /\ [intent |-> i, kind |-> "failed", n |-> n] \notin sent
       /\ sent' = sent \cup {[intent |-> i, kind |-> "failed", n |-> n]}
  /\ UNCHANGED <<status, intent, cancelled, money, applied, handlers>>

Capture(i) ==
  /\ money[i] = "open"
  /\ money' = [money EXCEPT ![i] = "captured"]
  /\ sent' = sent \cup {[intent |-> i, kind |-> "captured", n |-> 1]}
  /\ UNCHANGED <<status, intent, cancelled, applied, handlers>>

RefundAccepted(i) ==
  money[i] = "captured" \/ (RefundKeyed /\ money[i] = "refunded")

-----------------------------------------------------------------------------
(* POST /orders/{id}/payment *)

CreateIntent(r) ==
  /\ request[r] = NoIntent
  /\ \E i \in Intents :
       /\ IntentFor(i)
       /\ money' = [money EXCEPT ![i] = IF @ = None THEN "open" ELSE @]
       /\ request' = [request EXCEPT ![r] = i]
  /\ UNCHANGED <<status, intent, cancelled, sent, applied, hook, refund>>

\* OrderStore::request_payment; illegal by now means 409 and an orphan intent.
RequestPayment(r) ==
  /\ request[r] \in Intents
  /\ request' = [request EXCEPT ![r] = "done"]
  /\ IF Legal(status, "payment_requested")
     THEN Transition("payment_requested") /\ intent' = request[r]
     ELSE UNCHANGED <<status, intent>>
  /\ UNCHANGED <<cancelled, provider, applied, hook, refund>>

-----------------------------------------------------------------------------
(* POST /payments/webhook *)

\* apply_payment_result's SELECT; an intent of no order is a 404 and is sent
\* again later.
FindOrder(w) ==
  /\ hook[w] = {}
  /\ \E n \in sent : n.intent = intent /\ hook' = [hook EXCEPT ![w] = {n}]
  /\ UNCHANGED <<status, intent, cancelled, provider, applied, request, refund>>

EventOfAny(n) == "payment_captured"          \* mutant: every callback taken for a capture

EventOf(n) == IF n.kind = "captured" THEN "payment_captured" ELSE "payment_failed"

ApplyResultTwice(w) ==                       \* mutant: legality of a capture not checked
  \E n \in hook[w] :
  LET fits == n.kind = "captured" \/ Legal(status, EventOf(n))
  IN  /\ status' = IF ~fits THEN status
                   ELSE IF n.kind = "captured" THEN "paid" ELSE Apply(status, EventOf(n))
      /\ applied' = IF fits THEN [applied EXCEPT ![n] = @ + 1] ELSE applied
      /\ hook' = [hook EXCEPT ![w] = {}]
      /\ UNCHANGED <<intent, cancelled, provider, request, refund>>

\* Its transaction on the order found before.
ApplyResult(w) ==
  \E n \in hook[w] :
    /\ IF Legal(status, EventOf(n))
       THEN Transition(EventOf(n)) /\ applied' = [applied EXCEPT ![n] = @ + 1]
       ELSE UNCHANGED <<status, applied>>
    /\ hook' = [hook EXCEPT ![w] = {}]
    /\ UNCHANGED <<intent, cancelled, provider, request, refund>>

-----------------------------------------------------------------------------
(* The order's other moves: module Orders and module Boarding *)

Elsewhere ==
  /\ \E e \in {"order_cancelled", "order_expired", "ticket_issued", "passenger_boarded"} :
       Transition(e)
  /\ UNCHANGED <<intent, cancelled, provider, applied, handlers>>

CancelTrip ==
  /\ ~cancelled
  /\ cancelled' = TRUE
  /\ UNCHANGED <<status, intent, provider, applied, handlers>>

-----------------------------------------------------------------------------
(* Refunds: money first, then the order *)

\* refund_order reads the order's intent, whatever state the order is in.
AdminReads(a) ==
  /\ refund[a] = Idle
  /\ refund' = [refund EXCEPT ![a] = [step |-> "read", intent |-> intent]]
  /\ UNCHANGED <<status, intent, cancelled, provider, applied, request, hook>>

\* The cascade reads the rows of the cancelled trip that are paid for.
Unsettled == cancelled /\ status \in {"paid", "ticketed"}

CascadeReads ==
  /\ Unsettled
  /\ refund[Cascade] = Idle
  /\ refund' = [refund EXCEPT ![Cascade] = [step |-> "read", intent |-> intent]]
  /\ UNCHANGED <<status, intent, cancelled, provider, applied, request, hook>>

\* An admin call answers once; the cascade comes round again.
Finished(a) == IF a = Cascade THEN Idle ELSE [step |-> "done", intent |-> NoIntent]

\* provider.refund; an order without an intent needs none.
PayBack(a) ==
  LET i == refund[a].intent
  IN  /\ refund[a].step = "read"
      /\ IF i = NoIntent THEN UNCHANGED money
         ELSE RefundAccepted(i) /\ money' = [money EXCEPT ![i] = "refunded"]
      /\ refund' = [refund EXCEPT ![a].step = "paid back"]
      /\ UNCHANGED <<status, intent, cancelled, sent, applied, request, hook>>

RefundOrderFirst(a) ==                       \* mutant: the order is refunded before the money
  /\ refund[a].step \in {"read", "paid back"}
  /\ refund' = [refund EXCEPT ![a] = Finished(a)]
  /\ IF Legal(status, "order_refunded") THEN Transition("order_refunded")
     ELSE UNCHANGED status
  /\ UNCHANGED <<intent, cancelled, provider, applied, request, hook>>

\* OrderStore::refund.
RefundOrder(a) ==
  /\ refund[a].step = "paid back"
  /\ refund' = [refund EXCEPT ![a] = Finished(a)]
  /\ IF Legal(status, "order_refunded") THEN Transition("order_refunded")
     ELSE UNCHANGED status
  /\ UNCHANGED <<intent, cancelled, provider, applied, request, hook>>

GiveUpForGood(a) ==                          \* mutant: a failed refund is not retried
  /\ refund[a].step \in {"read", "paid back"}
  /\ refund' = [refund EXCEPT ![a].step = "done"]
  /\ UNCHANGED <<status, intent, cancelled, provider, applied, request, hook>>

\* The provider is unavailable or rejects, or the process dies between calls.
GiveUp(a) ==
  /\ refund[a].step \in {"read", "paid back"}
  /\ refund' = [refund EXCEPT ![a] = Finished(a)]
  /\ UNCHANGED <<status, intent, cancelled, provider, applied, request, hook>>

Next ==
  \/ \E i \in Intents : Decline(i) \/ Capture(i)
  \/ \E r \in Requests : CreateIntent(r) \/ RequestPayment(r)
  \/ \E w \in Webhooks : FindOrder(w) \/ ApplyResult(w)
  \/ \E a \in Refunds : AdminReads(a)
  \/ \E a \in Refunders : PayBack(a) \/ RefundOrder(a) \/ GiveUp(a)
  \/ CascadeReads \/ CancelTrip \/ Elsewhere

Spec == Init /\ [][Next]_vars

\* The cascade is driven by the 30 s task; the provider and the process are not
\* down whenever it comes round.
FairSpec ==
  /\ Spec
  /\ WF_vars(CascadeReads)
  /\ SF_vars(PayBack(Cascade)) /\ SF_vars(RefundOrder(Cascade)) /\ WF_vars(GiveUp(Cascade))

-----------------------------------------------------------------------------
(* Properties *)

\* An order is paid for once: one capture moves it, whatever is delivered twice,
\* late or out of order.
PaidOnce ==
  LET captures == {n \in Notes : n.kind = "captured" /\ applied[n] > 0}
  IN  Cardinality(captures) <= 1 /\ \A n \in captures : applied[n] = 1

\* The intent an order names is the one that was paid: a refund that follows it
\* reaches the money.
PaidIntentIsCaptured ==
  status \in {"paid", "ticketed", "boarded"} => money[intent] \in {"captured", "refunded"}

\* Money first, inventory second (admin.rs:843): an order is refunded only after
\* the provider gave back what was paid for it.
MoneyBeforeInventory == status = "refunded" => money[intent] = "refunded"

\* The cascade keeps that order for its own refunds, whatever webhooks, retries
\* and support refunds run between its read, the provider call and the refund.
CascadePaysFirst ==
  [][(status' = "refunded" /\ status # "refunded" /\ refund'[Cascade] # refund[Cascade])
       => money[intent] = "refunded"]_vars

\* Duplicate and out-of-order webhooks are acknowledged, never re-applied
\* (README.md:270).
NeverReapplied == \A n \in Notes : applied[n] <= 1

\* A paid order of a cancelled trip is settled in the end: the cascade "is
\* resumable and idempotent, and a batch that fails part-way is simply retried
\* on the next pass" (orders/mod.rs:647).
CancelledTripSettles == Unsettled ~> ~Unsettled
=============================================================================
