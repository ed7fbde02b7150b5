--------------------------- MODULE PaymentsProofs ---------------------------
(***************************************************************************)
(* Proofs about Payments for any intents, handlers and provider settings.   *)
(*                                                                         *)
(* Once says that a capture that moved the order left it paid for, a status  *)
(* no event leads back from; Cascading that the intent the cascade read is    *)
(* still the order's; Keyed what an idempotency_header on create_intent        *)
(* gives: one intent, which every request and notification names.             *)
(***************************************************************************)
EXTENDS Payments, FiniteSetTheorems, TLAPS

PaidFor  == {"paid", "ticketed", "boarded", "refunded"}
Captures == {n \in Notes : n.kind = "captured"}

Once == PaidOnce /\ \A n \in Captures : applied[n] > 0 => status \in PaidFor

Cascading ==
  LET c == refund[Cascade]
  IN  /\ c.step # "idle" => status \in PaidFor /\ c.intent = intent
      /\ c.step = "paid back" => money[intent] = "refunded"

Paying ==
  \A n \in sent : n.kind = "captured" => money[n.intent] \in {"captured", "refunded"}

Keyed ==
  /\ \A i, j \in Created : i = j
  /\ \A r \in Requests : request[r] \in Intents => request[r] \in Created
  /\ intent # NoIntent => intent \in Created
  /\ \A n \in sent : n.intent \in Created
  /\ status \in PaidFor => money[intent] \in {"captured", "refunded"}

PaymentsInv == TypeOK /\ Once /\ Cascading /\ Paying

-----------------------------------------------------------------------------
\* Where a transition leads: only a capture leads into PaidFor, only a request
\* to the provider, and nothing but the trip's completion leads out of PaidFor.
LEMMA Moves ==
  ASSUME status \in Statuses, NEW e \in Events \ {"trip_completed"}, Transition(e)
  PROVE  /\ status' \in Statuses
         /\ status \in PaidFor => status' \in PaidFor
         /\ status \notin PaidFor /\ status' \in PaidFor =>
              e = "payment_captured" /\ status = "pending_payment"
         /\ status' = "pending_payment" => e = "payment_requested"
         /\ e = "order_refunded" <=> (status' = "refunded" /\ status # "refunded")
BY DEF Transition, Legal, Apply, Illegal, Statuses, Events, Provisional, NoOrder, PaidFor

\* What the provider, the requests and the notifications never change.
LEMMA Unmoved ==
  ASSUME Once, Cascading,
         UNCHANGED <<status, intent, applied, refund>>,
         \A i \in Intents : money[i] = "refunded" => money'[i] = "refunded",
         TypeOK
  PROVE  Once' /\ Cascading'
<1>1. Once'
  BY DEF Once, PaidOnce
<1>2. refund[Cascade].step = "paid back" => intent \in Intents
  BY DEF Cascading, TypeOK, PaidFor, Statuses
<1> QED
  BY <1>1, <1>2 DEF Cascading

\* No intent, no notification and no handler at first.
LEMMA InvInit == Init => PaymentsInv
<1> SUFFICES ASSUME Init PROVE PaymentsInv
  OBVIOUS
<1>1. TypeOK
  BY PaymentsAssumption
     DEF Init, TypeOK, Statuses, None, Idle, Progress, NoIntent, Refunders
<1>2. {n \in Notes : n.kind = "captured" /\ applied[n] > 0} = {}
  BY DEF Init
<1>3. Once
  BY <1>2, FS_EmptySet DEF Once, PaidOnce, Captures, Init
<1>4. Cascading /\ Paying
  BY DEF Init, Idle, Refunders, Cascading, Paying
<1> QED
  BY <1>1, <1>3, <1>4 DEF PaymentsInv

-----------------------------------------------------------------------------
\* The customer's side: declines, a capture, and intents created on request.
LEMMA ProviderStep ==
  ASSUME PaymentsInv,
         \/ \E i \in Intents : Decline(i) \/ Capture(i)
         \/ \E r \in Requests : CreateIntent(r)
  PROVE  PaymentsInv'
<1>1. UNCHANGED <<status, intent, cancelled, applied, hook, refund>>
  BY DEF Decline, Capture, CreateIntent, handlers
<1>2. /\ money' \in [Intents -> {None, "open", "captured", "refunded"}]
      /\ \A i \in Intents : money[i] \in {"captured", "refunded"} => money'[i] = money[i]
      /\ sent \subseteq sent' /\ sent' \subseteq Notes
      /\ \A n \in sent' \ sent : n.kind = "captured" => money'[n.intent] = "captured"
      /\ request' \in [Requests -> Intents \cup {NoIntent, "done"}]
  <2>1. ASSUME NEW i \in Intents, Decline(i)
        PROVE  /\ UNCHANGED <<money, request>> /\ sent \subseteq sent' /\ sent' \subseteq Notes
               /\ \A n \in sent' \ sent : n.kind = "failed"
    <3>1. PICK n \in 1..MaxDeclines : sent' = sent \cup {[intent |-> i, kind |-> "failed", n |-> n]}
      BY <2>1 DEF Decline
    <3>2. n \in 1..MaxDeclines + 1
      BY PaymentsAssumption
    <3>3. [intent |-> i, kind |-> "failed", n |-> n] \in Notes
      BY <3>2 DEF Notes
    <3> QED
      BY <2>1, <3>1, <3>3 DEF Decline, handlers, PaymentsInv, TypeOK
  <2>2. ASSUME NEW i \in Intents, Capture(i)
        PROVE  /\ money[i] = "open" /\ money' = [money EXCEPT ![i] = "captured"]
               /\ request' = request /\ sent \subseteq sent' /\ sent' \subseteq Notes
               /\ \A n \in sent' \ sent : n.intent = i
    <3>1. 1 \in 1..MaxDeclines + 1
      BY PaymentsAssumption
    <3>2. [intent |-> i, kind |-> "captured", n |-> 1] \in Notes
      BY <3>1 DEF Notes
    <3> QED
      BY <2>2, <3>2 DEF Capture, handlers, PaymentsInv, TypeOK
  <2>3. ASSUME NEW r \in Requests, CreateIntent(r)
        PROVE  \E i \in Intents : /\ money' = [money EXCEPT ![i] = IF @ = None THEN "open" ELSE @]
                                  /\ request' = [request EXCEPT ![r] = i]
                                  /\ sent' = sent
    BY <2>3 DEF CreateIntent
  <2>4. /\ money \in [Intents -> {None, "open", "captured", "refunded"}]
        /\ sent \subseteq Notes
        /\ request \in [Requests -> Intents \cup {NoIntent, "done"}]
    BY DEF PaymentsInv, TypeOK
  <2>5. CASE \E i \in Intents : Decline(i)
    BY <2>1, <2>4, <2>5
  <2>6. CASE \E i \in Intents : Capture(i)
    BY <2>2, <2>4, <2>6
  <2>7. CASE \E r \in Requests : CreateIntent(r)
    BY <2>3, <2>4, <2>7 DEF None
  <2> QED
    BY <2>5, <2>6, <2>7
<1>3. TypeOK'
  BY <1>1, <1>2 DEF PaymentsInv, TypeOK
<1>4. Once' /\ Cascading'
  BY <1>1, <1>2, Unmoved DEF PaymentsInv
<1>5. Paying'
  <2>1. \A n \in sent : n.intent \in Intents
    BY DEF PaymentsInv, TypeOK, Notes
  <2> QED
    BY <1>2, <2>1 DEF PaymentsInv, Paying
<1> QED
  BY <1>3, <1>4, <1>5 DEF PaymentsInv

\* The intent is recorded while the order is not paid for.
LEMMA RequestPaymentStep ==
  ASSUME PaymentsInv, NEW r \in Requests, RequestPayment(r)
  PROVE  PaymentsInv'
<1>1. /\ request[r] \in Intents /\ request' = [request EXCEPT ![r] = "done"]
      /\ UNCHANGED <<cancelled, money, sent, applied, hook, refund>>
      /\ \/ UNCHANGED <<status, intent>>
         \/ status = "locked" /\ status' = "pending_payment" /\ intent' = request[r]
  BY DEF RequestPayment, provider, Transition, Legal, Apply, Illegal, Provisional, NoOrder
<1>2. TypeOK'
  BY <1>1, PaymentsAssumption DEF PaymentsInv, TypeOK, Statuses
<1>3. Once' /\ Cascading'
  <2>1. CASE UNCHANGED <<status, intent>>
    BY <1>1, <2>1, Unmoved DEF PaymentsInv
  <2>2. CASE status = "locked" /\ status' = "pending_payment"
    BY <1>1, <2>2 DEF PaymentsInv, Once, PaidOnce, PaidFor, Cascading
  <2> QED
    BY <1>1, <2>1, <2>2
<1>4. Paying'
  BY <1>1 DEF PaymentsInv, Paying
<1> QED
  BY <1>2, <1>3, <1>4 DEF PaymentsInv

-----------------------------------------------------------------------------
(* Webhooks *)

\* Looking the order up changes nothing of it.
LEMMA FindOrderStep ==
  ASSUME PaymentsInv, NEW w \in Webhooks, FindOrder(w)
  PROVE  PaymentsInv'
<1>1. PICK n \in sent : hook' = [hook EXCEPT ![w] = {n}]
  BY DEF FindOrder
<1>2. UNCHANGED <<status, intent, cancelled, money, sent, applied, request, refund>>
  BY DEF FindOrder, provider
<1>3. TypeOK'
  BY <1>1, <1>2 DEF PaymentsInv, TypeOK
<1>4. Once' /\ Cascading'
  BY <1>2, Unmoved DEF PaymentsInv
<1>5. Paying'
  BY <1>2 DEF PaymentsInv, Paying
<1> QED
  BY <1>3, <1>4, <1>5 DEF PaymentsInv

\* A capture moves an order that waits for one, and it is the first to do so.
LEMMA ApplyResultStep ==
  ASSUME PaymentsInv, NEW w \in Webhooks, ApplyResult(w)
  PROVE  PaymentsInv'
<1>1. PICK n \in hook[w] :
        /\ IF Legal(status, EventOf(n))
           THEN Transition(EventOf(n)) /\ applied' = [applied EXCEPT ![n] = @ + 1]
           ELSE UNCHANGED <<status, applied>>
        /\ hook' = [hook EXCEPT ![w] = {}]
        /\ UNCHANGED <<intent, cancelled, money, sent, request, refund>>
  BY DEF ApplyResult, provider
<1>2. n \in sent /\ n \in Notes
  BY DEF PaymentsInv, TypeOK
<1>3. /\ EventOf(n) \in Events \ {"trip_completed", "payment_requested", "order_refunded"}
      /\ EventOf(n) = "payment_captured" <=> n.kind = "captured"
  BY DEF EventOf, Events
<1>4. Paying'
  BY <1>1 DEF PaymentsInv, Paying
<1>5. CASE ~ Legal(status, EventOf(n))
  <2>1. UNCHANGED <<status, intent, cancelled, money, sent, applied, request, refund>>
    BY <1>1, <1>5
  <2>2. TypeOK'
    BY <1>1, <2>1 DEF PaymentsInv, TypeOK
  <2> QED
    BY <1>4, <2>1, <2>2, Unmoved DEF PaymentsInv
<1>6. CASE Legal(status, EventOf(n))
  <2>1. Transition(EventOf(n)) /\ applied' = [applied EXCEPT ![n] = @ + 1]
    BY <1>1, <1>6
  <2>2. status \in Statuses /\ applied \in [Notes -> Nat]
    BY DEF PaymentsInv, TypeOK
  <2>3. /\ status' \in Statuses
        /\ status \in PaidFor => status' \in PaidFor
        /\ status \notin PaidFor /\ status' \in PaidFor => n.kind = "captured"
        /\ status' # "pending_payment"
    BY <1>3, <2>1, <2>2, Moves
  <2>4. /\ applied' \in [Notes -> Nat] /\ applied'[n] = applied[n] + 1
        /\ \A m \in Notes \ {n} : applied'[m] = applied[m]
    BY <1>2, <2>1, <2>2
  <2>5. n.kind = "captured" => status = "pending_payment" /\ status' = "paid"
    BY <1>3, <2>1 DEF Transition, Legal, Apply, Illegal, Provisional, NoOrder
  <2>6. TypeOK'
    <3>1. status' \in PaidFor => intent # NoIntent
      BY <2>3, <2>5 DEF PaymentsInv, TypeOK, PaidFor
    <3> QED
      BY <1>1, <2>3, <2>4, <3>1 DEF PaymentsInv, TypeOK, PaidFor
  <2>7. Cascading'
    BY <1>1, <2>3 DEF PaymentsInv, Cascading
  <2>8. Once'
    <3> DEFINE Counted == {m \in Notes : m.kind = "captured" /\ applied[m] > 0}
    <3>1. CASE n.kind # "captured"
      <4>1. Counted' = Counted /\ \A m \in Counted : applied'[m] = applied[m]
        BY <2>4, <3>1
      <4> QED
        BY <2>3, <4>1 DEF PaymentsInv, Once, PaidOnce, Captures
    <3>2. CASE n.kind = "captured"
      <4>1. \A m \in Captures : applied[m] = 0
        BY <2>2, <2>5, <3>2 DEF PaymentsInv, Once, Captures, PaidFor
      <4>2. Counted' = {n} /\ applied'[n] = 1
        BY <1>2, <2>4, <3>2, <4>1 DEF Captures
      <4>3. Cardinality({n}) = 1
        BY FS_Singleton
      <4>4. status' \in PaidFor
        BY <2>5, <3>2 DEF PaidFor
      <4> QED
        BY <4>2, <4>3, <4>4 DEF Once, PaidOnce, Captures
    <3> QED
      BY <3>1, <3>2
  <2> QED
    BY <1>4, <2>6, <2>7, <2>8 DEF PaymentsInv
<1> QED
  BY <1>5, <1>6
-----------------------------------------------------------------------------
(* The order's other moves and refunds *)

\* Cancelling, expiring, ticketing, boarding and cancelling the trip.
LEMMA ElsewhereStep ==
  ASSUME PaymentsInv, Elsewhere \/ CancelTrip
  PROVE  PaymentsInv'
<1>1. UNCHANGED <<intent, money, sent, applied, request, hook, refund>>
  BY DEF Elsewhere, CancelTrip, provider, handlers
<1>2. /\ status' \in Statuses
      /\ status \in PaidFor => status' \in PaidFor
      /\ status' \in PaidFor => status \in PaidFor
      /\ status' = "pending_payment" => status = "pending_payment"
      /\ cancelled' \in BOOLEAN
  <2>1. status \in Statuses /\ cancelled \in BOOLEAN
    BY DEF PaymentsInv, TypeOK
  <2>2. CASE CancelTrip
    BY <2>1, <2>2 DEF CancelTrip
  <2>3. CASE Elsewhere
    <3>1. PICK e \in {"order_cancelled", "order_expired", "ticket_issued", "passenger_boarded"} :
            Transition(e)
      BY <2>3 DEF Elsewhere
    <3>2. e \in Events \ {"trip_completed", "payment_captured", "payment_requested"}
      BY DEF Events
    <3> QED
      BY <2>1, <2>3, <3>1, <3>2, Moves DEF Elsewhere
  <2> QED
    BY <2>2, <2>3
<1>3. TypeOK'
  BY <1>1, <1>2 DEF PaymentsInv, TypeOK, PaidFor
<1>4. Once'
  BY <1>1, <1>2 DEF PaymentsInv, Once, PaidOnce
<1>5. Cascading' /\ Paying'
  BY <1>1, <1>2 DEF PaymentsInv, Cascading, Paying
<1> QED
  BY <1>3, <1>4, <1>5 DEF PaymentsInv

\* The cascade reads the intent of an order that is paid for.
LEMMA ReadsStep ==
  ASSUME PaymentsInv, CascadeReads \/ \E a \in Refunds : AdminReads(a)
  PROVE  PaymentsInv'
<1> DEFINE new == [step |-> "read", intent |-> intent]
<1>1. UNCHANGED <<status, intent, cancelled, money, sent, applied, request, hook>>
  BY DEF CascadeReads, AdminReads, provider
<1>2. new \in Progress /\ new.step = "read" /\ new.intent = intent
  BY DEF PaymentsInv, TypeOK, Progress
<1> HIDE DEF new
<1>3. \/ \E a \in Refunds : refund' = [refund EXCEPT ![a] = new]
      \/ refund' = [refund EXCEPT ![Cascade] = new] /\ status \in PaidFor
  BY DEF CascadeReads, AdminReads, Unsettled, PaidFor, new
<1>4. refund' \in [Refunders -> Progress]
  BY <1>2, <1>3 DEF PaymentsInv, TypeOK
<1>5. TypeOK'
  BY <1>1, <1>4 DEF PaymentsInv, TypeOK
<1>6. Once' /\ Paying'
  BY <1>1 DEF PaymentsInv, Once, PaidOnce, Paying
<1>7. Cascading'
  BY <1>1, <1>2, <1>3, PaymentsAssumption DEF PaymentsInv, TypeOK, Refunders, Cascading
<1> QED
  BY <1>5, <1>6, <1>7 DEF PaymentsInv

\* The provider gives back what the order's intent captured.
LEMMA PayBackStep ==
  ASSUME PaymentsInv, NEW a \in Refunders, PayBack(a)
  PROVE  PaymentsInv'
<1> DEFINE i   == refund[a].intent
           new == [refund[a] EXCEPT !.step = "paid back"]
<1>1. /\ refund[a].step = "read"
      /\ refund' = [refund EXCEPT ![a] = new]
      /\ UNCHANGED <<status, intent, cancelled, sent, applied, request, hook>>
      /\ \/ i = NoIntent /\ UNCHANGED money
         \/ i # NoIntent /\ money' = [money EXCEPT ![i] = "refunded"]
  BY DEF PayBack, PaymentsInv, TypeOK
<1>2. /\ refund[a] \in Progress /\ new \in Progress
      /\ new.step = "paid back" /\ new.intent = i /\ i \in Intents \cup {NoIntent}
  BY DEF PaymentsInv, TypeOK, Progress
<1> HIDE DEF i, new
<1>3. /\ money \in [Intents -> {None, "open", "captured", "refunded"}]
      /\ money' \in [Intents -> {None, "open", "captured", "refunded"}]
      /\ \A j \in Intents : money'[j] = money[j] \/ money'[j] = "refunded"
      /\ i # NoIntent => money'[i] = "refunded"
  BY <1>1, <1>2 DEF PaymentsInv, TypeOK
<1>4. refund' \in [Refunders -> Progress]
  BY <1>1, <1>2 DEF PaymentsInv, TypeOK
<1>5. TypeOK'
  BY <1>1, <1>3, <1>4 DEF PaymentsInv, TypeOK
<1>6. Once'
  BY <1>1 DEF PaymentsInv, Once, PaidOnce
<1>7. Paying'
  <2>1. \A n \in sent : n.intent \in Intents
    BY DEF PaymentsInv, TypeOK, Notes
  <2> QED
    BY <1>1, <1>3, <2>1 DEF PaymentsInv, Paying
<1>8. Cascading'
  <2>1. status \in PaidFor => intent \in Intents
    BY DEF PaymentsInv, TypeOK, PaidFor
  <2>2. CASE a = Cascade
    <3>1. refund'[Cascade] = new /\ status \in PaidFor /\ i = intent
      BY <1>1, <2>2 DEF PaymentsInv, TypeOK, Cascading, i
    <3> QED
      BY <1>1, <1>2, <1>3, <2>1, <3>1, PaymentsAssumption DEF Cascading
  <2>3. CASE a # Cascade
    <3>1. refund'[Cascade] = refund[Cascade]
      BY <1>1, <2>3
    <3> QED
      BY <1>1, <1>3, <2>1, <3>1 DEF PaymentsInv, Cascading
  <2> QED
    BY <2>2, <2>3
<1> QED
  BY <1>5, <1>6, <1>7, <1>8 DEF PaymentsInv

\* A refunder is done with the order, or gives it up.
LEMMA FinishStep ==
  ASSUME PaymentsInv, NEW a \in Refunders, RefundOrder(a) \/ GiveUp(a)
  PROVE  PaymentsInv'
<1>1. /\ refund' = [refund EXCEPT ![a] = Finished(a)]
      /\ UNCHANGED <<intent, cancelled, money, sent, applied, request, hook>>
      /\ UNCHANGED status \/ Transition("order_refunded")
  BY DEF RefundOrder, GiveUp, provider
<1>2. Finished(a) \in Progress /\ (a = Cascade => Finished(a).step = "idle")
  BY DEF Finished, Idle, Progress
<1>3. /\ status' \in Statuses
      /\ status \in PaidFor => status' \in PaidFor
      /\ status' \in PaidFor => status \in PaidFor
      /\ status' = "pending_payment" => status = "pending_payment"
  <2>1. status \in Statuses
    BY DEF PaymentsInv, TypeOK
  <2>2. "order_refunded" \in Events \ {"trip_completed", "payment_captured", "payment_requested"}
    BY DEF Events
  <2> QED
    BY <1>1, <2>1, <2>2, Moves
<1>4. refund' \in [Refunders -> Progress]
  BY <1>1, <1>2 DEF PaymentsInv, TypeOK
<1>5. TypeOK'
  BY <1>1, <1>3, <1>4 DEF PaymentsInv, TypeOK, PaidFor
<1>6. Once' /\ Paying'
  BY <1>1, <1>3 DEF PaymentsInv, Once, PaidOnce, Paying
<1>7. Cascading'
  <2>1. IF a = Cascade THEN refund'[Cascade].step = "idle" ELSE refund'[Cascade] = refund[Cascade]
    BY <1>1, <1>2 DEF PaymentsInv, TypeOK, Refunders
  <2> QED
    BY <1>1, <1>3, <2>1 DEF PaymentsInv, Cascading
<1> QED
  BY <1>5, <1>6, <1>7 DEF PaymentsInv

-----------------------------------------------------------------------------
\* Every step keeps the invariant.
LEMMA InvNext == PaymentsInv /\ [Next]_vars => PaymentsInv'
<1> SUFFICES ASSUME PaymentsInv, [Next]_vars PROVE PaymentsInv'
  OBVIOUS
<1>1. CASE UNCHANGED vars
  <2>1. UNCHANGED <<status, intent, cancelled, money, sent, applied, request, hook, refund>>
    BY <1>1 DEF vars, provider, handlers
  <2> QED
    BY <2>1 DEF PaymentsInv, TypeOK, Once, PaidOnce, Cascading, Paying
<1>2. CASE \/ \E i \in Intents : Decline(i) \/ Capture(i)
           \/ \E r \in Requests : CreateIntent(r)
  BY <1>2, ProviderStep
<1>3. ASSUME NEW r \in Requests, RequestPayment(r) PROVE PaymentsInv'
  BY <1>3, RequestPaymentStep
<1>4. ASSUME NEW w \in Webhooks, FindOrder(w) \/ ApplyResult(w) PROVE PaymentsInv'
  BY <1>4, FindOrderStep, ApplyResultStep
<1>5. CASE Elsewhere \/ CancelTrip
  BY <1>5, ElsewhereStep
<1>6. CASE CascadeReads \/ \E a \in Refunds : AdminReads(a)
  BY <1>6, ReadsStep
<1>7. ASSUME NEW a \in Refunders, PayBack(a) \/ RefundOrder(a) \/ GiveUp(a) PROVE PaymentsInv'
  BY <1>7, PayBackStep, FinishStep
<1> QED
  BY <1>1, <1>2, <1>3, <1>4, <1>5, <1>6, <1>7 DEF Next

\* The inductive invariant holds in every reachable state.
LEMMA Invariant == Spec => []PaymentsInv
BY InvInit, InvNext, PTL DEF Spec

\* The order, its intents and the handlers keep their types; an order that got as
\* far as the provider has an intent (orders/mod.rs:496).
THEOREM TypeCorrect == Spec => []TypeOK
<1>1. PaymentsInv => TypeOK
  BY DEF PaymentsInv
<1> QED
  BY <1>1, Invariant, PTL

\* Whatever is delivered twice, late or out of order, at most one capture moves
\* the order, and once (orders/mod.rs:538).
THEOREM OrderIsPaidOnce == Spec => []PaidOnce
<1>1. PaymentsInv => PaidOnce
  BY DEF PaymentsInv, Once
<1> QED
  BY <1>1, Invariant, PTL

\* The cascade refunds an order only after the money of the intent the order
\* names, whatever other handlers do between its three steps (orders/mod.rs:651).
THEOREM CascadeRefundsMoneyFirst == Spec => CascadePaysFirst
<1> DEFINE Kept == (status' = "refunded" /\ status # "refunded" /\ refund'[Cascade] # refund[Cascade])
                     => money[intent] = "refunded"
<1>1. PaymentsInv /\ [Next]_vars => [Kept]_vars
  <2> SUFFICES ASSUME PaymentsInv, Next, status' = "refunded", status # "refunded",
                      refund'[Cascade] # refund[Cascade]
               PROVE  money[intent] = "refunded"
    OBVIOUS
  <2>1. ASSUME NEW a \in Refunders, RefundOrder(a)
        PROVE  money[intent] = "refunded"
    <3>1. a = Cascade
      BY <2>1 DEF RefundOrder, PaymentsInv, TypeOK, Refunders
    <3> QED
      BY <2>1, <3>1 DEF RefundOrder, PaymentsInv, Cascading
  <2> QED
    BY <2>1 DEF Next, Decline, Capture, CreateIntent, RequestPayment, FindOrder, ApplyResult,
                AdminReads, CascadeReads, PayBack, GiveUp, CancelTrip, Elsewhere, handlers
<1> QED
  BY <1>1, Invariant, PTL DEF Spec, CascadePaysFirst
-----------------------------------------------------------------------------
(* With an idempotency_header on create_intent *)

\* The provider only ever moves an intent on.
LEMMA KeyedKept ==
  ASSUME PaymentsInv, Keyed,
         UNCHANGED <<intent, sent, request>>,
         status' \in PaidFor => status \in PaidFor,
         \A i \in Intents : money'[i] = money[i]
                              \/ (money[i] \in {"captured", "refunded"} /\ money'[i] = "refunded")
  PROVE  Keyed'
<1>1. Created' = Created
  BY DEF Created, None
<1>2. status \in PaidFor => intent \in Intents
  BY DEF PaymentsInv, TypeOK, PaidFor
<1> QED
  BY <1>1, <1>2 DEF Keyed

\* Every step keeps to the one intent.
LEMMA KeyedStep ==
  ASSUME IntentKeyed, PaymentsInv, Keyed, [Next]_vars
  PROVE  Keyed'
<1>1. /\ money \in [Intents -> {None, "open", "captured", "refunded"}]
      /\ request \in [Requests -> Intents \cup {NoIntent, "done"}]
      /\ status \in Statuses /\ sent \subseteq Notes
  BY DEF PaymentsInv, TypeOK
<1>2. status \in PaidFor => intent \in Intents
  BY DEF PaymentsInv, TypeOK, PaidFor
<1>3. ASSUME NEW i \in Intents, Decline(i) \/ Capture(i)
      PROVE  Keyed'
  <2>1. /\ UNCHANGED <<status, intent, request>> /\ money[i] = "open"
        /\ \A j \in Intents \ {i} : money'[j] = money[j]
        /\ money'[i] \in {"open", "captured"}
        /\ \A n \in sent' \ sent : n.intent = i
    <3>1. CASE Decline(i)
      <4>1. \A n \in sent' \ sent : n.intent = i
        BY <3>1 DEF Decline
      <4> QED
        BY <3>1, <4>1 DEF Decline, handlers
    <3>2. CASE Capture(i)
      <4>1. money' = [money EXCEPT ![i] = "captured"] /\ \A n \in sent' \ sent : n.intent = i
        BY <3>2 DEF Capture
      <4> QED
        BY <1>1, <3>2, <4>1 DEF Capture, handlers
    <3> QED
      BY <1>3, <3>1, <3>2
  <2>2. Created' = Created /\ i \in Created
    BY <2>1 DEF Created, None
  <2>3. status \in PaidFor => intent # i
    BY <2>1 DEF Keyed
  <2> QED
    BY <1>2, <2>1, <2>2, <2>3 DEF Keyed
<1>4. ASSUME NEW r \in Requests, CreateIntent(r)
      PROVE  Keyed'
  <2>1. PICK i \in Intents :
          /\ IntentFor(i)
          /\ money' = [money EXCEPT ![i] = IF @ = None THEN "open" ELSE @]
          /\ request' = [request EXCEPT ![r] = i]
          /\ UNCHANGED <<status, intent, sent>>
    BY <1>4 DEF CreateIntent
  <2>2. /\ \A j \in Created : money'[j] = money[j]
        /\ Created' = Created \cup {i}
        /\ Created # {} => i \in Created
    BY <1>1, <2>1 DEF Created, None, IntentFor
  <2>3. \A j, k \in Created' : j = k
    BY <2>2 DEF Keyed
  <2>4. \A q \in Requests : request'[q] \in Intents => request'[q] \in Created'
    BY <1>1, <2>1, <2>2 DEF Keyed
  <2>5. status \in PaidFor => intent \in Created
    BY <1>2, PaymentsAssumption DEF Keyed
  <2> QED
    BY <2>1, <2>2, <2>3, <2>4, <2>5 DEF Keyed
<1>5. ASSUME NEW r \in Requests, RequestPayment(r)
      PROVE  Keyed'
  <2>1. /\ request[r] \in Intents /\ request' = [request EXCEPT ![r] = "done"]
        /\ UNCHANGED <<money, sent>>
        /\ \/ UNCHANGED <<status, intent>>
           \/ status' = "pending_payment" /\ intent' = request[r]
    BY <1>5 DEF RequestPayment, provider, Transition, Legal, Apply, Illegal, Provisional, NoOrder
  <2>2. Created' = Created /\ request[r] \in Created
    BY <2>1 DEF Created, Keyed
  <2>3. \A q \in Requests : request'[q] \in Intents => request'[q] \in Created'
    <3>1. \A q \in Requests \ {r} : request'[q] = request[q]
      BY <1>1, <2>1
    <3>2. request'[r] = "done"
      BY <1>1, <2>1
    <3> QED
      BY <2>2, <3>1, <3>2, PaymentsAssumption DEF Keyed
  <2> QED
    BY <2>1, <2>2, <2>3 DEF Keyed, PaidFor
<1>6. ASSUME NEW w \in Webhooks, ApplyResult(w)
      PROVE  Keyed'
  <2>1. PICK n \in hook[w] :
          /\ \/ UNCHANGED status
             \/ Transition(EventOf(n))
          /\ UNCHANGED <<intent, money, sent, request>>
    BY <1>6 DEF ApplyResult, provider
  <2>2. n \in sent
    BY DEF PaymentsInv, TypeOK
  <2>3. CASE status' \in PaidFor => status \in PaidFor
    BY <2>1, <2>3, KeyedKept
  <2>4. CASE status' \in PaidFor /\ status \notin PaidFor
    <3>1. EventOf(n) = "payment_captured" /\ status = "pending_payment"
      <4>1. EventOf(n) \in Events \ {"trip_completed"}
        BY DEF EventOf, Events
      <4> QED
        BY <1>1, <2>1, <2>4, <4>1, Moves
    <3>2. n.kind = "captured" /\ intent # NoIntent
      BY <3>1 DEF EventOf, PaymentsInv, TypeOK
    <3>3. n.intent = intent /\ money[intent] \in {"captured", "refunded"}
      BY <2>2, <3>2 DEF Keyed, PaymentsInv, Paying
    <3> QED
      BY <2>1, <3>3 DEF Keyed, Created
  <2> QED
    BY <2>3, <2>4
<1>7. ASSUME NEW a \in Refunders, PayBack(a)
      PROVE  Keyed'
  <2>1. /\ UNCHANGED <<status, intent, sent, request>>
        /\ \/ UNCHANGED money
           \/ \E i \in Intents : /\ money[i] \in {"captured", "refunded"}
                                 /\ money' = [money EXCEPT ![i] = "refunded"]
    BY <1>7 DEF PayBack, RefundAccepted, PaymentsInv, TypeOK, Progress
  <2> QED
    BY <1>1, <2>1, KeyedKept
<1>8. ASSUME NEW a \in Refunders, RefundOrder(a) \/ GiveUp(a)
      PROVE  Keyed'
  <2>1. /\ UNCHANGED <<intent, money, sent, request>>
        /\ UNCHANGED status \/ Transition("order_refunded")
    BY <1>8 DEF RefundOrder, GiveUp, provider
  <2>2. "order_refunded" \in Events \ {"trip_completed", "payment_captured"}
    BY DEF Events
  <2> QED
    BY <1>1, <2>1, <2>2, Moves, KeyedKept
<1>9. CASE Elsewhere
  <2>1. PICK e \in {"order_cancelled", "order_expired", "ticket_issued", "passenger_boarded"} :
          Transition(e)
    BY <1>9 DEF Elsewhere
  <2>2. e \in Events \ {"trip_completed", "payment_captured"}
    BY DEF Events
  <2>3. UNCHANGED <<intent, money, sent, request>>
    BY <1>9 DEF Elsewhere, provider, handlers
  <2> QED
    BY <1>1, <2>1, <2>2, <2>3, Moves, KeyedKept
<1>10. CASE \/ UNCHANGED vars \/ CancelTrip \/ CascadeReads
            \/ \E a \in Refunds : AdminReads(a)
            \/ \E w \in Webhooks : FindOrder(w)
  <2>1. UNCHANGED <<status, intent, money, sent, request>>
    BY <1>10 DEF vars, CancelTrip, CascadeReads, AdminReads, FindOrder, provider, handlers
  <2> QED
    BY <2>1, KeyedKept
<1> QED
  BY <1>3, <1>4, <1>5, <1>6, <1>7, <1>8, <1>9, <1>10 DEF Next

\* If the provider deduplicates create_intent, the intent a paid order names is the
\* one that was captured, however many requests raced (orders/mod.rs:496).
THEOREM PaidIntentsAreCaptured ==
  ASSUME IntentKeyed
  PROVE  Spec => []PaidIntentIsCaptured
<1>1. Init => Keyed
  BY PaymentsAssumption DEF Init, Keyed, Created, PaidFor
<1>2. PaymentsInv /\ Keyed /\ [Next]_vars => Keyed'
  BY KeyedStep
<1>3. Keyed => PaidIntentIsCaptured
  BY DEF Keyed, PaidFor, PaidIntentIsCaptured
<1> QED
  BY <1>1, <1>2, <1>3, Invariant, PTL DEF Spec
=============================================================================
