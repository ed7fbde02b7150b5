------------------------------- MODULE Outbox -------------------------------
(***************************************************************************)
(* From the event log to an integrator's endpoint, in three transactions:   *)
(*   writers  append events and their outbox rows under the order row lock  *)
(*            (events/mod.rs append);                                       *)
(*   relays   take a batch of undelivered rows, FOR UPDATE SKIP LOCKED, and  *)
(*            give each to WebhookSink, which inserts a delivery row per     *)
(*            active endpoint on a connection of its own (relay_once);       *)
(*   workers  POST a batch of due deliveries and commit what came of all of  *)
(*            them at once (webhooks/mod.rs deliver_due).                    *)
(* A crash rolls a transaction back and keeps what was done outside it: the  *)
(* delivery rows and the POSTs.  Times are abstracted: a pending delivery    *)
(* may be due at any moment.                                                *)
(***************************************************************************)
EXTENDS Naturals, FiniteSets

CONSTANTS Streams,     \* orders
          Endpoints,   \* webhook endpoints; an id is registered once
          Relays,      \* replicas running run_relay
          Workers,     \* replicas running run_delivery_worker
          RelayBatch,  \* LIMIT of relay_once (100)
          PostBatch,   \* LIMIT of deliver_due (20)
          MaxAttempts, \* MAX_ATTEMPTS (8)
          MaxEvents    \* bound: events ever appended

ASSUME OutboxAssumption ==
  RelayBatch \in Nat \ {0} /\ PostBatch \in Nat \ {0} /\ MaxAttempts \in Nat \ {0} /\ MaxEvents \in Nat

Ids        == 1..MaxEvents
Deliveries == Endpoints \X Ids

VARIABLES stream,   \* events: the stream of each id handed out so far
          writing,  \* ids appended by the open transaction of each stream
          log,      \* committed events; their outbox rows are committed with them
          relayed,  \* outbox rows with delivered_at
          batch,    \* per relay: rows it holds, not yet given to the sink
          marked,   \* per relay: rows it holds, given to the sink
          endpoint, \* "absent", "active", "removed"
          due,      \* webhook_deliveries: attempts, and how it stands
          posting,  \* per worker: deliveries it holds and POSTs
          entitled  \* history: the endpoints active when an event was committed

log_vars   == <<stream, writing, log, entitled>>
relay_vars == <<relayed, batch, marked>>
vars == <<log_vars, relay_vars, endpoint, due, posting>>

Row  == [state : {"none", "pending", "delivered", "failed"}, attempts : 0..MaxAttempts]
None == [state |-> "none", attempts |-> 0]

Next_id     == Cardinality(DOMAIN stream) + 1
Active      == {e \in Endpoints : endpoint[e] = "active"}
HeldRows    == UNION {batch[r] \cup marked[r] : r \in Relays}
HeldPosts   == UNION {posting[w] : w \in Workers}
First(ids)  == CHOOSE i \in ids : \A j \in ids : i <= j

TypeOK ==
  /\ DOMAIN stream \subseteq Ids
  /\ \A i \in DOMAIN stream : stream[i] \in Streams
  /\ writing \in [Streams -> SUBSET (DOMAIN stream \ log)]
  /\ log \subseteq DOMAIN stream
  /\ relayed \subseteq log
  /\ batch \in [Relays -> SUBSET (log \ relayed)]
  /\ marked \in [Relays -> SUBSET (log \ relayed)]
  /\ endpoint \in [Endpoints -> {"absent", "active", "removed"}]
  /\ due \in [Deliveries -> Row]
  /\ posting \in [Workers -> SUBSET {d \in Deliveries : due[d].state = "pending"}]
  /\ entitled \in [log -> SUBSET Endpoints]

Init ==
  /\ stream = [i \in {} |-> {}]
  /\ writing = [s \in Streams |-> {}]
  /\ log = {}
  /\ relayed = {}
  /\ batch = [r \in Relays |-> {}]
  /\ marked = [r \in Relays |-> {}]
  /\ endpoint = [e \in Endpoints |-> "absent"]
  /\ due = [d \in Deliveries |-> None]
  /\ posting = [w \in Workers |-> {}]
  /\ entitled = [i \in {} |-> {}]

-----------------------------------------------------------------------------
(* Writers *)

\* The sequence hands out ids at once, whatever becomes of the transaction.
Append(s) ==
  /\ Next_id \in Ids
  /\ stream' = [i \in DOMAIN stream \cup {Next_id} |->
                  IF i = Next_id THEN s ELSE stream[i]]
  /\ writing' = [writing EXCEPT ![s] = @ \cup {Next_id}]
  /\ UNCHANGED <<log, entitled, relay_vars, endpoint, due, posting>>

\* The order row lock makes the open transaction of a stream the only one.
Commit(s) ==
  /\ writing[s] # {}
  /\ log' = log \cup writing[s]
  /\ entitled' = [i \in log \cup writing[s] |-> IF i \in log THEN entitled[i] ELSE Active]
  /\ writing' = [writing EXCEPT ![s] = {}]
  /\ UNCHANGED <<stream, relay_vars, endpoint, due, posting>>

Rollback(s) ==
  /\ writing[s] # {}
  /\ writing' = [writing EXCEPT ![s] = {}]
  /\ UNCHANGED <<stream, log, entitled, relay_vars, endpoint, due, posting>>

-----------------------------------------------------------------------------
(* Endpoints: POST and DELETE /v1/webhooks *)

Register(e) ==
  /\ endpoint[e] = "absent"
  /\ endpoint' = [endpoint EXCEPT ![e] = "active"]
  /\ UNCHANGED <<log_vars, relay_vars, due, posting>>

Remove(e) ==
  /\ endpoint[e] = "active"
  /\ endpoint' = [endpoint EXCEPT ![e] = "removed"]
  /\ UNCHANGED <<log_vars, relay_vars, due, posting>>

-----------------------------------------------------------------------------
(* relay_once *)

Waiting == log \ (relayed \cup HeldRows)

\* The first RelayBatch rows no other relay holds.
Select(r) ==
  /\ batch[r] = {} /\ marked[r] = {}
  /\ Waiting # {}
  /\ batch' = [batch EXCEPT ![r] =
                 {i \in Waiting : Cardinality({j \in Waiting : j < i}) < RelayBatch}]
  /\ UNCHANGED <<log_vars, relayed, marked, endpoint, due, posting>>

FanOutAgain(r) ==                            \* mutant: ON CONFLICT DO UPDATE
  LET i == First(batch[r])
  IN  /\ batch[r] # {}
      /\ due' = [d \in Deliveries |->
                   IF d[2] = i /\ d[1] \in Active
                   THEN [state |-> "pending", attempts |-> 0] ELSE due[d]]
      /\ batch' = [batch EXCEPT ![r] = @ \ {i}]
      /\ marked' = [marked EXCEPT ![r] = @ \cup {i}]
      /\ UNCHANGED <<log_vars, relayed, endpoint, posting>>

\* WebhookSink::deliver commits by itself: ON CONFLICT DO NOTHING.
FanOut(r) ==
  LET i == First(batch[r])
  IN  /\ batch[r] # {}
      /\ due' = [d \in Deliveries |->
                   IF d[2] = i /\ d[1] \in Active /\ due[d].state = "none"
                   THEN [state |-> "pending", attempts |-> 0] ELSE due[d]]
      /\ batch' = [batch EXCEPT ![r] = @ \ {i}]
      /\ marked' = [marked EXCEPT ![r] = @ \cup {i}]
      /\ UNCHANGED <<log_vars, relayed, endpoint, posting>>

RelayCommitAll(r) ==                         \* mutant: the whole batch is marked
  /\ batch[r] \cup marked[r] # {}
  /\ relayed' = relayed \cup batch[r] \cup marked[r]
  /\ batch' = [batch EXCEPT ![r] = {}]
  /\ marked' = [marked EXCEPT ![r] = {}]
  /\ UNCHANGED <<log_vars, endpoint, due, posting>>

\* At the end of the batch, or at its first failure: the rest waits.
RelayCommit(r) ==
  /\ batch[r] \cup marked[r] # {}
  /\ relayed' = relayed \cup marked[r]
  /\ batch' = [batch EXCEPT ![r] = {}]
  /\ marked' = [marked EXCEPT ![r] = {}]
  /\ UNCHANGED <<log_vars, endpoint, due, posting>>

RelayCrash(r) ==
  /\ batch[r] \cup marked[r] # {}
  /\ batch' = [batch EXCEPT ![r] = {}]
  /\ marked' = [marked EXCEPT ![r] = {}]
  /\ UNCHANGED <<log_vars, relayed, endpoint, due, posting>>

-----------------------------------------------------------------------------
(* deliver_due *)

Postable == {d \in Deliveries : due[d].state = "pending" /\ d[1] \in Active} \ HeldPosts

\* Up to PostBatch due deliveries of active endpoints no other worker holds.
Take(w) ==
  /\ posting[w] = {}
  /\ \E ds \in SUBSET Postable :
       /\ Cardinality(ds) \in 1..PostBatch
       /\ posting' = [posting EXCEPT ![w] = ds]
  /\ UNCHANGED <<log_vars, relay_vars, endpoint, due>>

SettledNever(row, a) ==                      \* mutant: a failure is not counted
  IF a = "ok" THEN [state |-> "delivered", attempts |-> row.attempts + 1] ELSE row

\* What an answer makes of a delivery.
Settled(row, a) ==
  LET n == row.attempts + 1
  IN  [attempts |-> n,
       state    |-> IF a = "ok" THEN "delivered"
                    ELSE IF n >= MaxAttempts THEN "failed" ELSE "pending"]

\* Every POST of the batch has its answer (2xx, another status, a timeout), and
\* what came of all of them is committed at once.
WorkerCommit(w) ==
  /\ posting[w] # {}
  /\ \E answer \in [posting[w] -> {"ok", "error"}] :
       due' = [d \in Deliveries |->
                 IF d \in posting[w] THEN Settled(due[d], answer[d]) ELSE due[d]]
  /\ posting' = [posting EXCEPT ![w] = {}]
  /\ UNCHANGED <<log_vars, relay_vars, endpoint>>

\* Before, between or after the POSTs: the endpoints may have got some.
WorkerCrash(w) ==
  /\ posting[w] # {}
  /\ posting' = [posting EXCEPT ![w] = {}]
  /\ UNCHANGED <<log_vars, relay_vars, endpoint, due>>

Next ==
  \/ \E s \in Streams : Append(s) \/ Commit(s) \/ Rollback(s)
  \/ \E e \in Endpoints : Register(e) \/ Remove(e)
  \/ \E r \in Relays : Select(r) \/ FanOut(r) \/ RelayCommit(r) \/ RelayCrash(r)
  \/ \E w \in Workers : Take(w) \/ WorkerCommit(w) \/ WorkerCrash(w)

Spec == Init /\ [][Next]_vars

\* Relays and workers tick for ever (every 2 s), and not every tick of every
\* replica dies: some relay gives the next row to the sink before it gives up and
\* marks what it gave, some worker gets to the end of its batch now and then.
FairSpec ==
  /\ Spec
  /\ WF_vars(\E r \in Relays : Select(r))
  /\ SF_vars(\E r \in Relays : FanOut(r))
  /\ SF_vars(\E r \in Relays : marked[r] # {} /\ RelayCommit(r))
  /\ SF_vars(\E w \in Workers : WorkerCommit(w))
  /\ \A d \in Deliveries : SF_vars(\E w \in Workers : Take(w) /\ d \in posting'[w])

-----------------------------------------------------------------------------
(* Properties *)

\* No endpoint misses an event: once its outbox row is marked, each endpoint
\* registered before the event and not removed since has its delivery row,
\* whatever relay crashed, failed half-way or ran beside another.
NoEventMissed ==
  \A i \in relayed : \A e \in entitled[i] \cap Active : due[<<e, i>>].state # "none"

\* A settled delivery is never taken up again, however often its event is
\* relayed: attempts only grow.
SettledStays ==
  [][\A d \in Deliveries :
       /\ due[d].state \in {"delivered", "failed"} => due'[d] = due[d]
       /\ due'[d].attempts >= due[d].attempts]_vars

\* The events of an order are fanned out in the order they happened
\* ("undelivered rows retry next tick in order", events/mod.rs:154).
FannedOutInOrder ==
  \A i, j \in log : (i < j /\ stream[i] = stream[j]) =>
    \A e \in entitled[i] \cap Active : due[<<e, j>>].state # "none" => due[<<e, i>>].state # "none"

\* Each event reaches each entitled endpoint or runs out of attempts.
EveryDeliverySettles ==
  \A e \in Endpoints, i \in Ids :
    (i \in log /\ e \in entitled[i])
      ~> (due[<<e, i>>].state \in {"delivered", "failed"} \/ e \notin Active)
=============================================================================
