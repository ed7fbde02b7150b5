---------------------------- MODULE OutboxProofs ----------------------------
(***************************************************************************)
(* Proofs about Outbox for any orders, endpoints, relays, workers and batch  *)
(* sizes.                                                                   *)
(*                                                                         *)
(* NoEventMissed is not inductive: a relay marks rows that it gave to the    *)
(* sink some steps before, and an endpoint could be registered in between.   *)
(* Given says that what a relay has given to the sink has its delivery rows, *)
(* Registered that whoever was entitled to an event had been registered, and *)
(* Exclusive that no two relays or workers hold the same row.                *)
(***************************************************************************)
EXTENDS Outbox, FiniteSetTheorems, TLAPS

\* Ids are handed out one after the other, to one open transaction each.
Numbered ==
  /\ \E n \in Nat : DOMAIN stream = 1..n
  /\ \A s \in Streams : \A i \in writing[s] : stream[i] = s

Held(r) == batch[r] \cup marked[r]

Exclusive ==
  /\ \A r, q \in Relays : r # q => Held(r) \cap Held(q) = {}
  /\ \A w, v \in Workers : w # v => posting[w] \cap posting[v] = {}

Given ==
  \A r \in Relays : \A i \in marked[r] :
    \A e \in entitled[i] \cap Active : due[<<e, i>>].state # "none"

Registered == \A i \in log : \A e \in entitled[i] : endpoint[e] # "absent"

\* Attempts are counted up to the limit, and from none.
Counted ==
  \A d \in Deliveries :
    /\ due[d].state = "none" => due[d].attempts = 0
    /\ due[d].state = "pending" => due[d].attempts < MaxAttempts

OutboxInv ==
  TypeOK /\ Numbered /\ Exclusive /\ Given /\ Registered /\ Counted /\ NoEventMissed

-----------------------------------------------------------------------------
\* A batch that holds rows has a first one.
LEMMA FirstInBatch ==
  ASSUME NEW T \in SUBSET Nat, T # {}
  PROVE  First(T) \in T
<1> DEFINE R == OpToRel(<, Nat)
<1>1. IsWellFoundedOn(R, Nat)
  BY NatLessThanWellFounded
<1>2. PICK x \in T : \A y \in T : ~ (<<y, x>> \in R)
  <2> HIDE DEF R
  <2> QED
    BY <1>1, WFMin
<1>3. \A y \in T : ~(y < x)
  BY <1>2 DEF OpToRel
<1>4. \A y \in T : x <= y
  BY <1>3
<1> QED
  BY <1>4 DEF First

\* The id handed out next has not been handed out before.
LEMMA NextIdIsNew ==
  ASSUME Numbered
  PROVE  Next_id \notin DOMAIN stream /\ DOMAIN stream \cup {Next_id} = 1..Next_id /\ Next_id \in Nat
<1>1. PICK n \in Nat : DOMAIN stream = 1..n
  BY DEF Numbered
<1>2. Cardinality(1..n) = n
  BY FS_Interval
<1> QED
  BY <1>1, <1>2 DEF Next_id

\* An answer makes a pending delivery one that is counted.
LEMMA SettledIsCounted ==
  ASSUME NEW row \in Row, row.state = "pending", row.attempts < MaxAttempts,
         NEW a \in {"ok", "error"}
  PROVE  LET new == Settled(row, a)
         IN  /\ new \in Row /\ new.state # "none" /\ new.attempts >= row.attempts
             /\ new.state = "pending" => new.attempts < MaxAttempts
<1>1. row.attempts \in Nat /\ row.attempts + 1 \in 0..MaxAttempts
  BY OutboxAssumption DEF Row
<1> QED
  BY <1>1, OutboxAssumption DEF Settled, Row

\* Nothing is appended, held or due at first.
LEMMA InvInit == Init => OutboxInv
<1> SUFFICES ASSUME Init PROVE OutboxInv
  OBVIOUS
<1>1. TypeOK
  BY OutboxAssumption DEF Init, TypeOK, None, Row
<1>2. Numbered
  <2>1. DOMAIN stream = 1..0
    BY DEF Init
  <2> QED
    BY <2>1 DEF Init, Numbered
<1>3. Exclusive /\ Given /\ Registered /\ NoEventMissed
  BY DEF Init, Exclusive, Held, Given, Registered, NoEventMissed
<1>4. Counted
  BY DEF Init, Counted, None
<1> QED
  BY <1>1, <1>2, <1>3, <1>4 DEF OutboxInv

-----------------------------------------------------------------------------
(* Writers *)

\* A new id belongs to the open transaction of its stream alone.
LEMMA AppendStep ==
  ASSUME OutboxInv, NEW s \in Streams, Append(s)
  PROVE  OutboxInv'
<1>1. /\ Next_id \in Ids
      /\ stream' = [i \in DOMAIN stream \cup {Next_id} |-> IF i = Next_id THEN s ELSE stream[i]]
      /\ writing' = [writing EXCEPT ![s] = @ \cup {Next_id}]
      /\ UNCHANGED <<log, entitled, relayed, batch, marked, endpoint, due, posting>>
  BY DEF Append, relay_vars
<1>2. /\ Next_id \notin DOMAIN stream
      /\ DOMAIN stream \cup {Next_id} = 1..Next_id
      /\ Next_id \in Nat
  BY NextIdIsNew DEF OutboxInv
<1> HIDE DEF Next_id
<1>3. TypeOK'
  <2>1. DOMAIN stream' = DOMAIN stream \cup {Next_id}
    BY <1>1
  <2>2. \A i \in DOMAIN stream' : stream'[i] \in Streams
    BY <1>1, <2>1 DEF OutboxInv, TypeOK
  <2>3. writing' \in [Streams -> SUBSET (DOMAIN stream' \ log')]
    BY <1>1, <1>2, <2>1 DEF OutboxInv, TypeOK
  <2> QED
    BY <1>1, <2>1, <2>2, <2>3 DEF OutboxInv, TypeOK, Active
<1>4. Numbered'
  <2>1. DOMAIN stream' = 1..Next_id
    BY <1>1, <1>2
  <2>2. \A t \in Streams : \A i \in writing'[t] : stream'[i] = t
    BY <1>1, <1>2 DEF OutboxInv, TypeOK, Numbered
  <2> QED
    BY <1>2, <2>1, <2>2 DEF Numbered
<1> QED
  BY <1>1, <1>3, <1>4 DEF OutboxInv, Exclusive, Held, Given, Registered, Counted,
                          NoEventMissed, Active

\* What becomes visible is entitled to the endpoints active now.
LEMMA CommitStep ==
  ASSUME OutboxInv, NEW s \in Streams, Commit(s)
  PROVE  OutboxInv'
<1>1. /\ log' = log \cup writing[s]
      /\ entitled' = [i \in log \cup writing[s] |-> IF i \in log THEN entitled[i] ELSE Active]
      /\ writing' = [writing EXCEPT ![s] = {}]
      /\ UNCHANGED <<stream, relayed, batch, marked, endpoint, due, posting>>
  BY DEF Commit, relay_vars
<1>2. writing[s] \subseteq DOMAIN stream \ log
  BY DEF OutboxInv, TypeOK
<1>3. \A t \in Streams \ {s} : writing[t] \cap writing[s] = {}
  BY DEF OutboxInv, Numbered
<1>4. \A i \in log : entitled'[i] = entitled[i]
  BY <1>1
<1>5. \A i \in log' \ log : entitled'[i] = Active
  BY <1>1
<1>6. TypeOK'
  <2>1. writing' \in [Streams -> SUBSET (DOMAIN stream' \ log')]
    BY <1>1, <1>2, <1>3 DEF OutboxInv, TypeOK
  <2>2. /\ batch' \in [Relays -> SUBSET (log' \ relayed')]
        /\ marked' \in [Relays -> SUBSET (log' \ relayed')]
    BY <1>1 DEF OutboxInv, TypeOK
  <2>3. entitled' \in [log' -> SUBSET Endpoints]
    BY <1>1 DEF OutboxInv, TypeOK, Active
  <2> QED
    BY <1>1, <1>2, <2>1, <2>2, <2>3 DEF OutboxInv, TypeOK
<1>7. Numbered'
  BY <1>1 DEF OutboxInv, Numbered, TypeOK
<1>8. Registered'
  BY <1>1, <1>4, <1>5 DEF OutboxInv, Registered, Active
<1>9. Given' /\ NoEventMissed'
  BY <1>1, <1>4 DEF OutboxInv, TypeOK, Given, NoEventMissed, Active
<1> QED
  BY <1>1, <1>6, <1>7, <1>8, <1>9 DEF OutboxInv, Exclusive, Held, Counted

\* A rollback loses ids of no committed event.
LEMMA RollbackStep ==
  ASSUME OutboxInv, NEW s \in Streams, Rollback(s)
  PROVE  OutboxInv'
<1>1. /\ writing' = [writing EXCEPT ![s] = {}]
      /\ UNCHANGED <<stream, log, entitled, relayed, batch, marked, endpoint, due, posting>>
  BY DEF Rollback, relay_vars
<1>2. TypeOK'
  BY <1>1 DEF OutboxInv, TypeOK, Active
<1>3. Numbered'
  BY <1>1 DEF OutboxInv, TypeOK, Numbered
<1> QED
  BY <1>1, <1>2, <1>3 DEF OutboxInv, Exclusive, Held, Given, Registered, Counted,
                          NoEventMissed, Active

-----------------------------------------------------------------------------
(* Endpoints *)

\* An endpoint is new to every event committed before it.
LEMMA EndpointStep ==
  ASSUME OutboxInv, NEW e \in Endpoints, Register(e) \/ Remove(e)
  PROVE  OutboxInv'
<1>1. /\ endpoint' \in [Endpoints -> {"absent", "active", "removed"}]
      /\ \A x \in Endpoints \ {e} : endpoint'[x] = endpoint[x]
      /\ endpoint'[e] # "absent"
      /\ endpoint'[e] = "active" => endpoint[e] = "absent"
      /\ UNCHANGED <<stream, writing, log, entitled, relayed, batch, marked, due, posting>>
  BY DEF Register, Remove, log_vars, relay_vars, OutboxInv, TypeOK
<1>2. TypeOK'
  BY <1>1 DEF OutboxInv, TypeOK
<1>3. Registered'
  BY <1>1 DEF OutboxInv, TypeOK, Registered
<1>4. \A i \in log : entitled[i] \cap Active' \subseteq entitled[i] \cap Active
  BY <1>1 DEF OutboxInv, TypeOK, Registered, Active
<1>5. Given'
  <2>1. \A r \in Relays : marked[r] \subseteq log
    BY DEF OutboxInv, TypeOK
  <2> QED
    BY <1>1, <1>4, <2>1 DEF OutboxInv, Given
<1>6. NoEventMissed'
  <2>1. relayed \subseteq log
    BY DEF OutboxInv, TypeOK
  <2> QED
    BY <1>1, <1>4, <2>1 DEF OutboxInv, NoEventMissed
<1> QED
  BY <1>1, <1>2, <1>3, <1>5, <1>6 DEF OutboxInv, Numbered, Exclusive, Held, Counted

-----------------------------------------------------------------------------
(* Relays *)

\* SKIP LOCKED: a relay takes rows no other relay holds.
LEMMA SelectStep ==
  ASSUME OutboxInv, NEW r \in Relays, Select(r)
  PROVE  OutboxInv'
<1>1. PICK rows \in SUBSET Waiting : batch' = [batch EXCEPT ![r] = rows]
  BY DEF Select
<1>2. /\ batch[r] = {} /\ marked[r] = {}
      /\ UNCHANGED <<stream, writing, log, entitled, relayed, marked, endpoint, due, posting>>
  BY DEF Select, log_vars
<1>3. rows \subseteq log \ relayed /\ \A q \in Relays : rows \cap Held(q) = {}
  BY <1>1 DEF Waiting, HeldRows, Held
<1>4. TypeOK'
  BY <1>1, <1>2, <1>3 DEF OutboxInv, TypeOK, Active
<1>5. /\ Held(r)' = rows
      /\ \A q \in Relays \ {r} : Held(q)' = Held(q)
  BY <1>1, <1>2 DEF OutboxInv, TypeOK, Held
<1>6. Exclusive'
  BY <1>2, <1>3, <1>5 DEF OutboxInv, Exclusive
<1> QED
  BY <1>2, <1>4, <1>6 DEF OutboxInv, Numbered, Given, Registered, Counted, NoEventMissed, Active

\* Before a row is marked, each active endpoint has its delivery row.
LEMMA FanOutStep ==
  ASSUME OutboxInv, NEW r \in Relays, FanOut(r)
  PROVE  OutboxInv'
<1> DEFINE i == First(batch[r])
           fresh == [state |-> "pending", attempts |-> 0]
<1>1. /\ batch[r] # {}
      /\ due' = [d \in Deliveries |->
                   IF d[2] = i /\ d[1] \in Active /\ due[d].state = "none" THEN fresh ELSE due[d]]
      /\ batch' = [batch EXCEPT ![r] = @ \ {i}]
      /\ marked' = [marked EXCEPT ![r] = @ \cup {i}]
      /\ UNCHANGED <<stream, writing, log, entitled, relayed, endpoint, posting>>
  BY DEF FanOut, log_vars
<1>2. batch[r] \subseteq log \ relayed /\ log \subseteq Ids
  BY DEF OutboxInv, TypeOK
<1>3. i \in batch[r]
  <2>1. \A x \in batch[r] : x \in 1..MaxEvents
    BY <1>2 DEF Ids
  <2>2. \A x \in 1..MaxEvents : x \in Nat
    BY OutboxAssumption
  <2>3. batch[r] \in SUBSET Nat
    BY <2>1, <2>2
  <2> QED
    BY <1>1, <2>3, FirstInBatch
<1> HIDE DEF i
<1>4. fresh \in Row /\ fresh.state = "pending" /\ fresh.attempts = 0 /\ 0 < MaxAttempts
  BY OutboxAssumption DEF Row
<1> HIDE DEF fresh
<1>5. \A d \in Deliveries : due'[d] = due[d] \/ (due[d].state = "none" /\ due'[d] = fresh)
  BY <1>1
<1>6. \A e \in Active : due'[<<e, i>>].state # "none"
  <2> SUFFICES ASSUME NEW e \in Active PROVE due'[<<e, i>>].state # "none"
    OBVIOUS
  <2>1. <<e, i>> \in Deliveries /\ <<e, i>>[1] = e /\ <<e, i>>[2] = i
    BY <1>2, <1>3 DEF Deliveries, Active
  <2> QED
    BY <1>1, <1>4, <2>1
<1>7. due' \in [Deliveries -> Row]
  BY <1>1, <1>4 DEF OutboxInv, TypeOK
<1>8. posting' \in [Workers -> SUBSET {d \in Deliveries : due'[d].state = "pending"}]
  BY <1>1, <1>5 DEF OutboxInv, TypeOK
<1>9. /\ batch' \in [Relays -> SUBSET (log' \ relayed')]
      /\ marked' \in [Relays -> SUBSET (log' \ relayed')]
  BY <1>1, <1>2, <1>3 DEF OutboxInv, TypeOK
<1>10. TypeOK'
  BY <1>1, <1>7, <1>8, <1>9 DEF OutboxInv, TypeOK
<1>11. \A q \in Relays : Held(q)' = Held(q)
  BY <1>1, <1>3 DEF OutboxInv, TypeOK, Held
<1>12. Exclusive'
  BY <1>1, <1>11 DEF OutboxInv, Exclusive
<1>13. Counted'
  BY <1>4, <1>5 DEF OutboxInv, Counted
<1>14. \A j \in log, e \in Endpoints :
         due[<<e, j>>].state # "none" => due'[<<e, j>>].state # "none"
  BY <1>2, <1>5 DEF Deliveries
<1>15. Given'
  <2> SUFFICES ASSUME NEW q \in Relays, NEW j \in marked'[q],
                      NEW e \in entitled[j] \cap Active
               PROVE  due'[<<e, j>>].state # "none"
    BY <1>1 DEF Given, Active
  <2>1. CASE j = i
    BY <1>6, <2>1
  <2>2. CASE j # i
    <3>1. j \in marked[q] /\ j \in log
      BY <1>1, <2>2 DEF OutboxInv, TypeOK
    <3> QED
      BY <1>14, <3>1 DEF OutboxInv, Given, Active
  <2> QED
    BY <2>1, <2>2
<1>16. NoEventMissed'
  <2>1. relayed \subseteq log
    BY DEF OutboxInv, TypeOK
  <2> QED
    BY <1>1, <1>14, <2>1 DEF OutboxInv, NoEventMissed, Active
<1> QED
  BY <1>1, <1>10, <1>12, <1>13, <1>15, <1>16 DEF OutboxInv, Numbered, Registered

\* Only what was given to the sink is relayed.
LEMMA RelayCommitStep ==
  ASSUME OutboxInv, NEW r \in Relays, RelayCommit(r)
  PROVE  OutboxInv'
<1>1. /\ relayed' = relayed \cup marked[r]
      /\ batch' = [batch EXCEPT ![r] = {}]
      /\ marked' = [marked EXCEPT ![r] = {}]
      /\ UNCHANGED <<stream, writing, log, entitled, endpoint, due, posting>>
  BY DEF RelayCommit, log_vars
<1>2. \A q \in Relays \ {r} : Held(q) \cap marked[r] = {}
  BY DEF OutboxInv, Exclusive, Held
<1>3. TypeOK'
  <2>1. \A q \in Relays \ {r} :
          batch[q] \subseteq log \ relayed' /\ marked[q] \subseteq log \ relayed'
    BY <1>1, <1>2 DEF OutboxInv, TypeOK, Held
  <2>2. /\ batch' \in [Relays -> SUBSET (log' \ relayed')]
        /\ marked' \in [Relays -> SUBSET (log' \ relayed')]
    BY <1>1, <2>1 DEF OutboxInv, TypeOK
  <2> QED
    BY <1>1, <2>2 DEF OutboxInv, TypeOK, Active
<1>4. \A q \in Relays : Held(q)' \subseteq Held(q) /\ marked'[q] \subseteq marked[q]
  BY <1>1 DEF OutboxInv, TypeOK, Held
<1>5. Exclusive'
  BY <1>1, <1>4 DEF OutboxInv, Exclusive
<1>6. Given'
  BY <1>1, <1>4 DEF OutboxInv, Given, Active
<1>7. NoEventMissed'
  BY <1>1 DEF OutboxInv, Given, NoEventMissed, Active
<1> QED
  BY <1>1, <1>3, <1>5, <1>6, <1>7 DEF OutboxInv, Numbered, Registered, Counted

\* A crash gives the rows back and keeps the delivery rows.
LEMMA RelayCrashStep ==
  ASSUME OutboxInv, NEW r \in Relays, RelayCrash(r)
  PROVE  OutboxInv'
<1>1. /\ batch' = [batch EXCEPT ![r] = {}]
      /\ marked' = [marked EXCEPT ![r] = {}]
      /\ UNCHANGED <<stream, writing, log, entitled, relayed, endpoint, due, posting>>
  BY DEF RelayCrash, log_vars
<1>2. TypeOK'
  BY <1>1 DEF OutboxInv, TypeOK, Active
<1>3. \A q \in Relays : Held(q)' \subseteq Held(q) /\ marked'[q] \subseteq marked[q]
  BY <1>1 DEF OutboxInv, TypeOK, Held
<1> QED
  BY <1>1, <1>2, <1>3 DEF OutboxInv, Numbered, Exclusive, Given, Registered, Counted,
                          NoEventMissed, Active

-----------------------------------------------------------------------------
(* Workers *)

\* SKIP LOCKED: a worker takes deliveries no other worker holds.
LEMMA TakeStep ==
  ASSUME OutboxInv, NEW w \in Workers, Take(w)
  PROVE  OutboxInv'
<1>1. PICK ds \in SUBSET Postable : posting' = [posting EXCEPT ![w] = ds]
  BY DEF Take
<1>2. UNCHANGED <<stream, writing, log, entitled, relayed, batch, marked, endpoint, due>>
  BY DEF Take, log_vars, relay_vars
<1>3. /\ ds \subseteq {d \in Deliveries : due[d].state = "pending"}
      /\ \A v \in Workers : ds \cap posting[v] = {}
  BY <1>1 DEF Postable, HeldPosts
<1>4. TypeOK'
  BY <1>1, <1>2, <1>3 DEF OutboxInv, TypeOK, Active
<1>5. Exclusive'
  BY <1>1, <1>2, <1>3 DEF OutboxInv, TypeOK, Exclusive, Held
<1> QED
  BY <1>2, <1>4, <1>5 DEF OutboxInv, Numbered, Given, Registered, Counted, NoEventMissed, Active

\* An answer settles or counts a pending delivery; no row disappears.
LEMMA WorkerCommitStep ==
  ASSUME OutboxInv, NEW w \in Workers, WorkerCommit(w)
  PROVE  /\ OutboxInv'
         /\ \A d \in Deliveries : d \notin posting[w] => due'[d] = due[d]
         /\ \A d \in Deliveries : due'[d].attempts >= due[d].attempts
<1>1. PICK answer \in [posting[w] -> {"ok", "error"}] :
        due' = [d \in Deliveries |->
                  IF d \in posting[w] THEN Settled(due[d], answer[d]) ELSE due[d]]
  BY DEF WorkerCommit
<1>2. /\ posting' = [posting EXCEPT ![w] = {}]
      /\ UNCHANGED <<stream, writing, log, entitled, relayed, batch, marked, endpoint>>
  BY DEF WorkerCommit, log_vars, relay_vars
<1>3. \A d \in posting[w] : /\ d \in Deliveries /\ due[d] \in Row
                           /\ due[d].state = "pending" /\ due[d].attempts < MaxAttempts
  BY DEF OutboxInv, TypeOK, Counted
<1>4. ASSUME NEW d \in posting[w]
      PROVE  /\ due'[d] \in Row /\ due'[d].state # "none"
             /\ due'[d].attempts >= due[d].attempts
             /\ due'[d].state = "pending" => due'[d].attempts < MaxAttempts
  BY <1>1, <1>3, SettledIsCounted
<1>5. \A d \in Deliveries : d \notin posting[w] => due'[d] = due[d]
  BY <1>1
<1>6. due' \in [Deliveries -> Row]
  <2>1. \A d \in Deliveries : due'[d] \in Row
    BY <1>4, <1>5 DEF OutboxInv, TypeOK
  <2> QED
    BY <1>1, <2>1
<1>7. posting' \in [Workers -> SUBSET {d \in Deliveries : due'[d].state = "pending"}]
  <2>1. \A v \in Workers \ {w} : posting[v] \cap posting[w] = {}
    BY DEF OutboxInv, Exclusive
  <2>2. \A v \in Workers \ {w} : \A d \in posting[v] :
          d \in Deliveries /\ due'[d].state = "pending"
    BY <1>5, <2>1 DEF OutboxInv, TypeOK
  <2> QED
    BY <1>2, <2>2 DEF OutboxInv, TypeOK
<1>8. TypeOK'
  BY <1>2, <1>6, <1>7 DEF OutboxInv, TypeOK
<1>9. Exclusive'
  BY <1>2 DEF OutboxInv, TypeOK, Exclusive, Held
<1>10. Counted'
  BY <1>4, <1>5 DEF OutboxInv, Counted
<1>11. \A d \in Deliveries : due[d].state # "none" => due'[d].state # "none"
  BY <1>4, <1>5
<1>12. \A j \in log, e \in Endpoints : <<e, j>> \in Deliveries
  BY DEF OutboxInv, TypeOK, Deliveries
<1>13. Given' /\ NoEventMissed'
  BY <1>2, <1>11, <1>12 DEF OutboxInv, TypeOK, Given, NoEventMissed, Active
<1>14. \A d \in Deliveries : due[d].attempts \in Nat
  BY OutboxAssumption DEF OutboxInv, TypeOK, Row
<1>15. \A d \in Deliveries : due'[d].attempts >= due[d].attempts
  BY <1>4, <1>5, <1>14
<1> QED
  BY <1>2, <1>5, <1>8, <1>9, <1>10, <1>13, <1>15 DEF OutboxInv, Numbered, Registered

\* A crash gives the deliveries back uncounted.
LEMMA WorkerCrashStep ==
  ASSUME OutboxInv, NEW w \in Workers, WorkerCrash(w)
  PROVE  OutboxInv'
<1>1. /\ posting' = [posting EXCEPT ![w] = {}]
      /\ UNCHANGED <<stream, writing, log, entitled, relayed, batch, marked, endpoint, due>>
  BY DEF WorkerCrash, log_vars, relay_vars
<1>2. TypeOK'
  BY <1>1 DEF OutboxInv, TypeOK, Active
<1>3. Exclusive'
  BY <1>1 DEF OutboxInv, TypeOK, Exclusive, Held
<1> QED
  BY <1>1, <1>2, <1>3 DEF OutboxInv, Numbered, Given, Registered, Counted, NoEventMissed, Active

-----------------------------------------------------------------------------
\* Every step keeps the invariant.
LEMMA InvNext == OutboxInv /\ [Next]_vars => OutboxInv'
<1> SUFFICES ASSUME OutboxInv, [Next]_vars PROVE OutboxInv'
  OBVIOUS
<1>1. CASE UNCHANGED vars
  <2>1. UNCHANGED <<stream, writing, log, entitled, relayed, batch, marked, endpoint, due, posting>>
    BY <1>1 DEF vars, log_vars, relay_vars
  <2>2. TypeOK' /\ Numbered'
    BY <2>1 DEF OutboxInv, TypeOK, Numbered
  <2>3. Exclusive' /\ Counted'
    BY <2>1 DEF OutboxInv, Exclusive, Held, Counted
  <2>4. Given' /\ Registered' /\ NoEventMissed'
    BY <2>1 DEF OutboxInv, Given, Registered, NoEventMissed, Active
  <2> QED
    BY <2>2, <2>3, <2>4 DEF OutboxInv
<1>2. ASSUME NEW s \in Streams, Append(s) \/ Commit(s) \/ Rollback(s)
      PROVE  OutboxInv'
  BY <1>2, AppendStep, CommitStep, RollbackStep
<1>3. ASSUME NEW e \in Endpoints, Register(e) \/ Remove(e)
      PROVE  OutboxInv'
  BY <1>3, EndpointStep
<1>4. ASSUME NEW r \in Relays, Select(r) \/ FanOut(r) \/ RelayCommit(r) \/ RelayCrash(r)
      PROVE  OutboxInv'
  BY <1>4, SelectStep, FanOutStep, RelayCommitStep, RelayCrashStep
<1>5. ASSUME NEW w \in Workers, Take(w) \/ WorkerCommit(w) \/ WorkerCrash(w)
      PROVE  OutboxInv'
  BY <1>5, TakeStep, WorkerCommitStep, WorkerCrashStep
<1> QED
  BY <1>1, <1>2, <1>3, <1>4, <1>5 DEF Next

\* The inductive invariant holds in every reachable state.
LEMMA Invariant == Spec => []OutboxInv
BY InvInit, InvNext, PTL DEF Spec

\* The tables, batches and histories keep their types.
THEOREM TypeCorrect == Spec => []TypeOK
<1>1. OutboxInv => TypeOK
  BY DEF OutboxInv
<1> QED
  BY <1>1, Invariant, PTL

\* Whatever relays crash, fail half-way or run beside each other, an event that is
\* marked as relayed has its delivery row for every endpoint that was registered
\* before it and still is (events/mod.rs:135, webhooks/mod.rs:82).
THEOREM NoEventIsMissed == Spec => []NoEventMissed
<1>1. OutboxInv => NoEventMissed
  BY DEF OutboxInv
<1> QED
  BY <1>1, Invariant, PTL

\* However often an event is relayed again and whatever workers die, a settled
\* delivery stays as it is and attempts only grow (webhooks/mod.rs:82, 168).
THEOREM SettledForGood == Spec => SettledStays
<1> DEFINE Kept ==
      \A d \in Deliveries :
        /\ due[d].state \in {"delivered", "failed"} => due'[d] = due[d]
        /\ due'[d].attempts >= due[d].attempts
<1>1. OutboxInv /\ [Next]_vars => [Kept]_vars
  <2> SUFFICES ASSUME OutboxInv, Next PROVE Kept
    OBVIOUS
  <2>1. \A d \in Deliveries : due[d].attempts \in Nat
    BY OutboxAssumption DEF OutboxInv, TypeOK, Row
  <2>2. CASE UNCHANGED due
    BY <2>1, <2>2
  <2>3. ASSUME NEW r \in Relays, FanOut(r)
        PROVE  Kept
    <3>1. \A d \in Deliveries :
            due'[d] = due[d] \/ (due[d].state = "none" /\ due'[d].attempts = 0)
      BY <2>3 DEF FanOut
    <3> QED
      BY <2>1, <3>1 DEF OutboxInv, Counted
  <2>4. ASSUME NEW w \in Workers, WorkerCommit(w)
        PROVE  Kept
    <3>1. \A d \in posting[w] : due[d].state = "pending"
      BY DEF OutboxInv, TypeOK
    <3> QED
      BY <2>4, <3>1, WorkerCommitStep
  <2> QED
    BY <2>2, <2>3, <2>4
       DEF Next, Append, Commit, Rollback, Register, Remove, Select, RelayCommit, RelayCrash,
           Take, WorkerCrash
<1> QED
  BY <1>1, Invariant, PTL DEF Spec, SettledStays
=============================================================================
