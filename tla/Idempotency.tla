---------------------------- MODULE Idempotency ----------------------------
(***************************************************************************)
(* Retries of POST /v1/orders under one (scope, Idempotency-Key): the       *)
(* idempotency_keys row (crates/lulan-api/src/idempotency.rs) and the steps *)
(* of the create handler around it.  Attempts run concurrently and each SQL *)
(* statement is a step: reserve's INSERT and the SELECT after it are two,   *)
(* OrderStore::create is one (module Orders has its inside).                *)
(***************************************************************************)
EXTENDS Naturals, FiniteSets

CONSTANTS Attempts,   \* requests with this key; each books at most one order
          Bodies,     \* request hashes
          Faults      \* what may go wrong: "create", "commit", "crash"

NoOrder == "no order"

ASSUME IdempotencyAssumption ==
  NoOrder \notin Attempts /\ Faults \subseteq {"create", "commit", "crash"}

NoRow == [state |-> "none"]
Rows  == [state : {"pending"}, hash : Bodies, age : {"fresh", "stale"}]
           \cup [state : {"completed"}, hash : Bodies, order : Attempts]

VARIABLES row,      \* the idempotency_keys row of the key
          pc,       \* where each attempt's handler is
          body,     \* what each attempt asks for
          booked,   \* attempts whose order committed, in this retention window
          reply     \* order an attempt answered 201 with, or NoOrder

vars == <<row, pc, body, booked, reply>>

Running == {"inserting", "reading", "held", "created", "failed"}
Ended   == {"answered", "refused", "gave back", "dead"}

TypeOK ==
  /\ row \in {NoRow} \cup Rows
  /\ pc \in [Attempts -> {"new"} \cup Running \cup Ended]
  /\ body \in [Attempts -> Bodies]
  /\ booked \subseteq Attempts
  /\ reply \in [Attempts -> Attempts \cup {NoOrder}]
  /\ \A a \in Attempts : reply[a] # NoOrder <=> pc[a] = "answered"

Init ==
  /\ row = NoRow
  /\ pc = [a \in Attempts |-> "new"]
  /\ body \in [Attempts -> Bodies]
  /\ booked = {}
  /\ reply = [a \in Attempts |-> NoOrder]

Goto(a, l) == pc' = [pc EXCEPT ![a] = l] /\ UNCHANGED reply
Respond(a, o) ==
  /\ pc' = [pc EXCEPT ![a] = "answered"]
  /\ reply' = [reply EXCEPT ![a] = o]

ReplayAnyBody(a) ==                          \* mutant: request hash not compared
  /\ pc[a] = "new"
  /\ IF row.state = "completed" THEN Respond(a, row.order) ELSE Goto(a, "inserting")
  /\ UNCHANGED <<row, body, booked>>

\* replay_if_completed, before pricing: pending and missing rows go on.
ReplayIfCompleted(a) ==
  /\ pc[a] = "new"
  /\ IF row.state # "completed" THEN Goto(a, "inserting")
     ELSE IF row.hash # body[a] THEN Goto(a, "refused")
     ELSE Respond(a, row.order)
  /\ UNCHANGED <<row, body, booked>>

ReserveLater(a) ==                           \* mutant: the key is written after the order
  /\ pc[a] = "inserting"
  /\ IF row = NoRow THEN UNCHANGED row /\ Goto(a, "held")
     ELSE UNCHANGED row /\ Goto(a, "reading")
  /\ UNCHANGED <<body, booked>>

\* INSERT ... ON CONFLICT DO NOTHING.
Reserve(a) ==
  /\ pc[a] = "inserting"
  /\ IF row = NoRow
     THEN /\ row' = [state |-> "pending", hash |-> body[a], age |-> "fresh"]
          /\ Goto(a, "held")
     ELSE UNCHANGED row /\ Goto(a, "reading")
  /\ UNCHANGED <<body, booked>>

\* The SELECT when the key was taken.  A row gone since the INSERT counts as a
\* reservation, without a row.
ReadReserved(a) ==
  /\ pc[a] = "reading"
  /\ IF row = NoRow THEN Goto(a, "held")
     ELSE IF row.hash # body[a] \/ row.state = "pending" THEN Goto(a, "refused")
     ELSE Respond(a, row.order)
  /\ UNCHANGED <<row, body, booked>>

\* OrderStore::create commits.
Book(a) ==
  /\ pc[a] = "held"
  /\ booked' = booked \cup {a}
  /\ Goto(a, "created")
  /\ UNCHANGED <<row, body>>

\* It conflicts, or fails before its commit.
BookFails(a) ==
  /\ "create" \in Faults
  /\ pc[a] = "held"
  /\ Goto(a, "failed")
  /\ UNCHANGED <<row, body, booked>>

\* It commits, but the connection is lost before the acknowledgement: Err.
CommitUnacknowledged(a) ==
  /\ "commit" \in Faults
  /\ pc[a] = "held"
  /\ booked' = booked \cup {a}
  /\ Goto(a, "failed")
  /\ UNCHANGED <<row, body>>

\* release: DELETE ... AND status = 'pending', whoever's row it is by now.
Release(a) ==
  /\ pc[a] = "failed"
  /\ row' = IF row.state = "pending" THEN NoRow ELSE row
  /\ Goto(a, "gave back")
  /\ UNCHANGED <<body, booked>>

CompleteEarly(a) ==                          \* mutant: response stored before create
  /\ pc[a] \in {"held", "created"}
  /\ row' = IF row = NoRow THEN row
            ELSE [state |-> "completed", hash |-> row.hash, order |-> a]
  /\ Respond(a, a)
  /\ UNCHANGED <<body, booked>>

\* complete: UPDATE by (scope, key); the hash stays that of the row.
Complete(a) ==
  /\ pc[a] = "created"
  /\ row' = IF row = NoRow THEN row
            ELSE [state |-> "completed", hash |-> row.hash, order |-> a]
  /\ Respond(a, a)
  /\ UNCHANGED <<body, booked>>

Crash(a) ==
  /\ "crash" \in Faults
  /\ pc[a] \in Running
  /\ Goto(a, "dead")
  /\ UNCHANGED <<row, body, booked>>

\* A reservation outlives ORDER_TTL_MINUTES only when no request is at work on
\* it: requests are far shorter than that.
Abandoned == \A a \in Attempts : pc[a] \notin Running

GrowStale ==
  /\ row.state = "pending" /\ row.age = "fresh"
  /\ Abandoned
  /\ row' = [row EXCEPT !.age = "stale"]
  /\ UNCHANGED <<pc, body, booked, reply>>

SweepCompletedOnly ==                        \* mutant: no pending branch in the DELETE
  /\ row.state = "completed"
  /\ Abandoned
  /\ row' = NoRow
  /\ booked' = {}
  /\ UNCHANGED <<pc, body, reply>>

\* sweep_idempotency_keys: stale reservations, and responses past the retention
\* window, after which "a repeat is a new booking, not a retry".
Sweep ==
  /\ \/ row.state = "pending" /\ row.age = "stale" /\ UNCHANGED booked
     \/ row.state = "completed" /\ Abandoned /\ booked' = {}
  /\ row' = NoRow
  /\ UNCHANGED <<pc, body, reply>>

AttemptStep(a) ==
  \/ ReplayIfCompleted(a) \/ Reserve(a) \/ ReadReserved(a)
  \/ Book(a) \/ BookFails(a) \/ CommitUnacknowledged(a)
  \/ Release(a) \/ Complete(a) \/ Crash(a)

Next == (\E a \in Attempts : AttemptStep(a)) \/ GrowStale \/ Sweep

Spec == Init /\ [][Next]_vars

\* Handlers run to their end unless they crash; time passes; the sweeper runs
\* every 30 s.
FairSpec ==
  /\ Spec
  /\ \A a \in Attempts : WF_vars(pc[a] # "new" /\ AttemptStep(a))
  /\ WF_vars(GrowStale) /\ WF_vars(Sweep)

-----------------------------------------------------------------------------
(* Properties *)

\* "A booking retry must never produce a second booking" (idempotency.rs:3).
OneBooking == Cardinality(booked) <= 1

\* No attempt failed or died: only then is no reservation given back under
\* another attempt's feet.
Undisturbed == \A a \in Attempts : pc[a] \notin {"failed", "gave back", "dead"}

\* Retries that race, however they interleave with each other and the sweep,
\* book once as long as none of them fails.
RacingRetriesBookOnce == Undisturbed => OneBooking

\* A key replayed with a different body is refused rather than answered with an
\* unrelated order (idempotency.rs:18): a replay answers with the order that an
\* identical request made, as long as no attempt fails.
ReplayMatchesRequest ==
  Undisturbed => \A a \in Attempts : reply[a] # NoOrder => body[reply[a]] = body[a]

\* A 201, first answer or replay, always names an order that has committed,
\* whatever crashed or failed in between.
RepliesAreBookings ==
  [][\A a \in Attempts : reply'[a] # reply[a] => reply'[a] \in booked']_vars

\* A reservation that a crash left behind does not block its key for ever.
KeyIsFreedAgain == row.state = "pending" ~> row.state # "pending"
=============================================================================
