-------------------------- MODULE FrontDoorProofs --------------------------
(***************************************************************************)
(* Proofs about Ownership, Credentials, RateLimit and Idempotency for any    *)
(* customers, keys, people, callers, clocks, request bodies and number of    *)
(* requests.                                                                *)
(*                                                                         *)
(* Ownership: a claim or a new order could take an order from under a        *)
(* handler.  OnePlaced says that a handler has only to do with orders that   *)
(* exist, which no create writes again, and Named that who was let in as an  *)
(* owner is a customer, so that the row is not NULL and no claim takes it.   *)
(*                                                                         *)
(* Credentials: that a key which opens a door is on record, and not as       *)
(* revoked, rests on three facts that hold between any two statements: a key *)
(* whose text is out has its row in the log (Recorded), a key is created by  *)
(* one request and is absent until then (New), and a key that is, or is      *)
(* about to be, logged as revoked is inactive (Out); so nothing makes it     *)
(* active again.                                                            *)
(*                                                                         *)
(* RateLimit: what has been admitted lately is still in its sorted set, if   *)
(* lately is short enough for any replica's clock (Lasting).                *)
(*                                                                         *)
(* Idempotency: as long as no attempt fails or dies, the row says what the   *)
(* attempts have done (Calm): without a row nothing is booked and nobody has *)
(* the key; a pending row belongs to exactly one attempt, which is at work,  *)
(* so that the sweep cannot take it for abandoned; a completed row names the *)
(* one booking.  What an answer names is booked whatever fails (Backed): a   *)
(* row is completed only by an attempt that booked, and bookings are         *)
(* forgotten only with it.                                                  *)
(***************************************************************************)
EXTENDS Ownership, Credentials, RateLimit, Idempotency, FiniteSetTheorems, TLAPS

-----------------------------------------------------------------------------
(* Ownership *)

\* Orders that have an owner or are being worked on exist.
OnePlaced ==
  /\ \A o \in Orders : owner[o] # Nobody => o \in placed
  /\ \A h \in Handlers : asking[h] # Free => asking[h].order \in placed

\* Claims and owners are those of customers.
Named ==
  \A h \in Handlers :
    asking[h].step \in {"claiming", "claimed", "let in as owner"} =>
      asking[h].customer \in Customers

OwnershipInv == OwnershipTypeOK /\ OnePlaced /\ Named /\ OwnersStayOwners

\* What a handler holds between its statements is never Free.
LEMMA AtIsAsking ==
  ASSUME NEW step \in {"claiming", "claimed", "let in as owner", "let in"},
         NEW o \in Orders, NEW c \in Customers \cup {Nobody}
  PROVE  At(step, o, c) \in Asking /\ At(step, o, c) # Free
BY DEF At, Asking, Free

\* A free handler is in no step of a request, and the others have an order.
LEMMA FreeOrAt ==
  /\ Free \in Asking
  /\ Free.step \notin {"claiming", "claimed", "let in as owner"}
  /\ \A a \in Asking : a # Free => a.order \in Orders
BY DEF Free, Asking

\* The invariant holds before the first request.
LEMMA OwnershipInvInit == OwnershipInit => OwnershipInv
BY FreeOrAt DEF OwnershipInit, OwnershipInv, OwnershipTypeOK, OnePlaced, Named,
                OwnersStayOwners

\* Every statement of every handler keeps it.
LEMMA OwnershipInvNext == OwnershipInv /\ [OwnershipNext]_ownership_vars => OwnershipInv'
<1>1. SUFFICES ASSUME OwnershipInv, [OwnershipNext]_ownership_vars
               PROVE  OwnershipInv'
  OBVIOUS
<1>2. CASE UNCHANGED ownership_vars
  BY <1>1, <1>2 DEF ownership_vars, OwnershipInv, OwnershipTypeOK, OnePlaced, Named,
                    OwnersStayOwners
<1>3. ASSUME NEW h \in Handlers, NEW o \in Orders, Place(h, o)
      PROVE  OwnershipInv'
  <2>1. PICK c \in Customers \cup {Nobody} : owner' = [owner EXCEPT ![o] = c]
    BY <1>3 DEF Place
  <2>2. /\ asking' = asking
        /\ placed' = placed \cup {o}
        /\ o \notin placed
    BY <1>3 DEF Place
  <2>3. OwnershipTypeOK' /\ OnePlaced' /\ Named'
    BY <1>1, <2>1, <2>2 DEF OwnershipInv, OwnershipTypeOK, OnePlaced, Named
  <2>4. ASSUME NEW g \in Handlers, asking[g].step \in {"claimed", "let in as owner"}
        PROVE  owner'[asking[g].order] = asking[g].customer
    <3>1. asking[g] \in Asking /\ asking[g] # Free
      BY <1>1, <2>4, FreeOrAt DEF OwnershipInv, OwnershipTypeOK
    <3>2. asking[g].order \in placed /\ asking[g].order \in Orders
      BY <1>1, <3>1, FreeOrAt DEF OwnershipInv, OnePlaced
    <3> QED
      BY <1>1, <2>1, <2>2, <2>4, <3>2 DEF OwnershipInv, OwnershipTypeOK, OwnersStayOwners
  <2> QED
    BY <2>2, <2>3, <2>4 DEF OwnershipInv, OwnersStayOwners
<1>4. ASSUME NEW h \in Handlers, NEW o \in Orders, ShowToken(h, o)
      PROVE  OwnershipInv'
  <2>1. PICK c \in Customers : asking' = [asking EXCEPT ![h] = At("claiming", o, c)]
    BY <1>4 DEF ShowToken
  <2>2. At("claiming", o, c) \in Asking /\ At("claiming", o, c) # Free
    BY AtIsAsking
  <2> QED
    BY <1>1, <1>4, <2>1, <2>2 DEF OwnershipInv, OwnershipTypeOK, OnePlaced, Named,
                                  OwnersStayOwners, ShowToken, At
<1>5. ASSUME NEW h \in Handlers, Claim(h)
      PROVE  OwnershipInv'
  <2> DEFINE a == asking[h]
             answered == At("claimed", a.order, a.customer)
  <2>1. a \in Asking /\ a # Free /\ a.step = "claiming"
    BY <1>1, <1>5, FreeOrAt DEF Claim, OwnershipInv, OwnershipTypeOK
  <2>2. a.order \in placed /\ a.order \in Orders /\ a.customer \in Customers
    BY <1>1, <2>1, FreeOrAt DEF OwnershipInv, OnePlaced, Named
  <2>3. CASE owner[a.order] = Nobody
    <3>1. /\ owner' = [owner EXCEPT ![a.order] = a.customer]
          /\ asking' = [asking EXCEPT ![h] = answered]
          /\ placed' = placed
      BY <1>5, <2>3 DEF Claim
    <3>2. answered \in Asking /\ answered # Free
      BY <2>2, AtIsAsking
    <3>3. OwnershipTypeOK' /\ OnePlaced' /\ Named'
      BY <1>1, <2>2, <3>1, <3>2 DEF OwnershipInv, OwnershipTypeOK, OnePlaced, Named, At
    <3>4. ASSUME NEW g \in Handlers,
                 asking'[g].step \in {"claimed", "let in as owner"}
          PROVE  owner'[asking'[g].order] = asking'[g].customer
      <4>1. CASE g = h
        BY <1>1, <2>2, <3>1, <4>1 DEF OwnershipInv, OwnershipTypeOK, At
      <4>2. CASE g # h
        <5>1. asking'[g] = asking[g]
          BY <1>1, <3>1, <4>2 DEF OwnershipInv, OwnershipTypeOK
        <5>2. owner[asking[g].order] = asking[g].customer /\ asking[g].customer \in Customers
          BY <1>1, <3>4, <5>1 DEF OwnershipInv, OwnersStayOwners, Named
        <5>3. asking[g].order # a.order
          BY <2>3, <5>2, OwnershipAssumption
        <5> QED
          BY <1>1, <3>1, <5>1, <5>2, <5>3 DEF OwnershipInv, OwnershipTypeOK
      <4> QED
        BY <4>1, <4>2
    <3> QED
      BY <3>3, <3>4 DEF OwnershipInv, OwnersStayOwners
  <2>4. CASE owner[a.order] # Nobody
    BY <1>1, <1>5, <2>4, FreeOrAt DEF Claim, OwnershipInv, OwnershipTypeOK, OnePlaced,
                                      Named, OwnersStayOwners
  <2> QED
    BY <2>3, <2>4
<1>6. ASSUME NEW h \in Handlers, NEW o \in Orders, AuthorizeOwner(h, o)
      PROVE  OwnershipInv'
  <2>1. PICK c \in Customers :
          owner[o] = c /\ asking' = [asking EXCEPT ![h] = At("let in as owner", o, c)]
    BY <1>6 DEF AuthorizeOwner
  <2>2. At("let in as owner", o, c) \in Asking /\ At("let in as owner", o, c) # Free
    BY AtIsAsking
  <2>3. o \in placed
    BY <1>1, <2>1, OwnershipAssumption DEF OwnershipInv, OnePlaced
  <2> QED
    BY <1>1, <1>6, <2>1, <2>2, <2>3 DEF OwnershipInv, OwnershipTypeOK, OnePlaced, Named,
                                        OwnersStayOwners, AuthorizeOwner, At
<1>7. ASSUME NEW h \in Handlers, NEW o \in Orders, AuthorizeOther(h, o)
      PROVE  OwnershipInv'
  <2>1. At("let in", o, Nobody) \in Asking /\ At("let in", o, Nobody) # Free
    BY AtIsAsking
  <2> QED
    BY <1>1, <1>7, <2>1 DEF OwnershipInv, OwnershipTypeOK, OnePlaced, Named,
                            OwnersStayOwners, AuthorizeOther, At
<1>8. ASSUME NEW h \in Handlers, Answer(h)
      PROVE  OwnershipInv'
  BY <1>1, <1>8, FreeOrAt DEF Answer, OwnershipInv, OwnershipTypeOK, OnePlaced, Named,
                              OwnersStayOwners
<1> QED
  BY <1>1, <1>2, <1>3, <1>4, <1>5, <1>6, <1>7, <1>8 DEF OwnershipNext

\* The strengthened invariant always holds.
LEMMA OwnershipInvariance == OwnershipSpec => []OwnershipInv
BY OwnershipInvInit, OwnershipInvNext, PTL DEF OwnershipSpec

\* Whoever was told that an order is theirs owns it when the handler acts and
\* answers, for any number of claims and handlers (identity.rs:424, orders.rs:509).
THEOREM OwnersAreKept == OwnershipSpec => []OwnersStayOwners
<1>1. OwnershipInv => OwnersStayOwners
  BY DEF OwnershipInv
<1> QED
  BY <1>1, OwnershipInvariance, PTL

\* Orders, owners and what handlers have read keep their types (orders.rs:141,
\* identity.rs:411).
THEOREM OwnershipTypeCorrect == OwnershipSpec => []OwnershipTypeOK
<1>1. OwnershipInv => OwnershipTypeOK
  BY DEF OwnershipInv
<1> QED
  BY <1>1, OwnershipInvariance, PTL

\* A customer never loses an order, nor does it change hands: a claim finds a guest's
\* order only, and a create writes an order nobody has yet (identity.rs:424,
\* orders.rs:141).
THEOREM OwnersAreForGood ==
  OwnershipSpec => [][\A o \in Orders : owner[o] # Nobody => owner'[o] = owner[o]]_ownership_vars
<1> DEFINE Kept == \A o \in Orders : owner[o] # Nobody => owner'[o] = owner[o]
<1>1. OwnershipInv /\ [OwnershipNext]_ownership_vars => Kept
  <2> SUFFICES ASSUME OwnershipInv, [OwnershipNext]_ownership_vars,
                      NEW o \in Orders, owner[o] # Nobody
               PROVE  owner'[o] = owner[o]
    OBVIOUS
  <2>1. owner \in [Orders -> Customers \cup {Nobody}] /\ o \in placed
    BY DEF OwnershipInv, OwnershipTypeOK, OnePlaced
  <2>2. ASSUME NEW h \in Handlers, NEW p \in Orders, Place(h, p) PROVE owner'[o] = owner[o]
    BY <2>1, <2>2 DEF Place
  <2>3. ASSUME NEW h \in Handlers, Claim(h) PROVE owner'[o] = owner[o]
    BY <2>1, <2>3 DEF Claim
  <2> QED
    BY <2>2, <2>3 DEF OwnershipNext, ownership_vars, ShowToken, AuthorizeOwner, AuthorizeOther, Answer
<1> QED
  BY <1>1, OwnershipInvariance, PTL DEF OwnershipSpec

-----------------------------------------------------------------------------
(* Credentials *)

Creating(q, k) == request[q] \in Jobs /\ request[q].op = "create key" /\ request[q].on = k
Revoked(q, k)  == request[q].step = "done" /\ request[q].op = "revoke key" /\ request[q].on = k

Recorded == \A k \in told \ BootKeys : <<"create key", k>> \in log

New ==
  \A q \in Requests, k \in Keys : Creating(q, k) =>
    /\ key[k].state = "absent"
    /\ \A p \in Requests : Creating(p, k) => p = q

Out ==
  \A k \in Keys \ BootKeys :
    (<<"revoke key", k>> \in log \/ \E q \in Requests : Revoked(q, k)) =>
      key[k].state = "inactive"

CredentialsInv == CredentialsTypeOK /\ Recorded /\ New /\ Out

Steps == {Idle, Loose} \cup Jobs \cup JobsAt("done")

\* The steps of a request are told apart by what they are.
LEMMA StepFacts ==
  /\ Idle \in Steps /\ Idle \notin Jobs /\ Idle.step # "done"
  /\ Loose \in Steps /\ Loose \notin Jobs /\ Loose.step # "done" /\ Loose # Idle
  /\ \A j \in Jobs :
       /\ j # Idle /\ j # Loose /\ j.step # "done"
       /\ j.op = "create key" => j.on \in Keys \ BootKeys /\ j.role \in KeyRoles
       /\ j.op = "revoke key" => j.on \in Keys
       /\ j.op = "enrol" => j.on \in Subjects /\ j.role \in StaffRoles
       /\ j.op = "revoke staff" => j.on \in Subjects
       /\ j.op \in {"create key", "revoke key", "enrol", "revoke staff"}
       /\ Done(j) \in Steps /\ Done(j) \notin Jobs /\ Done(j).step = "done"
       /\ Done(j).op = j.op /\ Done(j).on = j.on
<1>1. Idle.step = "idle" /\ Loose.step = "let in" /\ Loose.op = "use"
  BY DEF Idle, Loose
<1>2. ASSUME NEW j \in Jobs
      PROVE  /\ j.step = "let in"
             /\ j.op = "create key" => j.on \in Keys \ BootKeys /\ j.role \in KeyRoles
             /\ j.op = "revoke key" => j.on \in Keys
             /\ j.op = "enrol" => j.on \in Subjects /\ j.role \in StaffRoles
             /\ j.op = "revoke staff" => j.on \in Subjects
             /\ j.op \in {"create key", "revoke key", "enrol", "revoke staff"}
  BY DEF Jobs, JobsAt
<1>3. ASSUME NEW j \in Jobs
      PROVE  /\ Done(j) \in JobsAt("done")
             /\ Done(j).step = "done" /\ Done(j).op = j.op /\ Done(j).on = j.on
  BY DEF Jobs, JobsAt, Done
<1>4. Idle \notin Jobs /\ Loose \notin Jobs /\ Idle # Loose
  BY <1>1, <1>2
<1>5. \A j \in Jobs : Done(j) \notin Jobs /\ j # Idle /\ j # Loose
  BY <1>2, <1>3, <1>4
<1>6. Idle \in Steps /\ Loose \in Steps /\ \A j \in Jobs : Done(j) \in Steps
  BY <1>3 DEF Steps
<1> QED
  BY <1>1, <1>2, <1>3, <1>4, <1>5, <1>6

\* A request that has made its change made one an admin had asked for.
LEMMA DoneFacts ==
  ASSUME NEW x \in Steps, x.step = "done"
  PROVE  /\ x \notin Jobs /\ x # Idle
         /\ x.op = "create key" => x.on \in Keys \ BootKeys
         /\ x.on \in Keys => x.op \in {"create key", "revoke key"}
<1>1. x \in JobsAt("done")
  BY StepFacts DEF Steps
<1> QED
  BY <1>1, StepFacts, CredentialsAssumption DEF JobsAt

\* Then changes the step of one request.
LEMMA ThenFacts ==
  ASSUME CredentialsTypeOK, NEW q \in Requests, NEW next \in Steps, Then(q, next)
  PROVE  /\ request' \in [Requests -> Steps]
         /\ request'[q] = next
         /\ \A p \in Requests \ {q} : request'[p] = request[p]
BY DEF Then, CredentialsTypeOK, Steps

\* A statement that leaves keys, log and texts alone and puts its request into a
\* step that is neither a creation nor a finished revocation keeps the invariant.
LEMMA QuietStep ==
  ASSUME CredentialsInv, NEW q \in Requests, NEW next \in Steps, Then(q, next),
         next \in Jobs => next.op # "create key",
         next.step = "done" => next.op # "revoke key",
         UNCHANGED <<key, log, told>>,
         staff' \in [Subjects -> [state : States, role : StaffRoles]]
  PROVE  CredentialsInv'
<1>1. /\ request' \in [Requests -> Steps]
      /\ request'[q] = next
      /\ \A p \in Requests \ {q} : request'[p] = request[p]
  BY ThenFacts DEF CredentialsInv
<1>2. CredentialsTypeOK'
  BY <1>1 DEF CredentialsInv, CredentialsTypeOK, Steps
<1>3. \A p \in Requests, k \in Keys : Creating(p, k)' => Creating(p, k)
  BY <1>1 DEF Creating
<1>4. \A p \in Requests, k \in Keys : Revoked(p, k)' => Revoked(p, k)
  BY <1>1 DEF Revoked
<1>5. Recorded'
  BY DEF CredentialsInv, Recorded
<1>6. New'
  BY <1>3 DEF CredentialsInv, New
<1>7. Out'
  BY <1>4 DEF CredentialsInv, Out
<1> QED
  BY <1>2, <1>5, <1>6, <1>7 DEF CredentialsInv

\* An admin is let in to do any of the jobs, a creation only under an unused id.
LEMMA AdmitStep ==
  ASSUME CredentialsInv, NEW q \in Requests, NEW job \in Jobs, Unused(job),
         Then(q, job), UNCHANGED <<key, staff, log, told>>
  PROVE  CredentialsInv'
<1>1. job \in Steps /\ job # Idle /\ job # Loose /\ job.step # "done"
  BY StepFacts DEF Steps
<1>2. CASE job.op # "create key"
  BY <1>1, <1>2, QuietStep DEF CredentialsInv, CredentialsTypeOK
<1>3. CASE job.op = "create key"
  <2>1. /\ request' \in [Requests -> Steps]
        /\ request'[q] = job
        /\ \A p \in Requests \ {q} : request'[p] = request[p]
    BY <1>1, ThenFacts DEF CredentialsInv
  <2>2. CredentialsTypeOK'
    BY <2>1 DEF CredentialsInv, CredentialsTypeOK, Steps
  <2>3. key[job.on].state = "absent" /\ \A p \in Requests : ~Creating(p, job.on)
    BY <1>3, StepFacts DEF Unused, Creating
  <2>4. \A p \in Requests, k \in Keys :
          Creating(p, k)' => Creating(p, k) \/ (p = q /\ k = job.on)
    BY <2>1 DEF Creating
  <2>5. \A p \in Requests, k \in Keys : Revoked(p, k)' => Revoked(p, k)
    BY <1>1, <2>1 DEF Revoked
  <2>6. New'
    BY <2>3, <2>4 DEF CredentialsInv, New
  <2> QED
    BY <2>2, <2>5, <2>6 DEF CredentialsInv, Recorded, Out
<1> QED
  BY <1>2, <1>3

\* The change of create_key: the key was absent, and nobody else creates it.
LEMMA CreateStep ==
  ASSUME CredentialsInv, NEW q \in Requests, CreateKey(q)
  PROVE  CredentialsInv'
<1> DEFINE job == request[q]
<1>1. /\ job \in Jobs /\ job.op = "create key"
      /\ key' = [key EXCEPT ![job.on] = [state |-> "active", role |-> job.role]]
      /\ Then(q, Done(job))
      /\ UNCHANGED <<staff, log, told>>
  BY DEF CreateKey
<1>2. /\ job.on \in Keys \ BootKeys /\ job.role \in KeyRoles
      /\ Done(job) \in Steps /\ Done(job) \notin Jobs
      /\ Done(job).op = "create key"
  BY <1>1, StepFacts
<1>3. /\ request' \in [Requests -> Steps]
      /\ request'[q] = Done(job)
      /\ \A p \in Requests \ {q} : request'[p] = request[p]
  BY <1>1, <1>2, ThenFacts DEF CredentialsInv
<1>4. key' \in [Keys -> [state : States, role : KeyRoles]]
  BY <1>1, <1>2 DEF CredentialsInv, CredentialsTypeOK, States
<1>5. CredentialsTypeOK'
  BY <1>1, <1>3, <1>4 DEF CredentialsInv, CredentialsTypeOK, Steps
<1>6. \A k \in Keys \ {job.on} : key'[k] = key[k]
  BY <1>1 DEF CredentialsInv, CredentialsTypeOK
<1>7. Creating(q, job.on)
  BY <1>1 DEF Creating
<1>8. key[job.on].state = "absent" /\ \A p \in Requests : Creating(p, job.on) => p = q
  BY <1>2, <1>7 DEF CredentialsInv, New
<1>9. \A p \in Requests, k \in Keys : Creating(p, k)' => Creating(p, k) /\ p # q
  BY <1>2, <1>3 DEF Creating
<1>10. \A p \in Requests, k \in Keys : Revoked(p, k)' => Revoked(p, k)
  BY <1>2, <1>3 DEF Revoked
<1>11. New'
  BY <1>6, <1>8, <1>9 DEF CredentialsInv, New
<1>12. Out'
  BY <1>1, <1>6, <1>8, <1>10 DEF CredentialsInv, Out
<1>13. Recorded'
  BY <1>1 DEF CredentialsInv, Recorded
<1> QED
  BY <1>5, <1>11, <1>12, <1>13 DEF CredentialsInv

\* The change of revoke_key makes a row inactive for good.
LEMMA RevokeStep ==
  ASSUME CredentialsInv, NEW q \in Requests, RevokeKey(q)
  PROVE  CredentialsInv'
<1> DEFINE job == request[q]
<1>1. job \in Jobs /\ job.op = "revoke key" /\ UNCHANGED <<staff, log, told>>
  BY DEF RevokeKey
<1>2. CASE key[job.on].state = "absent"
  <2>1. Then(q, Idle) /\ UNCHANGED key
    BY <1>2 DEF RevokeKey
  <2> QED
    BY <1>1, <2>1, StepFacts, QuietStep DEF CredentialsInv, CredentialsTypeOK
<1>3. CASE key[job.on].state # "absent"
  <2>1. /\ Then(q, Done(job))
        /\ key' = [key EXCEPT ![job.on].state = "inactive"]
    BY <1>3 DEF RevokeKey
  <2>2. job.on \in Keys /\ Done(job) \in Steps /\ Done(job) \notin Jobs /\ Done(job).on = job.on
    BY <1>1, StepFacts
  <2>3. /\ request' \in [Requests -> Steps]
        /\ request'[q] = Done(job)
        /\ \A p \in Requests \ {q} : request'[p] = request[p]
    BY <2>1, <2>2, ThenFacts DEF CredentialsInv
  <2>4. /\ key' \in [Keys -> [state : States, role : KeyRoles]]
        /\ key'[job.on].state = "inactive"
        /\ \A k \in Keys \ {job.on} : key'[k] = key[k]
    BY <2>1, <2>2 DEF CredentialsInv, CredentialsTypeOK, States
  <2>5. CredentialsTypeOK'
    BY <1>1, <2>3, <2>4 DEF CredentialsInv, CredentialsTypeOK, Steps
  <2>6. \A p \in Requests, k \in Keys : Creating(p, k)' => Creating(p, k)
    BY <2>2, <2>3 DEF Creating
  <2>7. \A p \in Requests, k \in Keys : Revoked(p, k)' => Revoked(p, k) \/ k = job.on
    BY <2>2, <2>3 DEF Revoked
  <2>8. \A p \in Requests : ~Creating(p, job.on)
    BY <1>3, <2>2 DEF CredentialsInv, New
  <2>9. New'
    BY <2>4, <2>6, <2>8 DEF CredentialsInv, New
  <2>10. Out'
    BY <1>1, <2>4, <2>7 DEF CredentialsInv, Out
  <2> QED
    BY <1>1, <2>5, <2>9, <2>10 DEF CredentialsInv, Recorded
<1> QED
  BY <1>2, <1>3

\* enroll_staff and revoke_staff leave the keys alone.
LEMMA StaffStep ==
  ASSUME CredentialsInv, NEW q \in Requests, EnrollStaff(q) \/ RevokeStaff(q)
  PROVE  CredentialsInv'
<1> DEFINE job == request[q]
<1>1. CASE EnrollStaff(q)
  <2>1. /\ job \in Jobs /\ job.op = "enrol"
        /\ staff' = [staff EXCEPT ![job.on] = [state |-> "active", role |-> job.role]]
        /\ Then(q, Done(job))
        /\ UNCHANGED <<key, log, told>>
    BY <1>1 DEF EnrollStaff
  <2>2. staff' \in [Subjects -> [state : States, role : StaffRoles]]
    BY <2>1, StepFacts DEF CredentialsInv, CredentialsTypeOK, States
  <2> QED
    BY <2>1, <2>2, StepFacts, QuietStep
<1>2. CASE RevokeStaff(q)
  <2>1. /\ job \in Jobs /\ job.op = "revoke staff"
        /\ UNCHANGED <<key, log, told>>
    BY <1>2 DEF RevokeStaff
  <2>2. CASE staff[job.on].state = "absent"
    <3>1. Then(q, Idle) /\ UNCHANGED staff
      BY <1>2, <2>2 DEF RevokeStaff
    <3> QED
      BY <2>1, <3>1, StepFacts, QuietStep DEF CredentialsInv, CredentialsTypeOK
  <2>3. CASE staff[job.on].state # "absent"
    <3>1. Then(q, Done(job)) /\ staff' = [staff EXCEPT ![job.on].state = "inactive"]
      BY <1>2, <2>3 DEF RevokeStaff
    <3>2. job.on \in Subjects
      BY <2>1, StepFacts
    <3>3. staff' \in [Subjects -> [state : States, role : StaffRoles]]
      BY <3>1, <3>2 DEF CredentialsInv, CredentialsTypeOK, States
    <3> QED
      BY <2>1, <3>1, <3>3, StepFacts, QuietStep
  <2> QED
    BY <2>2, <2>3
<1> QED
  BY <1>1, <1>2

\* The audit row comes before the answer with the text of a new key.
LEMMA AuditStep ==
  ASSUME CredentialsInv, NEW q \in Requests, Audit(q)
  PROVE  CredentialsInv'
<1> DEFINE job == request[q]
<1>1. /\ job.step = "done"
      /\ log' = log \cup Row(job)
      /\ told' \in {told, IF job.op = "create key" THEN told \cup {job.on} ELSE told}
      /\ Then(q, Idle)
      /\ UNCHANGED <<key, staff>>
  BY DEF Audit
<1>2. job \in Steps
  BY DEF CredentialsInv, CredentialsTypeOK, Steps
<1>3. /\ job.op = "create key" => job.on \in Keys \ BootKeys
      /\ job.on \in Keys => job.op \in {"create key", "revoke key"}
  BY <1>1, <1>2, DoneFacts
<1>4. /\ request' \in [Requests -> Steps]
      /\ request'[q] = Idle
      /\ \A p \in Requests \ {q} : request'[p] = request[p]
  BY <1>1, StepFacts, ThenFacts DEF CredentialsInv
<1>5. Row(job) \subseteq {"create key", "revoke key"} \X Keys
  <2>1. CASE job.on \in Keys
    <3>1. <<job.op, job.on>> \in {"create key", "revoke key"} \X Keys
      BY <1>3, <2>1
    <3> QED
      BY <2>1, <3>1 DEF Row
  <2>2. CASE job.on \notin Keys
    BY <2>2 DEF Row
  <2> QED
    BY <2>1, <2>2
<1>6. told' \subseteq Keys
  BY <1>1, <1>3 DEF CredentialsInv, CredentialsTypeOK
<1>7. CredentialsTypeOK'
  BY <1>1, <1>4, <1>5, <1>6 DEF CredentialsInv, CredentialsTypeOK, Steps
<1>8. Recorded'
  BY <1>1, <1>3 DEF CredentialsInv, Recorded, Row
<1>9. \A p \in Requests, k \in Keys : Creating(p, k)' => Creating(p, k)
  BY <1>4, StepFacts DEF Creating
<1>10. New'
  BY <1>1, <1>9 DEF CredentialsInv, New
<1>11. \A p \in Requests, k \in Keys : Revoked(p, k)' => Revoked(p, k)
  BY <1>4, StepFacts DEF Revoked
<1>12. \A k \in Keys : <<"revoke key", k>> \in Row(job) => Revoked(q, k)
  BY <1>1 DEF Row, Revoked
<1>13. Out'
  BY <1>1, <1>11, <1>12 DEF CredentialsInv, Out
<1> QED
  BY <1>7, <1>8, <1>10, <1>13 DEF CredentialsInv

\* A boot writes the rows of the environment only.
LEMMA BootStep ==
  ASSUME CredentialsInv, Boot
  PROVE  CredentialsInv'
<1>1. /\ key' = [k \in Keys |->
            IF k \in BootKeys THEN [key[k] EXCEPT !.state = "active"] ELSE key[k]]
      /\ staff' = [s \in Subjects |->
            IF s \in BootStaff THEN [state |-> "active", role |-> "admin"] ELSE staff[s]]
      /\ UNCHANGED <<log, told, request>>
  BY DEF Boot
<1>2. CredentialsTypeOK'
  BY <1>1 DEF CredentialsInv, CredentialsTypeOK, States, StaffRoles
<1>3. \A k \in Keys \ BootKeys : key'[k] = key[k]
  BY <1>1
<1>4. \A p \in Requests, k \in Keys : Creating(p, k) => k \in Keys \ BootKeys
  BY StepFacts DEF Creating
<1>5. New'
  BY <1>1, <1>3, <1>4 DEF CredentialsInv, New, Creating
<1>6. Out'
  BY <1>1, <1>3 DEF CredentialsInv, Out, Revoked
<1> QED
  BY <1>1, <1>2, <1>5, <1>6 DEF CredentialsInv, Recorded

\* The invariant holds before the first boot.
LEMMA CredentialsInvInit == CredentialsInit => CredentialsInv
<1> SUFFICES ASSUME CredentialsInit PROVE CredentialsInv
  OBVIOUS
<1>1. CredentialsTypeOK
  BY CredentialsAssumption DEF CredentialsInit, CredentialsTypeOK, States, KeyRoles, StaffRoles
<1>2. Recorded
  BY DEF CredentialsInit, Recorded
<1>3. New
  BY StepFacts DEF CredentialsInit, New, Creating
<1>4. Out
  BY StepFacts DEF CredentialsInit, Out, Revoked
<1> QED
  BY <1>1, <1>2, <1>3, <1>4 DEF CredentialsInv

\* Every statement of every request, and every boot, keeps it.
LEMMA CredentialsInvNext == CredentialsInv /\ [CredentialsNext]_credentials_vars => CredentialsInv'
<1> SUFFICES ASSUME CredentialsInv, [CredentialsNext]_credentials_vars
             PROVE  CredentialsInv'
  OBVIOUS
<1>1. CASE UNCHANGED credentials_vars
  <2>1. CredentialsTypeOK' /\ Recorded'
    BY <1>1 DEF credentials_vars, CredentialsInv, CredentialsTypeOK, Recorded
  <2>2. New'
    BY <1>1 DEF credentials_vars, CredentialsInv, New, Creating
  <2>3. Out'
    BY <1>1 DEF credentials_vars, CredentialsInv, Out, Revoked
  <2> QED
    BY <2>1, <2>2, <2>3 DEF CredentialsInv
<1>2. CASE Boot
  BY <1>2, BootStep
<1>3. ASSUME NEW q \in Requests, NEW k \in Keys, AdmitKey(q, k)
      PROVE  CredentialsInv'
  <2>1. PICK job \in {j \in Jobs : Unused(j)} : Then(q, job)
    BY <1>3 DEF AdmitKey
  <2> QED
    BY <1>3, <2>1, AdmitStep DEF AdmitKey
<1>4. ASSUME NEW q \in Requests, NEW s \in Subjects, AdmitStaff(q, s)
      PROVE  CredentialsInv'
  <2>1. PICK job \in {j \in Jobs : Unused(j)} : Then(q, job)
    BY <1>4 DEF AdmitStaff
  <2> QED
    BY <1>4, <2>1, AdmitStep DEF AdmitStaff
<1>5. ASSUME NEW q \in Requests, NEW k \in Keys, AdmitUse(q, k)
      PROVE  CredentialsInv'
  BY <1>5, StepFacts, QuietStep DEF AdmitUse, CredentialsInv, CredentialsTypeOK
<1>6. ASSUME NEW q \in Requests, Leave(q)
      PROVE  CredentialsInv'
  BY <1>6, StepFacts, QuietStep DEF Leave, CredentialsInv, CredentialsTypeOK
<1> QED
  BY <1>1, <1>2, <1>3, <1>4, <1>5, <1>6, CreateStep, RevokeStep, StaffStep, AuditStep
     DEF CredentialsNext

\* Credentials keep their types, whatever requests run at once.
THEOREM CredentialsTypeCorrect == CredentialsSpec => []CredentialsTypeOK
<1>1. CredentialsInv => CredentialsTypeOK
  BY DEF CredentialsInv
<1> QED
  BY <1>1, CredentialsInvInit, CredentialsInvNext, PTL DEF CredentialsSpec

\* A key that opens a door was logged when it was made and never as revoked, unless
\* it is the bootstrap key, for any keys and requests (auth.rs:258, 310, 347).
THEOREM WorkingKeysAreOnRecord == CredentialsSpec => KeysLetInAreOnRecord
<1> DEFINE Checked ==
      \A q \in Requests, k \in Keys \ BootKeys :
        (AdmitKey(q, k) \/ AdmitUse(q, k)) =>
          <<"create key", k>> \in log /\ <<"revoke key", k>> \notin log
<1>1. CredentialsInv => Checked
  <2> SUFFICES ASSUME CredentialsInv, NEW q \in Requests, NEW k \in Keys \ BootKeys,
                      AdmitKey(q, k) \/ AdmitUse(q, k)
               PROVE  <<"create key", k>> \in log /\ <<"revoke key", k>> \notin log
    OBVIOUS
  <2>1. k \in told /\ key[k].state = "active"
    BY DEF AdmitKey, AdmitUse, Known
  <2> QED
    BY <2>1 DEF CredentialsInv, Recorded, Out
<1>2. CredentialsSpec => []CredentialsInv
  BY CredentialsInvInit, CredentialsInvNext, PTL DEF CredentialsSpec
<1> QED
  BY <1>1, <1>2, PTL DEF KeysLetInAreOnRecord

-----------------------------------------------------------------------------
(* RateLimit *)

\* Members are numbered in the order they were admitted.
Numbered ==
  \A s \in Sets :
    /\ IsFiniteSet(admitted[s])
    /\ \A x \in admitted[s] : x.n <= Cardinality(admitted[s])

\* A member's score is the time it was admitted by the clock of some replica.
Dated ==
  \A s \in Sets : \A x \in admitted[s] :
    x.at <= clock /\ \E r \in Doors : x.score = x.at + Ahead[r]

\* Redis keeps a set for as long as it keeps any of its members.
Expiring ==
  \A s \in Sets : \A x \in admitted[s] : x.at + Window <= gone[s]

\* What no replica can have taken for old is still counted.
Lasting ==
  \A s \in Sets :
    /\ scores[s] \subseteq admitted[s]
    /\ \A x \in admitted[s] : x.at > clock - (Window - Skew) => x \in scores[s]

LimiterInv == LimiterTypeOK /\ Numbered /\ Dated /\ Expiring /\ Lasting

\* A replica's threshold drops no member that is recent by the clock of Redis.
LEMMA ThresholdFacts ==
  ASSUME LimiterInv, NEW s \in Sets, NEW x \in admitted[s], NEW r \in Doors
  PROVE  /\ x.at > clock - (Window - Skew) => x.score > (clock + Ahead[r]) - Window
         /\ x.score > (clock + Ahead[r]) - Window => x.at > clock - (Window + Skew)
<1>1. PICK q \in Doors : x.score = x.at + Ahead[q]
  BY DEF LimiterInv, Dated
<1>2. /\ x.at \in Nat /\ clock \in Nat
      /\ Ahead[q] \in Int /\ Ahead[r] \in Int /\ Skew \in Nat /\ Window \in Nat
      /\ Ahead[r] - Ahead[q] <= Skew /\ Ahead[q] - Ahead[r] <= Skew
  BY RateLimitAssumption DEF LimiterInv, LimiterTypeOK, Members
<1> QED
  BY <1>1, <1>2

\* No set has anything in it at first.
LEMMA LimiterInvInit == LimiterInit => LimiterInv
  BY FS_EmptySet, RateLimitAssumption
  DEF LimiterInit, LimiterInv, LimiterTypeOK, Numbered, Dated, Expiring, Lasting

\* What the script of replica r counts in a set, the member it adds, and its two
\* outcomes.
Kept(s, r) == After(scores[s], (clock + Ahead[r]) - Window)
Entry(s, r) == [n |-> Cardinality(admitted[s]) + 1, score |-> clock + Ahead[r], at |-> clock]

Refuses(s, r) ==
  /\ refused[s] < MaxRefused
  /\ scores' = [scores EXCEPT ![s] = Kept(s, r)]
  /\ refused' = [refused EXCEPT ![s] = @ + 1]
  /\ UNCHANGED <<gone, admitted>>
  /\ UNCHANGED clock

Admits(s, r) ==
  /\ scores' = [scores EXCEPT ![s] = Kept(s, r) \cup {Entry(s, r)}]
  /\ gone' = [gone EXCEPT ![s] = clock + Window]
  /\ admitted' = [admitted EXCEPT ![s] = @ \cup {Entry(s, r)}]
  /\ UNCHANGED refused
  /\ UNCHANGED clock

LEMMA RequestCases ==
  ASSUME NEW c \in Callers, NEW b \in Buckets, NEW r \in Doors, LimiterRequest(c, b, r)
  PROVE  \E s \in Sets :
           /\ s = <<c, b>>
           /\ \/ Full(Kept(s, r), Limit[b]) /\ Refuses(s, r)
              \/ ~Full(Kept(s, r), Limit[b]) /\ Admits(s, r)
<1>1. <<c, b>> \in Sets
  BY DEF Sets
<1>2. \/ Full(Kept(<<c, b>>, r), Limit[b]) /\ Refuses(<<c, b>>, r)
      \/ ~Full(Kept(<<c, b>>, r), Limit[b]) /\ Admits(<<c, b>>, r)
  BY Zenon DEF LimiterRequest, Kept, Entry, Refuses, Admits
<1> QED
  BY <1>1, <1>2, Zenon

\* A refused request only drops members that are old for its replica.
LEMMA RefusedStep ==
  ASSUME LimiterInv, NEW s \in Sets, NEW r \in Doors, Refuses(s, r)
  PROVE  LimiterInv' /\ \A t \in Sets \ {s} : refused'[t] = refused[t]
<1>1. Numbered' /\ Dated' /\ Expiring'
  BY DEF LimiterInv, Numbered, Dated, Expiring, Refuses
<1>3. LimiterTypeOK' /\ \A t \in Sets \ {s} : refused'[t] = refused[t]
  BY RateLimitAssumption DEF LimiterInv, LimiterTypeOK, After, Kept, Refuses
<1>2. ASSUME NEW t \in Sets
      PROVE  /\ scores'[t] \subseteq admitted[t]
             /\ \A x \in admitted[t] : x.at > clock - (Window - Skew) => x \in scores'[t]
  BY ThresholdFacts DEF LimiterInv, LimiterTypeOK, Lasting, After, Kept, Refuses
<1> QED
  BY <1>1, <1>2, <1>3 DEF LimiterInv, Lasting, Refuses

\* An admitted request is a new member, the last of its set to expire.
LEMMA AdmittedStep ==
  ASSUME LimiterInv, NEW s \in Sets, NEW r \in Doors, Admits(s, r)
  PROVE  LimiterInv' /\ \A t \in Sets \ {s} : admitted'[t] = admitted[t]
<1> PICK new : new = Entry(s, r)
  OBVIOUS
<1>0. /\ scores' = [scores EXCEPT ![s] = Kept(s, r) \cup {new}]
      /\ gone' = [gone EXCEPT ![s] = clock + Window]
      /\ admitted' = [admitted EXCEPT ![s] = @ \cup {new}]
      /\ UNCHANGED <<clock, refused>>
  BY DEF Admits
<1>1. IsFiniteSet(admitted[s]) /\ Cardinality(admitted[s]) \in Nat
  BY FS_CardinalityType DEF LimiterInv, Numbered
<1>2. new \in Members /\ new.n = Cardinality(admitted[s]) + 1 /\ new.at = clock
  BY <1>1, RateLimitAssumption DEF LimiterInv, LimiterTypeOK, Members, Entry
<1>3. new \notin admitted[s]
  BY <1>1, <1>2 DEF LimiterInv, Numbered
<1>4. IsFiniteSet(admitted'[s]) /\ Cardinality(admitted'[s]) = Cardinality(admitted[s]) + 1
  <2>1. admitted'[s] = admitted[s] \cup {new}
    BY <1>0 DEF LimiterInv, LimiterTypeOK
  <2>2. /\ IsFiniteSet(admitted[s] \cup {new})
        /\ Cardinality(admitted[s] \cup {new}) = Cardinality(admitted[s]) + 1
    BY <1>1, <1>3, FS_AddElement
  <2> QED
    BY <2>1, <2>2
<1>5. LimiterTypeOK'
  BY <1>0, <1>2, RateLimitAssumption DEF LimiterInv, LimiterTypeOK, After, Kept
<1>6. \A t \in Sets \ {s} : /\ admitted'[t] = admitted[t]
                            /\ scores'[t] = scores[t]
                            /\ gone'[t] = gone[t]
  BY <1>0 DEF LimiterInv, LimiterTypeOK
<1>7. Numbered'
  <2>1. \A x \in admitted[s] : x.n \in Nat /\ x.n <= Cardinality(admitted[s])
    BY DEF LimiterInv, LimiterTypeOK, Numbered, Members
  <2>2. \A x \in admitted'[s] : x.n <= Cardinality(admitted'[s])
    BY <1>0, <1>1, <1>2, <1>4, <2>1 DEF LimiterInv, LimiterTypeOK
  <2> QED
    BY <1>4, <1>6, <2>2 DEF LimiterInv, Numbered
<1>8. Dated'
  BY <1>0, <1>2, <1>6, RateLimitAssumption DEF LimiterInv, LimiterTypeOK, Dated, Entry
<1>9. Expiring'
  <2>1. ASSUME NEW x \in admitted'[s]
        PROVE  x.at + Window <= clock + Window
    BY <1>0, <1>2, RateLimitAssumption DEF LimiterInv, LimiterTypeOK, Dated, Members
  <2> QED
    BY <1>0, <1>6, <2>1 DEF LimiterInv, LimiterTypeOK, Expiring
<1>10. Lasting'
  <2>1. ASSUME NEW x \in admitted'[s], x.at > clock - (Window - Skew)
        PROVE  x \in scores'[s]
    BY <1>0, <2>1, ThresholdFacts DEF LimiterInv, LimiterTypeOK, Lasting, After, Kept
  <2>2. scores'[s] \subseteq admitted'[s]
    BY <1>0 DEF LimiterInv, LimiterTypeOK, Lasting, After, Kept
  <2> QED
    BY <1>0, <1>6, <2>1, <2>2 DEF LimiterInv, Lasting
<1> QED
  BY <1>5, <1>6, <1>7, <1>8, <1>9, <1>10 DEF LimiterInv

\* A set that expires has no member that is recent.
LEMMA TickStep ==
  ASSUME LimiterInv, LimiterTick
  PROVE  LimiterInv'
<1>1. /\ clock \in Nat /\ clock' = clock + 1 /\ clock' \in 0..MaxClock
      /\ UNCHANGED <<gone, admitted, refused>>
      /\ Window \in Nat /\ Skew \in Nat
  BY RateLimitAssumption DEF LimiterTick, LimiterInv, LimiterTypeOK
<1>2. \A t \in Sets : \A x \in admitted[t] : x.at \in Nat /\ gone[t] \in Nat
  BY DEF LimiterInv, LimiterTypeOK, Members
<1>3. scores' = [t \in Sets |-> IF gone[t] <= clock + 1 THEN {} ELSE scores[t]]
  BY DEF LimiterTick
<1>4. LimiterTypeOK'
  BY <1>1, <1>3 DEF LimiterInv, LimiterTypeOK
<1>5. Numbered' /\ Dated' /\ Expiring'
  BY <1>1, <1>2 DEF LimiterInv, Numbered, Dated, Expiring
<1>6. ASSUME NEW t \in Sets
      PROVE  /\ scores'[t] \subseteq admitted[t]
             /\ \A x \in admitted[t] : x.at > clock' - (Window - Skew) => x \in scores'[t]
  BY <1>1, <1>2, <1>3 DEF LimiterInv, Lasting, Expiring
<1> QED
  BY <1>1, <1>4, <1>5, <1>6 DEF LimiterInv, Lasting

\* Requests and ticks keep the invariant.
LEMMA LimiterInvNext == LimiterInv /\ [LimiterNext]_limiter_vars => LimiterInv'
<1> SUFFICES ASSUME LimiterInv, [LimiterNext]_limiter_vars PROVE LimiterInv'
  OBVIOUS
<1>1. ASSUME NEW c \in Callers, NEW b \in Buckets, NEW r \in Doors, LimiterRequest(c, b, r)
      PROVE  LimiterInv'
  BY <1>1, RequestCases, RefusedStep, AdmittedStep
<1>2. CASE UNCHANGED limiter_vars
  BY <1>2 DEF limiter_vars, LimiterInv, LimiterTypeOK, Numbered, Dated, Expiring, Lasting
<1> QED
  BY <1>1, <1>2, TickStep DEF LimiterNext

\* What a window of the clock of Redis has seen is within what the script counts,
\* and what the script counts is within a longer window.
LEMMA CountFacts ==
  ASSUME LimiterInv, NEW s \in Sets, NEW r \in Doors,
         NEW kept, kept = Kept(s, r)
  PROVE  /\ Cardinality(kept) \in Nat
         /\ Since(s, clock - (Window - Skew)) \in Nat
         /\ Since(s, clock - (Window + Skew)) \in Nat
         /\ Since(s, clock - (Window - Skew)) <= Cardinality(kept)
         /\ Cardinality(kept) <= Since(s, clock - (Window + Skew))
<1> DEFINE near == {x \in admitted[s] : x.at > clock - (Window - Skew)}
           far  == {x \in admitted[s] : x.at > clock - (Window + Skew)}
<1>1. near \subseteq kept /\ kept \subseteq far /\ far \subseteq admitted[s]
  BY ThresholdFacts DEF LimiterInv, Lasting, After, Kept
<1>2. IsFiniteSet(far) /\ IsFiniteSet(kept) /\ IsFiniteSet(near)
  BY <1>1, FS_Subset DEF LimiterInv, Numbered
<1>3. /\ Cardinality(near) <= Cardinality(kept)
      /\ Cardinality(kept) <= Cardinality(far)
  BY <1>1, <1>2, FS_Subset
<1> QED
  BY <1>2, <1>3, FS_CardinalityType DEF Since

\* The sorted sets keep their types, and no two requests are one member.
THEOREM LimiterTypeCorrect == LimiterSpec => []LimiterTypeOK
<1>1. LimiterInv => LimiterTypeOK
  BY DEF LimiterInv
<1> QED
  BY <1>1, LimiterInvInit, LimiterInvNext, PTL DEF LimiterSpec

\* No caller gets more than a bucket's limit through in a window shortened by the
\* skew of the clocks, and a request that is answered 429 comes from a caller who has
\* had the limit of that bucket in a window lengthened by it, for any number of
\* replicas (rate_limit.rs:37, 142).
THEOREM BudgetsAreHeld == LimiterSpec => BudgetsHold
<1> DEFINE Within(c, b) ==
      LET s == <<c, b>>
      IN  /\ admitted'[s] # admitted[s] => Since(s, clock - (Window - Skew)) < Limit[b]
          /\ refused'[s] # refused[s] => Since(s, clock - (Window + Skew)) >= Limit[b]
<1>1. ASSUME LimiterInv, NEW c \in Callers, NEW b \in Buckets, NEW r \in Doors,
             LimiterRequest(c, b, r), NEW d \in Callers, NEW a \in Buckets
      PROVE  Within(d, a)
  <2>1. PICK s \in Sets :
          /\ s = <<c, b>>
          /\ \/ Full(Kept(s, r), Limit[b]) /\ Refuses(s, r)
             \/ ~Full(Kept(s, r), Limit[b]) /\ Admits(s, r)
    BY <1>1, RequestCases
  <2>2. Limit[a] \in Nat /\ Limit[b] \in Nat /\ <<d, a>> \in Sets
    BY RateLimitAssumption DEF Sets
  <2>3. CASE <<d, a>> # s
    BY <1>1, <2>1, <2>2, <2>3, RefusedStep, AdmittedStep DEF Refuses, Admits
  <2>4. CASE <<d, a>> = s /\ Full(Kept(s, r), Limit[b]) /\ Refuses(s, r)
    <3>1. admitted' = admitted /\ a = b
      BY <2>1, <2>4 DEF Refuses
    <3> QED
      BY <1>1, <2>1, <2>2, <2>4, <3>1, CountFacts DEF Full
  <2>5. CASE <<d, a>> = s /\ ~Full(Kept(s, r), Limit[b]) /\ Admits(s, r)
    <3>1. refused' = refused /\ a = b
      BY <2>1, <2>5 DEF Admits
    <3> QED
      BY <1>1, <2>1, <2>2, <2>5, <3>1, CountFacts DEF Full
  <2> QED
    BY <2>1, <2>3, <2>4, <2>5
<1>2. ASSUME LimiterInv, LimiterNext
      PROVE  \A c \in Callers, b \in Buckets : Within(c, b)
  <2>1. CASE LimiterTick
    BY <2>1 DEF LimiterTick
  <2> QED
    BY <1>1, <1>2, <2>1 DEF LimiterNext
<1>3. LimiterInv /\ [LimiterNext]_limiter_vars =>
        [\A c \in Callers, b \in Buckets : Within(c, b)]_limiter_vars
  BY <1>2
<1>4. LimiterSpec => []LimiterInv
  BY LimiterInvInit, LimiterInvNext, PTL DEF LimiterSpec
<1> QED
  BY <1>3, <1>4, PTL DEF BudgetsHold, LimiterSpec
-----------------------------------------------------------------------------
(* The Idempotency-Key *)

Working == {a \in Attempts : pc[a] \in {"held", "created"}}

\* What has been answered or will be is booked.
Backed ==
  /\ row.state = "completed" => row.order \in booked
  /\ \A a \in Attempts : pc[a] = "created" => a \in booked

Vacant == booked = {} /\ \A a \in Attempts : pc[a] \notin {"reading", "held", "created"}

Taken ==
  \E h \in Attempts :
    /\ Working = {h}
    /\ row.age = "fresh" /\ row.hash = body[h]
    /\ booked = {a \in {h} : pc[a] = "created"}

Settled == Working = {} /\ booked = {row.order} /\ row.hash = body[row.order]

Matching == \A a \in Attempts : reply[a] # NoOrder => body[reply[a]] = body[a]

Calm ==
  /\ row = NoRow => Vacant
  /\ row.state = "pending" => Taken
  /\ row.state = "completed" => Settled
  /\ Matching

IInv == TypeOK /\ Backed /\ (Undisturbed => Calm)

-----------------------------------------------------------------------------
\* A row is absent, pending or completed, and has the fields of its state.
LEMMA RowCases ==
  ASSUME TypeOK
  PROVE  \/ row = NoRow /\ row.state = "none"
         \/ /\ row.state = "pending" /\ row # NoRow
            /\ row.hash \in Bodies /\ row.age \in {"fresh", "stale"}
            /\ row = [state |-> "pending", hash |-> row.hash, age |-> row.age]
         \/ /\ row.state = "completed" /\ row # NoRow
            /\ row.hash \in Bodies /\ row.order \in Attempts
  BY DEF TypeOK, Rows, NoRow

LEMMA IInvInit == Init => IInv
  BY IdempotencyAssumption
  DEF Init, IInv, TypeOK, Backed, Calm, Vacant, Matching, NoRow, Ended

\* An attempt that goes on without an answer keeps the types.
LEMMA GotoTypes ==
  ASSUME TypeOK, UNCHANGED <<row, body, booked>>, NEW a \in Attempts, pc[a] # "answered",
         NEW l \in {"inserting", "refused", "held"}, Goto(a, l)
  PROVE  TypeOK'
<1>1. /\ pc' \in [Attempts -> {"new"} \cup Running \cup Ended]
      /\ \A b \in Attempts : pc'[b] = "answered" <=> pc[b] = "answered"
  BY DEF Goto, TypeOK, Running, Ended
<1> QED
  BY <1>1 DEF Goto, TypeOK

\* An attempt that answers with an order does, too.
LEMMA RespondTypes ==
  ASSUME TypeOK, UNCHANGED <<row, body, booked>>, NEW a \in Attempts,
         NEW o \in Attempts, Respond(a, o)
  PROVE  TypeOK'
<1>1. /\ pc' \in [Attempts -> {"new"} \cup Running \cup Ended]
      /\ reply' \in [Attempts -> Attempts \cup {NoOrder}]
  BY DEF Respond, TypeOK, Running, Ended
<1>2. \A b \in Attempts : reply'[b] # NoOrder <=> pc'[b] = "answered"
  BY IdempotencyAssumption DEF Respond, TypeOK
<1> QED
  BY <1>1, <1>2 DEF TypeOK

\* Every step of an attempt, the ageing of a row and the sweep keep the types.
LEMMA TypeNext == TypeOK /\ [Next]_vars => TypeOK'
<1> SUFFICES ASSUME TypeOK, [Next]_vars PROVE TypeOK'
  OBVIOUS
<1>1. ASSUME NEW a \in Attempts, AttemptStep(a)
      PROVE  TypeOK'
  <2>1. CASE ReplayIfCompleted(a)
    <3>1. \/ pc[a] = "new" /\ Goto(a, "inserting")
          \/ pc[a] = "new" /\ Goto(a, "refused")
          \/ row.state = "completed" /\ Respond(a, row.order)
      BY <2>1 DEF ReplayIfCompleted
    <3>2. UNCHANGED <<row, body, booked>>
      BY <2>1 DEF ReplayIfCompleted
    <3> QED
      BY <3>1, <3>2, RowCases, GotoTypes, RespondTypes DEF TypeOK
  <2>2. CASE Reserve(a)
    <3>1. [state |-> "pending", hash |-> body[a], age |-> "fresh"] \in Rows
      BY DEF TypeOK, Rows
    <3>2. row' \in {NoRow} \cup Rows
      BY <2>2, <3>1 DEF Reserve, TypeOK
    <3> QED
      BY <2>2, <3>2 DEF Reserve, TypeOK, Goto, Running, Ended
  <2>3. CASE ReadReserved(a)
    <3>1. \/ pc[a] = "reading" /\ Goto(a, "held")
          \/ pc[a] = "reading" /\ Goto(a, "refused")
          \/ row.state = "completed" /\ Respond(a, row.order)
      BY <2>3, RowCases DEF ReadReserved
    <3>2. UNCHANGED <<row, body, booked>>
      BY <2>3 DEF ReadReserved
    <3> QED
      BY <3>1, <3>2, RowCases, GotoTypes, RespondTypes DEF TypeOK
  <2>4. CASE Book(a) \/ BookFails(a) \/ CommitUnacknowledged(a) \/ Crash(a)
    BY <2>4 DEF Book, BookFails, CommitUnacknowledged, Crash, TypeOK, Goto, Running, Ended
  <2>5. CASE Release(a)
    BY <2>5 DEF Release, TypeOK, Goto, Running, Ended
  <2>6. CASE Complete(a)
    BY <2>6, RowCases, IdempotencyAssumption
    DEF Complete, TypeOK, Rows, Respond, Running, Ended
  <2> QED
    BY <1>1, <2>1, <2>2, <2>3, <2>4, <2>5, <2>6 DEF AttemptStep
<1>2. CASE GrowStale
  <2>1. row' \in Rows
    BY <1>2, RowCases DEF GrowStale, Rows
  <2> QED
    BY <1>2, <2>1 DEF GrowStale, TypeOK
<1>3. CASE Sweep
  BY <1>3 DEF Sweep, TypeOK
<1>4. CASE UNCHANGED vars
  BY <1>4 DEF vars, TypeOK
<1> QED
  BY <1>1, <1>2, <1>3, <1>4 DEF Next

\* Bookings are forgotten only with the row that answers for them.
LEMMA BackedNext == TypeOK /\ Backed /\ [Next]_vars => Backed'
<1> SUFFICES ASSUME TypeOK, Backed, [Next]_vars PROVE Backed'
  OBVIOUS
<1>1. ASSUME NEW a \in Attempts, AttemptStep(a)
      PROVE  Backed'
  <2>1. CASE ReplayIfCompleted(a) \/ ReadReserved(a) \/ BookFails(a) \/ Crash(a)
    BY <2>1 DEF ReplayIfCompleted, ReadReserved, BookFails, Crash, TypeOK, Backed, Respond, Goto
  <2>2. CASE Reserve(a)
    BY <2>2 DEF Reserve, TypeOK, Backed, Goto
  <2>3. CASE Book(a) \/ CommitUnacknowledged(a)
    BY <2>3 DEF Book, CommitUnacknowledged, TypeOK, Backed, Goto
  <2>4. CASE Release(a)
    BY <2>4 DEF Release, TypeOK, Backed, Goto, NoRow
  <2>5. CASE Complete(a)
    BY <2>5 DEF Complete, TypeOK, Backed, Respond
  <2> QED
    BY <1>1, <2>1, <2>2, <2>3, <2>4, <2>5 DEF AttemptStep
<1>2. CASE GrowStale
  BY <1>2, RowCases DEF GrowStale, Backed
<1>3. CASE Sweep
  BY <1>3 DEF Sweep, TypeOK, Backed, Abandoned, Running, NoRow
<1>4. CASE UNCHANGED vars
  BY <1>4 DEF vars, Backed
<1> QED
  BY <1>1, <1>2, <1>3, <1>4 DEF Next

-----------------------------------------------------------------------------
\* Who failed or died stays so.
LEMMA UndisturbedBefore ==
  ASSUME TypeOK, Undisturbed', NEW a \in Attempts, AttemptStep(a)
  PROVE  Undisturbed
  BY DEF Undisturbed, TypeOK, AttemptStep, ReplayIfCompleted, Reserve, ReadReserved, Book,
         BookFails, CommitUnacknowledged, Release, Complete, Crash, Goto, Respond

\* The replay looks at the row and takes no key.
LEMMA ReplayIsCalm ==
  ASSUME TypeOK, Calm, NEW a \in Attempts, ReplayIfCompleted(a) \/ ReadReserved(a)
  PROVE  Calm'
<1>1. \/ pc[a] = "new" /\ pc' = [pc EXCEPT ![a] = "inserting"] /\ UNCHANGED reply
      \/ pc' = [pc EXCEPT ![a] = "refused"] /\ UNCHANGED reply
      \/ /\ row.state = "completed" /\ row.hash = body[a]
         /\ pc' = [pc EXCEPT ![a] = "answered"] /\ reply' = [reply EXCEPT ![a] = row.order]
  BY RowCases DEF ReplayIfCompleted, ReadReserved, Goto, Respond, Calm, Vacant
<1>2. pc[a] \notin {"held", "created"} /\ UNCHANGED <<row, body, booked>>
  BY DEF ReplayIfCompleted, ReadReserved
<1>3. /\ Working' = Working
      /\ \A h \in Working : pc'[h] = pc[h]
      /\ \A h \in Attempts : pc'[h] = "reading" => pc[h] = "reading"
  BY <1>1, <1>2 DEF TypeOK, Working
<1>4. Matching'
  BY <1>1, <1>2 DEF TypeOK, Calm, Settled, Matching
<1>5. row.state = "pending" => Taken'
  BY <1>2, <1>3 DEF Calm, Taken
<1> QED
  BY <1>2, <1>3, <1>4, <1>5 DEF Calm, Vacant, Settled, Working

\* The INSERT finds no row only when nobody has the key.
LEMMA ReserveIsCalm ==
  ASSUME TypeOK, Calm, NEW a \in Attempts, Reserve(a)
  PROVE  Calm'
<1>1. pc[a] = "inserting" /\ UNCHANGED <<body, booked, reply>>
  BY DEF Reserve, Goto
<1>2. CASE row = NoRow
  <2>1. /\ row' = [state |-> "pending", hash |-> body[a], age |-> "fresh"]
        /\ pc' = [pc EXCEPT ![a] = "held"]
    BY <1>2 DEF Reserve, Goto
  <2>2. Working' = {a} /\ booked = {} /\ pc'[a] = "held"
    BY <1>2, <2>1 DEF TypeOK, Calm, Vacant, Working
  <2>3. Taken'
    BY <1>1, <2>1, <2>2 DEF Taken
  <2> QED
    BY <1>1, <2>1, <2>3 DEF Calm, Matching, NoRow
<1>3. CASE row # NoRow
  <2>1. UNCHANGED row /\ pc' = [pc EXCEPT ![a] = "reading"]
    BY <1>3 DEF Reserve, Goto
  <2>2. Working' = Working /\ \A h \in Working : pc'[h] = pc[h]
    BY <1>1, <2>1 DEF TypeOK, Working
  <2>3. Taken => Taken'
    BY <1>1, <2>1, <2>2 DEF Taken
  <2> QED
    BY <1>1, <1>3, <2>1, <2>2, <2>3 DEF Calm, Settled, Matching
<1> QED
  BY <1>2, <1>3

\* Who books is the one that has the key.
LEMMA BookIsCalm ==
  ASSUME TypeOK, Calm, NEW a \in Attempts, Book(a)
  PROVE  Calm'
<1>1. /\ pc[a] = "held" /\ pc' = [pc EXCEPT ![a] = "created"]
      /\ booked' = booked \cup {a} /\ UNCHANGED <<row, body, reply>>
  BY DEF Book, Goto
<1>2. a \in Working /\ Working' = Working
  BY <1>1 DEF TypeOK, Working
<1>3. row.state = "pending" /\ row # NoRow
  BY <1>1, <1>2, RowCases DEF Calm, Vacant, Settled
<1>4. PICK h \in Attempts : /\ Working = {h}
                            /\ row.age = "fresh" /\ row.hash = body[h]
                            /\ booked = {x \in {h} : pc[x] = "created"}
  BY <1>3 DEF Calm, Taken
<1>5. h = a /\ booked = {}
  BY <1>1, <1>2, <1>4
<1>6. Taken'
  <2>1. pc'[a] = "created" /\ booked' = {a}
    BY <1>1, <1>5 DEF TypeOK
  <2> QED
    BY <1>1, <1>2, <1>4, <1>5, <2>1 DEF Taken
<1> QED
  BY <1>1, <1>3, <1>6 DEF Calm, Matching

\* Who stores the response is the one that booked.
LEMMA CompleteIsCalm ==
  ASSUME TypeOK, Calm, NEW a \in Attempts, Complete(a)
  PROVE  Calm'
<1>1. /\ pc[a] = "created" /\ pc' = [pc EXCEPT ![a] = "answered"]
      /\ reply' = [reply EXCEPT ![a] = a] /\ UNCHANGED <<body, booked>>
  BY DEF Complete, Respond
<1>2. a \in Working /\ Working' = Working \ {a}
  BY <1>1 DEF TypeOK, Working
<1>3. row.state = "pending" /\ row # NoRow
  BY <1>1, <1>2, RowCases DEF Calm, Vacant, Settled
<1>4. PICK h \in Attempts : /\ Working = {h}
                            /\ row.age = "fresh" /\ row.hash = body[h]
                            /\ booked = {x \in {h} : pc[x] = "created"}
  BY <1>3 DEF Calm, Taken
<1>5. h = a /\ booked = {a} /\ row.hash = body[a]
  BY <1>1, <1>2, <1>4
<1>6. row' = [state |-> "completed", hash |-> row.hash, order |-> a]
  BY <1>3 DEF Complete
<1>7. Settled'
  BY <1>1, <1>2, <1>4, <1>5, <1>6 DEF Settled
<1>8. Matching'
  BY <1>1 DEF TypeOK, Calm, Matching
<1> QED
  BY <1>6, <1>7, <1>8 DEF Calm, NoRow

\* While a row is pending its attempt is at work, so it neither grows stale nor is
\* swept; a completed row is swept with what it answers for.
LEMMA SweepIsCalm ==
  ASSUME TypeOK, Calm, GrowStale \/ Sweep
  PROVE  Calm'
<1>1. row.state # "pending"
  <2>1. ASSUME row.state = "pending"
        PROVE  row.age = "fresh" /\ ~Abandoned
    BY <2>1 DEF Calm, Taken, Working, Abandoned, Running
  <2> QED
    BY <2>1 DEF GrowStale, Sweep
<1>2. /\ row.state = "completed" /\ Abandoned /\ booked' = {} /\ row' = NoRow
      /\ UNCHANGED <<pc, body, reply>>
  BY <1>1 DEF GrowStale, Sweep
<1>3. Vacant'
  BY <1>2 DEF Vacant, Abandoned, Running
<1> QED
  BY <1>2, <1>3 DEF Calm, Matching, NoRow

\* The inductive invariant is preserved: a step that leaves nobody failed or dead is
\* none of those that fail.
LEMMA IInvNext == IInv /\ [Next]_vars => IInv'
<1> SUFFICES ASSUME IInv, [Next]_vars, Undisturbed' PROVE Calm'
  BY TypeNext, BackedNext DEF IInv
<1>1. ASSUME NEW a \in Attempts, AttemptStep(a)
      PROVE  Calm'
  <2>1. Undisturbed /\ pc'[a] \notin {"failed", "gave back", "dead"}
    BY <1>1, UndisturbedBefore DEF IInv, Undisturbed
  <2>2. ~(BookFails(a) \/ CommitUnacknowledged(a) \/ Release(a) \/ Crash(a))
    BY <2>1 DEF IInv, TypeOK, BookFails, CommitUnacknowledged, Release, Crash, Goto
  <2> QED
    BY <1>1, <2>1, <2>2, ReplayIsCalm, ReserveIsCalm, BookIsCalm, CompleteIsCalm
    DEF IInv, AttemptStep
<1>2. CASE GrowStale \/ Sweep
  <2>1. Undisturbed
    BY <1>2 DEF Undisturbed, GrowStale, Sweep
  <2> QED
    BY <1>2, <2>1, SweepIsCalm DEF IInv
<1>3. CASE UNCHANGED vars
  <2>1. Undisturbed /\ Working' = Working
    BY <1>3 DEF vars, Undisturbed, Working
  <2>2. /\ Vacant' <=> Vacant
        /\ Taken' <=> Taken
        /\ Settled' <=> Settled
        /\ Matching' <=> Matching
    BY <1>3, <2>1 DEF vars, Vacant, Taken, Settled, Matching
  <2> QED
    BY <1>3, <2>1, <2>2 DEF vars, IInv, Calm
<1> QED
  BY <1>1, <1>2, <1>3 DEF Next

LEMMA Invariance == Spec => []IInv
  BY IInvInit, IInvNext, PTL DEF Spec

-----------------------------------------------------------------------------
\* The row, the attempts and their answers keep their types.
THEOREM TypeCorrect == Spec => []TypeOK
<1>1. IInv => TypeOK
  BY DEF IInv
<1> QED
  BY <1>1, Invariance, PTL

\* However many retries race with each other and the sweep, at most one of them
\* books as long as none fails (idempotency.rs:3).
THEOREM RacingRetriesBook == Spec => []RacingRetriesBookOnce
<1>1. IInv => RacingRetriesBookOnce
  <2> SUFFICES ASSUME TypeOK, Calm PROVE Cardinality(booked) <= 1
    BY DEF IInv, RacingRetriesBookOnce, OneBooking
  <2>1. booked = {} \/ \E a \in Attempts : booked = {a}
    BY RowCases DEF Calm, Vacant, Taken, Settled
  <2> QED
    BY <2>1, FS_EmptySet, FS_Singleton, 0 <= 1, 1 <= 1
<1> QED
  BY <1>1, Invariance, PTL

\* As long as no attempt fails, a replay answers with the order of an identical
\* request (idempotency.rs:18).
THEOREM ReplaysMatch == Spec => []ReplayMatchesRequest
<1>1. IInv => ReplayMatchesRequest
  BY DEF IInv, Calm, Matching, ReplayMatchesRequest
<1> QED
  BY <1>1, Invariance, PTL

\* What a 201 names has committed, whatever failed or died on the way
\* (orders.rs, the create handler).
THEOREM AnswersAreBooked == Spec => RepliesAreBookings
<1>1. IInv /\ [Next]_vars =>
        \A a \in Attempts : reply'[a] # reply[a] => reply'[a] \in booked'
  <2> SUFFICES ASSUME IInv, [Next]_vars, NEW a \in Attempts, reply'[a] # reply[a]
               PROVE  reply'[a] \in booked'
    OBVIOUS
  <2>1. PICK b \in Attempts : ReplayIfCompleted(b) \/ ReadReserved(b) \/ Complete(b)
    BY DEF Next, vars, AttemptStep, Reserve, Book, BookFails, CommitUnacknowledged, Release,
           Crash, GrowStale, Sweep, Goto
  <2>2. b = a /\ UNCHANGED booked
    BY <2>1 DEF IInv, TypeOK, ReplayIfCompleted, ReadReserved, Complete, Goto, Respond
  <2>3. CASE ReplayIfCompleted(a) \/ ReadReserved(a)
    BY <2>2, <2>3, RowCases
    DEF IInv, TypeOK, Backed, ReplayIfCompleted, ReadReserved, Goto, Respond
  <2>4. CASE Complete(a)
    BY <2>2, <2>4 DEF IInv, TypeOK, Backed, Complete, Respond
  <2> QED
    BY <2>1, <2>2, <2>3, <2>4
<1> QED
  BY <1>1, Invariance, PTL DEF Spec, RepliesAreBookings

=============================================================================
