------------------------------- MODULE Holds -------------------------------
(***************************************************************************)
(* Soft holds in Redis (crates/lulan-engine/src/inventory/holds.rs) on the  *)
(* seats of one trip, as POST and DELETE /v1/holds use them.                *)
(*                                                                         *)
(* A Redis command, or the acquire script, is one atomic step; a request is *)
(* a sequence of them, interleaved with those of other requests and with    *)
(* the clock.  The clock counts units of the shortest hold; application     *)
(* servers and Redis share it.  A request that fails half-way (`?` on a     *)
(* Redis error, a crash) leaves behind what it acquired; so does a rollback *)
(* for a seat whose release fails, and it answers all the same.             *)
(***************************************************************************)
EXTENDS Integers, Sequences, FiniteSetsExt

CONSTANTS Units,                  \* seats of the trip
          Sessions,               \* POST /v1/holds requests
          Segs,                   \* segments of the route
          Itineraries,            \* what requests ask for: sequences of seat spans
          Ttls,                   \* hold TTLs, after the clamp
          INDEX_TTL_MULTIPLIER,
          Ceiling,                \* seats of the trip that may be held at once
          MaxTime                 \* bound on the clock

SeatSpans == [unit : Units, span : SUBSET Segs \ {{}}]

ASSUME HoldsAssumption ==
  /\ IsFiniteSet(Units)
  /\ Itineraries \subseteq Seq(SeatSpans) \ {<<>>}
  /\ Ttls \subseteq Nat \ {0}
  /\ INDEX_TTL_MULTIPLIER \in Nat \ {0}
  /\ Ceiling \in Nat
  /\ MaxTime \in Nat

VARIABLES now,
          hash,       \* unit hashes: entries hold_id -> expires_ms:mask
          hashExp,    \* PEXPIRE of each unit hash
          index,      \* the trip's index set
          indexExp,   \* PEXPIRE of the index
          pc,         \* where each request is
          todo,       \* seats a request has still to acquire
          mine,       \* seats it acquired, with the expiry it was given
          ttl,        \* its TTL
          unindex,    \* seat its release found empty and is about to SREM
          stale,      \* members a reader found without live holds, not yet SREM'd
          lost,       \* history: seats whose release failed in its rollback
          refusedAt   \* history: the live count when a request met the ceiling

keys     == <<hash, hashExp, index, indexExp>>
requests == <<pc, todo, mine, ttl, unindex, lost, refusedAt>>
vars     == <<now, keys, requests, stale>>

Never == -1

Entries == [id : Sessions, exp : Nat, span : SUBSET Segs]

TypeOK ==
  /\ now \in 0..MaxTime
  /\ hash \in [Units -> SUBSET Entries]
  /\ hashExp \in [Units -> Nat]
  /\ \A u \in Units : \A e \in hash[u] : e.exp <= hashExp[u]
  /\ index \subseteq Units
  /\ indexExp \in Nat
  /\ pc \in [Sessions -> {"new", "counting", "acquiring", "rollback", "granted",
                          "releasing", "refused", "failed", "released"}]
  /\ todo \in [Sessions -> Seq(SeatSpans)]
  /\ mine \in [Sessions -> SUBSET [unit : Units, exp : Nat]]
  /\ ttl \in [Sessions -> Ttls \cup {0}]
  /\ unindex \in [Sessions -> SUBSET Units]
  /\ stale \subseteq Units
  /\ lost \in [Sessions -> SUBSET [unit : Units, exp : Nat]]
  /\ refusedAt \in [Sessions -> Nat \cup {Never}]

Init ==
  /\ now = 0
  /\ hash = [u \in Units |-> {}]
  /\ hashExp = [u \in Units |-> 0]
  /\ index = {}
  /\ indexExp = 0
  /\ pc = [x \in Sessions |-> "new"]
  /\ todo = [x \in Sessions |-> <<>>]
  /\ mine = [x \in Sessions |-> {}]
  /\ ttl = [x \in Sessions |-> 0]
  /\ unindex = [x \in Sessions |-> {}]
  /\ stale = {}
  /\ lost = [x \in Sessions |-> {}]
  /\ refusedAt = [x \in Sessions |-> Never]

Live(u)   == {e \in hash[u] : e.exp > now}
LiveUnits == {u \in Units : Live(u) # {}}

\* A request that answered keeps no locals.
Answer(x, result) ==
  /\ pc' = [pc EXCEPT ![x] = result]
  /\ todo' = [todo EXCEPT ![x] = <<>>]
  /\ mine' = [mine EXCEPT ![x] = {}]
  /\ ttl' = [ttl EXCEPT ![x] = 0]

-----------------------------------------------------------------------------
(* create_hold: the ceiling *)

Request(x) ==
  /\ pc[x] = "new"
  /\ \E r \in Itineraries, d \in Ttls :
       /\ todo' = [todo EXCEPT ![x] = r]
       /\ ttl' = [ttl EXCEPT ![x] = d]
  /\ pc' = [pc EXCEPT ![x] = "counting"]
  /\ UNCHANGED <<now, keys, mine, unindex, stale, lost, refusedAt>>

\* held_unit_count: SCARD below the ceiling, recomputed at or above it.
HeldUnitCount ==
  IF Cardinality(index) < Ceiling THEN Cardinality(index)
  ELSE Cardinality(LiveUnits \cap index)

\* The check, by itself: nothing is reserved until the acquire scripts run.  It
\* is off unless a ceiling is set, and an error in measuring allows the hold.
CheckCeiling(x) ==
  /\ pc[x] = "counting"
  /\ \/ /\ HeldUnitCount + Len(todo[x]) > Ceiling
        /\ Answer(x, "refused")
        /\ refusedAt' = [refusedAt EXCEPT ![x] = Cardinality(LiveUnits) + Len(todo[x])]
     \/ /\ pc' = [pc EXCEPT ![x] = "acquiring"]
        /\ UNCHANGED <<todo, mine, ttl, refusedAt>>
  /\ UNCHANGED <<now, keys, unindex, stale, lost>>

-----------------------------------------------------------------------------
(* acquire_itinerary: one script per seat *)

\* The masks the script ORs together: entries it did not prune.
HeldMask(u) == UNION {e.span : e \in Live(u)}

AdmitsOwnTtl(x, u, span) ==                  \* mutant: PEXPIRE key ttl
  LET e == [id |-> x, exp |-> now + ttl[x], span |-> span]
  IN  /\ hash' = [hash EXCEPT ![u] = Live(u) \cup {e}]
      /\ hashExp' = [hashExp EXCEPT ![u] = e.exp]
      /\ index' = index \cup {u}
      /\ indexExp' = now + ttl[x] * INDEX_TTL_MULTIPLIER

\* The script's writes when no live mask overlaps.
Admits(x, u, span) ==
  LET e == [id |-> x, exp |-> now + ttl[x], span |-> span]
  IN  /\ hash' = [hash EXCEPT ![u] = Live(u) \cup {e}]
      /\ hashExp' = [hashExp EXCEPT ![u] = Max({f.exp : f \in Live(u) \cup {e}})]
      /\ index' = index \cup {u}
      /\ indexExp' = now + ttl[x] * INDEX_TTL_MULTIPLIER

AcquireAnyFree(x) ==                         \* mutant: refuses only a fully held seat
  /\ pc[x] = "acquiring" /\ todo[x] # <<>>
  /\ LET s == Head(todo[x])
     IN  /\ ~(s.span \subseteq HeldMask(s.unit))
         /\ Admits(x, s.unit, s.span)
         /\ mine' = [mine EXCEPT ![x] = @ \cup {[unit |-> s.unit, exp |-> now + ttl[x]]}]
  /\ todo' = [todo EXCEPT ![x] = Tail(@)]
  /\ UNCHANGED <<now, pc, ttl, unindex, stale, lost, refusedAt>>

\* The script admits the seat.
Acquire(x) ==
  /\ pc[x] = "acquiring" /\ todo[x] # <<>>
  /\ LET s == Head(todo[x])
     IN  /\ HeldMask(s.unit) \cap s.span = {}
         /\ Admits(x, s.unit, s.span)
         /\ mine' = [mine EXCEPT ![x] = @ \cup {[unit |-> s.unit, exp |-> now + ttl[x]]}]
  /\ todo' = [todo EXCEPT ![x] = Tail(@)]
  /\ UNCHANGED <<now, pc, ttl, unindex, stale, lost, refusedAt>>

\* With every seat acquired, the itinerary key is set.
Grant(x) ==
  /\ pc[x] = "acquiring" /\ todo[x] = <<>>
  /\ pc' = [pc EXCEPT ![x] = "granted"]
  /\ UNCHANGED <<now, keys, todo, mine, ttl, unindex, stale, lost, refusedAt>>

AcquireRefusedKeeps(x) ==                    \* mutant: Ok(None) without the rollback
  /\ pc[x] = "acquiring" /\ todo[x] # <<>>
  /\ LET s == Head(todo[x])
     IN  /\ HeldMask(s.unit) \cap s.span # {}
         /\ hash' = [hash EXCEPT ![s.unit] = Live(s.unit)]
  /\ Answer(x, "refused")
  /\ UNCHANGED <<now, hashExp, index, indexExp, unindex, stale, lost, refusedAt>>

\* The script finds an overlap (and has pruned what expired): Ok(None).
AcquireRefused(x) ==
  /\ pc[x] = "acquiring" /\ todo[x] # <<>>
  /\ LET s == Head(todo[x])
     IN  /\ HeldMask(s.unit) \cap s.span # {}
         /\ hash' = [hash EXCEPT ![s.unit] = Live(s.unit)]
  /\ pc' = [pc EXCEPT ![x] = "rollback"]
  /\ UNCHANGED <<now, hashExp, index, indexExp, todo, mine, ttl, unindex, stale,
                 lost, refusedAt>>

-----------------------------------------------------------------------------
(* release of each seat hold: GET registry, HDEL, HLEN, SREM *)

\* DELETE /v1/holds, and the end of a booking that presented the hold.
StartRelease(x) ==
  /\ pc[x] = "granted"
  /\ pc' = [pc EXCEPT ![x] = "releasing"]
  /\ UNCHANGED <<now, keys, todo, mine, ttl, unindex, stale, lost, refusedAt>>

\* A registry key that expired ends the release of that seat.
Unhold(x) ==
  /\ pc[x] \in {"rollback", "releasing"}
  /\ unindex[x] = {}
  /\ \E m \in mine[x] :
       /\ mine' = [mine EXCEPT ![x] = @ \ {m}]
       /\ IF m.exp > now
          THEN /\ hash' = [hash EXCEPT ![m.unit] = {e \in @ : e.id # x}]
               /\ unindex' = [unindex EXCEPT ![x] = IF hash'[m.unit] = {} THEN {m.unit} ELSE {}]
          ELSE UNCHANGED <<hash, unindex>>
  /\ UNCHANGED <<now, hashExp, index, indexExp, pc, todo, ttl, stale, lost, refusedAt>>

Unindex(x) ==
  /\ unindex[x] # {}
  /\ index' = index \ unindex[x]
  /\ unindex' = [unindex EXCEPT ![x] = {}]
  /\ UNCHANGED <<now, hash, hashExp, indexExp, pc, todo, mine, ttl, stale, lost, refusedAt>>

\* A Redis error in the rollback: `let _ = self.release(..)` goes on to the next
\* seat, and this one keeps its entry, or only its place in the index.
UnholdFails(x) ==
  /\ pc[x] = "rollback"
  /\ \/ /\ unindex[x] = {}
        /\ \E m \in mine[x] : /\ m.exp > now
                              /\ mine' = [mine EXCEPT ![x] = @ \ {m}]
                              /\ lost' = [lost EXCEPT ![x] = @ \cup {m}]
        /\ UNCHANGED unindex
     \/ /\ unindex[x] # {}
        /\ unindex' = [unindex EXCEPT ![x] = {}]
        /\ UNCHANGED <<mine, lost>>
  /\ UNCHANGED <<now, keys, pc, todo, ttl, stale, refusedAt>>

Released(x) ==
  /\ pc[x] \in {"rollback", "releasing"}
  /\ mine[x] = {} /\ unindex[x] = {}
  /\ Answer(x, IF pc[x] = "rollback" THEN "refused" ELSE "released")
  /\ UNCHANGED <<now, keys, unindex, stale, lost, refusedAt>>

\* A crash, or a Redis error where `?` passes it on.  An acquisition never hands
\* out its group id; a release that is tried again is one that took longer.
Fails(x) ==
  /\ pc[x] \in {"acquiring", "rollback", "releasing"}
  /\ Answer(x, "failed")
  /\ unindex' = [unindex EXCEPT ![x] = {}]
  /\ UNCHANGED <<now, keys, stale, lost, refusedAt>>

-----------------------------------------------------------------------------
(* live_held_units: SMEMBERS and HGETALLs, then one SREM *)

ReadMembers ==
  /\ stale' = index \ LiveUnits
  /\ UNCHANGED <<now, keys, requests>>

PruneStale ==
  /\ stale # {}
  /\ index' = index \ stale
  /\ stale' = {}
  /\ UNCHANGED <<now, hash, hashExp, indexExp, requests>>

\* The clock; Redis drops the keys whose time has come.
Tick ==
  /\ now < MaxTime
  /\ now' = now + 1
  /\ hash' = [u \in Units |-> IF hashExp[u] <= now' THEN {} ELSE hash[u]]
  /\ index' = IF indexExp <= now' THEN {} ELSE index
  /\ UNCHANGED <<hashExp, indexExp, requests, stale>>

SessionStep(x) ==
  \/ Request(x) \/ CheckCeiling(x)
  \/ Acquire(x) \/ Grant(x) \/ AcquireRefused(x)
  \/ StartRelease(x) \/ Unhold(x) \/ Unindex(x) \/ UnholdFails(x) \/ Released(x)
  \/ Fails(x)

Next == (\E x \in Sessions : SessionStep(x)) \/ ReadMembers \/ PruneStale \/ Tick

Spec == Init /\ [][Next]_vars

-----------------------------------------------------------------------------
(* Properties *)

\* Two live holds on a seat never overlap ("two holds on the same seat coexist
\* iff their spans don't overlap", holds.rs:2), rollbacks and expiries included.
NoOverlappingHolds ==
  \A u \in Units : \A e, f \in Live(u) : e # f => e.span \cap f.span = {}

\* A granted hold keeps every one of its seats until the TTL it was given is
\* over: neither a shorter hold on the same seat nor another request's rollback
\* or pruning takes it away.
GrantedHoldsLast ==
  \A x \in Sessions : pc[x] = "granted" =>
    \A m \in mine[x] : m.exp > now => \E e \in hash[m.unit] : e.id = x /\ e.exp = m.exp

\* All or nothing, as far as Redis answered: what a request holds after being told
\* that a seat is taken is what its rollback tried to release and could not
\* (holds.rs:246), to the expiry that was set when the seat was acquired.
RefusedHoldsOnlyLost ==
  \A x \in Sessions : pc[x] = "refused" =>
    \A u \in Units : \A e \in Live(u) :
      e.id = x => \E m \in lost[x] : m.unit = u /\ m.exp = e.exp

\* All or nothing: a request told that a seat is taken holds no seat ("if any seat
\* is already held or sold, nothing is held (409)", reservations.rs:117).
RefusedHoldsNothing ==
  \A x \in Sessions : pc[x] = "refused" =>
    \A u \in Units : \A e \in Live(u) : e.id # x

\* The index never misses a live hold ("so it can never miss one", holds.rs:16).
IndexMissesNone == LiveUnits \subseteq index

\* Holds are refused only on a number that has been verified (holds.rs:405).
RefusalsAreVerified ==
  \A x \in Sessions : refusedAt[x] # Never => refusedAt[x] > Ceiling

\* The ceiling bounds the seats that carry a hold at once (reservations.rs:59).
CeilingHolds == Cardinality(LiveUnits) <= Ceiling
=============================================================================
