----------------------------- MODULE HoldsProofs -----------------------------
(***************************************************************************)
(* Proofs about Holds for any seats, spans, requests and TTLs.              *)
(*                                                                         *)
(* Kept says that what a request has acquired and not let go is in the hash  *)
(* of the seat until its own expiry, Accounted that nothing else of it is,   *)
(* but what it failed to release: a rollback that goes through what the      *)
(* request remembers leaves only that.                                      *)
(***************************************************************************)
EXTENDS Holds, FiniteSetTheorems, TLAPS

Kept ==
  \A x \in Sessions : pc[x] \in {"acquiring", "granted"} =>
    \A m \in mine[x] : m.exp > now => \E e \in hash[m.unit] : e.id = x /\ e.exp = m.exp

Accounted ==
  \A x \in Sessions :
    /\ pc[x] \in {"new", "counting", "refused", "released"} => mine[x] = {}
    /\ pc[x] # "failed" =>
         \A u \in Units : \A e \in Live(u) :
           e.id = x => \E m \in mine[x] \cup lost[x] : m.unit = u /\ m.exp = e.exp

Asked == \A x \in Sessions : pc[x] \in {"counting", "acquiring"} => ttl[x] \in Ttls

HoldsInv == TypeOK /\ NoOverlappingHolds /\ Kept /\ Accounted /\ Asked

-----------------------------------------------------------------------------
\* The latest of some expiries that have a bound: the PEXPIRE of a seat.
LEMMA MaxBounds ==
  ASSUME NEW S \in SUBSET Nat, S # {}, NEW b \in Nat, \A n \in S : n <= b
  PROVE  Max(S) \in S /\ \A n \in S : n <= Max(S)
<1> DEFINE R == OpToRel(<, Nat)
           T == {n \in Nat : \E k \in S : n = b - k}
<1>1. \A k \in S : b - k \in T
  OBVIOUS
<1>2. T \in SUBSET Nat /\ T # {}
  BY <1>1
<1>3. IsWellFoundedOn(R, Nat)
  BY NatLessThanWellFounded
<1>4. PICK x \in T : \A y \in T : ~ (<<y, x>> \in R)
  <2> HIDE DEF R, T
  <2> QED
    BY <1>2, <1>3, WFMin
<1>5. \A y \in T : ~(y < x)
  BY <1>4 DEF OpToRel
<1>6. PICK k \in S : x = b - k
  BY <1>4
<1>7. \A n \in S : k >= n
  <2> SUFFICES ASSUME NEW n \in S PROVE k >= n
    OBVIOUS
  <2>1. ~(b - n < b - k)
    BY <1>1, <1>5, <1>6
  <2> QED
    BY <2>1
<1> HIDE DEF T, R
<1>8. Max(S) \in S /\ \A n \in S : Max(S) >= n
  BY <1>7 DEF Max
<1> QED
  BY <1>8

\* Expiring, releasing and pruning only ever shrink what is live.
LEMMA Shrinking ==
  ASSUME TypeOK, NoOverlappingHolds, now' \in Nat, now' >= now,
         \A u \in Units : hash'[u] \subseteq hash[u]
  PROVE  /\ \A u \in Units : Live(u)' \subseteq Live(u)
         /\ NoOverlappingHolds'
<1>1. \A u \in Units : Live(u)' \subseteq Live(u)
  <2> SUFFICES ASSUME NEW u \in Units, NEW e \in hash'[u], e.exp > now'
               PROVE  e \in hash[u] /\ e.exp > now
    BY DEF Live
  <2>1. e \in hash[u] /\ e.exp \in Nat /\ now \in Nat
    BY HoldsAssumption DEF TypeOK, Entries
  <2> QED
    BY <2>1
<1> QED
  BY <1>1 DEF NoOverlappingHolds

\* Steps that leave the seats and the clock alone.
LEMMA Aside ==
  ASSUME HoldsInv, UNCHANGED <<now, hash>>
  PROVE  /\ \A u \in Units : Live(u)' = Live(u)
         /\ NoOverlappingHolds'
BY DEF HoldsInv, Live, NoOverlappingHolds

\* Nothing is held at first.
LEMMA InvInit == Init => HoldsInv
<1> SUFFICES ASSUME Init PROVE HoldsInv
  OBVIOUS
<1>1. TypeOK
  BY HoldsAssumption DEF Init, TypeOK
<1>2. NoOverlappingHolds /\ Accounted
  BY DEF Init, NoOverlappingHolds, Accounted, Live
<1>3. Kept /\ Asked
  BY DEF Init, Kept, Asked
<1> QED
  BY <1>1, <1>2, <1>3 DEF HoldsInv

-----------------------------------------------------------------------------
(* create_hold *)

\* A request comes in with an itinerary and a TTL.
LEMMA RequestStep ==
  ASSUME HoldsInv, NEW x \in Sessions, Request(x)
  PROVE  HoldsInv'
<1>1. PICK r \in Itineraries, d \in Ttls :
        todo' = [todo EXCEPT ![x] = r] /\ ttl' = [ttl EXCEPT ![x] = d]
  BY DEF Request
<1>2. /\ pc[x] = "new" /\ pc' = [pc EXCEPT ![x] = "counting"]
      /\ UNCHANGED <<now, hash, hashExp, index, indexExp, mine, unindex, stale, lost, refusedAt>>
  BY DEF Request, keys
<1>3. r \in Seq(SeatSpans)
  BY HoldsAssumption
<1>4. TypeOK'
  BY <1>1, <1>2, <1>3 DEF HoldsInv, TypeOK
<1>5. Kept' /\ Asked'
  BY <1>1, <1>2, <1>3 DEF HoldsInv, TypeOK, Kept, Asked
<1>6. Accounted'
  BY <1>2, Aside DEF HoldsInv, TypeOK, Accounted
<1> QED
  BY <1>2, <1>4, <1>5, <1>6, Aside DEF HoldsInv

\* The ceiling refuses a request that has acquired nothing.
LEMMA CheckCeilingStep ==
  ASSUME HoldsInv, NEW x \in Sessions, CheckCeiling(x)
  PROVE  HoldsInv'
<1>1. /\ pc[x] = "counting" /\ mine[x] = {}
      /\ UNCHANGED <<now, hash, hashExp, index, indexExp, unindex, stale, lost>>
  BY DEF CheckCeiling, keys, HoldsInv, Accounted
<1>2. CASE /\ Answer(x, "refused")
           /\ refusedAt' = [refusedAt EXCEPT ![x] = Cardinality(LiveUnits) + Len(todo[x])]
  <2>1. /\ pc' = [pc EXCEPT ![x] = "refused"] /\ todo' = [todo EXCEPT ![x] = <<>>]
        /\ mine' = [mine EXCEPT ![x] = {}] /\ ttl' = [ttl EXCEPT ![x] = 0]
    BY <1>2 DEF Answer
  <2>2. mine' = mine
    BY <1>1, <2>1 DEF HoldsInv, TypeOK
  <2>3. Cardinality(LiveUnits) + Len(todo[x]) \in Nat
    <3>1. Cardinality(LiveUnits) \in Nat
      BY FS_Subset, FS_CardinalityType, HoldsAssumption DEF LiveUnits
    <3>2. Len(todo[x]) \in Nat
      BY DEF HoldsInv, TypeOK
    <3> QED
      BY <3>1, <3>2
  <2>4. TypeOK'
    <3>1. refusedAt' \in [Sessions -> Nat \cup {Never}]
      BY <1>2, <2>3 DEF HoldsInv, TypeOK
    <3>2. todo' \in [Sessions -> Seq(SeatSpans)]
      BY <2>1 DEF HoldsInv, TypeOK
    <3> QED
      BY <1>1, <2>1, <2>2, <3>1, <3>2 DEF HoldsInv, TypeOK
  <2>5. Kept' /\ Asked'
    BY <1>1, <2>1, <2>2 DEF HoldsInv, TypeOK, Kept, Asked
  <2>6. Accounted'
    BY <1>1, <2>1, <2>2, Aside DEF HoldsInv, TypeOK, Accounted
  <2> QED
    BY <1>1, <2>2, <2>4, <2>5, <2>6, Aside DEF HoldsInv
<1>3. CASE pc' = [pc EXCEPT ![x] = "acquiring"] /\ UNCHANGED <<todo, mine, ttl, refusedAt>>
  <2>1. TypeOK'
    BY <1>1, <1>3 DEF HoldsInv, TypeOK
  <2>2. Kept' /\ Asked'
    BY <1>1, <1>3 DEF HoldsInv, TypeOK, Kept, Asked
  <2>3. Accounted'
    BY <1>1, <1>3, Aside DEF HoldsInv, TypeOK, Accounted
  <2> QED
    BY <1>1, <1>3, <2>1, <2>2, <2>3, Aside DEF HoldsInv
<1> QED
  BY <1>2, <1>3 DEF CheckCeiling

\* The script adds an entry that overlaps no live one, and keeps the others.
LEMMA AcquireStep ==
  ASSUME HoldsInv, NEW x \in Sessions, Acquire(x)
  PROVE  HoldsInv'
<1>1. pc[x] = "acquiring" /\ todo[x] # <<>>
  BY DEF Acquire
<1>2. todo[x] \in Seq(SeatSpans) /\ todo[x] # <<>> /\ ttl[x] \in Nat \ {0} /\ now \in Nat
  <2>1. todo[x] \in Seq(SeatSpans) /\ todo[x] # <<>> /\ ttl[x] \in Ttls
    BY <1>1 DEF HoldsInv, TypeOK, Asked
  <2>2. now \in Nat
    BY HoldsAssumption DEF HoldsInv, TypeOK
  <2> QED
    BY <2>1, <2>2, HoldsAssumption
<1>3. PICK s \in SeatSpans : s = Head(todo[x])
  BY <1>2
<1>4. PICK t \in Nat : t = now + ttl[x] /\ t > now
  BY <1>2
<1>5. /\ s.unit \in Units /\ s.span \in SUBSET Segs /\ Tail(todo[x]) \in Seq(SeatSpans)
      /\ [id |-> x, exp |-> t, span |-> s.span] \in Entries
      /\ [unit |-> s.unit, exp |-> t] \in [unit : Units, exp : Nat]
  BY <1>2 DEF SeatSpans, Entries
<1> PICK u \in Units : u = s.unit
  BY <1>5
<1> PICK e \in Entries : e = [id |-> x, exp |-> t, span |-> s.span]
  BY <1>5
<1> PICK m \in [unit : Units, exp : Nat] : m = [unit |-> u, exp |-> t]
  BY <1>5
<1>6. /\ pc[x] = "acquiring" /\ HeldMask(u) \cap s.span = {}
      /\ hash' = [hash EXCEPT ![u] = Live(u) \cup {e}]
      /\ hashExp' = [hashExp EXCEPT ![u] = Max({f.exp : f \in Live(u) \cup {e}})]
      /\ index' = index \cup {u}
      /\ indexExp' = now + ttl[x] * INDEX_TTL_MULTIPLIER
      /\ mine' = [mine EXCEPT ![x] = @ \cup {m}]
      /\ todo' = [todo EXCEPT ![x] = Tail(@)]
      /\ UNCHANGED <<now, pc, ttl, unindex, stale, lost, refusedAt>>
  BY <1>3, <1>4 DEF Acquire, Admits
<1>7. e.id = x /\ e.exp = t /\ e.span = s.span /\ m.unit = u /\ m.exp = t
  OBVIOUS
<1>8. \A f \in Live(u) : f \in hash[u] /\ f \in Entries /\ f.exp \in Nat /\ f.exp > now
  BY <1>5 DEF HoldsInv, TypeOK, Live, Entries
<1>9. /\ Max({f.exp : f \in Live(u) \cup {e}}) \in Nat
      /\ \A f \in Live(u) \cup {e} : f.exp <= Max({g.exp : g \in Live(u) \cup {e}})
  <2> DEFINE S == {f.exp : f \in Live(u) \cup {e}}
             b == hashExp[u] + e.exp
  <2>1. S \in SUBSET Nat /\ S # {}
    BY <1>7, <1>8
  <2>2. hashExp[u] \in Nat /\ \A f \in Live(u) : f.exp <= hashExp[u]
    BY <1>5, <1>8 DEF HoldsInv, TypeOK
  <2>3. b \in Nat /\ \A n \in S : n <= b
    BY <1>7, <1>8, <2>2
  <2> HIDE DEF b
  <2>4. Max(S) \in S /\ \A n \in S : n <= Max(S)
    <3> HIDE DEF S
    <3> QED
      BY <2>1, <2>3, MaxBounds
  <2> QED
    BY <2>1, <2>4
<1>10. /\ hash'[u] = Live(u) \cup {e}
      /\ \A v \in Units \ {u} : hash'[v] = hash[v]
  BY <1>6, <1>5 DEF HoldsInv, TypeOK
<1>11. \A v \in Units : \A f \in hash[v] : f.exp > now => f \in hash'[v]
  BY <1>10 DEF Live
<1>12. Live(u)' = Live(u) \cup {e} /\ \A v \in Units \ {u} : Live(v)' = Live(v)
  <2>1. \A f \in Live(u) \cup {e} : f.exp > now'
    BY <1>4, <1>6, <1>7, <1>8
  <2>2. Live(u)' = Live(u) \cup {e}
    BY <1>10, <2>1 DEF Live
  <2>3. \A v \in Units \ {u} : Live(v)' = Live(v)
    BY <1>6, <1>10 DEF Live
  <2> QED
    BY <2>2, <2>3
<1>13. TypeOK'
  <2>1. hash' \in [Units -> SUBSET Entries]
    BY <1>6, <1>7, <1>8 DEF HoldsInv, TypeOK
  <2>2. hashExp' \in [Units -> Nat]
    BY <1>6, <1>9 DEF HoldsInv, TypeOK
  <2>3. \A v \in Units : \A f \in hash'[v] : f.exp <= hashExp'[v]
    BY <1>6, <1>9, <1>10 DEF HoldsInv, TypeOK
  <2>4. ttl[x] * INDEX_TTL_MULTIPLIER \in Nat
    BY <1>2, HoldsAssumption
  <2>5. index' \subseteq Units /\ indexExp' \in Nat
    BY <1>6, <1>2, <1>5, <2>4 DEF HoldsInv, TypeOK
  <2>6. mine' \in [Sessions -> SUBSET [unit : Units, exp : Nat]]
    BY <1>6, <1>7 DEF HoldsInv, TypeOK
  <2>7. todo' \in [Sessions -> Seq(SeatSpans)]
    BY <1>6, <1>5 DEF HoldsInv, TypeOK
  <2> QED
    BY <1>6, <2>1, <2>2, <2>3, <2>5, <2>6, <2>7 DEF HoldsInv, TypeOK
<1>14. NoOverlappingHolds'
  <2>1. \A f \in Live(u) : f.span \cap e.span = {}
    BY <1>6, <1>7 DEF HeldMask
  <2> SUFFICES ASSUME NEW v \in Units, NEW f \in Live(v)', NEW g \in Live(v)', f # g
               PROVE  f.span \cap g.span = {}
    BY DEF NoOverlappingHolds
  <2>2. CASE v # u
    BY <1>12, <2>2 DEF HoldsInv, NoOverlappingHolds
  <2>3. CASE v = u
    <3>1. f \in Live(u) \cup {e} /\ g \in Live(u) \cup {e}
      BY <1>12, <2>3
    <3>2. f \in Live(u) /\ g \in Live(u) => f.span \cap g.span = {}
      BY <1>5 DEF HoldsInv, NoOverlappingHolds
    <3> QED
      BY <2>1, <3>1, <3>2
  <2> QED
    BY <2>2, <2>3
<1>15. /\ pc' = pc /\ lost' = lost /\ mine'[x] = mine[x] \cup {m}
       /\ \A y \in Sessions \ {x} : mine'[y] = mine[y]
  BY <1>6 DEF HoldsInv, TypeOK
<1>16. Kept'
  <2> SUFFICES ASSUME NEW y \in Sessions, pc'[y] \in {"acquiring", "granted"},
                      NEW k \in mine'[y], k.exp > now
               PROVE  \E f \in hash'[k.unit] : f.id = y /\ f.exp = k.exp
    BY <1>6 DEF Kept
  <2>1. CASE y = x /\ k = m
    BY <1>7, <1>10, <2>1
  <2>2. CASE k \in mine[y]
    <3>1. pc[y] \in {"acquiring", "granted"} /\ k.unit \in Units
      BY <1>6, <1>15, <2>2 DEF HoldsInv, TypeOK
    <3>2. PICK f \in hash[k.unit] : f.id = y /\ f.exp = k.exp
      BY <2>2, <3>1 DEF HoldsInv, Kept
    <3> QED
      BY <1>11, <3>1, <3>2
  <2> QED
    BY <1>15, <2>1, <2>2
<1>17. Accounted'
  <2>1. ASSUME NEW y \in Sessions, pc'[y] # "failed", NEW v \in Units,
               NEW f \in Live(v)', f.id = y
        PROVE  \E k \in mine'[y] \cup lost'[y] : k.unit = v /\ k.exp = f.exp
    <3>1. CASE v = u /\ f = e
      BY <1>7, <1>15, <2>1, <3>1
    <3>2. CASE f \in Live(v)
      BY <1>6, <1>15, <2>1, <3>2 DEF HoldsInv, Accounted
    <3>3. CASE v = u
      <4>1. f \in Live(u) \cup {e}
        BY <1>12, <2>1, <3>3
      <4> QED
        BY <3>1, <3>2, <3>3, <4>1
    <3>4. CASE v # u
      <4>1. f \in Live(v)
        BY <1>12, <2>1, <3>4
      <4> QED
        BY <3>2, <4>1
    <3> QED
      BY <3>3, <3>4
  <2>2. \A y \in Sessions : pc'[y] \in {"new", "counting", "refused", "released"} => mine'[y] = {}
    BY <1>1, <1>15 DEF HoldsInv, Accounted
  <2> QED
    BY <2>1, <2>2 DEF Accounted
<1>18. Asked'
  BY <1>6 DEF HoldsInv, Asked
<1> QED
  BY <1>13, <1>14, <1>16, <1>17, <1>18 DEF HoldsInv

\* A refusal prunes what expired, and starts the rollback.
LEMMA AcquireRefusedStep ==
  ASSUME HoldsInv, NEW x \in Sessions, AcquireRefused(x)
  PROVE  HoldsInv'
<1> DEFINE u == Head(todo[x]).unit
<1>1. /\ pc[x] = "acquiring" /\ pc' = [pc EXCEPT ![x] = "rollback"]
      /\ hash' = [hash EXCEPT ![u] = Live(u)]
      /\ UNCHANGED <<now, hashExp, index, indexExp, todo, mine, ttl, unindex, stale, lost, refusedAt>>
  BY DEF AcquireRefused
<1> HIDE DEF u
<1>2. \A v \in Units : /\ hash'[v] \subseteq hash[v]
                       /\ \A e \in hash[v] : e.exp > now => e \in hash'[v]
  BY <1>1 DEF HoldsInv, TypeOK, Live
<1>3. now \in Nat
  BY HoldsAssumption DEF HoldsInv, TypeOK
<1>4. NoOverlappingHolds' /\ \A v \in Units : Live(v)' \subseteq Live(v)
  BY <1>1, <1>2, <1>3, Shrinking DEF HoldsInv
<1>5. TypeOK'
  BY <1>1, <1>2 DEF HoldsInv, TypeOK
<1>6. Kept'
  <2> SUFFICES ASSUME NEW y \in Sessions, pc'[y] \in {"acquiring", "granted"},
                      NEW m \in mine[y], m.exp > now
               PROVE  \E e \in hash'[m.unit] : e.id = y /\ e.exp = m.exp
    BY <1>1 DEF Kept
  <2>1. pc[y] \in {"acquiring", "granted"} /\ m.unit \in Units
    BY <1>1 DEF HoldsInv, TypeOK
  <2>2. PICK e \in hash[m.unit] : e.id = y /\ e.exp = m.exp
    BY <2>1 DEF HoldsInv, Kept
  <2> QED
    BY <1>2, <2>1, <2>2
<1>7. Accounted'
  BY <1>1, <1>4 DEF HoldsInv, TypeOK, Accounted
<1>8. Asked'
  BY <1>1 DEF HoldsInv, TypeOK, Asked
<1> QED
  BY <1>4, <1>5, <1>6, <1>7, <1>8 DEF HoldsInv

\* With every seat acquired the request is granted.
LEMMA GrantStep ==
  ASSUME HoldsInv, NEW x \in Sessions, Grant(x)
  PROVE  HoldsInv'
<1>1. /\ pc[x] = "acquiring" /\ pc' = [pc EXCEPT ![x] = "granted"]
      /\ UNCHANGED <<now, hash, hashExp, index, indexExp, todo, mine, ttl, unindex, stale, lost, refusedAt>>
  BY DEF Grant, keys
<1>2. TypeOK'
  BY <1>1 DEF HoldsInv, TypeOK
<1>3. Kept' /\ Asked'
  BY <1>1 DEF HoldsInv, TypeOK, Kept, Asked
<1>4. Accounted'
  BY <1>1, Aside DEF HoldsInv, TypeOK, Accounted
<1> QED
  BY <1>1, <1>2, <1>3, <1>4, Aside DEF HoldsInv

\* An error or a crash leaves what was acquired to its TTL.
LEMMA FailsStep ==
  ASSUME HoldsInv, NEW x \in Sessions, Fails(x)
  PROVE  HoldsInv'
<1>1. /\ pc' = [pc EXCEPT ![x] = "failed"] /\ todo' = [todo EXCEPT ![x] = <<>>]
      /\ mine' = [mine EXCEPT ![x] = {}] /\ ttl' = [ttl EXCEPT ![x] = 0]
      /\ unindex' = [unindex EXCEPT ![x] = {}]
      /\ UNCHANGED <<now, hash, hashExp, index, indexExp, stale, lost, refusedAt>>
  BY DEF Fails, Answer, keys
<1>2. TypeOK'
  <2>1. todo' \in [Sessions -> Seq(SeatSpans)]
    BY <1>1 DEF HoldsInv, TypeOK
  <2> QED
    BY <1>1, <2>1 DEF HoldsInv, TypeOK
<1>3. Kept' /\ Asked'
  BY <1>1 DEF HoldsInv, TypeOK, Kept, Asked
<1>4. Accounted'
  BY <1>1, Aside DEF HoldsInv, TypeOK, Accounted
<1> QED
  BY <1>1, <1>2, <1>3, <1>4, Aside DEF HoldsInv

-----------------------------------------------------------------------------
(* Releases *)

\* A release goes through the seats one by one, and prunes the index apart.
LEMMA ReleaseControlStep ==
  ASSUME HoldsInv, NEW x \in Sessions, StartRelease(x) \/ Unindex(x)
  PROVE  HoldsInv'
<1>1. UNCHANGED <<now, hash, hashExp, indexExp, todo, mine, ttl, stale, lost, refusedAt>>
  BY DEF StartRelease, Unindex, keys
<1>2. \/ pc' = pc
      \/ pc[x] = "granted" /\ pc' = [pc EXCEPT ![x] = "releasing"]
  BY DEF StartRelease, Unindex
<1>3. index' \subseteq Units /\ unindex' \in [Sessions -> SUBSET Units]
  BY DEF HoldsInv, TypeOK, StartRelease, Unindex, keys
<1>4. TypeOK'
  BY <1>1, <1>2, <1>3 DEF HoldsInv, TypeOK
<1>5. Kept' /\ Asked'
  BY <1>1, <1>2 DEF HoldsInv, TypeOK, Kept, Asked
<1>6. Accounted'
  BY <1>1, <1>2, Aside DEF HoldsInv, TypeOK, Accounted
<1> QED
  BY <1>1, <1>4, <1>5, <1>6, Aside DEF HoldsInv

\* HDEL takes every entry of the request off the seat, and nobody else's.
LEMMA UnholdStep ==
  ASSUME HoldsInv, NEW x \in Sessions, Unhold(x)
  PROVE  HoldsInv'
<1>1. PICK m \in mine[x] :
        /\ mine' = [mine EXCEPT ![x] = @ \ {m}]
        /\ IF m.exp > now
           THEN /\ hash' = [hash EXCEPT ![m.unit] = {e \in @ : e.id # x}]
                /\ unindex' = [unindex EXCEPT ![x] = IF hash'[m.unit] = {} THEN {m.unit} ELSE {}]
           ELSE UNCHANGED <<hash, unindex>>
  BY DEF Unhold
<1>2. /\ pc[x] \in {"rollback", "releasing"}
      /\ UNCHANGED <<now, hashExp, index, indexExp, pc, todo, ttl, stale, lost, refusedAt>>
  BY DEF Unhold
<1>3. m.unit \in Units /\ m.exp \in Nat /\ now \in Nat
  BY HoldsAssumption DEF HoldsInv, TypeOK
<1>4. \A v \in Units : /\ hash'[v] \subseteq hash[v]
                       /\ \A e \in hash[v] : e.id # x => e \in hash'[v]
  <2> SUFFICES ASSUME NEW v \in Units
               PROVE  /\ hash'[v] \subseteq hash[v]
                      /\ \A e \in hash[v] : e.id # x => e \in hash'[v]
    OBVIOUS
  <2>1. CASE m.exp > now /\ v = m.unit
    <3>1. hash'[v] = {e \in hash[v] : e.id # x}
      BY <1>1, <2>1 DEF HoldsInv, TypeOK
    <3> QED
      BY <3>1
  <2>2. CASE ~(m.exp > now) \/ v # m.unit
    <3>1. hash'[v] = hash[v]
      BY <1>1, <2>2 DEF HoldsInv, TypeOK
    <3> QED
      BY <3>1
  <2> QED
    BY <2>1, <2>2
<1>5. m.exp > now => \A e \in hash'[m.unit] : e.id # x
  BY <1>1, <1>3 DEF HoldsInv, TypeOK
<1>6. NoOverlappingHolds' /\ \A v \in Units : Live(v)' \subseteq Live(v)
  BY <1>2, <1>3, <1>4, Shrinking DEF HoldsInv
<1>7. /\ mine'[x] = mine[x] \ {m}
      /\ \A y \in Sessions \ {x} : mine'[y] = mine[y]
  BY <1>1 DEF HoldsInv, TypeOK
<1>8. TypeOK'
  <2>1. hash' \in [Units -> SUBSET Entries] /\ unindex' \in [Sessions -> SUBSET Units]
    <3>1. CASE m.exp > now
      <4>1. {e \in hash[m.unit] : e.id # x} \subseteq Entries
        BY <1>3 DEF HoldsInv, TypeOK
      <4>2. hash' = [hash EXCEPT ![m.unit] = {e \in hash[m.unit] : e.id # x}]
        BY <1>1, <3>1
      <4>3. \E us \in SUBSET Units : unindex' = [unindex EXCEPT ![x] = us]
        BY <1>1, <1>3, <3>1
      <4> QED
        BY <4>1, <4>2, <4>3 DEF HoldsInv, TypeOK
    <3>2. CASE ~(m.exp > now)
      BY <1>1, <3>2 DEF HoldsInv, TypeOK
    <3> QED
      BY <3>1, <3>2
  <2>2. mine' \in [Sessions -> SUBSET [unit : Units, exp : Nat]]
    BY <1>1 DEF HoldsInv, TypeOK
  <2> QED
    BY <1>2, <1>4, <2>1, <2>2 DEF HoldsInv, TypeOK
<1>9. Kept'
  <2> SUFFICES ASSUME NEW y \in Sessions, pc[y] \in {"acquiring", "granted"},
                      NEW k \in mine'[y], k.exp > now
               PROVE  \E e \in hash'[k.unit] : e.id = y /\ e.exp = k.exp
    BY <1>2 DEF Kept
  <2>1. y # x /\ k \in mine[y] /\ k.unit \in Units
    BY <1>2, <1>7 DEF HoldsInv, TypeOK
  <2>2. PICK e \in hash[k.unit] : e.id = y /\ e.exp = k.exp
    BY <2>1 DEF HoldsInv, Kept
  <2> QED
    BY <1>4, <2>1, <2>2
<1>10. Accounted'
  <2>1. ASSUME NEW y \in Sessions, pc[y] # "failed", NEW v \in Units,
               NEW e \in Live(v)', e.id = y
        PROVE  \E k \in mine'[y] \cup lost'[y] : k.unit = v /\ k.exp = e.exp
    <3>1. PICK k \in mine[y] \cup lost[y] : k.unit = v /\ k.exp = e.exp
      BY <1>6, <2>1 DEF HoldsInv, Accounted
    <3>2. k \in mine'[y] \cup lost'[y]
      <4>1. CASE y # x \/ k \in lost[y]
        BY <1>2, <1>7, <3>1, <4>1
      <4>2. CASE y = x
        <5>1. e \in hash'[v] /\ e.exp > now
          BY <1>2, <2>1 DEF Live
        <5>2. k # m
          BY <1>5, <2>1, <3>1, <4>2, <5>1
        <5> QED
          BY <1>2, <1>7, <3>1, <4>2, <5>2
      <4> QED
        BY <4>1, <4>2
    <3> QED
      BY <3>1, <3>2
  <2>2. \A y \in Sessions : pc[y] \in {"new", "counting", "refused", "released"} => mine'[y] = {}
    BY <1>2, <1>7 DEF HoldsInv, Accounted
  <2> QED
    BY <1>2, <2>1, <2>2 DEF Accounted
<1>11. Asked'
  BY <1>2 DEF HoldsInv, Asked
<1> QED
  BY <1>6, <1>8, <1>9, <1>10, <1>11 DEF HoldsInv

\* What a rollback fails to release is remembered as lost.
LEMMA UnholdFailsStep ==
  ASSUME HoldsInv, NEW x \in Sessions, UnholdFails(x)
  PROVE  HoldsInv'
<1>1. /\ pc[x] = "rollback"
      /\ UNCHANGED <<now, hash, hashExp, index, indexExp, pc, todo, ttl, stale, refusedAt>>
  BY DEF UnholdFails, keys
<1>2. \/ /\ unindex' = [unindex EXCEPT ![x] = {}]
         /\ UNCHANGED <<mine, lost>>
      \/ /\ unindex' = unindex
         /\ \E m \in mine[x] : /\ mine' = [mine EXCEPT ![x] = @ \ {m}]
                               /\ lost' = [lost EXCEPT ![x] = @ \cup {m}]
  BY DEF UnholdFails
<1>3. /\ \A y \in Sessions : mine'[y] \subseteq mine[y]
      /\ \A y \in Sessions : mine[y] \cup lost[y] = mine'[y] \cup lost'[y]
      /\ \A y \in Sessions \ {x} : mine'[y] = mine[y]
      /\ lost' \in [Sessions -> SUBSET [unit : Units, exp : Nat]]
      /\ mine' \in [Sessions -> SUBSET [unit : Units, exp : Nat]]
      /\ unindex' \in [Sessions -> SUBSET Units]
  <2>1. CASE UNCHANGED <<mine, lost>> /\ unindex' = [unindex EXCEPT ![x] = {}]
    BY <2>1 DEF HoldsInv, TypeOK
  <2>2. CASE /\ unindex' = unindex
             /\ \E m \in mine[x] : /\ mine' = [mine EXCEPT ![x] = @ \ {m}]
                                   /\ lost' = [lost EXCEPT ![x] = @ \cup {m}]
    <3>1. PICK m \in mine[x] : /\ mine' = [mine EXCEPT ![x] = @ \ {m}]
                               /\ lost' = [lost EXCEPT ![x] = @ \cup {m}]
      BY <2>2
    <3>2. /\ m \in [unit : Units, exp : Nat]
          /\ mine \in [Sessions -> SUBSET [unit : Units, exp : Nat]]
          /\ lost \in [Sessions -> SUBSET [unit : Units, exp : Nat]]
          /\ unindex' \in [Sessions -> SUBSET Units]
      BY <2>2 DEF HoldsInv, TypeOK
    <3>3. /\ mine'[x] = mine[x] \ {m} /\ lost'[x] = lost[x] \cup {m}
          /\ \A y \in Sessions \ {x} : mine'[y] = mine[y] /\ lost'[y] = lost[y]
      BY <3>1, <3>2
    <3>4. \A y \in Sessions : mine[y] \cup lost[y] = mine'[y] \cup lost'[y]
      <4>1. mine[x] \cup lost[x] = mine'[x] \cup lost'[x]
        BY <3>3
      <4> QED
        BY <3>3, <4>1
    <3> QED
      BY <3>1, <3>2, <3>3, <3>4
  <2> QED
    BY <1>2, <2>1, <2>2
<1>4. TypeOK'
  BY <1>1, <1>3 DEF HoldsInv, TypeOK
<1>5. Kept' /\ Asked'
  BY <1>1, <1>3 DEF HoldsInv, Kept, Asked
<1>6. Accounted'
  <2>1. \A y \in Sessions : pc[y] \in {"new", "counting", "refused", "released"} => mine'[y] = {}
    BY <1>3 DEF HoldsInv, Accounted
  <2>2. ASSUME NEW y \in Sessions, pc[y] # "failed", NEW u \in Units, NEW e \in Live(u), e.id = y
        PROVE  \E m \in mine'[y] \cup lost'[y] : m.unit = u /\ m.exp = e.exp
    BY <1>3, <2>2 DEF HoldsInv, Accounted
  <2>3. \A u \in Units : Live(u)' = Live(u)
    BY <1>1, Aside
  <2> QED
    BY <1>1, <2>1, <2>2, <2>3 DEF Accounted
<1> QED
  BY <1>1, <1>4, <1>5, <1>6, Aside DEF HoldsInv

\* A request that answers has nothing left to let go.
LEMMA ReleasedStep ==
  ASSUME HoldsInv, NEW x \in Sessions, Released(x)
  PROVE  HoldsInv'
<1>1. /\ mine[x] = {} /\ todo' = [todo EXCEPT ![x] = <<>>]
      /\ mine' = [mine EXCEPT ![x] = {}] /\ ttl' = [ttl EXCEPT ![x] = 0]
      /\ \/ pc' = [pc EXCEPT ![x] = "refused"]
         \/ pc' = [pc EXCEPT ![x] = "released"]
      /\ pc[x] # "failed"
      /\ UNCHANGED <<now, hash, hashExp, index, indexExp, unindex, stale, lost, refusedAt>>
  BY DEF Released, Answer, keys
<1>2. mine' = mine
  BY <1>1 DEF HoldsInv, TypeOK
<1>3. TypeOK'
  <2>1. todo' \in [Sessions -> Seq(SeatSpans)]
    BY <1>1 DEF HoldsInv, TypeOK
  <2> QED
    BY <1>1, <1>2, <2>1 DEF HoldsInv, TypeOK
<1>4. Kept' /\ Asked'
  BY <1>1, <1>2 DEF HoldsInv, TypeOK, Kept, Asked
<1>5. Accounted'
  BY <1>1, <1>2, Aside DEF HoldsInv, TypeOK, Accounted
<1> QED
  BY <1>1, <1>2, <1>3, <1>4, <1>5, Aside DEF HoldsInv

-----------------------------------------------------------------------------
(* Readers and the clock *)

\* Readers touch the index only.
LEMMA ReaderStep ==
  ASSUME HoldsInv, ReadMembers \/ PruneStale
  PROVE  HoldsInv'
<1>1. /\ UNCHANGED <<now, hash, hashExp, indexExp, pc, todo, mine, ttl, unindex, lost, refusedAt>>
      /\ index' \subseteq Units /\ stale' \subseteq Units
  BY DEF ReadMembers, PruneStale, keys, requests, HoldsInv, TypeOK
<1>2. TypeOK'
  BY <1>1 DEF HoldsInv, TypeOK
<1>3. Kept' /\ Asked'
  BY <1>1 DEF HoldsInv, Kept, Asked
<1>4. Accounted'
  BY <1>1, Aside DEF HoldsInv, Accounted
<1> QED
  BY <1>1, <1>2, <1>3, <1>4, Aside DEF HoldsInv

\* A seat's key expires with its last entry, never before.
LEMMA TickStep ==
  ASSUME HoldsInv, Tick
  PROVE  HoldsInv'
<1>1. /\ now < MaxTime /\ now' = now + 1
      /\ hash' = [u \in Units |-> IF hashExp[u] <= now' THEN {} ELSE hash[u]]
      /\ index' \in {{}, index}
      /\ UNCHANGED <<hashExp, indexExp, pc, todo, mine, ttl, unindex, stale, lost, refusedAt>>
  BY DEF Tick, requests
<1>2. now \in Nat /\ now' \in Nat /\ now' > now /\ now' \in 0..MaxTime
  BY <1>1, HoldsAssumption DEF HoldsInv, TypeOK
<1>3. \A u \in Units : hash'[u] \subseteq hash[u]
  BY <1>1
<1>4. \A u \in Units : \A e \in hash[u] : e.exp > now' => e \in hash'[u]
  <2> SUFFICES ASSUME NEW u \in Units, NEW e \in hash[u], e.exp > now'
               PROVE  e \in hash'[u]
    OBVIOUS
  <2>1. e.exp \in Nat /\ hashExp[u] \in Nat /\ e.exp <= hashExp[u]
    BY DEF HoldsInv, TypeOK, Entries
  <2>2. ~(hashExp[u] <= now')
    BY <1>2, <2>1
  <2> QED
    BY <1>1, <2>2
<1>5. NoOverlappingHolds' /\ \A u \in Units : Live(u)' \subseteq Live(u)
  BY <1>2, <1>3, Shrinking DEF HoldsInv
<1>6. TypeOK'
  <2>1. hash' \in [Units -> SUBSET Entries]
    BY <1>1 DEF HoldsInv, TypeOK
  <2> QED
    BY <1>1, <1>2, <1>3, <2>1 DEF HoldsInv, TypeOK
<1>7. Kept'
  <2> SUFFICES ASSUME NEW y \in Sessions, pc[y] \in {"acquiring", "granted"},
                      NEW m \in mine[y], m.exp > now'
               PROVE  \E e \in hash'[m.unit] : e.id = y /\ e.exp = m.exp
    BY <1>1 DEF Kept
  <2>1. m.unit \in Units /\ m.exp \in Nat
    BY DEF HoldsInv, TypeOK
  <2>2. m.exp > now
    BY <1>2, <2>1
  <2>3. PICK e \in hash[m.unit] : e.id = y /\ e.exp = m.exp
    BY <2>2 DEF HoldsInv, Kept
  <2> QED
    BY <1>4, <2>1, <2>3
<1>8. Accounted'
  BY <1>1, <1>5 DEF HoldsInv, Accounted
<1>9. Asked'
  BY <1>1 DEF HoldsInv, Asked
<1> QED
  BY <1>5, <1>6, <1>7, <1>8, <1>9 DEF HoldsInv

-----------------------------------------------------------------------------
\* Every step keeps the invariant.
LEMMA InvNext == HoldsInv /\ [Next]_vars => HoldsInv'
<1> SUFFICES ASSUME HoldsInv, [Next]_vars PROVE HoldsInv'
  OBVIOUS
<1>1. CASE UNCHANGED vars
  <2>1. UNCHANGED <<now, hash, hashExp, index, indexExp, pc, todo, mine, ttl, unindex, stale,
                    lost, refusedAt>>
    BY <1>1 DEF vars, keys, requests
  <2>2. TypeOK' /\ Kept' /\ Asked'
    BY <2>1 DEF HoldsInv, TypeOK, Kept, Asked
  <2>3. Accounted'
    BY <2>1, Aside DEF HoldsInv, Accounted
  <2> QED
    BY <2>1, <2>2, <2>3, Aside DEF HoldsInv
<1>2. ASSUME NEW x \in Sessions, SessionStep(x)
      PROVE  HoldsInv'
  BY <1>2, RequestStep, CheckCeilingStep, AcquireStep, GrantStep, AcquireRefusedStep,
     ReleaseControlStep, UnholdStep, UnholdFailsStep, ReleasedStep, FailsStep DEF SessionStep
<1> QED
  BY <1>1, <1>2, ReaderStep, TickStep DEF Next

\* The inductive invariant holds in every reachable state.
LEMMA Invariant == Spec => []HoldsInv
BY InvInit, InvNext, PTL DEF Spec

\* Keys, requests and the clock keep their types, and a seat's key outlives each of
\* its entries (holds.rs:66).
THEOREM TypeCorrect == Spec => []TypeOK
<1>1. HoldsInv => TypeOK
  BY DEF HoldsInv
<1> QED
  BY <1>1, Invariant, PTL

\* Two live holds on a seat never overlap, for any requests, rollbacks, expiries and
\* prunings (holds.rs:2).
THEOREM HoldsNeverOverlap == Spec => []NoOverlappingHolds
<1>1. HoldsInv => NoOverlappingHolds
  BY DEF HoldsInv
<1> QED
  BY <1>1, Invariant, PTL

\* A granted hold is in Redis, seat by seat, until the TTL it was given is over.
THEOREM GrantsLast == Spec => []GrantedHoldsLast
<1>1. HoldsInv => GrantedHoldsLast
  BY DEF HoldsInv, Kept, GrantedHoldsLast
<1> QED
  BY <1>1, Invariant, PTL

\* What a refused request holds is what its rollback could not release: the rollback
\* finds all that it acquired (holds.rs:246).
THEOREM RefusalsLeaveOnlyLost == Spec => []RefusedHoldsOnlyLost
<1>1. HoldsInv => RefusedHoldsOnlyLost
  BY DEF HoldsInv, Accounted, RefusedHoldsOnlyLost
<1> QED
  BY <1>1, Invariant, PTL
=============================================================================
