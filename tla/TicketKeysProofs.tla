-------------------------- MODULE TicketKeysProofs --------------------------
(***************************************************************************)
(* Proofs about TicketKeys for any replicas, orders, devices and rotations.  *)
(*                                                                         *)
(* None of the properties is inductive.  Fresh says that an open rotation    *)
(* owns a key number nobody has inserted, Retiring that its UPDATE has seen  *)
(* every active key that was there when it began, and Retired that a         *)
(* replaced key is never active again: tickets are signed with active keys.   *)
(* ToSeal names the replica that will seal what is in the clear, the last one *)
(* to come up with the variable set, and Awake says that only a replica that  *)
(* runs has a rotation open.                                                 *)
(***************************************************************************)
EXTENDS TicketKeys, WellFoundedInduction, TLAPS

Clear == {k \in Kids : secret[k] = "clear"}

Fresh ==
  \A p \in Replicas : rotation[p].step # "idle" =>
    /\ rotation[p].kid \in 1..begun /\ key[rotation[p].kid] = "none"
    /\ \A q \in Replicas \ {p} : rotation[q].step # "idle" => rotation[q].kid # rotation[p].kid

Retiring ==
  \A p \in Replicas : rotation[p].step \in {"updating", "locked"} =>
    rotation[p].before \cap ActiveKeys \subseteq rotation[p].seen

Retired == replaced \cap ActiveKeys = {}

Serving == (\E p \in Replicas : replica[p] = "up") => ActiveKeys # {}

ToSeal ==
  /\ \A p \in Replicas : replica[p] # "sealing" => unsealed[p] = {}
  /\ (\A p \in Replicas : env[p]) =>
       \/ Clear = {}
       \/ \E p \in Replicas : replica[p] = "down" \/ Clear \subseteq unsealed[p]

Awake == \A p \in Replicas : rotation[p].step # "idle" => replica[p] \in {"loading", "up"}

Signed ==
  /\ \A o \in Orders : issue[o].step # "todo" => issue[o].kid \in Rows \ issue[o].replaced
  /\ \A o \in Orders : issue[o].step = "todo" => issue[o] = Todo
  /\ \A d \in Devices : \A o \in told[d] :
       issue[o].step = "done" /\ issue[o].kid \in published[d]

KeysInv ==
  /\ TypeOK /\ Fresh /\ Retiring /\ Retired
  /\ Serving /\ SealedAtMostOnce /\ ToSeal /\ Awake /\ Signed

-----------------------------------------------------------------------------
\* Of the active keys there is a latest one, and it signs.
LEMMA SignerIsActive ==
  ASSUME key \in [Kids -> {"none", "active", "retired"}]
  PROVE  /\ ActiveKeys # {} => Signer \in ActiveKeys
         /\ ActiveKeys = {} => Signer = NoKey
         /\ NoKey \notin Kids
<1>1. ActiveKeys \in SUBSET Nat /\ \A k \in ActiveKeys : k <= MaxKeys
  BY TicketKeysAssumption DEF ActiveKeys, Kids
<1>2. NoKey \notin Kids
  BY TicketKeysAssumption DEF NoKey, Kids
<1>3. ASSUME ActiveKeys # {}
      PROVE  \E k \in ActiveKeys : \A j \in ActiveKeys : j <= k
  <2> DEFINE R == OpToRel(<, Nat)
             T == {n \in Nat : \E k \in ActiveKeys : n = MaxKeys - k}
  <2>1. T \in SUBSET Nat /\ T # {}
    <3>1. PICK k \in ActiveKeys : TRUE
      BY <1>3
    <3>2. MaxKeys - k \in Nat
      BY <1>1, TicketKeysAssumption
    <3> QED
      BY <3>1, <3>2
  <2>2. IsWellFoundedOn(R, Nat)
    BY NatLessThanWellFounded
  <2>3. PICK x \in T : \A y \in T : ~ (<<y, x>> \in R)
    <3> HIDE DEF R, T
    <3> QED
      BY <2>1, <2>2, WFMin
  <2>4. \A y \in T : ~(y < x)
    BY <2>3 DEF OpToRel
  <2>5. PICK k \in ActiveKeys : x = MaxKeys - k
    BY <2>3
  <2>6. ASSUME NEW j \in ActiveKeys PROVE j <= k
    <3>1. MaxKeys - j \in T
      BY <1>1, TicketKeysAssumption
    <3> QED
      BY <1>1, <2>4, <2>5, <3>1, TicketKeysAssumption
  <2> QED
    BY <2>6
<1> QED
  BY <1>2, <1>3 DEF Signer

\* Nothing is stored, served or signed at first.
LEMMA InvInit == Init => KeysInv
<1> SUFFICES ASSUME Init PROVE KeysInv
  OBVIOUS
<1>1. Rows = {} /\ ActiveKeys = {} /\ Clear = {}
  BY DEF Init, Rows, ActiveKeys, Clear
<1>2. TypeOK
  BY <1>1, TicketKeysAssumption DEF Init, TypeOK, Quiet, Todo, HeldBy
<1>3. Fresh /\ Retiring /\ Retired /\ Serving
  BY DEF Init, Quiet, Fresh, Retiring, Retired, Serving
<1>4. SealedAtMostOnce /\ ToSeal /\ Signed
  BY <1>1 DEF Init, SealedAtMostOnce, ToSeal, Todo, Signed
<1>5. Awake
  BY DEF Init, Quiet, Awake
<1> QED
  BY <1>2, <1>3, <1>4, <1>5 DEF KeysInv

\* Who has no row locked leaves the others' locks apart.
LEMMA HeldApart ==
  ASSUME KeysInv, NEW p \in Replicas, HeldBy(p)' = {},
         \A q \in Replicas \ {p} : HeldBy(q)' = HeldBy(q)
  PROVE  /\ \A q \in Replicas : HeldBy(q)' \subseteq ActiveKeys
         /\ \A q, t \in Replicas : q # t => HeldBy(q)' \cap HeldBy(t)' = {}
<1>1. /\ \A q \in Replicas : HeldBy(q) \subseteq ActiveKeys
      /\ \A q, t \in Replicas : q # t => HeldBy(q) \cap HeldBy(t) = {}
  BY DEF KeysInv, TypeOK
<1>2. \A q \in Replicas : HeldBy(q)' = {} \/ HeldBy(q)' = HeldBy(q)
  OBVIOUS
<1> QED
  BY <1>1, <1>2

-----------------------------------------------------------------------------
(* Boot *)

\* A replica with the variable selects everything that is in the clear.
LEMMA SealSelectStep ==
  ASSUME KeysInv, NEW p \in Replicas, SealSelect(p)
  PROVE  KeysInv'
<1>1. /\ replica[p] = "down" /\ replica' = [replica EXCEPT ![p] = "sealing"]
      /\ unsealed' = [unsealed EXCEPT ![p] =
                        IF env[p] THEN {k \in Kids : secret[k] = "clear"} ELSE {}]
      /\ UNCHANGED <<begun, key, secret, env, rotation, replaced, issue, published, told>>
  BY DEF SealSelect, rows, gates
<1>2. Clear \subseteq Rows
  BY DEF KeysInv, TypeOK, Clear, Rows
<1>3. TypeOK'
  BY <1>1, <1>2 DEF KeysInv, TypeOK, Rows, Clear, ActiveKeys, HeldBy
<1>4. Fresh' /\ Retiring' /\ Retired' /\ SealedAtMostOnce' /\ Signed'
  BY <1>1 DEF KeysInv, Fresh, Retiring, Retired, SealedAtMostOnce, Signed, ActiveKeys, Rows
<1>5. Serving'
  BY <1>1 DEF KeysInv, TypeOK, Serving, ActiveKeys
<1>6. ToSeal'
  BY <1>1 DEF KeysInv, TypeOK, ToSeal, Clear
<1>7. Awake'
  BY <1>1 DEF KeysInv, TypeOK, Awake
<1> QED
  BY <1>3, <1>4, <1>5, <1>6, <1>7 DEF KeysInv

\* WHERE encryption IS NULL: only what is in the clear is sealed.
LEMMA SealStep ==
  ASSUME KeysInv, NEW p \in Replicas, Seal(p)
  PROVE  KeysInv'
<1>1. PICK k \in unsealed[p] :
        /\ secret' = [secret EXCEPT ![k] = IF @ = "clear" THEN "sealed" ELSE @]
        /\ unsealed' = [unsealed EXCEPT ![p] = @ \ {k}]
        /\ UNCHANGED <<begun, key, replica, env, rotation, replaced, issue, published, told>>
  BY DEF Seal, gates
<1>2. k \in Rows /\ k \in Kids
  BY DEF KeysInv, TypeOK, Rows
<1>3. TypeOK'
  BY <1>1, <1>2 DEF KeysInv, TypeOK, Rows, ActiveKeys, HeldBy
<1>4. Fresh' /\ Retiring' /\ Retired' /\ Signed' /\ Serving' /\ Awake'
  BY <1>1 DEF KeysInv, Awake, Fresh, Retiring, Retired, Signed, Serving, ActiveKeys, Rows
<1>5. SealedAtMostOnce'
  BY <1>1, <1>2 DEF KeysInv, TypeOK, SealedAtMostOnce
<1>6. ToSeal'
  <2>1. Clear' = Clear \ {k}
    BY <1>1, <1>2 DEF KeysInv, TypeOK, Clear
  <2> QED
    BY <1>1, <2>1 DEF KeysInv, TypeOK, ToSeal
<1> QED
  BY <1>3, <1>4, <1>5, <1>6 DEF KeysInv

\* A replica serves only when there is a key it can open.
LEMMA LoadStep ==
  ASSUME KeysInv, NEW p \in Replicas, Load(p)
  PROVE  KeysInv'
<1>1. /\ replica[p] = "sealing" /\ unsealed[p] = {}
      /\ replica' = [replica EXCEPT ![p] =
                       IF Signer = NoKey THEN "loading"
                       ELSE IF Readable(p, Signer) THEN "up" ELSE "down"]
      /\ UNCHANGED <<begun, key, secret, env, unsealed, rotation, replaced, issue, published, told>>
  BY DEF Load, rows, gates
<1>2. TypeOK'
  BY <1>1 DEF KeysInv, TypeOK, Rows, ActiveKeys, HeldBy
<1>3. Fresh' /\ Retiring' /\ Retired' /\ SealedAtMostOnce' /\ Signed'
  BY <1>1 DEF KeysInv, Fresh, Retiring, Retired, SealedAtMostOnce, Signed, ActiveKeys, Rows
<1>4. Serving'
  <2>1. Signer # NoKey => ActiveKeys # {}
    BY SignerIsActive DEF KeysInv, TypeOK
  <2> QED
    BY <1>1, <2>1 DEF KeysInv, TypeOK, Serving, ActiveKeys
<1>5. ToSeal'
  BY <1>1 DEF KeysInv, TypeOK, ToSeal, Clear
<1>6. Awake'
  BY <1>1 DEF KeysInv, TypeOK, Awake
<1> QED
  BY <1>2, <1>3, <1>4, <1>5, <1>6 DEF KeysInv

\* The replica that comes back with the variable set has everything to seal.
LEMMA RestartStep ==
  ASSUME KeysInv, NEW p \in Replicas, Restart(p)
  PROVE  KeysInv'
<1>1. /\ replica' = [replica EXCEPT ![p] = "down"]
      /\ env' \in [Replicas -> BOOLEAN]
      /\ unsealed' = [unsealed EXCEPT ![p] = {}]
      /\ rotation' = [rotation EXCEPT ![p] = Quiet]
      /\ issue' = [o \in Orders |-> IF issue[o].step = "read" /\ issue[o].by = {p}
                                    THEN Todo ELSE issue[o]]
      /\ UNCHANGED <<begun, key, secret, replaced, published, told>>
  <2>1. PICK set \in {env[p], TRUE} : env' = [env EXCEPT ![p] = set]
    BY DEF Restart
  <2>2. env \in [Replicas -> BOOLEAN] /\ set \in BOOLEAN
    BY DEF KeysInv, TypeOK
  <2>3. env' \in [Replicas -> BOOLEAN]
    BY <2>1, <2>2
  <2> QED
    BY <2>3 DEF Restart, rows, gates
<1>2. /\ Quiet \in [step : {"idle", "begun", "updating", "locked"}, kid : Kids \cup {NoKey},
                    seen : SUBSET Rows, before : SUBSET Rows]
      /\ Quiet.step = "idle"
      /\ Todo \in [step : {"todo", "read", "done"}, kid : Rows \cup {NoKey},
                   by : SUBSET Replicas, replaced : SUBSET Rows]
      /\ Todo.step = "todo" /\ Todo.kid = NoKey /\ Todo.replaced = {}
  BY DEF Quiet, Todo
<1> HIDE DEF Quiet, Todo
<1>3. rotation'[p] = Quiet /\ \A q \in Replicas \ {p} : rotation'[q] = rotation[q]
  BY <1>1 DEF KeysInv, TypeOK
<1>4. Rows' = Rows /\ ActiveKeys' = ActiveKeys /\ Clear' = Clear
  BY <1>1 DEF Rows, ActiveKeys, Clear
<1>5. HeldBy(p)' = {} /\ \A q \in Replicas \ {p} : HeldBy(q)' = HeldBy(q)
  BY <1>2, <1>3 DEF HeldBy
<1>6. TypeOK'
  <2>1. /\ rotation' \in [Replicas -> [step : {"idle", "begun", "updating", "locked"},
                                       kid : Kids \cup {NoKey}, seen : SUBSET Rows,
                                       before : SUBSET Rows]]
        /\ replica' \in [Replicas -> {"down", "sealing", "loading", "up"}]
        /\ unsealed' \in [Replicas -> SUBSET Rows]
    BY <1>1, <1>2 DEF KeysInv, TypeOK
  <2>2. issue' \in [Orders -> [step : {"todo", "read", "done"}, kid : Rows \cup {NoKey},
                               by : SUBSET Replicas, replaced : SUBSET Rows]]
    BY <1>1, <1>2 DEF KeysInv, TypeOK
  <2>3. /\ \A q \in Replicas : HeldBy(q)' \subseteq ActiveKeys
        /\ \A q, t \in Replicas : q # t => HeldBy(q)' \cap HeldBy(t)' = {}
    BY <1>5, HeldApart
  <2> QED
    BY <1>1, <1>4, <2>1, <2>2, <2>3 DEF KeysInv, TypeOK
<1>7. Fresh' /\ Retiring'
  BY <1>1, <1>2, <1>3, <1>4 DEF KeysInv, Fresh, Retiring
<1>8. Retired' /\ Serving' /\ SealedAtMostOnce'
  BY <1>1, <1>4 DEF KeysInv, TypeOK, Retired, Serving, SealedAtMostOnce
<1>9. ToSeal'
  BY <1>1, <1>4 DEF KeysInv, TypeOK, ToSeal
<1>10. Signed'
  <2>1. \A o \in Orders : issue'[o] = issue[o] \/ (issue[o].step = "read" /\ issue'[o] = Todo)
    BY <1>1
  <2>2. \A d \in Devices : told[d] \subseteq Orders
    BY DEF KeysInv, TypeOK
  <2> QED
    BY <1>1, <1>2, <1>4, <2>1, <2>2 DEF KeysInv, Signed
<1>11. Awake'
  BY <1>1, <1>2, <1>3 DEF KeysInv, TypeOK, Awake
<1> QED
  BY <1>6, <1>7, <1>8, <1>9, <1>10, <1>11 DEF KeysInv

-----------------------------------------------------------------------------
(* Rotation *)

\* A rotation that begins gets a number nobody has.
LEMMA RotateBeginStep ==
  ASSUME KeysInv, NEW p \in Replicas, RotateBegin(p)
  PROVE  KeysInv'
<1> DEFINE new == [step |-> "begun", kid |-> begun + 1, seen |-> {}, before |-> Rows]
<1>1. /\ replica[p] \in {"loading", "up"} /\ begun < MaxKeys /\ begun' = begun + 1
      /\ rotation' = [rotation EXCEPT ![p] = new]
      /\ UNCHANGED <<key, secret, replica, env, unsealed, replaced, issue, published, told>>
  BY DEF RotateBegin, rows, gates
<1>2. /\ begun \in Nat /\ begun + 1 \in Kids
      /\ key[begun + 1] = "none"
  BY <1>1, TicketKeysAssumption DEF KeysInv, TypeOK, Kids
<1>3. /\ new \in [step : {"idle", "begun", "updating", "locked"}, kid : Kids \cup {NoKey},
                  seen : SUBSET Rows, before : SUBSET Rows]
      /\ new.step = "begun" /\ new.kid = begun + 1
  BY <1>2
<1> HIDE DEF new
<1>4. rotation'[p] = new /\ \A q \in Replicas \ {p} : rotation'[q] = rotation[q]
  BY <1>1 DEF KeysInv, TypeOK
<1>5. Rows' = Rows /\ ActiveKeys' = ActiveKeys /\ Clear' = Clear
  BY <1>1 DEF Rows, ActiveKeys, Clear
<1>6. HeldBy(p)' = {} /\ \A q \in Replicas \ {p} : HeldBy(q)' = HeldBy(q)
  BY <1>3, <1>4 DEF HeldBy
<1>7. TypeOK'
  <2>1. begun' \in 0..MaxKeys /\ \A k \in Kids : key[k] # "none" => k <= begun'
    BY <1>1, <1>2, TicketKeysAssumption DEF KeysInv, TypeOK, Kids
  <2>2. rotation' \in [Replicas -> [step : {"idle", "begun", "updating", "locked"},
                                    kid : Kids \cup {NoKey}, seen : SUBSET Rows,
                                    before : SUBSET Rows]]
    BY <1>1, <1>3 DEF KeysInv, TypeOK
  <2>3. /\ \A q \in Replicas : HeldBy(q)' \subseteq ActiveKeys
        /\ \A q, t \in Replicas : q # t => HeldBy(q)' \cap HeldBy(t)' = {}
    BY <1>6, HeldApart
  <2> QED
    BY <1>1, <1>5, <2>1, <2>2, <2>3 DEF KeysInv, TypeOK
<1>8. Fresh'
  <2>1. \A n \in 1..begun : n # begun + 1 /\ n \in 1..begun'
    BY <1>1, <1>2
  <2>2. begun + 1 \in 1..begun'
    BY <1>1, <1>2
  <2> QED
    BY <1>1, <1>2, <1>3, <1>4, <2>1, <2>2 DEF KeysInv, Fresh
<1>9. Retiring'
  BY <1>3, <1>4, <1>5 DEF KeysInv, Retiring
<1>10. Retired' /\ Serving' /\ SealedAtMostOnce' /\ ToSeal' /\ Signed'
  BY <1>1, <1>5 DEF KeysInv, Retired, Serving, SealedAtMostOnce, ToSeal, Signed
<1>11. Awake'
  BY <1>1, <1>4 DEF KeysInv, Awake
<1> QED
  BY <1>7, <1>8, <1>9, <1>10, <1>11 DEF KeysInv
\* The UPDATE's snapshot has every active key in it.
LEMMA RotateUpdateStep ==
  ASSUME KeysInv, NEW p \in Replicas, RotateUpdate(p)
  PROVE  KeysInv'
<1> DEFINE new == [rotation[p] EXCEPT !.step = "updating", !.seen = ActiveKeys]
<1>1. /\ rotation[p].step = "begun"
      /\ rotation' = [rotation EXCEPT ![p] = new]
      /\ UNCHANGED <<begun, key, secret, replica, env, unsealed, replaced, issue, published, told>>
  BY DEF RotateUpdate, rows, gates, KeysInv, TypeOK
<1>2. rotation[p] \in [step : {"idle", "begun", "updating", "locked"}, kid : Kids \cup {NoKey},
                       seen : SUBSET Rows, before : SUBSET Rows]
  BY DEF KeysInv, TypeOK
<1>3. ActiveKeys \subseteq Rows
  BY DEF ActiveKeys, Rows
<1>4. /\ new \in [step : {"idle", "begun", "updating", "locked"}, kid : Kids \cup {NoKey},
                  seen : SUBSET Rows, before : SUBSET Rows]
      /\ new.step = "updating" /\ new.kid = rotation[p].kid
      /\ new.seen = ActiveKeys /\ new.before = rotation[p].before
  BY <1>2, <1>3
<1> HIDE DEF new
<1>5. rotation'[p] = new /\ \A q \in Replicas \ {p} : rotation'[q] = rotation[q]
  BY <1>1 DEF KeysInv, TypeOK
<1>6. Rows' = Rows /\ ActiveKeys' = ActiveKeys /\ Clear' = Clear
  BY <1>1 DEF Rows, ActiveKeys, Clear
<1>7. HeldBy(p)' = {} /\ \A q \in Replicas \ {p} : HeldBy(q)' = HeldBy(q)
  BY <1>4, <1>5 DEF HeldBy
<1>8. TypeOK'
  <2>1. rotation' \in [Replicas -> [step : {"idle", "begun", "updating", "locked"},
                                    kid : Kids \cup {NoKey}, seen : SUBSET Rows,
                                    before : SUBSET Rows]]
    BY <1>1, <1>4 DEF KeysInv, TypeOK
  <2>2. /\ \A q \in Replicas : HeldBy(q)' \subseteq ActiveKeys
        /\ \A q, t \in Replicas : q # t => HeldBy(q)' \cap HeldBy(t)' = {}
    BY <1>7, HeldApart
  <2> QED
    BY <1>1, <1>6, <2>1, <2>2 DEF KeysInv, TypeOK
<1>9. Fresh'
  BY <1>1, <1>4, <1>5 DEF KeysInv, Fresh
<1>10. Retiring'
  BY <1>4, <1>5, <1>6 DEF KeysInv, Retiring
<1>11. Retired' /\ Serving' /\ SealedAtMostOnce' /\ ToSeal' /\ Signed'
  BY <1>1, <1>6 DEF KeysInv, Retired, Serving, SealedAtMostOnce, ToSeal, Signed
<1>12. Awake'
  BY <1>1, <1>5 DEF KeysInv, Awake
<1> QED
  BY <1>8, <1>9, <1>10, <1>11, <1>12 DEF KeysInv

\* A rotation locks keys no other one holds, and only active ones.
LEMMA RotateLockStep ==
  ASSUME KeysInv, NEW p \in Replicas, RotateLock(p)
  PROVE  KeysInv'
<1> DEFINE new == [rotation[p] EXCEPT !.step = "locked", !.seen = @ \cap ActiveKeys]
<1>1. /\ rotation[p].step = "updating"
      /\ \A q \in Replicas : HeldBy(q) \cap rotation[p].seen = {}
      /\ rotation' = [rotation EXCEPT ![p] = new]
      /\ UNCHANGED <<begun, key, secret, replica, env, unsealed, replaced, issue, published, told>>
  BY DEF RotateLock, rows, gates, KeysInv, TypeOK
<1>2. rotation[p] \in [step : {"idle", "begun", "updating", "locked"}, kid : Kids \cup {NoKey},
                       seen : SUBSET Rows, before : SUBSET Rows]
  BY DEF KeysInv, TypeOK
<1>3. /\ new \in [step : {"idle", "begun", "updating", "locked"}, kid : Kids \cup {NoKey},
                  seen : SUBSET Rows, before : SUBSET Rows]
      /\ new.step = "locked" /\ new.kid = rotation[p].kid
      /\ new.seen = rotation[p].seen \cap ActiveKeys /\ new.before = rotation[p].before
  BY <1>2
<1> HIDE DEF new
<1>4. rotation'[p] = new /\ \A q \in Replicas \ {p} : rotation'[q] = rotation[q]
  BY <1>1 DEF KeysInv, TypeOK
<1>5. Rows' = Rows /\ ActiveKeys' = ActiveKeys /\ Clear' = Clear
  BY <1>1 DEF Rows, ActiveKeys, Clear
<1>6. /\ HeldBy(p)' = rotation[p].seen \cap ActiveKeys
      /\ \A q \in Replicas \ {p} : HeldBy(q)' = HeldBy(q)
  BY <1>3, <1>4 DEF HeldBy
<1>7. TypeOK'
  <2>1. /\ \A q \in Replicas : HeldBy(q)' \subseteq ActiveKeys
        /\ \A q, t \in Replicas : q # t => HeldBy(q)' \cap HeldBy(t)' = {}
    <3>1. /\ \A q \in Replicas : HeldBy(q) \subseteq ActiveKeys
          /\ \A q, t \in Replicas : q # t => HeldBy(q) \cap HeldBy(t) = {}
      BY DEF KeysInv, TypeOK
    <3>2. \A q \in Replicas \ {p} : HeldBy(q)' \cap HeldBy(p)' = {}
      BY <1>1, <1>6
    <3> QED
      BY <1>6, <3>1, <3>2
  <2> QED
    BY <1>1, <1>3, <1>5, <2>1 DEF KeysInv, TypeOK
<1>8. Fresh'
  BY <1>1, <1>3, <1>4 DEF KeysInv, Fresh
<1>9. Retiring'
  BY <1>1, <1>3, <1>4, <1>5 DEF KeysInv, Retiring
<1>10. Retired' /\ Serving' /\ SealedAtMostOnce' /\ ToSeal' /\ Signed'
  BY <1>1, <1>5 DEF KeysInv, Retired, Serving, SealedAtMostOnce, ToSeal, Signed
<1>11. Awake'
  BY <1>1, <1>4 DEF KeysInv, Awake
<1> QED
  BY <1>7, <1>8, <1>9, <1>10, <1>11 DEF KeysInv

\* The new key becomes active as everything the rotation found is retired.
LEMMA RotateCommitStep ==
  ASSUME KeysInv, NEW p \in Replicas, RotateCommit(p)
  PROVE  KeysInv'
<1> DEFINE r == rotation[p]
           n == r.kid
<1>1. /\ r.step = "locked"
      /\ key' = [k \in Kids |-> IF k = n THEN "active" ELSE IF k \in r.seen THEN "retired" ELSE key[k]]
      /\ secret' = [secret EXCEPT ![n] = IF env[p] THEN "sealed" ELSE "clear"]
      /\ rotation' = [rotation EXCEPT ![p] = Quiet]
      /\ replica' = [replica EXCEPT ![p] = "up"]
      /\ replaced' = replaced \cup r.before
      /\ UNCHANGED <<begun, env, unsealed, issue, published, told>>
  BY DEF RotateCommit, gates
<1>2. /\ r \in [step : {"idle", "begun", "updating", "locked"}, kid : Kids \cup {NoKey},
                seen : SUBSET Rows, before : SUBSET Rows]
      /\ HeldBy(p) = r.seen /\ r.seen \subseteq ActiveKeys /\ r.seen \subseteq Rows
      /\ r.before \subseteq Rows /\ r.before \cap ActiveKeys \subseteq r.seen
  BY <1>1 DEF KeysInv, TypeOK, Retiring, HeldBy
<1>3. /\ n \in Kids /\ n <= begun /\ key[n] = "none"
      /\ \A q \in Replicas \ {p} : rotation[q].step # "idle" => rotation[q].kid # n
  <2>1. n \in 1..begun /\ begun \in 0..MaxKeys
    BY <1>1 DEF KeysInv, Fresh, TypeOK
  <2> QED
    BY <1>1, <2>1, TicketKeysAssumption DEF KeysInv, Fresh, Kids
<1> HIDE DEF n, r
<1>4. rotation'[p] = Quiet /\ \A q \in Replicas \ {p} : rotation'[q] = rotation[q]
  BY <1>1 DEF KeysInv, TypeOK
<1>5. Rows' = Rows \cup {n}
  <2>1. \A k \in r.seen : key[k] # "none"
    BY <1>2 DEF Rows
  <2> QED
    BY <1>1, <1>3, <2>1 DEF Rows
<1>6. ActiveKeys' = (ActiveKeys \ r.seen) \cup {n}
  BY <1>1, <1>2, <1>3 DEF ActiveKeys
<1>7. n \notin Rows
  BY <1>3 DEF Rows
<1>8. HeldBy(p)' = {} /\ \A q \in Replicas \ {p} : HeldBy(q)' = HeldBy(q)
  BY <1>4 DEF HeldBy, Quiet
<1>9. TypeOK'
  <2>1. /\ key' \in [Kids -> {"none", "active", "retired"}]
        /\ secret' \in [Kids -> {"none", "clear", "sealed", "twice"}]
    BY <1>1, <1>3 DEF KeysInv, TypeOK
  <2>2. \A k \in Kids : /\ key'[k] = "none" <=> secret'[k] = "none"
                        /\ key'[k] # "none" => k <= begun'
    <3>1. \A k \in r.seen : key[k] = "active" /\ k \in Kids
      BY <1>2 DEF ActiveKeys
    <3> QED
      BY <1>1, <1>3, <3>1 DEF KeysInv, TypeOK
  <2>3. rotation' \in [Replicas -> [step : {"idle", "begun", "updating", "locked"},
                                    kid : Kids \cup {NoKey}, seen : SUBSET Rows',
                                    before : SUBSET Rows']]
    <3>1. Quiet \in [step : {"idle", "begun", "updating", "locked"}, kid : Kids \cup {NoKey},
                     seen : SUBSET Rows', before : SUBSET Rows']
      BY DEF Quiet
    <3>2. \A q \in Replicas :
            rotation[q] \in [step : {"idle", "begun", "updating", "locked"},
                             kid : Kids \cup {NoKey}, seen : SUBSET Rows', before : SUBSET Rows']
      BY <1>5 DEF KeysInv, TypeOK
    <3> QED
      BY <1>1, <3>1, <3>2 DEF KeysInv, TypeOK
  <2>4. /\ \A q \in Replicas : HeldBy(q)' \subseteq ActiveKeys'
        /\ \A q, t \in Replicas : q # t => HeldBy(q)' \cap HeldBy(t)' = {}
    <3>1. /\ \A q \in Replicas : HeldBy(q) \subseteq ActiveKeys
          /\ \A q \in Replicas \ {p} : HeldBy(q) \cap HeldBy(p) = {}
          /\ \A q, t \in Replicas : q # t => HeldBy(q) \cap HeldBy(t) = {}
      BY DEF KeysInv, TypeOK
    <3>2. \A q \in Replicas \ {p} : HeldBy(q)' \subseteq ActiveKeys'
      BY <1>2, <1>6, <1>8, <3>1
    <3> QED
      BY <1>8, <3>1, <3>2
  <2>5. /\ replica' \in [Replicas -> {"down", "sealing", "loading", "up"}]
        /\ replaced' \subseteq Rows'
        /\ unsealed' \in [Replicas -> SUBSET Rows']
        /\ published' \in [Devices -> SUBSET Rows']
    BY <1>1, <1>2, <1>5 DEF KeysInv, TypeOK
  <2>6. issue' \in [Orders -> [step : {"todo", "read", "done"}, kid : Rows' \cup {NoKey},
                               by : SUBSET Replicas, replaced : SUBSET Rows']]
    BY <1>1, <1>5 DEF KeysInv, TypeOK
  <2> QED
    BY <1>1, <2>1, <2>2, <2>3, <2>4, <2>5, <2>6 DEF KeysInv, TypeOK
<1>10. Fresh'
  <2>1. \A q \in Replicas : rotation'[q].step # "idle" =>
          q # p /\ rotation'[q] = rotation[q] /\ rotation[q].kid # n
    BY <1>3, <1>4 DEF Quiet
  <2>2. \A k \in Kids : key[k] = "none" /\ k # n => key'[k] = "none"
    BY <1>1, <1>2 DEF ActiveKeys
  <2>3. \A q \in Replicas : rotation[q].step # "idle" => rotation[q].kid \in Kids
    <3>1. begun \in 0..MaxKeys
      BY DEF KeysInv, TypeOK
    <3> QED
      BY <3>1, TicketKeysAssumption DEF KeysInv, Fresh, Kids
  <2> QED
    BY <1>1, <2>1, <2>2, <2>3 DEF KeysInv, Fresh
<1>11. Retiring'
  <2>1. \A q \in Replicas : n \notin rotation[q].before
    BY <1>7 DEF KeysInv, TypeOK
  <2> QED
    BY <1>4, <1>6, <2>1 DEF KeysInv, Retiring, Quiet
<1>12. Retired'
  BY <1>1, <1>2, <1>6, <1>7 DEF KeysInv, TypeOK, Retired
<1>13. Serving'
  BY <1>6 DEF Serving
<1>14. SealedAtMostOnce'
  BY <1>1, <1>3 DEF KeysInv, TypeOK, SealedAtMostOnce
<1>15. ToSeal'
  <2>1. env[p] => Clear' \subseteq Clear
    BY <1>1, <1>3 DEF KeysInv, TypeOK, Clear
  <2>2. /\ \A q \in Replicas \ {p} : replica'[q] = replica[q]
        /\ replica'[p] = "up"
    BY <1>1 DEF KeysInv, TypeOK
  <2>3. replica[p] # "down" /\ replica[p] # "sealing"
    BY <1>1 DEF KeysInv, Awake, r
  <2> QED
    BY <1>1, <2>1, <2>2, <2>3 DEF KeysInv, ToSeal
<1>16. Signed'
  BY <1>1, <1>5 DEF KeysInv, Signed
<1>17. Awake'
  BY <1>1, <1>4 DEF KeysInv, TypeOK, Awake
<1> QED
  BY <1>17, <1>9, <1>10, <1>11, <1>12, <1>13, <1>14, <1>15, <1>16 DEF KeysInv

-----------------------------------------------------------------------------
(* Issuing and pulling *)

\* The signer read is active, hence replaced by no completed rotation.
LEMMA ReadSignerStep ==
  ASSUME KeysInv, NEW o \in Orders, NEW p \in Replicas, ReadSigner(o, p)
  PROVE  KeysInv'
<1> DEFINE new == [step |-> "read", kid |-> Signer, by |-> {p}, replaced |-> replaced]
<1>1. /\ issue[o] = Todo /\ Signer # NoKey
      /\ issue' = [issue EXCEPT ![o] = new]
      /\ UNCHANGED <<begun, key, secret, replica, env, unsealed, rotation, replaced,
                     published, told>>
  BY DEF ReadSigner, rows, gates
<1>2. Signer \in Rows \ replaced
  <2>1. Signer \in ActiveKeys
    BY <1>1, SignerIsActive DEF KeysInv, TypeOK
  <2> QED
    BY <2>1 DEF KeysInv, Retired, ActiveKeys, Rows
<1>3. /\ new \in [step : {"todo", "read", "done"}, kid : Rows \cup {NoKey},
                  by : SUBSET Replicas, replaced : SUBSET Rows]
      /\ new.step = "read" /\ new.kid \in Rows \ new.replaced
  BY <1>2 DEF KeysInv, TypeOK
<1> HIDE DEF new
<1>4. Rows' = Rows /\ ActiveKeys' = ActiveKeys /\ Clear' = Clear
      /\ \A q \in Replicas : HeldBy(q)' = HeldBy(q)
  BY <1>1 DEF Rows, ActiveKeys, Clear, HeldBy
<1>5. TypeOK'
  BY <1>1, <1>3, <1>4 DEF KeysInv, TypeOK
<1>6. Fresh' /\ Retiring' /\ Retired' /\ Serving' /\ SealedAtMostOnce' /\ ToSeal' /\ Awake'
  BY <1>1, <1>4 DEF KeysInv, Fresh, Retiring, Retired, Serving, SealedAtMostOnce, ToSeal, Awake
<1>7. Signed'
  <2>1. issue'[o] = new /\ \A x \in Orders \ {o} : issue'[x] = issue[x]
    BY <1>1 DEF KeysInv, TypeOK
  <2>2. \A d \in Devices : told[d] \subseteq Orders /\ o \notin told[d]
    BY <1>1 DEF KeysInv, TypeOK, Signed, Todo
  <2> QED
    BY <1>1, <1>3, <1>4, <2>1, <2>2 DEF KeysInv, Signed
<1> QED
  BY <1>5, <1>6, <1>7 DEF KeysInv

\* The ticket is signed with the key that was read.
LEMMA IssueStep ==
  ASSUME KeysInv, NEW o \in Orders, Issue(o)
  PROVE  KeysInv'
<1> DEFINE new == [issue[o] EXCEPT !.step = "done"]
<1>1. /\ issue[o].step = "read"
      /\ issue' = [issue EXCEPT ![o] = new]
      /\ UNCHANGED <<begun, key, secret, replica, env, unsealed, rotation, replaced,
                     published, told>>
  BY DEF Issue, rows, gates, KeysInv, TypeOK
<1>2. issue[o] \in [step : {"todo", "read", "done"}, kid : Rows \cup {NoKey},
                    by : SUBSET Replicas, replaced : SUBSET Rows]
  BY DEF KeysInv, TypeOK
<1>3. /\ new \in [step : {"todo", "read", "done"}, kid : Rows \cup {NoKey},
                  by : SUBSET Replicas, replaced : SUBSET Rows]
      /\ new.step = "done" /\ new.kid = issue[o].kid /\ new.replaced = issue[o].replaced
  BY <1>2
<1> HIDE DEF new
<1>4. Rows' = Rows /\ ActiveKeys' = ActiveKeys /\ Clear' = Clear
      /\ \A q \in Replicas : HeldBy(q)' = HeldBy(q)
  BY <1>1 DEF Rows, ActiveKeys, Clear, HeldBy
<1>5. TypeOK'
  BY <1>1, <1>3, <1>4 DEF KeysInv, TypeOK
<1>6. Fresh' /\ Retiring' /\ Retired' /\ Serving' /\ SealedAtMostOnce' /\ ToSeal' /\ Awake'
  BY <1>1, <1>4 DEF KeysInv, Fresh, Retiring, Retired, Serving, SealedAtMostOnce, ToSeal, Awake
<1>7. Signed'
  <2>1. issue'[o] = new /\ \A x \in Orders \ {o} : issue'[x] = issue[x]
    BY <1>1 DEF KeysInv, TypeOK
  <2>2. \A d \in Devices : told[d] \subseteq Orders
    BY DEF KeysInv, TypeOK
  <2> QED
    BY <1>1, <1>3, <1>4, <2>1, <2>2 DEF KeysInv, Signed
<1> QED
  BY <1>5, <1>6, <1>7 DEF KeysInv

\* A device that pulls has every row, retired keys too.
LEMMA PullKeysStep ==
  ASSUME KeysInv, NEW d \in Devices, PullKeys(d)
  PROVE  KeysInv'
<1>1. /\ published' = [published EXCEPT ![d] = Rows]
      /\ told' = [told EXCEPT ![d] = Ticketed]
      /\ UNCHANGED <<begun, key, secret, replica, env, unsealed, rotation, replaced, issue>>
  BY DEF PullKeys, rows
<1>2. Rows' = Rows /\ ActiveKeys' = ActiveKeys /\ Clear' = Clear
      /\ \A q \in Replicas : HeldBy(q)' = HeldBy(q)
  BY <1>1 DEF Rows, ActiveKeys, Clear, HeldBy
<1>3. TypeOK'
  <2>1. Ticketed \subseteq Orders
    BY DEF Ticketed
  <2> QED
    BY <1>1, <1>2, <2>1 DEF KeysInv, TypeOK
<1>4. Fresh' /\ Retiring' /\ Retired' /\ Serving' /\ SealedAtMostOnce' /\ ToSeal' /\ Awake'
  BY <1>1, <1>2 DEF KeysInv, Fresh, Retiring, Retired, Serving, SealedAtMostOnce, ToSeal, Awake
<1>5. Signed'
  <2>1. \A x \in Ticketed : x \in Orders /\ issue[x].step = "done" /\ issue[x].kid \in Rows
    BY DEF Ticketed, KeysInv, Signed
  <2>2. /\ published'[d] = Rows /\ told'[d] = Ticketed
        /\ \A e \in Devices \ {d} : published'[e] = published[e] /\ told'[e] = told[e]
    BY <1>1 DEF KeysInv, TypeOK
  <2> QED
    BY <1>1, <1>2, <2>1, <2>2 DEF KeysInv, Signed
<1> QED
  BY <1>3, <1>4, <1>5 DEF KeysInv

-----------------------------------------------------------------------------
\* Every step keeps the invariant.
LEMMA InvNext == KeysInv /\ [Next]_vars => KeysInv'
<1> SUFFICES ASSUME KeysInv, [Next]_vars PROVE KeysInv'
  OBVIOUS
<1>1. CASE UNCHANGED vars
  <2>1. UNCHANGED <<begun, key, secret, replica, env, unsealed, rotation, replaced, issue,
                    published, told>>
    BY <1>1 DEF vars, rows, gates
  <2>2. Rows' = Rows /\ ActiveKeys' = ActiveKeys /\ Clear' = Clear
        /\ \A q \in Replicas : HeldBy(q)' = HeldBy(q)
    BY <2>1 DEF Rows, ActiveKeys, Clear, HeldBy
  <2>3. TypeOK'
    BY <2>1, <2>2 DEF KeysInv, TypeOK
  <2> QED
    BY <2>1, <2>2, <2>3
       DEF KeysInv, Fresh, Retiring, Retired, Serving, SealedAtMostOnce, ToSeal, Awake, Signed
<1>2. ASSUME NEW p \in Replicas,
             \/ SealSelect(p) \/ Seal(p) \/ Load(p) \/ Restart(p)
             \/ RotateBegin(p) \/ RotateUpdate(p) \/ RotateLock(p) \/ RotateCommit(p)
      PROVE  KeysInv'
  BY <1>2, SealSelectStep, SealStep, LoadStep, RestartStep, RotateBeginStep, RotateUpdateStep,
     RotateLockStep, RotateCommitStep
<1>3. ASSUME NEW p \in Replicas, NEW o \in Orders, ReadSigner(o, p)
      PROVE  KeysInv'
  BY <1>3, ReadSignerStep
<1>4. ASSUME NEW o \in Orders, Issue(o)
      PROVE  KeysInv'
  BY <1>4, IssueStep
<1>5. ASSUME NEW d \in Devices, PullKeys(d)
      PROVE  KeysInv'
  BY <1>5, PullKeysStep
<1> QED
  BY <1>1, <1>2, <1>3, <1>4, <1>5 DEF Next

\* The inductive invariant holds in every reachable state.
LEMMA Invariant == Spec => []KeysInv
BY InvInit, InvNext, PTL DEF Spec

\* The key rows, rotations, tickets and cached sets keep their types, and no two
\* rotations hold the same row (ticket/mod.rs:202).
THEOREM TypeCorrect == Spec => []TypeOK
<1>1. KeysInv => TypeOK
  BY DEF KeysInv
<1> QED
  BY <1>1, Invariant, PTL

\* However rotations overlap or die, a serving replica finds an active row to sign
\* with, sealed or not (ticket/mod.rs:146, 202).
THEOREM SigningNeverStops == Spec => []SomeKeySigns
<1>1. KeysInv => SomeKeySigns
  BY SignerIsActive DEF KeysInv, TypeOK, ActiveKeys, Serving, SomeKeySigns
<1> QED
  BY <1>1, Invariant, PTL

\* However many replicas boot at once, no seed is wrapped twice
\* (ticket/mod.rs:256).
THEOREM NeverSealedTwice == Spec => []SealedAtMostOnce
<1>1. KeysInv => SealedAtMostOnce
  BY DEF KeysInv
<1> QED
  BY <1>1, Invariant, PTL

\* When every replica serves with the variable set, nothing is in the clear, for
\* any order of restarts and rotations (ticket/mod.rs:253).
THEOREM RollingRestartsConverge == Spec => []SealingConverges
<1>1. KeysInv => SealingConverges
  BY DEF KeysInv, ToSeal, Clear, SealingConverges
<1> QED
  BY <1>1, Invariant, PTL

\* A request that begins after a rotation returned signs with a key that rotation
\* did not replace, on every replica (ticket/mod.rs:144).
THEOREM RotationTakesEffect == Spec => []RotationReachesAll
<1>1. KeysInv => RotationReachesAll
  <2> SUFFICES ASSUME KeysInv, NEW o \in Orders
               PROVE  issue[o].kid \notin issue[o].replaced
    BY DEF RotationReachesAll
  <2>1. CASE issue[o].step = "todo"
    BY <2>1 DEF KeysInv, Signed, Todo
  <2>2. CASE issue[o].step # "todo"
    BY <2>2 DEF KeysInv, Signed
  <2> QED
    BY <2>1, <2>2
<1> QED
  BY <1>1, Invariant, PTL

\* Retired keys stay published: what was issued before a pull verifies after it
\* (ticket/mod.rs:200).
THEOREM OldTicketsVerify == Spec => []TicketsKeepVerifying
<1>1. KeysInv => TicketsKeepVerifying
  BY DEF KeysInv, Signed, TicketsKeepVerifying
<1> QED
  BY <1>1, Invariant, PTL
=============================================================================
