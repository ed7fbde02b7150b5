----------------------------- MODULE TicketKeys -----------------------------
(***************************************************************************)
(* The signing keys of tickets (crates/lulan-engine/src/ticket/mod.rs):     *)
(* replicas boot, seal what is stored in the clear and mint a first key;    *)
(* administrators rotate; issue_for_order reads the active key and signs    *)
(* later; gate devices cache the public halves.                             *)
(*                                                                         *)
(* rotate is one READ COMMITTED transaction whose UPDATE sees the keys       *)
(* active when the statement starts, waits for rows another rotation has     *)
(* locked and skips those it then finds retired.  created_at is the time the *)
(* transaction began, so keys are numbered in that order.                    *)
(***************************************************************************)
EXTENDS Naturals, FiniteSets

CONSTANTS Replicas,  \* processes of lulan-api on one database
          Orders,    \* paid orders, ticketed once each
          Devices,   \* gate devices
          MaxKeys    \* bound: rotations ever begun

ASSUME TicketKeysAssumption == MaxKeys \in Nat

Kids  == 1..MaxKeys
NoKey == 0
Quiet == [step |-> "idle", kid |-> NoKey, seen |-> {}, before |-> {}]
Todo  == [step |-> "todo", kid |-> NoKey, by |-> {}, replaced |-> {}]

VARIABLES begun,     \* rotations begun so far
          key,       \* ticket_keys: "none", "active", "retired"
          secret,    \* ticket_keys.secret: "none", "clear", "sealed", "twice"
          replica,   \* "down", "sealing", "loading", "up"
          env,       \* LULAN_TICKET_KEY_ENCRYPTION_KEY is set
          unsealed,  \* rows seal_stored_keys still has to do
          rotation,  \* the open rotation of each replica
          replaced,  \* history: keys a completed rotation found when it began
          issue,     \* issue_for_order: the key it read, and the ticket's
          published, \* key set cached by each device
          told       \* history: orders ticketed when a device pulled its keys

rows == <<key, secret>>
gates == <<published, told>>
vars == <<begun, rows, replica, env, unsealed, rotation, replaced, issue, gates>>

ActiveKeys == {k \in Kids : key[k] = "active"}
Rows       == {k \in Kids : key[k] # "none"}
HeldBy(p)  == IF rotation[p].step = "locked" THEN rotation[p].seen ELSE {}

TypeOK ==
  /\ begun \in 0..MaxKeys
  /\ key \in [Kids -> {"none", "active", "retired"}]
  /\ secret \in [Kids -> {"none", "clear", "sealed", "twice"}]
  /\ \A k \in Kids : /\ key[k] = "none" <=> secret[k] = "none"
                     /\ key[k] # "none" => k <= begun
  /\ replica \in [Replicas -> {"down", "sealing", "loading", "up"}]
  /\ env \in [Replicas -> BOOLEAN]
  /\ unsealed \in [Replicas -> SUBSET Rows]
  /\ rotation \in [Replicas -> [step : {"idle", "begun", "updating", "locked"},
                                kid : Kids \cup {NoKey}, seen : SUBSET Rows,
                                before : SUBSET Rows]]
  /\ \A p \in Replicas : HeldBy(p) \subseteq ActiveKeys
  /\ \A p, q \in Replicas : p # q => HeldBy(p) \cap HeldBy(q) = {}
  /\ replaced \subseteq Rows
  /\ issue \in [Orders -> [step : {"todo", "read", "done"}, kid : Rows \cup {NoKey},
                           by : SUBSET Replicas, replaced : SUBSET Rows]]
  /\ published \in [Devices -> SUBSET Rows]
  /\ told \in [Devices -> SUBSET Orders]

Init ==
  /\ begun = 0
  /\ key = [k \in Kids |-> "none"]
  /\ secret = [k \in Kids |-> "none"]
  /\ replica = [p \in Replicas |-> "down"]
  /\ env = [p \in Replicas |-> FALSE]
  /\ unsealed = [p \in Replicas |-> {}]
  /\ rotation = [p \in Replicas |-> Quiet]
  /\ replaced = {}
  /\ issue = [o \in Orders |-> Todo]
  /\ published = [d \in Devices |-> {}]
  /\ told = [d \in Devices |-> {}]

\* TicketSigner::active: ORDER BY created_at DESC LIMIT 1.
Signer == IF ActiveKeys = {} THEN NoKey
          ELSE CHOOSE k \in ActiveKeys : \A j \in ActiveKeys : j <= k

\* unseal_row with the wrapping key this replica has, or has not.
Readable(p, k) == secret[k] = "clear" \/ (secret[k] = "sealed" /\ env[p])

-----------------------------------------------------------------------------
(* Boot: seal_stored_keys, then load_or_create *)

SealSelectActive(p) ==                       \* mutant: ... WHERE active AND encryption IS NULL
  /\ replica[p] = "down"
  /\ replica' = [replica EXCEPT ![p] = "sealing"]
  /\ unsealed' = [unsealed EXCEPT ![p] =
                    IF env[p] THEN {k \in ActiveKeys : secret[k] = "clear"} ELSE {}]
  /\ UNCHANGED <<begun, rows, env, rotation, replaced, issue, gates>>

SealSelect(p) ==
  /\ replica[p] = "down"
  /\ replica' = [replica EXCEPT ![p] = "sealing"]
  /\ unsealed' = [unsealed EXCEPT ![p] =
                    IF env[p] THEN {k \in Kids : secret[k] = "clear"} ELSE {}]
  /\ UNCHANGED <<begun, rows, env, rotation, replaced, issue, gates>>

SealAgain(p) ==                              \* mutant: without AND encryption IS NULL
  \E k \in unsealed[p] :
    /\ secret' = [secret EXCEPT ![k] = IF @ = "clear" THEN "sealed" ELSE "twice"]
    /\ unsealed' = [unsealed EXCEPT ![p] = @ \ {k}]
    /\ UNCHANGED <<begun, key, replica, env, rotation, replaced, issue, gates>>

Seal(p) ==
  \E k \in unsealed[p] :
    /\ secret' = [secret EXCEPT ![k] = IF @ = "clear" THEN "sealed" ELSE @]
    /\ unsealed' = [unsealed EXCEPT ![p] = @ \ {k}]
    /\ UNCHANGED <<begun, key, replica, env, rotation, replaced, issue, gates>>

\* A key that cannot be opened fails the boot; without a key one is minted.
Load(p) ==
  /\ replica[p] = "sealing" /\ unsealed[p] = {}
  /\ replica' = [replica EXCEPT ![p] =
                   IF Signer = NoKey THEN "loading"
                   ELSE IF Readable(p, Signer) THEN "up" ELSE "down"]
  /\ UNCHANGED <<begun, rows, env, unsealed, rotation, replaced, issue, gates>>

\* A replica stops or dies, and may come back with the variable set.
Restart(p) ==
  /\ replica[p] # "down"
  /\ replica' = [replica EXCEPT ![p] = "down"]
  /\ \E set \in {env[p], TRUE} : env' = [env EXCEPT ![p] = set]
  /\ unsealed' = [unsealed EXCEPT ![p] = {}]
  /\ rotation' = [rotation EXCEPT ![p] = Quiet]
  /\ issue' = [o \in Orders |-> IF issue[o].step = "read" /\ issue[o].by = {p}
                                THEN Todo ELSE issue[o]]
  /\ UNCHANGED <<begun, rows, replaced, gates>>

-----------------------------------------------------------------------------
(* TicketSigner::rotate *)

RotateBegin(p) ==
  /\ replica[p] \in {"loading", "up"}
  /\ rotation[p] = Quiet
  /\ begun < MaxKeys
  /\ begun' = begun + 1
  /\ rotation' = [rotation EXCEPT ![p] =
                    [step |-> "begun", kid |-> begun + 1, seen |-> {}, before |-> Rows]]
  /\ UNCHANGED <<rows, replica, env, unsealed, replaced, issue, gates>>

\* UPDATE ... SET active = false WHERE active: the statement's snapshot ...
RotateUpdate(p) ==
  /\ rotation[p].step = "begun"
  /\ rotation' = [rotation EXCEPT ![p].step = "updating", ![p].seen = ActiveKeys]
  /\ UNCHANGED <<begun, rows, replica, env, unsealed, replaced, issue, gates>>

RotateLockCommits(p) ==                      \* mutant: the UPDATE commits by itself
  /\ rotation[p].step = "updating"
  /\ key' = [k \in Kids |-> IF k \in rotation[p].seen THEN "retired" ELSE key[k]]
  /\ rotation' = [rotation EXCEPT ![p].step = "locked", ![p].seen = {}]
  /\ UNCHANGED <<begun, secret, replica, env, unsealed, replaced, issue, gates>>

\* ... and its row locks; a row retired in the meantime no longer qualifies.
RotateLock(p) ==
  /\ rotation[p].step = "updating"
  /\ \A q \in Replicas : HeldBy(q) \cap rotation[p].seen = {}
  /\ rotation' = [rotation EXCEPT ![p].step = "locked", ![p].seen = @ \cap ActiveKeys]
  /\ UNCHANGED <<begun, rows, replica, env, unsealed, replaced, issue, gates>>

\* INSERT and commit.  A booting replica goes on to serve.
RotateCommit(p) ==
  LET r == rotation[p]
  IN  /\ r.step = "locked"
      /\ key' = [k \in Kids |-> IF k = r.kid THEN "active"
                                ELSE IF k \in r.seen THEN "retired" ELSE key[k]]
      /\ secret' = [secret EXCEPT ![r.kid] = IF env[p] THEN "sealed" ELSE "clear"]
      /\ rotation' = [rotation EXCEPT ![p] = Quiet]
      /\ replica' = [replica EXCEPT ![p] = "up"]
      /\ replaced' = replaced \cup r.before
      /\ UNCHANGED <<begun, env, unsealed, issue, gates>>

-----------------------------------------------------------------------------
(* issue_for_order *)

ReadSignerCached(o, p) ==                    \* mutant: the signer of the replica's boot
  /\ replica[p] = "up" /\ issue[o] = Todo
  /\ \E k \in Rows : issue' = [issue EXCEPT ![o] =
       [step |-> "read", kid |-> k, by |-> {p}, replaced |-> replaced]]
  /\ UNCHANGED <<begun, rows, replica, env, unsealed, rotation, replaced, gates>>

\* The signer is read first, on its own.
ReadSigner(o, p) ==
  /\ replica[p] = "up" /\ issue[o] = Todo
  /\ Signer # NoKey /\ Readable(p, Signer)
  /\ issue' = [issue EXCEPT ![o] =
       [step |-> "read", kid |-> Signer, by |-> {p}, replaced |-> replaced]]
  /\ UNCHANGED <<begun, rows, replica, env, unsealed, rotation, replaced, gates>>

\* The transaction signs and inserts the tickets of the order.
Issue(o) ==
  /\ issue[o].step = "read"
  /\ issue' = [issue EXCEPT ![o].step = "done"]
  /\ UNCHANGED <<begun, rows, replica, env, unsealed, rotation, replaced, gates>>

-----------------------------------------------------------------------------
(* GET /v1/ticket-keys *)

Ticketed == {o \in Orders : issue[o].step = "done"}

PullActiveKeys(d) ==                         \* mutant: ... WHERE active
  /\ published' = [published EXCEPT ![d] = ActiveKeys]
  /\ told' = [told EXCEPT ![d] = Ticketed]
  /\ UNCHANGED <<begun, rows, replica, env, unsealed, rotation, replaced, issue>>

PullKeys(d) ==
  /\ published' = [published EXCEPT ![d] = Rows]
  /\ told' = [told EXCEPT ![d] = Ticketed]
  /\ UNCHANGED <<begun, rows, replica, env, unsealed, rotation, replaced, issue>>

Next ==
  \/ \E p \in Replicas :
       \/ SealSelect(p) \/ Seal(p) \/ Load(p) \/ Restart(p)
       \/ RotateBegin(p) \/ RotateUpdate(p) \/ RotateLock(p) \/ RotateCommit(p)
       \/ \E o \in Orders : ReadSigner(o, p)
  \/ \E o \in Orders : Issue(o)
  \/ \E d \in Devices : PullKeys(d)

Spec == Init /\ [][Next]_vars

-----------------------------------------------------------------------------
(* Properties *)

\* While a replica serves there is an active row to sign with, whatever rotation
\* dies half-way and however two of them overlap (ticket/mod.rs:202).  Whether a
\* replica without the wrapping key can open it is not said.
SomeKeySigns == (\E p \in Replicas : replica[p] = "up") => Signer # NoKey

\* No stored key is sealed twice when replicas boot at once: each one can be
\* opened with the wrapping key it was sealed with.
SealedAtMostOnce == \A k \in Kids : secret[k] # "twice"

\* "Rolling restarts across replicas converge without coordination": when every
\* replica serves with the variable set, no seed is left in the clear.
SealingConverges ==
  (\A p \in Replicas : replica[p] = "up" /\ env[p]) => \A k \in Kids : secret[k] # "clear"

\* Rotation takes effect on every replica: tickets of a request that begins
\* after a rotation returned are not signed with a key that rotation replaced.
RotationReachesAll == \A o \in Orders : issue[o].kid \notin issue[o].replaced

\* "It does not invalidate what was signed before": a device that pulled the key
\* set after a ticket was issued can verify it, however keys rotate.
TicketsKeepVerifying ==
  \A d \in Devices : \A o \in told[d] : issue[o].kid \in published[d]

\* "A replica still signing with a retired key is precisely what rotation exists
\* to stop" (ticket/mod.rs:144): no ticket appears under a key that a completed
\* rotation has replaced.
NoRetiredSignature ==
  [][\A o \in Orders : (issue[o].step = "read" /\ issue'[o].step = "done")
       => issue[o].kid \notin replaced]_vars
=============================================================================
