---------------------------- MODULE ProviderKeys ----------------------------
(***************************************************************************)
(* The signing keys of the identity provider and the copies by which the     *)
(* replicas check the tokens of staff and customers                          *)
(* (crates/lulan-api/src/identity.rs).                                      *)
(*                                                                         *)
(* The copy is fetched at boot and renewed by a task of its own; a token is  *)
(* checked against the copy alone, whatever the provider publishes by then.  *)
(***************************************************************************)
CONSTANTS Kids,        \* signing keys of the identity provider
          Replicas

VARIABLES published,   \* the key set at the provider
          jwks,        \* per replica: JwksIdentity.keys; {} without a provider
          fetched      \* per replica: a response under way, or {}

provider_vars == <<published, jwks, fetched>>

ProviderTypeOK ==
  /\ published \subseteq Kids
  /\ jwks \in [Replicas -> SUBSET Kids]
  /\ fetched \in [Replicas -> SUBSET Kids]

ProviderInit ==
  /\ published = Kids
  /\ jwks = [r \in Replicas |-> {}]
  /\ fetched = [r \in Replicas |-> {}]

-----------------------------------------------------------------------------
\* The provider publishes and withdraws keys.
Publish(set) ==
  /\ published # set
  /\ published' = set
  /\ UNCHANGED <<jwks, fetched>>

\* Boot: connect, then the task.  When nothing is fetched, or nothing in it, the
\* process runs without a provider until it is booted again.
Connect(r) ==
  /\ \E set \in {{}, published} : jwks' = [jwks EXCEPT ![r] = set]
  /\ fetched' = [fetched EXCEPT ![r] = {}]
  /\ UNCHANGED published

\* One round of refresh_jwks that gets a set with keys in it: fetch_jwks, ...
Fetch(r) ==
  /\ jwks[r] # {} /\ published # {} /\ fetched[r] = {}
  /\ fetched' = [fetched EXCEPT ![r] = published]
  /\ UNCHANGED <<published, jwks>>

RenewAdds(r) ==                              \* mutant: new keys are added to the old ones
  /\ fetched[r] # {}
  /\ jwks' = [jwks EXCEPT ![r] = @ \cup fetched[r]]
  /\ fetched' = [fetched EXCEPT ![r] = {}]
  /\ UNCHANGED published

\* ... then the write under the lock.
Renew(r) ==
  /\ fetched[r] # {}
  /\ jwks' = [jwks EXCEPT ![r] = fetched[r]]
  /\ fetched' = [fetched EXCEPT ![r] = {}]
  /\ UNCHANGED published

\* verify: the token's kid is in the copy.
Verifies(r, kid) == kid \in jwks[r]

ProviderNext ==
  \/ \E set \in SUBSET Kids : Publish(set)
  \/ \E r \in Replicas : Connect(r) \/ Fetch(r) \/ Renew(r)

ProviderSpec == ProviderInit /\ [][ProviderNext]_provider_vars

\* The task ticks as long as its process runs, and not every round fails.
ProviderFairness ==
  \A r \in Replicas : SF_provider_vars(Fetch(r)) /\ SF_provider_vars(Renew(r))

-----------------------------------------------------------------------------
(* Properties *)

\* Every replica with a provider ends up taking the tokens of the keys that the
\* provider goes on publishing and no token of a key it has withdrawn, although
\* rounds fail, answers arrive late and replicas are booted again; only a provider
\* that publishes no key at all is not heeded (identity.rs:167).
CopiesConverge ==
  \A r \in Replicas, kid \in Kids :
    /\ <>[](published # {} /\ kid \notin published) => <>[]~Verifies(r, kid)
    /\ <>[](kid \in published /\ jwks[r] # {}) => <>[]Verifies(r, kid)
=============================================================================
