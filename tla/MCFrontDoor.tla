----------------------------- MODULE MCFrontDoor -----------------------------
(***************************************************************************)
(* Small instances of Ownership, Credentials, ProviderKeys and RateLimit for *)
(* TLC.  The four share no variable, so that a behaviour of all of them is   *)
(* one of each: a run takes the steps of one, chosen at the start, and the   *)
(* others stay as they were.                                                *)
(***************************************************************************)
EXTENDS Ownership, Credentials, ProviderKeys, RateLimit, TLC

VARIABLE part          \* which of the four runs

Budgets == ("r" :> 2) @@ ("w" :> 1)
Clocks  == ("d1" :> -1) @@ ("d2" :> 0)

front_vars == <<ownership_vars, credentials_vars, provider_vars, limiter_vars, part>>

FrontInit ==
  /\ part \in {"ownership", "credentials", "provider", "limiter"}
  /\ OwnershipInit /\ CredentialsInit /\ ProviderInit /\ LimiterInit

FrontNext ==
  \/ /\ part = "ownership" /\ OwnershipNext
     /\ UNCHANGED <<credentials_vars, provider_vars, limiter_vars, part>>
  \/ /\ part = "credentials" /\ CredentialsNext
     /\ UNCHANGED <<ownership_vars, provider_vars, limiter_vars, part>>
  \/ /\ part = "provider" /\ ProviderNext
     /\ UNCHANGED <<ownership_vars, credentials_vars, limiter_vars, part>>
  \/ /\ part = "limiter" /\ LimiterNext
     /\ UNCHANGED <<ownership_vars, credentials_vars, provider_vars, part>>

FrontSpec == FrontInit /\ [][FrontNext]_front_vars /\ ProviderFairness
=============================================================================
