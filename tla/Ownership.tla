------------------------------ MODULE Ownership ------------------------------
(***************************************************************************)
(* Whose an order is, and who may read, pay or cancel it                    *)
(* (crates/lulan-api/src/orders.rs, identity.rs).                           *)
(*                                                                         *)
(* An order belongs to the customer who was signed in when it was created,  *)
(* or to a guest until somebody with its retrieval token claims it.  Every   *)
(* handler reads who is asking, and perhaps whose the order is, before the   *)
(* statement that acts on it.  A customer row is inserted at the first sign-in *)
(* under a unique key and never deleted, so that it stands for its subject.  *)
(***************************************************************************)
CONSTANTS Orders,
          Customers,   \* subjects at the identity provider
          Handlers,    \* requests under way
          Nobody       \* no customer: the order is a guest's, or not there yet

ASSUME OwnershipAssumption == Nobody \notin Customers

VARIABLES placed,      \* orders that exist
          owner,       \* orders.customer_id
          asking       \* per handler: what it has read so far

ownership_vars == <<placed, owner, asking>>

Free == [step |-> "free"]
At(step, o, c) == [step |-> step, order |-> o, customer |-> c]

Asking == {Free} \cup
  [step : {"claiming", "claimed", "let in as owner", "let in"}, order : Orders,
   customer : Customers \cup {Nobody}]

OwnershipTypeOK ==
  /\ placed \subseteq Orders
  /\ owner \in [Orders -> Customers \cup {Nobody}]
  /\ asking \in [Handlers -> Asking]

OwnershipInit ==
  /\ placed = {}
  /\ owner = [o \in Orders |-> Nobody]
  /\ asking = [h \in Handlers |-> Free]

-----------------------------------------------------------------------------
\* POST /orders, of a customer or of a guest with a contact.
Place(h, o) ==
  /\ asking[h] = Free
  /\ o \notin placed
  /\ placed' = placed \cup {o}
  /\ \E c \in Customers \cup {Nobody} : owner' = [owner EXCEPT ![o] = c]
  /\ UNCHANGED asking

\* POST /orders/{id}/claim: the token signs the id and is valid for ever.
ShowToken(h, o) ==
  /\ asking[h] = Free
  /\ o \in placed
  /\ \E c \in Customers : asking' = [asking EXCEPT ![h] = At("claiming", o, c)]
  /\ UNCHANGED <<placed, owner>>

ClaimAnyway(h) ==                            \* mutant: WHERE id = $1
  LET a == asking[h]
  IN  /\ a.step = "claiming"
      /\ owner' = [owner EXCEPT ![a.order] = a.customer]
      /\ asking' = [asking EXCEPT ![h] = At("claimed", a.order, a.customer)]
      /\ UNCHANGED placed

\* UPDATE ... WHERE customer_id IS NULL; no row is a conflict.
Claim(h) ==
  LET a == asking[h]
  IN  /\ a.step = "claiming"
      /\ IF owner[a.order] = Nobody
         THEN /\ owner' = [owner EXCEPT ![a.order] = a.customer]
              /\ asking' = [asking EXCEPT ![h] = At("claimed", a.order, a.customer)]
         ELSE /\ asking' = [asking EXCEPT ![h] = Free]
              /\ UNCHANGED owner
      /\ UNCHANGED placed

\* authorize_order_access for GET, payment and cancel: the order's customer, ...
AuthorizeOwner(h, o) ==
  /\ asking[h] = Free
  /\ \E c \in Customers :
       /\ owner[o] = c
       /\ asking' = [asking EXCEPT ![h] = At("let in as owner", o, c)]
  /\ UNCHANGED <<placed, owner>>

\* ... or the retrieval token, or an API key of any role.
AuthorizeOther(h, o) ==
  /\ asking[h] = Free
  /\ o \in placed
  /\ asking' = [asking EXCEPT ![h] = At("let in", o, Nobody)]
  /\ UNCHANGED <<placed, owner>>

\* The handler acts on the order (modules Orders, Payments) and answers, or dies.
Answer(h) ==
  /\ asking[h] # Free
  /\ asking' = [asking EXCEPT ![h] = Free]
  /\ UNCHANGED <<placed, owner>>

OwnershipNext ==
  \/ \E h \in Handlers, o \in Orders :
       Place(h, o) \/ ShowToken(h, o) \/ AuthorizeOwner(h, o) \/ AuthorizeOther(h, o)
  \/ \E h \in Handlers : Claim(h) \/ Answer(h)

OwnershipSpec == OwnershipInit /\ [][OwnershipNext]_ownership_vars

-----------------------------------------------------------------------------
(* Properties *)

\* Whoever was told that an order is theirs, by a claim or by the access check,
\* is its owner until the handler has acted on it and answered, whatever other
\* claims run meanwhile (identity.rs:424, orders.rs:509).
OwnersStayOwners ==
  \A h \in Handlers :
    asking[h].step \in {"claimed", "let in as owner"} =>
      owner[asking[h].order] = asking[h].customer
=============================================================================
