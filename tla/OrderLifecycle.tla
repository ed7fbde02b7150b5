--------------------------- MODULE OrderLifecycle ---------------------------
(***************************************************************************)
(* The pure order state machine of crates/lulan-engine/src/domain/order.rs: *)
(* one function, Apply, is the only way a status advances, live or replayed. *)
(***************************************************************************)
EXTENDS Naturals, Sequences

NoOrder == "none"          \* the stream has not started (Option::None)
Illegal == "illegal"       \* Err(TransitionError)

Statuses == {"draft", "locked", "pending_payment", "paid", "ticketed",
             "boarded", "completed", "cancelled", "expired", "refunded"}

Events == {"order_created", "inventory_locked", "payment_requested",
           "payment_captured", "payment_failed", "order_cancelled",
           "order_expired", "ticket_issued", "passenger_boarded",
           "trip_completed", "order_refunded"}

\* Claims are held on sufferance until one of these is left for Paid.
Provisional == {"locked", "pending_payment"}

\* An order in one of these keeps its claims in the ledger.
Holding == Provisional \cup {"paid", "ticketed", "boarded", "completed"}

\* Statuses whose claims cancel, expire and refund have given back.
Released == {"cancelled", "expired", "refunded"}

Apply(s, e) ==
  CASE s = NoOrder /\ e = "order_created"                 -> "draft"
    [] s = "draft" /\ e = "inventory_locked"              -> "locked"
    [] s = "locked" /\ e = "payment_requested"            -> "pending_payment"
    [] s = "pending_payment" /\ e = "payment_captured"    -> "paid"
    [] s = "pending_payment" /\ e = "payment_failed"      -> "locked"
    [] s \in Provisional /\ e = "order_cancelled"         -> "cancelled"
    [] s \in Provisional /\ e = "order_expired"           -> "expired"
    [] s = "paid" /\ e = "ticket_issued"                  -> "ticketed"
    [] s = "ticketed" /\ e = "passenger_boarded"          -> "boarded"
    [] s = "boarded" /\ e = "trip_completed"              -> "completed"
    [] s \in {"paid", "ticketed"} /\ e = "order_refunded" -> "refunded"
    [] OTHER                                              -> Illegal

Legal(s, e) == Apply(s, e) # Illegal

\* replay_status: fold the event stream from its start.
Replay(stream) ==
  LET f[n \in 0..Len(stream)] ==
        IF n = 0 THEN NoOrder ELSE Apply(f[n - 1], stream[n])
  IN  f[Len(stream)]
=============================================================================
