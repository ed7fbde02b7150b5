------------------------------- MODULE Booking -------------------------------
(***************************************************************************)
(* What the reservation engine promises its callers about seats: a party    *)
(* takes all the seat-segments it asked for in one step, none of them taken *)
(* before, at most once in its life; it gives all of them back in one step, *)
(* at most once; and nothing else ever changes what is taken.               *)
(***************************************************************************)
CONSTANTS Parties,   \* bookings
          Keepers,   \* the parties that never give anything back
          Cells      \* (seat, segment) pairs that can be sold

VARIABLES taken,     \* cells that are sold
          bag,       \* the cells a party took
          phase      \* "new", then "held", then "over"

bvars == <<taken, bag, phase>>

Init == /\ taken = {}
        /\ bag = [c \in Parties |-> {}]
        /\ phase = [c \in Parties |-> "new"]

Take(c) ==
  \E cells \in SUBSET Cells :
    /\ phase[c] = "new"
    /\ cells \cap taken = {}
    /\ taken' = taken \cup cells
    /\ bag' = [bag EXCEPT ![c] = cells]
    /\ phase' = [phase EXCEPT ![c] = "held"]

GiveBack(c) ==
  /\ c \notin Keepers
  /\ phase[c] = "held"
  /\ taken' = taken \ bag[c]
  /\ phase' = [phase EXCEPT ![c] = "over"]
  /\ UNCHANGED bag

Next == \E c \in Parties : Take(c) \/ GiveBack(c)

Spec == Init /\ [][Next]_bvars
=============================================================================
