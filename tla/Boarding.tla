------------------------------ MODULE Boarding ------------------------------
(***************************************************************************)
(* Tickets from issue to the gate (crates/lulan-engine/src/ticket/mod.rs):  *)
(* a paid order is ticketed, gate devices admit passengers offline against  *)
(* a cached revocation list and journal their scans, journals are synced    *)
(* and replayed by concurrent requests, and a refund voids what was issued. *)
(*                                                                         *)
(* record_scan is two steps.  It locks the ticket row and counts the        *)
(* tickets of the order still issued, which under READ COMMITTED is blind   *)
(* to what another open transaction has boarded (ScanCount); then it        *)
(* commits, moving the order if it counted none (ScanCommit).               *)
(***************************************************************************)
EXTENDS OrderLifecycle, FiniteSets

CONSTANTS Orders,    \* paid orders
          Tickets,   \* the tickets they are issued: one per seat item and leg
          OrderOf,   \* tickets.order_id
          Legs,      \* trips
          LegOf,     \* tickets.trip_id
          Devices,   \* gate devices
          Stamps,    \* scanned_at values of a device
          Workers    \* concurrent record_scan transactions

ASSUME BoardingAssumption == OrderOf \in [Tickets -> Orders] /\ LegOf \in [Tickets -> Legs]

Scans == [ticket : Tickets, device : Devices, at : Stamps]
Idle  == [scan |-> "none"]
Busy  == [scan : Scans, last : BOOLEAN]

VARIABLES status,    \* orders.status
          ticket,    \* tickets.status, "none" while there is no row
          recorded,  \* scan_events rows
          outcome,   \* what record_scan made of each recorded scan
          open,      \* record_scan transactions that hold a ticket row
          journal,   \* scans the devices made offline
          cached,    \* the revocation list each device last pulled
          told       \* history: what that list had to name

vars == <<status, ticket, recorded, outcome, open, journal, cached, told>>
gates == <<journal, cached, told>>

TicketsOf(o) == {t \in Tickets : OrderOf[t] = o}
Locked(t)    == \E w \in Workers : open[w] # Idle /\ open[w].scan.ticket = t

TypeOK ==
  /\ status \in [Orders -> {"paid", "ticketed", "boarded", "refunded"}]
  /\ ticket \in [Tickets -> {"none", "issued", "boarded", "void"}]
  /\ recorded \subseteq Scans
  /\ outcome \in [recorded -> {"boarded", "already_boarded", "void"}]
  /\ open \in [Workers -> {Idle} \cup Busy]
  /\ journal \subseteq Scans
  /\ cached \in [Devices -> SUBSET Tickets]
  /\ told \in [Devices -> SUBSET Tickets]

Init ==
  /\ status = [o \in Orders |-> "paid"]
  /\ ticket = [t \in Tickets |-> "none"]
  /\ recorded = {}
  /\ outcome = [s \in {} |-> "boarded"]
  /\ open = [w \in Workers |-> Idle]
  /\ journal = {}
  /\ cached = [d \in Devices |-> {}]
  /\ told = [d \in Devices |-> {}]

-----------------------------------------------------------------------------
\* issue_for_order under the order row lock, from the webhook or a client's
\* retry: Ticketed and Boarded return what exists, all but Paid is refused.
Issue(o) ==
  /\ Legal(status[o], "ticket_issued")
  /\ status' = [status EXCEPT ![o] = Apply(@, "ticket_issued")]
  /\ ticket' = [t \in Tickets |-> IF OrderOf[t] = o THEN "issued" ELSE ticket[t]]
  /\ UNCHANGED <<recorded, outcome, open, gates>>

RefundVoidsIssued(o) ==                      \* mutant: ... AND status = 'issued'
  /\ Legal(status[o], "order_refunded")
  /\ \A t \in TicketsOf(o) : ~Locked(t)
  /\ status' = [status EXCEPT ![o] = Apply(@, "order_refunded")]
  /\ ticket' = [t \in Tickets |->
                  IF OrderOf[t] = o /\ ticket[t] = "issued" THEN "void" ELSE ticket[t]]
  /\ UNCHANGED <<recorded, outcome, open, gates>>

\* OrderStore::refund holds the order row and then updates every ticket row of
\* the order, so it commits only when no open scan holds one of them.
Refund(o) ==
  /\ Legal(status[o], "order_refunded")
  /\ \A t \in TicketsOf(o) : ~Locked(t)
  /\ status' = [status EXCEPT ![o] = Apply(@, "order_refunded")]
  /\ ticket' = [t \in Tickets |->
                  IF OrderOf[t] = o /\ ticket[t] # "none" THEN "void" ELSE ticket[t]]
  /\ UNCHANGED <<recorded, outcome, open, gates>>

-----------------------------------------------------------------------------
(* The gate, offline: verify_ticket_with_revocations on a genuine token *)

GateScan(d, t) ==
  /\ ticket[t] # "none"
  /\ t \notin cached[d]
  /\ \E n \in Stamps :
       journal' = journal \cup {[ticket |-> t, device |-> d, at |-> n]}
  /\ UNCHANGED <<status, ticket, recorded, outcome, open, cached, told>>

\* The trips a list is about: the one asked for, or, if none is, those departing
\* soon, between 24 hours ago and 72 hours (REVOCATION_HORIZON_HOURS) from now.
Covered(asked, soon) == IF asked = {} THEN soon ELSE asked

RevokedSoon(asked, soon) ==                  \* mutant: the horizon bounds one trip as well
  {t \in Tickets : ticket[t] = "void" /\ LegOf[t] \in Covered(asked, soon) \cap soon}

RevokedTickets(asked, soon) ==
  {t \in Tickets : ticket[t] = "void" /\ LegOf[t] \in Covered(asked, soon)}

\* GET /v1/revocations, at any time: which trips depart soon is all that depends
\* on it.  The answer replaces the list the device had.
PullRevocations(d) ==
  \E asked \in {{}} \cup {{l} : l \in Legs}, soon \in SUBSET Legs :
    /\ cached' = [cached EXCEPT ![d] = RevokedTickets(asked, soon)]
    /\ told' = [told EXCEPT ![d] = {t \in Tickets : /\ status[OrderOf[t]] = "refunded"
                                                   /\ LegOf[t] \in Covered(asked, soon)}]
    /\ UNCHANGED <<status, ticket, recorded, outcome, open, journal>>

-----------------------------------------------------------------------------
(* POST /v1/scans: one record_scan transaction per journal row *)

ScanRefusedRolledBack(s) ==                  \* mutant: answers without tx.commit
  /\ s \in journal \ recorded
  /\ ~Locked(s.ticket)
  /\ ticket[s.ticket] # "issued"
  /\ UNCHANGED vars

\* The row is not boardable: it is recorded as evidence and the answer says why.
\* (A row already recorded is a duplicate_scan and changes nothing.)
ScanRefused(s) ==
  /\ s \in journal \ recorded
  /\ ~Locked(s.ticket)
  /\ ticket[s.ticket] # "issued"
  /\ recorded' = recorded \cup {s}
  /\ outcome' = [x \in recorded \cup {s} |->
                   IF x \in recorded THEN outcome[x]
                   ELSE IF ticket[s.ticket] = "boarded" THEN "already_boarded"
                   ELSE "void"]
  /\ UNCHANGED <<status, ticket, open, gates>>

CountOnLeg(t) ==                             \* mutant: ... AND trip_id = the ticket's
  {u \in TicketsOf(OrderOf[t]) \ {t} : LegOf[u] = LegOf[t] /\ ticket[u] = "issued"}

\* Tickets of the order the transaction sees still to board.
Unboarded(t) == {u \in TicketsOf(OrderOf[t]) \ {t} : ticket[u] = "issued"}

ScanCountUnlocked(w, s) ==                   \* mutant: ticket read without FOR UPDATE
  /\ open[w] = Idle
  /\ s \in journal \ recorded
  /\ ticket[s.ticket] = "issued"
  /\ open' = [open EXCEPT ![w] = [scan |-> s, last |-> Unboarded(s.ticket) = {}]]
  /\ UNCHANGED <<status, ticket, recorded, outcome, gates>>

ScanCount(w, s) ==
  /\ open[w] = Idle
  /\ s \in journal \ recorded
  /\ ~Locked(s.ticket)
  /\ ticket[s.ticket] = "issued"
  /\ open' = [open EXCEPT ![w] = [scan |-> s, last |-> Unboarded(s.ticket) = {}]]
  /\ UNCHANGED <<status, ticket, recorded, outcome, gates>>

ScanCommit(w) ==
  LET s == open[w].scan
      o == OrderOf[s.ticket]
  IN  /\ open[w] # Idle
      /\ ticket' = [ticket EXCEPT ![s.ticket] = "boarded"]
      /\ recorded' = recorded \cup {s}
      /\ outcome' = [x \in recorded \cup {s} |-> IF x = s THEN "boarded" ELSE outcome[x]]
      /\ status' = [status EXCEPT ![o] =
                      IF open[w].last /\ Legal(@, "passenger_boarded")
                      THEN Apply(@, "passenger_boarded") ELSE @]
      /\ open' = [open EXCEPT ![w] = Idle]
      /\ UNCHANGED gates

\* A crash, a lost connection, or the victim of a deadlock with a refund that
\* locks order and tickets the other way round: nothing is kept.
ScanAbort(w) ==
  /\ open[w] # Idle
  /\ open' = [open EXCEPT ![w] = Idle]
  /\ UNCHANGED <<status, ticket, recorded, outcome, gates>>

Next ==
  \/ \E o \in Orders : Issue(o) \/ Refund(o)
  \/ \E d \in Devices : PullRevocations(d) \/ \E t \in Tickets : GateScan(d, t)
  \/ \E s \in Scans : ScanRefused(s) \/ \E w \in Workers : ScanCount(w, s)
  \/ \E w \in Workers : ScanCommit(w) \/ ScanAbort(w)

Spec == Init /\ [][Next]_vars

\* A device uploads its journal again until every row is answered, and one of
\* those uploads goes through ("Safe to replay entire journals", tickets.rs:166).
FairSpec ==
  /\ Spec
  /\ \A s \in Scans : SF_vars(ScanRefused(s) \/ \E w \in Workers : ScanCount(w, s))
  /\ SF_vars(\E w \in Workers : ScanCommit(w))

-----------------------------------------------------------------------------
(* Properties *)

\* Only a full order is boarded: no other leg and no other passenger is still
\* to come, whatever scans commit together (record_scan's count of 'issued').
BoardedMeansAllAboard ==
  \A o \in Orders : status[o] = "boarded" => \A t \in TicketsOf(o) : ticket[t] = "boarded"

Admitted(t) == {s \in recorded : s.ticket = t /\ outcome[s] = "boarded"}

\* A ticket admits once: of all scans recorded for it, by any device and any
\* replay of a journal, one at most boarded it; the clones are told apart.
OneScanBoards ==
  \A t \in Tickets :
    /\ \A r, s \in Admitted(t) : r = s
    /\ ticket[t] = "boarded" => Admitted(t) # {}

\* A refund leaves nothing a gate would take: no row of a refunded order is
\* issued or boarded, so the revocation list names each one.
RefundVoidsEveryTicket ==
  \A o \in Orders : status[o] = "refunded" =>
    \A t \in TicketsOf(o) : ticket[t] \in {"void", "none"}

\* A device admits no ticket that the list it goes by had to name: of an order
\* refunded by then, used or not, for the trip the device asked about whenever it
\* leaves, or, unless it named one, for a trip within the horizon of that moment
\* (revoked_tickets, ticket/mod.rs:604-616).  Other legs of the order may still pass.
RevokedStaysOut ==
  [][\A s \in journal' \ journal : s.ticket \notin told[s.device]]_vars

\* The last scan of an order boards it ("When the last ticket of an order
\* boards, the order transitions Ticketed -> Boarded", ticket/mod.rs:656).
LastScanBoards ==
  \A o \in Orders :
    (/\ TicketsOf(o) # {}
     /\ \A t \in TicketsOf(o) : ticket[t] = "boarded" /\ ~Locked(t))
    => status[o] = "boarded"

\* Every scan a device journalled is recorded and answered in the end.
JournalsDrain == \A s \in Scans : s \in journal ~> s \in recorded
=============================================================================
