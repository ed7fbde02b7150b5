--------------------------- MODULE BoardingProofs ---------------------------
(***************************************************************************)
(* Proofs about Boarding for any orders, tickets, devices and number of     *)
(* concurrent record_scan transactions.                                     *)
(*                                                                         *)
(* BoardedMeansAllAboard is not inductive: an order moves on a count made   *)
(* when the transaction still had to commit.  LastSeen keeps that count     *)
(* true until then (no ticket is issued again), Rows ties tickets to the    *)
(* status of their order, and Owned says that an open scan keeps its ticket *)
(* issued and to itself.                                                    *)
(***************************************************************************)
EXTENDS Boarding, TLAPS

\* Ticket rows exist once the order is ticketed, and are void once refunded.
Rows ==
  \A t \in Tickets :
    /\ status[OrderOf[t]] = "paid" => ticket[t] = "none"
    /\ status[OrderOf[t]] = "ticketed" => ticket[t] \in {"issued", "boarded"}
    /\ status[OrderOf[t]] = "boarded" => ticket[t] = "boarded"
    /\ status[OrderOf[t]] = "refunded" => ticket[t] \in {"void", "none"}

\* The ticket row lock of an open scan.
Owned ==
  \A w \in Workers : open[w] # Idle =>
    /\ ticket[open[w].scan.ticket] = "issued"
    /\ open[w].scan \notin recorded
    /\ \A v \in Workers \ {w} :
         open[v] # Idle => open[v].scan.ticket # open[w].scan.ticket

\* A scan that counted no ticket still to board is right until it commits.
LastSeen ==
  \A w \in Workers : open[w] # Idle /\ open[w].last =>
    \A u \in Tickets :
      OrderOf[u] = OrderOf[open[w].scan.ticket] /\ u # open[w].scan.ticket =>
        ticket[u] # "issued"

\* Only a ticket that left "issued" has a scan that boarded it.
AdmittedOnce ==
  \A t \in Tickets :
    /\ ticket[t] \in {"none", "issued"} => Admitted(t) = {}
    /\ \A r, s \in Admitted(t) : r = s
    /\ ticket[t] = "boarded" => Admitted(t) # {}

\* What a list had to name is on it, once there was a row to name: a refunded
\* order is ticketed no more, so the list does not go stale in this.
Informed ==
  \A d \in Devices : \A t \in told[d] :
    /\ status[OrderOf[t]] = "refunded"
    /\ ticket[t] = "void" => t \in cached[d]

IInv == TypeOK /\ Rows /\ Owned /\ LastSeen /\ AdmittedOnce /\ Informed

\* Idle is not a transaction, whatever its scan.
LEMMA BusyIsNotIdle ==
  ASSUME NEW s \in Scans, NEW b \in BOOLEAN
  PROVE  /\ [scan |-> s, last |-> b] \in Busy
         /\ [scan |-> s, last |-> b] # Idle
BY DEF Busy, Idle

\* An open transaction is a record of a scan and its count.
LEMMA OpenIsBusy ==
  ASSUME TypeOK, NEW w \in Workers, open[w] # Idle
  PROVE  /\ open[w] \in Busy
         /\ open[w].scan \in Scans
         /\ open[w].last \in BOOLEAN
         /\ open[w].scan.ticket \in Tickets
         /\ OrderOf[open[w].scan.ticket] \in Orders
<1>1. open[w] \in Busy
  BY DEF TypeOK
<1>2. open[w].scan \in Scans /\ open[w].last \in BOOLEAN
  BY <1>1 DEF Busy
<1> QED
  BY <1>1, <1>2, BoardingAssumption DEF Scans

\* The initial state: every order paid, nothing issued, nothing scanned.
LEMMA InitIInv == Init => IInv
<1> SUFFICES ASSUME Init PROVE IInv
  OBVIOUS
<1>1. TypeOK
  BY DEF Init, TypeOK
<1>2. Rows
  BY BoardingAssumption DEF Init, Rows
<1>3. Owned /\ LastSeen /\ AdmittedOnce /\ Informed
  BY DEF Init, Owned, LastSeen, AdmittedOnce, Admitted, Informed
<1> QED
  BY <1>1, <1>2, <1>3 DEF IInv

\* What the state machine allows in the statuses of this module.
LEMMA Transitions ==
  /\ \A s : Legal(s, "ticket_issued") /\ s \in {"paid", "ticketed", "boarded", "refunded"}
       <=> s = "paid"
  /\ Apply("paid", "ticket_issued") = "ticketed"
  /\ \A s \in {"paid", "ticketed", "boarded", "refunded"} :
       Legal(s, "order_refunded") => s \in {"paid", "ticketed"}
  /\ \A s \in {"paid", "ticketed"} : Apply(s, "order_refunded") = "refunded"
  /\ \A s \in {"paid", "ticketed", "boarded", "refunded"} :
       Legal(s, "passenger_boarded") => s = "ticketed"
  /\ Apply("ticketed", "passenger_boarded") = "boarded"
BY DEF Legal, Apply, Illegal, Provisional, NoOrder

LEMMA IssueKeepsIInv ==
  ASSUME IInv, NEW o \in Orders, Issue(o)
  PROVE  IInv'
<1> USE DEF IInv
<1>1. status[o] = "paid" /\ status' = [status EXCEPT ![o] = "ticketed"]
  BY Transitions DEF Issue, TypeOK
<1>2. ticket' = [t \in Tickets |-> IF OrderOf[t] = o THEN "issued" ELSE ticket[t]]
  BY DEF Issue
<1>3. /\ open' = open /\ recorded' = recorded /\ outcome' = outcome
      /\ journal' = journal /\ cached' = cached /\ told' = told
  BY DEF Issue, gates
<1>4. TypeOK'
  BY <1>1, <1>2, <1>3 DEF TypeOK
<1>5. Rows'
  BY <1>1, <1>2, BoardingAssumption DEF Rows, TypeOK
\* No transaction is open on a ticket of the order: its rows did not exist.
<1>6. ASSUME NEW w \in Workers, open[w] # Idle
      PROVE  OrderOf[open[w].scan.ticket] # o
  BY <1>1, <1>6, OpenIsBusy DEF Owned, Rows
<1>7. Owned'
  BY <1>2, <1>3, <1>6, OpenIsBusy DEF Owned
<1>8. LastSeen'
  BY <1>2, <1>3, <1>6, OpenIsBusy DEF LastSeen
<1>9. AdmittedOnce'
  BY <1>1, <1>2, <1>3 DEF AdmittedOnce, Admitted, Rows
<1>10. Informed'
  BY <1>1, <1>2, <1>3 DEF Informed, TypeOK
<1> QED
  BY <1>4, <1>5, <1>7, <1>8, <1>9, <1>10

LEMMA RefundKeepsIInv ==
  ASSUME IInv, NEW o \in Orders, Refund(o)
  PROVE  IInv'
<1> USE DEF IInv
<1>1. status[o] \in {"paid", "ticketed"} /\ status' = [status EXCEPT ![o] = "refunded"]
  BY Transitions DEF Refund, TypeOK
<1>2. ticket' = [t \in Tickets |->
                   IF OrderOf[t] = o /\ ticket[t] # "none" THEN "void" ELSE ticket[t]]
  BY DEF Refund
<1>3. /\ open' = open /\ recorded' = recorded /\ outcome' = outcome
      /\ journal' = journal /\ cached' = cached /\ told' = told
  BY DEF Refund, gates
<1>4. TypeOK'
  BY <1>1, <1>2, <1>3 DEF TypeOK
<1>5. Rows'
  BY <1>1, <1>2, BoardingAssumption DEF Rows, TypeOK
\* The update of the ticket rows waited for every open scan of the order.
<1>6. ASSUME NEW w \in Workers, open[w] # Idle
      PROVE  OrderOf[open[w].scan.ticket] # o
  BY <1>6, OpenIsBusy DEF Refund, TicketsOf, Locked
<1>7. Owned'
  BY <1>2, <1>3, <1>6, OpenIsBusy DEF Owned
<1>8. LastSeen'
  BY <1>2, <1>3, <1>6, OpenIsBusy DEF LastSeen
<1>9. AdmittedOnce'
  BY <1>2, <1>3 DEF AdmittedOnce, Admitted
<1>10. Informed'
  BY <1>1, <1>2, <1>3 DEF Informed, TypeOK
<1> QED
  BY <1>4, <1>5, <1>7, <1>8, <1>9, <1>10

LEMMA RefusedKeepsIInv ==
  ASSUME IInv, NEW s \in Scans, ScanRefused(s)
  PROVE  IInv'
<1> USE DEF IInv
<1>1. /\ s \notin recorded /\ recorded' = recorded \cup {s}
      /\ DOMAIN outcome' = recorded' /\ outcome'[s] \in {"already_boarded", "void"}
      /\ \A x \in recorded : outcome'[x] = outcome[x]
  BY DEF ScanRefused
<1>2. status' = status /\ ticket' = ticket /\ open' = open
  BY DEF ScanRefused
<1>3. TypeOK'
  <2>1. outcome' \in [recorded' -> {"boarded", "already_boarded", "void"}]
    BY DEF ScanRefused, TypeOK
  <2> QED
    BY <1>2, <2>1 DEF ScanRefused, TypeOK, gates
<1>4. Rows' /\ LastSeen' /\ Informed'
  BY <1>2 DEF ScanRefused, gates, Rows, LastSeen, Informed
<1>5. Owned'
  BY <1>1, <1>2, OpenIsBusy DEF ScanRefused, Owned, Locked
<1>6. ASSUME NEW t \in Tickets PROVE Admitted(t)' = Admitted(t)
  BY <1>1 DEF Admitted
<1>7. AdmittedOnce'
  BY <1>2, <1>6 DEF AdmittedOnce
<1> QED
  BY <1>3, <1>4, <1>5, <1>7

LEMMA CountKeepsIInv ==
  ASSUME IInv, NEW v \in Workers, NEW s \in Scans, ScanCount(v, s)
  PROVE  IInv'
<1> USE DEF IInv
<1> DEFINE b == Unboarded(s.ticket) = {}
<1>1. /\ open' = [open EXCEPT ![v] = [scan |-> s, last |-> b]]
      /\ [scan |-> s, last |-> b] \in Busy
  BY BusyIsNotIdle DEF ScanCount
<1>2. /\ open[v] = Idle /\ s \notin recorded /\ ~Locked(s.ticket)
      /\ ticket[s.ticket] = "issued"
      /\ status' = status /\ ticket' = ticket /\ recorded' = recorded
      /\ outcome' = outcome
  BY DEF ScanCount
<1>3. TypeOK'
  BY <1>1, <1>2 DEF TypeOK, ScanCount, gates
<1>4. Rows' /\ AdmittedOnce' /\ Informed'
  BY <1>2 DEF ScanCount, gates, Rows, AdmittedOnce, Admitted, Informed
<1>5. open'[v].scan = s /\ open'[v].last = b
  BY <1>1 DEF TypeOK
<1>6. \A w \in Workers \ {v} : open'[w] = open[w]
  BY <1>1 DEF TypeOK
<1>7. Owned'
  BY <1>2, <1>5, <1>6 DEF Owned, Locked
<1>8. LastSeen'
  <2> SUFFICES ASSUME NEW w \in Workers, open'[w] # Idle, open'[w].last,
                      NEW u \in Tickets, OrderOf[u] = OrderOf[open'[w].scan.ticket],
                      u # open'[w].scan.ticket
               PROVE  ticket[u] # "issued"
    BY <1>2 DEF LastSeen
  <2>1. CASE w = v
    BY <2>1, <1>5 DEF Unboarded, TicketsOf
  <2>2. CASE w # v
    BY <2>2, <1>6 DEF LastSeen
  <2> QED
    BY <2>1, <2>2
<1> QED
  BY <1>3, <1>4, <1>7, <1>8

LEMMA CommitKeepsIInv ==
  ASSUME IInv, NEW v \in Workers, ScanCommit(v)
  PROVE  IInv'
<1> USE DEF IInv
<1>0. PICK s \in Scans, k \in Tickets, o \in Orders :
        s = open[v].scan /\ k = s.ticket /\ o = OrderOf[k]
  BY OpenIsBusy DEF ScanCommit
<1>1. /\ open[v] # Idle /\ s \in Scans /\ k \in Tickets /\ o \in Orders
      /\ ticket[k] = "issued" /\ s \notin recorded
  BY <1>0 DEF ScanCommit, Owned
<1>2. /\ ticket' = [ticket EXCEPT ![k] = "boarded"]
      /\ open' = [open EXCEPT ![v] = Idle]
      /\ recorded' = recorded \cup {s}
      /\ outcome' = [x \in recorded \cup {s} |-> IF x = s THEN "boarded" ELSE outcome[x]]
      /\ journal' = journal /\ cached' = cached /\ told' = told
  BY <1>0 DEF ScanCommit, gates
<1>3. status[o] = "ticketed"
  BY <1>0, <1>1 DEF Rows, TypeOK
<1>4. status' = [status EXCEPT ![o] = IF open[v].last THEN "boarded" ELSE "ticketed"]
  <2>1. Legal("ticketed", "passenger_boarded")
    BY Transitions DEF Legal, Illegal
  <2> QED
    BY <1>0, <1>1, <1>3, <2>1, Transitions DEF ScanCommit
<1>5. TypeOK'
  <2>1. recorded' \subseteq Scans
    BY <1>1, <1>2 DEF TypeOK
  <2>2. outcome' \in [recorded' -> {"boarded", "already_boarded", "void"}]
    BY <1>2 DEF TypeOK
  <2>3. open' \in [Workers -> {Idle} \cup Busy]
    BY <1>2 DEF TypeOK
  <2> QED
    BY <1>1, <1>2, <1>4, <2>1, <2>2, <2>3 DEF TypeOK
<1>6. Rows'
  <2> SUFFICES ASSUME NEW t \in Tickets
               PROVE  /\ status'[OrderOf[t]] = "paid" => ticket'[t] = "none"
                      /\ status'[OrderOf[t]] = "ticketed" => ticket'[t] \in {"issued", "boarded"}
                      /\ status'[OrderOf[t]] = "boarded" => ticket'[t] = "boarded"
                      /\ status'[OrderOf[t]] = "refunded" => ticket'[t] \in {"void", "none"}
    BY DEF Rows
  <2>0. OrderOf[t] \in Orders
    BY BoardingAssumption
  <2>1. CASE OrderOf[t] # o
    BY <2>0, <2>1, <1>1, <1>2, <1>4 DEF Rows, TypeOK
  <2>2. CASE t = k
    BY <2>2, <1>0, <1>1, <1>2, <1>3, <1>4 DEF TypeOK
  <2>3. CASE OrderOf[t] = o /\ t # k
    <3>1. ticket'[t] = ticket[t] /\ ticket[t] \in {"issued", "boarded"}
      BY <2>3, <1>1, <1>2, <1>3 DEF Rows, TypeOK
    <3>2. open[v].last => ticket[t] # "issued"
      BY <2>3, <1>0, <1>1 DEF LastSeen
    <3>3. status'[o] = IF open[v].last THEN "boarded" ELSE "ticketed"
      BY <1>1, <1>4 DEF TypeOK
    <3> QED
      BY <2>3, <3>1, <3>2, <3>3
  <2> QED
    BY <2>1, <2>2, <2>3
<1>7. \A w \in Workers : open'[w] # Idle => w # v /\ open'[w] = open[w]
  BY <1>2 DEF TypeOK
<1>8. \A w \in Workers : open'[w] # Idle => open[w].scan.ticket # k
  BY <1>0, <1>1, <1>7 DEF Owned
<1>9. \A t \in Tickets : ticket'[t] = IF t = k THEN "boarded" ELSE ticket[t]
  BY <1>2 DEF TypeOK
<1>10. Owned'
  <2> SUFFICES ASSUME NEW w \in Workers, open'[w] # Idle
               PROVE  /\ ticket'[open'[w].scan.ticket] = "issued"
                      /\ open'[w].scan \notin recorded'
                      /\ \A x \in Workers \ {w} :
                           open'[x] # Idle => open'[x].scan.ticket # open'[w].scan.ticket
    BY DEF Owned
  <2>1. open'[w] = open[w] /\ open[w] # Idle /\ open[w].scan.ticket \in Tickets
    BY <1>7, OpenIsBusy
  <2>2. ticket'[open'[w].scan.ticket] = "issued"
    BY <2>1, <1>8, <1>9 DEF Owned
  <2>3. open'[w].scan \notin recorded'
    <3>1. open[w].scan # s
      BY <1>0, <1>8
    <3> QED
      BY <2>1, <3>1, <1>2 DEF Owned
  <2>4. \A x \in Workers \ {w} :
          open'[x] # Idle => open'[x].scan.ticket # open'[w].scan.ticket
    BY <2>1, <1>7 DEF Owned
  <2> QED
    BY <2>2, <2>3, <2>4
<1>11. LastSeen'
  BY <1>7, <1>9, OpenIsBusy DEF LastSeen
<1>12. AdmittedOnce'
  <2>1. \A x \in recorded' : outcome'[x] = IF x = s THEN "boarded" ELSE outcome[x]
    BY <1>2
  <2>2. \A t \in Tickets : t # k => Admitted(t)' = Admitted(t)
    BY <2>1, <1>0, <1>2 DEF Admitted
  <2>3. Admitted(k) = {}
    BY <1>1 DEF AdmittedOnce
  <2>4. Admitted(k)' = {s}
    BY <2>1, <2>3, <1>0, <1>1, <1>2 DEF Admitted
  <2> QED
    BY <2>2, <2>4, <1>1, <1>9 DEF AdmittedOnce
<1>13. Informed'
  <2>1. \A d \in Devices : \A t \in told[d] : OrderOf[t] # o /\ t # k /\ OrderOf[t] \in Orders
    BY <1>0, <1>3, BoardingAssumption DEF Informed, TypeOK
  <2> QED
    BY <2>1, <1>2, <1>4, <1>9 DEF Informed, TypeOK
<1> QED
  BY <1>5, <1>6, <1>10, <1>11, <1>12, <1>13

LEMMA AbortKeepsIInv ==
  ASSUME IInv, NEW v \in Workers, ScanAbort(v)
  PROVE  IInv'
<1> USE DEF IInv
<1>1. TypeOK'
  BY DEF ScanAbort, TypeOK, gates
<1>2. \A w \in Workers : open'[w] # Idle => open'[w] = open[w]
  BY DEF ScanAbort, TypeOK
<1>3. Rows' /\ AdmittedOnce' /\ Informed'
  BY DEF ScanAbort, gates, Rows, AdmittedOnce, Admitted, Informed
<1>4. Owned'
  BY <1>2 DEF ScanAbort, Owned
<1>5. LastSeen'
  BY <1>2 DEF ScanAbort, LastSeen
<1> QED
  BY <1>1, <1>3, <1>4, <1>5

LEMMA GateKeepsIInv ==
  ASSUME IInv, NEW d \in Devices,
         PullRevocations(d) \/ \E t \in Tickets : GateScan(d, t)
  PROVE  IInv'
<1> USE DEF IInv
<1>1. UNCHANGED <<status, ticket, recorded, outcome, open>>
  BY DEF PullRevocations, GateScan
<1>2. TypeOK'
  <2>1. CASE PullRevocations(d)
    BY <2>1, <1>1 DEF PullRevocations, RevokedTickets, TypeOK
  <2>2. ASSUME NEW t \in Tickets, GateScan(d, t) PROVE TypeOK'
    BY <2>2, <1>1 DEF GateScan, TypeOK, Scans
  <2> QED
    BY <2>1, <2>2
<1>3. Rows' /\ Owned' /\ LastSeen' /\ AdmittedOnce'
  BY <1>1 DEF Rows, Owned, LastSeen, AdmittedOnce, Admitted
<1>4. Informed'
  <2>1. CASE PullRevocations(d)
    <3>1. PICK asked \in {{}} \cup {{l} : l \in Legs}, soon \in SUBSET Legs :
            /\ cached' = [cached EXCEPT ![d] = RevokedTickets(asked, soon)]
            /\ told' = [told EXCEPT ![d] = {t \in Tickets : /\ status[OrderOf[t]] = "refunded"
                                                           /\ LegOf[t] \in Covered(asked, soon)}]
      BY <2>1 DEF PullRevocations
    <3> QED
      BY <3>1, <1>1 DEF Informed, TypeOK, RevokedTickets
  <2>2. ASSUME NEW t \in Tickets, GateScan(d, t) PROVE Informed'
    BY <2>2, <1>1 DEF GateScan, Informed
  <2> QED
    BY <2>1, <2>2
<1> QED
  BY <1>2, <1>3, <1>4

\* IInv is an invariant of the specification.
THEOREM Invariance == Spec => []IInv
<1>1. Init => IInv
  BY InitIInv
<1>2. IInv /\ [Next]_vars => IInv'
  <2> SUFFICES ASSUME IInv, [Next]_vars PROVE IInv'
    OBVIOUS
  <2>1. ASSUME NEW o \in Orders, Issue(o) PROVE IInv'
    BY <2>1, IssueKeepsIInv
  <2>2. ASSUME NEW o \in Orders, Refund(o) PROVE IInv'
    BY <2>2, RefundKeepsIInv
  <2>3. ASSUME NEW d \in Devices, PullRevocations(d) \/ \E t \in Tickets : GateScan(d, t)
        PROVE  IInv'
    BY <2>3, GateKeepsIInv
  <2>4. ASSUME NEW s \in Scans, ScanRefused(s) PROVE IInv'
    BY <2>4, RefusedKeepsIInv
  <2>5. ASSUME NEW w \in Workers, NEW s \in Scans, ScanCount(w, s) PROVE IInv'
    BY <2>5, CountKeepsIInv
  <2>6. ASSUME NEW w \in Workers, ScanCommit(w) PROVE IInv'
    BY <2>6, CommitKeepsIInv
  <2>7. ASSUME NEW w \in Workers, ScanAbort(w) PROVE IInv'
    BY <2>7, AbortKeepsIInv
  <2>8. CASE UNCHANGED vars
    BY <2>8 DEF vars, IInv, TypeOK, Rows, Owned, LastSeen, AdmittedOnce, Admitted,
                 Informed
  <2> QED
    BY <2>1, <2>2, <2>3, <2>4, <2>5, <2>6, <2>7, <2>8 DEF Next
<1> QED
  BY <1>1, <1>2, PTL DEF Spec

\* Orders, tickets, scans, transactions and device caches keep their types.
THEOREM TypeCorrect == Spec => []TypeOK
<1>1. IInv => TypeOK
  BY DEF IInv
<1> QED
  BY <1>1, Invariance, PTL

\* record_scan moves an order to Boarded only when every leg and passenger is.
THEOREM NeverBoardedEarly == Spec => []BoardedMeansAllAboard
<1>1. IInv => BoardedMeansAllAboard
  BY DEF IInv, Rows, BoardedMeansAllAboard, TicketsOf
<1> QED
  BY <1>1, Invariance, PTL

\* Of all scans of a ticket at most one boards it.
THEOREM TicketsAdmitOnce == Spec => []OneScanBoards
<1>1. IInv => OneScanBoards
  BY DEF IInv, AdmittedOnce, OneScanBoards
<1> QED
  BY <1>1, Invariance, PTL

\* No ticket of a refunded order stays usable.
THEOREM RefundsVoid == Spec => []RefundVoidsEveryTicket
<1>1. IInv => RefundVoidsEveryTicket
  BY DEF IInv, Rows, RefundVoidsEveryTicket, TicketsOf
<1> QED
  BY <1>1, Invariance, PTL

\* A gate admits no ticket that its list had to name, for any orders, trips and
\* answers of revoked_tickets (ticket/mod.rs:604-616).
THEOREM GatesRefuseRefunded == Spec => RevokedStaysOut
<1>1. ASSUME IInv, [Next]_vars
      PROVE  \A s \in journal' \ journal : s.ticket \notin told[s.device]
  <2> SUFFICES ASSUME NEW x \in journal' \ journal
               PROVE  x.ticket \notin told[x.device]
    OBVIOUS
  <2>1. PICK d \in Devices, t \in Tickets : GateScan(d, t)
    BY <1>1 DEF Next, vars, gates, Issue, Refund, PullRevocations, ScanRefused, ScanCount,
                ScanCommit, ScanAbort
  <2>2. x.ticket = t /\ x.device = d
    BY <2>1 DEF GateScan
  <2>3. t \in told[d] => ticket[t] = "none"
    BY <1>1, <2>1 DEF IInv, Informed, Rows, GateScan
  <2> QED
    BY <2>1, <2>2, <2>3 DEF GateScan
<1>2. IInv /\ [Next]_vars => [\A s \in journal' \ journal : s.ticket \notin told[s.device]]_vars
  BY <1>1
<1> QED
  BY <1>2, Invariance, PTL DEF Spec, RevokedStaysOut
=============================================================================
