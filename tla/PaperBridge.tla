---------------------------- MODULE PaperBridge ----------------------------
(***************************************************************************)
(* The paper account as a whole: the order service and the venue, each     *)
(* with a journal of its own, joined by class PaperBridge of               *)
(* paper_venue.py.  dispatch() replays the local journal as an outbox,     *)
(* receive() books the venue's reports, reconcile() compares both ledgers. *)
(*                                                                         *)
(* dispatch() and receive() are loops of separate transactions over a      *)
(* journal, with no memory of their own: an event already delivered, or a  *)
(* report already booked, is skipped, and the first one that raises ends   *)
(* the pass.  So what a pass does next, wherever the process was stopped   *)
(* or restarted, is always the first event not delivered yet: one action   *)
(* per loop iteration, and a crash between two iterations needs no action. *)
(* All actors (callers, market, bridge) interleave.                        *)
(***************************************************************************)
EXTENDS OrderService

CONSTANTS Ticks, MinimumFee, CommissionRate, SellTaxRate, SlippageBps, MaxVenueEvents

\* The settings and observations of the venue, and the key of a halt nobody reported.
ASSUME MarketAssumption ==
  /\ MinimumFee \in Nat /\ CommissionRate \in Nat /\ SellTaxRate \in Nat /\ SlippageBps \in Nat
  /\ MaxVenueEvents \in Nat
  /\ Ticks \subseteq [symbol : Symbols, time : Times, price : Nat \ {0}, volume : Nat,
                     buyable : BOOLEAN, sellable : BOOLEAN]
ASSUME NoReportAssumption ==
  NoReport \notin {"VENUE_FILL", "VENUE_CANCELED", "VENUE_REJECTED"} \X OrderIds \X Nat

VARIABLES
  venueJournal, venueOrders, venueLedger,
  statement    \* the venue snapshot a reconcile() call in progress holds, if any: a set

Venue == INSTANCE PaperVenue WITH Offers <- {}

venueVars  == <<venueJournal, venueOrders, venueLedger>>
bridgeVars == <<vars, venueVars, statement>>

-----------------------------------------------------------------------------
(* dispatch *)

\* Events of the local journal the venue has not acted on.  A cancel request
\* for an order that is no longer active at the venue is skipped.
Undelivered ==
  {i \in DOMAIN journal :
     \/ /\ journal[i].kind = "ORDER_ACCEPTED"
        /\ ~Venue!HasEvent("VENUE_ACCEPTED", journal[i].id)
     \/ /\ journal[i].kind = "ORDER_CANCEL_REQUESTED"
        /\ Venue!IsActive(journal[i].id)}

\* The iteration that delivers the first of them; a cancel the venue refuses
\* raises, ends the pass and is met again by the next one.
Dispatch ==
  /\ Undelivered # {}
  /\ LET e == journal[Min(Undelivered)]
     IN  IF e.kind = "ORDER_ACCEPTED"
         THEN Venue!Accept(e.id, orders[e.id])
         ELSE Venue!Cancel(e.id, e.time)
  /\ UNCHANGED <<vars, statement>>

-----------------------------------------------------------------------------
(* receive *)

\* The report's event is in the local journal with the same content.
Booked(r) ==
  CASE r.kind = "VENUE_FILL"     -> Has("FILL", r.id)
    [] r.kind = "VENUE_CANCELED" ->
         \E i \in DOMAIN journal : /\ journal[i].kind = "ORDER_CANCELED"
                                   /\ journal[i].id = r.order /\ journal[i].time = r.time
    [] r.kind = "VENUE_REJECTED" ->
         \E i \in DOMAIN journal : /\ journal[i].kind = "ORDER_REJECTED"
                                   /\ journal[i].id = r.order /\ journal[i].time = r.time
                                   /\ journal[i].reason = "venue"

Bookable(r) ==
  CASE r.kind = "VENUE_FILL"     -> FillAllowed(r.order, r.quantity, r.price, r.fee, r.time)
    [] r.kind = "VENUE_CANCELED" -> ~Has("ORDER_CANCELED", r.order) /\ CancelAllowed(r.order, r.time)
    [] r.kind = "VENUE_REJECTED" -> ~Has("ORDER_REJECTED", r.order) /\ RejectAllowed(r.order, r.time)

Unbooked == {k \in Venue!Reports : ~Booked(venueJournal[k])}

Book(r) ==
  \/ /\ r.kind = "VENUE_FILL"
     /\ Fill(r.id, r.order, r.quantity, r.price, r.fee, r.time)
  \/ /\ r.kind = "VENUE_CANCELED"
     /\ ConfirmCancel(r.order, r.time)
  \/ /\ r.kind = "VENUE_REJECTED"
     /\ Reject(r.order, "venue", r.time)

\* Fault: a refused report does not end the pass.
ReceiveSkipping ==
  /\ Unbooked # {}
  /\ LET bookable == {k \in Unbooked : Bookable(venueJournal[k])}
     IN  IF bookable # {} THEN Book(venueJournal[Min(bookable)])
         ELSE Halt(venueJournal[Min(Unbooked)].id, venueJournal[Min(Unbooked)].time)
  /\ UNCHANGED <<venueVars, statement>>

\* Fault: a refused report leaves no incident.
ReceiveSilently ==
  /\ Unbooked # {}
  /\ Bookable(venueJournal[Min(Unbooked)]) /\ Book(venueJournal[Min(Unbooked)])
  /\ UNCHANGED <<venueVars, statement>>

\* A refused report halts the account, once, and ends the pass: the reports
\* behind it wait.
Receive ==
  /\ Unbooked # {}
  /\ LET r == venueJournal[Min(Unbooked)]
     IN  IF Bookable(r) THEN Book(r) ELSE Halt(r.id, r.time)
  /\ UNCHANGED <<venueVars, statement>>

-----------------------------------------------------------------------------
(* reconcile, and the other actors *)

\* reconcile() reads the venue's store first and compares in a transaction of
\* the local store: both journals may move in between.
TakeStatement ==
  /\ Venue!SnapshotAllowed
  /\ statement' = {Venue!Snapshot}
  /\ UNCHANGED <<vars, venueVars>>

CompareStatement(when) ==
  /\ \E external \in statement : Reconcile(Snapshot = external, when)
  /\ statement' = {}
  /\ UNCHANGED venueVars

Caller ==
  /\ \/ \E q \in Quotes : Quote(q)
     \/ /\ Room
        /\ \E when \in Times :
             \/ \E r \in Requests : Submit(r, when)
             \/ \E o \in DOMAIN orders : RequestCancel(o, when)
             \/ \E id \in ActionIds, a \in Entitlements : CorporateAction(id, a, when)
     \/ /\ ControlRoom
        /\ \E when \in Times :
             \/ Halt(NoReport, when)
             \/ Monitor(when) /\ Cardinality(observed') <= MaxObserved
             \/ Resume(when)
  /\ UNCHANGED <<venueVars, statement>>

Reconciliation ==
  /\ ControlRoom
  /\ TakeStatement \/ \E when \in Times : CompareStatement(when)

Market ==
  /\ Venue!Room
  /\ \/ \E tick \in Ticks : Venue!Match(tick)
     \/ \E when \in Times :
          \/ \E o \in DOMAIN venueOrders : Venue!Reject(o, when)
          \/ \E id \in ActionIds, a \in Entitlements : Venue!CorporateAction(id, a, when)
  /\ UNCHANGED <<vars, statement>>

BridgeInit == Init /\ Venue!Init /\ statement = {}

BridgeNext ==
  \/ Caller
  \/ Market
  \/ Dispatch
  \/ Receive
  \/ Reconciliation

BridgeSpec == BridgeInit /\ [][BridgeNext]_bridgeVars

\* One process drives the account: nothing else happens inside a reconcile() call.
SoleNext ==
  \/ statement = {} /\ (Caller \/ Market \/ Dispatch \/ Receive)
  \/ Reconciliation

\* The bridge is called again and again by a caller that keeps polling, and a
\* reconcile() call comes to its end.
PolledSpec == BridgeSpec /\ WF_bridgeVars(Dispatch) /\ WF_bridgeVars(Receive)

SoleSpec ==
  /\ BridgeInit /\ [][SoleNext]_bridgeVars
  /\ WF_bridgeVars(statement = {} /\ Dispatch)
  /\ WF_bridgeVars(statement = {} /\ Receive)
  /\ WF_bridgeVars(\E when \in Times : CompareStatement(when))

-----------------------------------------------------------------------------
(* Properties. *)

BridgeTypeOK ==
  /\ TypeOK
  /\ DOMAIN venueOrders \subseteq DOMAIN orders
  /\ \A o \in DOMAIN venueOrders : venueOrders[o] \in
        [symbol : Symbols, side : {"BUY", "SELL"}, quantity : Nat, limit_price : Nat,
         fee_budget : Nat, signal_at : Nat, settlement_days : Nat, tick_size : Nat,
         accepted_at : Times, filled : Nat, fees : Nat,
         status : {"ACCEPTED", "PARTIAL", "FILLED", "CANCELED", "REJECTED"}]
  /\ venueLedger.cash \in Int
  /\ venueLedger.positions \in [Symbols -> Int]

\* The identities of a kind booked ahead of an event.
Ahead(events, kind, i) == {events[j].id : j \in {l \in 1..(i-1) : events[l].kind = kind}}

\* Both sides applied the same entitlements, in the same order, to the same
\* executions: the caller sends them to each side separately (paper_venue.py:136-142).
SameEntitlements ==
  LET local == {i \in DOMAIN journal : journal[i].kind = "CORPORATE_ACTION"}
      ext   == {k \in DOMAIN venueJournal : venueJournal[k].kind = "VENUE_ACTION"}
      alike(i, k) ==
        /\ journal[i].id = venueJournal[k].id /\ journal[i].action = venueJournal[k].action
        /\ Ahead(journal, "FILL", i) = Ahead(venueJournal, "VENUE_FILL", k)
        /\ Ahead(journal, "CORPORATE_ACTION", i) = Ahead(venueJournal, "VENUE_ACTION", k)
  IN  /\ \A i \in local : \E k \in ext : alike(i, k)
      /\ \A k \in ext : \E i \in local : alike(i, k)

\* Two ledgers written independently agree once everything is delivered and
\* booked, so a reconciliation at rest matches and never halts a sound account
\* (platform_contract.md:94, PaperBridge.reconcile).
SettledBooksAgree ==
  (Undelivered = {} /\ Unbooked = {} /\ SameEntitlements) => Snapshot = Venue!Snapshot

\* Reports are booked in the venue's order with no gap, and the local books
\* hold no execution the venue did not report: a crash, a retry or a refused
\* report never loses, repeats or invents one (paper_venue.py:207-217).
BookedInOrder ==
  /\ \A k \in Unbooked, j \in Venue!Reports : j > k => j \in Unbooked
  /\ \A i \in DOMAIN journal :
        journal[i].kind = "FILL" =>
          \E k \in Venue!Reports : venueJournal[k].id = journal[i].id

\* The venue does not look at holdings: that it never sells what the account
\* does not have rests on the local T+1 and one-order checks, and on the caller
\* sending the same entitlements to both sides (paper_venue.py:139, 181).
VenueNeverShort == SameEntitlements => ~venueLedger.short

Sent(id) == \E k \in Venue!Reports : venueJournal[k].id = id

Answered(id) ==
  LET unbooked == Unbooked
      refused  == {j \in unbooked : Has("HALT", venueJournal[j].id)}
  IN  \E k \in Venue!Reports :
         /\ venueJournal[k].id = id
         /\ k \notin unbooked \/ \E j \in refused : j <= k

\* Every report is answered if the bridge keeps being polled: it is booked, or an
\* incident is on record for it or for a report that waits ahead of it
\* (platform_contract.md:79, 93).
ReportsAnswered == \A id \in ReportIds : Sent(id) ~> Answered(id)

\* The account does not resume over a report it refused and has not booked
\* (platform_contract.md:79, 85).  It holds as long as one process drives the
\* account and nobody closes orders by hand; a reconcile() call that another
\* process interrupts compares a statement older than the refused report.
IncidentsStayHalted == (\E k \in Unbooked : Has("HALT", venueJournal[k].id)) => halted

\* What the code says of the bridge and does not keep, found violated by a run:
\* The local journal is a recoverable outbox (paper_venue.py:196): an accepted
\* order reaches the venue if dispatch() is called again and again.
AcceptedReachVenue == \A o \in OrderIds : o \in DOMAIN orders ~> o \in DOMAIN venueOrders
=============================================================================
