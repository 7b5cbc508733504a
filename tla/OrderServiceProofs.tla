------------------------- MODULE OrderServiceProofs -------------------------
(***************************************************************************)
(* Theorems about OrderService, PaperBridge and IntentExecution, for every *)
(* value of their constants.  The inductive invariant of the order service *)
(* is LedgerInv: BookInv for the journal and the orders, LotsInv for the   *)
(* shares, MoneyInv for the cash.  What a sum over lots or orders comes to *)
(* is taken from SumFacts.                                                 *)
(*                                                                         *)
(* The second part is about the bridge, where the same service takes its   *)
(* executions from the venue.  BridgeInv relates the two journals: what is *)
(* booked was reported, in the venue's order, and an order is open here as *)
(* long as the venue may have more to say of it.  SoleInv adds the halts,  *)
(* when one process drives the account.  LedgersInv adds that each of the  *)
(* two ledgers is its journal replayed, and what the order of the events   *)
(* is: so both come to the same, and the venue never sells what the        *)
(* account does not have.                                                  *)
(*                                                                         *)
(* The last part is about the executor of intents, for any stream,         *)
(* strategy, openings, crashes, and for any of the service's other         *)
(* callers.  IntentInv says what the call in progress knows of the         *)
(* journal, although its reads and its writes are separate transactions:   *)
(* an entry that is about to be submitted was never refused, and one that  *)
(* is about to be refused or given up has no order.                        *)
(***************************************************************************)
EXTENDS PaperBridge, IntentExecution, SumFacts

\* An order in the projection was accepted in the journal.
OrdersJournalled == \A o \in DOMAIN orders : Has("ORDER_ACCEPTED", o)

\* Orders keep the quantity they were requested with.
OrdersRequested == \A o \in DOMAIN orders : \E r \in Requests : orders[o].quantity = r.quantity

BookInv ==
  /\ BookTypeOK
  /\ OneOrderPerSymbol
  /\ OrderAccounting
  /\ OrdersJournalled
  /\ OrdersRequested
  /\ LedgerInOrder
  /\ AppliedOnce
  /\ ReconciledIsCurrent

-----------------------------------------------------------------------------
(* Appending to the journal. *)

\* The kind of an event is one of the financial kinds and its time is a natural.
LEMMA EventFields ==
  ASSUME NEW e \in Event
  PROVE  /\ e.kind \in FinancialKinds
         /\ e.time \in Nat
<1>0. Times \subseteq Nat
  BY TimesAssumption
<1>1. CASE e \in [kind : {"ACCOUNT_OPENED", "RESUMED"}, time : Nat]
  BY <1>1 DEF FinancialKinds
<1>2. CASE e \in [kind : {"ORDER_ACCEPTED", "ORDER_CANCEL_REQUESTED", "ORDER_CANCELED"},
                  id : OrderIds, time : Times]
  BY <1>0, <1>2 DEF FinancialKinds
<1>3. CASE e \in [kind : {"ORDER_REJECTED"}, id : OrderIds, reason : Reasons, time : Times]
  BY <1>0, <1>3 DEF FinancialKinds
<1>4. CASE e \in [kind : {"FILL"}, id : FillIds, order : OrderIds, time : Times]
  BY <1>0, <1>4 DEF FinancialKinds
<1>5. CASE e \in [kind : {"CORPORATE_ACTION"}, id : ActionIds, action : Entitlements, time : Times]
  BY <1>0, <1>5 DEF FinancialKinds
<1>6. CASE e \in [kind : {"HALT"}, id : ReportIds \cup {NoReport}, time : Times]
  BY <1>0, <1>6 DEF FinancialKinds
<1>7. CASE e \in [kind : {"RECONCILIATION"}, matched : BOOLEAN, time : Times]
  BY <1>0, <1>7 DEF FinancialKinds
<1> QED
  BY <1>1, <1>2, <1>3, <1>4, <1>5, <1>6, <1>7 DEF Event

\* Append leaves the old events in place and puts the new one at the end
\* (EventStore.append, event_store.py:95-99).
LEMMA Appending ==
  ASSUME journal \in Seq(Event), NEW e \in Event, Record(e)
  PROVE  /\ journal' \in Seq(Event)
         /\ \A i \in DOMAIN journal : i \in DOMAIN journal' /\ journal'[i] = journal[i]
         /\ Len(journal) + 1 \in DOMAIN journal' /\ journal'[Len(journal) + 1] = e
         /\ \A i \in DOMAIN journal' : i \in DOMAIN journal \/ i = Len(journal) + 1
         /\ DOMAIN journal = 1..Len(journal) /\ DOMAIN journal' = 1..(Len(journal) + 1)
         /\ Len(journal) \in Nat
BY SMTT(30) DEF Record

\* An event that is not dated before any financial event keeps the ledger in order.
LEMMA AppendingInOrder ==
  ASSUME journal \in Seq(Event), NEW e \in Event, Record(e), LedgerInOrder,
         e.kind = "HALT" \/ FinancialTime(e.time)
  PROVE  LedgerInOrder'
<1>1. \A i \in DOMAIN journal : journal[i] \in Event
  OBVIOUS
<1>2. \A i \in DOMAIN journal : journal[i].kind \in FinancialKinds
  BY <1>1, EventFields
<1> SUFFICES ASSUME NEW i \in DOMAIN journal', NEW j \in DOMAIN journal',
                    i < j, journal'[j].kind # "HALT"
             PROVE  journal'[i].time <= journal'[j].time
  BY DEF LedgerInOrder
<1>3. i \in DOMAIN journal
  BY Appending
<1>4. CASE j \in DOMAIN journal
  BY <1>3, <1>4, Appending DEF LedgerInOrder
<1>5. CASE j = Len(journal) + 1
  BY <1>2, <1>3, <1>5, Appending DEF FinancialTime
<1> QED
  BY <1>4, <1>5, Appending

\* An event whose identity is new keeps the identities distinct.
LEMMA AppendingOnce ==
  ASSUME journal \in Seq(Event), NEW e \in Event, Record(e), AppliedOnce,
         e.kind \in LedgerKinds \cup {"HALT"} =>
            \/ ~Has(e.kind, e.id)
            \/ e.kind = "HALT" /\ e.id = NoReport
  PROVE  AppliedOnce'
<1> SUFFICES ASSUME NEW i \in DOMAIN journal', NEW j \in DOMAIN journal', i # j,
                    journal'[i].kind = journal'[j].kind,
                    journal'[i].kind \in LedgerKinds \cup {"HALT"},
                    journal'[i].id = journal'[j].id
             PROVE  journal'[i].kind = "HALT" /\ journal'[i].id = NoReport
  BY DEF AppliedOnce
<1>1. CASE i \in DOMAIN journal /\ j \in DOMAIN journal
  BY <1>1, Appending DEF AppliedOnce
<1>2. CASE i = Len(journal) + 1 /\ j \in DOMAIN journal
  BY <1>2, Appending DEF Has
<1>3. CASE j = Len(journal) + 1 /\ i \in DOMAIN journal
  BY <1>3, Appending DEF Has
<1> QED
  BY <1>1, <1>2, <1>3, Appending

\* A match stays current until the ledger moves or the account halts.
LEMMA AppendingKeepsMatch ==
  ASSUME journal \in Seq(Event), NEW e \in Event, Record(e), MatchIsCurrent,
         e.kind \notin LedgerKinds \cup {"HALT"}
  PROVE  MatchIsCurrent'
<1> PICK i \in DOMAIN journal :
        /\ journal[i].kind = "RECONCILIATION" /\ journal[i].matched
        /\ \A j \in DOMAIN journal : j > i => journal[j].kind \notin LedgerKinds \cup {"HALT"}
  BY DEF MatchIsCurrent
<1>1. i \in DOMAIN journal' /\ journal'[i] = journal[i]
  BY Appending
<1>2. ASSUME NEW j \in DOMAIN journal', j > i
      PROVE  journal'[j].kind \notin LedgerKinds \cup {"HALT"}
  BY <1>2, Appending
<1> QED
  BY <1>1, <1>2 DEF MatchIsCurrent

\* An identity that is journalled stays journalled.
LEMMA AppendingKeepsHas ==
  ASSUME journal \in Seq(Event), NEW e \in Event, Record(e), NEW kind, NEW id, Has(kind, id)
  PROVE  Has(kind, id)'
BY Appending DEF Has

-----------------------------------------------------------------------------
(* Changing one order of the projection. *)

\* What the projection says of one order on its own.
Sound(order) ==
  /\ order \in Order
  /\ order.filled <= order.quantity
  /\ (order.status = "FILLED" <=> order.filled = order.quantity)
  /\ order.fees <= order.fee_budget

\* The orders' part of the invariant.
OrdersInv ==
  /\ DOMAIN orders \subseteq OrderIds
  /\ \A o \in DOMAIN orders : Sound(orders[o])
  /\ OneOrderPerSymbol
  /\ OrdersRequested

\* Executing or closing an order leaves it an order.
LEMMA Executing ==
  ASSUME NEW order \in Order, NEW filled \in Nat, NEW fees \in Nat,
         NEW status \in ACTIVE \cup {"FILLED", "CANCELED", "REJECTED"}
  PROVE  [order EXCEPT !.filled = filled, !.fees = fees, !.status = status] \in Order
<1> DEFINE one == [order EXCEPT !.filled = filled]
           two == [one EXCEPT !.fees = fees]
           three == [two EXCEPT !.status = status]
<1>1. one \in Order
  BY DEF Order
<1>2. two \in Order
  <2> HIDE DEF one
  <2> QED BY <1>1 DEF Order
<1>3. three \in Order
  <2> HIDE DEF two
  <2> QED BY <1>2 DEF Order
<1>4. three = [order EXCEPT !.filled = filled, !.fees = fees, !.status = status]
  OBVIOUS
<1> QED
  BY <1>3, <1>4

\* The orders' part follows from the parts of the invariant.
LEMMA OrdersInvParts ==
  ASSUME BookTypeOK, OrderAccounting, OneOrderPerSymbol, OrdersRequested
  PROVE  OrdersInv
BY DEF BookTypeOK, OrderAccounting, OrdersInv, Sound

\* An active order that changes its status or its executed quantity keeps its
\* symbol, so no second active order appears for any symbol.
LEMMA ChangingOrder ==
  ASSUME OrdersInv, NEW o \in Pending, NEW new, Sound(new),
         new.symbol = orders[o].symbol, new.quantity = orders[o].quantity,
         orders' = [orders EXCEPT ![o] = new]
  PROVE  OrdersInv' /\ DOMAIN orders' = DOMAIN orders
<1>1. o \in DOMAIN orders
  BY DEF Pending
<1>2. DOMAIN orders' = DOMAIN orders
  OBVIOUS
<1>3. \A p \in DOMAIN orders : orders'[p] = IF p = o THEN new ELSE orders[p]
  OBVIOUS
<1>4. \A p \in DOMAIN orders' : Sound(orders'[p])
  BY <1>2, <1>3 DEF OrdersInv
<1>5. Pending' \subseteq Pending
  BY <1>1, <1>2, <1>3 DEF Pending
<1>6. \A p \in DOMAIN orders : orders'[p].symbol = orders[p].symbol
  BY <1>3
<1>7. OneOrderPerSymbol'
  <2> SUFFICES ASSUME NEW p \in Pending', NEW q \in Pending',
                      orders'[p].symbol = orders'[q].symbol
               PROVE  p = q
    BY DEF OneOrderPerSymbol
  <2>1. p \in Pending /\ q \in Pending
    BY <1>5
  <2> QED
    BY <2>1, <1>6 DEF OneOrderPerSymbol, OrdersInv, Pending
<1>8. OrdersRequested'
  BY <1>2, <1>3, <1>1 DEF OrdersRequested, OrdersInv
<1> QED
  BY <1>2, <1>4, <1>7, <1>8 DEF OrdersInv

\* An accepted order joins only if its symbol has no active order.
LEMMA AddingOrder ==
  ASSUME OrdersInv, NEW id \in OrderIds, NEW new, Sound(new),
         \E r \in Requests : new.quantity = r.quantity,
         NoOutstanding(new.symbol),
         orders' = [o \in DOMAIN orders \cup {id} |-> IF o = id THEN new ELSE orders[o]]
  PROVE  OrdersInv' /\ DOMAIN orders' = DOMAIN orders \cup {id}
<1>1. DOMAIN orders' = DOMAIN orders \cup {id}
  OBVIOUS
<1>2. \A p \in DOMAIN orders' : orders'[p] = IF p = id THEN new ELSE orders[p]
  OBVIOUS
<1>3. \A p \in DOMAIN orders' : Sound(orders'[p])
  BY <1>1, <1>2 DEF OrdersInv
<1>4. OneOrderPerSymbol'
  <2> SUFFICES ASSUME NEW p \in Pending', NEW q \in Pending',
                      orders'[p].symbol = orders'[q].symbol
               PROVE  p = q
    BY DEF OneOrderPerSymbol
  <2>1. /\ p = id \/ (p \in Pending /\ orders'[p] = orders[p])
        /\ q = id \/ (q \in Pending /\ orders'[q] = orders[q])
    BY <1>1, <1>2 DEF Pending
  <2>2. orders'[id] = new
    BY <1>1, <1>2
  <2> QED
    BY <2>1, <2>2 DEF OneOrderPerSymbol, OrdersInv, NoOutstanding
<1>5. OrdersRequested'
  BY <1>1, <1>2 DEF OrdersRequested, OrdersInv
<1> QED
  BY <1>1, <1>3, <1>4, <1>5 DEF OrdersInv

-----------------------------------------------------------------------------
(* One lemma per operation. *)

\* What every ledger event does to the journal's part of the invariant.
LEMMA LedgerEvent ==
  ASSUME BookInv, NEW e \in Event, Record(e), FinancialTime(e.time),
         e.kind \in LedgerKinds, ~Has(e.kind, e.id), reconciled' = FALSE,
         \A o \in DOMAIN orders' :
            o \in DOMAIN orders \/ (e.kind = "ORDER_ACCEPTED" /\ e.id = o)
  PROVE  /\ journal' \in Seq(Event) /\ OrdersJournalled' /\ LedgerInOrder'
         /\ AppliedOnce' /\ ReconciledIsCurrent'
<1>0. journal \in Seq(Event)
  BY DEF BookInv, BookTypeOK
<1>1. journal' \in Seq(Event)
  BY <1>0, Appending
<1>2. OrdersJournalled'
  <2> SUFFICES ASSUME NEW o \in DOMAIN orders' PROVE Has("ORDER_ACCEPTED", o)'
    BY DEF OrdersJournalled
  <2>1. CASE o \in DOMAIN orders
    BY <1>0, <2>1, AppendingKeepsHas DEF BookInv, OrdersJournalled
  <2>2. CASE e.kind = "ORDER_ACCEPTED" /\ e.id = o
    BY <1>0, <2>2, Appending DEF Has
  <2> QED
    BY <2>1, <2>2
<1>3. LedgerInOrder'
  BY <1>0, AppendingInOrder DEF BookInv
<1>4. AppliedOnce'
  BY <1>0, AppendingOnce DEF BookInv
<1>5. ReconciledIsCurrent'
  BY DEF ReconciledIsCurrent
<1> QED
  BY <1>1, <1>2, <1>3, <1>4, <1>5

\* The invariant of the new state, from its parts.
LEMMA Together ==
  ASSUME OrdersInv', journal' \in Seq(Event), OrdersJournalled', LedgerInOrder', AppliedOnce',
         ReconciledIsCurrent', quotes' \in [Symbols -> [price : Nat, time : Nat]],
         halted' \in BOOLEAN, reconciled' \in BOOLEAN
  PROVE  BookInv'
BY DEF BookInv, BookTypeOK, OrdersInv, Sound, OrderAccounting

\* An accepted order (order_service.py:158-215).
LEMMA SubmitKeeps ==
  ASSUME BookInv, NEW r \in Requests, NEW when \in Times, Submit(r, when)
  PROVE  BookInv'
<1> DEFINE e   == [kind |-> "ORDER_ACCEPTED", id |-> r.order_id, time |-> when]
           new == OrderOf(r, when)
<1>1. /\ r.order_id \in OrderIds /\ r.symbol \in Symbols /\ r.side \in {"BUY", "SELL"}
      /\ r.quantity \in Nat \ {0} /\ r.limit_price \in Nat \ {0}
      /\ r.fee_budget \in Nat /\ r.signal_at \in Nat
  BY RequestAssumption
<1>2. Facts[r.symbol][when] \in FactRecord
  <2>1. Facts[r.symbol][when] \in FactRecord \cup {NoFact}
    BY <1>1, FactAssumption
  <2> QED
    BY <2>1 DEF Submit
<1>3. Sound(new)
  <2>1. Facts[r.symbol][when].settlement_days \in Nat /\ Facts[r.symbol][when].tick_size \in Nat \ {0}
    BY <1>2 DEF FactRecord
  <2>2. new \in Order
    BY <1>1, <2>1 DEF OrderOf, Order, ACTIVE
  <2> QED
    BY <1>1, <2>2 DEF Sound, OrderOf
<1>4. e \in Event /\ Record(e) /\ reconciled' = FALSE /\ FinancialTime(when)
  BY <1>1 DEF Event, Submit
<1>5. OrdersInv' /\ DOMAIN orders' = DOMAIN orders \cup {r.order_id}
  <2>1. OrdersInv
    BY OrdersInvParts DEF BookInv
  <2>2. NoOutstanding(new.symbol) /\ new.quantity = r.quantity
    BY DEF Submit, OrderOf
  <2>3. orders' = [o \in DOMAIN orders \cup {r.order_id} |->
                     IF o = r.order_id THEN new ELSE orders[o]]
    BY DEF Submit
  <2> HIDE DEF new
  <2> QED
    BY <1>1, <1>3, <2>1, <2>2, <2>3, AddingOrder
<1>6. /\ journal' \in Seq(Event) /\ OrdersJournalled' /\ LedgerInOrder'
      /\ AppliedOnce' /\ ReconciledIsCurrent'
  <2>1. e.kind \in LedgerKinds /\ ~Has(e.kind, e.id) /\ e.kind = "ORDER_ACCEPTED" /\ e.id = r.order_id /\ e.time = when
    BY DEF LedgerKinds, Submit
  <2> HIDE DEF e
  <2> QED
    BY <1>4, <1>5, <2>1, LedgerEvent
<1>7. quotes' = quotes /\ halted' = halted
  BY DEF Submit
<1> QED
  BY <1>4, <1>5, <1>6, <1>7, Together DEF BookInv, BookTypeOK

\* An execution booked on an active order (order_service.py:217-242).
LEMMA FillKeeps ==
  ASSUME BookInv, NEW f \in FillIds, NEW o \in DOMAIN orders, NEW price \in Prices,
         NEW fee \in Fees, NEW q \in 1..Unfilled(o), NEW when \in Times,
         Fill(f, o, q, price, fee, when)
  PROVE  BookInv'
<1> DEFINE e   == [kind |-> "FILL", id |-> f, order |-> o, time |-> when]
           new == Executed(o, q, fee)
<1>1. OrdersInv /\ o \in Pending /\ o \in OrderIds
  BY OrdersInvParts DEF BookInv, BookTypeOK, Fill, FillAllowed
<1>2. Sound(new) /\ new.symbol = orders[o].symbol /\ new.quantity = orders[o].quantity
  <2>1. Sound(orders[o]) /\ orders[o] \in Order
    BY <1>1 DEF OrdersInv, Sound
  <2>2. fee \in Nat /\ q \in Nat
    BY <2>1, MoneyAssumption DEF Unfilled, Order
  <2>3. q <= orders[o].quantity - orders[o].filled /\ orders[o].fees + fee <= orders[o].fee_budget
    BY DEF Fill, FillAllowed, Unfilled
  <2>4. /\ StatusAfter(o, orders[o].filled + q) \in ACTIVE \cup {"FILLED"}
        /\ (StatusAfter(o, orders[o].filled + q) = "FILLED" <=> orders[o].filled + q = orders[o].quantity)
    BY DEF StatusAfter, ACTIVE
  <2>5. new \in Order
    <3>1. orders[o].filled + q \in Nat /\ orders[o].fees + fee \in Nat
      BY <2>1, <2>2 DEF Order
    <3> QED
      BY <2>1, <2>4, <3>1, Executing DEF Executed
  <2>6. /\ new.symbol = orders[o].symbol /\ new.quantity = orders[o].quantity
        /\ new.filled = orders[o].filled + q /\ new.fees = orders[o].fees + fee
        /\ new.status = StatusAfter(o, orders[o].filled + q)
        /\ new.fee_budget = orders[o].fee_budget
    BY <2>1 DEF Order, Executed
  <2>7. orders[o].filled \in Nat /\ orders[o].quantity \in Nat
    BY <2>1 DEF Order
  <2> HIDE DEF new
  <2> QED
    BY <2>2, <2>3, <2>4, <2>5, <2>6, <2>7 DEF Sound
<1>3. orders' = [orders EXCEPT ![o] = new]
  BY DEF Fill, ApplyFill, Executed
<1>4. OrdersInv' /\ DOMAIN orders' = DOMAIN orders
  <2> HIDE DEF new
  <2> QED
    BY <1>1, <1>2, <1>3, ChangingOrder
<1>5. e \in Event /\ Record(e) /\ reconciled' = FALSE /\ FinancialTime(when)
  BY <1>1 DEF Event, Fill, FillAllowed, ApplyFill
<1>6. /\ journal' \in Seq(Event) /\ OrdersJournalled' /\ LedgerInOrder'
      /\ AppliedOnce' /\ ReconciledIsCurrent'
  <2>1. e.kind \in LedgerKinds /\ ~Has(e.kind, e.id) /\ e.time = when
    BY DEF LedgerKinds, Fill
  <2> HIDE DEF e
  <2> QED
    BY <1>4, <1>5, <2>1, LedgerEvent
<1>7. quotes' = quotes /\ halted' = halted
  BY DEF Fill
<1> QED
  BY <1>4, <1>5, <1>6, <1>7, Together DEF BookInv, BookTypeOK

\* Closing an order or marking it for cancellation: every field but the status stays.
LEMMA SettingStatus ==
  ASSUME OrdersInv, NEW o \in Pending,
         NEW status \in {"CANCEL_PENDING", "CANCELED", "REJECTED"}, SetStatus(o, status)
  PROVE  OrdersInv' /\ DOMAIN orders' = DOMAIN orders
<1> DEFINE new == [orders[o] EXCEPT !.status = status]
<1>1. Sound(orders[o]) /\ orders[o] \in Order /\ orders[o].status \in ACTIVE
  BY DEF OrdersInv, Sound, Pending
<1>2. new \in Order
  BY <1>1 DEF Order, ACTIVE
<1>3. /\ new.symbol = orders[o].symbol /\ new.quantity = orders[o].quantity
      /\ new.filled = orders[o].filled /\ new.fees = orders[o].fees
      /\ new.fee_budget = orders[o].fee_budget /\ new.status = status
  BY <1>1 DEF Order
<1>4. orders' = [orders EXCEPT ![o] = new]
  BY DEF SetStatus
<1>5. Sound(new)
  <2> HIDE DEF new
  <2> QED
    BY <1>1, <1>2, <1>3 DEF Sound, ACTIVE
<1> QED
  <2> HIDE DEF new
  <2> QED
    BY <1>3, <1>4, <1>5, ChangingOrder

\* A cancel request or its confirmation (order_service.py:244-255).
LEMMA CancelKeeps ==
  ASSUME BookInv, NEW o \in DOMAIN orders, NEW when \in Times,
         RequestCancel(o, when) \/ ConfirmCancel(o, when)
  PROVE  BookInv'
<1> PICK kind \in {"ORDER_CANCEL_REQUESTED", "ORDER_CANCELED"},
         status \in {"CANCEL_PENDING", "CANCELED"} : CancelWith(kind, status, o, when)
  BY DEF RequestCancel, ConfirmCancel
<1> DEFINE e == [kind |-> kind, id |-> o, time |-> when]
<1>1. OrdersInv /\ o \in Pending /\ o \in OrderIds
  BY OrdersInvParts DEF BookInv, BookTypeOK, CancelWith, CancelAllowed
<1>2. OrdersInv' /\ DOMAIN orders' = DOMAIN orders
  BY <1>1, SettingStatus DEF CancelWith
<1>3. e \in Event /\ Record(e) /\ reconciled' = FALSE /\ FinancialTime(when)
  BY <1>1 DEF Event, CancelWith, CancelAllowed
<1>4. /\ journal' \in Seq(Event) /\ OrdersJournalled' /\ LedgerInOrder'
      /\ AppliedOnce' /\ ReconciledIsCurrent'
  <2>1. e.kind \in LedgerKinds /\ ~Has(e.kind, e.id) /\ e.time = when
    BY DEF LedgerKinds, CancelWith
  <2> HIDE DEF e
  <2> QED
    BY <1>2, <1>3, <2>1, LedgerEvent
<1>5. quotes' = quotes /\ halted' = halted
  BY DEF CancelWith
<1> QED
  BY <1>2, <1>3, <1>4, <1>5, Together DEF BookInv, BookTypeOK

\* A rejection by the venue or the caller (order_service.py:263-274).
LEMMA RejectKeeps ==
  ASSUME BookInv, NEW o \in DOMAIN orders, NEW reason \in Reasons, NEW when \in Times,
         Reject(o, reason, when)
  PROVE  BookInv'
<1> DEFINE e == [kind |-> "ORDER_REJECTED", id |-> o, reason |-> reason, time |-> when]
<1>1. OrdersInv /\ o \in Pending /\ o \in OrderIds
  BY OrdersInvParts DEF BookInv, BookTypeOK, Reject, RejectAllowed
<1>2. OrdersInv' /\ DOMAIN orders' = DOMAIN orders
  BY <1>1, SettingStatus DEF Reject
<1>3. e \in Event /\ Record(e) /\ reconciled' = FALSE /\ FinancialTime(when)
  BY <1>1 DEF Event, Reject, RejectAllowed
<1>4. /\ journal' \in Seq(Event) /\ OrdersJournalled' /\ LedgerInOrder'
      /\ AppliedOnce' /\ ReconciledIsCurrent'
  <2>1. e.kind \in LedgerKinds /\ ~Has(e.kind, e.id) /\ e.time = when
    BY DEF LedgerKinds, Reject
  <2> HIDE DEF e
  <2> QED
    BY <1>2, <1>3, <2>1, LedgerEvent
<1>5. quotes' = quotes /\ halted' = halted
  BY DEF Reject
<1> QED
  BY <1>2, <1>3, <1>4, <1>5, Together DEF BookInv, BookTypeOK

\* What a step that leaves the orders alone does to the orders' part.
LEMMA SameOrders ==
  ASSUME BookInv, UNCHANGED orders
  PROVE  OrdersInv'
<1>1. OrdersInv
  BY OrdersInvParts DEF BookInv
<1> QED
  BY <1>1 DEF OrdersInv, OneOrderPerSymbol, Pending, OrdersRequested, Sound

\* A step that touches neither the journal nor the orders nor the flags.
LEMMA SameBook ==
  ASSUME BookInv, UNCHANGED <<journal, orders, halted, reconciled>>,
         quotes' \in [Symbols -> [price : Nat, time : Nat]]
  PROVE  BookInv'
<1>1. OrdersInv'
  BY SameOrders
<1>2. /\ journal' \in Seq(Event) /\ OrdersJournalled' /\ LedgerInOrder'
      /\ AppliedOnce' /\ ReconciledIsCurrent'
  BY DEF BookInv, BookTypeOK, OrdersJournalled, Has, LedgerInOrder, AppliedOnce,
         ReconciledIsCurrent, MatchIsCurrent
<1> QED
  BY <1>1, <1>2, Together DEF BookInv, BookTypeOK

\* A published quote (order_service.py:138-146).
LEMMA QuoteKeeps ==
  ASSUME BookInv, NEW q \in Quotes, Quote(q)
  PROVE  BookInv'
<1>1. q.symbol \in Symbols /\ q.price \in Nat /\ q.time \in Nat
  BY MoneyAssumption, TimesAssumption
<1>2. quotes' \in [Symbols -> [price : Nat, time : Nat]]
  BY <1>1 DEF Quote, BookInv, BookTypeOK
<1> QED
  BY <1>2, SameBook DEF Quote

\* A corporate action rewrites lots, positions, cash and the quote, not the
\* orders: there is none outstanding for the symbol (order_service.py:290-305).
LEMMA CorporateActionKeeps ==
  ASSUME BookInv, NEW id \in ActionIds, NEW a \in Entitlements, NEW when \in Times,
         CorporateAction(id, a, when)
  PROVE  BookInv'
<1> DEFINE e == [kind |-> "CORPORATE_ACTION", id |-> id, action |-> a, time |-> when]
<1>1. OrdersInv'
  BY SameOrders DEF CorporateAction
<1>2. e \in Event /\ Record(e) /\ reconciled' = FALSE /\ FinancialTime(when)
  BY DEF Event, CorporateAction
<1>3. /\ journal' \in Seq(Event) /\ OrdersJournalled' /\ LedgerInOrder'
      /\ AppliedOnce' /\ ReconciledIsCurrent'
  <2>1. e.kind \in LedgerKinds /\ ~Has(e.kind, e.id) /\ e.time = when
    BY DEF LedgerKinds, CorporateAction
  <2>2. orders' = orders
    BY DEF CorporateAction
  <2> HIDE DEF e
  <2> QED
    BY <1>2, <2>1, <2>2, LedgerEvent
<1>4. quotes' \in [Symbols -> [price : Nat, time : Nat]]
  BY EntitlementAssumption DEF CorporateAction, NoQuote, BookInv, BookTypeOK
<1>5. halted' \in BOOLEAN
  BY DEF CorporateAction, BookInv, BookTypeOK
<1> QED
  BY <1>1, <1>2, <1>3, <1>4, <1>5, Together

\* An event that is not the ledger's: a halt, a reconciliation, a resumption.
LEMMA ControlEvent ==
  ASSUME BookInv, NEW e \in Event, Record(e), UNCHANGED <<orders, quotes>>,
         e.kind \notin LedgerKinds,
         e.kind = "HALT" \/ FinancialTime(e.time),
         e.kind = "HALT" => ~Has("HALT", e.id) \/ e.id = NoReport,
         halted' \in BOOLEAN, reconciled' \in BOOLEAN, ReconciledIsCurrent'
  PROVE  BookInv'
<1>0. journal \in Seq(Event)
  BY DEF BookInv, BookTypeOK
<1>1. OrdersInv' /\ quotes' \in [Symbols -> [price : Nat, time : Nat]]
  BY SameOrders DEF BookInv, BookTypeOK
<1>2. journal' \in Seq(Event)
  BY <1>0, Appending
<1>3. OrdersJournalled'
  BY <1>0, AppendingKeepsHas DEF BookInv, OrdersJournalled
<1>4. LedgerInOrder'
  BY <1>0, AppendingInOrder DEF BookInv
<1>5. AppliedOnce'
  BY <1>0, AppendingOnce DEF BookInv
<1> QED
  BY <1>1, <1>2, <1>3, <1>4, <1>5, Together

\* A halt, an operator's or an incident's (order_service.py:307-309).
LEMMA HaltKeeps ==
  ASSUME BookInv, NEW report \in ReportIds \cup {NoReport}, NEW when \in Times,
         Halt(report, when)
  PROVE  BookInv'
<1> DEFINE e == [kind |-> "HALT", id |-> report, time |-> when]
<1>1. e \in Event /\ Record(e) /\ UNCHANGED <<orders, quotes>>
  BY DEF Event, Halt, ledger
<1>2. e.kind = "HALT" /\ (~Has("HALT", e.id) \/ e.id = NoReport) /\ "HALT" \notin LedgerKinds
  BY DEF Halt, LedgerKinds
<1>3. halted' = TRUE /\ reconciled' = FALSE /\ ReconciledIsCurrent'
  BY DEF Halt, ReconciledIsCurrent
<1> HIDE DEF e
<1> QED
  BY <1>1, <1>2, <1>3, ControlEvent

\* A health check, which halts an unhealthy account (order_service.py:339-348).
LEMMA MonitorKeeps ==
  ASSUME BookInv, NEW when \in Times, Monitor(when)
  PROVE  BookInv'
<1>1. CASE Healthy(when)
  BY <1>1, SameBook DEF Monitor, ledger, BookInv, BookTypeOK
<1>2. CASE ~Healthy(when)
  <2> DEFINE e == [kind |-> "HALT", id |-> NoReport, time |-> when]
  <2>1. e \in Event /\ Record(e) /\ UNCHANGED <<orders, quotes>>
    BY <1>2 DEF Event, Monitor, ledger
  <2>2. e.kind = "HALT" /\ e.id = NoReport /\ "HALT" \notin LedgerKinds
    BY DEF LedgerKinds
  <2>3. halted' = TRUE /\ reconciled' = FALSE /\ ReconciledIsCurrent'
    BY <1>2 DEF Monitor, ReconciledIsCurrent
  <2> HIDE DEF e
  <2> QED
    BY <2>1, <2>2, <2>3, ControlEvent
<1> QED
  BY <1>1, <1>2

\* A reconciliation: the match it records is the current one (order_service.py:276-288).
LEMMA ReconcileKeeps ==
  ASSUME BookInv, NEW matched \in BOOLEAN, NEW when \in Times, Reconcile(matched, when)
  PROVE  BookInv'
<1> DEFINE e == [kind |-> "RECONCILIATION", matched |-> matched, time |-> when]
<1>1. e \in Event /\ Record(e) /\ UNCHANGED <<orders, quotes>> /\ FinancialTime(when)
  BY DEF Event, Reconcile, ledger
<1>2. e.kind = "RECONCILIATION" /\ e.matched = matched /\ e.time = when
      /\ "RECONCILIATION" \notin LedgerKinds
  BY DEF LedgerKinds
<1>3. halted' \in BOOLEAN /\ reconciled' = matched
  BY DEF Reconcile, BookInv, BookTypeOK
<1>4. ReconciledIsCurrent'
  <2>1. journal \in Seq(Event)
    BY DEF BookInv, BookTypeOK
  <2> SUFFICES ASSUME matched PROVE MatchIsCurrent'
    BY <1>3 DEF ReconciledIsCurrent
  <2> HIDE DEF e
  <2>2. \A j \in DOMAIN journal' : ~(j > Len(journal) + 1)
    BY <1>1, <2>1, Appending
  <2> QED
    BY <1>1, <1>2, <2>1, <2>2, Appending DEF MatchIsCurrent
<1> HIDE DEF e
<1> QED
  BY <1>1, <1>2, <1>3, <1>4, ControlEvent

\* A resumption keeps the credential it used (order_service.py:311-320).
LEMMA ResumeKeeps ==
  ASSUME BookInv, NEW when \in Times, Resume(when)
  PROVE  BookInv'
<1> DEFINE e == [kind |-> "RESUMED", time |-> when]
<1>1. e \in Event /\ Record(e) /\ UNCHANGED <<orders, quotes>> /\ FinancialTime(when)
  BY TimesAssumption DEF Event, Resume, ledger
<1>2. e.kind = "RESUMED" /\ e.time = when /\ "RESUMED" \notin LedgerKinds \cup {"HALT"}
  BY DEF LedgerKinds
<1>3. halted' = FALSE /\ reconciled' = reconciled /\ reconciled \in BOOLEAN
  BY DEF Resume, BookInv, BookTypeOK
<1>4. ReconciledIsCurrent'
  <2>1. journal \in Seq(Event) /\ MatchIsCurrent
    BY DEF BookInv, BookTypeOK, ReconciledIsCurrent, Resume
  <2> HIDE DEF e
  <2> QED
    BY <1>1, <1>2, <2>1, AppendingKeepsMatch DEF ReconciledIsCurrent
<1> HIDE DEF e
<1> QED
  BY <1>1, <1>2, <1>3, <1>4, ControlEvent

-----------------------------------------------------------------------------
(* The theorems. *)

\* A newly opened account satisfies the invariant.
LEMMA BookInit ==
  ASSUME Init
  PROVE  BookInv
<1> DEFINE e == [kind |-> "ACCOUNT_OPENED", time |-> 0]
<1>1. e \in Event /\ journal = <<e>>
  BY DEF Event, Init
<1>2. DOMAIN orders = {} /\ Pending = {}
  BY DEF Init, Pending
<1>3. BookTypeOK
  <2>1. journal \in Seq(Event)
    BY <1>1
  <2>2. quotes \in [Symbols -> [price : Nat, time : Nat]]
    BY DEF Init, NoQuote
  <2>3. halted \in BOOLEAN /\ reconciled \in BOOLEAN
    BY DEF Init
  <2> QED
    BY <1>2, <2>1, <2>2, <2>3 DEF BookTypeOK
<1>4. OneOrderPerSymbol /\ OrderAccounting /\ OrdersJournalled /\ OrdersRequested
  BY <1>2 DEF OneOrderPerSymbol, OrderAccounting, OrdersJournalled, OrdersRequested
<1>5. DOMAIN journal = {1}
  BY <1>1
<1>6. LedgerInOrder /\ AppliedOnce
  BY <1>5 DEF LedgerInOrder, AppliedOnce
<1>7. ReconciledIsCurrent
  BY DEF Init, ReconciledIsCurrent
<1> QED
  BY <1>3, <1>4, <1>6, <1>7 DEF BookInv

\* Every operation of the service, and a stutter, keeps the invariant.
LEMMA BookNext ==
  ASSUME BookInv, [Next]_vars
  PROVE  BookInv'
<1>1. CASE \E q \in Quotes : Quote(q)
  BY <1>1, QuoteKeeps
<1>2. ASSUME NEW when \in Times, Trade(when)
      PROVE  BookInv'
  BY <1>2, SubmitKeeps, FillKeeps, CancelKeeps, RejectKeeps, CorporateActionKeeps DEF Trade
<1>3. ASSUME NEW when \in Times, Control(when)
      PROVE  BookInv'
  BY <1>3, HaltKeeps, MonitorKeeps, ReconcileKeeps, ResumeKeeps DEF Control
<1>4. CASE UNCHANGED vars
  BY <1>4, SameBook DEF vars, BookInv, BookTypeOK
<1> QED
  BY <1>1, <1>2, <1>3, <1>4 DEF Next

\* The inductive invariant holds in every reachable state.
THEOREM BookInvariant == Spec => []BookInv
<1>1. Init => BookInv
  BY BookInit
<1>2. BookInv /\ [Next]_vars => BookInv'
  BY BookNext
<1> QED
  BY <1>1, <1>2, PTL DEF Spec

\* Type correctness: whatever callers and reports ask for, the projection holds
\* well-formed orders, events and quotes (project, order_service.py:52-105).
THEOREM BookTyped == Spec => []BookTypeOK
<1>1. BookInv => BookTypeOK
  BY DEF BookInv
<1> QED
  BY <1>1, BookInvariant, PTL

\* There are never two active orders for one symbol (order_service.py:181).
THEOREM OneOrderEach == Spec => []OneOrderPerSymbol
<1>1. BookInv => OneOrderPerSymbol
  BY DEF BookInv
<1> QED
  BY <1>1, BookInvariant, PTL

\* No sequence of fills and cancels overfills an order, overspends its fee budget
\* or leaves a complete order open (order_service.py:61-72).
THEOREM OrdersBalance == Spec => []OrderAccounting
<1>1. BookInv => OrderAccounting
  BY DEF BookInv
<1> QED
  BY <1>1, BookInvariant, PTL

\* The financial journal is ordered by time, halts excepted (order_service.py:131-136).
THEOREM LedgerOrdered == Spec => []LedgerInOrder
<1>1. BookInv => LedgerInOrder
  BY DEF BookInv
<1> QED
  BY <1>1, BookInvariant, PTL

\* Retried calls and redelivered reports are journalled once (event_store.py:90-94).
THEOREM EachAppliedOnce == Spec => []AppliedOnce
<1>1. BookInv => AppliedOnce
  BY DEF BookInv
<1> QED
  BY <1>1, BookInvariant, PTL

\* The reconciled flag is up only while the latest match still describes the
\* ledger (order_service.py:87-104).
THEOREM CredentialIsCurrent == Spec => []ReconciledIsCurrent
<1>1. BookInv => ReconciledIsCurrent
  BY DEF BookInv
<1> QED
  BY <1>1, BookInvariant, PTL

\* No operation but a resumption on a current match lifts a halt (order_service.py:311-320).
THEOREM HaltsLiftOnMatch == Spec => HaltLiftsOnlyAfterMatch
<1>1. BookInv /\ [Next]_vars => [halted /\ ~halted' => MatchIsCurrent]_vars
  <2> SUFFICES ASSUME BookInv, Next, halted, ~halted'
               PROVE  MatchIsCurrent
    OBVIOUS
  <2>1. CASE \E q \in Quotes : Quote(q)
    BY <2>1 DEF Quote
  <2>2. ASSUME NEW when \in Times, Trade(when)
        PROVE  FALSE
    BY <2>2 DEF Trade, Submit, Fill, RequestCancel, ConfirmCancel, CancelWith, Reject,
                CorporateAction
  <2>3. ASSUME NEW when \in Times, Control(when)
        PROVE  MatchIsCurrent
    <3>1. CASE Resume(when)
      BY <3>1 DEF Resume, BookInv, ReconciledIsCurrent
    <3>2. CASE Halt(NoReport, when)
      BY <3>2 DEF Halt
    <3>3. CASE Monitor(when)
      BY <3>3 DEF Monitor
    <3>4. CASE \E matched \in BOOLEAN : Reconcile(matched, when)
      BY <3>4 DEF Reconcile
    <3> QED
      BY <2>3, <3>1, <3>2, <3>3, <3>4 DEF Control
  <2> QED
    BY <2>1, <2>2, <2>3 DEF Next
<1> QED
  BY <1>1, BookInvariant, PTL DEF Spec, HaltLiftsOnlyAfterMatch

-----------------------------------------------------------------------------
(* The lots. *)

Lot == [symbol : Symbols, quantity : Nat, session : Nat, settlement_days : Nat]

SizesOf(ls) == [i \in DOMAIN ls |-> ls[i].quantity]

OfSymbol(ls, s) == {i \in DOMAIN ls : ls[i].symbol = s}
SettledIn(ls, s, t) == {i \in DOMAIN ls : Settled(ls[i], s, t)}
Shares(ls, indices) == SumFunctionOnSet(SizesOf(ls), indices)

\* A lot that gives some of its shares is a lot of the same purchase.
LEMMA Giving ==
  ASSUME NEW lot \in Lot, NEW n \in Nat
  PROVE  /\ [lot EXCEPT !.quantity = n] \in Lot
         /\ [lot EXCEPT !.quantity = n].quantity = n
         /\ [lot EXCEPT !.quantity = n].symbol = lot.symbol
         /\ [lot EXCEPT !.quantity = n].session = lot.session
         /\ [lot EXCEPT !.quantity = n].settlement_days = lot.settlement_days
BY DEF Lot

\* The sizes of lots are naturals, and so are the totals of any of them.
LEMMA Sizes ==
  ASSUME NEW ls \in Seq(Lot)
  PROVE  /\ DOMAIN ls = 1..Len(ls) /\ Len(ls) \in Nat /\ IsFiniteSet(DOMAIN ls)
         /\ \A i \in DOMAIN ls : ls[i] \in Lot /\ SizesOf(ls)[i] = ls[i].quantity /\ SizesOf(ls)[i] \in Nat
         /\ \A T \in SUBSET DOMAIN ls : IsFiniteSet(T) /\ SumFunctionOnSet(SizesOf(ls), T) \in Nat
<1>1. DOMAIN ls = 1..Len(ls) /\ Len(ls) \in Nat
  OBVIOUS
<1>2. IsFiniteSet(DOMAIN ls)
  BY <1>1, FS_Interval
<1>3. \A i \in DOMAIN ls : ls[i] \in Lot /\ SizesOf(ls)[i] = ls[i].quantity /\ SizesOf(ls)[i] \in Nat
  <2> SUFFICES ASSUME NEW i \in DOMAIN ls
               PROVE  ls[i] \in Lot /\ SizesOf(ls)[i] = ls[i].quantity /\ SizesOf(ls)[i] \in Nat
    OBVIOUS
  <2>1. ls[i] \in Lot
    OBVIOUS
  <2>2. SizesOf(ls)[i] = ls[i].quantity
    BY DEF SizesOf
  <2>3. ls[i].quantity \in Nat
    BY <2>1 DEF Lot
  <2> QED
    BY <2>1, <2>2, <2>3
<1>4. \A T \in SUBSET DOMAIN ls : IsFiniteSet(T)
  BY <1>2, FS_Subset
<1>5. \A T \in SUBSET DOMAIN ls : SumFunctionOnSet(SizesOf(ls), T) \in Nat
  BY <1>2, <1>3, SumNat
<1> QED
  BY <1>1, <1>2, <1>3, <1>4, <1>5

\* A sale of settled shares takes exactly its quantity out of the settled lots
\* (the loop of project, order_service.py:81-86, does not run out of lots).
LEMMA Selling ==
  ASSUME lots \in Seq(Lot), NEW s \in Symbols, NEW q \in Nat, NEW when \in Times,
         q <= Available(s, when), NEW after, after = SellLots(s, q, when)
  PROVE  /\ after \in Seq(Lot) /\ DOMAIN after = DOMAIN lots
         /\ \A i \in DOMAIN lots :
              /\ after[i].symbol = lots[i].symbol /\ after[i].session = lots[i].session
              /\ after[i].settlement_days = lots[i].settlement_days
         /\ \A T \in SUBSET DOMAIN lots :
              /\ SettledIn(lots, s, when) \subseteq T => SumFunctionOnSet(SizesOf(after), T) = SharesIn(T) - q
              /\ T \subseteq SettledIn(lots, s, when) => SumFunctionOnSet(SizesOf(after), T) >= SharesIn(T) - q
              /\ T \cap SettledIn(lots, s, when) = {} => SumFunctionOnSet(SizesOf(after), T) = SharesIn(T)
<1> DEFINE A == SettledIn(lots, s, when)
           n == Len(lots)
           f == SizesOf(lots)
           before(i) == {j \in 1..(i-1) : j \in A}
           d == [i \in DOMAIN lots |->
                   IF i \in A THEN Min({f[i], Max({0, q - SumFunctionOnSet(f, before(i))})}) ELSE 0]
           g == SizesOf(after)
<1>1. /\ DOMAIN lots = 1..n /\ n \in Nat /\ IsFiniteSet(DOMAIN lots)
      /\ \A i \in 1..n : lots[i] \in Lot /\ f[i] = lots[i].quantity /\ f[i] \in Nat
  BY Sizes
<1>2. \A T : SharesIn(T) = SumFunctionOnSet(f, T)
  BY DEF SharesIn, SizesOf
<1>3. A \in SUBSET (1..n) /\ q <= SumFunctionOnSet(f, A)
  BY <1>1, <1>2 DEF Available, SettledIn
<1>4. \A i \in 1..n : d[i] = IF i \in A
                             THEN Min({f[i], Max({0, q - SumFunctionOnSet(f, {j \in 1..(i-1) : j \in A})})})
                             ELSE 0
  BY <1>1
<1> HIDE DEF f, d
<1>5. /\ \A i \in 1..n : d[i] \in Nat /\ d[i] <= f[i] /\ (i \notin A => d[i] = 0)
      /\ SumFunctionOnSet(d, A) = q
  <2> DEFINE b == [i \in 1..n |-> before(i)]
  <2>1. n \in Nat /\ \A i \in 1..n : f[i] \in Nat
    BY <1>1
  <2>2. A \in SUBSET (1..n) /\ q <= SumFunctionOnSet(f, A) /\ q \in Nat
    BY <1>3
  <2>3. \A i \in 1..n : b[i] = {j \in 1..(i-1) : j \in A}
    OBVIOUS
  <2>4. \A i \in 1..n : d[i] = IF i \in A
                               THEN Min({f[i], Max({0, q - SumFunctionOnSet(f, b[i])})}) ELSE 0
    BY <1>4, <2>3
  <2>5. Draws(n, f, A, q, b, d)
    <3> HIDE DEF n, b
    <3> QED
      BY <2>1, <2>2, <2>3, <2>4 DEF Draws
  <2> HIDE DEF n, b
  <2> QED
    BY <2>5, Drawing
<1>6. DOMAIN after = 1..n /\ \A i \in 1..n :
        after[i] = IF i \in A THEN [lots[i] EXCEPT !.quantity = f[i] - d[i]] ELSE lots[i]
  <2>1. DOMAIN after = 1..n /\ \A i \in 1..n :
          after[i] = IF Settled(lots[i], s, when)
                     THEN [lots[i] EXCEPT !.quantity = lots[i].quantity -
                             Min({lots[i].quantity,
                                  Max({0, q - SharesIn({j \in 1..(i-1) : Settled(lots[j], s, when)})})})]
                     ELSE lots[i]
    BY <1>1 DEF SellLots
  <2> SUFFICES ASSUME NEW i \in 1..n
               PROVE  after[i] = IF i \in A THEN [lots[i] EXCEPT !.quantity = f[i] - d[i]] ELSE lots[i]
    BY <2>1
  <2>2. i \in A <=> Settled(lots[i], s, when)
    BY <1>1 DEF SettledIn
  <2>3. {j \in 1..(i-1) : Settled(lots[j], s, when)} = {j \in 1..(i-1) : j \in A}
    BY <1>1 DEF SettledIn
  <2>4. i \in A => lots[i].quantity -
                     Min({lots[i].quantity,
                          Max({0, q - SharesIn({j \in 1..(i-1) : Settled(lots[j], s, when)})})})
                   = f[i] - d[i]
    BY <1>1, <1>2, <1>4, <2>3
  <2> QED
    BY <2>1, <2>2, <2>4
<1>7. \A i \in 1..n : /\ after[i] \in Lot /\ after[i].quantity = f[i] - d[i]
                      /\ after[i].symbol = lots[i].symbol /\ after[i].session = lots[i].session
                      /\ after[i].settlement_days = lots[i].settlement_days
  <2> SUFFICES ASSUME NEW i \in 1..n
               PROVE  /\ after[i] \in Lot /\ after[i].quantity = f[i] - d[i]
                      /\ after[i].symbol = lots[i].symbol /\ after[i].session = lots[i].session
                      /\ after[i].settlement_days = lots[i].settlement_days
    OBVIOUS
  <2>1. lots[i] \in Lot /\ f[i] = lots[i].quantity /\ f[i] \in Nat /\ d[i] \in Nat /\ d[i] <= f[i]
        /\ (i \notin A => d[i] = 0)
    BY <1>1, <1>5
  <2>2. f[i] - d[i] \in Nat
    BY <2>1
  <2>3. CASE i \in A
    <3>1. after[i] = [lots[i] EXCEPT !.quantity = f[i] - d[i]]
      BY <1>6, <2>3
    <3> QED
      BY <2>1, <2>2, <3>1, Giving
  <2>4. CASE i \notin A
    <3>1. after[i] = lots[i] /\ f[i] - d[i] = f[i]
      BY <1>6, <2>1, <2>4
    <3> QED
      BY <2>1, <3>1
  <2> QED
    BY <2>3, <2>4
<1>8. after \in Seq(Lot)
  <2>1. after = [i \in 1..n |-> after[i]]
    BY <1>1 DEF SellLots
  <2>2. after \in [1..n -> Lot]
    BY <1>7, <2>1
  <2> QED
    BY <1>1, <2>2
<1>9. \A i \in 1..n : g[i] = f[i] - d[i]
  BY <1>6, <1>7 DEF SizesOf
<1> HIDE DEF g
<1>10. ASSUME NEW T \in SUBSET DOMAIN lots
       PROVE  /\ A \subseteq T => SumFunctionOnSet(g, T) = SharesIn(T) - q
              /\ T \subseteq A => SumFunctionOnSet(g, T) >= SharesIn(T) - q
              /\ T \cap A = {} => SumFunctionOnSet(g, T) = SharesIn(T)
  <2>1. T \in SUBSET (1..n) /\ IsFiniteSet(T) /\ IsFiniteSet(A)
    BY <1>1, <1>3, FS_Subset
  <2>2. SumFunctionOnSet(g, T) = SumFunctionOnSet(f, T) - SumFunctionOnSet(d, T)
    <3>1. \A i \in T : f[i] \in Int /\ d[i] \in Int /\ g[i] = f[i] - d[i]
      BY <1>1, <1>5, <1>9, <2>1
    <3> QED
      BY <2>1, <3>1, SumLess
  <2>3. SumFunctionOnSet(f, T) \in Nat /\ SumFunctionOnSet(d, T) \in Nat
    <3>1. \A i \in T : f[i] \in Nat /\ d[i] \in Nat
      BY <1>1, <1>5, <2>1
    <3> QED
      BY <2>1, <3>1, SumNat
  <2>4. SumFunctionOnSet(d, T) = SumFunctionOnSet(d, T \cap A) + SumFunctionOnSet(d, T \ A)
    <3>1. \A i \in T : d[i] \in Int
      BY <1>5, <2>1
    <3>2. T \ (T \cap A) = T \ A /\ T \cap A \in SUBSET T
      OBVIOUS
    <3> QED
      BY <2>1, <3>1, <3>2, SumSplit
  <2>5. SumFunctionOnSet(d, T \ A) = 0
    <3> DEFINE zero == [i \in 1..n |-> 0]
               U == T \ A
    <3>1. IsFiniteSet(U) /\ \A i \in U : d[i] = 0
      BY <1>5, <2>1, FS_Subset
    <3>2. SumFunctionOnSet(d, U) <= 0 /\ SumFunctionOnSet(d, U) >= 0
      <4>1. SumFunctionOnSet(d, U) \in Nat
        <5>1. \A i \in U : d[i] \in Nat
          BY <3>1
        <5> HIDE DEF U
        <5> QED
          BY <3>1, <5>1, SumNat
      <4>2. SumFunctionOnSet(d, U) * 0 = SumFunctionOnSet(d, U) * 1
        <5>1. \A i \in U : d[i] \in Int /\ d[i] * 0 = d[i] * 1
          BY <3>1
        <5> HIDE DEF U
        <5> QED
          BY <3>1, <5>1, SumScaled
      <4> HIDE DEF U
      <4> QED
        BY <4>1, <4>2
    <3>3. SumFunctionOnSet(d, U) \in Nat
      <4>1. \A i \in U : d[i] \in Nat
        BY <3>1
      <4> HIDE DEF U
      <4> QED
        BY <3>1, <4>1, SumNat
    <3> HIDE DEF U
    <3>4. SumFunctionOnSet(d, U) = 0
      BY <3>2, <3>3
    <3> QED
      BY <3>4 DEF U
  <2>6. SumFunctionOnSet(d, T \cap A) <= q /\ SumFunctionOnSet(d, T \cap A) \in Nat
    <3>1. T \cap A \in SUBSET A /\ \A i \in A : d[i] \in Nat
      BY <1>3, <1>5
    <3> QED
      BY <1>5, <2>1, <3>1, SumPart, SumNat
  <2>7. SumFunctionOnSet(g, T) = SharesIn(T) - SumFunctionOnSet(d, T \cap A) /\ SharesIn(T) \in Nat
    <3>1. SharesIn(T) = SumFunctionOnSet(f, T)
      BY <1>2
    <3> QED
      BY <2>2, <2>3, <2>4, <2>5, <2>6, <3>1
  <2>8. A \subseteq T => SumFunctionOnSet(d, T \cap A) = q
    <3>1. A \subseteq T => T \cap A = A
      OBVIOUS
    <3> QED
      BY <1>5, <3>1
  <2>9. T \cap A = {} => SumFunctionOnSet(d, T \cap A) = 0
    BY SumEmpty
  <2> QED
    BY <2>6, <2>7, <2>8, <2>9
<1> QED
  BY <1>1, <1>6, <1>7, <1>8, <1>10 DEF g
\* Totals of lots are naturals, and the total of some of them is within that of more.
LEMMA SharesNat ==
  ASSUME NEW ls \in Seq(Lot), NEW T \in SUBSET DOMAIN ls
  PROVE  Shares(ls, T) \in Nat /\ \A P \in SUBSET T : Shares(ls, P) <= Shares(ls, T)
<1> DEFINE f == SizesOf(ls)
<1>1. IsFiniteSet(T) /\ SumFunctionOnSet(f, T) \in Nat /\ \A i \in T : f[i] \in Nat
  BY Sizes
<1> HIDE DEF f
<1>2. \A P \in SUBSET T : SumFunctionOnSet(f, P) <= SumFunctionOnSet(f, T)
  BY <1>1, SumPart
<1> QED
  BY <1>1, <1>2 DEF f, Shares

Bought(ls, lot, after) == ls \in Seq(Lot) /\ lot \in Lot /\ after = Append(ls, lot)

\* A purchase adds its shares to the lots of its symbol and unsettles none.
LEMMA BuyingLots ==
  ASSUME NEW ls, NEW lot, NEW after, Bought(ls, lot, after)
  PROVE  /\ after \in Seq(Lot)
         /\ \A s : Shares(after, OfSymbol(after, s)) =
                   Shares(ls, OfSymbol(ls, s)) + IF lot.symbol = s THEN lot.quantity ELSE 0
         /\ \A s, t : Shares(after, SettledIn(after, s, t)) >= Shares(ls, SettledIn(ls, s, t))
<1> USE DEF Bought
<1> DEFINE n == Len(ls)
           f == SizesOf(ls)
           g == SizesOf(after)
<1>1. /\ DOMAIN ls = 1..n /\ n \in Nat /\ IsFiniteSet(DOMAIN ls)
      /\ \A i \in 1..n : f[i] = ls[i].quantity /\ f[i] \in Nat
  BY Sizes
<1>2. /\ after \in Seq(Lot) /\ DOMAIN after = 1..(n+1) /\ after[n+1] = lot
      /\ \A i \in 1..n : after[i] = ls[i]
  BY <1>1
<1>3. /\ IsFiniteSet(DOMAIN after)
      /\ \A i \in 1..(n+1) : g[i] = after[i].quantity /\ g[i] \in Nat
  BY <1>2, Sizes
<1>4. \A i \in 1..n : g[i] = f[i]
  BY <1>1, <1>2, <1>3
<1>5. g[n+1] = lot.quantity /\ lot.quantity \in Nat
  BY <1>2, <1>3, <1>1
<1> HIDE DEF f, g
<1>6. ASSUME NEW P \in SUBSET (1..n)
      PROVE  /\ SumFunctionOnSet(g, P) = SumFunctionOnSet(f, P) /\ SumFunctionOnSet(f, P) \in Nat
             /\ SumFunctionOnSet(g, P \union {n+1}) = SumFunctionOnSet(f, P) + lot.quantity
  <2>0. IsFiniteSet(P)
    BY <1>1, FS_Subset
  <2>1. IsFiniteSet(P) /\ \A i \in P : f[i] \in Nat /\ f[i] \in Int /\ g[i] = f[i] /\ g[i] \in Int
    BY <1>1, <1>4, <2>0
  <2>2. SumFunctionOnSet(g, P) = SumFunctionOnSet(f, P)
    BY <2>1, SumSame
  <2>3. SumFunctionOnSet(f, P) \in Nat
    BY <2>1, SumNat
  <2>4. n+1 \notin P /\ g[n+1] \in Int
    BY <1>1, <1>5
  <2> DEFINE x == n+1
  <2>5. SumFunctionOnSet(g, P \union {x}) = g[x] + SumFunctionOnSet(g, P)
    <3> HIDE DEF x
    <3> QED
      BY <2>1, <2>4, SumWith DEF x
  <2> QED
    BY <2>2, <2>3, <2>5, <1>5
<1>7. ASSUME NEW s
      PROVE  Shares(after, OfSymbol(after, s)) =
               Shares(ls, OfSymbol(ls, s)) + IF lot.symbol = s THEN lot.quantity ELSE 0
  <2> DEFINE P == OfSymbol(ls, s)
  <2>1. P \in SUBSET (1..n)
    BY <1>1 DEF OfSymbol
  <2>2. OfSymbol(after, s) = IF lot.symbol = s THEN P \union {n+1} ELSE P
    <3>1. \A i \in 1..(n+1) : i \in 1..n \/ i = n+1
      BY <1>1
    <3>2. n+1 \in DOMAIN after /\ 1..n \subseteq DOMAIN after /\ n+1 \notin P
      BY <1>1, <1>2, <2>1
    <3>3. \A i \in DOMAIN after : i \in OfSymbol(after, s) <=> i \in P \/ (i = n+1 /\ lot.symbol = s)
      BY <1>1, <1>2, <3>1, <3>2 DEF OfSymbol
    <3>4. OfSymbol(after, s) \subseteq DOMAIN after /\ P \subseteq DOMAIN after
      BY <2>1, <3>2 DEF OfSymbol
    <3> HIDE DEF P, n
    <3> QED
      BY <3>2, <3>3, <3>4
  <2>3. Shares(ls, P) \in Nat
    BY <1>6, <2>1 DEF Shares, f
  <2>4. Shares(after, OfSymbol(after, s)) =
          IF lot.symbol = s THEN Shares(ls, P) + lot.quantity ELSE Shares(ls, P)
    <3> HIDE DEF P
    <3> QED
      BY <1>6, <2>1, <2>2 DEF Shares, f, g
  <2> HIDE DEF P
  <2>5. Shares(after, OfSymbol(after, s)) = Shares(ls, P) + IF lot.symbol = s THEN lot.quantity ELSE 0
    BY <1>5, <2>3, <2>4
  <2> QED
    BY <2>5 DEF P
<1>8. ASSUME NEW s, NEW t
      PROVE  Shares(after, SettledIn(after, s, t)) >= Shares(ls, SettledIn(ls, s, t))
  <2> DEFINE P == SettledIn(ls, s, t)
             R == SettledIn(after, s, t)
  <2>1. P \in SUBSET (1..n) /\ P \in SUBSET R /\ R \in SUBSET DOMAIN after
    BY <1>1, <1>2 DEF SettledIn
  <2> HIDE DEF P, R
  <2>2. Shares(after, P) <= Shares(after, R) /\ Shares(after, R) \in Nat
    BY <1>2, <2>1, SharesNat
  <2>3. Shares(after, P) = Shares(ls, P) /\ Shares(ls, P) \in Nat
    BY <1>6, <2>1 DEF Shares, f, g
  <2> QED
    BY <2>2, <2>3 DEF P, R
<1> QED
  BY <1>2, <1>7, <1>8

\* The views of the account are totals of its lots.
LEMMA Views ==
  /\ \A T : SharesIn(T) = Shares(lots, T)
  /\ \A s, t : Available(s, t) = Shares(lots, SettledIn(lots, s, t))
BY DEF SharesIn, Shares, SizesOf, Available, SettledIn

\* A sale of settled shares takes them from the lots of its symbol, and from those
\* settled at an earlier instant at most as many.
LEMMA SellingLots ==
  ASSUME lots \in Seq(Lot), NEW s \in Symbols, NEW q \in Nat, NEW when \in Times,
         q <= Available(s, when), NEW after, after = SellLots(s, q, when)
  PROVE  /\ after \in Seq(Lot)
         /\ \A x : Shares(after, OfSymbol(after, x)) =
                   Shares(lots, OfSymbol(lots, x)) - IF x = s THEN q ELSE 0
         /\ \A t \in Times : t <= when =>
              Shares(after, SettledIn(after, s, t)) >= Shares(lots, SettledIn(lots, s, t)) - q
         /\ \A x, t : x # s =>
              Shares(after, SettledIn(after, x, t)) = Shares(lots, SettledIn(lots, x, t))
<1> DEFINE A == SettledIn(lots, s, when)
<1>1. /\ after \in Seq(Lot) /\ DOMAIN after = DOMAIN lots
      /\ \A i \in DOMAIN lots :
           /\ after[i].symbol = lots[i].symbol /\ after[i].session = lots[i].session
           /\ after[i].settlement_days = lots[i].settlement_days
  BY Selling, ZenonT(120)
<1>2. \A T \in SUBSET DOMAIN lots :
        /\ A \subseteq T => Shares(after, T) = Shares(lots, T) - q
        /\ T \subseteq A => Shares(after, T) >= Shares(lots, T) - q
        /\ T \cap A = {} => Shares(after, T) = Shares(lots, T)
  <2>1. \A T : SharesIn(T) = Shares(lots, T) /\ SumFunctionOnSet(SizesOf(after), T) = Shares(after, T)
    BY Views DEF Shares
  <2> HIDE DEF A
  <2> QED
    BY <2>1, Selling DEF A
<1>3. \A x : OfSymbol(after, x) = OfSymbol(lots, x)
  BY <1>1 DEF OfSymbol
<1>4. \A x, t : SettledIn(after, x, t) = SettledIn(lots, x, t)
  BY <1>1 DEF SettledIn, Settled
<1>5. \A x : Shares(after, OfSymbol(after, x)) =
             Shares(lots, OfSymbol(lots, x)) - IF x = s THEN q ELSE 0
  <2> SUFFICES ASSUME NEW x
               PROVE  Shares(after, OfSymbol(after, x)) =
                      Shares(lots, OfSymbol(lots, x)) - IF x = s THEN q ELSE 0
    OBVIOUS
  <2> DEFINE T == OfSymbol(lots, x)
  <2>1. /\ T \in SUBSET DOMAIN lots /\ (x = s => A \subseteq T) /\ (x # s => T \cap A = {})
    BY DEF OfSymbol, SettledIn, Settled
  <2>2. Shares(lots, T) \in Nat
    BY <2>1, SharesNat
  <2> HIDE DEF T, A
  <2> QED
    BY <1>2, <1>3, <2>1, <2>2 DEF T
<1>6. ASSUME NEW t \in Times, t <= when
      PROVE  Shares(after, SettledIn(after, s, t)) >= Shares(lots, SettledIn(lots, s, t)) - q
  <2> DEFINE T == SettledIn(lots, s, t)
  <2>1. T \in SUBSET DOMAIN lots
    BY DEF SettledIn
  <2>2. T \subseteq A
    <3>1. SessionOf[t] \in Nat /\ SessionOf[when] \in Nat /\ SessionOf[t] <= SessionOf[when]
      BY <1>6, SessionAssumption
    <3>2. \A i \in DOMAIN lots : lots[i].session \in Nat
      BY Sizes DEF Lot
    <3> QED
      BY <3>1, <3>2 DEF SettledIn, Settled
  <2> HIDE DEF T, A
  <2> QED
    BY <1>2, <1>4, <2>1, <2>2 DEF T
<1>7. ASSUME NEW x, NEW t, x # s
      PROVE  Shares(after, SettledIn(after, x, t)) = Shares(lots, SettledIn(lots, x, t))
  <2> DEFINE T == SettledIn(lots, x, t)
  <2>1. T \in SUBSET DOMAIN lots /\ T \cap A = {}
    BY <1>7 DEF SettledIn, Settled
  <2> HIDE DEF T, A
  <2> QED
    BY <1>2, <1>4, <2>1 DEF T
<1> QED
  BY <1>1, <1>5, <1>6, <1>7

\* Settled shares stay settled.
LEMMA MoreSettles ==
  ASSUME lots \in Seq(Lot), NEW s, NEW t \in Times, NEW u \in Times, t <= u
  PROVE  Available(s, t) <= Available(s, u)
<1> DEFINE T == SettledIn(lots, s, t)
           U == SettledIn(lots, s, u)
<1>1. U \in SUBSET DOMAIN lots
  BY DEF SettledIn
<1>2. T \in SUBSET U
  <2>1. SessionOf[t] \in Nat /\ SessionOf[u] \in Nat /\ SessionOf[t] <= SessionOf[u]
    BY SessionAssumption
  <2>2. \A i \in DOMAIN lots : lots[i].session \in Nat
    BY Sizes DEF Lot
  <2> QED
    BY <2>1, <2>2 DEF SettledIn, Settled
<1> HIDE DEF T, U
<1> QED
  BY <1>1, <1>2, SharesNat, Views DEF T, U

-----------------------------------------------------------------------------
(* The lots under each operation. *)

\* An order of the projection, whatever fees were booked on it.
Handed == [symbol : Symbols, side : {"BUY", "SELL"}, quantity : Nat \ {0},
           limit_price : Nat \ {0}, fee_budget : Nat, signal_at : Nat,
           settlement_days : Nat, tick_size : Nat \ {0}, accepted_at : Times,
           status : ACTIVE \cup {"FILLED", "CANCELED", "REJECTED"},
           filled : Nat, fees : Int]

\* What the shares rest on among the orders: one active order a symbol.
OrdersApart == OneOrderPerSymbol /\ \A o \in DOMAIN orders : orders[o] \in Handed

LEMMA BookApart == BookInv => OrdersApart
<1>1. \A order \in Order : order \in Handed
  BY DEF Order, Handed
<1> QED
  BY <1>1 DEF BookInv, BookTypeOK, OrdersApart

LotsInv ==
  /\ lots \in Seq(Lot)
  /\ positions \in [Symbols -> Nat]
  /\ PositionsAreLots
  /\ SellsStayCovered

\* An active order keeps what it was accepted with.
SameTerms(old, new) ==
  /\ new.symbol = old.symbol /\ new.side = old.side
  /\ new.accepted_at = old.accepted_at /\ new.quantity = old.quantity

\* The lots cover what the active SELLs of the new state still execute, if they
\* covered what each of them executes then.
LEMMA StillCovered ==
  ASSUME LotsInv, UNCHANGED <<lots, positions>>,
         \A p \in Pending' : /\ p \in Pending /\ SameTerms(orders[p], orders'[p])
                             /\ orders'[p].filled = orders[p].filled
  PROVE  LotsInv'
<1>0. lots' = lots
  OBVIOUS
<1>1. lots' \in Seq(Lot) /\ positions' \in [Symbols -> Nat] /\ PositionsAreLots'
  BY DEF LotsInv, PositionsAreLots, SharesIn
<1>2. SellsStayCovered'
  <2> SUFFICES ASSUME NEW p \in Pending', orders'[p].side = "SELL"
               PROVE  orders'[p].quantity - orders'[p].filled <=
                        Shares(lots, SettledIn(lots, orders'[p].symbol, orders'[p].accepted_at))
    BY <1>0 DEF SellsStayCovered, Unfilled, Available, SharesIn, Shares, SizesOf, SettledIn
  <2>1. Unfilled(p) <= Shares(lots, SettledIn(lots, orders[p].symbol, orders[p].accepted_at))
    BY Views DEF LotsInv, SellsStayCovered, SameTerms
  <2> QED
    BY <2>1 DEF SameTerms, Unfilled
<1> QED
  BY <1>1, <1>2 DEF LotsInv

\* A SELL is accepted for shares that are settled then (order_service.py:207-209).
LEMMA SubmitLots ==
  ASSUME LotsInv, NEW r \in Requests, NEW when \in Times, Submit(r, when)
  PROVE  LotsInv'
<1>0. lots' = lots
  BY DEF Submit
<1>1. UNCHANGED <<lots, positions>>
  BY DEF Submit
<1>2. lots' \in Seq(Lot) /\ positions' \in [Symbols -> Nat] /\ PositionsAreLots'
  BY <1>1 DEF LotsInv, PositionsAreLots, SharesIn
<1>3. SellsStayCovered'
  <2> SUFFICES ASSUME NEW p \in Pending', orders'[p].side = "SELL"
               PROVE  orders'[p].quantity - orders'[p].filled <=
                        Shares(lots, SettledIn(lots, orders'[p].symbol, orders'[p].accepted_at))
    BY <1>0 DEF SellsStayCovered, Unfilled, Available, SharesIn, Shares, SizesOf, SettledIn
  <2>1. \A s, t : Available(s, t) = Shares(lots, SettledIn(lots, s, t))
    BY Views
  <2>2. orders' = [o \in DOMAIN orders \cup {r.order_id} |->
                     IF o = r.order_id THEN OrderOf(r, when) ELSE orders[o]]
    BY DEF Submit
  <2>3. p \in DOMAIN orders'
    BY DEF Pending
  <2>4. CASE p = r.order_id
    <3>1. orders'[p] = OrderOf(r, when)
      BY <2>2, <2>3, <2>4
    <3>2. /\ orders'[p].quantity = r.quantity /\ orders'[p].filled = 0 /\ orders'[p].side = r.side
          /\ orders'[p].symbol = r.symbol /\ orders'[p].accepted_at = when
      BY <3>1 DEF OrderOf
    <3>3. r.quantity <= Available(r.symbol, when) /\ r.quantity \in Nat
      BY <3>2, RequestAssumption DEF Submit, ExitAllowed
    <3>4. orders'[p].quantity - orders'[p].filled = r.quantity
      BY <3>2, <3>3
    <3> QED
      BY <2>1, <3>2, <3>3, <3>4
  <2>5. CASE p # r.order_id
    <3>1. p \in Pending /\ orders'[p] = orders[p]
      BY <2>2, <2>3, <2>5 DEF Pending
    <3>2. Unfilled(p) <= Available(orders[p].symbol, orders[p].accepted_at)
      BY <3>1 DEF LotsInv, SellsStayCovered
    <3> QED
      BY <2>1, <3>1, <3>2 DEF Unfilled
  <2> QED
    BY <2>4, <2>5
<1> QED
  BY <1>2, <1>3 DEF LotsInv

\* A step that only sets the status of an active order covers no new SELL.
LEMMA StatusLots ==
  ASSUME OrdersApart, LotsInv, NEW o \in Pending, NEW status, SetStatus(o, status),
         UNCHANGED <<lots, positions>>
  PROVE  LotsInv'
<1> DEFINE new == [orders[o] EXCEPT !.status = status]
<1>1. orders[o] \in Handed
  BY DEF Pending, OrdersApart
<1>2. SameTerms(orders[o], new) /\ new.filled = orders[o].filled
  BY <1>1 DEF Handed, SameTerms
<1>3. orders' = [orders EXCEPT ![o] = new]
  BY DEF SetStatus
<1> HIDE DEF new
<1>4. DOMAIN orders' = DOMAIN orders /\ \A p \in DOMAIN orders : orders'[p] = IF p = o THEN new ELSE orders[p]
  BY <1>3
<1>5. \A p \in Pending' : /\ p \in Pending /\ SameTerms(orders[p], orders'[p])
                          /\ orders'[p].filled = orders[p].filled
  BY <1>2, <1>4 DEF Pending, SameTerms
<1> QED
  BY <1>5, StillCovered

\* What a fill does to the order it executes and to the others.
LEMMA FillOrders ==
  ASSUME BookInv, NEW f \in FillIds, NEW o \in DOMAIN orders, NEW price \in Prices,
         NEW fee \in Fees, NEW q \in 1..Unfilled(o), NEW when \in Times,
         Fill(f, o, q, price, fee, when)
  PROVE  /\ o \in Pending /\ orders[o] \in Order /\ q \in Nat \ {0} /\ q <= Unfilled(o)
         /\ fee \in Nat /\ price \in Nat /\ DOMAIN orders' = DOMAIN orders
         /\ SameTerms(orders[o], orders'[o]) /\ orders'[o].filled = orders[o].filled + q
         /\ orders'[o].fees = orders[o].fees + fee
         /\ orders'[o].limit_price = orders[o].limit_price
         /\ orders'[o].fee_budget = orders[o].fee_budget
         /\ \A p \in DOMAIN orders : p # o => orders'[p] = orders[p]
         /\ Pending' \subseteq Pending
<1> DEFINE new == Executed(o, q, fee)
<1>1. o \in Pending /\ orders[o] \in Order
  BY DEF BookInv, BookTypeOK, Fill, FillAllowed
<1>2. q \in Nat \ {0} /\ q <= Unfilled(o) /\ fee \in Nat /\ price \in Nat
  BY <1>1, MoneyAssumption DEF Unfilled, Order
<1>3. /\ new.symbol = orders[o].symbol /\ new.side = orders[o].side
      /\ new.accepted_at = orders[o].accepted_at /\ new.quantity = orders[o].quantity
      /\ new.filled = orders[o].filled + q /\ new.fees = orders[o].fees + fee
      /\ new.limit_price = orders[o].limit_price /\ new.fee_budget = orders[o].fee_budget
  BY <1>1 DEF Order, Executed
<1>4. orders' = [orders EXCEPT ![o] = new]
  BY DEF Fill, ApplyFill
<1> HIDE DEF new
<1>5. DOMAIN orders' = DOMAIN orders /\ \A p \in DOMAIN orders : orders'[p] = IF p = o THEN new ELSE orders[p]
  BY <1>4
<1> QED
  BY <1>1, <1>2, <1>3, <1>5 DEF SameTerms, Pending

\* What a fill leaves of the order it executes and of the others.
LEMMA FillShares ==
  ASSUME OrdersApart, NEW f, NEW o \in DOMAIN orders, NEW price, NEW fee,
         NEW q \in Nat, NEW when, Fill(f, o, q, price, fee, when)
  PROVE  /\ o \in Pending /\ orders[o] \in Handed /\ q <= Unfilled(o)
         /\ DOMAIN orders' = DOMAIN orders
         /\ SameTerms(orders[o], orders'[o]) /\ orders'[o].filled = orders[o].filled + q
         /\ \A p \in DOMAIN orders : p # o => orders'[p] = orders[p]
         /\ Pending' \subseteq Pending
<1> DEFINE new == Executed(o, q, fee)
<1>1. o \in Pending /\ orders[o] \in Handed /\ q <= Unfilled(o)
  BY DEF OrdersApart, Fill, FillAllowed
<1>2. /\ new.symbol = orders[o].symbol /\ new.side = orders[o].side
      /\ new.accepted_at = orders[o].accepted_at /\ new.quantity = orders[o].quantity
      /\ new.filled = orders[o].filled + q
  BY <1>1 DEF Handed, Executed
<1>3. orders' = [orders EXCEPT ![o] = new]
  BY DEF Fill, ApplyFill
<1> HIDE DEF new
<1>4. DOMAIN orders' = DOMAIN orders /\ \A p \in DOMAIN orders : orders'[p] = IF p = o THEN new ELSE orders[p]
  BY <1>3
<1> QED
  BY <1>1, <1>2, <1>4 DEF SameTerms, Pending

\* A purchase adds a lot; the SELLs of other symbols stay covered, and there is none
\* of its own (order_service.py:73-80).
LEMMA BuyFillLots ==
  ASSUME OrdersApart, LotsInv, NEW f, NEW o \in DOMAIN orders, NEW price,
         NEW fee, NEW q \in Nat, NEW when \in Times,
         Fill(f, o, q, price, fee, when), orders[o].side = "BUY"
  PROVE  LotsInv'
<1> DEFINE s == orders[o].symbol
           lot == [symbol |-> s, quantity |-> q, session |-> SessionOf[when],
                   settlement_days |-> orders[o].settlement_days]
<1>1. /\ o \in Pending /\ orders[o] \in Handed /\ q \in Nat /\ DOMAIN orders' = DOMAIN orders
      /\ orders'[o].side = orders[o].side /\ Pending' \subseteq Pending
      /\ \A p \in DOMAIN orders : p # o => orders'[p] = orders[p]
  BY FillShares DEF SameTerms
<1>2. lots' = Append(lots, lot) /\ positions' = [positions EXCEPT ![s] = @ + q]
  BY DEF Fill, ApplyFill
<1>3. lot \in Lot /\ lot.symbol = s /\ lot.quantity = q /\ s \in Symbols
  <2>1. s \in Symbols /\ orders[o].settlement_days \in Nat /\ SessionOf[when] \in Nat
    BY <1>1, SessionAssumption DEF Handed
  <2> QED
    BY <1>1, <2>1 DEF Lot
<1> HIDE DEF lot
<1>4. /\ lots' \in Seq(Lot)
      /\ \A x : Shares(lots', OfSymbol(lots', x)) =
                Shares(lots, OfSymbol(lots, x)) + IF lot.symbol = x THEN lot.quantity ELSE 0
      /\ \A x, t : Shares(lots', SettledIn(lots', x, t)) >= Shares(lots, SettledIn(lots, x, t))
  <2> DEFINE now == lots'
  <2>1. lots \in Seq(Lot) /\ lot \in Lot /\ now = Append(lots, lot)
    BY <1>2, <1>3 DEF LotsInv
  <2> HIDE DEF now
  <2>2. /\ now \in Seq(Lot)
        /\ \A x : Shares(now, OfSymbol(now, x)) =
                  Shares(lots, OfSymbol(lots, x)) + IF lot.symbol = x THEN lot.quantity ELSE 0
        /\ \A x, t : Shares(now, SettledIn(now, x, t)) >= Shares(lots, SettledIn(lots, x, t))
    <3>1. Bought(lots, lot, now)
      BY <2>1 DEF Bought
    <3> QED
      BY <3>1, BuyingLots
  <2> QED
    BY <2>2 DEF now
<1>5. positions' \in [Symbols -> Nat]
  BY <1>1, <1>2, <1>3 DEF LotsInv
<1>6. PositionsAreLots'
  <2> SUFFICES ASSUME NEW x \in Symbols
               PROVE  positions'[x] = Shares(lots', OfSymbol(lots', x))
    BY DEF PositionsAreLots, SharesIn, Shares, SizesOf, OfSymbol
  <2>1. positions[x] = Shares(lots, OfSymbol(lots, x)) /\ positions[x] \in Nat
    BY DEF LotsInv, PositionsAreLots, SharesIn, Shares, SizesOf, OfSymbol
  <2>2. positions'[x] = positions[x] + IF s = x THEN q ELSE 0
    BY <1>1, <1>2, <1>3, <2>1 DEF LotsInv
  <2>3. Shares(lots', OfSymbol(lots', x)) = Shares(lots, OfSymbol(lots, x)) + IF s = x THEN q ELSE 0
    BY <1>3, <1>4
  <2> QED
    BY <2>1, <2>2, <2>3
<1>7. SellsStayCovered'
  <2> SUFFICES ASSUME NEW p \in Pending', orders'[p].side = "SELL"
               PROVE  orders'[p].quantity - orders'[p].filled <=
                        Shares(lots', SettledIn(lots', orders'[p].symbol, orders'[p].accepted_at))
    BY DEF SellsStayCovered, Unfilled, Available, SharesIn, Shares, SizesOf, SettledIn
  <2>1. p \in Pending /\ p \in DOMAIN orders /\ orders'[p] = orders[p]
    BY <1>1 DEF Pending
  <2> DEFINE old == Shares(lots, SettledIn(lots, orders[p].symbol, orders[p].accepted_at))
             now == Shares(lots', SettledIn(lots', orders[p].symbol, orders[p].accepted_at))
  <2>2. Unfilled(p) <= old
    BY <2>1, Views DEF LotsInv, SellsStayCovered
  <2>3. old \in Nat /\ now \in Nat
    BY <1>4, SharesNat DEF LotsInv, SettledIn
  <2>4. now >= old
    BY <1>4
  <2>5. Unfilled(p) \in Int
    <3>1. orders[p] \in Handed
      BY <2>1 DEF OrdersApart
    <3> QED
      BY <3>1 DEF Unfilled, Handed
  <2> HIDE DEF old, now
  <2>6. Unfilled(p) <= now
    BY <2>2, <2>3, <2>4, <2>5
  <2> QED
    BY <2>1, <2>6 DEF Unfilled, now
<1> QED
  BY <1>4, <1>5, <1>6, <1>7 DEF LotsInv

\* A sale takes its shares from settled lots and from its own order's remainder
\* alike; other SELLs are of other symbols (order_service.py:81-86).
LEMMA SellFillLots ==
  ASSUME OrdersApart, LotsInv, NEW f, NEW o \in DOMAIN orders, NEW price,
         NEW fee, NEW q \in Nat, NEW when \in Times,
         Fill(f, o, q, price, fee, when), orders[o].side = "SELL"
  PROVE  LotsInv'
<1> DEFINE s == orders[o].symbol
           t0 == orders[o].accepted_at
<1>1. /\ o \in Pending /\ orders[o] \in Handed /\ q \in Nat /\ q <= Unfilled(o)
      /\ SameTerms(orders[o], orders'[o]) /\ orders'[o].filled = orders[o].filled + q
      /\ DOMAIN orders' = DOMAIN orders /\ Pending' \subseteq Pending
      /\ \A p \in DOMAIN orders : p # o => orders'[p] = orders[p]
  BY FillShares
<1>2. lots' = SellLots(s, q, when) /\ positions' = [positions EXCEPT ![s] = @ - q]
  BY DEF Fill, ApplyFill
<1>3. s \in Symbols /\ t0 \in Times /\ t0 <= when /\ lots \in Seq(Lot)
  BY <1>1 DEF Handed, Fill, FillAllowed, LotsInv
<1>4. \A x, t : Available(x, t) \in Nat
  BY <1>3, SharesNat, Views DEF SettledIn
<1>5. Unfilled(o) <= Available(s, t0) /\ q <= Available(s, when)
  <2>1. Unfilled(o) <= Available(s, t0)
    BY <1>1 DEF LotsInv, SellsStayCovered
  <2>2. Available(s, t0) <= Available(s, when)
    BY <1>3, MoreSettles
  <2>3. Unfilled(o) \in Int
    BY <1>1 DEF Unfilled, Handed
  <2> QED
    BY <1>1, <1>4, <2>1, <2>2, <2>3
<1> HIDE DEF s, t0
<1>6. /\ lots' \in Seq(Lot)
      /\ \A x : Shares(lots', OfSymbol(lots', x)) =
                Shares(lots, OfSymbol(lots, x)) - IF x = s THEN q ELSE 0
      /\ \A t \in Times : t <= when =>
           Shares(lots', SettledIn(lots', s, t)) >= Shares(lots, SettledIn(lots, s, t)) - q
      /\ \A x, t : x # s =>
           Shares(lots', SettledIn(lots', x, t)) = Shares(lots, SettledIn(lots, x, t))
  BY <1>1, <1>2, <1>3, <1>5, SellingLots
<1>7. \A x \in Symbols : positions[x] = Shares(lots, OfSymbol(lots, x)) /\ positions[x] \in Nat
  BY DEF LotsInv, PositionsAreLots, SharesIn, Shares, SizesOf, OfSymbol
<1>8. \A x \in Symbols : positions'[x] = positions[x] - IF x = s THEN q ELSE 0
  BY <1>1, <1>2, <1>3, <1>7 DEF LotsInv
<1>9. \A x \in Symbols : positions'[x] = Shares(lots', OfSymbol(lots', x))
  BY <1>6, <1>7, <1>8
<1>10. PositionsAreLots'
  BY <1>9 DEF PositionsAreLots, SharesIn, Shares, SizesOf, OfSymbol
<1>11. positions' \in [Symbols -> Nat]
  <2>1. \A x : Shares(lots', OfSymbol(lots', x)) \in Nat
    BY <1>6, SharesNat DEF OfSymbol
  <2>2. DOMAIN positions' = Symbols /\ positions' = [x \in Symbols |-> positions'[x]]
    BY <1>2 DEF LotsInv
  <2> QED
    BY <1>9, <2>1, <2>2
<1>12. SellsStayCovered'
  <2> SUFFICES ASSUME NEW p \in Pending', orders'[p].side = "SELL"
               PROVE  orders'[p].quantity - orders'[p].filled <=
                        Shares(lots', SettledIn(lots', orders'[p].symbol, orders'[p].accepted_at))
    BY DEF SellsStayCovered, Unfilled, Available, SharesIn, Shares, SizesOf, SettledIn
  <2>1. p \in Pending /\ p \in DOMAIN orders /\ orders[p] \in Handed
    BY <1>1 DEF Pending, OrdersApart
  <2>2. CASE p = o
    <3> DEFINE old == Shares(lots, SettledIn(lots, s, t0))
               now == Shares(lots', SettledIn(lots', s, t0))
    <3>1. now >= old - q
      BY <1>3, <1>6
    <3>2. old \in Nat /\ now \in Nat
      BY <1>3, <1>6, SharesNat DEF SettledIn
    <3>3. Unfilled(o) <= old
      BY <1>5, Views
    <3>4. /\ orders'[p].quantity = orders[o].quantity /\ orders'[p].filled = orders[o].filled + q
          /\ orders'[p].symbol = s /\ orders'[p].accepted_at = t0
          /\ orders[o].quantity \in Nat /\ orders[o].filled \in Nat
      BY <1>1, <2>2 DEF SameTerms, s, t0, Handed
    <3> HIDE DEF old, now
    <3>5. orders'[p].quantity - orders'[p].filled <= now
      BY <1>1, <3>1, <3>2, <3>3, <3>4 DEF Unfilled
    <3> QED
      BY <3>4, <3>5 DEF now
  <2>3. CASE p # o
    <3>1. orders'[p] = orders[p]
      BY <1>1, <2>1, <2>3
    <3>2. orders[p].symbol # s
      BY <1>1, <2>1, <2>3 DEF OrdersApart, OneOrderPerSymbol, s
    <3>3. Unfilled(p) <= Shares(lots, SettledIn(lots, orders[p].symbol, orders[p].accepted_at))
      BY <2>1, <3>1, Views DEF LotsInv, SellsStayCovered
    <3> QED
      BY <1>6, <3>1, <3>2, <3>3 DEF Unfilled
  <2> QED
    BY <2>2, <2>3
<1> QED
  BY <1>6, <1>10, <1>11, <1>12 DEF LotsInv

\* A corporate action scales the lots and the holding of its symbol alike, and there
\* is no active SELL of that symbol (order_service.py:290-305).
LEMMA CorporateActionLots ==
  ASSUME LotsInv, NEW id, NEW a \in Entitlements, NEW when,
         CorporateAction(id, a, when)
  PROVE  LotsInv'
<1> DEFINE n == Len(lots)
           f == SizesOf(lots)
           scaled(q) == (q * a.num) \div a.den
           new(i) == IF lots[i].symbol = a.symbol
                     THEN [lots[i] EXCEPT !.quantity = scaled(lots[i].quantity)] ELSE lots[i]
           after == lots'
           g == SizesOf(after)
<1>0. a.symbol \in Symbols /\ a.num \in Nat \ {0} /\ a.den \in Nat \ {0}
  BY EntitlementAssumption
<1>1. /\ lots \in Seq(Lot) /\ DOMAIN lots = 1..n /\ n \in Nat /\ IsFiniteSet(DOMAIN lots)
      /\ \A i \in 1..n : lots[i] \in Lot /\ f[i] = lots[i].quantity /\ f[i] \in Nat
  BY Sizes DEF LotsInv
<1>2. /\ NoOutstanding(a.symbol) /\ orders' = orders
      /\ \A i \in 1..n : lots[i].symbol = a.symbol => (lots[i].quantity * a.num) % a.den = 0
      /\ positions' = [positions EXCEPT ![a.symbol] = scaled(positions[a.symbol])]
  BY <1>1 DEF CorporateAction
<1>3. DOMAIN after = 1..n /\ after = [i \in 1..n |-> new(i)]
  BY <1>1 DEF CorporateAction
<1> HIDE DEF f, scaled
<1>4. ASSUME NEW i \in 1..n, lots[i].symbol = a.symbol
      PROVE  scaled(f[i]) \in Nat /\ scaled(f[i]) * a.den = f[i] * a.num
  <2> DEFINE x == f[i] * a.num
  <2>1. x \in Nat /\ x % a.den = 0
    BY <1>0, <1>1, <1>2, <1>4
  <2> HIDE DEF x
  <2>2. (x \div a.den) \in Nat /\ (x \div a.den) * a.den = x
    BY <1>0, <2>1, Divides
  <2> QED
    BY <2>2 DEF x, scaled
<1>5. ASSUME NEW i \in 1..n
      PROVE  /\ after[i] \in Lot /\ after[i].symbol = lots[i].symbol
             /\ after[i].session = lots[i].session
             /\ after[i].settlement_days = lots[i].settlement_days
             /\ after[i].quantity = IF lots[i].symbol = a.symbol THEN scaled(f[i]) ELSE f[i]
  <2>1. after[i] = new(i) /\ lots[i] \in Lot /\ lots[i].quantity = f[i]
    BY <1>1, <1>3
  <2>2. CASE lots[i].symbol = a.symbol
    <3> DEFINE m == scaled(f[i])
    <3>1. m \in Nat /\ after[i] = [lots[i] EXCEPT !.quantity = m]
      BY <1>4, <2>1, <2>2
    <3> HIDE DEF m
    <3> QED
      BY <2>1, <2>2, <3>1, Giving DEF m
  <2>3. CASE lots[i].symbol # a.symbol
    BY <2>1, <2>3
  <2> QED
    BY <2>2, <2>3
<1>6. after \in Seq(Lot)
  <2>1. after \in [1..n -> Lot]
    BY <1>3, <1>5
  <2> QED
    BY <1>1, <2>1
<1>7. \A i \in 1..n : g[i] = IF lots[i].symbol = a.symbol THEN scaled(f[i]) ELSE f[i]
  BY <1>3, <1>5 DEF SizesOf
<1> HIDE DEF g, new
<1>8. /\ \A x : OfSymbol(after, x) = OfSymbol(lots, x)
      /\ \A x, t : SettledIn(after, x, t) = SettledIn(lots, x, t)
  BY <1>1, <1>3, <1>5 DEF OfSymbol, SettledIn, Settled
<1>9. ASSUME NEW T \in SUBSET (1..n), \A i \in T : lots[i].symbol # a.symbol
      PROVE  Shares(after, T) = Shares(lots, T)
  <2>1. IsFiniteSet(T)
    BY <1>1, FS_Subset
  <2>2. \A i \in T : g[i] = f[i]
    BY <1>7, <1>9
  <2>3. SumFunctionOnSet(g, T) = SumFunctionOnSet(f, T)
    BY <2>1, <2>2, SumSame
  <2> QED
    BY <2>3 DEF Shares, f, g
<1>10. \A x \in Symbols : positions[x] = Shares(lots, OfSymbol(lots, x)) /\ positions[x] \in Nat
  BY DEF LotsInv, PositionsAreLots, SharesIn, Shares, SizesOf, OfSymbol
<1>11. /\ positions'[a.symbol] = Shares(after, OfSymbol(after, a.symbol))
       /\ positions'[a.symbol] \in Nat
  <2> DEFINE T == OfSymbol(lots, a.symbol)
             was == Shares(lots, T)
             is == Shares(after, T)
  <2>1. T \in SUBSET (1..n) /\ IsFiniteSet(T) /\ \A i \in T : lots[i].symbol = a.symbol
    <3>1. T \in SUBSET (1..n) /\ \A i \in T : lots[i].symbol = a.symbol
      BY <1>1 DEF OfSymbol
    <3> QED
      BY <1>1, <3>1, FS_Subset
  <2>2. \A i \in T : g[i] \in Int /\ f[i] \in Int /\ g[i] * a.den = f[i] * a.num
    BY <1>1, <1>4, <1>7, <2>1
  <2>3. is * a.den = was * a.num
    <3>1. a.den \in Int /\ a.num \in Int
      BY <1>0
    <3> DEFINE num == a.num
               den == a.den
    <3>2. /\ IsFiniteSet(T) /\ num \in Int /\ den \in Int
          /\ \A i \in T : f[i] \in Int /\ g[i] \in Int /\ g[i] * den = f[i] * num
      BY <2>1, <2>2, <3>1
    <3> HIDE DEF T, num, den
    <3>3. SumFunctionOnSet(g, T) * den = SumFunctionOnSet(f, T) * num
      BY <3>2, SumScaled
    <3> QED
      BY <3>3 DEF Shares, f, g, num, den
  <2>4. is \in Nat /\ was \in Nat /\ was = positions[a.symbol]
    BY <1>0, <1>1, <1>3, <1>6, <1>10, <2>1, SharesNat
  <2> HIDE DEF is, was
  <2>5. scaled(was) = is
    <3> DEFINE x == was * a.num
    <3>1. x \in Nat /\ x = is * a.den
      BY <1>0, <2>3, <2>4
    <3> HIDE DEF x
    <3>2. x \div a.den = is
      BY <1>0, <2>4, <3>1, Divides
    <3> QED
      BY <3>2 DEF x, scaled
  <2>6. positions'[a.symbol] = scaled(was)
    BY <1>0, <1>2, <2>4 DEF LotsInv
  <2> QED
    BY <1>8, <2>4, <2>5, <2>6 DEF is
<1>12. ASSUME NEW x \in Symbols, x # a.symbol
       PROVE  positions'[x] = Shares(after, OfSymbol(after, x)) /\ positions'[x] \in Nat
  <2> DEFINE T == OfSymbol(lots, x)
  <2>1. T \in SUBSET (1..n) /\ \A i \in T : lots[i].symbol # a.symbol
    BY <1>1, <1>12 DEF OfSymbol
  <2>2. Shares(after, T) = Shares(lots, T)
    BY <1>9, <2>1
  <2>3. positions'[x] = positions[x]
    BY <1>2, <1>12 DEF LotsInv
  <2> QED
    BY <1>8, <1>10, <2>2, <2>3
<1>13. positions' \in [Symbols -> Nat]
  <2>1. DOMAIN positions' = Symbols /\ positions' = [x \in Symbols |-> positions'[x]]
    BY <1>2 DEF LotsInv
  <2> QED
    BY <1>11, <1>12, <2>1
<1>14. PositionsAreLots'
  <2>1. \A x \in Symbols : positions'[x] = Shares(lots', OfSymbol(lots', x))
    BY <1>11, <1>12
  <2> QED
    BY <2>1 DEF PositionsAreLots, SharesIn, Shares, SizesOf, OfSymbol
<1>15. SellsStayCovered'
  <2> SUFFICES ASSUME NEW p \in Pending', orders'[p].side = "SELL"
               PROVE  orders'[p].quantity - orders'[p].filled <=
                        Shares(lots', SettledIn(lots', orders'[p].symbol, orders'[p].accepted_at))
    BY DEF SellsStayCovered, Unfilled, Available, SharesIn, Shares, SizesOf, SettledIn
  <2>1. p \in Pending /\ orders'[p] = orders[p]
    BY <1>2 DEF Pending
  <2>2. orders[p].symbol # a.symbol
    BY <1>2, <2>1 DEF NoOutstanding
  <2> DEFINE T == SettledIn(lots, orders[p].symbol, orders[p].accepted_at)
  <2>3. T \in SUBSET (1..n) /\ \A i \in T : lots[i].symbol # a.symbol
    BY <1>1, <2>2 DEF SettledIn, Settled
  <2>4. Shares(after, T) = Shares(lots, T)
    BY <1>9, <2>3
  <2>5. Unfilled(p) <= Shares(lots, T)
    BY <2>1, Views DEF LotsInv, SellsStayCovered
  <2> QED
    BY <1>8, <2>1, <2>4, <2>5 DEF Unfilled
<1> QED
  BY <1>6, <1>13, <1>14, <1>15 DEF LotsInv

-----------------------------------------------------------------------------
(* The money under each operation. *)

MoneyInv ==
  /\ cash \in Nat
  /\ observed \subseteq [time : Times, equity : Nat]
  /\ IsFiniteSet(DOMAIN orders)
  /\ IsFiniteSet(Held)

\* What an order reserves, and the orders that reserve.
ReservedBy(order) ==
  order.limit_price * (order.quantity - order.filled) + Max({0, order.fee_budget - order.fees})
Reserve(os) == [o \in DOMAIN os |-> ReservedBy(os[o])]
Buying(os) == {o \in DOMAIN os : os[o].status \in ACTIVE /\ os[o].side = "BUY"}

\* The cash reserved is the total over the buying orders that are not excluded.
LEMMA ReservedCashOf ==
  \A exclude : ReservedCash(exclude) = SumFunctionOnSet(Reserve(orders), Buying(orders) \ exclude)
<1> SUFFICES ASSUME NEW exclude
             PROVE  ReservedCash(exclude) = SumFunctionOnSet(Reserve(orders), Buying(orders) \ exclude)
  OBVIOUS
<1>1. {o \in Pending \ exclude : orders[o].side = "BUY"} = Buying(orders) \ exclude
  BY DEF Pending, Buying
<1>2. Reserve(orders) = [o \in DOMAIN orders |->
                           orders[o].limit_price * Unfilled(o)
                           + Max({0, orders[o].fee_budget - orders[o].fees})]
  BY DEF Reserve, ReservedBy, Unfilled
<1> QED
  BY <1>1, <1>2 DEF ReservedCash

\* The same for the state a step leads to.
LEMMA ReservedThen ==
  ReservedCash({})' = SumFunctionOnSet(Reserve(orders'), Buying(orders'))
<1> DEFINE g == Reserve(orders')
           T == Buying(orders')
<1>1. T = {o \in Pending' \ {} : orders'[o].side = "BUY"}
  BY DEF Buying, Pending
<1>2. g = [o \in DOMAIN orders' |-> orders'[o].limit_price * (orders'[o].quantity - orders'[o].filled)
                                    + Max({0, orders'[o].fee_budget - orders'[o].fees})]
  BY DEF Reserve, ReservedBy
<1> HIDE DEF g, T
<1> QED
  BY <1>1, <1>2 DEF ReservedCash, Unfilled, g, T

\* What a sound order reserves: its unfilled amount and the rest of its fee budget.
LEMMA ReservedNat ==
  ASSUME NEW order \in Order, Sound(order)
  PROVE  /\ ReservedBy(order) \in Nat
         /\ ReservedBy(order) = order.limit_price * (order.quantity - order.filled)
                                + (order.fee_budget - order.fees)
<1> DEFINE m == Max({0, order.fee_budget - order.fees})
<1>1. /\ order.limit_price \in Nat /\ order.quantity \in Nat /\ order.filled \in Nat
      /\ order.fee_budget \in Nat /\ order.fees \in Nat
      /\ order.filled <= order.quantity /\ order.fees <= order.fee_budget
  BY DEF Order, Sound
<1>2. m = order.fee_budget - order.fees
  <2> DEFINE x == order.fee_budget - order.fees
  <2>1. x \in Int /\ x >= 0 /\ 0 \in Int
    BY <1>1
  <2> HIDE DEF x
  <2>2. Max({0, x}) = x
    BY <2>1, OfTwo, SMTT(60)
  <2> QED
    BY <2>2 DEF x
<1> DEFINE u == order.quantity - order.filled
           l == order.limit_price
<1>3. u \in Nat /\ l \in Nat
  BY <1>1
<1> HIDE DEF m, u, l
<1>4. l * u \in Nat
  BY <1>3
<1>5. ReservedBy(order) = l * u + m
  BY DEF ReservedBy, l, u, m
<1> QED
  BY <1>1, <1>2, <1>4, <1>5 DEF l, u

\* Reservations are naturals, and what fewer orders reserve is within what more do.
LEMMA ReservedCashNat ==
  ASSUME BookInv, MoneyInv
  PROVE  /\ \A o \in DOMAIN orders : orders[o] \in Order /\ Sound(orders[o]) /\ Reserve(orders)[o] \in Nat
         /\ \A S \in SUBSET DOMAIN orders : IsFiniteSet(S) /\ SumFunctionOnSet(Reserve(orders), S) \in Nat
         /\ Buying(orders) \subseteq DOMAIN orders
         /\ \A exclude : ReservedCash(exclude) \in Nat
<1>1. \A o \in DOMAIN orders : orders[o] \in Order /\ Sound(orders[o])
  BY OrdersInvParts DEF BookInv, BookTypeOK, OrdersInv, Sound
<1>2. \A o \in DOMAIN orders : Reserve(orders)[o] \in Nat
  BY <1>1, ReservedNat DEF Reserve
<1>3. \A S \in SUBSET DOMAIN orders : SumFunctionOnSet(Reserve(orders), S) \in Nat
  BY <1>2, SumNat DEF MoneyInv
<1>4. \A S \in SUBSET DOMAIN orders : IsFiniteSet(S)
  BY FS_Subset DEF MoneyInv
<1>5. Buying(orders) \subseteq DOMAIN orders
  BY DEF Buying
<1>6. \A exclude : ReservedCash(exclude) \in Nat
  BY <1>3, <1>5, ReservedCashOf
<1> QED
  BY <1>1, <1>2, <1>3, <1>4, <1>5, <1>6

\* Orders that stop buying, or stay as they are, reserve no more.
LEMMA FewerBuying ==
  ASSUME BookInv, MoneyInv, NEW os, Buying(os) \subseteq Buying(orders),
         \A o \in Buying(os) : ReservedBy(os[o]) = ReservedBy(orders[o])
  PROVE  SumFunctionOnSet(Reserve(os), Buying(os)) <= SumFunctionOnSet(Reserve(orders), Buying(orders))
<1> DEFINE f == Reserve(orders)
           g == Reserve(os)
           S == Buying(orders)
           T == Buying(os)
<1>1. IsFiniteSet(S) /\ \A o \in S : f[o] \in Nat
  BY ReservedCashNat
<1>2. T \in SUBSET S /\ IsFiniteSet(T)
  BY <1>1, FS_Subset
<1>3. \A o \in T : g[o] = f[o]
  BY DEF Reserve, Buying
<1> HIDE DEF f, g, S, T
<1>4. SumFunctionOnSet(g, T) = SumFunctionOnSet(f, T)
  BY <1>2, <1>3, SumSame
<1>5. SumFunctionOnSet(f, T) <= SumFunctionOnSet(f, S)
  BY <1>1, <1>2, SumPart
<1> QED
  BY <1>4, <1>5 DEF f, g, S, T

\* What one active BUY and the others reserve.
LEMMA ReservedWith ==
  ASSUME BookInv, MoneyInv, NEW o \in Buying(orders)
  PROVE  ReservedCash({}) = ReservedBy(orders[o]) + ReservedCash({o})
<1> DEFINE f == Reserve(orders)
           S == Buying(orders)
<1>1. IsFiniteSet(S) /\ o \in S /\ \A p \in S : f[p] \in Int
  BY ReservedCashNat
<1>2. f[o] = ReservedBy(orders[o])
  BY DEF Reserve, Buying
<1> HIDE DEF f, S
<1>3. SumFunctionOnSet(f, S) = f[o] + SumFunctionOnSet(f, S \ {o})
  BY <1>1, SumWithout
<1>4. ReservedCash({}) = SumFunctionOnSet(f, S \ {}) /\ ReservedCash({o}) = SumFunctionOnSet(f, S \ {o})
  BY ReservedCashOf DEF f, S
<1>5. S \ {} = S
  OBVIOUS
<1> QED
  BY <1>2, <1>3, <1>4, <1>5

\* An accepted BUY reserves money no other order has (order_service.py:196-205).
LEMMA SubmitMoney ==
  ASSUME BookInv, MoneyInv, NEW r \in Requests, NEW when \in Times, Submit(r, when)
  PROVE  MoneyInv' /\ Slack' >= Min({0, Slack})
<1> DEFINE id == r.order_id
           new == OrderOf(r, when)
           f == Reserve(orders)
           g == Reserve(orders')
           S == Buying(orders)
           T == Buying(orders')
           cost == r.limit_price * r.quantity + r.fee_budget
<1>1. orders' = [o \in DOMAIN orders \cup {id} |-> IF o = id THEN new ELSE orders[o]]
  BY DEF Submit
<1>2. UNCHANGED <<cash, observed, positions>>
  BY DEF Submit
<1>3. MoneyInv'
  <2>1. IsFiniteSet(DOMAIN orders \cup {id})
    BY FS_AddElement DEF MoneyInv
  <2>2. IsFiniteSet(DOMAIN orders')
    BY <1>1, <2>1
  <2> QED
    BY <1>2, <2>2 DEF MoneyInv, Held
<1>4. id \notin DOMAIN orders
  BY DEF BookInv, OrdersJournalled, Submit
<1>5. r.side \in {"BUY", "SELL"} /\ cost \in Nat
  BY RequestAssumption
<1>6. new.status \in ACTIVE /\ new.side = r.side /\ ReservedBy(new) = cost
  <2> DEFINE m == Max({0, r.fee_budget - 0})
  <2>1. m = r.fee_budget
    <3> DEFINE x == r.fee_budget - 0
    <3>1. x \in Int /\ x >= 0 /\ 0 \in Int /\ x = r.fee_budget
      BY RequestAssumption
    <3> HIDE DEF x
    <3>2. Max({0, x}) = x
      BY <3>1, OfTwo
    <3> QED
      BY <3>1, <3>2 DEF x
  <2>2. /\ new.status = "ACCEPTED" /\ new.side = r.side /\ new.limit_price = r.limit_price
        /\ new.quantity = r.quantity /\ new.filled = 0 /\ new.fees = 0 /\ new.fee_budget = r.fee_budget
    BY DEF OrderOf
  <2>3. r.quantity - 0 = r.quantity
    BY RequestAssumption
  <2> HIDE DEF new
  <2>4. ReservedBy(new) = r.limit_price * (r.quantity - 0) + m
    BY <2>2 DEF ReservedBy
  <2> QED
    BY <2>1, <2>2, <2>3, <2>4 DEF ACTIVE
<1> HIDE DEF new
<1>7. /\ T = IF r.side = "BUY" THEN S \union {id} ELSE S
      /\ id \notin S /\ \A o \in S : g[o] = f[o]
      /\ g[id] = cost
  <2>1. DOMAIN orders' = DOMAIN orders \cup {id} /\ orders'[id] = new
        /\ \A o \in DOMAIN orders : orders'[o] = orders[o]
    BY <1>1, <1>4
  <2> QED
    BY <1>4, <1>5, <1>6, <2>1 DEF Buying, Reserve
<1>8. IsFiniteSet(S) /\ \A o \in S : f[o] \in Nat /\ g[o] \in Int
  BY <1>7, ReservedCashNat
<1>9. ReservedCash({})' = SumFunctionOnSet(g, T)
  BY ReservedThen
<1>10. ReservedCash({}) = SumFunctionOnSet(f, S)
  <2>1. S \ {} = S
    OBVIOUS
  <2> QED
    BY <2>1, ReservedCashOf
<1>11. r.side = "BUY" => cost <= Slack
  BY DEF Submit, EntryAllowed, Unreserved, Slack
<1> HIDE DEF f, g, S, T, cost
<1>12. SumFunctionOnSet(g, S) = SumFunctionOnSet(f, S) /\ SumFunctionOnSet(f, S) \in Nat
  BY <1>7, <1>8, SumSame, SumNat
<1>13. SumFunctionOnSet(g, S \union {id}) = cost + SumFunctionOnSet(g, S)
  <2>1. g[id] \in Int
    BY <1>5, <1>7
  <2> HIDE DEF id
  <2> QED
    BY <1>7, <1>8, <2>1, SumWith
<1>14. Slack = cash - SumFunctionOnSet(f, S) /\ Slack' = cash - SumFunctionOnSet(g, T) /\ cash \in Nat
  BY <1>2, <1>9, <1>10 DEF Slack, MoneyInv
<1>15. Min({0, Slack}) = IF 0 <= Slack THEN 0 ELSE Slack
  <2>1. Slack \in Int
    BY <1>12, <1>14
  <2> QED
    BY <2>1, OfTwo
<1>16. CASE r.side = "BUY"
  BY <1>3, <1>5, <1>7, <1>11, <1>12, <1>13, <1>14, <1>15, <1>16
<1>17. CASE r.side # "BUY"
  BY <1>3, <1>7, <1>12, <1>14, <1>15, <1>17
<1> QED
  BY <1>16, <1>17

\* Slack that does not shrink keeps the reservations.
LEMMA SlackKept ==
  ASSUME BookInv, MoneyInv, Slack' \in Int, Slack' >= Slack \/ Slack' >= 0
  PROVE  Slack' >= Min({0, Slack})
<1>1. Slack \in Int
  BY ReservedCashNat DEF Slack, MoneyInv
<1>2. Min({0, Slack}) = IF 0 <= Slack THEN 0 ELSE Slack
  BY <1>1, OfTwo
<1> QED
  BY <1>1, <1>2

\* Holding more or less of one symbol keeps the number of holdings finite.
LEMMA HeldStaysFinite ==
  ASSUME MoneyInv, NEW s, \A x \in Symbols : x # s => positions'[x] = positions[x]
  PROVE  IsFiniteSet(Held')
<1>1. IsFiniteSet(Held \union {s})
  BY FS_AddElement DEF MoneyInv
<1>2. Held' \subseteq Held \union {s}
  BY DEF Held
<1> QED
  BY <1>1, <1>2, FS_Subset

\* A fill of a BUY is paid from its own reservation and from free cash, and what
\* the order still reserves goes down by at least as much (order_service.py:234-237).
LEMMA BuyFillMoney ==
  ASSUME BookInv, MoneyInv, LotsInv, NEW f \in FillIds, NEW o \in DOMAIN orders, NEW price \in Prices,
         NEW fee \in Fees, NEW q \in 1..Unfilled(o), NEW when \in Times,
         Fill(f, o, q, price, fee, when), orders[o].side = "BUY"
  PROVE  MoneyInv' /\ Slack' >= Min({0, Slack})
<1> DEFINE pay == q * price + fee
           limit == orders[o].limit_price
           left == Unfilled(o)
           spare == orders[o].fee_budget - orders[o].fees
           others == ReservedCash({o})
           R == Reserve(orders)
           g == Reserve(orders')
           S == Buying(orders)
           T == Buying(orders')
<1>1. /\ o \in Pending /\ orders[o] \in Order /\ q \in Nat /\ q <= left
      /\ fee \in Nat /\ price \in Nat /\ DOMAIN orders' = DOMAIN orders
      /\ SameTerms(orders[o], orders'[o]) /\ orders'[o].filled = orders[o].filled + q
      /\ orders'[o].fees = orders[o].fees + fee
      /\ orders'[o].limit_price = orders[o].limit_price
      /\ orders'[o].fee_budget = orders[o].fee_budget
      /\ \A p \in DOMAIN orders : p # o => orders'[p] = orders[p]
      /\ Pending' \subseteq Pending
  BY FillOrders
<1>2. /\ price <= limit /\ pay <= cash - others /\ orders[o].fees + fee <= orders[o].fee_budget
      /\ cash' = cash - pay /\ UNCHANGED observed
      /\ positions' = [positions EXCEPT ![orders[o].symbol] = @ + q]
  <2>1. cash' = cash + (-pay)
    BY DEF Fill, ApplyFill, CashFlow
  <2>2. cash \in Nat /\ pay \in Nat
    BY <1>1 DEF MoneyInv
  <2>3. cash' = cash - pay
    BY <2>1, <2>2
  <2> QED
    BY <2>3 DEF Fill, FillAllowed, ApplyFill, Unreserved
<1>3. others \in Nat /\ cash \in Nat /\ pay \in Nat /\ limit \in Nat /\ left \in Nat /\ spare \in Nat
      /\ left - q \in Nat /\ spare - fee \in Nat
  <2>1. Sound(orders[o])
    BY ReservedCashNat
  <2>2. left - q \in Nat
    BY <1>1, <2>1 DEF Order, Sound, Unfilled
  <2>3. spare - fee \in Nat
    BY <1>1, <1>2, <2>1 DEF Order, Sound
  <2> QED
    BY <1>1, <2>1, <2>2, <2>3, ReservedCashNat DEF Order, Sound, Unfilled, MoneyInv
<1>4. MoneyInv'
  <2>1. IsFiniteSet(Held')
    <3>1. \A x \in Symbols : x # orders[o].symbol => positions'[x] = positions[x]
      BY <1>2 DEF LotsInv
    <3> QED
      BY <3>1, HeldStaysFinite
  <2>2. cash' \in Nat
    <3> HIDE DEF pay, others
    <3> QED
      BY <1>2, <1>3
  <2> QED
    BY <1>1, <1>2, <2>1, <2>2 DEF MoneyInv
<1>5. o \in S /\ ReservedBy(orders[o]) = limit * left + spare /\ ReservedCash({}) = ReservedBy(orders[o]) + others
  <2>1. o \in S
    BY <1>1 DEF Buying, Pending
  <2>2. ReservedBy(orders[o]) = limit * left + spare
    <3>1. Sound(orders[o])
      BY ReservedCashNat
    <3> QED
      BY <1>1, <3>1, ReservedNat DEF Unfilled
  <2> QED
    BY <2>1, <2>2, ReservedWith
<1>6. ReservedBy(orders'[o]) = limit * (left - q) + (spare - fee)
  <2> DEFINE x == spare - fee
  <2>1. x \in Int /\ x >= 0 /\ 0 \in Int
    BY <1>1, <1>2, <1>3
  <2>2. /\ orders'[o].quantity - orders'[o].filled = left - q
        /\ orders'[o].fee_budget - orders'[o].fees = x
    BY <1>1 DEF SameTerms, Unfilled, Order
  <2> HIDE DEF x
  <2>3. Max({0, x}) = x
    BY <2>1, OfTwo
  <2>4. ReservedBy(orders'[o]) = orders'[o].limit_price * (left - q) + Max({0, x})
    BY <2>2 DEF ReservedBy
  <2> QED
    BY <1>1, <2>3, <2>4 DEF x
<1>7. T \subseteq S /\ \A p \in S : p # o => g[p] = R[p] /\ (p \in T)
  <2>1. \A p \in DOMAIN orders : p # o => orders'[p] = orders[p]
    BY <1>1
  <2> QED
    BY <1>1, <2>1 DEF Buying, Reserve, Pending, SameTerms
<1>8. IsFiniteSet(S \ {o}) /\ \A p \in S \ {o} : R[p] \in Nat /\ g[p] = R[p]
  <2>1. \A p \in S \ {o} : p \in DOMAIN orders /\ p # o
    BY DEF Buying
  <2>2. S \ {o} \in SUBSET DOMAIN orders
    BY DEF Buying
  <2> QED
    BY <1>7, <2>1, <2>2, ReservedCashNat
<1>9. others = SumFunctionOnSet(R, S \ {o})
  BY ReservedCashOf
<1>10. ReservedCash({})' <= others + limit * (left - q) + (spare - fee) /\ ReservedCash({})' \in Nat
  <2>1. ReservedCash({})' = SumFunctionOnSet(g, T)
    BY ReservedThen
  <2> DEFINE U == S \ {o}
             r == limit * (left - q) + (spare - fee)
  <2>2. SumFunctionOnSet(g, U) = others
    <3> HIDE DEF R, g, S
    <3> QED
      BY <1>8, <1>9, SumSame DEF U
  <2>3. r \in Nat
    <3>1. left - q \in Nat /\ spare - fee \in Nat
      BY <1>1, <1>2, <1>3
    <3> DEFINE a == left - q
               b == spare - fee
    <3>2. a \in Nat /\ b \in Nat
      BY <3>1
    <3> HIDE DEF a, b, limit
    <3>3. limit * a + b \in Nat
      BY <1>3, <3>2
    <3> QED
      BY <3>3 DEF a, b
  <2>4. CASE o \in T
    <3>1. T = U \union {o} /\ o \notin U
      BY <1>5, <1>7, <2>4
    <3>2. g[o] = r
      BY <1>6, <2>4 DEF Reserve, Buying
    <3>3. IsFiniteSet(U) /\ \A p \in U : g[p] \in Int
      BY <1>8
    <3> HIDE DEF g, T, U, S, r, others
    <3>4. SumFunctionOnSet(g, U \union {o}) = g[o] + SumFunctionOnSet(g, U)
      BY <2>3, <3>1, <3>2, <3>3, SumWith
    <3>5. ReservedCash({})' = others + r
      BY <1>3, <2>1, <2>2, <2>3, <3>1, <3>2, <3>4
    <3>6. ReservedCash({})' <= others + r /\ others + r \in Nat
      BY <1>3, <2>3, <3>5
    <3>7. others + r = others + limit * (left - q) + (spare - fee)
      BY <1>1, <1>3 DEF r
    <3> QED
      BY <3>5, <3>6, <3>7
  <2>5. CASE o \notin T
    <3>1. T = U
      BY <1>5, <1>7, <2>5
    <3> HIDE DEF g, T, U, S, others
    <3>2. ReservedCash({})' = others
      BY <2>1, <2>2, <3>1
    <3>7. others + r = others + limit * (left - q) + (spare - fee)
      BY <1>1, <1>3 DEF r
    <3> HIDE DEF r
    <3>8. others <= others + r
      BY <1>3, <2>3
    <3> QED
      BY <1>3, <3>2, <3>7, <3>8
  <2> QED
    BY <2>4, <2>5
<1>11. Slack = cash - (limit * left + spare + others) /\ Slack' = cash' - ReservedCash({})'
  BY <1>3, <1>5 DEF Slack
<1> DEFINE a == limit * left
           b == limit * (left - q)
           c == limit * q
           e == q * price
           res == ReservedCash({})'
<1>12. b = a - c /\ e <= c /\ a \in Nat /\ b \in Int /\ c \in Nat /\ e \in Nat /\ pay = e + fee
  <2> HIDE DEF limit, left
  <2>1. b = a - c
    BY <1>1, <1>3
  <2>2. e <= c
    BY <1>1, <1>2, <1>3
  <2> QED
    BY <1>1, <1>3, <2>1, <2>2
<1>13. Slack' >= Slack /\ Slack' \in Int
  <2>1. Slack = cash - (a + spare + others) /\ Slack' = (cash - pay) - res
        /\ res <= others + b + (spare - fee) /\ res \in Nat
    BY <1>2, <1>10, <1>11
  <2> HIDE DEF a, b, c, e, res, pay, spare, others
  <2> QED
    BY <1>1, <1>3, <1>12, <2>1
<1> QED
  BY <1>4, <1>13, SlackKept

\* Orders that reserve the same or stop buying leave the slack to the cash.
LEMMA SlackFollowsCash ==
  ASSUME BookInv, MoneyInv, cash' \in Nat, cash' >= cash, IsFiniteSet(DOMAIN orders'),
         Buying(orders') \subseteq Buying(orders),
         \A p \in Buying(orders') : ReservedBy(orders'[p]) = ReservedBy(orders[p])
  PROVE  Slack' >= Min({0, Slack})
<1> DEFINE now == ReservedCash({})'
           was == ReservedCash({})
           os == orders'
<1>1. SumFunctionOnSet(Reserve(os), Buying(os)) <= SumFunctionOnSet(Reserve(orders), Buying(orders))
  <2>1. Buying(os) \subseteq Buying(orders)
        /\ \A p \in Buying(os) : ReservedBy(os[p]) = ReservedBy(orders[p])
    OBVIOUS
  <2> HIDE DEF os
  <2> QED
    BY <2>1, FewerBuying
<1>2. now = SumFunctionOnSet(Reserve(os), Buying(os))
  BY ReservedThen
<1>3. was = SumFunctionOnSet(Reserve(orders), Buying(orders))
  <2>1. Buying(orders) \ {} = Buying(orders)
    OBVIOUS
  <2> QED
    BY <2>1, ReservedCashOf
<1>4. was \in Nat
  BY ReservedCashNat
<1>5. now \in Nat
  <2> DEFINE T == Buying(os)
             g == Reserve(os)
  <2>1. T \subseteq DOMAIN orders /\ \A p \in T : g[p] = ReservedBy(orders[p])
    BY DEF Buying, Reserve
  <2>2. \A p \in T : g[p] \in Nat
    <3>1. \A p \in DOMAIN orders : Reserve(orders)[p] = ReservedBy(orders[p])
      BY DEF Reserve
    <3> QED
      BY <2>1, <3>1, ReservedCashNat
  <2>3. IsFiniteSet(T)
    BY <2>1, ReservedCashNat
  <2> HIDE DEF T, g
  <2>4. SumFunctionOnSet(g, T) \in Nat
    BY <2>2, <2>3, SumNat
  <2> QED
    BY <1>2, <2>4 DEF T, g
<1>6. Slack = cash - was /\ Slack' = cash' - now
  BY DEF Slack
<1> HIDE DEF now, was
<1>7. Slack' \in Int /\ Slack' >= Slack
  BY <1>1, <1>2, <1>3, <1>4, <1>5, <1>6 DEF MoneyInv
<1> QED
  BY <1>7, SlackKept

\* A fill of a SELL touches no reservation; it takes cash only if it costs more in
\* fees than it brings (order_service.py:239-241).
LEMMA SellFillMoney ==
  ASSUME BookInv, MoneyInv, LotsInv, NEW f \in FillIds, NEW o \in DOMAIN orders, NEW price \in Prices,
         NEW fee \in Fees, NEW q \in 1..Unfilled(o), NEW when \in Times,
         Fill(f, o, q, price, fee, when), orders[o].side = "SELL"
  PROVE  MoneyInv' /\ (Slack' >= Min({0, Slack}) \/ CostlySale)
<1> DEFINE earn == q * price
<1>1. /\ o \in Pending /\ orders[o] \in Order /\ q \in Nat \ {0}
      /\ fee \in Nat /\ price \in Nat /\ DOMAIN orders' = DOMAIN orders
      /\ SameTerms(orders[o], orders'[o]) /\ orders'[o].filled = orders[o].filled + q
      /\ \A p \in DOMAIN orders : p # o => orders'[p] = orders[p]
  BY FillOrders
<1>2. /\ fee <= earn + cash /\ cash' = cash + (earn - fee) /\ UNCHANGED observed
      /\ positions' = [positions EXCEPT ![orders[o].symbol] = @ - q]
  BY DEF Fill, FillAllowed, ApplyFill, CashFlow
<1>3. earn \in Nat /\ cash \in Nat
  BY <1>1 DEF MoneyInv
<1> HIDE DEF earn
<1>4. cash' \in Nat
  BY <1>1, <1>2, <1>3
<1>5. IsFiniteSet(Held')
  <2>1. \A x \in Symbols : x # orders[o].symbol => positions'[x] = positions[x]
    BY <1>2 DEF LotsInv
  <2> QED
    BY <2>1, HeldStaysFinite
<1>6. MoneyInv'
  BY <1>1, <1>2, <1>4, <1>5 DEF MoneyInv
<1>7. CASE cash' >= cash
  <2>1. o \notin Buying(orders')
    BY <1>1 DEF Buying, SameTerms
  <2>2. \A p \in Buying(orders') : p \in DOMAIN orders /\ p # o /\ orders'[p] = orders[p]
    BY <1>1, <2>1 DEF Buying
  <2>3. Buying(orders') \subseteq Buying(orders)
        /\ \A p \in Buying(orders') : ReservedBy(orders'[p]) = ReservedBy(orders[p])
    BY <2>2 DEF Buying
  <2>4. IsFiniteSet(DOMAIN orders')
    BY <1>1 DEF MoneyInv
  <2> QED
    BY <1>4, <1>6, <1>7, <2>3, <2>4, SlackFollowsCash
<1>8. CASE cash' < cash
  <2>1. orders[o].filled \in Nat
    BY <1>1 DEF Order
  <2>2. orders'[o].filled > orders[o].filled
    BY <1>1, <2>1
  <2> QED
    BY <1>1, <1>6, <1>8, <2>2 DEF CostlySale
<1> QED
  BY <1>3, <1>4, <1>7, <1>8

\* A step that changes at most the status of one order keeps all the money.
LEMMA StatusMoney ==
  ASSUME BookInv, MoneyInv, NEW o \in Pending,
         NEW status \in {"CANCEL_PENDING", "CANCELED", "REJECTED"}, SetStatus(o, status),
         UNCHANGED <<cash, observed, positions>>
  PROVE  MoneyInv' /\ Slack' >= Min({0, Slack})
<1> DEFINE new == [orders[o] EXCEPT !.status = status]
<1>1. orders[o] \in Order /\ orders[o].status \in ACTIVE /\ o \in DOMAIN orders
  BY DEF Pending, BookInv, BookTypeOK
<1>2. /\ new.side = orders[o].side /\ new.limit_price = orders[o].limit_price
      /\ new.quantity = orders[o].quantity /\ new.filled = orders[o].filled
      /\ new.fees = orders[o].fees /\ new.fee_budget = orders[o].fee_budget
  BY <1>1 DEF Order
<1>3. orders' = [orders EXCEPT ![o] = new]
  BY DEF SetStatus
<1> HIDE DEF new
<1>4. DOMAIN orders' = DOMAIN orders /\ \A p \in DOMAIN orders : orders'[p] = IF p = o THEN new ELSE orders[p]
  BY <1>3
<1>5. MoneyInv'
  BY <1>4 DEF MoneyInv, Held
<1>6. Buying(orders') \subseteq Buying(orders)
  BY <1>1, <1>2, <1>4 DEF Buying
<1>7. \A p \in Buying(orders') : ReservedBy(orders'[p]) = ReservedBy(orders[p])
  BY <1>2, <1>4, <1>6 DEF Buying, ReservedBy
<1>8. cash' \in Nat /\ cash' >= cash /\ IsFiniteSet(DOMAIN orders')
  BY <1>4 DEF MoneyInv
<1> QED
  BY <1>5, <1>6, <1>7, <1>8, SlackFollowsCash

\* A step that leaves the orders and does not spend keeps all the money.
LEMMA OthersMoney ==
  ASSUME BookInv, MoneyInv, UNCHANGED orders, cash' \in Nat, cash' >= cash
  PROVE  Slack' >= Min({0, Slack})
<1>1. /\ Buying(orders') \subseteq Buying(orders) /\ IsFiniteSet(DOMAIN orders')
      /\ \A p \in Buying(orders') : ReservedBy(orders'[p]) = ReservedBy(orders[p])
  BY DEF MoneyInv
<1> QED
  BY <1>1, SlackFollowsCash

\* The value of the account is a natural.
LEMMA EquityNat ==
  ASSUME BookInv, LotsInv, MoneyInv
  PROVE  Equity \in Nat
<1> DEFINE f == [s \in Symbols |-> positions[s] * quotes[s].price]
           H == Held
<1>1. IsFiniteSet(H) /\ H \subseteq Symbols
  BY DEF MoneyInv, Held
<1>2. \A s \in H : f[s] \in Nat
  <2> SUFFICES ASSUME NEW s \in H PROVE f[s] \in Nat
    OBVIOUS
  <2>1. positions[s] \in Nat /\ quotes[s].price \in Nat
    BY <1>1 DEF LotsInv, BookInv, BookTypeOK
  <2> QED
    BY <1>1, <2>1
<1>3. Equity = cash + SumFunctionOnSet(f, H)
  BY DEF Equity
<1> HIDE DEF f, H
<1>4. SumFunctionOnSet(f, H) \in Nat
  BY <1>1, <1>2, SumNat
<1> QED
  BY <1>3, <1>4 DEF MoneyInv

-----------------------------------------------------------------------------
(* The ledger. *)

LedgerInv == BookInv /\ LotsInv /\ MoneyInv

\* A step that moves neither the orders nor the books.
LEMMA BooksRest ==
  ASSUME LedgerInv, UNCHANGED <<orders, lots, positions, cash>>,
         observed' \subseteq [time : Times, equity : Nat]
  PROVE  LotsInv' /\ MoneyInv' /\ Slack' >= Min({0, Slack})
<1>1. LotsInv'
  <2>1. \A p \in Pending' : /\ p \in Pending /\ SameTerms(orders[p], orders'[p])
                            /\ orders'[p].filled = orders[p].filled
    BY DEF Pending, SameTerms
  <2> QED
    BY <2>1, StillCovered DEF LedgerInv
<1>2. MoneyInv'
  BY DEF LedgerInv, MoneyInv, Held
<1>3. cash' \in Nat /\ cash' >= cash
  BY DEF LedgerInv, MoneyInv
<1> QED
  BY <1>1, <1>2, <1>3, OthersMoney DEF LedgerInv

\* What each operation does to the books.
LEMMA TradeKeepsBooks ==
  ASSUME LedgerInv, NEW when \in Times, Trade(when)
  PROVE  LotsInv' /\ MoneyInv' /\ (Slack' >= Min({0, Slack}) \/ CostlySale)
<1> USE DEF LedgerInv
<1>0. OrdersApart
  BY BookApart
<1>1. CASE \E r \in Requests : Submit(r, when)
  BY <1>1, SubmitLots, SubmitMoney
<1>2. ASSUME NEW f \in FillIds, NEW o \in DOMAIN orders, NEW price \in Prices, NEW fee \in Fees,
             NEW q \in 1..Unfilled(o), Fill(f, o, q, price, fee, when)
      PROVE  LotsInv' /\ MoneyInv' /\ (Slack' >= Min({0, Slack}) \/ CostlySale)
  <2>1. orders[o].side \in {"BUY", "SELL"}
    BY DEF BookInv, BookTypeOK, Order
  <2>0. q \in Nat
    BY <1>2, FillOrders
  <2>2. CASE orders[o].side = "BUY"
    BY <1>0, <1>2, <2>0, <2>2, BuyFillLots, BuyFillMoney
  <2>3. CASE orders[o].side = "SELL"
    BY <1>0, <1>2, <2>0, <2>3, SellFillLots, SellFillMoney
  <2> QED
    BY <2>1, <2>2, <2>3
<1>3. ASSUME NEW o \in DOMAIN orders, RequestCancel(o, when) \/ ConfirmCancel(o, when)
      PROVE  LotsInv' /\ MoneyInv' /\ Slack' >= Min({0, Slack})
  <2> PICK kind \in {"ORDER_CANCEL_REQUESTED", "ORDER_CANCELED"},
           status \in {"CANCEL_PENDING", "CANCELED"} : CancelWith(kind, status, o, when)
    BY <1>3 DEF RequestCancel, ConfirmCancel
  <2>1. /\ o \in Pending /\ SetStatus(o, status)
        /\ UNCHANGED <<lots, positions>> /\ UNCHANGED <<cash, observed, positions>>
    BY DEF CancelWith, CancelAllowed
  <2> QED
    BY <1>0, <2>1, StatusLots, StatusMoney
<1>4. ASSUME NEW o \in DOMAIN orders, NEW reason \in Reasons, Reject(o, reason, when)
      PROVE  LotsInv' /\ MoneyInv' /\ Slack' >= Min({0, Slack})
  <2>1. /\ o \in Pending /\ SetStatus(o, "REJECTED")
        /\ UNCHANGED <<lots, positions>> /\ UNCHANGED <<cash, observed, positions>>
    BY <1>4 DEF Reject, RejectAllowed
  <2> QED
    BY <1>0, <2>1, StatusLots, StatusMoney
<1>5. ASSUME NEW id \in ActionIds, NEW a \in Entitlements, CorporateAction(id, a, when)
      PROVE  LotsInv' /\ MoneyInv' /\ Slack' >= Min({0, Slack})
  <2>1. LotsInv'
    BY <1>5, CorporateActionLots
  <2>2. cash' = cash + a.net /\ a.net \in Nat /\ UNCHANGED orders /\ UNCHANGED observed
    BY <1>5, EntitlementAssumption DEF CorporateAction
  <2>3. cash' \in Nat /\ cash' >= cash
    BY <2>2 DEF MoneyInv
  <2>4. IsFiniteSet(Held')
    <3>1. \A x \in Symbols : x # a.symbol => positions'[x] = positions[x]
      BY <1>5 DEF CorporateAction, LotsInv
    <3> QED
      BY <3>1, HeldStaysFinite
  <2>5. MoneyInv'
    BY <2>2, <2>3, <2>4 DEF MoneyInv
  <2> QED
    BY <2>1, <2>2, <2>3, <2>5, OthersMoney
<1> QED
  BY <1>1, <1>2, <1>3, <1>4, <1>5 DEF Trade

\* Halts, checks, reconciliations and resumptions leave the books alone.
LEMMA ControlKeepsBooks ==
  ASSUME LedgerInv, NEW when \in Times, Control(when)
  PROVE  LotsInv' /\ MoneyInv' /\ Slack' >= Min({0, Slack})
<1>1. UNCHANGED <<orders, lots, positions, cash>>
  BY DEF Control, Halt, Monitor, Reconcile, Resume, ledger
<1>2. observed' \subseteq [time : Times, equity : Nat]
  <2>1. CASE UNCHANGED observed
    BY <2>1 DEF LedgerInv, MoneyInv
  <2>2. CASE Monitor(when)
    <3>1. [time |-> when, equity |-> Equity] \in [time : Times, equity : Nat]
      BY EquityNat DEF LedgerInv
    <3>2. observed' \subseteq observed \cup {[time |-> when, equity |-> Equity]}
      BY <2>2 DEF Monitor
    <3> QED
      BY <3>1, <3>2 DEF LedgerInv, MoneyInv
  <2> QED
    BY <2>1, <2>2 DEF Control, Halt, Reconcile, Resume
<1> QED
  BY <1>1, <1>2, BooksRest

\* Every step keeps the shares and the cash, and the reservations as far as they are kept.
LEMMA BooksNext ==
  ASSUME LedgerInv, [Next]_vars
  PROVE  LotsInv' /\ MoneyInv' /\ (Slack' >= Min({0, Slack}) \/ CostlySale)
<1>1. CASE \E q \in Quotes : Quote(q)
  <2>1. UNCHANGED <<orders, lots, positions, cash>> /\ observed' = observed
    BY <1>1 DEF Quote
  <2> QED
    BY <2>1, BooksRest DEF LedgerInv, MoneyInv
<1>2. CASE \E when \in Times : Trade(when)
  BY <1>2, TradeKeepsBooks
<1>3. CASE \E when \in Times : Control(when)
  BY <1>3, ControlKeepsBooks
<1>4. CASE UNCHANGED vars
  <2>1. UNCHANGED <<orders, lots, positions, cash>> /\ observed' = observed
    BY <1>4 DEF vars
  <2> QED
    BY <2>1, BooksRest DEF LedgerInv, MoneyInv
<1> QED
  BY <1>1, <1>2, <1>3, <1>4 DEF Next

\* A newly opened account holds no shares and its opening cash.
LEMMA BooksInit ==
  ASSUME Init
  PROVE  LotsInv /\ MoneyInv
<1>1. DOMAIN orders = {} /\ Held = {} /\ Pending = {}
  BY DEF Init, Held, Pending
<1>2. MoneyInv
  BY <1>1, FS_EmptySet, MoneyAssumption DEF MoneyInv, Init
<1>3. lots \in Seq(Lot) /\ DOMAIN lots = {}
  BY DEF Init
<1>4. PositionsAreLots
  <2> SUFFICES ASSUME NEW s \in Symbols
               PROVE  positions[s] = SharesIn({i \in DOMAIN lots : lots[i].symbol = s})
    BY DEF PositionsAreLots
  <2>1. {i \in DOMAIN lots : lots[i].symbol = s} = {}
    BY <1>3
  <2>2. positions[s] = 0
    BY DEF Init
  <2> QED
    BY <2>1, <2>2, SumEmpty DEF SharesIn
<1>5. SellsStayCovered
  BY <1>1 DEF SellsStayCovered
<1>6. positions \in [Symbols -> Nat]
  BY DEF Init
<1> QED
  BY <1>2, <1>3, <1>4, <1>5, <1>6 DEF LotsInv

\* The inductive invariant of the whole ledger.
THEOREM LedgerInvariant == Spec => []LedgerInv
<1>1. Init => LedgerInv
  BY BookInit, BooksInit DEF LedgerInv
<1>2. LedgerInv /\ [Next]_vars => LedgerInv'
  <2> SUFFICES ASSUME LedgerInv, [Next]_vars PROVE LedgerInv'
    OBVIOUS
  <2>1. BookInv'
    BY BookNext DEF LedgerInv
  <2>2. LotsInv' /\ MoneyInv'
    BY BooksNext
  <2> QED
    BY <2>1, <2>2 DEF LedgerInv
<1> QED
  BY <1>1, <1>2, PTL DEF Spec

\* Type correctness of the whole account: long-only and without debt
\* (project, order_service.py:52-105).
THEOREM AccountTyped == Spec => []TypeOK
<1>1. LedgerInv => TypeOK
  BY DEF LedgerInv, BookInv, LotsInv, MoneyInv, TypeOK, Lot
<1> QED
  BY <1>1, LedgerInvariant, PTL

\* Whatever is bought, sold in parts or scaled by corporate actions, no share is
\* held outside the lots and no lot holds a share twice (order_service.py:73-86, 290-305).
THEOREM LotsAddUp == Spec => []PositionsAreLots
<1>1. LedgerInv => PositionsAreLots
  BY DEF LedgerInv, LotsInv
<1> QED
  BY <1>1, LedgerInvariant, PTL

\* Settlement, checked once at submit, holds for every later fill (order_service.py:207-209).
THEOREM SellsCovered == Spec => []SellsStayCovered
<1>1. LedgerInv => SellsStayCovered
  BY DEF LedgerInv, LotsInv
<1> QED
  BY <1>1, LedgerInvariant, PTL

\* No step but a costly sale eats into what the active BUY orders have reserved
\* (order_service.py:108-112, 196-205, 234-241).
THEOREM ReservationsHold == Spec => ReservationsKept
<1>1. LedgerInv /\ [Next]_vars => [Slack' >= Min({0, Slack}) \/ CostlySale]_vars
  BY BooksNext
<1> QED
  BY <1>1, LedgerInvariant, PTL DEF Spec, ReservationsKept

-----------------------------------------------------------------------------
(* The service implements the life cycle of an order. *)

Quantities == UNION {1..r.quantity : r \in Requests}

\* The abstract state of one order, and of all of them.
LifeOf(o) == IF o \in DOMAIN orders
             THEN [quantity |-> orders[o].quantity, filled |-> orders[o].filled,
                   phase |-> Phase(orders[o].status)]
             ELSE [quantity |-> 0, filled |-> 0, phase |-> "unused"]
Life == [o \in OrderIds |-> LifeOf(o)]

\* The phase of an order is open or closing exactly while its status is active.
LEMMA PhaseOfStatus ==
  ASSUME NEW status \in ACTIVE \cup {"FILLED", "CANCELED", "REJECTED"}
  PROVE  /\ Phase(status) \in {"open", "closing"} <=> status \in ACTIVE
         /\ Phase(status) \in {"open", "closing", "closed"}
         /\ Phase(status) = "closed" <=> status \in {"FILLED", "CANCELED", "REJECTED"}
BY DEF Phase, ACTIVE

\* A step that moves one order along its life cycle and leaves the others alone is
\* a step of the life cycle.
LEMMA OneLifeMoves ==
  ASSUME NEW id \in OrderIds,
         \A p \in OrderIds \ {id} : LifeOf(p)' = LifeOf(p),
         Lifecycle!Open(id) \/ Lifecycle!Trade(id) \/ Lifecycle!AskCancel(id) \/ Lifecycle!Close(id)
  PROVE  Lifecycle!Next
BY DEF Lifecycle!Next, LifeOf

\* An accepted order opens a life that was unused.
LEMMA SubmitLives ==
  ASSUME BookInv, NEW r \in Requests, NEW when \in Times, Submit(r, when)
  PROVE  Lifecycle!Next
<1> DEFINE id == r.order_id
<1>1. id \in OrderIds /\ r.quantity \in Nat \ {0}
  BY RequestAssumption
<1>2. id \notin DOMAIN orders
  BY DEF Submit, BookInv, OrdersJournalled
<1>3. /\ DOMAIN orders' = DOMAIN orders \cup {id}
      /\ \A p \in DOMAIN orders' : orders'[p] = IF p = id THEN OrderOf(r, when) ELSE orders[p]
  BY DEF Submit
<1>4. \A p \in OrderIds \ {id} : LifeOf(p)' = LifeOf(p)
  BY <1>3 DEF LifeOf
<1>5. LifeOf(id)' = [quantity |-> r.quantity, filled |-> 0, phase |-> "open"]
  <2>1. orders'[id] = OrderOf(r, when) /\ id \in DOMAIN orders'
    BY <1>3
  <2>2. Phase("ACCEPTED") = "open"
    BY PhaseOfStatus DEF Phase
  <2> QED
    BY <2>1, <2>2 DEF LifeOf, OrderOf
<1>6. r.quantity \in Quantities
  BY <1>1 DEF Quantities
<1>7. Lifecycle!Open(id)
  BY <1>1, <1>2, <1>5, <1>6 DEF Lifecycle!Open, Lifecycle!Unused, LifeOf, Quantities
<1> QED
  BY <1>1, <1>4, <1>7, OneLifeMoves

\* What a change of one active order's status and execution does to the lives.
LEMMA ChangingLife ==
  ASSUME OrdersInv, NEW o \in Pending, NEW new, orders' = [orders EXCEPT ![o] = new]
  PROVE  /\ o \in OrderIds /\ o \in DOMAIN orders
         /\ \A p \in OrderIds \ {o} : LifeOf(p)' = LifeOf(p)
         /\ Life[o] = [quantity |-> orders[o].quantity, filled |-> orders[o].filled,
                       phase |-> Phase(orders[o].status)]
         /\ Life'[o] = [quantity |-> new.quantity, filled |-> new.filled,
                        phase |-> Phase(new.status)]
<1>1. o \in DOMAIN orders /\ DOMAIN orders' = DOMAIN orders /\ o \in OrderIds
  BY DEF Pending, OrdersInv
<1>2. \A p \in DOMAIN orders : orders'[p] = IF p = o THEN new ELSE orders[p]
  OBVIOUS
<1> QED
  BY <1>1, <1>2 DEF LifeOf, Life

\* An execution is a trade.
LEMMA FillLives ==
  ASSUME BookInv, NEW f \in FillIds, NEW o \in DOMAIN orders, NEW price \in Prices,
         NEW fee \in Fees, NEW q \in 1..Unfilled(o), NEW when \in Times,
         Fill(f, o, q, price, fee, when)
  PROVE  Lifecycle!Next
<1> DEFINE new == Executed(o, q, fee)
           total == orders[o].filled + q
<1>1. OrdersInv /\ o \in Pending
  BY OrdersInvParts DEF BookInv, Fill, FillAllowed
<1>2. Sound(orders[o]) /\ orders[o] \in Order /\ orders[o].status \in ACTIVE
  BY <1>1 DEF OrdersInv, Sound, Pending
<1>3. orders' = [orders EXCEPT ![o] = new]
  BY DEF Fill, ApplyFill
<1>4. orders[o].quantity \in Nat /\ orders[o].filled \in Nat
  BY <1>2 DEF Order
<1>5. q \in Nat /\ q >= 1 /\ total <= orders[o].quantity
  BY <1>4 DEF Unfilled
<1>6. /\ new.quantity = orders[o].quantity /\ new.filled = total
      /\ new.status = StatusAfter(o, total)
  BY <1>2 DEF Executed, Order
<1>7. Phase(StatusAfter(o, total)) = IF total = orders[o].quantity THEN "closed"
                                     ELSE Phase(orders[o].status)
  BY <1>2 DEF StatusAfter, Phase, ACTIVE
<1>8. q \in Quantities
  <2>1. PICK r \in Requests : orders[o].quantity = r.quantity
    BY <1>1 DEF OrdersInv, OrdersRequested
  <2>2. q \in 1..r.quantity
    BY <1>4, <1>5, <2>1
  <2> QED
    BY <2>1, <2>2 DEF Quantities
<1>9. Lifecycle!Trade(o)
  <2> HIDE DEF new
  <2>0. /\ Life[o] = [quantity |-> orders[o].quantity, filled |-> orders[o].filled,
                      phase |-> Phase(orders[o].status)]
        /\ Life'[o] = [quantity |-> new.quantity, filled |-> new.filled,
                       phase |-> Phase(new.status)]
    BY <1>1, <1>3, ChangingLife
  <2>1. Life[o].phase \in {"open", "closing"}
    BY <1>2, <2>0, PhaseOfStatus
  <2>2. Life[o].filled + q <= Life[o].quantity
    BY <1>5, <2>0
  <2>3. Life'[o] = [Life[o] EXCEPT !.filled = Life[o].filled + q,
                                   !.phase  = IF Life[o].filled + q = Life[o].quantity
                                              THEN "closed" ELSE Life[o].phase]
    <3>1. Life'[o] = [quantity |-> orders[o].quantity, filled |-> total,
                      phase |-> IF total = orders[o].quantity THEN "closed"
                                ELSE Phase(orders[o].status)]
      BY <1>6, <1>7, <2>0
    <3>2. Life[o].filled + q = total /\ Life[o].quantity = orders[o].quantity
      BY <2>0
    <3>3. [Life[o] EXCEPT !.filled = total,
                          !.phase  = IF total = orders[o].quantity THEN "closed"
                                     ELSE Phase(orders[o].status)] = Life'[o]
      <4> DEFINE one  == Life[o]
                 then == IF total = orders[o].quantity THEN "closed" ELSE Phase(orders[o].status)
      <4>1. one = [quantity |-> orders[o].quantity, filled |-> orders[o].filled,
                   phase |-> Phase(orders[o].status)]
        BY <2>0
      <4>2. Life'[o] = [quantity |-> orders[o].quantity, filled |-> total, phase |-> then]
        BY <3>1
      <4>3. [one EXCEPT !.filled = total, !.phase = then]
              = [quantity |-> orders[o].quantity, filled |-> total, phase |-> then]
        <5> DEFINE quantity == orders[o].quantity
                   filled   == orders[o].filled
                   phase    == Phase(orders[o].status)
        <5>1. one = [quantity |-> quantity, filled |-> filled, phase |-> phase]
          BY <4>1
        <5>2. [one EXCEPT !.filled = total, !.phase = then]
                = [quantity |-> quantity, filled |-> total, phase |-> then]
          <6> DEFINE traded == [one EXCEPT !.filled = total]
          <6> HIDE DEF one, then, total, quantity, filled, phase
          <6>1. traded = [quantity |-> quantity, filled |-> total, phase |-> phase]
            BY <5>1
          <6>2. [traded EXCEPT !.phase = then]
                  = [quantity |-> quantity, filled |-> total, phase |-> then]
            <7> HIDE DEF traded
            <7> QED
              BY <6>1
          <6>3. [traded EXCEPT !.phase = then] = [one EXCEPT !.filled = total, !.phase = then]
            OBVIOUS
          <6> QED
            BY <6>2, <6>3
        <5> QED
          BY <5>2
      <4> QED
        BY <4>2, <4>3
    <3>4. Life[o].phase = Phase(orders[o].status)
      BY <2>0
    <3> HIDE DEF total, Life
    <3> QED
      BY <3>2, <3>3, <3>4
  <2> QED
    BY <1>8, <2>1, <2>2, <2>3 DEF Lifecycle!Trade, Lifecycle!Alive, Life, LifeOf, Quantities
<1> QED
  <2> HIDE DEF new
  <2> QED
    BY <1>1, <1>3, <1>9, ChangingLife, OneLifeMoves

\* A cancel request asks, a confirmation or a rejection closes.
LEMMA StatusLives ==
  ASSUME OrdersInv, NEW o \in Pending,
         NEW status \in {"CANCEL_PENDING", "CANCELED", "REJECTED"}, SetStatus(o, status)
  PROVE  Lifecycle!Next
<1> DEFINE new == [orders[o] EXCEPT !.status = status]
<1>1. Sound(orders[o]) /\ orders[o] \in Order /\ orders[o].status \in ACTIVE
  BY DEF OrdersInv, Sound, Pending
<1>2. /\ new.quantity = orders[o].quantity /\ new.filled = orders[o].filled
      /\ new.status = status
  BY <1>1 DEF Order
<1>3. orders' = [orders EXCEPT ![o] = new]
  BY DEF SetStatus
<1> HIDE DEF new
<1>0. /\ Life[o] = [quantity |-> orders[o].quantity, filled |-> orders[o].filled,
                    phase |-> Phase(orders[o].status)]
      /\ Life'[o] = [quantity |-> new.quantity, filled |-> new.filled,
                     phase |-> Phase(new.status)]
  BY <1>3, ChangingLife
<1>4. Life[o].phase \in {"open", "closing"}
  BY <1>0, <1>1, PhaseOfStatus
<1>5. Life'[o] = [Life[o] EXCEPT !.phase = Phase(status)]
  BY <1>0, <1>2
<1>6. Phase(status) = IF status = "CANCEL_PENDING" THEN "closing" ELSE "closed"
  BY DEF Phase
<1>7. Lifecycle!AskCancel(o) \/ Lifecycle!Close(o)
  BY <1>4, <1>5, <1>6 DEF Lifecycle!AskCancel, Lifecycle!Close, Lifecycle!Alive, Life, LifeOf
<1> QED
  BY <1>3, <1>7, ChangingLife, OneLifeMoves

\* Whatever the service does, each order takes a step of its life cycle or none.
LEMMA StepLives ==
  ASSUME BookInv, [Next]_vars
  PROVE  [Lifecycle!Next]_Life
<1>0. CASE UNCHANGED orders
  BY <1>0 DEF Life, LifeOf
<1>1. CASE \E q \in Quotes : Quote(q)
  BY <1>0, <1>1 DEF Quote
<1>2. ASSUME NEW when \in Times, Trade(when)
      PROVE  [Lifecycle!Next]_Life
  <2>1. CASE \E r \in Requests : Submit(r, when)
    BY <2>1, SubmitLives
  <2>2. CASE \E f \in FillIds, o \in DOMAIN orders, price \in Prices, fee \in Fees :
                \E q \in 1..Unfilled(o) : Fill(f, o, q, price, fee, when)
    BY <2>2, FillLives
  <2>3. ASSUME NEW o \in DOMAIN orders,
               \/ RequestCancel(o, when)
               \/ ConfirmCancel(o, when)
               \/ \E reason \in Reasons : Reject(o, reason, when)
        PROVE  [Lifecycle!Next]_Life
    <3>1. OrdersInv
      BY OrdersInvParts DEF BookInv
    <3>2. o \in Pending /\ \E status \in {"CANCEL_PENDING", "CANCELED", "REJECTED"} :
                              SetStatus(o, status)
      BY <2>3 DEF RequestCancel, ConfirmCancel, CancelWith, CancelAllowed, Reject, RejectAllowed
    <3> QED
      BY <3>1, <3>2, StatusLives
  <2>4. CASE \E id \in ActionIds, a \in Entitlements : CorporateAction(id, a, when)
    BY <1>0, <2>4 DEF CorporateAction
  <2> QED
    BY <1>2, <2>1, <2>2, <2>3, <2>4 DEF Trade
<1>3. ASSUME NEW when \in Times, Control(when)
      PROVE  [Lifecycle!Next]_Life
  BY <1>0, <1>3 DEF Control, Halt, Monitor, Reconcile, Resume, ledger
<1>4. CASE UNCHANGED vars
  BY <1>0, <1>4 DEF vars
<1> QED
  BY <1>1, <1>2, <1>3, <1>4 DEF Next

\* The order service implements the life cycle of an order: whatever the order of
\* fills, cancellations and rejections, an order trades up to its quantity, closes
\* once and is never touched again (order_service.py:61-72).
THEOREM ServiceImplementsLifecycle == Spec => LifecycleSpec
<1>1. Init => Lifecycle!Init
  BY DEF Init, Lifecycle!Init, Lifecycle!Unused
<1>2. BookInv /\ [Next]_vars => [Lifecycle!Next]_Life
  BY StepLives
<1> QED
  BY <1>1, <1>2, BookInvariant, PTL DEF Spec, LifecycleSpec, Lifecycle!Spec, Life, LifeOf
-----------------------------------------------------------------------------
(* The bridge. What it relies on at the venue is proved in PaperVenueProofs, for *)
(* any orders it may hand over.                                                  *)

\* The venue's proofs, for the orders that may be handed over.
V == INSTANCE PaperVenueProofs WITH Offers <- [id : OrderIds, order : Handed]

VenueBooks == V!VenueInv /\ V!ReportInv

ClosingKinds == {"VENUE_CANCELED", "VENUE_REJECTED"}
ReportKeys == {"VENUE_FILL", "VENUE_CANCELED", "VENUE_REJECTED"} \X OrderIds \X Nat

\* An event of the local journal; the venue decides what an execution or a halt is called.
LocalEvent ==
       [kind : {"ACCOUNT_OPENED", "RESUMED"}, time : Nat]
  \cup [kind : {"ORDER_ACCEPTED", "ORDER_CANCEL_REQUESTED"}, id : OrderIds, time : Times]
  \cup [kind : {"ORDER_CANCELED"}, id : OrderIds, time : Nat]
  \cup [kind : {"ORDER_REJECTED"}, id : OrderIds, reason : {"venue"}, time : Nat]
  \cup [kind : {"FILL"}, id : ReportKeys, order : OrderIds, time : Nat]
  \cup [kind : {"CORPORATE_ACTION"}, id : ActionIds, action : Entitlements, time : Nat]
  \cup [kind : {"HALT"}, id : ReportKeys \cup {NoReport}, time : Nat]
  \cup [kind : {"RECONCILIATION"}, matched : BOOLEAN, time : Nat]

LocalBooks ==
  /\ journal \in Seq(LocalEvent)
  /\ DOMAIN orders \subseteq OrderIds
  /\ \A o \in DOMAIN orders :
       /\ orders[o] \in Handed /\ orders[o].filled <= orders[o].quantity
       /\ orders[o].status = "FILLED" <=> orders[o].filled = orders[o].quantity
  /\ OrdersJournalled
  /\ \A i \in DOMAIN journal : journal[i].kind = "ORDER_ACCEPTED" => journal[i].id \in DOMAIN orders

\* The venue's orders are the account's, and an order is open here while it is there.
OrdersShared ==
  /\ \A o \in DOMAIN venueOrders :
       /\ o \in DOMAIN orders /\ venueOrders[o].quantity = orders[o].quantity
       /\ Venue!IsActive(o) => o \in Pending
  /\ \A o \in DOMAIN orders : o \notin DOMAIN venueOrders => o \in Pending

\* Whatever closed or filled an order here was reported there.
PostedIsReported ==
  \A i \in DOMAIN journal :
    /\ journal[i].kind = "FILL" =>
         \E k \in Venue!Reports : /\ venueJournal[k].kind = "VENUE_FILL"
                                  /\ venueJournal[k].id = journal[i].id
    /\ journal[i].kind = "ORDER_CANCELED" =>
         \E k \in Venue!Reports : /\ venueJournal[k].kind = "VENUE_CANCELED"
                                  /\ venueJournal[k].order = journal[i].id
    /\ journal[i].kind = "ORDER_REJECTED" =>
         \E k \in Venue!Reports : /\ venueJournal[k].kind = "VENUE_REJECTED"
                                  /\ venueJournal[k].order = journal[i].id

BookedFirst ==
  \A j, k \in Venue!Reports : j < k /\ Booked(venueJournal[k]) => Booked(venueJournal[j])

BookedFills(o) ==
  {k \in DOMAIN venueJournal : /\ venueJournal[k].kind = "VENUE_FILL" /\ venueJournal[k].order = o
                               /\ Booked(venueJournal[k])}

\* The shares of these executions.
SharesOf(fills) == SumFunctionOnSet([k \in fills |-> venueJournal[k].quantity], fills)

FilledByBooked == \A o \in DOMAIN orders : orders[o].filled = SharesOf(BookedFills(o))

UnbookedIsPending == \A k \in Unbooked : venueJournal[k].order \in Pending

BridgeInv ==
  /\ VenueBooks /\ LocalBooks /\ OrdersShared /\ PostedIsReported
  /\ BookedFirst /\ FilledByBooked /\ UnbookedIsPending

-----------------------------------------------------------------------------
(* The venue's operations are the same under either name. *)

\* What is active, and what a report is.
LEMMA SameViews ==
  /\ \A o : Venue!IsActive(o) <=> V!IsActive(o)
  /\ Venue!Reports = V!Reports
  /\ \A kind, id : Venue!HasEvent(kind, id) <=> V!HasEvent(kind, id)
BY DEF Venue!IsActive, V!IsActive, Venue!VenueActive, V!VenueActive, Venue!Reports, V!Reports,
       Venue!HasEvent, V!HasEvent

\* The venue's accept().
LEMMA SameAccept == ASSUME NEW o, NEW order PROVE Venue!Accept(o, order) <=> V!Accept(o, order)
BY DEF Venue!Accept, V!Accept, Venue!HasEvent, V!HasEvent, Venue!Write, V!Write

\* Its cancel() and reject().
LEMMA SameClose ==
  ASSUME NEW kind, NEW status, NEW o, NEW when
  PROVE  Venue!Close(kind, status, o, when) <=> V!Close(kind, status, o, when)
BY SameViews DEF Venue!Close, V!Close, Venue!QuietSince, V!QuietSince, Venue!Write, V!Write

\* Its corporate_action().
LEMMA SameCorporateAction ==
  ASSUME NEW id, NEW a, NEW when
  PROVE  Venue!CorporateAction(id, a, when) <=> V!CorporateAction(id, a, when)
<1>1. \A l : Venue!Entitled(l, a) = V!Entitled(l, a)
  BY DEF Venue!Entitled, V!Entitled
<1> QED
  BY <1>1, SameViews DEF Venue!CorporateAction, V!CorporateAction, Venue!Write, V!Write

\* What the library's folds come to does not depend on where they are named.
LEMMA SameFolds ==
  ASSUME NEW S, NEW f
  PROVE  /\ Venue!Max(S) = V!Max(S) /\ Venue!Min(S) = V!Min(S)
         /\ Venue!SumFunctionOnSet(f, S) = V!SumFunctionOnSet(f, S)
         /\ SumFunctionOnSet(f, S) = V!SumFunctionOnSet(f, S)
<1>1. Venue!Max(S) = V!Max(S) /\ Venue!Min(S) = V!Min(S)
  BY DEF Venue!Max, V!Max, Venue!Min, V!Min
<1>2. Venue!SumFunctionOnSet(f, S) = V!SumFunctionOnSet(f, S)
  BY Zenon DEF Venue!SumFunctionOnSet, V!SumFunctionOnSet, Venue!FoldFunctionOnSet,
     V!FoldFunctionOnSet, Venue!MapThenFoldSet, V!MapThenFoldSet
<1>3. SumFunctionOnSet(f, S) = V!SumFunctionOnSet(f, S)
  BY Zenon DEF SumFunctionOnSet, V!SumFunctionOnSet, FoldFunctionOnSet, V!FoldFunctionOnSet,
     MapThenFoldSet, V!MapThenFoldSet
<1> QED
  BY <1>1, <1>2, <1>3

\* The venue's match(), with the allocation and the executions it computes.
LEMMA SameMatch == ASSUME NEW tick PROVE Venue!Match(tick) <=> V!Match(tick)
<1>1. \A o : Venue!PriceFor(o, tick) = V!PriceFor(o, tick)
  BY DEF Venue!PriceFor, V!PriceFor, Venue!ExecutionPrice, V!ExecutionPrice
<1>2. \A o : Venue!Eligible(o, tick) <=> V!Eligible(o, tick)
  BY <1>1 DEF Venue!Eligible, V!Eligible, Venue!VenueActive, V!VenueActive
<1>3. \A o : Venue!Remaining(o) = V!Remaining(o) /\ Venue!Turn(o) = V!Turn(o)
  BY DEF Venue!Remaining, V!Remaining, Venue!Turn, V!Turn
<1>4. \A S : Venue!Demand(S) = V!Demand(S)
  <2> TAKE S
  <2>1. [o \in S |-> Venue!Remaining(o)] = [o \in S |-> V!Remaining(o)]
    BY <1>3
  <2> QED
    BY <2>1, SameFolds, Zenon DEF Venue!Demand, V!Demand
<1>5. Venue!Allocation(tick) = V!Allocation(tick)
  <2> DEFINE before(o) == {p \in DOMAIN venueOrders : Venue!Turn(p) < Venue!Turn(o) /\ Venue!Eligible(p, tick)}
             ahead(o) == {p \in DOMAIN venueOrders : V!Turn(p) < V!Turn(o) /\ V!Eligible(p, tick)}
             mine(o) == IF Venue!Eligible(o, tick)
                        THEN Venue!Min({Venue!Remaining(o), Venue!Max({0, tick.volume - Venue!Demand(before(o))})})
                        ELSE 0
             yours(o) == IF V!Eligible(o, tick)
                         THEN V!Min({V!Remaining(o), V!Max({0, tick.volume - V!Demand(ahead(o))})})
                         ELSE 0
  <2>1. \A o : before(o) = ahead(o)
    BY <1>2, <1>3
  <2> HIDE DEF before, ahead
  <2>2. \A o : mine(o) = yours(o)
    BY <2>1, <1>2, <1>3, <1>4, SameFolds, Zenon
  <2> HIDE DEF mine, yours
  <2>3. [o \in DOMAIN venueOrders |-> mine(o)] = [o \in DOMAIN venueOrders |-> yours(o)]
    BY <2>2
  <2> QED
    BY <2>3, Zenon DEF Venue!Allocation, V!Allocation, mine, yours, before, ahead
<1>6. \A o, q : Venue!FillEvent(o, q, tick) = V!FillEvent(o, q, tick)
  <2>1. \A buy, value : Venue!Fee(buy, value) = V!Fee(buy, value)
    <3> TAKE buy, value
    <3>1. Venue!Max({MinimumFee * 10000, value * CommissionRate})
            = V!Max({MinimumFee * 10000, value * CommissionRate})
      BY SameFolds
    <3> QED
      BY <3>1 DEF Venue!Fee, V!Fee
  <2> QED
    BY <1>1, <2>1, Zenon DEF Venue!FillEvent, V!FillEvent
<1>7. Venue!Executions(tick) = V!Executions(tick)
  <2> DEFINE step(u, i, fe(_, _)) ==
               IF i = 0 THEN << >>
               ELSE LET e == venueJournal[i]
                    IN  IF e.kind = "VENUE_ACCEPTED" /\ Venue!Allocation(tick)[e.order] > 0
                        THEN Append(u[i-1], fe(e.order, Venue!Allocation(tick)[e.order]))
                        ELSE u[i-1]
             mine(u, i) == step(u, i, LAMBDA o, q : Venue!FillEvent(o, q, tick))
             yours(u, i) == step(u, i, LAMBDA o, q : V!FillEvent(o, q, tick))
  <2>1. \A u, i : mine(u, i) = yours(u, i)
    BY <1>6, Zenon
  <2>2. Venue!Executions(tick) = (CHOOSE u : u = [i \in 0..Len(venueJournal) |-> mine(u, i)])[Len(venueJournal)]
    BY Zenon DEF Venue!Executions
  <2>3. V!Executions(tick) = (CHOOSE u : u = [i \in 0..Len(venueJournal) |-> yours(u, i)])[Len(venueJournal)]
    BY <1>5, Zenon DEF V!Executions
  <2> HIDE DEF mine, yours
  <2>4. \A u : [i \in 0..Len(venueJournal) |-> mine(u, i)] = [i \in 0..Len(venueJournal) |-> yours(u, i)]
    BY <2>1
  <2>5. (CHOOSE u : u = [i \in 0..Len(venueJournal) |-> mine(u, i)])
          = (CHOOSE u : u = [i \in 0..Len(venueJournal) |-> yours(u, i)])
    BY <2>4, Zenon
  <2> QED
    BY <2>2, <2>3, <2>5, Zenon
<1>8. \A l, e : Venue!Settle(l, e) = V!Settle(l, e)
  BY SMTT(60) DEF Venue!Settle, V!Settle, Venue!Max, V!Max, Venue!Min, V!Min,
     Venue!SumFunctionOnSet, V!SumFunctionOnSet, Venue!FoldFunctionOnSet,
     V!FoldFunctionOnSet, Venue!MapThenFoldSet, V!MapThenFoldSet
<1>9. \A fills : Venue!SettledAll(fills) = V!SettledAll(fills)
  BY <1>8, Zenon DEF Venue!SettledAll, V!SettledAll
<1> QED
  BY <1>5, <1>7, <1>9, Zenon DEF Venue!Match, V!Match, Venue!Write, V!Write

-----------------------------------------------------------------------------
(* What the bridge knows of the venue. *)

\* What the venue assumes of its surroundings holds of the account's.
LEMMA HandedAsOffered ==
  /\ MaxVenueEvents \in Nat /\ Times \subseteq Nat
  /\ Capital \in Nat \ {0} /\ MinimumFee \in Nat
  /\ CommissionRate \in Nat /\ SellTaxRate \in Nat /\ SlippageBps \in Nat
  /\ \A offer \in [id : OrderIds, order : Handed] :
       /\ offer.id \in OrderIds
       /\ {"symbol", "side", "quantity", "limit_price", "signal_at", "tick_size",
           "accepted_at", "filled", "status"} \subseteq DOMAIN offer.order
       /\ offer.order.symbol \in Symbols /\ offer.order.accepted_at \in Nat
       /\ offer.order.quantity \in Nat \ {0} /\ offer.order.tick_size \in Nat \ {0}
  /\ Ticks \subseteq [symbol : Symbols, time : Times, price : Nat \ {0}, volume : Nat,
                     buyable : BOOLEAN, sellable : BOOLEAN]
  /\ \A a \in Entitlements : /\ a.symbol \in Symbols /\ a.net \in Nat
                             /\ a.num \in Nat \ {0} /\ a.den \in Nat \ {0}
<1>1. ASSUME NEW offer \in [id : OrderIds, order : Handed]
      PROVE  /\ offer.id \in OrderIds
             /\ {"symbol", "side", "quantity", "limit_price", "signal_at", "tick_size",
                 "accepted_at", "filled", "status"} \subseteq DOMAIN offer.order
             /\ offer.order.symbol \in Symbols /\ offer.order.accepted_at \in Nat
             /\ offer.order.quantity \in Nat \ {0} /\ offer.order.tick_size \in Nat \ {0}
  <2>1. offer.id \in OrderIds /\ offer.order \in Handed
    OBVIOUS
  <2>2. Times \subseteq Nat
    BY TimesAssumption
  <2> QED
    BY <2>1, <2>2 DEF Handed
<1> QED
  BY <1>1, TimesAssumption, MoneyAssumption, MarketAssumption, EntitlementAssumption

\* The least of a set of places.
LEMMA LeastPlace ==
  ASSUME NEW S \in SUBSET Nat, S # {}
  PROVE  Min(S) \in S /\ \A k \in S : Min(S) <= k
<1>1. \E x \in S : \A y \in S : <<y, x>> \notin OpToRel(<, Nat)
  BY NatLessThanWellFounded, WFMin
<1>2. PICK x \in S : \A y \in S : <<y, x>> \notin OpToRel(<, Nat)
  BY <1>1
<1>3. \A y \in S : ~(y < x)
  BY <1>2 DEF OpToRel
<1>4. \A y \in S : x <= y
  BY <1>3
<1> QED
  BY <1>4 DEF Min

\* Every report is of an order of the venue, under an identity of its own.
KnownReports ==
  /\ Len(venueJournal) \in Nat /\ DOMAIN venueJournal = 1..Len(venueJournal)
  /\ \A k \in Venue!Reports :
       /\ k \in DOMAIN venueJournal /\ k \in Nat
       /\ venueJournal[k].kind = "VENUE_FILL" \/ venueJournal[k].kind \in ClosingKinds
       /\ venueJournal[k].order \in DOMAIN venueOrders /\ venueJournal[k].order \in OrderIds
       /\ venueJournal[k].time \in Nat
       /\ venueJournal[k].kind = "VENUE_FILL" =>
            /\ venueJournal[k].quantity \in Nat \ {0}
            /\ venueJournal[k].id = <<"VENUE_FILL", venueJournal[k].order, venueJournal[k].time>>
       /\ venueJournal[k].kind \in ClosingKinds =>
            venueJournal[k].id = <<venueJournal[k].kind, venueJournal[k].order, 0>>
       /\ venueJournal[k].id \in ReportKeys
  /\ \A k \in DOMAIN venueJournal :
       k \in Venue!Reports <=> venueJournal[k].kind = "VENUE_FILL" \/ venueJournal[k].kind \in ClosingKinds

\* The venue's invariant, read for its reports.
LEMMA ReportsKnown == ASSUME VenueBooks PROVE KnownReports
<1>1. V!Shaped /\ V!Ticked /\ V!Closed /\ V!Identified
  BY DEF VenueBooks, V!VenueInv, V!ReportInv
<1>2. Len(venueJournal) \in Nat /\ DOMAIN venueJournal = 1..Len(venueJournal)
  BY <1>1 DEF V!Shaped
<1>3. \A k \in DOMAIN venueJournal : k \in Nat /\ venueJournal[k] \in V!VenueEvent
  BY <1>1 DEF V!Shaped
<1>4. \A k \in DOMAIN venueJournal :
        k \in Venue!Reports <=> venueJournal[k].kind = "VENUE_FILL" \/ venueJournal[k].kind \in ClosingKinds
  BY DEF Venue!Reports, ClosingKinds
<1>5. Venue!Reports \subseteq DOMAIN venueJournal
  BY DEF Venue!Reports
<1>6. ASSUME NEW e \in V!VenueEvent, e.kind = "VENUE_FILL" \/ e.kind \in ClosingKinds
      PROVE  e.time \in Nat /\ e.order \in OrderIds /\ (e.kind = "VENUE_FILL" => e.quantity \in Nat)
  <2>1. e.kind = "VENUE_FILL" => e.time \in Times /\ e.order \in OrderIds /\ e.quantity \in Nat
    BY DEF V!VenueEvent, V!Closing
  <2>2. e.kind \in ClosingKinds => e.time \in Nat /\ e.order \in OrderIds
    BY DEF V!VenueEvent, V!Closing, ClosingKinds
  <2> QED
    BY <1>6, <2>1, <2>2, TimesAssumption
<1>7. ASSUME NEW k \in Venue!Reports
      PROVE  /\ venueJournal[k].order \in DOMAIN venueOrders
             /\ venueJournal[k].kind = "VENUE_FILL" =>
                  /\ venueJournal[k].quantity # 0
                  /\ venueJournal[k].id = <<"VENUE_FILL", venueJournal[k].order, venueJournal[k].time>>
             /\ venueJournal[k].kind \in ClosingKinds =>
                  venueJournal[k].id = <<venueJournal[k].kind, venueJournal[k].order, 0>>
  BY <1>1, <1>4, <1>5 DEF V!Ticked, V!Closed, V!Identified, V!Closing, ClosingKinds
<1>8. ASSUME NEW k \in Venue!Reports
      PROVE  venueJournal[k].id \in ReportKeys
  <2>1. venueJournal[k].time \in Nat /\ venueJournal[k].order \in OrderIds
    BY <1>3, <1>4, <1>5, <1>6
  <2>2. \A kind \in {"VENUE_FILL", "VENUE_CANCELED", "VENUE_REJECTED"}, o \in OrderIds, t \in Nat :
          <<kind, o, t>> \in ReportKeys
    BY DEF ReportKeys
  <2> HIDE DEF ReportKeys
  <2>3. CASE venueJournal[k].kind = "VENUE_FILL"
    BY <1>7, <2>1, <2>2, <2>3
  <2>4. CASE venueJournal[k].kind \in ClosingKinds
    <3>1. venueJournal[k].kind \in {"VENUE_FILL", "VENUE_CANCELED", "VENUE_REJECTED"}
      BY <2>4 DEF ClosingKinds
    <3> QED
      BY <1>7, <2>1, <2>2, <2>4, <3>1
  <2> QED
    BY <1>4, <1>5, <2>3, <2>4
<1> QED
  BY <1>2, <1>3, <1>4, <1>5, <1>6, <1>7, <1>8 DEF KnownReports

\* One execution of an order at a time, one closing, and no execution after it.
ApartReports ==
  /\ \A j, k \in Venue!Reports :
       /\ (/\ venueJournal[j].kind = "VENUE_FILL" /\ venueJournal[k].kind = "VENUE_FILL"
           /\ venueJournal[j].id = venueJournal[k].id) => j = k
       /\ (/\ venueJournal[j].kind \in ClosingKinds /\ venueJournal[k].kind \in ClosingKinds
           /\ venueJournal[j].order = venueJournal[k].order) => j = k
       /\ (/\ venueJournal[j].kind \in ClosingKinds /\ venueJournal[k].kind = "VENUE_FILL"
           /\ venueJournal[j].order = venueJournal[k].order) => ~(j < k)
  /\ \A k \in Venue!Reports : venueJournal[k].kind \in ClosingKinds =>
       LET order == venueOrders[venueJournal[k].order]
       IN  ~Venue!IsActive(venueJournal[k].order) /\ order.filled < order.quantity

\* The venue's invariant, read for two reports.
LEMMA ReportsApart == ASSUME VenueBooks PROVE ApartReports
<1>1. V!Shaped /\ V!Closed /\ V!Distinct /\ V!ClosedEarly /\ V!FillsAreCausal
  BY DEF VenueBooks, V!VenueInv, V!ReportInv
<1>2. /\ DOMAIN venueJournal = 1..Len(venueJournal) /\ Len(venueJournal) \in Nat
      /\ Venue!Reports \subseteq DOMAIN venueJournal
  BY ReportsKnown DEF KnownReports, Venue!Reports
<1> SUFFICES ASSUME NEW k \in Venue!Reports, NEW j \in Venue!Reports
    PROVE  /\ (/\ venueJournal[j].kind = "VENUE_FILL" /\ venueJournal[k].kind = "VENUE_FILL"
               /\ venueJournal[j].id = venueJournal[k].id) => j = k
           /\ (/\ venueJournal[j].kind \in ClosingKinds /\ venueJournal[k].kind \in ClosingKinds
               /\ venueJournal[j].order = venueJournal[k].order) => j = k
           /\ (/\ venueJournal[j].kind \in ClosingKinds /\ venueJournal[k].kind = "VENUE_FILL"
               /\ venueJournal[j].order = venueJournal[k].order) => ~(j < k)
           /\ venueJournal[k].kind \in ClosingKinds =>
                LET order == venueOrders[venueJournal[k].order]
                IN  ~Venue!IsActive(venueJournal[k].order) /\ order.filled < order.quantity
  BY Zenon DEF ApartReports
<1>3. ASSUME venueJournal[j].kind = "VENUE_FILL", venueJournal[k].kind = "VENUE_FILL",
             venueJournal[j].id = venueJournal[k].id
      PROVE  j = k
  <2>1. venueJournal[j].order = venueJournal[k].order /\ venueJournal[j].time = venueJournal[k].time
    BY <1>3, ReportsKnown DEF KnownReports
  <2> QED
    BY <1>1, <1>2, <1>3, <2>1 DEF V!Distinct
<1>4. ASSUME venueJournal[j].kind \in ClosingKinds, venueJournal[k].kind \in ClosingKinds,
             venueJournal[j].order = venueJournal[k].order
      PROVE  j = k
  BY <1>1, <1>2, <1>4 DEF V!Distinct, V!Closing, ClosingKinds
<1>5. ASSUME venueJournal[j].kind \in ClosingKinds, venueJournal[k].kind = "VENUE_FILL",
             venueJournal[j].order = venueJournal[k].order, j < k
      PROVE  FALSE
  <2>1. j \in 1..(k-1) /\ k \in DOMAIN venueJournal
    BY <1>2, <1>5
  <2> QED
    BY <1>1, <1>5, <2>1 DEF V!FillsAreCausal, ClosingKinds
<1>6. ASSUME venueJournal[k].kind \in ClosingKinds
      PROVE  LET order == venueOrders[venueJournal[k].order]
             IN  ~Venue!IsActive(venueJournal[k].order) /\ order.filled < order.quantity
  BY <1>1, <1>2, <1>6 DEF V!Closed, V!ClosedEarly, V!Closing, ClosingKinds, Venue!IsActive,
     Venue!VenueActive, V!VenueActive
<1> QED
  BY <1>3, <1>4, <1>5, <1>6

\* The same of the next state.
LEMMA ReportsThen == VenueBooks' => KnownReports' /\ ApartReports'
<1>1. VenueBooks => KnownReports
  BY ReportsKnown
<1>2. VenueBooks => ApartReports
  BY ReportsApart
<1> QED
  BY <1>1, <1>2, PTL

\* Executions of an order come to no more than what it was filled with.
LEMMA SharesExecuted ==
  ASSUME VenueBooks, NEW o \in DOMAIN venueOrders, NEW P \in SUBSET V!ExecutionsOf(venueJournal, o)
  PROVE  /\ SharesOf(P) \in Nat /\ SharesOf(P) <= venueOrders[o].filled
         /\ venueOrders[o].filled \in Nat /\ venueOrders[o].quantity \in Nat
         /\ venueOrders[o].filled <= venueOrders[o].quantity
         /\ Venue!IsActive(o) => venueOrders[o].filled < venueOrders[o].quantity
         /\ \A m \in V!ExecutionsOf(venueJournal, o) \ P :
              SharesOf(P \union {m}) = venueJournal[m].quantity + SharesOf(P)
<1> DEFINE S == V!ExecutionsOf(venueJournal, o)
           f == [k \in S |-> venueJournal[k].quantity]
<1>1. /\ S \subseteq Venue!Reports /\ \A k \in S : f[k] \in Nat
      /\ S \subseteq 1..Len(venueJournal) /\ Len(venueJournal) \in Nat
  <2>1. /\ Len(venueJournal) \in Nat /\ DOMAIN venueJournal = 1..Len(venueJournal)
        /\ \A k \in Venue!Reports : venueJournal[k].kind = "VENUE_FILL" => venueJournal[k].quantity \in Nat \ {0}
    BY ReportsKnown DEF KnownReports
  <2>2. /\ S \subseteq DOMAIN venueJournal /\ S \subseteq Venue!Reports
        /\ \A k \in S : venueJournal[k].kind = "VENUE_FILL"
    BY DEF V!ExecutionsOf, Venue!Reports
  <2> QED
    BY <2>1, <2>2
<1>2. IsFiniteSet(S)
  <2>1. IsFiniteSet(1..Len(venueJournal))
    BY <1>1, FS_Interval
  <2> QED
    BY <1>1, <2>1, FS_Subset
<1>3. V!Kept(venueOrders[o]) /\ venueOrders[o].filled = V!Traded(venueJournal, S)
  BY DEF VenueBooks, V!VenueInv, V!ReportInv, V!Shaped, V!FilledByExecutions
<1>4. V!Traded(venueJournal, S) = SumFunctionOnSet(f, S)
  BY SameFolds DEF V!Traded
<1> HIDE DEF S, f
<1>5. ASSUME NEW Q \in SUBSET S
      PROVE  /\ IsFiniteSet(Q) /\ SharesOf(Q) = SumFunctionOnSet(f, Q)
             /\ SumFunctionOnSet(f, Q) \in Nat /\ SumFunctionOnSet(f, Q) <= SumFunctionOnSet(f, S)
  <2> DEFINE g == [k \in Q |-> venueJournal[k].quantity]
  <2>1. IsFiniteSet(Q)
    BY <1>2, FS_Subset
  <2>2. \A k \in Q : g[k] = f[k]
    BY DEF f
  <2>3. SumFunctionOnSet(g, Q) = SumFunctionOnSet(f, Q)
    <3> HIDE DEF g
    <3> QED
      BY <2>1, <2>2, SumSame
  <2>4. SumFunctionOnSet(f, Q) \in Nat /\ SumFunctionOnSet(f, Q) <= SumFunctionOnSet(f, S)
    BY <1>1, <1>2, SumNat, SumPart
  <2> QED
    BY <2>1, <2>3, <2>4 DEF SharesOf
<1>6. P \in SUBSET S
  BY DEF S
<1>7. ASSUME NEW m \in S \ P
      PROVE  SharesOf(P \union {m}) = venueJournal[m].quantity + SharesOf(P)
  <2>1. P \union {m} \in SUBSET S /\ m \notin P /\ f[m] = venueJournal[m].quantity
    BY <1>6 DEF f
  <2>2. f[m] \in Int /\ \A k \in P : f[k] \in Int
    BY <1>1, <1>6
  <2>3. SumFunctionOnSet(f, P \union {m}) = f[m] + SumFunctionOnSet(f, P)
    BY <1>5, <1>6, <2>1, <2>2, SumWith
  <2> QED
    BY <1>5, <1>6, <2>1, <2>3
<1>8. /\ venueOrders[o].filled \in Nat /\ venueOrders[o].quantity \in Nat
      /\ venueOrders[o].filled <= venueOrders[o].quantity
      /\ Venue!IsActive(o) => venueOrders[o].filled < venueOrders[o].quantity
  BY <1>3 DEF V!Kept, Venue!IsActive, Venue!VenueActive, V!VenueActive
<1>9. SharesOf(P) \in Nat /\ SharesOf(P) <= venueOrders[o].filled
  BY <1>3, <1>4, <1>5, <1>6
<1> QED
  BY <1>7, <1>8, <1>9 DEF S

\* An order filled here as booked is no further than at the venue, and behind it
\* by the executions that wait.
LEMMA BehindVenue ==
  ASSUME VenueBooks, OrdersShared, FilledByBooked, NEW o \in DOMAIN venueOrders
  PROVE  /\ orders[o].filled \in Nat /\ orders[o].filled <= venueOrders[o].filled
         /\ venueOrders[o].filled \in Nat /\ orders[o].quantity \in Nat
         /\ venueOrders[o].filled <= orders[o].quantity
         /\ Venue!IsActive(o) => venueOrders[o].filled < orders[o].quantity
         /\ \A k \in Unbooked :
              venueJournal[k].kind = "VENUE_FILL" /\ venueJournal[k].order = o =>
                /\ venueJournal[k].quantity \in Nat \ {0}
                /\ orders[o].filled + venueJournal[k].quantity <= venueOrders[o].filled
                /\ \A m \in Unbooked :
                     m # k /\ venueJournal[m].kind = "VENUE_FILL" /\ venueJournal[m].order = o =>
                       orders[o].filled + venueJournal[m].quantity < venueOrders[o].filled
<1> DEFINE S == V!ExecutionsOf(venueJournal, o)
           B == BookedFills(o)
<1>1. B \in SUBSET S
  BY DEF BookedFills, V!ExecutionsOf
<1>2. o \in DOMAIN orders /\ orders[o].filled = SharesOf(B) /\ orders[o].quantity = venueOrders[o].quantity
  BY DEF OrdersShared, FilledByBooked
<1>3. ASSUME NEW k \in Unbooked, venueJournal[k].kind = "VENUE_FILL", venueJournal[k].order = o
      PROVE  /\ k \in S \ B /\ venueJournal[k].quantity \in Nat \ {0}
             /\ SharesOf(B \union {k}) = venueJournal[k].quantity + SharesOf(B)
             /\ B \union {k} \in SUBSET S
             /\ SharesOf(B \union {k}) <= venueOrders[o].filled
  <2>1. k \in S \ B /\ k \in Venue!Reports
    BY <1>3 DEF Unbooked, Venue!Reports, V!ExecutionsOf, BookedFills
  <2>2. B \union {k} \in SUBSET S
    BY <1>1, <2>1
  <2> HIDE DEF S, B
  <2>3. venueJournal[k].quantity \in Nat \ {0}
    BY <1>3, <2>1, ReportsKnown DEF KnownReports
  <2>4. SharesOf(B \union {k}) = venueJournal[k].quantity + SharesOf(B)
    BY <1>1, <2>1, SharesExecuted DEF S
  <2>5. SharesOf(B \union {k}) <= venueOrders[o].filled
    BY <2>2, SharesExecuted DEF S
  <2> QED
    BY <2>1, <2>2, <2>3, <2>4, <2>5
<1>4. /\ SharesOf(B) \in Nat /\ SharesOf(B) <= venueOrders[o].filled
      /\ venueOrders[o].filled \in Nat /\ venueOrders[o].quantity \in Nat
      /\ venueOrders[o].filled <= venueOrders[o].quantity
      /\ Venue!IsActive(o) => venueOrders[o].filled < venueOrders[o].quantity
  BY <1>1, SharesExecuted
<1>5. ASSUME NEW k \in Unbooked, venueJournal[k].kind = "VENUE_FILL", venueJournal[k].order = o,
             NEW m \in Unbooked, m # k, venueJournal[m].kind = "VENUE_FILL", venueJournal[m].order = o
      PROVE  SharesOf(B) + venueJournal[m].quantity < venueOrders[o].filled
  <2> HIDE DEF S, B
  <2>1. /\ k \in S \ (B \union {m}) /\ B \union {m} \in SUBSET S
        /\ (B \union {m}) \union {k} \in SUBSET S
        /\ venueJournal[k].quantity \in Nat \ {0} /\ venueJournal[m].quantity \in Nat \ {0}
        /\ SharesOf(B \union {m}) = venueJournal[m].quantity + SharesOf(B)
    BY <1>3, <1>5
  <2>2. SharesOf((B \union {m}) \union {k}) = venueJournal[k].quantity + SharesOf(B \union {m})
    BY <2>1, SharesExecuted DEF S
  <2>3. SharesOf((B \union {m}) \union {k}) <= venueOrders[o].filled
    BY <2>1, SharesExecuted DEF S
  <2> QED
    BY <1>4, <2>1, <2>2, <2>3
<1> HIDE DEF S, B
<1>6. ASSUME NEW k \in Unbooked, venueJournal[k].kind = "VENUE_FILL", venueJournal[k].order = o
      PROVE  orders[o].filled + venueJournal[k].quantity <= venueOrders[o].filled
  <2>1. /\ venueJournal[k].quantity \in Nat
        /\ SharesOf(B \union {k}) = venueJournal[k].quantity + SharesOf(B)
        /\ SharesOf(B \union {k}) <= venueOrders[o].filled
    BY <1>3, <1>6
  <2> QED
    BY <1>2, <1>4, <2>1
<1> QED
  BY <1>2, <1>3, <1>4, <1>5, <1>6

-----------------------------------------------------------------------------
(* Steps of the local side that book no report. *)

Posted == {"FILL", "ORDER_CANCELED", "ORDER_REJECTED"}

\* One event more in the local journal.
LEMMA Posting ==
  ASSUME journal \in Seq(LocalEvent), NEW e \in LocalEvent, Record(e)
  PROVE  /\ journal' \in Seq(LocalEvent)
         /\ DOMAIN journal' = DOMAIN journal \union {Len(journal) + 1}
         /\ Len(journal) + 1 \notin DOMAIN journal
         /\ \A i \in DOMAIN journal : journal'[i] = journal[i]
         /\ journal'[Len(journal) + 1] = e
BY SMTT(30) DEF Record

\* What booked means for a report of each kind.
LEMMA BookedAs ==
  ASSUME NEW r
  PROVE  /\ r.kind = "VENUE_FILL" => (Booked(r) <=> Has("FILL", r.id))
         /\ r.kind = "VENUE_CANCELED" =>
              (Booked(r) <=> \E i \in DOMAIN journal :
                 /\ journal[i].kind = "ORDER_CANCELED"
                 /\ journal[i].id = r.order /\ journal[i].time = r.time)
         /\ r.kind = "VENUE_REJECTED" =>
              (Booked(r) <=> \E i \in DOMAIN journal :
                 /\ journal[i].kind = "ORDER_REJECTED"
                 /\ journal[i].id = r.order /\ journal[i].time = r.time
                 /\ journal[i].reason = "venue")
BY DEF Booked

\* The journal keeps its posts and gets no other.
SamePosts ==
  /\ DOMAIN journal \subseteq DOMAIN journal'
  /\ \A i \in DOMAIN journal : journal'[i] = journal[i]
  /\ \A i \in DOMAIN journal' : journal'[i].kind \in Posted => i \in DOMAIN journal

\* An event that is no post leaves the posts as they were.
LEMMA QuietPosting ==
  ASSUME journal \in Seq(LocalEvent), NEW e \in LocalEvent, Record(e), e.kind \notin Posted
  PROVE  SamePosts /\ journal' \in Seq(LocalEvent)
BY Posting DEF SamePosts

\* With the same posts and reports, the same reports are booked and the same wait.
LEMMA SameBooked ==
  ASSUME VenueBooks, SamePosts, venueJournal' = venueJournal
  PROVE  /\ Venue!Reports' = Venue!Reports
         /\ \A k \in Venue!Reports : Booked(venueJournal[k])' <=> Booked(venueJournal[k])
         /\ Unbooked' = Unbooked
         /\ \A o : BookedFills(o)' = BookedFills(o)
         /\ \A S : SharesOf(S)' = SharesOf(S)
<1>1. Venue!Reports' = Venue!Reports
  BY DEF Venue!Reports
<1>2. ASSUME NEW kind \in Posted, NEW id
      PROVE  Has(kind, id)' <=> Has(kind, id)
  BY DEF SamePosts, Has
<1>3. ASSUME NEW k \in Venue!Reports
      PROVE  Booked(venueJournal[k])' <=> Booked(venueJournal[k])
  <2> DEFINE r == venueJournal[k]
  <2>1. r.kind = "VENUE_FILL" \/ r.kind = "VENUE_CANCELED" \/ r.kind = "VENUE_REJECTED"
    BY DEF Venue!Reports
  <2>2. venueJournal'[k] = r
    OBVIOUS
  <2> HIDE DEF r
  <2>3. CASE r.kind = "VENUE_FILL"
    <3>1. Has("FILL", r.id)' <=> Has("FILL", r.id)
      BY <1>2, <2>2 DEF Posted, SamePosts, Has, r
    <3> QED
      BY <2>3, <3>1 DEF Booked, r
  <2>4. CASE r.kind = "VENUE_CANCELED"
    <3>1. (\E i \in DOMAIN journal : /\ journal[i].kind = "ORDER_CANCELED"
                                     /\ journal[i].id = r.order /\ journal[i].time = r.time)
           <=> (\E i \in DOMAIN journal' : /\ journal'[i].kind = "ORDER_CANCELED"
                                     /\ journal'[i].id = r.order /\ journal'[i].time = r.time)
      BY DEF SamePosts, Posted
    <3> QED
      BY <2>2, <2>4, <3>1 DEF Booked, r
  <2>5. CASE r.kind = "VENUE_REJECTED"
    <3>1. (\E i \in DOMAIN journal : /\ journal[i].kind = "ORDER_REJECTED"
                                     /\ journal[i].id = r.order /\ journal[i].time = r.time
                                     /\ journal[i].reason = "venue")
           <=> (\E i \in DOMAIN journal' : /\ journal'[i].kind = "ORDER_REJECTED"
                                     /\ journal'[i].id = r.order /\ journal'[i].time = r.time
                                     /\ journal'[i].reason = "venue")
      BY DEF SamePosts, Posted
    <3> QED
      BY <2>2, <2>5, <3>1 DEF Booked, r
  <2> QED
    BY <2>1, <2>3, <2>4, <2>5 DEF r
<1>4. Unbooked' = Unbooked
  BY <1>1, <1>3 DEF Unbooked
<1>5. ASSUME NEW o
      PROVE  BookedFills(o)' = BookedFills(o)
  BY <1>3 DEF BookedFills, Venue!Reports
<1>6. ASSUME NEW S
      PROVE  SharesOf(S)' = SharesOf(S)
  BY DEF SharesOf
<1> QED
  BY <1>1, <1>3, <1>4, <1>5, <1>6

\* The orders go on: no execution more, none closed, new ones untouched.
OrdersGoOn ==
  /\ DOMAIN orders \subseteq DOMAIN orders'
  /\ \A o \in DOMAIN orders : /\ orders'[o].quantity = orders[o].quantity
                              /\ orders'[o].filled = orders[o].filled
                              /\ o \in Pending => o \in Pending'
  /\ \A o \in DOMAIN orders' \ DOMAIN orders : orders'[o].filled = 0 /\ o \in Pending'

\* A local step that posts nothing and takes no order back keeps the invariant.
LEMMA QuietLocal ==
  ASSUME BridgeInv, UNCHANGED venueVars, SamePosts, LocalBooks', OrdersGoOn
  PROVE  BridgeInv'
<1>0. /\ VenueBooks /\ LocalBooks /\ OrdersShared /\ PostedIsReported
      /\ BookedFirst /\ FilledByBooked /\ UnbookedIsPending
  BY DEF BridgeInv
<1>1. venueJournal' = venueJournal /\ venueOrders' = venueOrders /\ venueLedger' = venueLedger
  BY DEF venueVars
<1>2. VenueBooks'
  <2>1. [V!Next]_V!venueVars
    BY <1>1 DEF V!venueVars
  <2> QED
    BY <1>0, <2>1, V!VenueInvNext, V!ReportInvNext, HandedAsOffered DEF VenueBooks
<1>3. /\ Venue!Reports' = Venue!Reports
      /\ \A k \in Venue!Reports : Booked(venueJournal[k])' <=> Booked(venueJournal[k])
      /\ Unbooked' = Unbooked
      /\ \A o : BookedFills(o)' = BookedFills(o)
      /\ \A S : SharesOf(S)' = SharesOf(S)
  BY <1>0, <1>1, SameBooked
<1>4. \A o : Venue!IsActive(o)' <=> Venue!IsActive(o)
  BY <1>1 DEF Venue!IsActive, Venue!VenueActive
<1>5. OrdersShared'
  BY <1>0, <1>1, <1>4 DEF OrdersShared, OrdersGoOn
<1>6. PostedIsReported'
  BY <1>0, <1>1, <1>3 DEF PostedIsReported, SamePosts, Posted
<1>7. BookedFirst'
  BY <1>0, <1>1, <1>3 DEF BookedFirst
<1>8. FilledByBooked'
  <2>1. ASSUME NEW o \in DOMAIN orders'
        PROVE  orders'[o].filled = SharesOf(BookedFills(o))'
    <3>1. SharesOf(BookedFills(o))' = SharesOf(BookedFills(o))
      BY <1>1, <1>3 DEF SharesOf
    <3>2. CASE o \in DOMAIN orders
      BY <1>0, <3>1, <3>2 DEF FilledByBooked, OrdersGoOn
    <3>3. CASE o \notin DOMAIN orders
      <4>1. o \notin DOMAIN venueOrders
        BY <1>0, <3>3 DEF OrdersShared
      <4>2. BookedFills(o) = {}
        <5>1. \A k \in Venue!Reports : venueJournal[k].order \in DOMAIN venueOrders
          BY <1>0, ReportsKnown DEF KnownReports
        <5> QED
          BY <4>1, <5>1 DEF BookedFills, Venue!Reports
      <4>3. SharesOf(BookedFills(o)) = 0
        BY <4>2, SumEmpty DEF SharesOf
      <4> QED
        BY <3>1, <3>3, <4>3 DEF OrdersGoOn
    <3> QED
      BY <3>2, <3>3
  <2> QED
    BY <2>1 DEF FilledByBooked
<1>9. UnbookedIsPending'
  <2>1. ASSUME NEW k \in Unbooked
        PROVE  venueJournal[k].order \in Pending'
    BY <1>0, <2>1 DEF UnbookedIsPending, OrdersGoOn, Pending
  <2> QED
    BY <1>1, <1>3, <2>1 DEF UnbookedIsPending
<1> QED
  BY <1>0, <1>2, <1>5, <1>6, <1>7, <1>8, <1>9 DEF BridgeInv

\* A control event or a corporate action leaves the orders alone.
LEMMA SameOrdersGoOn ==
  ASSUME LocalBooks, orders' = orders,
         \/ journal' = journal
         \/ \E e \in LocalEvent : Record(e) /\ e.kind \notin Posted /\ e.kind # "ORDER_ACCEPTED"
  PROVE  SamePosts /\ LocalBooks' /\ OrdersGoOn
<1>1. OrdersGoOn
  BY DEF OrdersGoOn, Pending
<1>2. CASE journal' = journal
  BY <1>1, <1>2 DEF SamePosts, LocalBooks, OrdersJournalled, Has
<1>3. ASSUME NEW e \in LocalEvent, Record(e), e.kind \notin Posted, e.kind # "ORDER_ACCEPTED"
      PROVE  SamePosts /\ LocalBooks'
  <2>1. SamePosts /\ journal' \in Seq(LocalEvent)
    BY <1>3, QuietPosting DEF LocalBooks
  <2>2. \A i \in DOMAIN journal' : journal'[i].kind = "ORDER_ACCEPTED" => journal'[i].id \in DOMAIN orders
    BY <1>3, Posting DEF LocalBooks
  <2>3. OrdersJournalled'
    BY <2>1 DEF LocalBooks, OrdersJournalled, Has, SamePosts
  <2> QED
    BY <2>1, <2>2, <2>3 DEF LocalBooks
<1> QED
  BY <1>1, <1>2, <1>3

\* The caller's and the operator's steps that change no order.
LEMMA ControlBooks ==
  ASSUME BridgeInv, UNCHANGED venueVars, orders' = orders,
         \/ journal' = journal
         \/ \E e \in LocalEvent : Record(e) /\ e.kind \notin Posted /\ e.kind # "ORDER_ACCEPTED"
  PROVE  BridgeInv'
<1>1. LocalBooks
  BY DEF BridgeInv
<1>2. SamePosts /\ LocalBooks' /\ OrdersGoOn
  BY <1>1, SameOrdersGoOn
<1> QED
  BY <1>2, QuietLocal

\* An accepted request makes an order as the venue takes it.
LEMMA HandedOrder ==
  ASSUME NEW r \in Requests, NEW when \in Times, Facts[r.symbol][when] # NoFact
  PROVE  /\ OrderOf(r, when) \in Handed /\ OrderOf(r, when).filled = 0
         /\ OrderOf(r, when).status = "ACCEPTED" /\ OrderOf(r, when).quantity \in Nat \ {0}
<1>1. /\ r.order_id \in OrderIds /\ r.symbol \in Symbols /\ r.side \in {"BUY", "SELL"}
      /\ r.quantity \in Nat \ {0} /\ r.limit_price \in Nat \ {0}
      /\ r.fee_budget \in Nat /\ r.signal_at \in Nat
  BY RequestAssumption
<1>2. Facts[r.symbol] \in [Times -> FactRecord \cup {NoFact}]
  BY <1>1, FactAssumption
<1>3. Facts[r.symbol][when] \in FactRecord
  BY <1>2
<1>4. Facts[r.symbol][when].settlement_days \in Nat /\ Facts[r.symbol][when].tick_size \in Nat \ {0}
  BY <1>3 DEF FactRecord
<1> QED
  BY <1>1, <1>4 DEF OrderOf, Handed, ACTIVE

\* submit() adds an order that nothing is known of at the venue.
LEMMA SubmitBooks ==
  ASSUME BridgeInv, NEW r \in Requests, NEW when \in Times, Submit(r, when), UNCHANGED venueVars
  PROVE  BridgeInv'
<1> DEFINE o == r.order_id
           e == [kind |-> "ORDER_ACCEPTED", id |-> o, time |-> when]
           order == OrderOf(r, when)
<1>0. LocalBooks
  BY DEF BridgeInv
<1>1. o \in OrderIds /\ Facts[r.symbol][when] # NoFact /\ ~Has("ORDER_ACCEPTED", o) /\ Record(e)
  BY RequestAssumption DEF Submit
<1>2. order \in Handed /\ order.filled = 0 /\ order.status = "ACCEPTED" /\ order.quantity \in Nat \ {0}
  BY <1>1, HandedOrder
<1>3. orders' = [p \in DOMAIN orders \cup {o} |-> IF p = o THEN order ELSE orders[p]]
  BY DEF Submit
<1>4. e \in LocalEvent /\ e.kind \notin Posted /\ e.kind = "ORDER_ACCEPTED" /\ e.id = o
  BY <1>1 DEF LocalEvent, Posted
<1> HIDE DEF e, order
<1>5. o \notin DOMAIN orders
  BY <1>0, <1>1 DEF LocalBooks, OrdersJournalled
<1> HIDE DEF o
<1>6. /\ DOMAIN orders' = DOMAIN orders \union {o} /\ orders'[o] = order
      /\ \A p \in DOMAIN orders : orders'[p] = orders[p]
  BY <1>3, <1>5
<1>7. OrdersGoOn
  BY <1>2, <1>5, <1>6 DEF OrdersGoOn, Pending, ACTIVE
<1>8. SamePosts /\ journal' \in Seq(LocalEvent)
  BY <1>0, <1>1, <1>4, QuietPosting DEF LocalBooks
<1>9. \A i \in DOMAIN journal' : journal'[i].kind = "ORDER_ACCEPTED" => journal'[i].id \in DOMAIN orders'
  BY <1>0, <1>1, <1>4, <1>6, Posting DEF LocalBooks
<1>10. OrdersJournalled'
  <2>1. \A p \in DOMAIN orders : Has("ORDER_ACCEPTED", p)'
    <3>1. \A p \in DOMAIN orders : Has("ORDER_ACCEPTED", p)
      BY <1>0 DEF LocalBooks, OrdersJournalled
    <3>2. \A i \in DOMAIN journal : i \in DOMAIN journal' /\ journal'[i] = journal[i]
      BY <1>8 DEF SamePosts
    <3> QED
      BY <3>1, <3>2 DEF Has
  <2>2. Has("ORDER_ACCEPTED", o)'
    BY <1>0, <1>1, <1>4, Posting DEF LocalBooks, Has
  <2> QED
    BY <1>6, <2>1, <2>2 DEF OrdersJournalled
<1>11. \A p \in DOMAIN orders' :
         /\ orders'[p] \in Handed /\ orders'[p].filled <= orders'[p].quantity
         /\ orders'[p].status = "FILLED" <=> orders'[p].filled = orders'[p].quantity
  BY <1>0, <1>2, <1>6 DEF LocalBooks
<1>12. DOMAIN orders' \subseteq OrderIds
  BY <1>0, <1>1, <1>6 DEF LocalBooks, o
<1>13. LocalBooks'
  BY <1>8, <1>9, <1>10, <1>11, <1>12 DEF LocalBooks
<1> QED
  BY <1>7, <1>8, <1>13, QuietLocal

\* An order with another status.
LEMMA NewStatus ==
  ASSUME LocalBooks, NEW o \in Pending, NEW status \in {"CANCEL_PENDING", "CANCELED", "REJECTED"},
         SetStatus(o, status)
  PROVE  /\ DOMAIN orders' = DOMAIN orders /\ o \in DOMAIN orders
         /\ \A p \in DOMAIN orders :
              /\ p # o => orders'[p] = orders[p]
              /\ orders'[p].filled = orders[p].filled /\ orders'[p].quantity = orders[p].quantity
              /\ orders'[p] \in Handed /\ orders'[p].filled <= orders'[p].quantity
              /\ orders'[p].status = "FILLED" <=> orders'[p].filled = orders'[p].quantity
         /\ orders'[o].status = status
<1>1. o \in DOMAIN orders /\ orders[o] \in Handed /\ orders[o].status \in ACTIVE
  BY DEF Pending, LocalBooks
<1>2. /\ DOMAIN orders' = DOMAIN orders
      /\ \A p \in DOMAIN orders : p # o => orders'[p] = orders[p]
      /\ orders'[o] = [orders[o] EXCEPT !.status = status]
  BY <1>1 DEF SetStatus
<1>3. /\ orders'[o] \in Handed /\ orders'[o].status = status
      /\ orders'[o].filled = orders[o].filled /\ orders'[o].quantity = orders[o].quantity
  BY <1>1, <1>2 DEF Handed, ACTIVE
<1>4. orders[o].filled # orders[o].quantity /\ orders[o].filled <= orders[o].quantity
  BY <1>1 DEF LocalBooks, ACTIVE
<1>5. ASSUME NEW p \in DOMAIN orders, p # o
      PROVE  /\ orders'[p] = orders[p]
             /\ orders'[p] \in Handed /\ orders'[p].filled <= orders'[p].quantity
             /\ orders'[p].status = "FILLED" <=> orders'[p].filled = orders'[p].quantity
  <2>1. orders'[p] = orders[p]
    BY <1>2, <1>5
  <2> QED
    BY <2>1 DEF LocalBooks
<1>6. /\ orders'[o].filled <= orders'[o].quantity
      /\ orders'[o].status = "FILLED" <=> orders'[o].filled = orders'[o].quantity
  BY <1>3, <1>4
<1> QED
  BY <1>1, <1>2, <1>3, <1>5, <1>6

\* cancel() requested: the order stays open until the venue reports.
LEMMA RequestCancelBooks ==
  ASSUME BridgeInv, NEW o \in DOMAIN orders, NEW when \in Times, RequestCancel(o, when),
         UNCHANGED venueVars
  PROVE  BridgeInv'
<1> DEFINE e == [kind |-> "ORDER_CANCEL_REQUESTED", id |-> o, time |-> when]
<1>0. LocalBooks
  BY DEF BridgeInv
<1>1. o \in Pending /\ o \in OrderIds /\ Record(e) /\ SetStatus(o, "CANCEL_PENDING")
  BY <1>0 DEF RequestCancel, CancelWith, CancelAllowed, LocalBooks
<1>2. e \in LocalEvent /\ e.kind \notin Posted /\ e.kind # "ORDER_ACCEPTED"
  BY <1>1 DEF LocalEvent, Posted
<1> HIDE DEF e
<1>3. /\ DOMAIN orders' = DOMAIN orders /\ o \in DOMAIN orders
      /\ \A p \in DOMAIN orders :
           /\ p # o => orders'[p] = orders[p]
           /\ orders'[p].filled = orders[p].filled /\ orders'[p].quantity = orders[p].quantity
           /\ orders'[p] \in Handed /\ orders'[p].filled <= orders'[p].quantity
           /\ orders'[p].status = "FILLED" <=> orders'[p].filled = orders'[p].quantity
      /\ orders'[o].status = "CANCEL_PENDING"
  BY <1>0, <1>1, NewStatus
<1>4. OrdersGoOn
  BY <1>3 DEF OrdersGoOn, Pending, ACTIVE
<1>5. SamePosts /\ journal' \in Seq(LocalEvent)
  BY <1>0, <1>1, <1>2, QuietPosting DEF LocalBooks
<1>6. \A i \in DOMAIN journal' : journal'[i].kind = "ORDER_ACCEPTED" => journal'[i].id \in DOMAIN orders'
  BY <1>0, <1>1, <1>2, <1>3, Posting DEF LocalBooks
<1>7. OrdersJournalled'
  BY <1>0, <1>3, <1>5 DEF LocalBooks, OrdersJournalled, Has, SamePosts
<1>8. LocalBooks'
  BY <1>0, <1>3, <1>5, <1>6, <1>7 DEF LocalBooks
<1> QED
  BY <1>4, <1>5, <1>8, QuietLocal

\* halt() moves no order.
LEMMA HaltBooks ==
  ASSUME BridgeInv, NEW report \in ReportKeys \union {NoReport}, NEW when \in Nat, Halt(report, when),
         UNCHANGED venueVars
  PROVE  BridgeInv'
<1> DEFINE e == [kind |-> "HALT", id |-> report, time |-> when]
<1>1. e \in LocalEvent /\ e.kind \notin Posted /\ e.kind # "ORDER_ACCEPTED"
  BY DEF LocalEvent, Posted
<1>2. Record(e) /\ orders' = orders
  BY DEF Halt, ledger
<1> HIDE DEF e
<1> QED
  BY <1>1, <1>2, ControlBooks

\* Whatever callers and operators ask of the service.
LEMMA CallerBooks ==
  ASSUME BridgeInv, Caller
  PROVE  BridgeInv'
<1>0. UNCHANGED venueVars /\ Times \subseteq Nat
  BY TimesAssumption DEF Caller
<1>1. ASSUME NEW q \in Quotes, Quote(q)
      PROVE  BridgeInv'
  BY <1>0, <1>1, ControlBooks DEF Quote
<1>2. ASSUME NEW when \in Times, NEW r \in Requests, Submit(r, when)
      PROVE  BridgeInv'
  BY <1>0, <1>2, SubmitBooks
<1>3. ASSUME NEW when \in Times, NEW o \in DOMAIN orders, RequestCancel(o, when)
      PROVE  BridgeInv'
  BY <1>0, <1>3, RequestCancelBooks
<1>4. ASSUME NEW when \in Times, NEW id \in ActionIds, NEW a \in Entitlements, CorporateAction(id, a, when)
      PROVE  BridgeInv'
  <2> DEFINE e == [kind |-> "CORPORATE_ACTION", id |-> id, action |-> a, time |-> when]
  <2>1. e \in LocalEvent /\ e.kind \notin Posted /\ e.kind # "ORDER_ACCEPTED"
    BY <1>0 DEF LocalEvent, Posted
  <2>2. Record(e) /\ orders' = orders
    BY <1>4 DEF CorporateAction
  <2> HIDE DEF e
  <2> QED
    BY <1>0, <2>1, <2>2, ControlBooks
<1>5. ASSUME NEW when \in Times, Halt(NoReport, when)
      PROVE  BridgeInv'
  BY <1>0, <1>5, HaltBooks
<1>6. ASSUME NEW when \in Times, Monitor(when)
      PROVE  BridgeInv'
  <2> DEFINE e == [kind |-> "HALT", id |-> NoReport, time |-> when]
  <2>1. e \in LocalEvent /\ e.kind \notin Posted /\ e.kind # "ORDER_ACCEPTED"
    BY <1>0 DEF LocalEvent, Posted
  <2>2. orders' = orders /\ (journal' = journal \/ Record(e))
    BY <1>6 DEF Monitor, ledger
  <2> HIDE DEF e
  <2> QED
    BY <1>0, <2>1, <2>2, ControlBooks
<1>7. ASSUME NEW when \in Times, Resume(when)
      PROVE  BridgeInv'
  <2> DEFINE e == [kind |-> "RESUMED", time |-> when]
  <2>1. e \in LocalEvent /\ e.kind \notin Posted /\ e.kind # "ORDER_ACCEPTED"
    BY <1>0 DEF LocalEvent, Posted
  <2>2. orders' = orders /\ Record(e)
    BY <1>7 DEF Resume, ledger
  <2> HIDE DEF e
  <2> QED
    BY <1>0, <2>1, <2>2, ControlBooks
<1> QED
  BY <1>1, <1>2, <1>3, <1>4, <1>5, <1>6, <1>7 DEF Caller

\* reconcile() moves no order.
LEMMA ReconciliationBooks ==
  ASSUME BridgeInv, Reconciliation
  PROVE  BridgeInv'
<1>0. Times \subseteq Nat
  BY TimesAssumption
<1>1. CASE TakeStatement
  BY <1>1, ControlBooks DEF TakeStatement, vars
<1>2. ASSUME NEW when \in Times, CompareStatement(when)
      PROVE  BridgeInv'
  <2>1. PICK external \in statement : Reconcile(Snapshot = external, when)
    BY <1>2 DEF CompareStatement
  <2> DEFINE matched == Snapshot = external
             e == [kind |-> "RECONCILIATION", matched |-> matched, time |-> when]
  <2>2. e \in LocalEvent /\ e.kind \notin Posted /\ e.kind # "ORDER_ACCEPTED"
    BY <1>0 DEF LocalEvent, Posted
  <2>3. orders' = orders /\ Record(e) /\ UNCHANGED venueVars
    BY <1>2, <2>1 DEF Reconcile, ledger, CompareStatement
  <2> HIDE DEF e
  <2> QED
    BY <2>2, <2>3, ControlBooks
<1> QED
  BY <1>1, <1>2 DEF Reconciliation

-----------------------------------------------------------------------------
(* Steps of the venue's side. *)

\* The venue's journal goes on with reports of orders that are open here.
VenueGoesOn ==
  /\ DOMAIN venueJournal \subseteq DOMAIN venueJournal'
  /\ \A k \in DOMAIN venueJournal : venueJournal'[k] = venueJournal[k]
  /\ \A k \in Venue!Reports' : k \in DOMAIN venueJournal \/ venueJournal'[k].order \in Pending
  /\ DOMAIN venueOrders \subseteq DOMAIN venueOrders'
  /\ \A o \in DOMAIN venueOrders' :
       /\ o \in DOMAIN orders /\ venueOrders'[o].quantity = orders[o].quantity
       /\ Venue!IsActive(o)' => o \in Pending

\* A step of the venue on orders that are open here keeps the invariant: no new report is booked yet.
LEMMA QuietVenue ==
  ASSUME BridgeInv, VenueBooks', journal' = journal, orders' = orders, VenueGoesOn
  PROVE  BridgeInv'
<1>0. /\ VenueBooks /\ LocalBooks /\ OrdersShared /\ PostedIsReported
      /\ BookedFirst /\ FilledByBooked /\ UnbookedIsPending
  BY DEF BridgeInv
<1>1. KnownReports' /\ ApartReports' /\ KnownReports
  BY <1>0, ReportsThen, ReportsKnown
<1>2. \A r : Booked(r)' <=> Booked(r)
  BY DEF Booked, Has
<1>3. LocalBooks' /\ Pending' = Pending
  BY <1>0 DEF LocalBooks, OrdersJournalled, Has, Pending
<1>4. /\ Venue!Reports \subseteq Venue!Reports'
      /\ \A k \in Venue!Reports' : k \in DOMAIN venueJournal => k \in Venue!Reports
      /\ \A k \in Venue!Reports : venueJournal'[k] = venueJournal[k]
  BY DEF VenueGoesOn, Venue!Reports
<1>5. PostedIsReported'
  BY <1>0, <1>4 DEF PostedIsReported
<1>6. ASSUME NEW k \in Venue!Reports', k \notin DOMAIN venueJournal
      PROVE  ~Booked(venueJournal'[k])
  <2> DEFINE r == venueJournal'[k]
  <2>1. SUFFICES ASSUME Booked(r) PROVE FALSE
    OBVIOUS
  <2>2. \A j \in Venue!Reports : j # k /\ j \in Venue!Reports'
    BY <1>4, <1>6 DEF Venue!Reports
  <2>3. r.kind = "VENUE_FILL" \/ r.kind = "VENUE_CANCELED" \/ r.kind = "VENUE_REJECTED"
    BY DEF Venue!Reports
  <2>4. CASE r.kind = "VENUE_FILL"
    <3>1. PICK i \in DOMAIN journal : journal[i].kind = "FILL" /\ journal[i].id = r.id
      BY <2>1, <2>4, BookedAs DEF Has
    <3>2. PICK j \in Venue!Reports : venueJournal[j].kind = "VENUE_FILL" /\ venueJournal[j].id = r.id
      BY <1>0, <3>1 DEF PostedIsReported
    <3>3. venueJournal'[j].kind = "VENUE_FILL" /\ venueJournal'[j].id = r.id
      BY <1>4, <3>2
    <3> QED
      BY <1>1, <2>2, <2>4, <3>3 DEF ApartReports
  <2>5. CASE r.kind = "VENUE_CANCELED"
    <3>1. PICK i \in DOMAIN journal : journal[i].kind = "ORDER_CANCELED" /\ journal[i].id = r.order
      BY <2>1, <2>5, BookedAs
    <3>2. PICK j \in Venue!Reports : venueJournal[j].kind = "VENUE_CANCELED" /\ venueJournal[j].order = r.order
      BY <1>0, <3>1 DEF PostedIsReported
    <3>3. venueJournal'[j].kind = "VENUE_CANCELED" /\ venueJournal'[j].order = r.order
      BY <1>4, <3>2
    <3> QED
      BY <1>1, <2>2, <2>5, <3>3 DEF ApartReports, ClosingKinds
  <2>6. CASE r.kind = "VENUE_REJECTED"
    <3>1. PICK i \in DOMAIN journal : journal[i].kind = "ORDER_REJECTED" /\ journal[i].id = r.order
      BY <2>1, <2>6, BookedAs
    <3>2. PICK j \in Venue!Reports : venueJournal[j].kind = "VENUE_REJECTED" /\ venueJournal[j].order = r.order
      BY <1>0, <3>1 DEF PostedIsReported
    <3>3. venueJournal'[j].kind = "VENUE_REJECTED" /\ venueJournal'[j].order = r.order
      BY <1>4, <3>2
    <3> QED
      BY <1>1, <2>2, <2>6, <3>3 DEF ApartReports, ClosingKinds
  <2> QED
    BY <2>3, <2>4, <2>5, <2>6
<1>7. BookedFirst'
  <2>1. SUFFICES ASSUME NEW j \in Venue!Reports', NEW k \in Venue!Reports', j < k, Booked(venueJournal'[k])
                 PROVE  Booked(venueJournal'[j])
    BY <1>2 DEF BookedFirst
  <2>2. k \in DOMAIN venueJournal /\ k \in Venue!Reports
    BY <1>4, <1>6, <2>1
  <2>3. j \in DOMAIN venueJournal
    <3>1. /\ Len(venueJournal) \in Nat /\ DOMAIN venueJournal = 1..Len(venueJournal)
      BY <1>1 DEF KnownReports
    <3>2. \A x \in Venue!Reports' : x \in Nat /\ x \in 1..Len(venueJournal')
      BY <1>1 DEF KnownReports
    <3>3. j \in Nat /\ 1 <= j
      BY <1>1, <3>2 DEF KnownReports
    <3> QED
      BY <2>1, <2>2, <3>1, <3>3
  <2>4. j \in Venue!Reports
    BY <1>4, <2>3
  <2> QED
    BY <1>0, <1>4, <2>1, <2>2, <2>4 DEF BookedFirst
<1>8. \A o : BookedFills(o)' = BookedFills(o)
  <2>1. \A k \in DOMAIN venueJournal' : venueJournal'[k].kind = "VENUE_FILL" => k \in Venue!Reports'
    BY DEF Venue!Reports
  <2>2. \A k \in DOMAIN venueJournal' :
          venueJournal'[k].kind = "VENUE_FILL" /\ Booked(venueJournal'[k]) => k \in DOMAIN venueJournal
    BY <1>6, <2>1
  <2> QED
    BY <1>2, <2>2 DEF BookedFills, VenueGoesOn
<1>9. FilledByBooked'
  <2>1. ASSUME NEW o \in DOMAIN orders
        PROVE  SharesOf(BookedFills(o))' = SharesOf(BookedFills(o))
    <3> DEFINE S == BookedFills(o)
    <3>1. \A k \in S : venueJournal'[k].quantity = venueJournal[k].quantity
      BY DEF VenueGoesOn, BookedFills
    <3>2. BookedFills(o)' = S
      BY <1>8
    <3> HIDE DEF S
    <3>3. [k \in S |-> venueJournal'[k].quantity] = [k \in S |-> venueJournal[k].quantity]
      BY <3>1
    <3>4. SharesOf(BookedFills(o))' = SumFunctionOnSet([k \in S |-> venueJournal'[k].quantity], S)
      BY <3>2 DEF SharesOf
    <3>5. SharesOf(BookedFills(o)) = SumFunctionOnSet([k \in S |-> venueJournal[k].quantity], S)
      BY DEF SharesOf, S
    <3> QED
      BY <3>3, <3>4, <3>5
  <2> QED
    BY <1>0, <2>1 DEF FilledByBooked
<1>10. UnbookedIsPending'
  <2>1. ASSUME NEW k \in Unbooked'
        PROVE  venueJournal'[k].order \in Pending
    <3>1. k \in Venue!Reports' /\ ~Booked(venueJournal'[k])
      BY <1>2 DEF Unbooked
    <3>2. CASE k \in DOMAIN venueJournal
      <4>1. k \in Unbooked /\ venueJournal'[k] = venueJournal[k]
        BY <1>4, <3>1, <3>2 DEF Unbooked
      <4> QED
        BY <1>0, <4>1 DEF UnbookedIsPending
    <3>3. CASE k \notin DOMAIN venueJournal
      BY <3>1, <3>3 DEF VenueGoesOn
    <3> QED
      BY <3>2, <3>3
  <2> QED
    BY <1>3, <2>1 DEF UnbookedIsPending
<1>11. OrdersShared'
  BY <1>0, <1>3 DEF OrdersShared, VenueGoesOn
<1> QED
  BY <1>0, <1>3, <1>5, <1>7, <1>9, <1>10, <1>11 DEF BridgeInv

\* One event more in the venue's journal.
LEMMA VenuePosting ==
  ASSUME VenueBooks, NEW e \in V!VenueEvent, V!Write(<<e>>)
  PROVE  /\ DOMAIN venueJournal' = DOMAIN venueJournal \union {Len(venueJournal) + 1}
         /\ \A i \in DOMAIN venueJournal : venueJournal'[i] = venueJournal[i]
         /\ venueJournal'[Len(venueJournal) + 1] = e
<1>1. venueJournal \in Seq(V!VenueEvent)
  BY DEF VenueBooks, V!VenueInv, V!Shaped
<1> QED
  BY <1>1, V!WritingOne, HandedAsOffered

\* An accepted order reaches the venue.
LEMMA AcceptBooks ==
  ASSUME BridgeInv, NEW o \in DOMAIN orders, Venue!Accept(o, orders[o]),
         journal' = journal, orders' = orders
  PROVE  BridgeInv' /\ VenueGoesOn
<1> DEFINE order == orders[o]
           offer == [id |-> o, order |-> order]
           e == [kind |-> "VENUE_ACCEPTED", id |-> o, order |-> o, time |-> order.accepted_at]
<1>0. VenueBooks /\ LocalBooks /\ OrdersShared
  BY DEF BridgeInv
<1>1. /\ o \in OrderIds /\ order \in Handed /\ order.accepted_at \in Nat
      /\ offer \in [id : OrderIds, order : Handed] /\ offer.id = o /\ offer.order = order
  BY <1>0, TimesAssumption DEF LocalBooks, Handed
<1>2. V!Accept(offer.id, offer.order)
  BY <1>1, SameAccept
<1> HIDE DEF offer
<1>3. VenueBooks'
  BY <1>0, <1>1, <1>2, V!AcceptKeeps, V!AcceptReports, HandedAsOffered DEF VenueBooks
<1>4. V!Accept(o, order)
  BY <1>1, <1>2
<1>5. o \notin DOMAIN venueOrders
  BY <1>0, <1>4, V!Unknown, HandedAsOffered DEF V!Accept, VenueBooks
<1>6. e \in V!VenueEvent /\ V!Write(<<e>>) /\ e.kind = "VENUE_ACCEPTED"
  BY <1>1, <1>4 DEF V!VenueEvent, V!Accept
<1> HIDE DEF e
<1>7. /\ DOMAIN venueJournal' = DOMAIN venueJournal \union {Len(venueJournal) + 1}
      /\ \A i \in DOMAIN venueJournal : venueJournal'[i] = venueJournal[i]
      /\ venueJournal'[Len(venueJournal) + 1].kind = "VENUE_ACCEPTED"
  BY <1>0, <1>6, VenuePosting
<1>8. /\ DOMAIN venueOrders' = DOMAIN venueOrders \union {o}
      /\ venueOrders'[o].quantity = order.quantity
      /\ \A p \in DOMAIN venueOrders : venueOrders'[p] = venueOrders[p]
  <2>1. venueOrders' = [p \in DOMAIN venueOrders \cup {o} |->
                          IF p = o THEN [order EXCEPT !.filled = 0, !.status = "ACCEPTED"]
                          ELSE venueOrders[p]]
    BY <1>4 DEF V!Accept
  <2>2. [order EXCEPT !.filled = 0, !.status = "ACCEPTED"].quantity = order.quantity
    BY <1>1 DEF Handed
  <2> HIDE DEF order
  <2> QED
    BY <1>5, <2>1, <2>2
<1>9. o \in Pending
  BY <1>0, <1>5 DEF OrdersShared
<1>10. \A k \in Venue!Reports' : k \in DOMAIN venueJournal
  BY <1>7 DEF Venue!Reports
<1>11. \A p \in DOMAIN venueOrders' :
         /\ p \in DOMAIN orders /\ venueOrders'[p].quantity = orders[p].quantity
         /\ Venue!IsActive(p)' => p \in Pending
  <2>1. \A p \in DOMAIN venueOrders : Venue!IsActive(p)' <=> Venue!IsActive(p)
    BY <1>8 DEF Venue!IsActive, Venue!VenueActive
  <2> QED
    BY <1>0, <1>8, <1>9, <2>1 DEF OrdersShared
<1>12. VenueGoesOn
  BY <1>7, <1>8, <1>10, <1>11 DEF VenueGoesOn
<1> QED
  BY <1>3, <1>12, QuietVenue

\* The venue cancels or rejects an order, which is open here until that is booked.
LEMMA CloseBooks ==
  ASSUME BridgeInv, NEW o \in DOMAIN venueOrders, NEW when \in Times,
         NEW kind \in ClosingKinds, NEW status \in {"CANCELED", "REJECTED"},
         Venue!Close(kind, status, o, when), journal' = journal, orders' = orders
  PROVE  BridgeInv' /\ VenueGoesOn
<1> DEFINE e == [kind |-> kind, id |-> <<kind, o, 0>>, order |-> o, time |-> when]
<1>0. VenueBooks /\ OrdersShared /\ V!VenueInv /\ V!ReportInv /\ V!Shaped
  BY DEF BridgeInv, VenueBooks, V!VenueInv
<1>1. V!Close(kind, status, o, when) /\ kind \in V!Closing
  BY SameClose DEF ClosingKinds, V!Closing
<1>2. VenueBooks'
  BY <1>0, <1>1, V!CloseKeeps, V!CloseReports, HandedAsOffered DEF VenueBooks
<1>3. e \in V!VenueEvent /\ V!Write(<<e>>) /\ e.order = o
  <2>1. o \in OrderIds /\ when \in Nat
    BY <1>0, TimesAssumption DEF V!Shaped
  <2> QED
    BY <1>1, <2>1 DEF V!VenueEvent, V!Close
<1> HIDE DEF e
<1>4. /\ DOMAIN venueJournal' = DOMAIN venueJournal \union {Len(venueJournal) + 1}
      /\ \A i \in DOMAIN venueJournal : venueJournal'[i] = venueJournal[i]
      /\ venueJournal'[Len(venueJournal) + 1].order = o
  BY <1>0, <1>3, VenuePosting
<1>5. /\ Venue!IsActive(o) /\ DOMAIN venueOrders' = DOMAIN venueOrders
      /\ venueOrders'[o] = [venueOrders[o] EXCEPT !.status = status]
      /\ \A p \in DOMAIN venueOrders : p # o => venueOrders'[p] = venueOrders[p]
  BY DEF Venue!Close
<1>6. o \in Pending
  BY <1>0, <1>5 DEF OrdersShared
<1>7. \A k \in Venue!Reports' : k \in DOMAIN venueJournal \/ venueJournal'[k].order \in Pending
  BY <1>4, <1>6 DEF Venue!Reports
<1>8. venueOrders'[o].quantity = venueOrders[o].quantity
  <2>1. "quantity" \in DOMAIN venueOrders[o]
    BY <1>0 DEF V!Shaped, V!Kept
  <2> QED
    BY <1>5, <2>1
<1>9. \A p \in DOMAIN venueOrders' :
         /\ p \in DOMAIN orders /\ venueOrders'[p].quantity = orders[p].quantity
         /\ Venue!IsActive(p)' => p \in Pending
  <2>1. \A p \in DOMAIN venueOrders : p # o => (Venue!IsActive(p)' <=> Venue!IsActive(p))
    BY <1>5 DEF Venue!IsActive, Venue!VenueActive
  <2> QED
    BY <1>0, <1>5, <1>6, <1>8, <2>1 DEF OrdersShared
<1>10. VenueGoesOn
  BY <1>4, <1>5, <1>7, <1>9 DEF VenueGoesOn
<1> QED
  BY <1>2, <1>10, QuietVenue

\* A corporate action at the venue makes no report.
LEMMA VenueActionBooks ==
  ASSUME BridgeInv, NEW id \in ActionIds, NEW a \in Entitlements, NEW when \in Times,
         Venue!CorporateAction(id, a, when), journal' = journal, orders' = orders
  PROVE  BridgeInv' /\ VenueGoesOn
<1> DEFINE e == [kind |-> "VENUE_ACTION", id |-> id, action |-> a, time |-> when]
<1>0. VenueBooks /\ OrdersShared /\ V!VenueInv /\ V!ReportInv
  BY DEF BridgeInv, VenueBooks
<1>1. V!CorporateAction(id, a, when)
  BY SameCorporateAction
<1>2. VenueBooks'
  BY <1>0, <1>1, V!CorporateActionKeeps, V!CorporateActionReports, HandedAsOffered DEF VenueBooks
<1>3. e \in V!VenueEvent /\ V!Write(<<e>>) /\ e.kind = "VENUE_ACTION"
  <2>1. when \in Nat
    BY TimesAssumption
  <2> QED
    BY <1>1, <2>1 DEF V!VenueEvent, V!CorporateAction
<1> HIDE DEF e
<1>4. /\ DOMAIN venueJournal' = DOMAIN venueJournal \union {Len(venueJournal) + 1}
      /\ \A i \in DOMAIN venueJournal : venueJournal'[i] = venueJournal[i]
      /\ venueJournal'[Len(venueJournal) + 1].kind = "VENUE_ACTION"
  BY <1>0, <1>3, VenuePosting
<1>5. venueOrders' = venueOrders
  BY DEF Venue!CorporateAction
<1>6. \A k \in Venue!Reports' : k \in DOMAIN venueJournal
  BY <1>4 DEF Venue!Reports
<1>7. \A p \in DOMAIN venueOrders' :
         /\ p \in DOMAIN orders /\ venueOrders'[p].quantity = orders[p].quantity
         /\ Venue!IsActive(p)' => p \in Pending
  BY <1>0, <1>5 DEF OrdersShared, Venue!IsActive, Venue!VenueActive
<1>8. VenueGoesOn
  BY <1>4, <1>5, <1>6, <1>7 DEF VenueGoesOn
<1> QED
  BY <1>2, <1>8, QuietVenue

\* A tick executes orders that are active at the venue, so open here.
LEMMA MatchBooks ==
  ASSUME BridgeInv, NEW tick \in Ticks, Venue!Match(tick), journal' = journal, orders' = orders
  PROVE  BridgeInv' /\ VenueGoesOn
<1> DEFINE n == Len(venueJournal)
           m == Len(V!Executions(tick))
<1>0. VenueBooks /\ OrdersShared /\ V!VenueInv /\ V!ReportInv /\ V!Shaped /\ V!Queued
  BY DEF BridgeInv, VenueBooks, V!VenueInv
<1>1. V!Match(tick)
  BY SameMatch
<1>2. VenueBooks'
  BY <1>0, <1>1, V!MatchKeeps, V!MatchReports, HandedAsOffered DEF VenueBooks
<1>3. /\ n \in Nat /\ m \in Nat
      /\ DOMAIN venueJournal = 1..n
      /\ DOMAIN venueJournal' = 1..(n + 1 + m)
      /\ \A i \in 1..n : venueJournal'[i] = venueJournal[i]
      /\ venueJournal'[n + 1] = V!TickEvent(tick)
      /\ \A k \in 1..m : venueJournal'[n + 1 + k] = V!Executions(tick)[k]
      /\ \A i \in DOMAIN venueJournal' :
           i \in 1..n \/ i = n + 1 \/ (i - (n + 1) \in 1..m /\ i = n + 1 + (i - (n + 1)))
  BY <1>0, <1>1, V!MatchJournal, HandedAsOffered
<1>4. \A k \in 1..m : LET o == V!Executions(tick)[k].order
                      IN  o \in DOMAIN venueOrders /\ V!Eligible(o, tick)
  BY <1>0, V!FillsAreShares, HandedAsOffered
<1>5. \A o \in DOMAIN venueOrders : V!Eligible(o, tick) => o \in Pending
  BY <1>0 DEF V!Eligible, OrdersShared, Venue!IsActive, Venue!VenueActive, V!VenueActive
<1>6. \A o \in DOMAIN venueOrders :
        /\ venueOrders'[o].quantity = venueOrders[o].quantity
        /\ venueOrders[o].status \notin V!VenueActive => venueOrders'[o] = venueOrders[o]
  BY <1>0, <1>1, V!MatchOrders, HandedAsOffered
<1>7. DOMAIN venueOrders' = DOMAIN venueOrders
  BY DEF Venue!Match
<1> HIDE DEF n, m
<1>8. ASSUME NEW k \in Venue!Reports', k \notin DOMAIN venueJournal
      PROVE  venueJournal'[k].order \in Pending
  <2>1. k \in DOMAIN venueJournal'
    BY DEF Venue!Reports
  <2>2. k # n + 1
    BY <1>3 DEF Venue!Reports, V!TickEvent
  <2>3. k - (n + 1) \in 1..m /\ venueJournal'[k] = V!Executions(tick)[k - (n + 1)]
    BY <1>3, <1>8, <2>1, <2>2
  <2> QED
    BY <1>4, <1>5, <2>3
<1>9. \A p \in DOMAIN venueOrders' :
         /\ p \in DOMAIN orders /\ venueOrders'[p].quantity = orders[p].quantity
         /\ Venue!IsActive(p)' => p \in Pending
  <2>1. \A p \in DOMAIN venueOrders : Venue!IsActive(p)' => Venue!IsActive(p)
    BY <1>6, <1>7 DEF Venue!IsActive, Venue!VenueActive, V!VenueActive
  <2> QED
    BY <1>0, <1>6, <1>7, <2>1 DEF OrdersShared
<1>10. /\ DOMAIN venueJournal \subseteq DOMAIN venueJournal'
       /\ \A k \in DOMAIN venueJournal : venueJournal'[k] = venueJournal[k]
  BY <1>3
<1>11. VenueGoesOn
  BY <1>7, <1>8, <1>9, <1>10 DEF VenueGoesOn
<1> QED
  BY <1>2, <1>11, QuietVenue

-----------------------------------------------------------------------------
(* receive() books the report that is due. *)

\* The local event that books a report.
Books(e, r) ==
  \/ r.kind = "VENUE_FILL" /\ e.kind = "FILL" /\ e.id = r.id
  \/ r.kind = "VENUE_CANCELED" /\ e.kind = "ORDER_CANCELED" /\ e.id = r.order /\ e.time = r.time
  \/ /\ r.kind = "VENUE_REJECTED" /\ e.kind = "ORDER_REJECTED"
     /\ e.id = r.order /\ e.time = r.time /\ e.reason = "venue"

\* An event that books a report books no other.
LEMMA BooksOne ==
  ASSUME VenueBooks, journal \in Seq(LocalEvent), venueJournal' = venueJournal,
         NEW m \in Venue!Reports, NEW e \in LocalEvent, Record(e), Books(e, venueJournal[m])
  PROVE  /\ Booked(venueJournal[m])'
         /\ \A k \in Venue!Reports : k # m => (Booked(venueJournal[k])' <=> Booked(venueJournal[k]))
<1> DEFINE n == Len(journal) + 1
           B(r) == \/ r.kind = "VENUE_FILL" /\ \E i \in DOMAIN journal :
                        journal[i].kind = "FILL" /\ journal[i].id = r.id
                   \/ r.kind = "VENUE_CANCELED" /\ \E i \in DOMAIN journal :
                        /\ journal[i].kind = "ORDER_CANCELED"
                        /\ journal[i].id = r.order /\ journal[i].time = r.time
                   \/ r.kind = "VENUE_REJECTED" /\ \E i \in DOMAIN journal :
                        /\ journal[i].kind = "ORDER_REJECTED"
                        /\ journal[i].id = r.order /\ journal[i].time = r.time
                        /\ journal[i].reason = "venue"
           C(r) == \/ r.kind = "VENUE_FILL" /\ \E i \in DOMAIN journal' :
                        journal'[i].kind = "FILL" /\ journal'[i].id = r.id
                   \/ r.kind = "VENUE_CANCELED" /\ \E i \in DOMAIN journal' :
                        /\ journal'[i].kind = "ORDER_CANCELED"
                        /\ journal'[i].id = r.order /\ journal'[i].time = r.time
                   \/ r.kind = "VENUE_REJECTED" /\ \E i \in DOMAIN journal' :
                        /\ journal'[i].kind = "ORDER_REJECTED"
                        /\ journal'[i].id = r.order /\ journal'[i].time = r.time
                        /\ journal'[i].reason = "venue"
<1>1. \A k \in Venue!Reports :
        venueJournal[k].kind = "VENUE_FILL" \/ venueJournal[k].kind = "VENUE_CANCELED"
          \/ venueJournal[k].kind = "VENUE_REJECTED"
  BY DEF Venue!Reports
<1>2. \A k \in Venue!Reports : Booked(venueJournal[k]) <=> B(venueJournal[k])
  BY <1>1 DEF Booked, Has
<1>3. \A k \in Venue!Reports : Booked(venueJournal[k])' <=> C(venueJournal[k])
  BY <1>1 DEF Booked, Has
<1>4. /\ DOMAIN journal' = DOMAIN journal \union {n} /\ n \notin DOMAIN journal
      /\ \A i \in DOMAIN journal : journal'[i] = journal[i]
      /\ journal'[n] = e
  BY Posting
<1> HIDE DEF n
<1>5. \A r : C(r) <=> B(r) \/ Books(e, r)
  BY <1>4 DEF Books
<1>6. ASSUME NEW k \in Venue!Reports, k # m
      PROVE  ~Books(e, venueJournal[k])
  <2>1. ApartReports
    BY ReportsApart
  <2> QED
    BY <1>6, <2>1 DEF Books, ApartReports, ClosingKinds
<1> HIDE DEF B, C
<1> QED
  BY <1>2, <1>3, <1>5, <1>6

\* What is posted stays reported.
LEMMA PostedStays ==
  ASSUME PostedIsReported, journal \in Seq(LocalEvent), venueJournal' = venueJournal,
         NEW m \in Venue!Reports, NEW e \in LocalEvent, Record(e), Books(e, venueJournal[m])
  PROVE  PostedIsReported'
<1>1. Venue!Reports' = Venue!Reports
  BY DEF Venue!Reports
<1>2. /\ DOMAIN journal' = DOMAIN journal \union {Len(journal) + 1}
      /\ \A i \in DOMAIN journal : journal'[i] = journal[i]
      /\ journal'[Len(journal) + 1] = e
  BY Posting
<1>3. /\ e.kind = "FILL" => \E k \in Venue!Reports : /\ venueJournal[k].kind = "VENUE_FILL"
                                                     /\ venueJournal[k].id = e.id
      /\ e.kind = "ORDER_CANCELED" =>
           \E k \in Venue!Reports : /\ venueJournal[k].kind = "VENUE_CANCELED"
                                    /\ venueJournal[k].order = e.id
      /\ e.kind = "ORDER_REJECTED" =>
           \E k \in Venue!Reports : /\ venueJournal[k].kind = "VENUE_REJECTED"
                                    /\ venueJournal[k].order = e.id
  BY DEF Books
<1> QED
  BY <1>1, <1>2, <1>3 DEF PostedIsReported

\* The orders after a report of one of them: what its executions are worth, and
\* open while the venue has more to say of it.
OrderFollows(m) ==
  LET r == venueJournal[m]  o == r.order
  IN  /\ DOMAIN orders' = DOMAIN orders
      /\ \A p \in DOMAIN orders : p # o => orders'[p] = orders[p]
      /\ orders'[o].quantity = orders[o].quantity
      /\ orders'[o].filled = IF r.kind = "VENUE_FILL" THEN orders[o].filled + r.quantity
                             ELSE orders[o].filled
      /\ (Venue!IsActive(o) \/ \E k \in Unbooked : k # m /\ venueJournal[k].order = o) => o \in Pending'

\* Booking the first report that waits keeps the invariant.
LEMMA BookingKeeps ==
  ASSUME BridgeInv, UNCHANGED venueVars, NEW m \in Unbooked, \A k \in Unbooked : m <= k,
         NEW e \in LocalEvent, Record(e), Books(e, venueJournal[m]), LocalBooks', OrderFollows(m)
  PROVE  BridgeInv'
<1> DEFINE r == venueJournal[m]
           o == r.order
<1>0. /\ VenueBooks /\ LocalBooks /\ OrdersShared /\ PostedIsReported
      /\ BookedFirst /\ FilledByBooked /\ UnbookedIsPending
  BY DEF BridgeInv
<1>1. venueJournal' = venueJournal /\ venueOrders' = venueOrders /\ venueLedger' = venueLedger
  BY DEF venueVars
<1>2. VenueBooks'
  <2>1. [V!Next]_V!venueVars
    BY <1>1 DEF V!venueVars
  <2> QED
    BY <1>0, <2>1, V!VenueInvNext, V!ReportInvNext, HandedAsOffered DEF VenueBooks
<1>3. Venue!Reports' = Venue!Reports /\ m \in Venue!Reports /\ ~Booked(r)
  BY <1>1 DEF Venue!Reports, Unbooked
<1>4. /\ Booked(venueJournal[m])'
      /\ \A k \in Venue!Reports : k # m => (Booked(venueJournal[k])' <=> Booked(venueJournal[k]))
  BY <1>0, <1>1, <1>3, BooksOne DEF LocalBooks
<1>5. PostedIsReported'
  BY <1>0, <1>1, <1>3, PostedStays DEF LocalBooks
<1>6. Unbooked' = Unbooked \ {m}
  BY <1>1, <1>3, <1>4 DEF Unbooked
<1>7. KnownReports
  BY <1>0, ReportsKnown
<1>8. o \in DOMAIN venueOrders /\ o \in DOMAIN orders
  BY <1>0, <1>3, <1>7 DEF KnownReports, OrdersShared
<1>9. BookedFirst'
  <2>1. SUFFICES ASSUME NEW j \in Venue!Reports, NEW k \in Venue!Reports, j < k, Booked(venueJournal[k])'
                 PROVE  Booked(venueJournal[j])'
    BY <1>1, <1>3 DEF BookedFirst
  <2>2. CASE j = m
    BY <1>4, <2>2
  <2>3. CASE j # m
    <3>1. j \in Nat /\ k \in Nat /\ m \in Nat
      BY <1>3, <1>7 DEF KnownReports
    <3>2. CASE k = m
      <4>1. j \notin Unbooked
        BY <2>1, <3>1, <3>2
      <4> QED
        BY <1>4, <2>3, <4>1 DEF Unbooked
    <3>3. CASE k # m
      BY <1>0, <1>4, <2>1, <2>3, <3>3 DEF BookedFirst
    <3> QED
      BY <3>2, <3>3
  <2> QED
    BY <2>2, <2>3
<1>10. /\ \A p : p # o \/ r.kind # "VENUE_FILL" => BookedFills(p)' = BookedFills(p)
       /\ r.kind = "VENUE_FILL" => BookedFills(o)' = BookedFills(o) \union {m} /\ m \notin BookedFills(o)
  <2>1. \A k \in DOMAIN venueJournal : venueJournal[k].kind = "VENUE_FILL" => k \in Venue!Reports
    BY DEF Venue!Reports
  <2>2. m \in DOMAIN venueJournal
    BY <1>3 DEF Venue!Reports
  <2> QED
    BY <1>1, <1>3, <1>4, <2>1, <2>2 DEF BookedFills
<1>11. FilledByBooked'
  <2>1. \A S : SharesOf(S)' = SharesOf(S)
    BY <1>1 DEF SharesOf
  <2>2. ASSUME NEW p \in DOMAIN orders, p # o \/ r.kind # "VENUE_FILL"
        PROVE  orders'[p].filled = SharesOf(BookedFills(p))'
    <3>1. BookedFills(p)' = BookedFills(p)
      BY <1>10, <2>2
    <3>2. SharesOf(BookedFills(p))' = SharesOf(BookedFills(p))
      BY <1>1, <3>1 DEF SharesOf
    <3>3. orders'[p].filled = orders[p].filled
      BY <1>8, <2>2 DEF OrderFollows
    <3> QED
      BY <1>0, <3>2, <3>3 DEF FilledByBooked
  <2>3. ASSUME r.kind = "VENUE_FILL"
        PROVE  orders'[o].filled = SharesOf(BookedFills(o))'
    <3>1. BookedFills(o)' = BookedFills(o) \union {m}
      BY <1>10, <2>3
    <3>2. SharesOf(BookedFills(o))' = SharesOf(BookedFills(o) \union {m})
      BY <1>1, <3>1 DEF SharesOf
    <3>3. BookedFills(o) \in SUBSET V!ExecutionsOf(venueJournal, o)
      BY DEF BookedFills, V!ExecutionsOf
    <3>4. m \in V!ExecutionsOf(venueJournal, o) \ BookedFills(o)
      BY <1>3, <1>10, <2>3 DEF Venue!Reports, V!ExecutionsOf
    <3>5. /\ SharesOf(BookedFills(o) \union {m}) = r.quantity + SharesOf(BookedFills(o))
          /\ SharesOf(BookedFills(o)) \in Nat
      BY <1>0, <1>8, <3>3, <3>4, SharesExecuted
    <3>6. r.quantity \in Nat
      BY <1>3, <1>7, <2>3 DEF KnownReports
    <3>7. orders'[o].filled = orders[o].filled + r.quantity /\ orders[o].filled = SharesOf(BookedFills(o))
      BY <1>0, <1>8, <2>3 DEF OrderFollows, FilledByBooked
    <3> QED
      BY <3>2, <3>5, <3>6, <3>7
  <2>4. ASSUME NEW p \in DOMAIN orders
        PROVE  orders'[p].filled = SharesOf(BookedFills(p))'
    <3>1. CASE p # o \/ r.kind # "VENUE_FILL"
      BY <2>2, <3>1
    <3>2. CASE p = o /\ r.kind = "VENUE_FILL"
      <4>1. orders'[o].filled = SharesOf(BookedFills(o))'
        BY <2>3, <3>2
      <4>2. SharesOf(BookedFills(p))' = SharesOf(BookedFills(o))'
        BY <1>1, <3>2 DEF SharesOf, BookedFills, Booked
      <4> QED
        BY <3>2, <4>1, <4>2
    <3> QED
      BY <3>1, <3>2
  <2> QED
    BY <2>4 DEF FilledByBooked, OrderFollows
<1>12. UnbookedIsPending'
  <2>1. ASSUME NEW k \in Unbooked, k # m
        PROVE  venueJournal[k].order \in Pending'
    <3>1. CASE venueJournal[k].order = o
      BY <2>1, <3>1 DEF OrderFollows
    <3>2. CASE venueJournal[k].order # o
      BY <1>0, <3>2 DEF UnbookedIsPending, OrderFollows, Pending
    <3> QED
      BY <3>1, <3>2
  <2> QED
    BY <1>1, <1>6, <2>1 DEF UnbookedIsPending
<1>13. OrdersShared'
  <2>1. \A p : Venue!IsActive(p)' <=> Venue!IsActive(p)
    BY <1>1 DEF Venue!IsActive, Venue!VenueActive
  <2>2. \A p \in DOMAIN orders : p # o => orders'[p] = orders[p] /\ (p \in Pending => p \in Pending')
    BY DEF OrderFollows, Pending
  <2>3. Venue!IsActive(o) => o \in Pending'
    BY DEF OrderFollows
  <2> QED
    BY <1>0, <1>1, <1>8, <2>1, <2>2, <2>3 DEF OrdersShared, OrderFollows
<1> QED
  BY <1>2, <1>5, <1>9, <1>11, <1>12, <1>13 DEF BridgeInv

\* receive() books an execution: the order is complete here only if it is there and nothing waits.
LEMMA FillBooks ==
  ASSUME BridgeInv, UNCHANGED venueVars, NEW m \in Unbooked, \A k \in Unbooked : m <= k,
         venueJournal[m].kind = "VENUE_FILL",
         Fill(venueJournal[m].id, venueJournal[m].order, venueJournal[m].quantity,
              venueJournal[m].price, venueJournal[m].fee, venueJournal[m].time)
  PROVE  BridgeInv'
<1> DEFINE r == venueJournal[m]
           o == r.order
           q == r.quantity
           e == [kind |-> "FILL", id |-> r.id, order |-> o, time |-> r.time]
           total == orders[o].filled + q
<1>0. VenueBooks /\ LocalBooks /\ OrdersShared /\ FilledByBooked
  BY DEF BridgeInv
<1>1. KnownReports /\ ApartReports /\ m \in Venue!Reports
  BY <1>0, ReportsKnown, ReportsApart DEF Unbooked
<1>2. /\ o \in DOMAIN venueOrders /\ o \in OrderIds /\ r.time \in Nat /\ r.id \in ReportKeys
      /\ q \in Nat \ {0} /\ m \in Nat
  BY <1>1 DEF KnownReports
<1>3. r.fee \in Int
  <2>1. r \in V!VenueEvent /\ r.kind = "VENUE_FILL"
    BY <1>0, <1>1 DEF VenueBooks, V!VenueInv, V!Shaped, Venue!Reports
  <2> QED
    BY <2>1, V!EventFields, HandedAsOffered
<1>4. /\ o \in Pending /\ o \in DOMAIN orders /\ orders[o] \in Handed
      /\ q <= orders[o].quantity - orders[o].filled
      /\ Record(e) /\ orders' = [orders EXCEPT ![o] = Executed(o, q, r.fee)]
  BY <1>0 DEF Fill, FillAllowed, Unfilled, ApplyFill, Pending, LocalBooks
<1>5. /\ DOMAIN orders' = DOMAIN orders /\ orders'[o] = Executed(o, q, r.fee)
      /\ \A p \in DOMAIN orders : p # o => orders'[p] = orders[p]
  BY <1>4
<1>6. e \in LocalEvent /\ Books(e, r) /\ e.kind = "FILL"
  BY <1>2 DEF LocalEvent, Books
<1> HIDE DEF e
<1>7. /\ orders[o].filled \in Nat /\ orders[o].quantity \in Nat \ {0} /\ orders[o].fees \in Int
      /\ orders[o].status \in ACTIVE
  BY <1>4 DEF Handed, Pending
<1>8. total \in Nat /\ total <= orders[o].quantity
  BY <1>2, <1>4, <1>7
<1>9. /\ orders'[o].filled = total /\ orders'[o].quantity = orders[o].quantity
      /\ orders'[o] \in Handed
      /\ orders'[o].status = StatusAfter(o, total)
  <2>1. StatusAfter(o, total) \in ACTIVE \union {"FILLED"}
    BY DEF StatusAfter, ACTIVE
  <2>2. orders[o].fees + r.fee \in Int
    BY <1>3, <1>7
  <2> HIDE DEF total
  <2>3. Executed(o, q, r.fee) = [orders[o] EXCEPT !.filled = total, !.fees = orders[o].fees + r.fee,
                                                  !.status = StatusAfter(o, total)]
    BY DEF Executed, total
  <2> DEFINE fees == orders[o].fees + r.fee
             status == StatusAfter(o, total)
             order == orders[o]
  <2>4. order \in Handed /\ total \in Nat /\ fees \in Int /\ status \in ACTIVE \union {"FILLED"}
    BY <1>4, <1>8, <2>1, <2>2
  <2> HIDE DEF fees, status, order
  <2>5. LET new == [order EXCEPT !.filled = total, !.fees = fees, !.status = status]
        IN  /\ new \in Handed /\ new.filled = total /\ new.quantity = order.quantity
            /\ new.status = status
    BY <2>4 DEF Handed
  <2> QED
    BY <1>5, <2>3, <2>5 DEF order, fees, status
<1>10. orders'[o].status = "FILLED" <=> total = orders[o].quantity
  BY <1>7, <1>9 DEF StatusAfter, ACTIVE
<1>11. total < orders[o].quantity => o \in Pending'
  <2> HIDE DEF total
  <2>1. total < orders[o].quantity => total # orders[o].quantity
    BY <1>7, <1>8
  <2>2. total # orders[o].quantity => StatusAfter(o, total) \in ACTIVE
    BY DEF StatusAfter, ACTIVE
  <2> QED
    BY <1>4, <1>5, <1>9, <2>1, <2>2 DEF Pending
<1> HIDE DEF total
<1>12. ASSUME Venue!IsActive(o) \/ \E k \in Unbooked : k # m /\ venueJournal[k].order = o
       PROVE  o \in Pending'
  <2>1. /\ venueOrders[o].filled \in Nat /\ venueOrders[o].filled <= orders[o].quantity
        /\ total <= venueOrders[o].filled
        /\ Venue!IsActive(o) => venueOrders[o].filled < orders[o].quantity
    BY <1>0, <1>2, BehindVenue DEF total
  <2>2. CASE Venue!IsActive(o)
    BY <1>7, <1>8, <1>11, <2>1, <2>2
  <2>3. ASSUME NEW k \in Unbooked, k # m, venueJournal[k].order = o
        PROVE  total < orders[o].quantity
    <3>1. k \in Venue!Reports
      BY DEF Unbooked
    <3>2. CASE venueJournal[k].kind = "VENUE_FILL"
      <4>1. total < venueOrders[o].filled
        BY <1>0, <1>2, <2>3, <3>2, BehindVenue DEF total
      <4> QED
        BY <1>7, <1>8, <2>1, <4>1
    <3>3. CASE venueJournal[k].kind \in ClosingKinds
      <4>1. venueOrders[o].filled < venueOrders[o].quantity
        BY <1>1, <2>3, <3>1, <3>3 DEF ApartReports
      <4>2. venueOrders[o].quantity = orders[o].quantity
        BY <1>0, <1>2 DEF OrdersShared
      <4> QED
        BY <1>7, <1>8, <2>1, <4>1, <4>2
    <3> QED
      BY <1>1, <3>1, <3>2, <3>3 DEF KnownReports
  <2> QED
    BY <1>11, <1>12, <2>2, <2>3
<1>13. OrderFollows(m)
  BY <1>5, <1>9, <1>12 DEF OrderFollows, total
<1>14. journal' \in Seq(LocalEvent)
  BY <1>0, <1>4, <1>6, Posting DEF LocalBooks
<1>15. \A i \in DOMAIN journal' : journal'[i].kind = "ORDER_ACCEPTED" => journal'[i].id \in DOMAIN orders'
  BY <1>0, <1>4, <1>5, <1>6, Posting DEF LocalBooks
<1>16. OrdersJournalled'
  <2>1. \A i \in DOMAIN journal : i \in DOMAIN journal' /\ journal'[i] = journal[i]
    BY <1>0, <1>4, <1>6, Posting DEF LocalBooks
  <2> QED
    BY <1>0, <1>5, <2>1 DEF LocalBooks, OrdersJournalled, Has
<1>17. \A p \in DOMAIN orders' :
         /\ orders'[p] \in Handed /\ orders'[p].filled <= orders'[p].quantity
         /\ orders'[p].status = "FILLED" <=> orders'[p].filled = orders'[p].quantity
  <2>1. ASSUME NEW p \in DOMAIN orders, p # o
        PROVE  orders'[p] = orders[p]
    BY <1>5, <2>1
  <2>2. /\ orders'[o] \in Handed /\ orders'[o].filled <= orders'[o].quantity
        /\ orders'[o].status = "FILLED" <=> orders'[o].filled = orders'[o].quantity
    BY <1>8, <1>9, <1>10
  <2>3. ASSUME NEW p \in DOMAIN orders
        PROVE  /\ orders'[p] \in Handed /\ orders'[p].filled <= orders'[p].quantity
               /\ orders'[p].status = "FILLED" <=> orders'[p].filled = orders'[p].quantity
    <3>1. CASE p = o
      BY <2>2, <3>1
    <3>2. CASE p # o
      BY <1>0, <2>1, <3>2 DEF LocalBooks
    <3> QED
      BY <3>1, <3>2
  <2> QED
    BY <1>5, <2>3
<1>18. LocalBooks'
  BY <1>0, <1>5, <1>14, <1>15, <1>16, <1>17 DEF LocalBooks
<1> QED
  BY <1>4, <1>6, <1>13, <1>18, BookingKeeps

\* A cancellation or a rejection is the venue's last word on the order.
LEMMA ClosingBooks ==
  ASSUME BridgeInv, UNCHANGED venueVars, NEW m \in Unbooked, \A k \in Unbooked : m <= k,
         venueJournal[m].kind \in ClosingKinds,
         NEW e \in LocalEvent, Record(e), Books(e, venueJournal[m]),
         venueJournal[m].order \in Pending,
         NEW status \in {"CANCELED", "REJECTED"}, SetStatus(venueJournal[m].order, status)
  PROVE  BridgeInv'
<1> DEFINE r == venueJournal[m]
           o == r.order
<1>0. VenueBooks /\ LocalBooks /\ OrdersShared
  BY DEF BridgeInv
<1>1. KnownReports /\ ApartReports /\ m \in Venue!Reports
  BY <1>0, ReportsKnown, ReportsApart DEF Unbooked
<1>2. /\ DOMAIN orders' = DOMAIN orders /\ o \in DOMAIN orders
      /\ \A p \in DOMAIN orders :
           /\ p # o => orders'[p] = orders[p]
           /\ orders'[p].filled = orders[p].filled /\ orders'[p].quantity = orders[p].quantity
           /\ orders'[p] \in Handed /\ orders'[p].filled <= orders'[p].quantity
           /\ orders'[p].status = "FILLED" <=> orders'[p].filled = orders'[p].quantity
  BY <1>0, NewStatus
<1>3. ~Venue!IsActive(o)
  BY <1>1 DEF ApartReports
<1>4. ASSUME NEW k \in Unbooked, k # m, venueJournal[k].order = o
      PROVE  FALSE
  <2>1. k \in Venue!Reports /\ k \in Nat /\ m \in Nat /\ m < k
    <3>1. k \in Venue!Reports /\ k \in Nat /\ m \in Nat
      BY <1>1 DEF Unbooked, KnownReports
    <3> QED
      BY <1>4, <3>1
  <2>2. venueJournal[k].kind = "VENUE_FILL" \/ venueJournal[k].kind \in ClosingKinds
    BY <1>1, <2>1 DEF KnownReports
  <2> QED
    BY <1>1, <1>4, <2>1, <2>2 DEF ApartReports
<1>5. r.kind # "VENUE_FILL" /\ e.kind # "ORDER_ACCEPTED"
  BY DEF ClosingKinds, Books
<1>6. OrderFollows(m)
  BY <1>2, <1>3, <1>4, <1>5 DEF OrderFollows
<1>7. /\ journal' \in Seq(LocalEvent)
      /\ \A i \in DOMAIN journal' : journal'[i].kind = "ORDER_ACCEPTED" => journal'[i].id \in DOMAIN orders'
  BY <1>0, <1>2, <1>5, Posting DEF LocalBooks
<1>8. OrdersJournalled'
  <2>1. \A i \in DOMAIN journal : i \in DOMAIN journal' /\ journal'[i] = journal[i]
    BY <1>0, Posting DEF LocalBooks
  <2> QED
    BY <1>0, <1>2, <2>1 DEF LocalBooks, OrdersJournalled, Has
<1>9. LocalBooks'
  BY <1>0, <1>2, <1>7, <1>8 DEF LocalBooks
<1> QED
  BY <1>6, <1>9, BookingKeeps

\* An iteration of receive().
LEMMA ReceiveBooks ==
  ASSUME BridgeInv, Receive
  PROVE  BridgeInv'
<1> DEFINE m == Min(Unbooked)
           r == venueJournal[m]
<1>0. VenueBooks /\ LocalBooks /\ UNCHANGED venueVars /\ Unbooked # {}
  BY DEF BridgeInv, Receive
<1>1. KnownReports
  BY <1>0, ReportsKnown
<1>2. Unbooked \in SUBSET Nat
  BY <1>1 DEF Unbooked, KnownReports
<1>3. m \in Unbooked /\ \A k \in Unbooked : m <= k
  BY <1>0, <1>2, LeastPlace
<1>4. IF Bookable(r) THEN Book(r) ELSE Halt(r.id, r.time)
  BY DEF Receive
<1> HIDE DEF m
<1>5. /\ m \in Venue!Reports /\ r.order \in OrderIds /\ r.time \in Nat /\ r.id \in ReportKeys
  BY <1>1, <1>3 DEF Unbooked, KnownReports
<1>6. CASE Bookable(r) /\ r.kind = "VENUE_FILL"
  <2>1. Fill(r.id, r.order, r.quantity, r.price, r.fee, r.time)
    BY <1>4, <1>6 DEF Book
  <2> QED
    BY <1>0, <1>3, <1>6, <2>1, FillBooks
<1>7. CASE Bookable(r) /\ r.kind = "VENUE_CANCELED"
  <2> DEFINE e == [kind |-> "ORDER_CANCELED", id |-> r.order, time |-> r.time]
  <2>1. Record(e) /\ SetStatus(r.order, "CANCELED") /\ r.order \in Pending
    BY <1>4, <1>7 DEF Book, ConfirmCancel, CancelWith, CancelAllowed
  <2>2. e \in LocalEvent /\ Books(e, r) /\ r.kind \in ClosingKinds
    BY <1>5, <1>7 DEF LocalEvent, Books, ClosingKinds
  <2> HIDE DEF e
  <2> QED
    BY <1>0, <1>3, <2>1, <2>2, ClosingBooks
<1>8. CASE Bookable(r) /\ r.kind = "VENUE_REJECTED"
  <2> DEFINE e == [kind |-> "ORDER_REJECTED", id |-> r.order, reason |-> "venue", time |-> r.time]
  <2>1. Record(e) /\ SetStatus(r.order, "REJECTED") /\ r.order \in Pending
    BY <1>4, <1>8 DEF Book, Reject, RejectAllowed
  <2>2. e \in LocalEvent /\ Books(e, r) /\ r.kind \in ClosingKinds
    BY <1>5, <1>8 DEF LocalEvent, Books, ClosingKinds
  <2> HIDE DEF e
  <2> QED
    BY <1>0, <1>3, <2>1, <2>2, ClosingBooks
<1>9. CASE ~Bookable(r)
  BY <1>0, <1>4, <1>5, <1>9, HaltBooks
<1> QED
  BY <1>5, <1>6, <1>7, <1>8, <1>9 DEF Venue!Reports

\* An iteration of dispatch().
LEMMA DispatchBooks ==
  ASSUME BridgeInv, Dispatch
  PROVE  BridgeInv' /\ VenueGoesOn
<1> DEFINE m == Min(Undelivered)
           e == journal[m]
<1>0. LocalBooks /\ journal' = journal /\ orders' = orders /\ Undelivered # {}
  BY DEF BridgeInv, Dispatch, vars
<1>1. Undelivered \in SUBSET Nat
  BY <1>0 DEF Undelivered, LocalBooks
<1>2. m \in Undelivered
  BY <1>0, <1>1, LeastPlace
<1>3. IF e.kind = "ORDER_ACCEPTED" THEN Venue!Accept(e.id, orders[e.id]) ELSE Venue!Cancel(e.id, e.time)
  BY DEF Dispatch
<1> HIDE DEF m
<1>4. CASE e.kind = "ORDER_ACCEPTED"
  <2>1. e.id \in DOMAIN orders
    BY <1>0, <1>2, <1>4 DEF LocalBooks, Undelivered
  <2> QED
    BY <1>0, <1>3, <1>4, <2>1, AcceptBooks
<1>5. CASE e.kind # "ORDER_ACCEPTED"
  <2>1. e.kind = "ORDER_CANCEL_REQUESTED" /\ Venue!IsActive(e.id) /\ e \in LocalEvent
    BY <1>0, <1>2, <1>5 DEF Undelivered, LocalBooks
  <2>2. e.time \in Times /\ e.id \in DOMAIN venueOrders
    BY <2>1 DEF LocalEvent, Venue!IsActive
  <2>3. Venue!Close("VENUE_CANCELED", "CANCELED", e.id, e.time)
    BY <1>3, <1>5 DEF Venue!Cancel
  <2> QED
    BY <1>0, <2>2, <2>3, CloseBooks DEF ClosingKinds
<1> QED
  BY <1>4, <1>5

\* A step of the market.
LEMMA MarketBooks ==
  ASSUME BridgeInv, Market
  PROVE  BridgeInv' /\ VenueGoesOn
<1>0. journal' = journal /\ orders' = orders
  BY DEF Market, vars
<1>1. ASSUME NEW tick \in Ticks, Venue!Match(tick)
      PROVE  BridgeInv' /\ VenueGoesOn
  BY <1>0, <1>1, MatchBooks
<1>2. ASSUME NEW when \in Times, NEW o \in DOMAIN venueOrders, Venue!Reject(o, when)
      PROVE  BridgeInv' /\ VenueGoesOn
  BY <1>0, <1>2, CloseBooks DEF Venue!Reject, ClosingKinds
<1>3. ASSUME NEW when \in Times, NEW id \in ActionIds, NEW a \in Entitlements,
             Venue!CorporateAction(id, a, when)
      PROVE  BridgeInv' /\ VenueGoesOn
  BY <1>0, <1>3, VenueActionBooks
<1> QED
  BY <1>1, <1>2, <1>3 DEF Market

\* Both journals start with nothing but their opening.
LEMMA BridgeInvInit == BridgeInit => BridgeInv
<1> SUFFICES ASSUME BridgeInit PROVE BridgeInv
  OBVIOUS
<1>1. /\ journal = << [kind |-> "ACCOUNT_OPENED", time |-> 0] >> /\ DOMAIN orders = {}
      /\ venueJournal = << [kind |-> "VENUE_OPENED", time |-> 0] >> /\ DOMAIN venueOrders = {}
  BY DEF BridgeInit, Init, Venue!Init
<1>2. V!Init
  BY DEF BridgeInit, Venue!Init, V!Init
<1>3. VenueBooks
  BY <1>2, V!VenueInvInit, V!ReportInvInit, HandedAsOffered DEF VenueBooks
<1>4. LocalBooks
  <2> DEFINE e == [kind |-> "ACCOUNT_OPENED", time |-> 0]
  <2>1. e \in LocalEvent /\ e.kind # "ORDER_ACCEPTED"
    BY DEF LocalEvent
  <2> HIDE DEF e
  <2>2. journal \in Seq(LocalEvent) /\ \A i \in DOMAIN journal : journal[i] = e
    BY <1>1, <2>1 DEF e
  <2> QED
    BY <1>1, <2>1, <2>2 DEF LocalBooks, OrdersJournalled
<1>5. Venue!Reports = {}
  BY <1>1 DEF Venue!Reports
<1>6. PostedIsReported
  BY <1>1 DEF PostedIsReported
<1> QED
  BY <1>1, <1>3, <1>4, <1>5, <1>6
     DEF BridgeInv, OrdersShared, BookedFirst, FilledByBooked, UnbookedIsPending, Unbooked

\* Every step keeps the invariant.
LEMMA BridgeInvNext ==
  ASSUME BridgeInv, [BridgeNext]_bridgeVars
  PROVE  BridgeInv'
<1>1. CASE UNCHANGED bridgeVars
  BY <1>1, ControlBooks DEF bridgeVars, vars
<1> QED
  BY <1>1, CallerBooks, MarketBooks, DispatchBooks, ReceiveBooks, ReconciliationBooks DEF BridgeNext

\* What the bridge has booked and what waits, whatever the two sides do meanwhile.
THEOREM BridgeInvariant == BridgeSpec => []BridgeInv
<1>1. BridgeInv /\ [BridgeNext]_bridgeVars => BridgeInv'
  BY BridgeInvNext
<1> QED
  BY <1>1, BridgeInvInit, PTL DEF BridgeSpec

\* Reports are booked in the venue's order with no gap, and nothing else is
\* (PaperBridge.receive).
THEOREM BooksInOrder == BridgeSpec => []BookedInOrder
<1>1. BridgeInv => BookedInOrder
  <2> SUFFICES ASSUME BridgeInv PROVE BookedInOrder
    OBVIOUS
  <2>1. PostedIsReported /\ BookedFirst
    BY DEF BridgeInv
  <2>2. \A k \in Unbooked, j \in Venue!Reports : j > k => j \in Unbooked
    <3>1. \A j \in Venue!Reports : j \in Nat
      BY ReportsKnown DEF BridgeInv, KnownReports
    <3> QED
      BY <2>1, <3>1 DEF BookedFirst, Unbooked
  <2>3. \A i \in DOMAIN journal : journal[i].kind = "FILL" =>
          \E k \in Venue!Reports : venueJournal[k].id = journal[i].id
    BY <2>1 DEF PostedIsReported
  <2> QED
    BY <2>2, <2>3 DEF BookedInOrder
<1> QED
  BY <1>1, BridgeInvariant, PTL

-----------------------------------------------------------------------------
(* One process drives the account. *)

\* A halt is an operator's or about a report that was made.
HaltsReported ==
  \A i \in DOMAIN journal : journal[i].kind = "HALT" =>
    \/ journal[i].id = NoReport
    \/ \E k \in Venue!Reports : venueJournal[k].id = journal[i].id

\* No refused report waits while the credential to resume stands.
CredentialIsClean == reconciled => \A k \in Unbooked : ~Has("HALT", venueJournal[k].id)

SoleInv ==
  /\ BridgeInv
  /\ statement \subseteq {Venue!Snapshot}
  /\ HaltsReported /\ CredentialIsClean /\ IncidentsStayHalted

\* Where both snapshots agree nothing waits: an order with a report to come is
\* open here, and there it is closed or filled further.
LEMMA MatchIsComplete ==
  ASSUME BridgeInv, Snapshot = Venue!Snapshot
  PROVE  Unbooked = {}
<1> SUFFICES ASSUME NEW k \in Unbooked PROVE FALSE
  OBVIOUS
<1> DEFINE o == venueJournal[k].order
<1>0. VenueBooks /\ OrdersShared /\ FilledByBooked /\ UnbookedIsPending
  BY DEF BridgeInv
<1>1. KnownReports /\ ApartReports /\ k \in Venue!Reports
  BY <1>0, ReportsKnown, ReportsApart DEF Unbooked
<1>2. o \in Pending /\ o \in DOMAIN venueOrders
  BY <1>0, <1>1 DEF UnbookedIsPending, KnownReports
<1>3. Snapshot.open_orders = Venue!Snapshot.open_orders
  OBVIOUS
<1> DEFINE here == [p \in Pending |-> [status |-> orders[p].status, quantity |-> orders[p].quantity,
                                        filled |-> orders[p].filled]]
           there == [p \in {x \in DOMAIN venueOrders : Venue!IsActive(x)} |->
                       [status |-> venueOrders[p].status, quantity |-> venueOrders[p].quantity,
                        filled |-> venueOrders[p].filled]]
<1>4. here = there
  BY <1>3, Zenon DEF Snapshot, Venue!Snapshot
<1>5. o \in DOMAIN there /\ here[o] = there[o]
  <2>1. DOMAIN here = Pending /\ DOMAIN here = DOMAIN there
    BY <1>4
  <2> QED
    BY <1>2, <1>4, <2>1
<1>6. Venue!IsActive(o) /\ orders[o].filled = venueOrders[o].filled
  <2>1. Venue!IsActive(o)
    BY <1>5
  <2>2. here[o].filled = orders[o].filled
    BY <1>2
  <2>3. there[o].filled = venueOrders[o].filled
    BY <1>2, <2>1
  <2> QED
    BY <1>5, <2>1, <2>2, <2>3
<1> HIDE DEF here, there
<1>7. CASE venueJournal[k].kind = "VENUE_FILL"
  <2>1. /\ venueJournal[k].quantity \in Nat \ {0} /\ orders[o].filled \in Nat
        /\ orders[o].filled + venueJournal[k].quantity <= venueOrders[o].filled
    BY <1>0, <1>2, <1>7, BehindVenue
  <2> QED
    BY <1>6, <2>1
<1>8. CASE venueJournal[k].kind \in ClosingKinds
  BY <1>1, <1>6, <1>8 DEF ApartReports
<1> QED
  BY <1>1, <1>7, <1>8 DEF KnownReports

\* A report that is booked stays booked.
LEMMA UnbookedShrinks ==
  ASSUME journal \in Seq(LocalEvent), venueJournal' = venueJournal,
         journal' = journal \/ \E e \in LocalEvent : Record(e)
  PROVE  Unbooked' \subseteq Unbooked
<1>1. /\ DOMAIN journal \subseteq DOMAIN journal'
      /\ \A i \in DOMAIN journal : journal'[i] = journal[i]
  BY Posting
<1>2. Venue!Reports' = Venue!Reports
  BY DEF Venue!Reports
<1>3. ASSUME NEW k \in Venue!Reports, Booked(venueJournal[k])
      PROVE  Booked(venueJournal[k])'
  <2> DEFINE r == venueJournal[k]
  <2>1. r.kind = "VENUE_FILL" \/ r.kind = "VENUE_CANCELED" \/ r.kind = "VENUE_REJECTED"
    BY DEF Venue!Reports
  <2>2. venueJournal'[k] = r
    OBVIOUS
  <2>3. CASE r.kind = "VENUE_FILL"
    BY <1>1, <1>3, <2>2, <2>3 DEF Booked, Has
  <2>4. CASE r.kind = "VENUE_CANCELED"
    BY <1>1, <1>3, <2>2, <2>4 DEF Booked
  <2>5. CASE r.kind = "VENUE_REJECTED"
    BY <1>1, <1>3, <2>2, <2>5 DEF Booked
  <2> QED
    BY <2>1, <2>3, <2>4, <2>5
<1> QED
  BY <1>2, <1>3 DEF Unbooked

\* The local journal with at most one event more: a halt about a report is kept
\* with the account halted, the credential is earned with nothing waiting, and a
\* halt is lifted on the credential only.
LEMMA LocalIncidents ==
  ASSUME SoleInv, UNCHANGED venueVars,
         \/ journal' = journal
         \/ \E e \in LocalEvent :
              /\ Record(e)
              /\ e.kind = "HALT" => \/ e.id = NoReport
                                    \/ /\ halted' /\ ~reconciled'
                                       /\ \E k \in Venue!Reports : venueJournal[k].id = e.id,
         reconciled' => reconciled \/ Unbooked = {},
         halted => halted' \/ reconciled
  PROVE  HaltsReported' /\ CredentialIsClean' /\ IncidentsStayHalted'
<1>0. BridgeInv /\ VenueBooks /\ LocalBooks /\ HaltsReported /\ CredentialIsClean /\ IncidentsStayHalted
  BY DEF SoleInv, BridgeInv
<1>1. venueJournal' = venueJournal /\ Venue!Reports' = Venue!Reports
  BY DEF venueVars, Venue!Reports
<1>2. \A k \in Unbooked : venueJournal[k].id \in ReportKeys /\ k \in Venue!Reports
  BY <1>0, ReportsKnown DEF KnownReports, Unbooked
<1>3. NoReport \notin ReportKeys
  BY NoReportAssumption DEF ReportKeys
<1>10. Unbooked' \subseteq Unbooked
  <2>1. journal' = journal \/ \E e \in LocalEvent : Record(e)
    OBVIOUS
  <2> QED
    BY <1>0, <1>1, <2>1, UnbookedShrinks DEF LocalBooks
<1>4. ASSUME NEW k \in Unbooked, Has("HALT", venueJournal[k].id)'
      PROVE  Has("HALT", venueJournal[k].id) \/ (halted' /\ ~reconciled')
  <2>1. CASE journal' = journal
    BY <1>1, <1>4, <2>1 DEF Has
  <2>2. ASSUME NEW e \in LocalEvent, Record(e),
               e.kind = "HALT" => \/ e.id = NoReport
                                  \/ halted' /\ ~reconciled'
        PROVE  Has("HALT", venueJournal[k].id) \/ (halted' /\ ~reconciled')
    <3>1. /\ DOMAIN journal' = DOMAIN journal \union {Len(journal) + 1}
          /\ \A i \in DOMAIN journal : journal'[i] = journal[i]
          /\ journal'[Len(journal) + 1] = e
      BY <1>0, <2>2, Posting DEF LocalBooks
    <3>2. PICK i \in DOMAIN journal' : journal'[i].kind = "HALT" /\ journal'[i].id = venueJournal[k].id
      BY <1>1, <1>4 DEF Has
    <3>3. venueJournal[k].id # NoReport
      BY <1>2, <1>3
    <3> QED
      BY <2>2, <3>1, <3>2, <3>3 DEF Has
  <2> QED
    BY <2>1, <2>2
<1>5. HaltsReported'
  <2>1. CASE journal' = journal
    BY <1>0, <1>1, <2>1 DEF HaltsReported
  <2>2. ASSUME NEW e \in LocalEvent, Record(e),
               e.kind = "HALT" => \/ e.id = NoReport
                                  \/ \E k \in Venue!Reports : venueJournal[k].id = e.id
        PROVE  HaltsReported'
    <3>1. /\ DOMAIN journal' = DOMAIN journal \union {Len(journal) + 1}
          /\ \A i \in DOMAIN journal : journal'[i] = journal[i]
          /\ journal'[Len(journal) + 1] = e
      BY <1>0, <2>2, Posting DEF LocalBooks
    <3> QED
      BY <1>0, <1>1, <2>2, <3>1 DEF HaltsReported
  <2> QED
    BY <2>1, <2>2
<1>6. CredentialIsClean'
  <2>1. SUFFICES ASSUME reconciled', NEW k \in Unbooked', Has("HALT", venueJournal[k].id)'
                 PROVE  FALSE
    BY <1>1 DEF CredentialIsClean
  <2>2. k \in Unbooked
    BY <1>10
  <2> QED
    BY <1>0, <1>4, <2>1, <2>2 DEF CredentialIsClean
<1>7. IncidentsStayHalted'
  <2>1. SUFFICES ASSUME NEW k \in Unbooked', Has("HALT", venueJournal[k].id)'
                 PROVE  halted'
    BY <1>1 DEF IncidentsStayHalted
  <2>2. k \in Unbooked
    BY <1>10
  <2> QED
    BY <1>0, <1>4, <2>1, <2>2 DEF CredentialIsClean, IncidentsStayHalted
<1> QED
  BY <1>5, <1>6, <1>7

\* A new report is not one a halt is about.
LEMMA VenueIncidents ==
  ASSUME SoleInv, BridgeInv', VenueGoesOn, journal' = journal,
         halted' = halted, reconciled' = reconciled
  PROVE  HaltsReported' /\ CredentialIsClean' /\ IncidentsStayHalted'
<1>0. BridgeInv /\ VenueBooks /\ LocalBooks /\ HaltsReported /\ CredentialIsClean /\ IncidentsStayHalted
  BY DEF SoleInv, BridgeInv
<1>1. KnownReports' /\ ApartReports'
  BY ReportsThen DEF BridgeInv
<1>2. \A k \in Venue!Reports : k \in Venue!Reports' /\ venueJournal'[k] = venueJournal[k]
  BY DEF VenueGoesOn, Venue!Reports
<1>3. HaltsReported'
  BY <1>0, <1>2 DEF HaltsReported
<1>4. ASSUME NEW k \in Unbooked', Has("HALT", venueJournal'[k].id)
      PROVE  k \in Unbooked /\ venueJournal'[k] = venueJournal[k]
  <2>1. PICK i \in DOMAIN journal : journal[i].kind = "HALT" /\ journal[i].id = venueJournal'[k].id
    BY <1>4 DEF Has
  <2>2. k \in Venue!Reports' /\ ~Booked(venueJournal'[k])
    <3>1. \A r : Booked(r)' <=> Booked(r)
      BY DEF Booked, Has
    <3> QED
      BY <3>1 DEF Unbooked
  <2>3. NoReport \notin ReportKeys /\ venueJournal'[k].id \in ReportKeys
    BY <1>1, <2>2, NoReportAssumption DEF KnownReports, ReportKeys
  <2>4. PICK j \in Venue!Reports : venueJournal[j].id = venueJournal'[k].id
    BY <1>0, <2>1, <2>3 DEF HaltsReported
  <2>5. j \in Venue!Reports' /\ venueJournal'[j].id = venueJournal'[k].id
    BY <1>2, <2>4
  <2>6. j = k
    <3> DEFINE r == venueJournal'[j]
               s == venueJournal'[k]
    <3>1. /\ r.kind = "VENUE_FILL" => r.id = <<"VENUE_FILL", r.order, r.time>>
          /\ r.kind \in ClosingKinds => r.id = <<r.kind, r.order, 0>>
          /\ s.kind = "VENUE_FILL" => s.id = <<"VENUE_FILL", s.order, s.time>>
          /\ s.kind \in ClosingKinds => s.id = <<s.kind, s.order, 0>>
          /\ r.kind = "VENUE_FILL" \/ r.kind \in ClosingKinds
          /\ s.kind = "VENUE_FILL" \/ s.kind \in ClosingKinds
      BY <1>1, <2>2, <2>5 DEF KnownReports
    <3>2. r.id = s.id
      BY <2>5
    <3>3. /\ (/\ r.kind = "VENUE_FILL" /\ s.kind = "VENUE_FILL" /\ r.id = s.id) => j = k
          /\ (/\ r.kind \in ClosingKinds /\ s.kind \in ClosingKinds /\ r.order = s.order) => j = k
      BY <1>1, <2>2, <2>5 DEF ApartReports
    <3> HIDE DEF r, s
    <3> QED
      BY <3>1, <3>2, <3>3 DEF ClosingKinds
  <2> QED
    BY <1>2, <2>2, <2>4, <2>6 DEF Unbooked
<1>5. CredentialIsClean'
  <2>1. SUFFICES ASSUME reconciled, NEW k \in Unbooked', Has("HALT", venueJournal'[k].id)
                 PROVE  FALSE
    BY DEF CredentialIsClean, Has
  <2> QED
    BY <1>0, <1>4, <2>1 DEF CredentialIsClean
<1>6. IncidentsStayHalted'
  <2>1. SUFFICES ASSUME NEW k \in Unbooked', Has("HALT", venueJournal'[k].id)
                 PROVE  halted
    BY DEF IncidentsStayHalted, Has
  <2> QED
    BY <1>0, <1>4, <2>1 DEF IncidentsStayHalted
<1> QED
  BY <1>3, <1>5, <1>6

\* Nothing is halted and no credential earned at the start.
LEMMA SoleInvInit == BridgeInit => SoleInv
<1> SUFFICES ASSUME BridgeInit PROVE SoleInv
  OBVIOUS
<1>1. BridgeInv /\ statement = {} /\ ~reconciled
  BY BridgeInvInit DEF BridgeInit, Init
<1>2. /\ journal = << [kind |-> "ACCOUNT_OPENED", time |-> 0] >>
      /\ venueJournal = << [kind |-> "VENUE_OPENED", time |-> 0] >>
  BY DEF BridgeInit, Init, Venue!Init
<1>3. HaltsReported
  BY <1>2 DEF HaltsReported
<1>4. Unbooked = {}
  BY <1>2 DEF Unbooked, Venue!Reports
<1> QED
  BY <1>1, <1>3, <1>4 DEF SoleInv, CredentialIsClean, IncidentsStayHalted

\* A caller adds no halt about a report, and resumes on the credential only.
LEMMA CallerIncidents ==
  ASSUME SoleInv, Caller, statement = {}
  PROVE  SoleInv'
<1>0. UNCHANGED venueVars /\ statement' = {} /\ BridgeInv /\ LocalBooks /\ BridgeInv' /\ Times \subseteq Nat
  BY CallerBooks, TimesAssumption DEF Caller, SoleInv, BridgeInv
<1>1. ASSUME NEW e \in LocalEvent, Record(e), e.kind # "HALT", reconciled' => reconciled,
             halted => halted' \/ reconciled
      PROVE  HaltsReported' /\ CredentialIsClean' /\ IncidentsStayHalted'
  BY <1>0, <1>1, LocalIncidents
<1>2. ASSUME journal' = journal, reconciled' => reconciled, halted => halted'
      PROVE  HaltsReported' /\ CredentialIsClean' /\ IncidentsStayHalted'
  BY <1>0, <1>2, LocalIncidents
<1>3. ASSUME NEW when \in Times, Record([kind |-> "HALT", id |-> NoReport, time |-> when]),
             halted', ~reconciled'
      PROVE  HaltsReported' /\ CredentialIsClean' /\ IncidentsStayHalted'
  <2> DEFINE e == [kind |-> "HALT", id |-> NoReport, time |-> when]
  <2>1. e \in LocalEvent /\ e.id = NoReport /\ Record(e)
    BY <1>0, <1>3 DEF LocalEvent
  <2> HIDE DEF e
  <2> QED
    BY <1>0, <1>3, <2>1, LocalIncidents
<1>4. ASSUME NEW q \in Quotes, Quote(q)
      PROVE  HaltsReported' /\ CredentialIsClean' /\ IncidentsStayHalted'
  BY <1>2, <1>4 DEF Quote
<1>5. ASSUME NEW when \in Times, NEW r \in Requests, Submit(r, when)
      PROVE  HaltsReported' /\ CredentialIsClean' /\ IncidentsStayHalted'
  <2> DEFINE e == [kind |-> "ORDER_ACCEPTED", id |-> r.order_id, time |-> when]
  <2>1. e \in LocalEvent /\ e.kind # "HALT"
    BY RequestAssumption DEF LocalEvent
  <2>2. Record(e) /\ ~reconciled' /\ halted' = halted
    BY <1>5 DEF Submit
  <2> HIDE DEF e
  <2> QED
    BY <1>1, <2>1, <2>2
<1>6. ASSUME NEW when \in Times, NEW o \in DOMAIN orders, RequestCancel(o, when)
      PROVE  HaltsReported' /\ CredentialIsClean' /\ IncidentsStayHalted'
  <2> DEFINE e == [kind |-> "ORDER_CANCEL_REQUESTED", id |-> o, time |-> when]
  <2>1. e \in LocalEvent /\ e.kind # "HALT"
    BY <1>0 DEF LocalEvent, LocalBooks
  <2>2. Record(e) /\ ~reconciled' /\ halted' = halted
    BY <1>6 DEF RequestCancel, CancelWith
  <2> HIDE DEF e
  <2> QED
    BY <1>1, <2>1, <2>2
<1>7. ASSUME NEW when \in Times, NEW id \in ActionIds, NEW a \in Entitlements, CorporateAction(id, a, when)
      PROVE  HaltsReported' /\ CredentialIsClean' /\ IncidentsStayHalted'
  <2> DEFINE e == [kind |-> "CORPORATE_ACTION", id |-> id, action |-> a, time |-> when]
  <2>1. e \in LocalEvent /\ e.kind # "HALT"
    BY <1>0 DEF LocalEvent
  <2>2. Record(e) /\ ~reconciled' /\ halted' = halted
    BY <1>7 DEF CorporateAction
  <2> HIDE DEF e
  <2> QED
    BY <1>1, <2>1, <2>2
<1>8. ASSUME NEW when \in Times, Halt(NoReport, when)
      PROVE  HaltsReported' /\ CredentialIsClean' /\ IncidentsStayHalted'
  BY <1>3, <1>8 DEF Halt
<1>9. ASSUME NEW when \in Times, Monitor(when)
      PROVE  HaltsReported' /\ CredentialIsClean' /\ IncidentsStayHalted'
  <2>1. CASE Healthy(when)
    BY <1>2, <1>9, <2>1 DEF Monitor
  <2>2. CASE ~Healthy(when)
    BY <1>3, <1>9, <2>2 DEF Monitor
  <2> QED
    BY <2>1, <2>2
<1>10. ASSUME NEW when \in Times, Resume(when)
       PROVE  HaltsReported' /\ CredentialIsClean' /\ IncidentsStayHalted'
  <2> DEFINE e == [kind |-> "RESUMED", time |-> when]
  <2>1. e \in LocalEvent /\ e.kind # "HALT"
    BY <1>0 DEF LocalEvent
  <2>2. Record(e) /\ reconciled' = reconciled /\ reconciled
    BY <1>10 DEF Resume
  <2> HIDE DEF e
  <2> QED
    BY <1>1, <2>1, <2>2
<1>11. HaltsReported' /\ CredentialIsClean' /\ IncidentsStayHalted'
  BY <1>4, <1>5, <1>6, <1>7, <1>8, <1>9, <1>10 DEF Caller
<1> QED
  BY <1>0, <1>11 DEF SoleInv

\* What receive() books it takes off the reports that wait; what it refuses halts
\* the account.
LEMMA ReceiveIncidents ==
  ASSUME SoleInv, Receive, statement = {}
  PROVE  SoleInv'
<1> DEFINE m == Min(Unbooked)
           r == venueJournal[m]
<1>0. /\ UNCHANGED venueVars /\ statement' = {} /\ BridgeInv /\ LocalBooks /\ VenueBooks /\ BridgeInv'
      /\ Unbooked # {}
  BY ReceiveBooks DEF Receive, SoleInv, BridgeInv
<1>1. KnownReports
  BY <1>0, ReportsKnown
<1>2. m \in Unbooked
  <2>1. Unbooked \in SUBSET Nat
    BY <1>1 DEF Unbooked, KnownReports
  <2> QED
    BY <1>0, <2>1, LeastPlace
<1>3. IF Bookable(r) THEN Book(r) ELSE Halt(r.id, r.time)
  BY DEF Receive
<1> HIDE DEF m
<1>4. m \in Venue!Reports /\ r.order \in OrderIds /\ r.time \in Nat /\ r.id \in ReportKeys
  BY <1>1, <1>2 DEF Unbooked, KnownReports
<1>5. ASSUME NEW e \in LocalEvent, Record(e), e.kind # "HALT", ~reconciled', halted' = halted
      PROVE  SoleInv'
  BY <1>0, <1>5, LocalIncidents DEF SoleInv
<1>6. CASE Bookable(r) /\ r.kind = "VENUE_FILL"
  <2> DEFINE e == [kind |-> "FILL", id |-> r.id, order |-> r.order, time |-> r.time]
  <2>1. e \in LocalEvent /\ e.kind # "HALT"
    BY <1>4 DEF LocalEvent
  <2>2. Fill(r.id, r.order, r.quantity, r.price, r.fee, r.time)
    BY <1>3, <1>6 DEF Book
  <2>3. Record(e) /\ ~reconciled' /\ halted' = halted
    BY <2>2 DEF Fill, ApplyFill
  <2> HIDE DEF e
  <2> QED
    BY <1>5, <2>1, <2>3
<1>7. CASE Bookable(r) /\ r.kind = "VENUE_CANCELED"
  <2> DEFINE e == [kind |-> "ORDER_CANCELED", id |-> r.order, time |-> r.time]
  <2>1. e \in LocalEvent /\ e.kind # "HALT"
    BY <1>4 DEF LocalEvent
  <2>2. Record(e) /\ ~reconciled' /\ halted' = halted
    BY <1>3, <1>7 DEF Book, ConfirmCancel, CancelWith
  <2> HIDE DEF e
  <2> QED
    BY <1>5, <2>1, <2>2
<1>8. CASE Bookable(r) /\ r.kind = "VENUE_REJECTED"
  <2> DEFINE e == [kind |-> "ORDER_REJECTED", id |-> r.order, reason |-> "venue", time |-> r.time]
  <2>1. e \in LocalEvent /\ e.kind # "HALT"
    BY <1>4 DEF LocalEvent
  <2>2. Record(e) /\ ~reconciled' /\ halted' = halted
    BY <1>3, <1>8 DEF Book, Reject
  <2> HIDE DEF e
  <2> QED
    BY <1>5, <2>1, <2>2
<1>9. CASE ~Bookable(r)
  <2> DEFINE e == [kind |-> "HALT", id |-> r.id, time |-> r.time]
  <2>1. e \in LocalEvent /\ e.id = venueJournal[m].id
    BY <1>4 DEF LocalEvent
  <2>2. Record(e) /\ halted' /\ ~reconciled'
    BY <1>3, <1>9 DEF Halt
  <2> HIDE DEF e
  <2> QED
    BY <1>0, <1>4, <2>1, <2>2, LocalIncidents DEF SoleInv
<1> QED
  BY <1>4, <1>6, <1>7, <1>8, <1>9 DEF Venue!Reports

\* The venue's side moves under a finished reconcile() call only.
LEMMA MarketIncidents ==
  ASSUME SoleInv, Market \/ Dispatch, statement = {}
  PROVE  SoleInv'
<1>1. BridgeInv' /\ VenueGoesOn
  BY MarketBooks, DispatchBooks DEF SoleInv
<1>2. journal' = journal /\ halted' = halted /\ reconciled' = reconciled /\ statement' = {}
  BY DEF Market, Dispatch, vars
<1> QED
  BY <1>1, <1>2, VenueIncidents DEF SoleInv

\* A match is earned with nothing waiting, since the statement is the venue's present one.
LEMMA ReconciliationIncidents ==
  ASSUME SoleInv, Reconciliation
  PROVE  SoleInv'
<1>0. BridgeInv /\ BridgeInv' /\ statement \subseteq {Venue!Snapshot} /\ Times \subseteq Nat
  BY ReconciliationBooks, TimesAssumption DEF SoleInv
<1>1. CASE TakeStatement
  <2>1. /\ UNCHANGED venueVars /\ journal' = journal /\ halted' = halted /\ reconciled' = reconciled
        /\ statement' = {Venue!Snapshot}
    BY <1>1 DEF TakeStatement, vars
  <2>2. HaltsReported' /\ CredentialIsClean' /\ IncidentsStayHalted'
    BY <2>1, LocalIncidents
  <2>3. Venue!Snapshot' = Venue!Snapshot
    BY <2>1 DEF venueVars, Venue!Snapshot, Venue!IsActive
  <2> QED
    BY <1>0, <2>1, <2>2, <2>3 DEF SoleInv
<1>2. ASSUME NEW when \in Times, CompareStatement(when)
      PROVE  SoleInv'
  <2>1. UNCHANGED venueVars /\ statement' = {}
    BY <1>2 DEF CompareStatement
  <2>2. PICK external \in statement : Reconcile(Snapshot = external, when)
    BY <1>2 DEF CompareStatement
  <2>3. external = Venue!Snapshot
    BY <1>0
  <2> DEFINE matched == Snapshot = external
             e == [kind |-> "RECONCILIATION", matched |-> matched, time |-> when]
  <2>4. e \in LocalEvent /\ e.kind # "HALT"
    BY <1>0 DEF LocalEvent
  <2>5. Record(e) /\ reconciled' = matched /\ halted' = (halted \/ ~matched)
    BY <2>2 DEF Reconcile
  <2>6. matched => Unbooked = {}
    BY <1>0, <2>3, MatchIsComplete
  <2> HIDE DEF e, matched
  <2>7. HaltsReported' /\ CredentialIsClean' /\ IncidentsStayHalted'
    BY <2>1, <2>4, <2>5, <2>6, LocalIncidents
  <2> QED
    BY <1>0, <2>1, <2>7 DEF SoleInv
<1> QED
  BY <1>1, <1>2 DEF Reconciliation

\* Every step of the one process keeps the invariant.
LEMMA SoleInvNext ==
  ASSUME SoleInv, [SoleNext]_bridgeVars
  PROVE  SoleInv'
<1>1. CASE UNCHANGED bridgeVars
  <2>1. UNCHANGED venueVars /\ journal' = journal /\ halted' = halted /\ reconciled' = reconciled
    BY <1>1 DEF bridgeVars, vars
  <2>2. BridgeInv'
    BY <1>1, BridgeInvNext DEF SoleInv
  <2>3. HaltsReported' /\ CredentialIsClean' /\ IncidentsStayHalted'
    BY <2>1, LocalIncidents
  <2>4. Venue!Snapshot' = Venue!Snapshot /\ statement' = statement
    BY <1>1 DEF bridgeVars, venueVars, Venue!Snapshot, Venue!IsActive
  <2> QED
    BY <2>2, <2>3, <2>4 DEF SoleInv
<1> QED
  BY <1>1, CallerIncidents, MarketIncidents, ReceiveIncidents, ReconciliationIncidents DEF SoleNext

\* The account does not resume over a report it refused and has not booked, as
\* long as one process drives it (PaperBridge.receive, PaperBridge.reconcile,
\* OrderService.resume).
THEOREM IncidentsHold == SoleSpec => []IncidentsStayHalted
<1>1. SoleInv /\ [SoleNext]_bridgeVars => SoleInv'
  BY SoleInvNext
<1>2. SoleInv => IncidentsStayHalted
  BY DEF SoleInv
<1> QED
  BY <1>1, <1>2, SoleInvInit, PTL DEF SoleSpec


-----------------------------------------------------------------------------
(* The two ledgers: what else is true of the venue's side. *)

\* An order trades there on the terms it was accepted with here.
TermsShared ==
  \A o \in DOMAIN venueOrders :
    /\ o \in DOMAIN orders
    /\ venueOrders[o].symbol = orders[o].symbol /\ venueOrders[o].side = orders[o].side

VenueLedger == V!ReplayInv /\ V!StatusInv

\* What the venue does in a step is one of its operations, on an order of the account.
VenueOperation ==
  \/ \E o \in DOMAIN orders : /\ o \notin DOMAIN venueOrders /\ o \in OrderIds /\ orders[o] \in Handed
                              /\ V!Accept(o, orders[o])
  \/ \E tick \in Ticks : V!Match(tick)
  \/ \E kind \in V!Closing, status \in {"CANCELED", "REJECTED"}, o \in DOMAIN venueOrders, when \in Times :
       V!Close(kind, status, o, when)
  \/ \E id \in ActionIds, a \in Entitlements, when \in Times : V!CorporateAction(id, a, when)

LEMMA VenueOperates ==
  ASSUME BridgeInv, Market \/ Dispatch
  PROVE  VenueOperation
<1>0. VenueBooks /\ LocalBooks /\ OrdersShared
  BY DEF BridgeInv
<1>1. CASE Market
  <2>1. ASSUME NEW tick \in Ticks, Venue!Match(tick)
        PROVE  VenueOperation
    BY <2>1, SameMatch DEF VenueOperation
  <2>2. ASSUME NEW when \in Times, NEW o \in DOMAIN venueOrders, Venue!Reject(o, when)
        PROVE  VenueOperation
    <3>1. V!Close("VENUE_REJECTED", "REJECTED", o, when)
      BY <2>2, SameClose DEF Venue!Reject
    <3> QED
      BY <3>1 DEF VenueOperation, V!Closing
  <2>3. ASSUME NEW when \in Times, NEW id \in ActionIds, NEW a \in Entitlements,
               Venue!CorporateAction(id, a, when)
        PROVE  VenueOperation
    BY <2>3, SameCorporateAction DEF VenueOperation
  <2> QED
    BY <1>1, <2>1, <2>2, <2>3 DEF Market
<1>2. CASE Dispatch
  <2> DEFINE m == Min(Undelivered)
             e == journal[m]
  <2>0. Undelivered # {}
    BY <1>2 DEF Dispatch
  <2>1. Undelivered \in SUBSET Nat
    BY <1>0 DEF Undelivered, LocalBooks
  <2>2. m \in Undelivered
    BY <2>0, <2>1, LeastPlace
  <2>3. IF e.kind = "ORDER_ACCEPTED" THEN Venue!Accept(e.id, orders[e.id]) ELSE Venue!Cancel(e.id, e.time)
    BY <1>2 DEF Dispatch
  <2> HIDE DEF m
  <2>4. CASE e.kind = "ORDER_ACCEPTED"
    <3> DEFINE o == e.id
    <3>1. o \in DOMAIN orders /\ o \in OrderIds /\ orders[o] \in Handed
      BY <1>0, <2>2, <2>4 DEF LocalBooks, Undelivered
    <3>2. V!Accept(o, orders[o])
      BY <2>3, <2>4, SameAccept
    <3>3. o \notin DOMAIN venueOrders
      BY <1>0, <3>2, V!Unknown, HandedAsOffered DEF V!Accept, VenueBooks
    <3> QED
      BY <3>1, <3>2, <3>3 DEF VenueOperation
  <2>5. CASE e.kind # "ORDER_ACCEPTED"
    <3>1. e.kind = "ORDER_CANCEL_REQUESTED" /\ Venue!IsActive(e.id) /\ e \in LocalEvent
      BY <1>0, <2>2, <2>5 DEF Undelivered, LocalBooks
    <3>2. e.time \in Times /\ e.id \in DOMAIN venueOrders
      BY <3>1 DEF LocalEvent, Venue!IsActive
    <3>3. V!Close("VENUE_CANCELED", "CANCELED", e.id, e.time)
      BY <2>3, <2>5, SameClose DEF Venue!Cancel
    <3> QED
      BY <3>2, <3>3 DEF VenueOperation, V!Closing
  <2> QED
    BY <2>4, <2>5
<1> QED
  BY <1>1, <1>2

\* The venue's ledger stays the fold of its journal, and its orders keep their terms.
LEMMA VenueLedgerKeeps ==
  ASSUME BridgeInv, VenueLedger, TermsShared, VenueOperation, orders' = orders
  PROVE  VenueLedger' /\ TermsShared'
<1>0. VenueBooks /\ V!VenueInv /\ V!Shaped
  BY DEF BridgeInv, VenueBooks, V!VenueInv
<1>1. ASSUME NEW o \in DOMAIN orders, o \notin DOMAIN venueOrders, o \in OrderIds, orders[o] \in Handed,
             V!Accept(o, orders[o])
      PROVE  VenueLedger' /\ TermsShared'
  <2> DEFINE order == orders[o]
             offer == [id |-> o, order |-> order]
             new == [order EXCEPT !.filled = 0, !.status = "ACCEPTED"]
  <2>1. offer \in [id : OrderIds, order : Handed] /\ offer.id = o /\ offer.order = order
    BY <1>1
  <2>2. V!Accept(offer.id, offer.order)
    BY <1>1
  <2>3. venueOrders' = [p \in DOMAIN venueOrders \cup {o} |-> IF p = o THEN new ELSE venueOrders[p]]
    BY <1>1 DEF V!Accept
  <2>4. new.symbol = order.symbol /\ new.side = order.side
    BY <1>1 DEF Handed
  <2> HIDE DEF offer, new
  <2>5. VenueLedger'
    BY <1>0, <2>1, <2>2, V!AcceptReplays, V!AcceptTells, HandedAsOffered DEF VenueLedger
  <2>6. TermsShared'
    BY <1>1, <2>3, <2>4 DEF TermsShared
  <2> QED
    BY <2>5, <2>6
<1>2. ASSUME NEW tick \in Ticks, V!Match(tick)
      PROVE  VenueLedger' /\ TermsShared'
  <2>1. VenueLedger'
    BY <1>0, <1>2, V!MatchReplays, V!MatchTells, HandedAsOffered DEF VenueLedger
  <2>2. DOMAIN venueOrders' = DOMAIN venueOrders /\ \A o \in DOMAIN venueOrders : V!SameTerms(venueOrders[o], venueOrders'[o])
    BY <1>0, <1>2, V!MatchOrders, HandedAsOffered
  <2>3. TermsShared'
    BY <2>2 DEF TermsShared, V!SameTerms
  <2> QED
    BY <2>1, <2>3
<1>3. ASSUME NEW kind \in V!Closing, NEW status \in {"CANCELED", "REJECTED"}, NEW o \in DOMAIN venueOrders,
             NEW when \in Times, V!Close(kind, status, o, when)
      PROVE  VenueLedger' /\ TermsShared'
  <2>1. VenueLedger'
    BY <1>0, <1>3, V!CloseReplays, V!CloseTells, HandedAsOffered DEF VenueLedger
  <2>2. venueOrders' = [venueOrders EXCEPT ![o].status = status]
    BY <1>3 DEF V!Close
  <2>3. {"symbol", "side"} \subseteq DOMAIN venueOrders[o]
    BY <1>0 DEF V!Shaped, V!Kept
  <2>4. TermsShared'
    BY <2>2, <2>3 DEF TermsShared
  <2> QED
    BY <2>1, <2>4
<1>4. ASSUME NEW id \in ActionIds, NEW a \in Entitlements, NEW when \in Times, V!CorporateAction(id, a, when)
      PROVE  VenueLedger' /\ TermsShared'
  <2>1. VenueLedger'
    BY <1>0, <1>4, V!CorporateActionReplays, V!CorporateActionTells, HandedAsOffered DEF VenueLedger
  <2>2. venueOrders' = venueOrders
    BY <1>4 DEF V!CorporateAction
  <2> QED
    BY <2>1, <2>2 DEF TermsShared
<1> QED
  BY <1>1, <1>2, <1>3, <1>4 DEF VenueOperation

\* Nor does a step here touch them.
LEMMA VenueLedgerUntouched ==
  ASSUME BridgeInv, VenueLedger, UNCHANGED venueVars
  PROVE  VenueLedger'
<1>1. V!VenueInv /\ [V!Next]_V!venueVars
  BY DEF BridgeInv, VenueBooks, venueVars, V!venueVars
<1> QED
  BY <1>1, V!ReplayInvNext, V!StatusInvNext, HandedAsOffered DEF VenueLedger

-----------------------------------------------------------------------------
(* The two ledgers: the steps of the account. *)

\* An event of the journal makes the account m of the account l (project(),
\* order_service.py:52-105); what an execution is worth is what the venue reported.
Posts(l, e, m) ==
  /\ e.kind = "FILL" =>
       \E k \in DOMAIN venueJournal :
         LET r == venueJournal[k]  order == venueOrders[r.order]  value == r.price * r.quantity
         IN  /\ r.kind = "VENUE_FILL" /\ r.id = e.id /\ r.order = e.order
             /\ m.cash = IF order.side = "BUY" THEN l.cash - (value + r.fee) ELSE l.cash + value - r.fee
             /\ m.positions = [l.positions EXCEPT ![order.symbol] =
                                 IF order.side = "BUY" THEN @ + r.quantity ELSE @ - r.quantity]
  /\ e.kind = "CORPORATE_ACTION" =>
       /\ m.cash = l.cash + e.action.net
       /\ m.positions = [l.positions EXCEPT ![e.action.symbol] = (@ * e.action.num) \div e.action.den]
  /\ e.kind \notin {"FILL", "CORPORATE_ACTION"} => m = l

\* The orders keep their terms, and none opens again.
OrdersKeepTerms ==
  \A o \in DOMAIN orders :
    /\ o \in DOMAIN orders'
    /\ orders'[o].symbol = orders[o].symbol /\ orders'[o].side = orders[o].side
    /\ orders'[o].quantity = orders[o].quantity
    /\ o \in Pending' => o \in Pending

\* A new order is the only one open for its symbol, and sells no more than is held.
Opens(e) ==
  /\ e.id \notin DOMAIN orders /\ e.id \in DOMAIN orders' /\ NoOutstanding(orders'[e.id].symbol)
  /\ orders'[e.id].side = "SELL" => orders'[e.id].quantity <= positions[orders'[e.id].symbol]

\* An order that is not as it was tells what became of it.
OrdersTell(e) ==
  /\ e.kind \in {"ORDER_CANCELED", "ORDER_REJECTED"} => e.id \notin Pending'
  /\ \A o \in DOMAIN orders' :
       \/ o \in DOMAIN orders /\ orders'[o] = orders[o]
       \/ /\ orders'[o].status = "ACCEPTED" => orders'[o].filled = 0
          /\ orders'[o].status = "PARTIAL" => orders'[o].filled # 0
          /\ orders'[o].status = "CANCEL_PENDING" =>
               \/ o \in DOMAIN orders /\ orders[o].status = "CANCEL_PENDING"
               \/ e.kind = "ORDER_CANCEL_REQUESTED" /\ e.id = o

\* What an event finds and leaves.
Journalled(e) ==
  /\ e \in LocalEvent /\ Record(e)
  /\ OrdersKeepTerms /\ OrdersTell(e)
  /\ \A o \in DOMAIN orders' : o \in DOMAIN orders \/ (e.kind = "ORDER_ACCEPTED" /\ e.id = o)
  /\ e.kind = "ORDER_ACCEPTED" => Opens(e)
  /\ e.kind = "CORPORATE_ACTION" => ~Has("CORPORATE_ACTION", e.id) /\ NoOutstanding(e.action.symbol)
  /\ e.kind = "FILL" =>
       /\ e.order \in Pending /\ ~Has("FILL", e.id)
       /\ \E m \in Unbooked : /\ \A k \in Unbooked : m <= k
                              /\ venueJournal[m].kind = "VENUE_FILL"
                              /\ venueJournal[m].id = e.id /\ venueJournal[m].order = e.order
  /\ Posts([cash |-> cash, positions |-> positions], e, [cash |-> cash', positions |-> positions'])

\* submit()
LEMMA SubmitJournalled ==
  ASSUME BridgeInv, LotsInv, NEW r \in Requests, NEW when \in Times, Submit(r, when)
  PROVE  \E e : Journalled(e)
<1> DEFINE e == [kind |-> "ORDER_ACCEPTED", id |-> r.order_id, time |-> when]
           o == r.order_id
<1>1. e \in LocalEvent /\ Record(e)
  BY RequestAssumption DEF LocalEvent, Submit
<1>2. o \notin DOMAIN orders
  BY DEF BridgeInv, LocalBooks, OrdersJournalled, Submit
<1>3. orders' = [p \in DOMAIN orders \cup {o} |-> IF p = o THEN OrderOf(r, when) ELSE orders[p]]
  BY DEF Submit
<1>4. /\ OrderOf(r, when).symbol = r.symbol /\ OrderOf(r, when).side = r.side
      /\ OrderOf(r, when).quantity = r.quantity /\ r.symbol \in Symbols /\ r.quantity \in Nat
  BY RequestAssumption DEF OrderOf
<1>5. /\ o \in DOMAIN orders' /\ orders'[o] = OrderOf(r, when)
      /\ \A p \in DOMAIN orders : p # o /\ p \in DOMAIN orders' /\ orders'[p] = orders[p]
      /\ \A p \in DOMAIN orders' : p \in DOMAIN orders \/ p = o
  BY <1>2, <1>3
<1>6. OrdersKeepTerms
  BY <1>5 DEF OrdersKeepTerms, Pending
<1>7. r.side = "SELL" => r.quantity <= positions[r.symbol]
  <2> SUFFICES ASSUME r.side = "SELL" PROVE r.quantity <= positions[r.symbol]
    OBVIOUS
  <2>1. r.quantity <= Available(r.symbol, when)
    BY DEF Submit, ExitAllowed
  <2> DEFINE n == Len(lots)
             f == SizesOf(lots)
             A == OfSymbol(lots, r.symbol)
             B == SettledIn(lots, r.symbol, when)
  <2>2. /\ lots \in Seq(Lot) /\ DOMAIN lots = 1..n /\ n \in Nat /\ IsFiniteSet(DOMAIN lots)
        /\ \A i \in 1..n : lots[i] \in Lot /\ f[i] = lots[i].quantity /\ f[i] \in Nat
    BY Sizes DEF LotsInv
  <2>3. A \in SUBSET DOMAIN lots /\ B \in SUBSET A
    BY DEF OfSymbol, SettledIn, Settled
  <2>4. Available(r.symbol, when) = Shares(lots, B)
    BY Views
  <2>5. positions[r.symbol] = Shares(lots, A)
    BY <1>4 DEF LotsInv, PositionsAreLots, SharesIn, Shares, SizesOf, OfSymbol
  <2>6. IsFiniteSet(A) /\ \A i \in A : f[i] \in Nat
    BY <2>2, <2>3, FS_Subset
  <2> HIDE DEF A, B, f, n
  <2>7. SumFunctionOnSet(f, B) <= SumFunctionOnSet(f, A)
    BY <2>3, <2>6, SumPart
  <2>8. Shares(lots, B) \in Nat /\ Shares(lots, A) \in Nat
    BY <2>2, <2>3, SharesNat
  <2> QED
    BY <1>4, <2>1, <2>4, <2>5, <2>7, <2>8 DEF Shares, f
<1>8. NoOutstanding(r.symbol) /\ cash' = cash /\ positions' = positions
  BY DEF Submit
<1>9. e.kind = "ORDER_ACCEPTED" /\ e.id = o
  OBVIOUS
<1> HIDE DEF e, o
<1>10. Opens(e)
  BY <1>2, <1>4, <1>5, <1>7, <1>8, <1>9 DEF Opens
<1>11. Posts([cash |-> cash, positions |-> positions], e, [cash |-> cash', positions |-> positions'])
  BY <1>8, <1>9 DEF Posts
<1>12. OrdersTell(e)
  <2>1. orders'[o].status = "ACCEPTED" /\ orders'[o].filled = 0
    BY <1>5 DEF OrderOf
  <2> QED
    BY <1>5, <1>9, <2>1 DEF OrdersTell
<1> QED
  BY <1>1, <1>5, <1>6, <1>9, <1>10, <1>11, <1>12 DEF Journalled

\* cancel() requested, and the cancellations and rejections the bridge books
LEMMA StatusJournalled ==
  ASSUME BridgeInv, NEW e \in LocalEvent, Record(e),
         e.kind \in {"ORDER_CANCEL_REQUESTED", "ORDER_CANCELED", "ORDER_REJECTED"},
         NEW o \in Pending, e.id = o, NEW status, SetStatus(o, status), UNCHANGED <<cash, positions>>,
         status = IF e.kind = "ORDER_CANCEL_REQUESTED" THEN "CANCEL_PENDING"
                  ELSE IF e.kind = "ORDER_CANCELED" THEN "CANCELED" ELSE "REJECTED"
  PROVE  Journalled(e)
<1>1. o \in DOMAIN orders /\ orders[o] \in Handed
  BY DEF Pending, BridgeInv, LocalBooks
<1>2. /\ DOMAIN orders' = DOMAIN orders
      /\ \A p \in DOMAIN orders : p # o => orders'[p] = orders[p]
      /\ orders'[o] = [orders[o] EXCEPT !.status = status]
  BY <1>1 DEF SetStatus
<1>3. /\ orders'[o].symbol = orders[o].symbol /\ orders'[o].side = orders[o].side
      /\ orders'[o].quantity = orders[o].quantity /\ orders'[o].status = status
  BY <1>1, <1>2 DEF Handed
<1>6. OrdersTell(e)
  BY <1>1, <1>2, <1>3 DEF OrdersTell, Pending, ACTIVE
<1>4. OrdersKeepTerms
  BY <1>2, <1>3 DEF OrdersKeepTerms, Pending
<1>5. Posts([cash |-> cash, positions |-> positions], e, [cash |-> cash', positions |-> positions'])
  BY DEF Posts
<1> QED
  BY <1>2, <1>4, <1>5, <1>6 DEF Journalled

\* halt(), reconcile() and resume()
LEMMA ControlJournalled ==
  ASSUME NEW e \in LocalEvent, Record(e), e.kind \in {"HALT", "RECONCILIATION", "RESUMED"},
         UNCHANGED <<orders, cash, positions>>
  PROVE  Journalled(e)
<1>1. OrdersKeepTerms /\ DOMAIN orders' = DOMAIN orders
  BY DEF OrdersKeepTerms, Pending
<1>2. Posts([cash |-> cash, positions |-> positions], e, [cash |-> cash', positions |-> positions'])
  BY DEF Posts
<1>3. OrdersTell(e)
  BY DEF OrdersTell
<1> QED
  BY <1>1, <1>2, <1>3 DEF Journalled

\* corporate_action()
LEMMA ActionJournalled ==
  ASSUME NEW id \in ActionIds, NEW a \in Entitlements, NEW when \in Times, CorporateAction(id, a, when)
  PROVE  \E e : Journalled(e)
<1> DEFINE e == [kind |-> "CORPORATE_ACTION", id |-> id, action |-> a, time |-> when]
<1>1. e \in LocalEvent /\ Record(e)
  BY TimesAssumption DEF LocalEvent, CorporateAction
<1>2. /\ ~Has("CORPORATE_ACTION", id) /\ NoOutstanding(a.symbol) /\ orders' = orders
      /\ cash' = cash + a.net
      /\ positions' = [positions EXCEPT ![a.symbol] = (@ * a.num) \div a.den]
  BY DEF CorporateAction
<1>3. OrdersKeepTerms /\ DOMAIN orders' = DOMAIN orders
  BY <1>2 DEF OrdersKeepTerms, Pending
<1>4. e.kind = "CORPORATE_ACTION" /\ e.id = id /\ e.action = a
  OBVIOUS
<1> HIDE DEF e
<1>5. Posts([cash |-> cash, positions |-> positions], e, [cash |-> cash', positions |-> positions'])
  BY <1>2, <1>4 DEF Posts
<1>6. OrdersTell(e)
  BY <1>2, <1>4 DEF OrdersTell
<1> QED
  BY <1>1, <1>2, <1>3, <1>4, <1>5, <1>6 DEF Journalled

\* receive() books an execution
LEMMA FillJournalled ==
  ASSUME BridgeInv, TermsShared, cash \in Int, NEW m \in Unbooked, \A k \in Unbooked : m <= k,
         venueJournal[m].kind = "VENUE_FILL",
         Fill(venueJournal[m].id, venueJournal[m].order, venueJournal[m].quantity,
              venueJournal[m].price, venueJournal[m].fee, venueJournal[m].time)
  PROVE  \E e : Journalled(e)
<1> DEFINE r == venueJournal[m]
           o == r.order
           e == [kind |-> "FILL", id |-> r.id, order |-> o, time |-> r.time]
<1>0. VenueBooks /\ LocalBooks
  BY DEF BridgeInv
<1>1. KnownReports /\ m \in Venue!Reports
  BY <1>0, ReportsKnown DEF Unbooked
<1>2. /\ o \in DOMAIN venueOrders /\ o \in OrderIds /\ r.time \in Nat /\ r.id \in ReportKeys
      /\ r.quantity \in Nat \ {0} /\ m \in DOMAIN venueJournal
  BY <1>1 DEF KnownReports
<1>3. /\ o \in Pending /\ o \in DOMAIN orders /\ orders[o] \in Handed
      /\ Record(e) /\ orders' = [orders EXCEPT ![o] = Executed(o, r.quantity, r.fee)]
      /\ cash' = cash + CashFlow(o, r.quantity, r.price, r.fee)
      /\ positions' = IF orders[o].side = "BUY" THEN [positions EXCEPT ![orders[o].symbol] = @ + r.quantity]
                      ELSE [positions EXCEPT ![orders[o].symbol] = @ - r.quantity]
  BY <1>0 DEF Fill, FillAllowed, ApplyFill, Pending, LocalBooks
<1>4. e \in LocalEvent /\ e.kind = "FILL" /\ e.id = r.id /\ e.order = o
  BY <1>2 DEF LocalEvent
<1> DEFINE new == Executed(o, r.quantity, r.fee)
<1>5. new.symbol = orders[o].symbol /\ new.side = orders[o].side /\ new.quantity = orders[o].quantity
  BY <1>3 DEF Executed, Handed
<1>6. OrdersKeepTerms /\ DOMAIN orders' = DOMAIN orders
  <2> HIDE DEF new, o
  <2>1. orders' = [orders EXCEPT ![o] = new]
    BY <1>3 DEF new
  <2> QED
    BY <1>3, <1>5, <2>1 DEF OrdersKeepTerms, Pending
<1> HIDE DEF e
<1>7. r.price \in Int /\ r.fee \in Int /\ r.quantity \in Int
  <2>1. r \in V!VenueEvent
    BY <1>0, <1>1, <1>2 DEF VenueBooks, V!VenueInv, V!Shaped
  <2> QED
    BY <1>2, <2>1, V!EventFields, HandedAsOffered
<1>8. Posts([cash |-> cash, positions |-> positions], e, [cash |-> cash', positions |-> positions'])
  <2>1. venueOrders[o].symbol = orders[o].symbol /\ venueOrders[o].side = orders[o].side
    BY <1>2 DEF TermsShared
  <2> DEFINE c == cash'
             p == positions'
             v == r.price * r.quantity
             buy == orders[o].side = "BUY"
             s == orders[o].symbol
             q == r.quantity
             f == r.fee
  <2>2. v \in Int /\ f \in Int /\ r.quantity * r.price = v
    BY <1>7
  <2>3. CashFlow(o, q, r.price, f) = IF buy THEN -(v + f) ELSE v - f
    BY <2>2 DEF CashFlow
  <2>4. /\ c = cash + CashFlow(o, q, r.price, f)
        /\ p = IF buy THEN [positions EXCEPT ![s] = @ + q] ELSE [positions EXCEPT ![s] = @ - q]
    BY <1>3
  <2>5. c = IF buy THEN cash - (v + f) ELSE cash + v - f
    <3> HIDE DEF c, v, buy, f
    <3> QED
      BY <2>2, <2>3, <2>4
  <2>6. p = [positions EXCEPT ![s] = IF buy THEN @ + q ELSE @ - q]
    <3> HIDE DEF p, s, q, buy
    <3>1. CASE buy
      BY <2>4, <3>1
    <3>2. CASE ~buy
      BY <2>4, <3>2
    <3> QED
      BY <3>1, <3>2
  <2>7. r.kind = "VENUE_FILL" /\ m \in DOMAIN venueJournal /\ venueJournal[m] = r
    BY <1>2
  <2>8. /\ c = IF venueOrders[o].side = "BUY" THEN cash - (v + f) ELSE cash + v - f
        /\ p = [positions EXCEPT ![venueOrders[o].symbol] =
                  IF venueOrders[o].side = "BUY" THEN @ + q ELSE @ - q]
    <3> HIDE DEF c, p, v, f, q
    <3> QED
      BY <2>1, <2>5, <2>6
  <2> DEFINE l == [cash |-> cash, positions |-> positions]
             n == [cash |-> cash', positions |-> positions']
  <2>9. l.cash = cash /\ l.positions = positions /\ n.cash = c /\ n.positions = p
    OBVIOUS
  <2>10. v = r.price * r.quantity /\ f = r.fee /\ q = r.quantity /\ o = r.order
    OBVIOUS
  <2> HIDE DEF c, p, v, f, q, l, n, r, o
  <2>11. Posts(l, e, n)
    BY <1>4, <2>7, <2>8, <2>9, <2>10, Zenon DEF Posts
  <2> QED
    BY <2>11 DEF l, n
<1>9. ~Has("FILL", r.id)
  BY DEF Fill
<1>10. OrdersTell(e)
  <2> DEFINE old == orders[o]
             total == old.filled + r.quantity
  <2>1. total # 0
    BY <1>2, <1>3 DEF Handed
  <2>2. orders'[o] = new /\ \A x \in DOMAIN orders : x # o => orders'[x] = orders[x]
    BY <1>3
  <2> HIDE DEF old, total
  <2>3. new.filled = total /\ new.status = StatusAfter(o, total)
    BY <1>3 DEF Executed, Handed, old, total
  <2> HIDE DEF new, o, r
  <2>4. /\ new.status = "ACCEPTED" => FALSE
        /\ new.status = "CANCEL_PENDING" => orders[o].status = "CANCEL_PENDING"
    BY <2>3 DEF StatusAfter
  <2> QED
    BY <1>3, <1>4, <1>6, <2>1, <2>2, <2>3, <2>4 DEF OrdersTell
<1> QED
  BY <1>3, <1>4, <1>6, <1>8, <1>9, <1>10 DEF Journalled

-----------------------------------------------------------------------------
(* What a step of the bridge journals. *)

\* A step that leaves the account alone.
Rests == UNCHANGED <<journal, orders, cash, positions, lots>>

\* A caller's or an operator's step journals one event or leaves the account alone.
LEMMA CallerJournals ==
  ASSUME BridgeInv, LotsInv, OrdersApart, Caller
  PROVE  Rests \/ (LotsInv' /\ \E e : Journalled(e))
<1>0. Times \subseteq Nat
  BY TimesAssumption
<1>1. ASSUME NEW q \in Quotes, Quote(q)
      PROVE  Rests
  BY <1>1 DEF Quote, Rests
<1>2. ASSUME NEW when \in Times, NEW r \in Requests, Submit(r, when)
      PROVE  LotsInv' /\ \E e : Journalled(e)
  BY <1>2, SubmitJournalled, SubmitLots
<1>3. ASSUME NEW when \in Times, NEW o \in DOMAIN orders, RequestCancel(o, when)
      PROVE  LotsInv' /\ \E e : Journalled(e)
  <2> DEFINE e == [kind |-> "ORDER_CANCEL_REQUESTED", id |-> o, time |-> when]
  <2>1. /\ o \in Pending /\ Record(e) /\ SetStatus(o, "CANCEL_PENDING")
        /\ UNCHANGED <<cash, positions>> /\ UNCHANGED <<lots, positions>>
    BY <1>3 DEF RequestCancel, CancelWith, CancelAllowed
  <2>2. e \in LocalEvent /\ e.kind = "ORDER_CANCEL_REQUESTED" /\ e.id = o
    BY DEF LocalEvent, BridgeInv, LocalBooks
  <2> HIDE DEF e
  <2>3. Journalled(e)
    BY <2>1, <2>2, StatusJournalled
  <2>4. LotsInv'
    BY <2>1, StatusLots
  <2> QED
    BY <2>3, <2>4
<1>4. ASSUME NEW when \in Times, NEW id \in ActionIds, NEW a \in Entitlements, CorporateAction(id, a, when)
      PROVE  LotsInv' /\ \E e : Journalled(e)
  BY <1>4, ActionJournalled, CorporateActionLots
<1>5. ASSUME NEW e \in LocalEvent, Record(e), e.kind \in {"HALT", "RECONCILIATION", "RESUMED"},
             UNCHANGED ledger
      PROVE  LotsInv' /\ \E x : Journalled(x)
  <2>1. Journalled(e)
    BY <1>5, ControlJournalled DEF ledger
  <2>2. LotsInv'
    BY <1>5, StillCovered DEF ledger, Pending, SameTerms
  <2> QED
    BY <2>1, <2>2
<1>6. ASSUME NEW when \in Times, Halt(NoReport, when)
      PROVE  LotsInv' /\ \E e : Journalled(e)
  <2> DEFINE e == [kind |-> "HALT", id |-> NoReport, time |-> when]
  <2>1. e \in LocalEvent /\ e.kind = "HALT" /\ Record(e) /\ UNCHANGED ledger
    BY <1>0, <1>6 DEF LocalEvent, Halt
  <2> HIDE DEF e
  <2> QED
    BY <1>5, <2>1
<1>7. ASSUME NEW when \in Times, Monitor(when)
      PROVE  Rests \/ (LotsInv' /\ \E e : Journalled(e))
  <2> DEFINE e == [kind |-> "HALT", id |-> NoReport, time |-> when]
  <2>1. e \in LocalEvent /\ e.kind = "HALT"
    BY <1>0 DEF LocalEvent
  <2>2. UNCHANGED ledger /\ (journal' = journal \/ Record(e))
    BY <1>7 DEF Monitor
  <2> HIDE DEF e
  <2>3. CASE journal' = journal
    BY <2>2, <2>3 DEF Rests, ledger
  <2> QED
    BY <1>5, <2>1, <2>2, <2>3
<1>8. ASSUME NEW when \in Times, Resume(when)
      PROVE  LotsInv' /\ \E e : Journalled(e)
  <2> DEFINE e == [kind |-> "RESUMED", time |-> when]
  <2>1. e \in LocalEvent /\ e.kind = "RESUMED" /\ Record(e) /\ UNCHANGED ledger
    BY <1>0, <1>8 DEF LocalEvent, Resume
  <2> HIDE DEF e
  <2> QED
    BY <1>5, <2>1
<1> QED
  BY <1>1, <1>2, <1>3, <1>4, <1>6, <1>7, <1>8 DEF Caller

\* So does a step of reconcile().
LEMMA ReconciliationJournals ==
  ASSUME LotsInv, Reconciliation
  PROVE  Rests \/ (LotsInv' /\ \E e : Journalled(e))
<1>1. CASE TakeStatement
  BY <1>1 DEF TakeStatement, vars, Rests
<1>2. ASSUME NEW when \in Times, CompareStatement(when)
      PROVE  LotsInv' /\ \E e : Journalled(e)
  <2>1. PICK external \in statement : Reconcile(Snapshot = external, when)
    BY <1>2 DEF CompareStatement
  <2> DEFINE matched == Snapshot = external
             e == [kind |-> "RECONCILIATION", matched |-> matched, time |-> when]
  <2>2. e \in LocalEvent /\ e.kind = "RECONCILIATION"
    BY TimesAssumption DEF LocalEvent
  <2>3. UNCHANGED ledger /\ Record(e)
    BY <2>1 DEF Reconcile
  <2> HIDE DEF e
  <2>4. Journalled(e)
    BY <2>2, <2>3, ControlJournalled DEF ledger
  <2>5. LotsInv'
    BY <2>3, StillCovered DEF ledger, Pending, SameTerms
  <2> QED
    BY <2>4, <2>5
<1> QED
  BY <1>1, <1>2 DEF Reconciliation

\* An iteration of receive() journals what it books, or a halt.
LEMMA ReceiveJournals ==
  ASSUME BridgeInv, LotsInv, OrdersApart, TermsShared, cash \in Int, Receive
  PROVE  LotsInv' /\ \E e : Journalled(e)
<1> DEFINE m == Min(Unbooked)
           r == venueJournal[m]
           o == r.order
<1>0. VenueBooks /\ LocalBooks /\ Unbooked # {}
  BY DEF BridgeInv, Receive
<1>1. KnownReports
  BY <1>0, ReportsKnown
<1>2. Unbooked \in SUBSET Nat
  BY <1>1 DEF Unbooked, KnownReports
<1>3. m \in Unbooked /\ \A k \in Unbooked : m <= k
  BY <1>0, <1>2, LeastPlace
<1>4. IF Bookable(r) THEN Book(r) ELSE Halt(r.id, r.time)
  BY DEF Receive
<1> HIDE DEF m
<1>5. /\ m \in Venue!Reports /\ r.order \in OrderIds /\ r.time \in Nat /\ r.id \in ReportKeys
      /\ r.kind = "VENUE_FILL" => r.quantity \in Nat
  BY <1>1, <1>3 DEF Unbooked, KnownReports
<1>6. CASE Bookable(r) /\ r.kind = "VENUE_FILL"
  <2>1. Fill(r.id, o, r.quantity, r.price, r.fee, r.time)
    BY <1>4, <1>6 DEF Book
  <2>2. \E e : Journalled(e)
    BY <1>3, <1>6, <2>1, FillJournalled
  <2>3. r.time \in Times
    <3>1. r \in V!VenueEvent
      BY <1>0, <1>1, <1>5 DEF VenueBooks, V!VenueInv, V!Shaped, KnownReports
    <3> HIDE DEF r
    <3> QED
      BY <1>6, <3>1 DEF V!VenueEvent, V!Closing
  <2>4. o \in DOMAIN orders /\ orders[o].side \in {"BUY", "SELL"}
    BY <2>1 DEF Fill, FillAllowed, Pending, OrdersApart, Handed
  <2>5. LotsInv'
    <3>1. CASE orders[o].side = "BUY"
      BY <1>5, <1>6, <2>1, <2>3, <2>4, <3>1, BuyFillLots
    <3>2. CASE orders[o].side = "SELL"
      BY <1>5, <1>6, <2>1, <2>3, <2>4, <3>2, SellFillLots
    <3> QED
      BY <2>4, <3>1, <3>2
  <2> QED
    BY <2>2, <2>5
<1>7. CASE Bookable(r) /\ r.kind = "VENUE_CANCELED"
  <2> DEFINE e == [kind |-> "ORDER_CANCELED", id |-> o, time |-> r.time]
  <2>1. /\ Record(e) /\ SetStatus(o, "CANCELED") /\ o \in Pending
        /\ UNCHANGED <<cash, positions>> /\ UNCHANGED <<lots, positions>>
    BY <1>4, <1>7 DEF Book, ConfirmCancel, CancelWith, CancelAllowed
  <2>2. e \in LocalEvent /\ e.kind = "ORDER_CANCELED" /\ e.id = o
    BY <1>5 DEF LocalEvent
  <2> HIDE DEF e, o
  <2>3. Journalled(e)
    BY <2>1, <2>2, StatusJournalled
  <2>4. LotsInv'
    BY <2>1, StatusLots
  <2> QED
    BY <2>3, <2>4
<1>8. CASE Bookable(r) /\ r.kind = "VENUE_REJECTED"
  <2> DEFINE e == [kind |-> "ORDER_REJECTED", id |-> o, reason |-> "venue", time |-> r.time]
  <2>1. /\ Record(e) /\ SetStatus(o, "REJECTED") /\ o \in Pending
        /\ UNCHANGED <<cash, positions>> /\ UNCHANGED <<lots, positions>>
    BY <1>4, <1>8 DEF Book, Reject, RejectAllowed
  <2>2. e \in LocalEvent /\ e.kind = "ORDER_REJECTED" /\ e.id = o
    BY <1>5 DEF LocalEvent
  <2> HIDE DEF e, o
  <2>3. Journalled(e)
    BY <2>1, <2>2, StatusJournalled
  <2>4. LotsInv'
    BY <2>1, StatusLots
  <2> QED
    BY <2>3, <2>4
<1>9. CASE ~Bookable(r)
  <2> DEFINE e == [kind |-> "HALT", id |-> r.id, time |-> r.time]
  <2>1. e \in LocalEvent /\ e.kind = "HALT" /\ Record(e) /\ UNCHANGED ledger
    BY <1>4, <1>5, <1>9 DEF LocalEvent, Halt
  <2> HIDE DEF e
  <2>2. Journalled(e)
    BY <2>1, ControlJournalled DEF ledger
  <2>3. LotsInv'
    BY <2>1, StillCovered DEF ledger, Pending, SameTerms
  <2> QED
    BY <2>2, <2>3
<1> QED
  BY <1>5, <1>6, <1>7, <1>8, <1>9 DEF Venue!Reports

\* A step journals one event here, or moves nothing here.
LEMMA StepJournals ==
  ASSUME BridgeInv, LotsInv, OneOrderPerSymbol, TermsShared, cash \in Int, [BridgeNext]_bridgeVars
  PROVE  \/ Rests /\ (VenueOperation \/ UNCHANGED venueVars)
         \/ UNCHANGED venueVars /\ LotsInv' /\ \E e : Journalled(e)
<1>1. OrdersApart
  BY DEF OrdersApart, BridgeInv, LocalBooks
<1>2. CASE Market \/ Dispatch
  BY <1>2, VenueOperates DEF Market, Dispatch, Rests, vars
<1>3. CASE Caller
  BY <1>1, <1>3, CallerJournals DEF Caller
<1>4. CASE Receive
  BY <1>1, <1>4, ReceiveJournals DEF Receive
<1>5. CASE Reconciliation
  BY <1>5, ReconciliationJournals DEF Reconciliation, TakeStatement, CompareStatement
<1>6. CASE UNCHANGED bridgeVars
  BY <1>6 DEF bridgeVars, vars, Rests
<1> QED
  BY <1>2, <1>3, <1>4, <1>5, <1>6 DEF BridgeNext

-----------------------------------------------------------------------------
(* The account is its journal replayed. *)

\* An execution and an entitlement are journalled once.
EventsOnce ==
  \A i, j \in DOMAIN journal :
    (/\ journal[i].kind \in {"FILL", "CORPORATE_ACTION"}
     /\ journal[i].kind = journal[j].kind /\ journal[i].id = journal[j].id) => i = j

\* An execution here is one there, of the same order.
FillsReported ==
  \A i \in DOMAIN journal : journal[i].kind = "FILL" =>
    \E k \in DOMAIN venueJournal :
      /\ venueJournal[k].kind = "VENUE_FILL"
      /\ venueJournal[k].id = journal[i].id /\ venueJournal[k].order = journal[i].order

\* An order is accepted before it is filled.
FillsFollow ==
  \A i, j \in DOMAIN journal :
    (/\ journal[i].kind = "ORDER_ACCEPTED" /\ journal[j].kind = "FILL"
     /\ journal[j].order = journal[i].id) => i < j

\* What was filled here before an order was accepted was filled there before the order was.
FillsBefore ==
  \A i, j \in DOMAIN journal, k, m \in DOMAIN venueJournal :
    (/\ journal[i].kind = "ORDER_ACCEPTED" /\ journal[j].kind = "FILL" /\ j < i
     /\ venueJournal[k].kind = "VENUE_FILL" /\ venueJournal[k].order = journal[i].id
     /\ venueJournal[m].kind = "VENUE_FILL" /\ venueJournal[m].id = journal[j].id) => m < k

\* A later order or entitlement of a symbol found the earlier ones closed.
Meets(e, s) ==
  \/ e.kind = "ORDER_ACCEPTED" /\ orders[e.id].symbol = s
  \/ e.kind = "CORPORATE_ACTION" /\ e.action.symbol = s

NothingOutstanding ==
  \A i, j \in DOMAIN journal :
    (/\ i < j /\ journal[i].kind = "ORDER_ACCEPTED"
     /\ Meets(journal[j], orders[journal[i].id].symbol)) =>
      /\ journal[i].id \notin Pending
      /\ \A l \in DOMAIN journal : l > j /\ journal[l].kind = "FILL" => journal[l].order # journal[i].id

\* What the status of an order tells.
StatusTold ==
  /\ \A o \in DOMAIN orders :
       /\ orders[o].status = "ACCEPTED" => orders[o].filled = 0
       /\ orders[o].status = "PARTIAL" => orders[o].filled # 0
       /\ orders[o].status = "CANCEL_PENDING" => Has("ORDER_CANCEL_REQUESTED", o)
  /\ \A i \in DOMAIN journal :
       journal[i].kind \in {"ORDER_CANCELED", "ORDER_REJECTED"} => journal[i].id \notin Pending

\* The accounts after each event of the journal; a SELL was accepted for what was held then.
Account == [cash : Int, positions : [Symbols -> Int]]

AccountHistory(L) ==
  /\ L \in [0..Len(journal) -> Account]
  /\ L[0] = [cash |-> Capital, positions |-> [s \in Symbols |-> 0]]
  /\ L[Len(journal)] = [cash |-> cash, positions |-> positions]
  /\ \A i \in 1..Len(journal) : Posts(L[i-1], journal[i], L[i])
  /\ \A i \in 1..Len(journal) :
       LET order == orders[journal[i].id]
       IN  journal[i].kind = "ORDER_ACCEPTED" /\ order.side = "SELL" =>
             order.quantity <= L[i].positions[order.symbol]

AccountIsReplay == \E L : AccountHistory(L)

LedgersInv ==
  /\ VenueLedger /\ TermsShared
  /\ LotsInv /\ OneOrderPerSymbol
  /\ EventsOnce /\ FillsReported /\ FillsFollow /\ FillsBefore /\ NothingOutstanding
  /\ StatusTold /\ AccountIsReplay

\* What an execution of the venue is.
LEMMA VenueFills ==
  ASSUME BridgeInv, NEW k \in DOMAIN venueJournal, venueJournal[k].kind = "VENUE_FILL"
  PROVE  /\ k \in Venue!Reports /\ k \in Nat
         /\ venueJournal[k].order \in DOMAIN venueOrders /\ venueJournal[k].order \in DOMAIN orders
         /\ venueJournal[k].price \in Int /\ venueJournal[k].fee \in Int
         /\ venueJournal[k].quantity \in Nat \ {0}
         /\ venueJournal[k].id = <<"VENUE_FILL", venueJournal[k].order, venueJournal[k].time>>
         /\ \A m \in DOMAIN venueJournal :
              venueJournal[m].kind = "VENUE_FILL" /\ venueJournal[m].id = venueJournal[k].id => m = k
<1>0. VenueBooks /\ OrdersShared
  BY DEF BridgeInv
<1>1. KnownReports /\ ApartReports
  BY <1>0, ReportsKnown, ReportsApart
<1>2. \A m \in DOMAIN venueJournal : venueJournal[m].kind = "VENUE_FILL" => m \in Venue!Reports
  BY DEF Venue!Reports
<1>3. venueJournal[k].price \in Int /\ venueJournal[k].fee \in Int
  <2> DEFINE r == venueJournal[k]
  <2>1. r \in V!VenueEvent /\ r.kind = "VENUE_FILL"
    BY <1>0 DEF VenueBooks, V!VenueInv, V!Shaped
  <2> QED
    BY <2>1, V!EventFields, HandedAsOffered
<1> QED
  BY <1>0, <1>1, <1>2, <1>3 DEF KnownReports, ApartReports, OrdersShared

\* What an event leaves of the journal.
LEMMA JournalNext ==
  ASSUME BridgeInv, NEW e, Journalled(e)
  PROVE  /\ Len(journal) \in Nat /\ DOMAIN journal = 1..Len(journal)
         /\ Len(journal') = Len(journal) + 1 /\ DOMAIN journal' = 1..(Len(journal) + 1)
         /\ DOMAIN journal' = DOMAIN journal \union {Len(journal) + 1}
         /\ \A i \in DOMAIN journal : journal'[i] = journal[i] /\ i \in Nat /\ i < Len(journal) + 1
         /\ journal'[Len(journal) + 1] = e
         /\ e \in LocalEvent
         /\ Len(journal) + 1 \in Nat /\ Len(journal) + 1 \notin DOMAIN journal
<1>1. journal \in Seq(LocalEvent) /\ e \in LocalEvent /\ journal' = Append(journal, e)
  BY DEF BridgeInv, LocalBooks, Journalled, Record
<1>2. /\ Len(journal) \in Nat /\ DOMAIN journal = 1..Len(journal)
      /\ Len(journal') = Len(journal) + 1 /\ DOMAIN journal' = 1..(Len(journal) + 1)
      /\ journal'[Len(journal) + 1] = e
      /\ \A i \in 1..Len(journal) : journal'[i] = journal[i]
  BY <1>1
<1> DEFINE n == Len(journal)
<1>3. \A i \in 1..n : i \in Nat /\ i < n + 1
  BY <1>2
<1>4. 1..(n + 1) = (1..n) \union {n + 1} /\ n + 1 \in Nat /\ n + 1 \notin 1..n
  BY <1>2
<1> HIDE DEF n
<1> QED
  BY <1>1, <1>2, <1>3, <1>4 DEF n

\* Identities, executions and their order.
LEMMA EventsNext ==
  ASSUME BridgeInv, BridgeInv', LedgersInv, UNCHANGED venueVars, NEW e, Journalled(e)
  PROVE  EventsOnce' /\ FillsReported' /\ FillsFollow' /\ FillsBefore'
<1> DEFINE n == Len(journal) + 1
<1>0. venueJournal' = venueJournal /\ venueOrders' = venueOrders
  BY DEF venueVars
<1>1. /\ DOMAIN journal' = DOMAIN journal \union {n} /\ n \notin DOMAIN journal /\ n \in Nat
      /\ \A i \in DOMAIN journal : journal'[i] = journal[i] /\ i \in Nat /\ i < n
      /\ journal'[n] = e
  BY JournalNext, Zenon
<1>2. EventsOnce /\ FillsReported /\ FillsFollow /\ FillsBefore
  BY DEF LedgersInv
<1> HIDE DEF n
<1>3. e.kind \in {"FILL", "CORPORATE_ACTION"} => ~Has(e.kind, e.id)
  BY DEF Journalled
<1>4. e.kind = "FILL" => \E k \in DOMAIN venueJournal :
        /\ venueJournal[k].kind = "VENUE_FILL" /\ venueJournal[k].id = e.id /\ venueJournal[k].order = e.order
  BY DEF Journalled, Unbooked, Venue!Reports
<1>5. e.kind = "ORDER_ACCEPTED" => e.id \notin DOMAIN orders
  BY DEF Journalled, Opens
<1>6. \A k \in DOMAIN venueJournal : venueJournal[k].kind = "VENUE_FILL" => venueJournal[k].order \in DOMAIN orders
  BY VenueFills
<1>7. EventsOnce'
  BY <1>1, <1>2, <1>3 DEF EventsOnce, Has
<1>8. FillsReported'
  BY <1>0, <1>1, <1>2, <1>4 DEF FillsReported
<1>9. FillsFollow'
  <2> SUFFICES ASSUME NEW i \in DOMAIN journal', NEW j \in DOMAIN journal',
                      journal'[i].kind = "ORDER_ACCEPTED", journal'[j].kind = "FILL",
                      journal'[j].order = journal'[i].id
               PROVE  i < j
    BY DEF FillsFollow
  <2>1. i # j
    OBVIOUS
  <2>2. CASE i = n
    <3>1. j \in DOMAIN journal /\ journal[j].kind = "FILL" /\ journal[j].order = e.id /\ e.kind = "ORDER_ACCEPTED"
      BY <1>1, <2>1, <2>2
    <3>2. journal[j].order \in DOMAIN orders
      BY <1>2, <1>6, <3>1 DEF FillsReported
    <3> QED
      BY <1>5, <3>1, <3>2
  <2>3. CASE i # n
    BY <1>1, <1>2, <2>1, <2>3 DEF FillsFollow
  <2> QED
    BY <2>2, <2>3
<1>10. FillsBefore'
  <2> SUFFICES ASSUME NEW i \in DOMAIN journal', NEW j \in DOMAIN journal',
                      NEW k \in DOMAIN venueJournal, NEW m \in DOMAIN venueJournal,
                      journal'[i].kind = "ORDER_ACCEPTED", journal'[j].kind = "FILL", j < i,
                      venueJournal[k].kind = "VENUE_FILL", venueJournal[k].order = journal'[i].id,
                      venueJournal[m].kind = "VENUE_FILL", venueJournal[m].id = journal'[j].id
               PROVE  m < k
    BY <1>0 DEF FillsBefore
  <2>1. i # n
    BY <1>1, <1>5, <1>6
  <2>2. i \in DOMAIN journal /\ j # n
    BY <1>1, <2>1
  <2>3. j \in DOMAIN journal /\ journal'[i] = journal[i] /\ journal'[j] = journal[j]
    BY <1>1, <2>2
  <2> QED
    BY <1>2, <2>2, <2>3 DEF FillsBefore
<1> QED
  BY <1>7, <1>8, <1>9, <1>10

\* What is open, and what the orders tell.
LEMMA OrdersNext ==
  ASSUME BridgeInv, LedgersInv, NEW e, Journalled(e)
  PROVE  OneOrderPerSymbol' /\ NothingOutstanding' /\ StatusTold'
<1> DEFINE n == Len(journal) + 1
<1>1. /\ DOMAIN journal' = DOMAIN journal \union {n} /\ n \notin DOMAIN journal /\ n \in Nat
      /\ \A i \in DOMAIN journal : journal'[i] = journal[i] /\ i \in Nat /\ i < n
      /\ journal'[n] = e
  BY JournalNext, Zenon
<1> HIDE DEF n
<1>2. OneOrderPerSymbol /\ NothingOutstanding /\ StatusTold
  BY DEF LedgersInv
<1>3. /\ OrdersKeepTerms /\ OrdersTell(e)
      /\ \A o \in DOMAIN orders' : o \in DOMAIN orders \/ (e.kind = "ORDER_ACCEPTED" /\ e.id = o)
      /\ e.kind = "ORDER_ACCEPTED" => Opens(e)
      /\ e.kind = "CORPORATE_ACTION" => NoOutstanding(e.action.symbol)
      /\ e.kind = "FILL" => e.order \in Pending
  BY DEF Journalled
<1>4. \A i \in DOMAIN journal : journal[i].kind = "ORDER_ACCEPTED" => journal[i].id \in DOMAIN orders
  BY DEF BridgeInv, LocalBooks
<1>5. \A o \in Pending' : o \in DOMAIN orders' /\ (o \in DOMAIN orders => o \in Pending)
  BY <1>3 DEF OrdersKeepTerms, Pending
<1>6. OneOrderPerSymbol'
  <2> SUFFICES ASSUME NEW o \in Pending', NEW p \in Pending', orders'[o].symbol = orders'[p].symbol
               PROVE  o = p
    BY DEF OneOrderPerSymbol
  <2>1. CASE o \in DOMAIN orders /\ p \in DOMAIN orders
    BY <1>2, <1>3, <1>5, <2>1 DEF OneOrderPerSymbol, OrdersKeepTerms
  <2>2. CASE o \notin DOMAIN orders /\ p \in DOMAIN orders
    BY <1>3, <1>5, <2>2 DEF Opens, NoOutstanding, OrdersKeepTerms
  <2>3. CASE o \in DOMAIN orders /\ p \notin DOMAIN orders
    BY <1>3, <1>5, <2>3 DEF Opens, NoOutstanding, OrdersKeepTerms
  <2>4. CASE o \notin DOMAIN orders /\ p \notin DOMAIN orders
    BY <1>3, <1>5, <2>4
  <2> QED
    BY <2>1, <2>2, <2>3, <2>4
<1>7. NothingOutstanding'
  <2> SUFFICES ASSUME NEW i \in DOMAIN journal', NEW j \in DOMAIN journal', i < j,
                      journal'[i].kind = "ORDER_ACCEPTED",
                      \/ /\ journal'[j].kind = "ORDER_ACCEPTED"
                         /\ orders'[journal'[j].id].symbol = orders'[journal'[i].id].symbol
                      \/ /\ journal'[j].kind = "CORPORATE_ACTION"
                         /\ journal'[j].action.symbol = orders'[journal'[i].id].symbol
               PROVE  /\ journal'[i].id \notin Pending'
                      /\ \A l \in DOMAIN journal' : l > j /\ journal'[l].kind = "FILL" =>
                           journal'[l].order # journal'[i].id
    BY DEF NothingOutstanding, Meets
  <2>1. /\ i \in DOMAIN journal /\ journal'[i] = journal[i] /\ journal[i].id \in DOMAIN orders
        /\ orders'[journal[i].id].symbol = orders[journal[i].id].symbol
    <3>1. i # n
      BY <1>1
    <3>2. i \in DOMAIN journal /\ journal'[i] = journal[i]
      BY <1>1, <3>1
    <3> QED
      BY <1>3, <1>4, <3>2 DEF OrdersKeepTerms
  <2> DEFINE o == journal[i].id
  <2>2. CASE j = n
    <3>1. o \notin Pending
      BY <1>1, <1>3, <2>1, <2>2 DEF Opens, NoOutstanding
    <3>2. \A l \in DOMAIN journal' : ~(l > j)
      BY <1>1, <2>2
    <3> QED
      BY <1>5, <2>1, <3>1, <3>2
  <2>3. CASE j # n
    <3>1. j \in DOMAIN journal /\ journal'[j] = journal[j]
      BY <1>1, <2>3
    <3>2. Meets(journal[j], orders[o].symbol)
      BY <1>3, <1>4, <2>1, <3>1 DEF Meets, OrdersKeepTerms
    <3>3. /\ o \notin Pending
          /\ \A l \in DOMAIN journal : l > j /\ journal[l].kind = "FILL" => journal[l].order # o
      BY <1>2, <2>1, <3>1, <3>2 DEF NothingOutstanding
    <3> QED
      BY <1>1, <1>3, <1>5, <2>1, <3>3
  <2> QED
    BY <2>2, <2>3
<1>8. StatusTold'
  <2>1. \A o : Has("ORDER_CANCEL_REQUESTED", o) => \E i \in DOMAIN journal' :
          journal'[i].kind = "ORDER_CANCEL_REQUESTED" /\ journal'[i].id = o
    BY <1>1 DEF Has
  <2>2. ASSUME NEW o \in DOMAIN orders'
        PROVE  /\ orders'[o].status = "ACCEPTED" => orders'[o].filled = 0
               /\ orders'[o].status = "PARTIAL" => orders'[o].filled # 0
               /\ orders'[o].status = "CANCEL_PENDING" => \E i \in DOMAIN journal' :
                    journal'[i].kind = "ORDER_CANCEL_REQUESTED" /\ journal'[i].id = o
    BY <1>1, <1>2, <1>3, <2>1 DEF StatusTold, OrdersTell
  <2>3. \A i \in DOMAIN journal :
          journal[i].kind \in {"ORDER_CANCELED", "ORDER_REJECTED"} => journal[i].id \notin Pending'
    <3> SUFFICES ASSUME NEW i \in DOMAIN journal, journal[i].kind \in {"ORDER_CANCELED", "ORDER_REJECTED"},
                        journal[i].id \in Pending'
                 PROVE  FALSE
      OBVIOUS
    <3>1. journal[i].id \in DOMAIN orders
      <4>1. \E k \in Venue!Reports : venueJournal[k].order = journal[i].id
        BY DEF BridgeInv, PostedIsReported
      <4>2. \A k \in Venue!Reports : venueJournal[k].order \in DOMAIN venueOrders
        BY ReportsKnown DEF BridgeInv, KnownReports
      <4> QED
        BY <4>1, <4>2 DEF BridgeInv, OrdersShared
    <3> QED
      BY <1>2, <1>5, <3>1 DEF StatusTold
  <2> QED
    BY <1>1, <1>3, <2>2, <2>3 DEF StatusTold, Has, OrdersTell
<1> QED
  BY <1>6, <1>7, <1>8

\* The history of the account goes on with the event.
LEMMA HistoryNext ==
  ASSUME BridgeInv, LedgersInv, LotsInv', UNCHANGED venueVars, NEW e, Journalled(e)
  PROVE  AccountIsReplay'
<1> DEFINE n == Len(journal)
           new == [cash |-> cash', positions |-> positions']
<1>0. venueJournal' = venueJournal /\ venueOrders' = venueOrders
  BY DEF venueVars
<1>1. /\ n \in Nat /\ DOMAIN journal = 1..n /\ Len(journal') = n + 1 /\ DOMAIN journal' = 1..(n + 1)
      /\ \A i \in 1..n : journal'[i] = journal[i]
      /\ journal'[n + 1] = e /\ e \in LocalEvent
  BY JournalNext
<1>2. PICK L : AccountHistory(L)
  BY DEF LedgersInv, AccountIsReplay
<1>3. /\ L \in [0..n -> Account] /\ L[0] = [cash |-> Capital, positions |-> [s \in Symbols |-> 0]]
      /\ L[n] = [cash |-> cash, positions |-> positions]
      /\ \A i \in 1..n : Posts(L[i-1], journal[i], L[i])
      /\ \A i \in 1..n : journal[i].kind = "ORDER_ACCEPTED" /\ orders[journal[i].id].side = "SELL" =>
           orders[journal[i].id].quantity <= L[i].positions[orders[journal[i].id].symbol]
  BY <1>2 DEF AccountHistory
<1>4. Posts(L[n], e, new)
  BY <1>3 DEF Journalled
<1>5. L[n].cash \in Int /\ L[n].cash = cash
  <2>1. n \in 0..n
    BY <1>1
  <2>2. L[n] \in Account
    BY <1>3, <2>1
  <2> QED
    BY <1>3, <2>2 DEF Account
<1>6. cash' \in Int
  <2>1. new.cash = cash'
    OBVIOUS
  <2>2. CASE e.kind = "FILL"
    <3>1. PICK k \in DOMAIN venueJournal :
            LET r == venueJournal[k]  order == venueOrders[r.order]  value == r.price * r.quantity
            IN  /\ r.kind = "VENUE_FILL"
                /\ new.cash = IF order.side = "BUY" THEN L[n].cash - (value + r.fee) ELSE L[n].cash + value - r.fee
      BY <1>4, <2>2 DEF Posts
    <3>2. /\ venueJournal[k].price \in Int /\ venueJournal[k].fee \in Int
          /\ venueJournal[k].quantity \in Int
      BY <3>1, VenueFills
    <3>3. venueJournal[k].price * venueJournal[k].quantity \in Int
      BY <3>2
    <3> HIDE DEF new
    <3> QED
      BY <1>5, <2>1, <3>1, <3>2, <3>3
  <2>3. CASE e.kind = "CORPORATE_ACTION"
    <3>1. e.action \in Entitlements
      BY <1>1, <2>3 DEF LocalEvent
    <3>2. e.action.net \in Int
      BY <3>1, EntitlementAssumption
    <3>3. new.cash = L[n].cash + e.action.net
      BY <1>4, <2>3 DEF Posts
    <3> QED
      BY <1>5, <2>1, <3>2, <3>3
  <2>4. CASE e.kind \notin {"FILL", "CORPORATE_ACTION"}
    BY <1>4, <1>5, <2>1, <2>4 DEF Posts
  <2> QED
    BY <2>2, <2>3, <2>4
<1>7. new \in Account
  BY <1>6 DEF Account, LotsInv
<1> DEFINE M == [i \in 0..(n + 1) |-> IF i = n + 1 THEN new ELSE L[i]]
<1>8. /\ M \in [0..(n + 1) -> Account] /\ M[n + 1] = new /\ \A i \in 0..n : M[i] = L[i]
  <2>1. /\ \A i \in 0..n : i \in 0..(n + 1) /\ i # n + 1
        /\ \A i \in 0..(n + 1) : i = n + 1 \/ i \in 0..n
        /\ n + 1 \in 0..(n + 1)
    BY <1>1
  <2>2. \A i \in 0..n : L[i] \in Account
    BY <1>3
  <2> HIDE DEF new
  <2> QED
    BY <1>7, <2>1, <2>2
<1> HIDE DEF M
<1>9. PICK K : K = M
  OBVIOUS
<1>10. \A i \in 1..(n + 1) : Posts(M[i-1], journal'[i], M[i])
  <2> SUFFICES ASSUME NEW i \in 1..(n + 1) PROVE Posts(M[i-1], journal'[i], M[i])
    OBVIOUS
  <2>1. CASE i = n + 1
    <3>1. i - 1 = n /\ n \in 0..n
      BY <1>1, <2>1
    <3>2. M[i-1] = L[n] /\ M[i] = new /\ journal'[i] = e
      BY <1>1, <1>8, <2>1, <3>1
    <3> HIDE DEF new
    <3> QED
      BY <1>4, <3>2
  <2>2. CASE i # n + 1
    <3>1. i \in 1..n /\ i \in 0..n /\ i - 1 \in 0..n
      BY <1>1, <2>2
    <3> QED
      BY <1>1, <1>3, <1>8, <3>1
  <2> QED
    BY <2>1, <2>2
<1>11. \A i \in 1..(n + 1) : journal'[i].kind = "ORDER_ACCEPTED" /\ orders'[journal'[i].id].side = "SELL" =>
           orders'[journal'[i].id].quantity <= M[i].positions[orders'[journal'[i].id].symbol]
  <2> SUFFICES ASSUME NEW i \in 1..(n + 1), journal'[i].kind = "ORDER_ACCEPTED",
                      orders'[journal'[i].id].side = "SELL"
               PROVE  orders'[journal'[i].id].quantity <= M[i].positions[orders'[journal'[i].id].symbol]
    OBVIOUS
  <2>1. CASE i = n + 1
    <3>1. journal'[i] = e /\ M[i] = new
      BY <1>1, <1>8, <2>1
    <3>2. Opens(e) /\ positions' = positions
      <4>1. e.kind = "ORDER_ACCEPTED" /\ Opens(e)
        BY <3>1 DEF Journalled
      <4>2. new = L[n]
        BY <1>4, <4>1 DEF Posts
      <4> QED
        BY <1>3, <4>1, <4>2
    <3>3. new.positions = positions
      BY <3>2
    <3> HIDE DEF new
    <3> QED
      BY <3>1, <3>2, <3>3 DEF Opens
  <2>2. CASE i # n + 1
    <3>1. i \in 1..n /\ i \in 0..n
      BY <1>1, <2>2
    <3>2. journal'[i] = journal[i] /\ journal[i].id \in DOMAIN orders
      BY <1>1, <3>1 DEF BridgeInv, LocalBooks
    <3>3. /\ orders'[journal[i].id].side = orders[journal[i].id].side
          /\ orders'[journal[i].id].symbol = orders[journal[i].id].symbol
          /\ orders'[journal[i].id].quantity = orders[journal[i].id].quantity
      BY <3>2 DEF Journalled, OrdersKeepTerms
    <3> QED
      BY <1>3, <1>8, <3>1, <3>2, <3>3
  <2> QED
    BY <2>1, <2>2
<1>12. 0 \in 0..n
  BY <1>1
<1>13. AccountHistory(K)'
  <2>1. Len(journal') = n + 1
    BY <1>1
  <2>2. /\ K \in [0..Len(journal') -> Account]
        /\ K[0] = [cash |-> Capital, positions |-> [s \in Symbols |-> 0]]
        /\ K[Len(journal')] = [cash |-> cash', positions |-> positions']
    BY <1>3, <1>8, <1>9, <1>12, <2>1
  <2>3. ASSUME NEW i \in 1..(n + 1)
        PROVE  (Posts(K[i-1], journal[i], K[i]))'
    BY <1>0, <1>9, <1>10 DEF Posts
  <2>4. \A i \in 1..(n + 1) : journal'[i].kind = "ORDER_ACCEPTED" /\ orders'[journal'[i].id].side = "SELL" =>
           orders'[journal'[i].id].quantity <= K[i].positions[orders'[journal'[i].id].symbol]
    BY <1>9, <1>11
  <2> HIDE DEF new, n
  <2> QED
    BY <2>1, <2>2, <2>3, <2>4 DEF AccountHistory, Account
<1> QED
  BY <1>13 DEF AccountIsReplay

-----------------------------------------------------------------------------
(* Both ledgers are told, whatever the two sides do. *)

\* Executions of the venue are told apart by their identities, then too.
LEMMA FillsThen ==
  ASSUME BridgeInv', NEW k \in DOMAIN venueJournal', NEW m \in DOMAIN venueJournal',
         venueJournal'[k].kind = "VENUE_FILL", venueJournal'[m].kind = "VENUE_FILL",
         venueJournal'[k].id = venueJournal'[m].id
  PROVE  k = m
<1>1. VenueBooks'
  BY DEF BridgeInv
<1>2. KnownReports' /\ ApartReports'
  BY <1>1, ReportsThen
<1>3. k \in Venue!Reports' /\ m \in Venue!Reports'
  BY DEF Venue!Reports
<1> QED
  BY <1>2, <1>3 DEF ApartReports

\* What was executed at the venue before its journal went on.
LEMMA FillsRest ==
  ASSUME BridgeInv, BridgeInv', LedgersInv, Rests,
         DOMAIN venueJournal \subseteq DOMAIN venueJournal',
         \A k \in DOMAIN venueJournal : venueJournal'[k] = venueJournal[k]
  PROVE  FillsReported' /\ FillsBefore'
<1>0. journal' = journal /\ orders' = orders
  BY DEF Rests
<1>1. FillsReported /\ FillsBefore
  BY DEF LedgersInv
<1>2. FillsReported'
  BY <1>0, <1>1 DEF FillsReported
<1>3. /\ Len(venueJournal) \in Nat /\ DOMAIN venueJournal = 1..Len(venueJournal)
      /\ Len(venueJournal') \in Nat /\ DOMAIN venueJournal' = 1..Len(venueJournal')
  <2>1. VenueBooks /\ VenueBooks'
    BY DEF BridgeInv
  <2>2. KnownReports'
    BY <2>1, ReportsThen
  <2> QED
    BY <2>1, <2>2, ReportsKnown DEF KnownReports
<1>4. FillsBefore'
  <2> SUFFICES ASSUME NEW i \in DOMAIN journal, NEW j \in DOMAIN journal,
                      NEW k \in DOMAIN venueJournal', NEW m \in DOMAIN venueJournal',
                      journal[i].kind = "ORDER_ACCEPTED", journal[j].kind = "FILL", j < i,
                      venueJournal'[k].kind = "VENUE_FILL", venueJournal'[k].order = journal[i].id,
                      venueJournal'[m].kind = "VENUE_FILL", venueJournal'[m].id = journal[j].id
               PROVE  m < k
    BY <1>0 DEF FillsBefore
  <2>1. PICK x \in DOMAIN venueJournal : venueJournal[x].kind = "VENUE_FILL" /\ venueJournal[x].id = journal[j].id
    BY <1>1 DEF FillsReported
  <2>2. x = m
    BY <2>1, FillsThen
  <2>3. CASE k \in DOMAIN venueJournal
    BY <1>1, <2>1, <2>2, <2>3 DEF FillsBefore
  <2>4. CASE k \notin DOMAIN venueJournal
    BY <1>3, <2>1, <2>2, <2>4
  <2> QED
    BY <2>3, <2>4
<1> QED
  BY <1>2, <1>4

\* The history of the account is what it was.
LEMMA HistoryRests ==
  ASSUME BridgeInv, LedgersInv, TermsShared', Rests,
         DOMAIN venueJournal \subseteq DOMAIN venueJournal',
         \A k \in DOMAIN venueJournal : venueJournal'[k] = venueJournal[k],
         DOMAIN venueOrders \subseteq DOMAIN venueOrders'
  PROVE  AccountIsReplay'
<1>0. journal' = journal /\ orders' = orders /\ cash' = cash /\ positions' = positions
  BY DEF Rests
<1>1. TermsShared
  BY DEF LedgersInv
<1>2. \A o \in DOMAIN venueOrders :
        /\ venueOrders'[o].side = venueOrders[o].side /\ venueOrders'[o].symbol = venueOrders[o].symbol
  BY <1>0, <1>1 DEF TermsShared
<1>3. ASSUME NEW l, NEW i \in DOMAIN journal, NEW m, Posts(l, journal[i], m)
      PROVE  (Posts(l, journal[i], m))'
  <2>1. CASE journal[i].kind = "FILL"
    <3>1. PICK k \in DOMAIN venueJournal :
            LET r == venueJournal[k]  order == venueOrders[r.order]  value == r.price * r.quantity
            IN  /\ r.kind = "VENUE_FILL" /\ r.id = journal[i].id /\ r.order = journal[i].order
                /\ m.cash = IF order.side = "BUY" THEN l.cash - (value + r.fee) ELSE l.cash + value - r.fee
                /\ m.positions = [l.positions EXCEPT ![order.symbol] =
                                    IF order.side = "BUY" THEN @ + r.quantity ELSE @ - r.quantity]
      BY <1>3, <2>1 DEF Posts
    <3>2. /\ k \in DOMAIN venueJournal' /\ venueJournal'[k] = venueJournal[k]
          /\ venueJournal[k].order \in DOMAIN venueOrders
      BY <3>1, VenueFills
    <3>3. /\ venueOrders'[venueJournal[k].order].side = venueOrders[venueJournal[k].order].side
          /\ venueOrders'[venueJournal[k].order].symbol = venueOrders[venueJournal[k].order].symbol
      BY <1>2, <3>2
    <3>4. LET r == venueJournal'[k]  order == venueOrders'[r.order]  value == r.price * r.quantity
          IN  /\ r.kind = "VENUE_FILL" /\ r.id = journal'[i].id /\ r.order = journal'[i].order
              /\ m.cash = IF order.side = "BUY" THEN l.cash - (value + r.fee) ELSE l.cash + value - r.fee
              /\ m.positions = [l.positions EXCEPT ![order.symbol] =
                                  IF order.side = "BUY" THEN @ + r.quantity ELSE @ - r.quantity]
      BY <1>0, <3>1, <3>2, <3>3, Zenon
    <3> QED
      BY <1>0, <2>1, <3>2, <3>4, Zenon DEF Posts
  <2>2. CASE journal[i].kind # "FILL"
    BY <1>0, <1>3, <2>2 DEF Posts
  <2> QED
    BY <2>1, <2>2
<1>4. PICK L : AccountHistory(L)
  BY DEF LedgersInv, AccountIsReplay
<1>5. Len(journal) \in Nat /\ DOMAIN journal = 1..Len(journal)
  BY DEF BridgeInv, LocalBooks
<1>6. \A i \in 1..Len(journal) : (Posts(L[i-1], journal[i], L[i]))'
  BY <1>3, <1>4, <1>5 DEF AccountHistory
<1>7. AccountHistory(L)'
  BY <1>0, <1>4, <1>6 DEF AccountHistory, Account
<1> QED
  BY <1>7 DEF AccountIsReplay

\* A step that leaves the account alone.
LEMMA LedgersRest ==
  ASSUME BridgeInv, BridgeInv', LedgersInv, VenueLedger', TermsShared', Rests,
         DOMAIN venueJournal \subseteq DOMAIN venueJournal',
         \A k \in DOMAIN venueJournal : venueJournal'[k] = venueJournal[k],
         DOMAIN venueOrders \subseteq DOMAIN venueOrders'
  PROVE  LedgersInv'
<1>0. journal' = journal /\ orders' = orders /\ UNCHANGED <<lots, positions>>
  BY DEF Rests
<1>1. LotsInv /\ OneOrderPerSymbol /\ EventsOnce /\ FillsFollow /\ NothingOutstanding /\ StatusTold
  BY DEF LedgersInv
<1>2. FillsReported' /\ FillsBefore'
  BY FillsRest
<1>3. AccountIsReplay'
  BY HistoryRests
<1>4. LotsInv'
  BY <1>0, <1>1, StillCovered DEF Pending, SameTerms
<1>5. OneOrderPerSymbol' /\ EventsOnce' /\ FillsFollow' /\ StatusTold'
  BY <1>0, <1>1 DEF OneOrderPerSymbol, EventsOnce, FillsFollow, StatusTold, Pending, Has
<1>6. NothingOutstanding'
  BY <1>0, <1>1 DEF NothingOutstanding, Meets, Pending
<1> QED
  BY <1>2, <1>3, <1>4, <1>5, <1>6 DEF LedgersInv

\* Both ledgers start with the capital.
LEMMA LedgersInit == BridgeInit => LedgersInv
<1> SUFFICES ASSUME BridgeInit PROVE LedgersInv
  OBVIOUS
<1>1. /\ journal = << [kind |-> "ACCOUNT_OPENED", time |-> 0] >> /\ orders = [o \in {} |-> {}]
      /\ cash = Capital /\ positions = [s \in Symbols |-> 0]
      /\ venueOrders = [o \in {} |-> {}]
  BY DEF BridgeInit, Init, Venue!Init
<1>2. V!Init
  BY DEF BridgeInit, Venue!Init, V!Init
<1>3. VenueLedger
  BY <1>2, V!ReplayInvInit, V!StatusInvInit, HandedAsOffered DEF VenueLedger
<1>4. LotsInv
  BY BooksInit DEF BridgeInit
<1>5. /\ Len(journal) = 1 /\ DOMAIN journal = {1} /\ journal[1].kind = "ACCOUNT_OPENED"
  BY <1>1
<1>6. /\ EventsOnce /\ FillsReported /\ FillsFollow /\ FillsBefore /\ NothingOutstanding /\ OneOrderPerSymbol
      /\ TermsShared /\ StatusTold
  BY <1>1, <1>5 DEF EventsOnce, FillsReported, FillsFollow, FillsBefore, NothingOutstanding, OneOrderPerSymbol,
                    TermsShared, StatusTold, Pending
<1>7. AccountIsReplay
  <2> DEFINE opened == [cash |-> Capital, positions |-> [s \in Symbols |-> 0]]
             L == [i \in 0..1 |-> opened]
  <2>1. opened \in Account
    BY MoneyAssumption DEF Account
  <2>2. opened = [cash |-> cash, positions |-> positions]
    BY <1>1
  <2> HIDE DEF opened
  <2>3. L \in [0..1 -> Account] /\ L[0] = opened /\ L[1] = opened
    BY <2>1
  <2>4. \A i \in 1..1 : i = 1 /\ i - 1 = 0
    OBVIOUS
  <2> HIDE DEF L
  <2>5. \A i \in 1..1 : Posts(L[i-1], journal[i], L[i])
    BY <1>5, <2>3, <2>4 DEF Posts
  <2>6. AccountHistory(L)
    BY <1>5, <2>2, <2>3, <2>4, <2>5 DEF AccountHistory, opened
  <2> QED
    BY <2>6 DEF AccountIsReplay
<1> QED
  BY <1>3, <1>4, <1>6, <1>7 DEF LedgersInv

\* Every step keeps both ledgers told.
LEMMA LedgersNext ==
  ASSUME BridgeInv, LedgersInv, [BridgeNext]_bridgeVars
  PROVE  LedgersInv'
<1>1. BridgeInv'
  BY BridgeInvNext
<1>2. LotsInv /\ OneOrderPerSymbol /\ TermsShared /\ VenueLedger /\ AccountIsReplay
  BY DEF LedgersInv
<1>3. cash \in Int
  <2>1. PICK L : AccountHistory(L)
    BY <1>2 DEF AccountIsReplay
  <2>2. Len(journal) \in Nat
    BY DEF BridgeInv, LocalBooks
  <2>3. L[Len(journal)] \in Account /\ L[Len(journal)].cash = cash
    BY <2>1, <2>2 DEF AccountHistory
  <2> QED
    BY <2>3 DEF Account
<1>4. \/ Rests /\ (VenueOperation \/ UNCHANGED venueVars)
      \/ UNCHANGED venueVars /\ LotsInv' /\ \E e : Journalled(e)
  BY <1>2, <1>3, StepJournals
<1>5. CASE UNCHANGED venueVars /\ LotsInv' /\ \E e : Journalled(e)
  <2>1. PICK e : Journalled(e)
    BY <1>5
  <2>2. EventsOnce' /\ FillsReported' /\ FillsFollow' /\ FillsBefore'
    BY <1>1, <1>5, <2>1, EventsNext
  <2>3. OneOrderPerSymbol' /\ NothingOutstanding' /\ StatusTold'
    BY <2>1, OrdersNext
  <2>4. AccountIsReplay'
    BY <1>5, <2>1, HistoryNext
  <2>5. VenueLedger'
    BY <1>2, <1>5, VenueLedgerUntouched
  <2>6. TermsShared'
    BY <1>2, <1>5, <2>1 DEF TermsShared, venueVars, Journalled, OrdersKeepTerms
  <2> QED
    BY <1>5, <2>2, <2>3, <2>4, <2>5, <2>6 DEF LedgersInv
<1>6. CASE Rests /\ UNCHANGED venueVars
  <2>1. VenueLedger' /\ TermsShared'
    BY <1>2, <1>6, VenueLedgerUntouched DEF TermsShared, venueVars, Rests
  <2> QED
    BY <1>1, <1>6, <2>1, LedgersRest DEF venueVars
<1>7. CASE Rests /\ VenueOperation
  <2>1. VenueLedger' /\ TermsShared'
    BY <1>2, <1>7, VenueLedgerKeeps DEF Rests
  <2>2. \/ VenueGoesOn
        \/ UNCHANGED venueVars
    BY MarketBooks, DispatchBooks DEF BridgeNext, bridgeVars, Caller, Receive, Reconciliation,
                                      TakeStatement, CompareStatement
  <2>3. /\ DOMAIN venueJournal \subseteq DOMAIN venueJournal'
        /\ \A k \in DOMAIN venueJournal : venueJournal'[k] = venueJournal[k]
        /\ DOMAIN venueOrders \subseteq DOMAIN venueOrders'
    BY <2>2 DEF VenueGoesOn, venueVars
  <2> QED
    BY <1>1, <1>7, <2>1, <2>3, LedgersRest
<1> QED
  BY <1>4, <1>5, <1>6, <1>7

\* Both ledgers are the folds of their journals, whatever the two sides do meanwhile.
THEOREM LedgersAreTold == BridgeSpec => [](BridgeInv /\ LedgersInv)
<1>1. BridgeInv /\ LedgersInv /\ [BridgeNext]_bridgeVars => (BridgeInv /\ LedgersInv)'
  BY BridgeInvNext, LedgersNext
<1> QED
  BY <1>1, BridgeInvInit, LedgersInit, PTL DEF BridgeSpec

-----------------------------------------------------------------------------
(* The two ledgers: what moves them, execution by execution and entitlement by *)
(* entitlement.                                                                *)

LocalMoves == {i \in DOMAIN journal : journal[i].kind \in {"FILL", "CORPORATE_ACTION"}}
VenueMoves == {k \in DOMAIN venueJournal : venueJournal[k].kind \in {"VENUE_FILL", "VENUE_ACTION"}}

\* The same execution, or the same entitlement.
Twins(i, k) ==
  /\ k \in DOMAIN venueJournal /\ venueJournal[k].id = journal[i].id
  /\ \/ journal[i].kind = "FILL" /\ venueJournal[k].kind = "VENUE_FILL"
     \/ journal[i].kind = "CORPORATE_ACTION" /\ venueJournal[k].kind = "VENUE_ACTION"

Place(i) == CHOOSE k \in DOMAIN venueJournal : Twins(i, k)

\* Where the moves booked here up to an event are at the venue.
Taken(i) == {Place(j) : j \in {l \in LocalMoves : l <= i}}

\* Each move here is one there, and an entitlement comes after the same moves on both sides.
Paired ==
  /\ \A i \in LocalMoves : /\ Place(i) \in VenueMoves /\ Twins(i, Place(i))
                           /\ \A k \in DOMAIN venueJournal : Twins(i, k) => k = Place(i)
                           /\ \A j \in LocalMoves : Place(i) = Place(j) => i = j
                           /\ journal[i].kind = "FILL" => journal[i].order = venueJournal[Place(i)].order
                           /\ journal[i].kind = "CORPORATE_ACTION" =>
                                journal[i].action = venueJournal[Place(i)].action
  /\ \A k \in VenueMoves : venueJournal[k].kind = "VENUE_ACTION" => \E i \in LocalMoves : Place(i) = k
  /\ \A i \in LocalMoves : journal[i].kind = "CORPORATE_ACTION" =>
       /\ \A j \in LocalMoves : j < i <=> Place(j) < Place(i)
       /\ \A k \in VenueMoves : k < Place(i) => \E j \in LocalMoves : j < i /\ Place(j) = k

\* The places of both journals.
LEMMA Places ==
  ASSUME BridgeInv
  PROVE  /\ Len(journal) \in Nat /\ DOMAIN journal = 1..Len(journal)
         /\ Len(venueJournal) \in Nat /\ DOMAIN venueJournal = 1..Len(venueJournal)
         /\ LocalMoves \in SUBSET (1..Len(journal)) /\ VenueMoves \in SUBSET (1..Len(venueJournal))
<1>1. journal \in Seq(LocalEvent) /\ VenueBooks
  BY DEF BridgeInv, LocalBooks
<1> QED
  BY <1>1, ReportsKnown DEF KnownReports, LocalMoves, VenueMoves

\* Entitlements sent alike to both sides pair every move.
LEMMA MovesPair ==
  ASSUME BridgeInv, LedgersInv, SameEntitlements
  PROVE  Paired
<1>0. EventsOnce /\ FillsReported /\ V!ActionsOnce
  BY DEF LedgersInv, VenueLedger, V!StatusInv
<1>1. /\ DOMAIN journal = 1..Len(journal) /\ Len(journal) \in Nat
      /\ DOMAIN venueJournal = 1..Len(venueJournal) /\ Len(venueJournal) \in Nat
  BY Places
<1> DEFINE local == {i \in DOMAIN journal : journal[i].kind = "CORPORATE_ACTION"}
           ext == {k \in DOMAIN venueJournal : venueJournal[k].kind = "VENUE_ACTION"}
           alike(i, k) ==
             /\ journal[i].id = venueJournal[k].id /\ journal[i].action = venueJournal[k].action
             /\ Ahead(journal, "FILL", i) = Ahead(venueJournal, "VENUE_FILL", k)
             /\ Ahead(journal, "CORPORATE_ACTION", i) = Ahead(venueJournal, "VENUE_ACTION", k)
<1>2. /\ \A i \in local : \E k \in ext : alike(i, k)
      /\ \A k \in ext : \E i \in local : alike(i, k)
  BY DEF SameEntitlements
<1>3. ASSUME NEW i \in DOMAIN journal, NEW k, NEW m, Twins(i, k), Twins(i, m)
      PROVE  k = m
  BY <1>0, <1>3, VenueFills DEF Twins, V!ActionsOnce
<1>4. ASSUME NEW i \in LocalMoves
      PROVE  \E k \in DOMAIN venueJournal :
               /\ Twins(i, k)
               /\ journal[i].kind = "FILL" => journal[i].order = venueJournal[k].order
               /\ journal[i].kind = "CORPORATE_ACTION" => alike(i, k)
  <2>1. CASE journal[i].kind = "FILL"
    BY <1>0, <2>1 DEF FillsReported, Twins, LocalMoves
  <2>2. CASE journal[i].kind = "CORPORATE_ACTION"
    BY <1>2, <2>2 DEF Twins, LocalMoves
  <2> QED
    BY <2>1, <2>2 DEF LocalMoves
<1>5. ASSUME NEW i \in LocalMoves
      PROVE  /\ Place(i) \in DOMAIN venueJournal /\ Twins(i, Place(i)) /\ Place(i) \in VenueMoves
             /\ \A k \in DOMAIN venueJournal : Twins(i, k) => k = Place(i)
             /\ journal[i].kind = "FILL" => journal[i].order = venueJournal[Place(i)].order
             /\ journal[i].kind = "CORPORATE_ACTION" => alike(i, Place(i))
  <2>0. i \in DOMAIN journal
    BY DEF LocalMoves
  <2>1. PICK k \in DOMAIN venueJournal :
          /\ Twins(i, k)
          /\ journal[i].kind = "FILL" => journal[i].order = venueJournal[k].order
          /\ journal[i].kind = "CORPORATE_ACTION" => alike(i, k)
    BY <1>4
  <2>2. Place(i) \in DOMAIN venueJournal /\ Twins(i, Place(i))
    BY <2>1, Zenon DEF Place
  <2>3. Place(i) = k
    BY <1>3, <2>0, <2>1, <2>2
  <2> HIDE DEF alike
  <2>4. \A m \in DOMAIN venueJournal : Twins(i, m) => m = Place(i)
    BY <1>3, <2>0, <2>2
  <2>5. Place(i) \in VenueMoves
    BY <2>2 DEF Twins, VenueMoves
  <2> QED
    BY <2>1, <2>2, <2>3, <2>4, <2>5
<1>6. ASSUME NEW i \in LocalMoves, NEW j \in LocalMoves, Place(i) = Place(j)
      PROVE  i = j
  <2>1. Twins(i, Place(i)) /\ Twins(j, Place(i))
    BY <1>5, <1>6
  <2>2. journal[i].id = journal[j].id /\ journal[i].kind = journal[j].kind
    BY <2>1 DEF Twins
  <2> QED
    BY <1>0, <2>2 DEF EventsOnce, LocalMoves
<1>7. ASSUME NEW k \in VenueMoves, venueJournal[k].kind = "VENUE_ACTION"
      PROVE  \E i \in LocalMoves : Place(i) = k
  <2>1. k \in ext /\ k \in DOMAIN venueJournal
    BY <1>7 DEF VenueMoves
  <2>2. PICK i \in local : alike(i, k)
    BY <1>2, <2>1
  <2>3. i \in LocalMoves /\ Twins(i, k)
    BY <1>7, <2>1, <2>2 DEF LocalMoves, Twins
  <2> QED
    BY <1>5, <2>1, <2>3
<1>8. ASSUME NEW i \in LocalMoves, journal[i].kind = "CORPORATE_ACTION"
      PROVE  /\ \A j \in LocalMoves : j < i <=> Place(j) < Place(i)
             /\ \A k \in VenueMoves : k < Place(i) => \E j \in LocalMoves : j < i /\ Place(j) = k
  <2> DEFINE a == Place(i)
  <2>1. /\ Ahead(journal, "FILL", i) = Ahead(venueJournal, "VENUE_FILL", a)
        /\ Ahead(journal, "CORPORATE_ACTION", i) = Ahead(venueJournal, "VENUE_ACTION", a)
    BY <1>5, <1>8
  <2>2. i \in 1..Len(journal) /\ a \in 1..Len(venueJournal)
    BY <1>1, <1>5 DEF LocalMoves
  <2> HIDE DEF a
  <2>3. ASSUME NEW k \in VenueMoves, k < a
        PROVE  \E j \in LocalMoves : j < i /\ Place(j) = k
    <3>1. k \in 1..(a-1) /\ k \in DOMAIN venueJournal
      BY <1>1, <2>2, <2>3 DEF VenueMoves
    <3>2. CASE venueJournal[k].kind = "VENUE_FILL"
      <4>1. venueJournal[k].id \in Ahead(journal, "FILL", i)
        BY <2>1, <3>1, <3>2 DEF Ahead
      <4>2. PICK j \in 1..(i-1) : journal[j].kind = "FILL" /\ journal[j].id = venueJournal[k].id
        BY <4>1 DEF Ahead
      <4>3. j \in LocalMoves /\ j < i
        BY <1>1, <2>2, <4>2 DEF LocalMoves
      <4>4. Twins(j, k)
        BY <3>1, <3>2, <4>2 DEF Twins
      <4> QED
        BY <1>5, <3>1, <4>3, <4>4
    <3>3. CASE venueJournal[k].kind = "VENUE_ACTION"
      <4>1. venueJournal[k].id \in Ahead(journal, "CORPORATE_ACTION", i)
        BY <2>1, <3>1, <3>3 DEF Ahead
      <4>2. PICK j \in 1..(i-1) : journal[j].kind = "CORPORATE_ACTION" /\ journal[j].id = venueJournal[k].id
        BY <4>1 DEF Ahead
      <4>3. j \in LocalMoves /\ j < i
        BY <1>1, <2>2, <4>2 DEF LocalMoves
      <4>4. Twins(j, k)
        BY <3>1, <3>3, <4>2 DEF Twins
      <4> QED
        BY <1>5, <3>1, <4>3, <4>4
    <3> QED
      BY <3>2, <3>3 DEF VenueMoves
  <2>4. ASSUME NEW j \in LocalMoves, j < i
        PROVE  Place(j) < a
    <3>1. j \in 1..(i-1)
      BY <1>1, <2>2, <2>4 DEF LocalMoves
    <3>2. CASE journal[j].kind = "FILL"
      <4>1. journal[j].id \in Ahead(venueJournal, "VENUE_FILL", a)
        BY <2>1, <3>1, <3>2 DEF Ahead
      <4>2. PICK k \in 1..(a-1) : venueJournal[k].kind = "VENUE_FILL" /\ venueJournal[k].id = journal[j].id
        BY <4>1 DEF Ahead
      <4>3. k \in DOMAIN venueJournal /\ k < a
        BY <1>1, <2>2
      <4>4. Twins(j, k)
        BY <3>2, <4>2, <4>3 DEF Twins
      <4> QED
        BY <1>5, <4>3, <4>4
    <3>3. CASE journal[j].kind = "CORPORATE_ACTION"
      <4>1. journal[j].id \in Ahead(venueJournal, "VENUE_ACTION", a)
        BY <2>1, <3>1, <3>3 DEF Ahead
      <4>2. PICK k \in 1..(a-1) : venueJournal[k].kind = "VENUE_ACTION" /\ venueJournal[k].id = journal[j].id
        BY <4>1 DEF Ahead
      <4>3. k \in DOMAIN venueJournal /\ k < a
        BY <1>1, <2>2
      <4>4. Twins(j, k)
        BY <3>3, <4>2, <4>3 DEF Twins
      <4> QED
        BY <1>5, <4>3, <4>4
    <3> QED
      BY <3>2, <3>3 DEF LocalMoves
  <2>5. ASSUME NEW j \in LocalMoves, Place(j) < a
        PROVE  j < i
    <3>1. PICK x \in LocalMoves : x < i /\ Place(x) = Place(j)
      BY <1>5, <2>3, <2>5
    <3> QED
      BY <1>6, <3>1
  <2> QED
    BY <2>3, <2>4, <2>5 DEF a
<1> QED
  BY <1>5, <1>6, <1>7, <1>8, Zenon DEF Paired

\* A balance kept move by move on both sides: what an event here or there left of it.
LEMMA BalancesFollow ==
  ASSUME BridgeInv, Paired, NEW F, \A k \in VenueMoves : F[k].place = k /\ F[k].by \in Int,
         NEW X, NEW Y, NEW n, NEW p, n = Len(journal), p = Len(venueJournal), X[0] = Y[0],
         Replays(X, LocalMoves, [i \in LocalMoves |-> F[Place(i)]], n), Replays(Y, VenueMoves, F, p),
         \A k \in VenueMoves : ~F[k].adds => venueJournal[k].kind = "VENUE_ACTION",
         NEW i \in 0..n, NEW k \in 0..p, \A m \in Taken(i) : m <= k,
         \A m \in VenueMoves : m <= k /\ m \notin Taken(i) => F[m].adds
  PROVE  Y[k] = X[i] + Total({F[m] : m \in {l \in VenueMoves : l <= k /\ l \notin Taken(i)}})
<1> DEFINE R == LocalMoves
           S == VenueMoves
           M == [j \in R |-> F[Place(j)]]
           rest == {F[m] : m \in {l \in S : l <= k /\ l \notin Taken(i)}}
<1>0. /\ n \in Nat /\ DOMAIN journal = 1..n /\ R \in SUBSET (1..n)
      /\ p \in Nat /\ DOMAIN venueJournal = 1..p /\ S \in SUBSET (1..p)
  BY Places
<1>1. \A j \in R : M[j] = F[Place(j)] /\ Place(j) \in S
  BY DEF Paired
<1>2. \A a, b \in S : F[a] = F[b] => a = b
  OBVIOUS
<1>3. ASSUME NEW a \in R, NEW b \in S, M[a] = F[b], ~M[a].adds
      PROVE  UpTo(R, M, a-1) = UpTo(S, F, b-1)
  <2>1. Place(a) = b
    BY <1>1, <1>2, <1>3
  <2>2. venueJournal[b].kind = "VENUE_ACTION"
    BY <1>3
  <2>3. journal[a].kind = "CORPORATE_ACTION"
    BY <2>1, <2>2 DEF Paired, Twins
  <2>4. /\ \A j \in R : j < a => Place(j) < b
        /\ \A l \in S : l < b => \E j \in R : j < a /\ Place(j) = l
    BY <2>1, <2>3 DEF Paired
  <2>5. (\A j \in R : j < a <=> j <= a-1) /\ (\A l \in S : l < b <=> l <= b-1)
    BY <1>0
  <2> HIDE DEF M, R, S
  <2> QED
    BY <1>1, <2>4, <2>5 DEF UpTo
<1>4. UpTo(R, M, i) \subseteq UpTo(S, F, k) /\ UpTo(S, F, k) \ UpTo(R, M, i) = rest
  <2>1. UpTo(R, M, i) = {F[m] : m \in Taken(i)} /\ Taken(i) \subseteq S
    <3> HIDE DEF M
    <3> QED
      BY <1>1 DEF UpTo, Taken
  <2>2. UpTo(S, F, k) = {F[m] : m \in {l \in S : l <= k}}
    BY DEF UpTo
  <2> HIDE DEF S
  <2> QED
    BY <1>2, <2>1, <2>2
<1>5. \A m \in UpTo(S, F, k) \ UpTo(R, M, i) : m.adds
  BY <1>4
<1>6. Leads(R, M, i, S, F, k)
  BY <1>4, <1>5 DEF Leads
<1> HIDE DEF M, R, S, rest
<1>7. Replays(X, R, M, n) /\ Replays(Y, S, F, p)
  BY DEF R, S, M
<1>8. \A a \in 0..n, b \in 0..p :
        Leads(R, M, a, S, F, b) => Y[b] = X[a] + Total(UpTo(S, F, b) \ UpTo(R, M, a))
  BY <1>3, <1>7, ReplaysAgree
<1>9. Y[k] = X[i] + Total(rest)
  BY <1>4, <1>6, <1>8
<1> QED
  BY <1>9 DEF rest, S

-----------------------------------------------------------------------------
(* Each side replays the same moves. *)

\* What a move of the venue makes of the cash, and of the shares of a symbol.
CashOf(k) ==
  LET e == venueJournal[k]  value == e.price * e.quantity
  IN  [place |-> k, adds |-> TRUE, num |-> 1, den |-> 1,
       by |-> IF e.kind = "VENUE_ACTION" THEN e.action.net
              ELSE IF venueOrders[e.order].side = "BUY" THEN -(value + e.fee) ELSE value - e.fee]

SharesMoved(s, k) ==
  LET e == venueJournal[k]
  IN  [place |-> k, adds |-> ~(e.kind = "VENUE_ACTION" /\ e.action.symbol = s),
       num |-> IF e.kind = "VENUE_ACTION" THEN e.action.num ELSE 1,
       den |-> IF e.kind = "VENUE_ACTION" THEN e.action.den ELSE 1,
       by |-> IF e.kind = "VENUE_FILL" /\ venueOrders[e.order].symbol = s
              THEN IF venueOrders[e.order].side = "BUY" THEN e.quantity ELSE -e.quantity
              ELSE 0]

CashMoves      == [k \in VenueMoves |-> CashOf(k)]
ShareMoves(s)  == [k \in VenueMoves |-> SharesMoved(s, k)]

\* What moves are made of.
LEMMA MoveFields ==
  ASSUME BridgeInv, NEW k \in VenueMoves
  PROVE  /\ k \in DOMAIN venueJournal
         /\ venueJournal[k].kind = "VENUE_FILL" =>
              /\ venueJournal[k].order \in DOMAIN venueOrders
              /\ venueOrders[venueJournal[k].order].symbol \in Symbols
              /\ venueJournal[k].price \in Int /\ venueJournal[k].fee \in Int
              /\ venueJournal[k].quantity \in Nat
              /\ (venueJournal[k].price * venueJournal[k].quantity) \in Int
         /\ venueJournal[k].kind = "VENUE_ACTION" =>
              /\ venueJournal[k].action.symbol \in Symbols /\ venueJournal[k].action.net \in Int
         /\ venueJournal[k].kind = "VENUE_FILL" <=> venueJournal[k].kind # "VENUE_ACTION"
<1>1. k \in DOMAIN venueJournal /\ venueJournal[k].kind \in {"VENUE_FILL", "VENUE_ACTION"}
  BY DEF VenueMoves
<1>2. V!Shaped
  BY DEF BridgeInv, VenueBooks, V!VenueInv
<1>3. CASE venueJournal[k].kind = "VENUE_FILL"
  <2>1. /\ venueJournal[k].order \in DOMAIN venueOrders
        /\ venueJournal[k].price \in Int /\ venueJournal[k].fee \in Int /\ venueJournal[k].quantity \in Nat
    BY <1>1, <1>3, VenueFills
  <2>2. V!Kept(venueOrders[venueJournal[k].order])
    BY <1>2, <2>1 DEF V!Shaped
  <2>3. (venueJournal[k].price * venueJournal[k].quantity) \in Int
    BY <2>1
  <2> QED
    BY <1>1, <1>3, <2>1, <2>2, <2>3 DEF V!Kept
<1>4. CASE venueJournal[k].kind = "VENUE_ACTION"
  <2> DEFINE e == venueJournal[k]
  <2>1. e \in V!VenueEvent /\ e.kind = "VENUE_ACTION"
    BY <1>1, <1>2, <1>4 DEF V!Shaped
  <2>2. e.action \in Entitlements
    BY <2>1 DEF V!VenueEvent, V!Closing
  <2> QED
    BY <1>1, <1>4, <2>2, EntitlementAssumption
<1> QED
  BY <1>1, <1>3, <1>4

\* The moves differ, and only an entitlement scales.
LEMMA MovesShaped ==
  ASSUME BridgeInv, NEW s
  PROVE  /\ \A k \in VenueMoves : /\ CashMoves[k].place = k /\ CashMoves[k].by \in Int /\ CashMoves[k].adds
                                  /\ ShareMoves(s)[k].place = k /\ ShareMoves(s)[k].by \in Int
                                  /\ ShareMoves(s)[k].adds <=>
                                       ~(venueJournal[k].kind = "VENUE_ACTION" /\ venueJournal[k].action.symbol = s)
         /\ \A k \in VenueMoves : CashMoves[k] = CashOf(k) /\ ShareMoves(s)[k] = SharesMoved(s, k)
<1>1. \A k \in VenueMoves : CashMoves[k] = CashOf(k) /\ ShareMoves(s)[k] = SharesMoved(s, k)
  BY DEF CashMoves, ShareMoves
<1>2. ASSUME NEW k \in VenueMoves
      PROVE  /\ CashOf(k).place = k /\ CashOf(k).by \in Int /\ CashOf(k).adds
             /\ SharesMoved(s, k).place = k /\ SharesMoved(s, k).by \in Int
             /\ SharesMoved(s, k).adds <=>
                  ~(venueJournal[k].kind = "VENUE_ACTION" /\ venueJournal[k].action.symbol = s)
  <2> DEFINE e == venueJournal[k]
             v == e.price * e.quantity
  <2>1. CASE e.kind = "VENUE_FILL"
    <3>1. v \in Int /\ e.fee \in Int /\ e.quantity \in Int /\ e.kind # "VENUE_ACTION"
      BY <2>1, MoveFields
    <3>2. CashOf(k).by = IF venueOrders[e.order].side = "BUY" THEN -(v + e.fee) ELSE v - e.fee
      BY <3>1 DEF CashOf
    <3>3. CashOf(k).place = k /\ CashOf(k).adds
      BY DEF CashOf
    <3> HIDE DEF v
    <3>4. CashOf(k).by \in Int
      BY <3>1, <3>2
    <3>5. /\ SharesMoved(s, k).place = k /\ SharesMoved(s, k).adds
          /\ SharesMoved(s, k).by = IF venueOrders[e.order].symbol = s
                                    THEN IF venueOrders[e.order].side = "BUY" THEN e.quantity ELSE -e.quantity
                                    ELSE 0
      BY <2>1, <3>1 DEF SharesMoved
    <3>6. SharesMoved(s, k).by \in Int
      BY <3>1, <3>5
    <3> HIDE DEF e
    <3> QED
      BY <3>1, <3>3, <3>4, <3>5, <3>6 DEF e
  <2>2. CASE e.kind = "VENUE_ACTION"
    <3>1. e.action.net \in Int /\ e.kind # "VENUE_FILL"
      BY <2>2, MoveFields
    <3>2. CashOf(k).place = k /\ CashOf(k).adds /\ CashOf(k).by = e.action.net
      BY <2>2 DEF CashOf
    <3>3. /\ SharesMoved(s, k).place = k /\ SharesMoved(s, k).by = 0
          /\ SharesMoved(s, k).adds <=> e.action.symbol # s
      BY <2>2, <3>1 DEF SharesMoved
    <3> QED
      BY <2>2, <3>1, <3>2, <3>3
  <2> QED
    BY <2>1, <2>2 DEF VenueMoves
<1> QED
  BY <1>1, <1>2

\* A step of the venue's ledger.
LEMMA VenueLedgerMoves ==
  ASSUME BridgeInv, NEW G, V!History(G), NEW s, NEW k \in 1..Len(venueJournal)
  PROVE  /\ k \notin VenueMoves => G[k].cash = G[k-1].cash /\ G[k].positions[s] = G[k-1].positions[s]
         /\ k \in VenueMoves =>
              /\ G[k].cash = G[k-1].cash + CashOf(k).by
              /\ s \in Symbols => G[k].positions[s] =
                   IF SharesMoved(s, k).adds THEN G[k-1].positions[s] + SharesMoved(s, k).by
                   ELSE (G[k-1].positions[s] * SharesMoved(s, k).num) \div SharesMoved(s, k).den
<1> DEFINE l == G[k-1]
           m == G[k]
           e == venueJournal[k]
           v == e.price * e.quantity
           buy == venueOrders[e.order].side = "BUY"
<1>0. k \in DOMAIN venueJournal /\ k-1 \in 0..Len(venueJournal)
  BY Places
<1>1. V!Carries(l, e, m)
  BY DEF V!History
<1>2. l.cash \in Int /\ l.positions \in [Symbols -> Int]
  <2>1. l \in V!Ledger
    BY <1>0 DEF V!History
  <2> QED
    BY <2>1 DEF V!Ledger
<1>3. CASE k \notin VenueMoves
  <2>1. m = l
    BY <1>0, <1>1, <1>3 DEF V!Carries, VenueMoves
  <2> QED
    BY <1>3, <2>1
<1>4. CASE k \in VenueMoves /\ e.kind = "VENUE_FILL"
  <2> DEFINE x == venueOrders[e.order].symbol
             q == e.quantity
             f == e.fee
  <2>1. v \in Int /\ f \in Int /\ q \in Int /\ x \in Symbols
    BY <1>4, MoveFields
  <2>2. /\ CashOf(k).by = IF buy THEN -(v + f) ELSE v - f
        /\ SharesMoved(s, k).adds
        /\ SharesMoved(s, k).by = IF x = s THEN IF buy THEN q ELSE -q ELSE 0
    BY <1>4 DEF CashOf, SharesMoved
  <2>3. /\ m.cash = IF buy THEN l.cash - (v + f) ELSE l.cash + v - f
        /\ m.positions = IF buy THEN [l.positions EXCEPT ![x] = @ + q] ELSE [l.positions EXCEPT ![x] = @ - q]
    BY <1>1, <1>4 DEF V!Carries
  <2> DEFINE a == l.cash
             b == m.cash
             c == l.positions
             d == m.positions
  <2> HIDE DEF v, buy, x, q, f, l, m
  <2>4. b = a + CashOf(k).by
    <3>1. a \in Int
      BY <1>2
    <3> HIDE DEF a, b
    <3>2. b = IF buy THEN a - (v + f) ELSE a + v - f
      BY <2>3 DEF a, b
    <3> QED
      BY <2>1, <2>2, <3>1, <3>2
  <2>5. ASSUME s \in Symbols PROVE d[s] = c[s] + SharesMoved(s, k).by
    <3>1. c \in [Symbols -> Int] /\ d = IF buy THEN [c EXCEPT ![x] = @ + q] ELSE [c EXCEPT ![x] = @ - q]
      BY <1>2, <2>3
    <3> HIDE DEF c, d
    <3>2. c[s] \in Int
      BY <2>5, <3>1
    <3>3. CASE buy
      BY <2>1, <2>2, <2>5, <3>1, <3>2, <3>3
    <3>4. CASE ~buy
      BY <2>1, <2>2, <2>5, <3>1, <3>2, <3>4
    <3> QED
      BY <3>3, <3>4
  <2> QED
    BY <1>4, <2>2, <2>4, <2>5 DEF l, m
<1>5. CASE k \in VenueMoves /\ e.kind = "VENUE_ACTION"
  <2> DEFINE x == e.action.symbol
             c == l.positions
             d == m.positions
  <2>1. x \in Symbols
    BY <1>5, MoveFields
  <2>2. /\ m.cash = l.cash + e.action.net
        /\ d = [c EXCEPT ![x] = (@ * e.action.num) \div e.action.den]
    BY <1>1, <1>5 DEF V!Carries
  <2>3. /\ CashOf(k).by = e.action.net
        /\ SharesMoved(s, k).adds <=> x # s
        /\ SharesMoved(s, k).by = 0
        /\ SharesMoved(s, k).num = e.action.num /\ SharesMoved(s, k).den = e.action.den
    BY <1>5 DEF CashOf, SharesMoved
  <2>4. c \in [Symbols -> Int] /\ (s \in Symbols => c[s] \in Int)
    BY <1>2
  <2>5. ASSUME s \in Symbols PROVE d[s] = IF x = s THEN (c[s] * e.action.num) \div e.action.den ELSE c[s]
    <3> HIDE DEF c, d, x
    <3> QED
      BY <2>1, <2>2, <2>4, <2>5
  <2>6. ASSUME s \in Symbols PROVE d[s] = IF SharesMoved(s, k).adds THEN c[s] + SharesMoved(s, k).by
               ELSE (c[s] * SharesMoved(s, k).num) \div SharesMoved(s, k).den
    <3> HIDE DEF c, d, x
    <3>1. CASE x = s
      BY <2>3, <2>5, <2>6, <3>1
    <3>2. CASE x # s
      BY <2>3, <2>4, <2>5, <2>6, <3>2
    <3> QED
      BY <3>1, <3>2
  <2>7. m.cash = l.cash + CashOf(k).by
    BY <2>2, <2>3
  <2> HIDE DEF e
  <2> QED
    BY <1>5, <2>6, <2>7
<1> QED
  BY <1>3, <1>4, <1>5 DEF VenueMoves

\* A step of the account.
LEMMA AccountMoves ==
  ASSUME BridgeInv, Paired, NEW L, AccountHistory(L), NEW s, NEW i \in 1..Len(journal)
  PROVE  /\ i \notin LocalMoves => L[i].cash = L[i-1].cash /\ L[i].positions[s] = L[i-1].positions[s]
         /\ i \in LocalMoves =>
              LET k == Place(i)
              IN  /\ L[i].cash = L[i-1].cash + CashOf(k).by
                  /\ s \in Symbols => L[i].positions[s] =
                       IF SharesMoved(s, k).adds THEN L[i-1].positions[s] + SharesMoved(s, k).by
                       ELSE (L[i-1].positions[s] * SharesMoved(s, k).num) \div SharesMoved(s, k).den
<1> DEFINE l == L[i-1]
           m == L[i]
           k == Place(i)
           e == venueJournal[k]
           v == e.price * e.quantity
           buy == venueOrders[e.order].side = "BUY"
<1>0. i \in DOMAIN journal /\ i-1 \in 0..Len(journal)
  BY Places
<1>1. Posts(l, journal[i], m)
  BY DEF AccountHistory
<1>2. l.cash \in Int /\ l.positions \in [Symbols -> Int]
  <2>1. l \in Account
    BY <1>0 DEF AccountHistory
  <2> QED
    BY <2>1 DEF Account
<1>3. CASE i \notin LocalMoves
  <2>1. m = l
    BY <1>0, <1>1, <1>3 DEF Posts, LocalMoves
  <2> QED
    BY <1>3, <2>1
<1>4. CASE i \in LocalMoves /\ journal[i].kind = "FILL"
  <2> DEFINE x == venueOrders[e.order].symbol
             q == e.quantity
             f == e.fee
  <2>0. k \in VenueMoves /\ e.kind = "VENUE_FILL"
    BY <1>4 DEF Paired, Twins
  <2>1. v \in Int /\ f \in Int /\ q \in Int /\ x \in Symbols
    BY <2>0, MoveFields
  <2>2. /\ CashOf(k).by = IF buy THEN -(v + f) ELSE v - f
        /\ SharesMoved(s, k).adds
        /\ SharesMoved(s, k).by = IF x = s THEN IF buy THEN q ELSE -q ELSE 0
    BY <2>0 DEF CashOf, SharesMoved
  <2>3. /\ m.cash = IF buy THEN l.cash - (v + f) ELSE l.cash + v - f
        /\ m.positions = [l.positions EXCEPT ![x] = IF buy THEN @ + q ELSE @ - q]
    <3>1. PICK y \in DOMAIN venueJournal :
            LET r == venueJournal[y]  order == venueOrders[r.order]  value == r.price * r.quantity
            IN  /\ r.kind = "VENUE_FILL" /\ r.id = journal[i].id /\ r.order = journal[i].order
                /\ m.cash = IF order.side = "BUY" THEN l.cash - (value + r.fee) ELSE l.cash + value - r.fee
                /\ m.positions = [l.positions EXCEPT ![order.symbol] =
                                    IF order.side = "BUY" THEN @ + r.quantity ELSE @ - r.quantity]
      BY <1>1, <1>4 DEF Posts
    <3>2. Twins(i, y)
      BY <1>4, <3>1 DEF Twins
    <3>3. y = k
      BY <1>4, <3>1, <3>2 DEF Paired
    <3> HIDE DEF k
    <3> QED
      BY <3>1, <3>3
  <2> DEFINE a == l.cash
             b == m.cash
             c == l.positions
             d == m.positions
  <2> HIDE DEF v, buy, x, q, f, l, m, k
  <2>4. b = a + CashOf(k).by
    <3>1. a \in Int
      BY <1>2
    <3> HIDE DEF a, b
    <3>2. b = IF buy THEN a - (v + f) ELSE a + v - f
      BY <2>3 DEF a, b
    <3> QED
      BY <2>1, <2>2, <3>1, <3>2
  <2>5. ASSUME s \in Symbols PROVE d[s] = c[s] + SharesMoved(s, k).by
    <3>1. c \in [Symbols -> Int] /\ d = [c EXCEPT ![x] = IF buy THEN @ + q ELSE @ - q]
      BY <1>2, <2>3
    <3> HIDE DEF c, d
    <3>2. c[s] \in Int
      BY <2>5, <3>1
    <3>3. CASE buy
      BY <2>1, <2>2, <2>5, <3>1, <3>2, <3>3
    <3>4. CASE ~buy
      BY <2>1, <2>2, <2>5, <3>1, <3>2, <3>4
    <3> QED
      BY <3>3, <3>4
  <2> QED
    BY <1>4, <2>2, <2>4, <2>5 DEF l, m, k
<1>5. CASE i \in LocalMoves /\ journal[i].kind = "CORPORATE_ACTION"
  <2> DEFINE x == e.action.symbol
             c == l.positions
             d == m.positions
  <2>0. k \in VenueMoves /\ e.kind = "VENUE_ACTION" /\ journal[i].action = e.action
    BY <1>5 DEF Paired, Twins
  <2>1. x \in Symbols
    BY <2>0, MoveFields
  <2>2. /\ m.cash = l.cash + e.action.net
        /\ d = [c EXCEPT ![x] = (@ * e.action.num) \div e.action.den]
    <3>1. /\ m.cash = l.cash + journal[i].action.net
          /\ d = [c EXCEPT ![journal[i].action.symbol] = (@ * journal[i].action.num) \div journal[i].action.den]
      BY <1>1, <1>5 DEF Posts
    <3> HIDE DEF k, l, m
    <3> QED
      BY <2>0, <3>1
  <2>3. /\ CashOf(k).by = e.action.net
        /\ SharesMoved(s, k).adds <=> x # s
        /\ SharesMoved(s, k).by = 0
        /\ SharesMoved(s, k).num = e.action.num /\ SharesMoved(s, k).den = e.action.den
    BY <2>0 DEF CashOf, SharesMoved
  <2>4. c \in [Symbols -> Int] /\ (s \in Symbols => c[s] \in Int)
    BY <1>2
  <2>5. ASSUME s \in Symbols PROVE d[s] = IF x = s THEN (c[s] * e.action.num) \div e.action.den ELSE c[s]
    <3> HIDE DEF c, d, x
    <3> QED
      BY <2>1, <2>2, <2>4, <2>5
  <2>6. ASSUME s \in Symbols PROVE d[s] = IF SharesMoved(s, k).adds THEN c[s] + SharesMoved(s, k).by
               ELSE (c[s] * SharesMoved(s, k).num) \div SharesMoved(s, k).den
    <3> HIDE DEF c, d, x
    <3>1. CASE x = s
      BY <2>3, <2>5, <2>6, <3>1
    <3>2. CASE x # s
      BY <2>3, <2>4, <2>5, <2>6, <3>2
    <3> QED
      BY <3>1, <3>2
  <2>7. m.cash = l.cash + CashOf(k).by
    BY <2>2, <2>3
  <2> HIDE DEF e
  <2> QED
    BY <1>5, <2>6, <2>7
<1> QED
  BY <1>3, <1>4, <1>5 DEF LocalMoves

\* The balances along both journals.
LEMMA LedgersReplay ==
  ASSUME BridgeInv, Paired, NEW L, AccountHistory(L), NEW G, V!History(G), NEW s
  PROVE  LET n == Len(journal)  p == Len(venueJournal)
         IN  /\ Replays([i \in 0..n |-> L[i].cash], LocalMoves,
                        [i \in LocalMoves |-> CashMoves[Place(i)]], n)
             /\ Replays([k \in 0..p |-> G[k].cash], VenueMoves, CashMoves, p)
             /\ s \in Symbols =>
                  /\ Replays([i \in 0..n |-> L[i].positions[s]], LocalMoves,
                             [i \in LocalMoves |-> ShareMoves(s)[Place(i)]], n)
                  /\ Replays([k \in 0..p |-> G[k].positions[s]], VenueMoves, ShareMoves(s), p)
<1> DEFINE n == Len(journal)
           p == Len(venueJournal)
           R == LocalMoves
           S == VenueMoves
           lc == [i \in 0..n |-> L[i].cash]
           lp == [i \in 0..n |-> L[i].positions[s]]
           vc == [k \in 0..p |-> G[k].cash]
           vp == [k \in 0..p |-> G[k].positions[s]]
           C == CashMoves
           P == ShareMoves(s)
           LC == [i \in R |-> C[Place(i)]]
           LP == [i \in R |-> P[Place(i)]]
<1>0. /\ n \in Nat /\ R \in SUBSET (1..n) /\ p \in Nat /\ S \in SUBSET (1..p)
      /\ \A i \in 1..n : i \in 0..n /\ i-1 \in 0..n
      /\ \A k \in 1..p : k \in 0..p /\ k-1 \in 0..p
  BY Places
<1>1. /\ \A i \in 0..n : L[i].cash \in Int /\ (s \in Symbols => L[i].positions[s] \in Int)
      /\ \A k \in 0..p : G[k].cash \in Int /\ (s \in Symbols => G[k].positions[s] \in Int)
  <2>1. \A i \in 0..n : L[i] \in Account
    BY DEF AccountHistory
  <2>2. \A k \in 0..p : G[k] \in V!Ledger
    BY DEF V!History
  <2> QED
    BY <2>1, <2>2 DEF Account, V!Ledger
<1>2. /\ lc \in [0..n -> Int] /\ vc \in [0..p -> Int]
      /\ s \in Symbols => lp \in [0..n -> Int] /\ vp \in [0..p -> Int]
      /\ \A i \in 0..n : lc[i] = L[i].cash /\ lp[i] = L[i].positions[s]
      /\ \A k \in 0..p : vc[k] = G[k].cash /\ vp[k] = G[k].positions[s]
  BY <1>1
<1>3. /\ \A k \in S : /\ C[k].place = k /\ C[k].by \in Int /\ C[k].adds /\ C[k] = CashOf(k)
                      /\ P[k].place = k /\ P[k].by \in Int /\ P[k] = SharesMoved(s, k)
  BY MovesShaped
<1>4. \A i \in R : Place(i) \in S /\ LC[i] = C[Place(i)] /\ LP[i] = P[Place(i)]
  BY DEF Paired
<1>5. \A i, j \in R : Place(i) = Place(j) => i = j
  BY DEF Paired
<1>6. ASSUME NEW k \in 1..p
      PROVE  /\ k \notin S => vc[k] = vc[k-1] /\ vp[k] = vp[k-1]
             /\ k \in S => /\ vc[k] = vc[k-1] + C[k].by
                           /\ s \in Symbols => vp[k] = IF P[k].adds
                                  THEN vp[k-1] + P[k].by ELSE (vp[k-1] * P[k].num) \div P[k].den
  <2>1. /\ vc[k] = G[k].cash /\ vc[k-1] = G[k-1].cash
        /\ vp[k] = G[k].positions[s] /\ vp[k-1] = G[k-1].positions[s]
    BY <1>0, <1>2
  <2> HIDE DEF vc, vp, C, P, S
  <2>2. k \notin S => vc[k] = vc[k-1] /\ vp[k] = vp[k-1]
    BY <2>1, VenueLedgerMoves DEF S
  <2>3. ASSUME k \in S
        PROVE  /\ vc[k] = vc[k-1] + C[k].by
               /\ s \in Symbols => vp[k] = IF P[k].adds
                                  THEN vp[k-1] + P[k].by ELSE (vp[k-1] * P[k].num) \div P[k].den
    <3>1. C[k] = CashOf(k) /\ P[k] = SharesMoved(s, k)
      BY <1>3, <2>3
    <3> QED
      BY <2>1, <2>3, <3>1, VenueLedgerMoves DEF S
  <2> QED
    BY <2>2, <2>3
<1>7. ASSUME NEW i \in 1..n
      PROVE  /\ i \notin R => lc[i] = lc[i-1] /\ lp[i] = lp[i-1]
             /\ i \in R => /\ lc[i] = lc[i-1] + LC[i].by
                           /\ s \in Symbols => lp[i] = IF LP[i].adds
                                  THEN lp[i-1] + LP[i].by ELSE (lp[i-1] * LP[i].num) \div LP[i].den
  <2>1. /\ lc[i] = L[i].cash /\ lc[i-1] = L[i-1].cash
        /\ lp[i] = L[i].positions[s] /\ lp[i-1] = L[i-1].positions[s]
    BY <1>0, <1>2
  <2> HIDE DEF lc, lp, C, P, S, LC, LP, R
  <2>2. i \notin R => lc[i] = lc[i-1] /\ lp[i] = lp[i-1]
    BY <2>1, AccountMoves DEF R
  <2>3. ASSUME i \in R
        PROVE  /\ lc[i] = lc[i-1] + LC[i].by
               /\ s \in Symbols => lp[i] = IF LP[i].adds
                                  THEN lp[i-1] + LP[i].by ELSE (lp[i-1] * LP[i].num) \div LP[i].den
    <3>1. LC[i] = CashOf(Place(i)) /\ LP[i] = SharesMoved(s, Place(i))
      BY <1>3, <1>4, <2>3
    <3> QED
      BY <2>1, <2>3, <3>1, AccountMoves DEF R
  <2> QED
    BY <2>2, <2>3
<1>8. \A i \in R : /\ LC[i].by \in Int /\ LC[i].adds /\ LP[i].by \in Int
                   /\ \A j \in R : (LC[i] = LC[j] \/ LP[i] = LP[j]) => i = j
  <2> HIDE DEF C, P, S, LC, LP, R
  <2> QED
    BY <1>3, <1>4, <1>5
<1>13. \A k, j \in S : C[k] = C[j] \/ P[k] = P[j] => k = j
  <2> HIDE DEF C, P
  <2> QED
    BY <1>3
<1> HIDE DEF n, p, R, S, lc, lp, vc, vp, C, P, LC, LP
<1>9. Replays(lc, R, LC, n)
  BY <1>0, <1>2, <1>7, <1>8 DEF Replays
<1>10. s \in Symbols => Replays(lp, R, LP, n)
  BY <1>0, <1>2, <1>7, <1>8 DEF Replays
<1>11. Replays(vc, S, C, p)
  BY <1>0, <1>2, <1>3, <1>6, <1>13 DEF Replays
<1>12. s \in Symbols => Replays(vp, S, P, p)
  BY <1>0, <1>2, <1>3, <1>6, <1>13 DEF Replays
<1> QED
  BY <1>9, <1>10, <1>11, <1>12 DEF n, p, R, S, lc, lp, vc, vp, C, P, LC, LP

-----------------------------------------------------------------------------
(* The two ledgers at rest. *)

\* Everything that moved the venue's ledger moved the account.
LEMMA AllTaken ==
  ASSUME BridgeInv, Paired, Unbooked = {}, NEW m \in VenueMoves
  PROVE  m \in Taken(Len(journal))
<1>0. /\ Len(journal) \in Nat /\ DOMAIN journal = 1..Len(journal) /\ LocalMoves \in SUBSET (1..Len(journal))
  BY Places
<1>1. m \in DOMAIN venueJournal /\ venueJournal[m].kind \in {"VENUE_FILL", "VENUE_ACTION"}
  BY DEF VenueMoves
<1>2. \E i \in LocalMoves : Place(i) = m
  <2>1. CASE venueJournal[m].kind = "VENUE_FILL"
    <3>1. Booked(venueJournal[m])
      BY <1>1, <2>1 DEF Unbooked, Venue!Reports
    <3>2. PICK i \in DOMAIN journal : journal[i].kind = "FILL" /\ journal[i].id = venueJournal[m].id
      BY <2>1, <3>1 DEF Booked, Has
    <3>3. i \in LocalMoves /\ Twins(i, m)
      BY <1>1, <2>1, <3>2 DEF LocalMoves, Twins
    <3> QED
      BY <1>1, <3>3 DEF Paired
  <2>2. CASE venueJournal[m].kind = "VENUE_ACTION"
    BY <2>2 DEF Paired
  <2> QED
    BY <1>1, <2>1, <2>2
<1>3. \A i \in LocalMoves : i <= Len(journal)
  BY <1>0
<1> QED
  BY <1>2, <1>3 DEF Taken

\* So both balances are the same.
LEMMA BalancesSettle ==
  ASSUME BridgeInv, LedgersInv, Paired, Unbooked = {}
  PROVE  cash = venueLedger.cash /\ \A s \in Symbols : positions[s] = venueLedger.positions[s]
<1> DEFINE n == Len(journal)
           p == Len(venueJournal)
<1>0. /\ n \in Nat /\ DOMAIN journal = 1..n /\ p \in Nat /\ VenueMoves \in SUBSET (1..p)
  BY Places
<1>1. PICK L : AccountHistory(L)
  BY DEF LedgersInv, AccountIsReplay
<1>2. PICK G : V!History(G)
  BY DEF LedgersInv, VenueLedger, V!ReplayInv, V!LedgerIsReplay
<1>3. /\ L[0] = [cash |-> Capital, positions |-> [s \in Symbols |-> 0]]
      /\ L[n] = [cash |-> cash, positions |-> positions] /\ L[n] \in Account
      /\ G[0].cash = Capital /\ G[0].positions = [s \in Symbols |-> 0]
      /\ G[p] = venueLedger
  <2>1. n \in 0..n
    BY <1>0
  <2> QED
    BY <1>1, <1>2, <2>1 DEF AccountHistory, V!History
<1>4. ASSUME NEW F, NEW X, NEW Y, \A k \in VenueMoves : F[k].place = k /\ F[k].by \in Int, X[0] = Y[0], X[n] \in Int,
             Replays(X, LocalMoves, [i \in LocalMoves |-> F[Place(i)]], n), Replays(Y, VenueMoves, F, p),
             \A k \in VenueMoves : ~F[k].adds => venueJournal[k].kind = "VENUE_ACTION"
      PROVE  Y[p] = X[n]
  <2>1. n \in 0..n /\ p \in 0..p
    BY <1>0
  <2>2. \A m \in VenueMoves : m \in Taken(n)
    BY AllTaken
  <2>3. \A m \in Taken(n) : m <= p
    <3>1. Taken(n) \subseteq VenueMoves
      BY DEF Taken, Paired
    <3>2. \A m \in 1..p : m <= p
      OBVIOUS
    <3> HIDE DEF n, p
    <3> QED
      BY <1>0, <3>1, <3>2
  <2> DEFINE rest == {F[m] : m \in {l \in VenueMoves : l <= p /\ l \notin Taken(n)}}
  <2>4. rest = {}
    BY <2>2
  <2>5. Y[p] = X[n] + Total(rest)
    BY <1>4, <2>1, <2>2, <2>3, BalancesFollow
  <2>6. Total({}) = 0
    BY SumEmpty DEF Total
  <2> HIDE DEF rest, n, p
  <2> QED
    BY <1>4, <2>4, <2>5, <2>6
<1>5. ASSUME NEW s
      PROVE  cash = venueLedger.cash /\ (s \in Symbols => positions[s] = venueLedger.positions[s])
  <2> DEFINE lc == [i \in 0..n |-> L[i].cash]
             lp == [i \in 0..n |-> L[i].positions[s]]
             vc == [k \in 0..p |-> G[k].cash]
             vp == [k \in 0..p |-> G[k].positions[s]]
  <2>1. /\ Replays(lc, LocalMoves, [i \in LocalMoves |-> CashMoves[Place(i)]], n)
        /\ Replays(vc, VenueMoves, CashMoves, p)
        /\ s \in Symbols =>
             /\ Replays(lp, LocalMoves, [i \in LocalMoves |-> ShareMoves(s)[Place(i)]], n)
             /\ Replays(vp, VenueMoves, ShareMoves(s), p)
    BY <1>1, <1>2, LedgersReplay
  <2>2. n \in 0..n /\ p \in 0..p /\ 0 \in 0..n /\ 0 \in 0..p
    BY <1>0
  <2>3. /\ lc[0] = vc[0] /\ lc[n] = cash /\ vc[p] = venueLedger.cash /\ lc[n] \in Int
        /\ s \in Symbols => /\ lp[0] = vp[0] /\ lp[n] = positions[s] /\ vp[p] = venueLedger.positions[s]
                            /\ lp[n] \in Int
    BY <1>3, <2>2 DEF Account
  <2>4. /\ \A k \in VenueMoves : /\ CashMoves[k].place = k /\ CashMoves[k].by \in Int /\ CashMoves[k].adds
                                 /\ ShareMoves(s)[k].place = k /\ ShareMoves(s)[k].by \in Int
                                 /\ ~ShareMoves(s)[k].adds => venueJournal[k].kind = "VENUE_ACTION"
    BY MovesShaped
  <2> HIDE DEF lc, lp, vc, vp, n, p
  <2>5. vc[p] = lc[n]
    BY <1>4, <2>1, <2>3, <2>4
  <2>6. s \in Symbols => vp[p] = lp[n]
    BY <1>4, <2>1, <2>3, <2>4
  <2> QED
    BY <2>3, <2>5, <2>6
<1> QED
  BY <1>5

\* And the orders that are open.
LEMMA OpenOrdersSettle ==
  ASSUME BridgeInv, LedgersInv, Undelivered = {}, Unbooked = {}
  PROVE  /\ \A o : o \in Pending <=> (o \in DOMAIN venueOrders /\ Venue!IsActive(o))
         /\ \A o \in Pending : /\ orders[o].status = venueOrders[o].status
                               /\ orders[o].quantity = venueOrders[o].quantity
                               /\ orders[o].filled = venueOrders[o].filled
<1>0. /\ VenueBooks /\ LocalBooks /\ OrdersShared /\ FilledByBooked /\ StatusTold
      /\ V!Shaped /\ V!Queued /\ V!FilledByExecutions /\ V!StatusInv
  BY DEF BridgeInv, LedgersInv, VenueBooks, V!VenueInv, V!ReportInv, VenueLedger
<1>1. ASSUME NEW o \in Pending
      PROVE  o \in DOMAIN venueOrders
  <2>1. PICK i \in DOMAIN journal : journal[i].kind = "ORDER_ACCEPTED" /\ journal[i].id = o
    BY <1>0 DEF LocalBooks, OrdersJournalled, Has, Pending
  <2>2. Venue!HasEvent("VENUE_ACCEPTED", o)
    BY <2>1 DEF Undelivered
  <2>3. PICK k \in DOMAIN venueJournal : venueJournal[k].kind = "VENUE_ACCEPTED" /\ venueJournal[k].id = o
    BY <2>2 DEF Venue!HasEvent
  <2> QED
    BY <1>0, <2>3 DEF V!Queued
<1>2. ASSUME NEW o \in DOMAIN venueOrders
      PROVE  /\ o \in DOMAIN orders /\ orders[o].filled = venueOrders[o].filled
             /\ orders[o].quantity = venueOrders[o].quantity
  <2> DEFINE S == V!ExecutionsOf(venueJournal, o)
             f == [k \in S |-> venueJournal[k].quantity]
  <2>1. o \in DOMAIN orders /\ orders[o].quantity = venueOrders[o].quantity
    BY <1>0 DEF OrdersShared
  <2>2. BookedFills(o) = S
    BY DEF BookedFills, V!ExecutionsOf, Unbooked, Venue!Reports
  <2>3. orders[o].filled = SumFunctionOnSet(f, S)
    BY <1>0, <2>1, <2>2 DEF FilledByBooked, SharesOf
  <2>4. venueOrders[o].filled = V!Traded(venueJournal, S)
    BY <1>0 DEF V!FilledByExecutions
  <2>5. V!Traded(venueJournal, S) = SumFunctionOnSet(f, S)
    BY SameFolds DEF V!Traded
  <2> HIDE DEF S, f
  <2> QED
    BY <2>1, <2>3, <2>4, <2>5
<1>3. ASSUME NEW o \in Pending
      PROVE  Venue!IsActive(o)
  <2>1. o \in DOMAIN venueOrders /\ o \in DOMAIN orders /\ orders[o].status \in ACTIVE
    BY <1>1 DEF Pending
  <2>2. venueOrders[o].status \in V!VenueActive \cup {"FILLED", "CANCELED", "REJECTED"}
    BY <1>0, <2>1 DEF V!Shaped, V!Kept
  <2>3. V!Tells(venueJournal, o, venueOrders[o])
    BY <1>0, <2>1 DEF V!StatusInv
  <2>4. CASE venueOrders[o].status = "FILLED"
    <3>1. orders[o].filled = orders[o].quantity
      BY <1>2, <2>1, <2>3, <2>4 DEF V!Tells
    <3>2. orders[o].status = "FILLED"
      BY <1>0, <2>1, <3>1 DEF LocalBooks
    <3> QED
      BY <2>1, <3>2 DEF ACTIVE
  <2>5. CASE venueOrders[o].status \in {"CANCELED", "REJECTED"}
    <3>1. PICK k \in DOMAIN venueJournal : venueJournal[k].kind \in V!Closing /\ venueJournal[k].order = o
      BY <2>3, <2>5 DEF V!Tells
    <3>2. Booked(venueJournal[k])
      BY <3>1 DEF V!Closing, Unbooked, Venue!Reports
    <3>3. \E i \in DOMAIN journal : journal[i].kind \in {"ORDER_CANCELED", "ORDER_REJECTED"} /\ journal[i].id = o
      BY <3>1, <3>2 DEF V!Closing, Booked
    <3> QED
      BY <1>0, <3>3 DEF StatusTold
  <2> QED
    BY <2>1, <2>2, <2>4, <2>5 DEF Venue!IsActive, V!VenueActive, Venue!VenueActive
<1>4. ASSUME NEW o \in DOMAIN venueOrders, Venue!IsActive(o)
      PROVE  o \in Pending
  BY <1>0, <1>4 DEF OrdersShared
<1>5. ASSUME NEW o \in Pending
      PROVE  orders[o].status = venueOrders[o].status
  <2>1. /\ o \in DOMAIN venueOrders /\ o \in DOMAIN orders /\ orders[o].status \in ACTIVE
        /\ venueOrders[o].status \in {"ACCEPTED", "PARTIAL"}
    BY <1>1, <1>3 DEF Pending, Venue!IsActive, Venue!VenueActive
  <2>2. orders[o].filled = venueOrders[o].filled
    BY <1>2, <2>1
  <2>3. V!Tells(venueJournal, o, venueOrders[o])
    BY <1>0, <2>1 DEF V!StatusInv
  <2>4. orders[o].status # "CANCEL_PENDING"
    <3> SUFFICES ASSUME orders[o].status = "CANCEL_PENDING" PROVE FALSE
      OBVIOUS
    <3>1. PICK i \in DOMAIN journal : journal[i].kind = "ORDER_CANCEL_REQUESTED" /\ journal[i].id = o
      BY <1>0, <2>1 DEF StatusTold, Has
    <3> QED
      BY <1>3, <3>1 DEF Undelivered
  <2> QED
    BY <1>0, <2>1, <2>2, <2>3, <2>4 DEF StatusTold, V!Tells, ACTIVE
<1> QED
  BY <1>1, <1>2, <1>3, <1>4, <1>5

\* Two ledgers written independently agree once everything is delivered and booked
\* (PaperBridge.reconcile).
THEOREM SettledBooksAgreeHolds == BridgeSpec => []SettledBooksAgree
<1>1. ASSUME BridgeInv, LedgersInv
      PROVE  SettledBooksAgree
  <2> SUFFICES ASSUME Undelivered = {}, Unbooked = {}, SameEntitlements
               PROVE  Snapshot = Venue!Snapshot
    BY DEF SettledBooksAgree
  <2>1. Paired
    BY <1>1, MovesPair
  <2>2. cash = venueLedger.cash /\ \A s \in Symbols : positions[s] = venueLedger.positions[s]
    BY <1>1, <2>1, BalancesSettle
  <2>3. /\ \A o : o \in Pending <=> (o \in DOMAIN venueOrders /\ Venue!IsActive(o))
        /\ \A o \in Pending : /\ orders[o].status = venueOrders[o].status
                              /\ orders[o].quantity = venueOrders[o].quantity
                              /\ orders[o].filled = venueOrders[o].filled
    BY <1>1, OpenOrdersSettle
  <2>4. Held = {x \in Symbols : venueLedger.positions[x] # 0}
    BY <2>2 DEF Held
  <2>5. Pending = {x \in DOMAIN venueOrders : Venue!IsActive(x)}
    BY <2>3
  <2>6. [s \in Held |-> positions[s]] =
          [s \in {x \in Symbols : venueLedger.positions[x] # 0} |-> venueLedger.positions[s]]
    BY <2>2, <2>4 DEF Held
  <2>7. [o \in Pending |-> [status |-> orders[o].status, quantity |-> orders[o].quantity,
                            filled |-> orders[o].filled]] =
          [o \in {x \in DOMAIN venueOrders : Venue!IsActive(x)} |->
             [status |-> venueOrders[o].status, quantity |-> venueOrders[o].quantity,
              filled |-> venueOrders[o].filled]]
    BY <2>3, <2>5
  <2> QED
    BY <2>2, <2>6, <2>7 DEF Snapshot, Venue!Snapshot
<1> QED
  BY <1>1, LedgersAreTold, PTL

-----------------------------------------------------------------------------
(* The venue never sells what the account does not have. *)

\* What a SELL finds: its shares were held when it was accepted here, and every move since
\* then only adds to them, but for its own executions.
LEMMA SellsAlone ==
  ASSUME BridgeInv, LedgersInv, Paired, NEW k \in VenueMoves, venueJournal[k].kind = "VENUE_FILL",
         NEW o, o = venueJournal[k].order, NEW s, s = venueOrders[o].symbol,
         NEW i \in DOMAIN journal, journal[i].kind = "ORDER_ACCEPTED", journal[i].id = o
  PROVE  /\ \A m \in Taken(i) : m <= k /\ ~(venueJournal[m].kind = "VENUE_FILL" /\ venueJournal[m].order = o)
         /\ \A m \in VenueMoves : m <= k /\ m \notin Taken(i) =>
              /\ ~(venueJournal[m].kind = "VENUE_ACTION" /\ venueJournal[m].action.symbol = s)
              /\ (/\ venueJournal[m].kind = "VENUE_FILL"
                  /\ venueOrders[venueJournal[m].order].symbol = s) => venueJournal[m].order = o
<1>0. /\ FillsFollow /\ FillsBefore /\ NothingOutstanding /\ TermsShared
      /\ LocalBooks /\ UnbookedIsPending
  BY DEF LedgersInv, BridgeInv
<1>1. /\ Len(journal) \in Nat /\ DOMAIN journal = 1..Len(journal)
      /\ Len(venueJournal) \in Nat /\ DOMAIN venueJournal = 1..Len(venueJournal)
      /\ LocalMoves \subseteq DOMAIN journal /\ VenueMoves \subseteq DOMAIN venueJournal
  BY Places DEF LocalMoves, VenueMoves
<1>2. \A j \in DOMAIN journal : j \in Int
  BY <1>1
<1>3. \A m \in DOMAIN venueJournal : m \in Int
  BY <1>1
<1>4. \A p \in DOMAIN venueOrders : p \in DOMAIN orders /\ orders[p].symbol = venueOrders[p].symbol
                                    /\ orders[p].side = venueOrders[p].side
  BY <1>0 DEF TermsShared
<1>5. \A m \in VenueMoves : venueJournal[m].kind = "VENUE_FILL" => venueJournal[m].order \in DOMAIN venueOrders
  BY MoveFields
<1>6. ASSUME NEW m \in VenueMoves, venueJournal[m].kind = "VENUE_FILL", venueJournal[m].order \notin Pending
      PROVE  \E x \in LocalMoves : /\ Place(x) = m /\ journal[x].kind = "FILL"
                                   /\ journal[x].order = venueJournal[m].order
  <2>1. m \in DOMAIN venueJournal
    BY <1>1
  <2>2. m \notin Unbooked
    BY <1>0, <1>6 DEF UnbookedIsPending
  <2>3. Booked(venueJournal[m])
    BY <1>6, <2>1, <2>2 DEF Unbooked, Venue!Reports
  <2>4. PICK x \in DOMAIN journal : journal[x].kind = "FILL" /\ journal[x].id = venueJournal[m].id
    BY <1>6, <2>3 DEF Booked, Has
  <2>5. x \in LocalMoves /\ Twins(x, m)
    BY <1>6, <2>1, <2>4 DEF LocalMoves, Twins
  <2>6. Place(x) = m
    BY <2>1, <2>5 DEF Paired
  <2> QED
    BY <2>4, <2>5, <2>6 DEF Paired
<1>7. ASSUME NEW j \in LocalMoves, j <= i
      PROVE  Place(j) < k /\ ~(journal[j].kind = "FILL" /\ journal[j].order = o)
  <2>1. j \in DOMAIN journal /\ j < i
    BY <1>1, <1>2, <1>7 DEF LocalMoves
  <2>2. ~(journal[j].kind = "FILL" /\ journal[j].order = o)
    BY <1>0, <1>2, <2>1 DEF FillsFollow
  <2>3. Place(j) \in VenueMoves /\ Twins(j, Place(j)) /\ Place(j) \in DOMAIN venueJournal /\ k \in DOMAIN venueJournal
    BY <1>1 DEF Paired
  <2>4. CASE journal[j].kind = "FILL"
    <3>1. venueJournal[Place(j)].kind = "VENUE_FILL" /\ venueJournal[Place(j)].id = journal[j].id
      BY <2>3, <2>4 DEF Twins
    <3> QED
      BY <1>0, <2>1, <2>2, <2>3, <2>4, <3>1 DEF FillsBefore
  <2>5. CASE journal[j].kind = "CORPORATE_ACTION"
    <3> SUFFICES ASSUME ~(Place(j) < k) PROVE FALSE
      BY <2>2
    <3>1. venueJournal[Place(j)].kind = "VENUE_ACTION"
      BY <2>3, <2>5 DEF Twins
    <3>2. k < Place(j)
      BY <1>3, <2>3, <3>1
    <3>3. PICK x \in LocalMoves : x < j /\ Place(x) = k
      BY <2>5, <3>2 DEF Paired
    <3>4. journal[x].kind = "FILL" /\ journal[x].order = o /\ x \in DOMAIN journal
      BY <1>1, <3>3 DEF Paired, Twins
    <3>5. i < x
      BY <1>0, <3>4 DEF FillsFollow
    <3> QED
      BY <1>2, <2>1, <3>3, <3>4, <3>5
  <2> QED
    BY <2>4, <2>5 DEF LocalMoves
<1>8. \A m \in Taken(i) : m <= k /\ ~(venueJournal[m].kind = "VENUE_FILL" /\ venueJournal[m].order = o)
  <2> SUFFICES ASSUME NEW j \in LocalMoves, j <= i
               PROVE  Place(j) <= k /\ ~(venueJournal[Place(j)].kind = "VENUE_FILL" /\ venueJournal[Place(j)].order = o)
    BY DEF Taken
  <2>1. Place(j) < k /\ ~(journal[j].kind = "FILL" /\ journal[j].order = o)
    BY <1>7
  <2>2. Place(j) \in DOMAIN venueJournal /\ k \in DOMAIN venueJournal /\ Twins(j, Place(j))
    BY <1>1 DEF Paired
  <2>3. journal[j].kind = "FILL" => journal[j].order = venueJournal[Place(j)].order
    BY DEF Paired
  <2> QED
    BY <1>3, <2>1, <2>2, <2>3 DEF Twins
<1>9. o \in DOMAIN venueOrders /\ o \in DOMAIN orders /\ orders[o].symbol = s /\ k \in DOMAIN venueJournal
  BY <1>1, <1>4, <1>5
<1>10. ASSUME NEW m \in VenueMoves, m <= k, m \notin Taken(i),
              venueJournal[m].kind = "VENUE_ACTION", venueJournal[m].action.symbol = s
       PROVE  FALSE
  <2>1. PICK j \in LocalMoves : Place(j) = m
    BY <1>10 DEF Paired
  <2>2. /\ j \in DOMAIN journal /\ journal[j].kind = "CORPORATE_ACTION" /\ journal[j].action = venueJournal[m].action
    BY <1>1, <1>10, <2>1 DEF Paired, Twins
  <2>3. ~(j <= i)
    BY <1>10, <2>1 DEF Taken
  <2>4. i < j
    BY <1>2, <2>2, <2>3
  <2>5. Meets(journal[j], orders[journal[i].id].symbol)
    BY <1>9, <1>10, <2>2 DEF Meets
  <2>6. o \notin Pending /\ \A l \in DOMAIN journal : l > j /\ journal[l].kind = "FILL" => journal[l].order # o
    BY <1>0, <2>2, <2>4, <2>5 DEF NothingOutstanding
  <2>7. PICK x \in LocalMoves : Place(x) = k /\ journal[x].kind = "FILL" /\ journal[x].order = o
    BY <1>6, <2>6
  <2>8. x \in DOMAIN journal /\ x # j
    BY <1>1, <2>2, <2>7
  <2>9. x < j
    BY <1>2, <2>2, <2>6, <2>7, <2>8
  <2>10. k < m
    BY <2>1, <2>2, <2>7, <2>9 DEF Paired
  <2> QED
    BY <1>1, <1>3, <1>10, <2>10
<1>11. ASSUME NEW m \in VenueMoves, m <= k, m \notin Taken(i),
              venueJournal[m].kind = "VENUE_FILL", venueJournal[m].order # o,
              venueOrders[venueJournal[m].order].symbol = s
       PROVE  FALSE
  <2> DEFINE p == venueJournal[m].order
  <2>1. p \in DOMAIN venueOrders /\ p \in DOMAIN orders /\ orders[p].symbol = s /\ m \in DOMAIN venueJournal
    BY <1>1, <1>4, <1>5, <1>11
  <2>2. PICK j \in DOMAIN journal : journal[j].kind = "ORDER_ACCEPTED" /\ journal[j].id = p
    BY <1>0, <2>1 DEF LocalBooks, OrdersJournalled, Has
  <2>3. j # i
    BY <1>11, <2>2
  <2>4. CASE j < i
    <3>1. Meets(journal[i], orders[journal[j].id].symbol)
      BY <1>9, <2>1, <2>2 DEF Meets
    <3>2. p \notin Pending /\ \A l \in DOMAIN journal : l > i /\ journal[l].kind = "FILL" => journal[l].order # p
      BY <1>0, <2>2, <2>4, <3>1 DEF NothingOutstanding
    <3>3. PICK x \in LocalMoves : Place(x) = m /\ journal[x].kind = "FILL" /\ journal[x].order = p
      BY <1>6, <1>11, <3>2
    <3>4. x \in DOMAIN journal
      BY <1>1
    <3>5. x <= i
      BY <1>2, <3>2, <3>3, <3>4
    <3> QED
      BY <1>11, <3>3, <3>5 DEF Taken
  <2>5. CASE i < j
    <3>1. Meets(journal[j], orders[journal[i].id].symbol)
      BY <1>9, <2>1, <2>2 DEF Meets
    <3>2. o \notin Pending /\ \A l \in DOMAIN journal : l > j /\ journal[l].kind = "FILL" => journal[l].order # o
      BY <1>0, <2>2, <2>5, <3>1 DEF NothingOutstanding
    <3>3. PICK x \in LocalMoves : Place(x) = k /\ journal[x].kind = "FILL" /\ journal[x].order = o
      BY <1>6, <3>2
    <3>4. x \in DOMAIN journal /\ x # j
      BY <1>1, <2>2, <3>3
    <3>5. x < j
      BY <1>2, <2>2, <3>2, <3>3, <3>4
    <3>6. venueJournal[k].id = journal[x].id
      BY <3>3 DEF Paired, Twins
    <3>7. k < m
      BY <1>0, <1>9, <1>11, <2>1, <2>2, <3>3, <3>4, <3>5, <3>6 DEF FillsBefore
    <3> QED
      BY <1>3, <1>9, <1>11, <2>1, <3>7
  <2> QED
    BY <1>2, <2>2, <2>3, <2>4, <2>5
<1> QED
  BY <1>8, <1>10, <1>11

\* So an execution of a SELL leaves no less than nothing.
LEMMA SellFindsShares ==
  ASSUME BridgeInv, LedgersInv, Paired, NEW G, V!History(G),
         NEW k \in VenueMoves, venueJournal[k].kind = "VENUE_FILL",
         NEW o, o = venueJournal[k].order, venueOrders[o].side # "BUY",
         NEW s, s = venueOrders[o].symbol
  PROVE  G[k].positions[s] \in Nat
<1> DEFINE n == Len(journal)
           p == Len(venueJournal)
           F == ShareMoves(s)
<1>0. /\ n \in Nat /\ DOMAIN journal = 1..n /\ LocalMoves \in SUBSET (1..n)
      /\ p \in Nat /\ DOMAIN venueJournal = 1..p /\ VenueMoves \in SUBSET (1..p)
  BY Places
<1>1. VenueBooks /\ LocalBooks /\ OrdersShared /\ TermsShared
  BY DEF BridgeInv, LedgersInv
<1>2. /\ o \in DOMAIN venueOrders /\ s \in Symbols /\ o \in DOMAIN orders
      /\ orders[o].quantity = venueOrders[o].quantity /\ orders[o].symbol = s
      /\ orders[o].side = venueOrders[o].side /\ orders[o].side # "BUY"
  BY <1>1, MoveFields DEF OrdersShared, TermsShared
<1>3. orders[o].side = "SELL"
  BY <1>1, <1>2 DEF LocalBooks, Handed
<1>4. PICK L : AccountHistory(L)
  BY DEF LedgersInv, AccountIsReplay
<1>5. PICK i \in DOMAIN journal : journal[i].kind = "ORDER_ACCEPTED" /\ journal[i].id = o
  BY <1>1, <1>2 DEF LocalBooks, OrdersJournalled, Has
<1>6. i \in 0..n /\ k \in 0..p /\ i \in 1..n
  BY <1>0
<1>7. orders[o].quantity <= L[i].positions[s] /\ L[i].positions[s] \in Int
  <2>1. L[i] \in Account
    BY <1>4, <1>6 DEF AccountHistory
  <2>2. L[i].positions[s] \in Int
    BY <1>2, <2>1 DEF Account
  <2>3. orders[o].quantity <= L[i].positions[s]
    BY <1>2, <1>3, <1>4, <1>5, <1>6 DEF AccountHistory
  <2> QED
    BY <2>2, <2>3
<1>8. /\ \A m \in Taken(i) : m <= k /\ ~(venueJournal[m].kind = "VENUE_FILL" /\ venueJournal[m].order = o)
      /\ \A m \in VenueMoves : m <= k /\ m \notin Taken(i) =>
           /\ ~(venueJournal[m].kind = "VENUE_ACTION" /\ venueJournal[m].action.symbol = s)
           /\ (/\ venueJournal[m].kind = "VENUE_FILL"
               /\ venueOrders[venueJournal[m].order].symbol = s) => venueJournal[m].order = o
  BY <1>5, SellsAlone
<1> DEFINE D == {l \in VenueMoves : l <= k /\ l \notin Taken(i)}
           E == {l \in D : venueJournal[l].kind = "VENUE_FILL" /\ venueJournal[l].order = o}
           X == [j \in 0..n |-> L[j].positions[s]]
           Y == [j \in 0..p |-> G[j].positions[s]]
<1>9. \A m \in VenueMoves : /\ F[m].place = m /\ F[m].by \in Int /\ F[m] = SharesMoved(s, m)
                            /\ F[m].adds <=>
                                 ~(venueJournal[m].kind = "VENUE_ACTION" /\ venueJournal[m].action.symbol = s)
  BY MovesShaped
<1>10. /\ Replays(X, LocalMoves, [j \in LocalMoves |-> F[Place(j)]], n)
       /\ Replays(Y, VenueMoves, F, p)
  BY <1>2, <1>4, LedgersReplay
<1>11. X[0] = Y[0] /\ X[i] = L[i].positions[s] /\ Y[k] = G[k].positions[s]
  <2>1. 0 \in 0..n /\ 0 \in 0..p
    BY <1>0
  <2>2. L[0].positions = [x \in Symbols |-> 0] /\ G[0].positions = [x \in Symbols |-> 0]
    BY <1>4 DEF AccountHistory, V!History
  <2> QED
    BY <1>6, <2>1, <2>2
<1>12. Y[k] = X[i] + Total({F[m] : m \in D})
  <2> HIDE DEF X, Y, F
  <2>1. /\ \A m \in VenueMoves : F[m].place = m /\ F[m].by \in Int
        /\ \A m \in VenueMoves : ~F[m].adds => venueJournal[m].kind = "VENUE_ACTION"
        /\ \A m \in VenueMoves : m <= k /\ m \notin Taken(i) => F[m].adds
        /\ \A m \in Taken(i) : m <= k
    BY <1>8, <1>9
  <2> QED
    BY <1>6, <1>10, <1>11, <2>1, BalancesFollow
<1> DEFINE f == [m \in D |-> F[m].by]
           e == [m \in E |-> venueJournal[m].quantity]
<1>13. IsFiniteSet(D) /\ E \in SUBSET D /\ E \in SUBSET V!ExecutionsOf(venueJournal, o)
  <2>1. IsFiniteSet(1..p) /\ D \subseteq 1..p
    BY <1>0, FS_Interval
  <2>2. E \in SUBSET V!ExecutionsOf(venueJournal, o)
    BY <1>0 DEF V!ExecutionsOf
  <2> QED
    BY <2>1, <2>2, FS_Subset
<1>14. Total({F[m] : m \in D}) = SumFunctionOnSet(f, D)
  <2>1. (\A m \in D : F[m].by \in Int) /\ \A m, l \in D : F[m] = F[l] => m = l
    BY <1>9
  <2> HIDE DEF D, F
  <2>2. \A P \in SUBSET D : Total({F[m] : m \in P}) = SumFunctionOnSet([m \in D |-> F[m].by], P)
    BY <1>13, <2>1, TotalOver
  <2> QED
    BY <2>2
<1>15. /\ \A m \in D : f[m] \in Int
       /\ \A m \in D \ E : f[m] = 0
       /\ \A m \in E : e[m] \in Nat /\ f[m] = -e[m]
  <2>1. ASSUME NEW m \in D
        PROVE  f[m] \in Int /\ f[m] = SharesMoved(s, m).by /\ m \in VenueMoves
    BY <1>9
  <2>2. ASSUME NEW m \in D \ E
        PROVE  f[m] = 0
    <3>1. ~(venueJournal[m].kind = "VENUE_FILL" /\ venueOrders[venueJournal[m].order].symbol = s)
      BY <1>8
    <3>2. SharesMoved(s, m).by = 0
      BY <3>1 DEF SharesMoved
    <3> QED
      BY <2>1, <3>2
  <2>3. ASSUME NEW m \in E
        PROVE  e[m] \in Nat /\ f[m] = -e[m]
    <3>1. m \in VenueMoves /\ m \in D /\ venueJournal[m].kind = "VENUE_FILL" /\ venueJournal[m].order = o
      OBVIOUS
    <3>2. venueJournal[m].quantity \in Nat
      BY <3>1, MoveFields
    <3>3. SharesMoved(s, m).by = -venueJournal[m].quantity
      BY <1>2, <3>1 DEF SharesMoved
    <3>4. e[m] = venueJournal[m].quantity
      OBVIOUS
    <3> HIDE DEF e, f, E, D
    <3> QED
      BY <2>1, <3>1, <3>2, <3>3, <3>4
  <2> HIDE DEF e, f, E, D
  <2> QED
    BY <2>1, <2>2, <2>3
<1>16. SharesOf(E) = SumFunctionOnSet(e, E)
  BY DEF SharesOf
<1>17. /\ SharesOf(E) \in Nat /\ SharesOf(E) <= venueOrders[o].filled
       /\ venueOrders[o].filled \in Nat /\ venueOrders[o].quantity \in Nat
       /\ venueOrders[o].filled <= venueOrders[o].quantity
  <2> HIDE DEF E
  <2> QED
    BY <1>1, <1>2, <1>13, SharesExecuted
<1> HIDE DEF D, E, e, f, X, Y, F
<1>18. SumFunctionOnSet(f, D) = SumFunctionOnSet(f, E) + SumFunctionOnSet(f, D \ E)
  BY <1>13, <1>15, SumSplit
<1>19. SumFunctionOnSet(f, E) = -SumFunctionOnSet(e, E) /\ SumFunctionOnSet(f, E) \in Int
  <2>1. IsFiniteSet(E) /\ E \subseteq D
    BY <1>13, FS_Subset
  <2>2. \A m \in E : e[m] \in Int /\ f[m] \in Int /\ f[m] * 1 = e[m] * (-1)
    BY <1>15, <2>1
  <2>3. SumFunctionOnSet(f, E) * 1 = SumFunctionOnSet(e, E) * (-1)
    BY <2>1, <2>2, SumScaled
  <2>4. SumFunctionOnSet(f, E) \in Int /\ SumFunctionOnSet(e, E) \in Int
    BY <2>1, <2>2, SumInt
  <2> QED
    BY <2>3, <2>4
<1>20. SumFunctionOnSet(f, D \ E) \in Nat
  <2>1. D \ E \in SUBSET D /\ \A m \in D \ E : f[m] \in Nat
    BY <1>15
  <2>2. IsFiniteSet(D \ E)
    BY <1>13, <2>1, FS_Subset
  <2> QED
    BY <2>1, <2>2, SumNat
<1> DEFINE total == SumFunctionOnSet(f, D)
           own == SumFunctionOnSet(e, E)
           rest == SumFunctionOnSet(f, D \ E)
           held == L[i].positions[s]
           left == G[k].positions[s]
<1>21. /\ left = held + total /\ total = -own + rest /\ rest \in Nat
       /\ own \in Nat /\ own <= venueOrders[o].filled
       /\ venueOrders[o].filled <= venueOrders[o].quantity /\ venueOrders[o].quantity <= held /\ held \in Int
  BY <1>2, <1>7, <1>11, <1>12, <1>14, <1>16, <1>17, <1>18, <1>19, <1>20
<1> HIDE DEF total, own, rest, held, left
<1>22. left \in Nat
  BY <1>17, <1>21
<1> QED
  BY <1>22 DEF left

\* The venue never sells what the account does not have, as long as the caller sends the
\* same entitlements to both sides (paper_venue.py:139, 181).
THEOREM VenueNeverShortHolds == BridgeSpec => []VenueNeverShort
<1>1. ASSUME BridgeInv, LedgersInv
      PROVE  VenueNeverShort
  <2> SUFFICES ASSUME SameEntitlements PROVE ~venueLedger.short
    BY DEF VenueNeverShort
  <2>1. Paired
    BY <1>1, MovesPair
  <2>2. PICK G : V!History(G)
    BY <1>1 DEF LedgersInv, VenueLedger, V!ReplayInv, V!LedgerIsReplay
  <2>7. \A j \in VenueMoves :
          venueJournal[j].kind = "VENUE_FILL" /\ venueOrders[venueJournal[j].order].side # "BUY" =>
            G[j].positions[venueOrders[venueJournal[j].order].symbol] \in Nat
    BY <1>1, <2>1, <2>2, SellFindsShares
  <2> DEFINE p == Len(venueJournal)
             Fit == {k \in 0..p : ~G[k].short}
  <2>3. p \in Nat /\ DOMAIN venueJournal = 1..p
    BY <1>1, Places
  <2>4. 0 \in Fit
    BY <2>2, <2>3 DEF V!History
  <2>5. ASSUME NEW k \in 0 .. p-1, k \in Fit
        PROVE  k + 1 \in Fit
    <3> DEFINE h == k + 1
               l == G[k]
               m == G[h]
               e == venueJournal[h]
    <3>1. h \in 1..p /\ h - 1 = k /\ h \in 0..p
      BY <2>3
    <3>2. V!Carries(l, e, m) /\ ~l.short
      BY <2>2, <2>5, <3>1 DEF V!History
    <3>3. CASE e.kind = "VENUE_FILL" /\ venueOrders[e.order].side # "BUY"
      <4>1. h \in VenueMoves
        BY <2>3, <3>1, <3>3 DEF VenueMoves
      <4> DEFINE s == venueOrders[e.order].symbol
      <4>2. m.positions[s] \in Nat /\ s \in Symbols
        <5>1. s \in Symbols
          BY <1>1, <3>3, <4>1, MoveFields
        <5>2. G[h].positions[s] \in Nat
          BY <2>7, <3>3, <4>1
        <5> QED
          BY <5>1, <5>2
      <4>3. m.positions[s] \in Int
        BY <2>2, <3>1, <4>2 DEF V!History, V!Ledger
      <4>4. m.short => l.short \/ m.positions[s] < 0
        BY <3>2, <3>3 DEF V!Carries
      <4> HIDE DEF m, l
      <4>5. ~m.short
        BY <3>2, <4>2, <4>3, <4>4
      <4> QED
        BY <3>1, <4>5 DEF m
    <3>4. CASE ~(e.kind = "VENUE_FILL" /\ venueOrders[e.order].side # "BUY")
      <4>1. m.short = l.short
        <5>1. CASE e.kind = "VENUE_FILL" /\ venueOrders[e.order].side = "BUY"
          BY <3>2, <5>1 DEF V!Carries
        <5>2. CASE e.kind = "VENUE_ACTION"
          BY <3>2, <5>2 DEF V!Carries
        <5>3. CASE e.kind \notin {"VENUE_FILL", "VENUE_ACTION"}
          BY <3>2, <5>3 DEF V!Carries
        <5> QED
          BY <3>4, <5>1, <5>2, <5>3
      <4> QED
        BY <3>1, <3>2, <4>1
    <3> QED
      BY <3>3, <3>4
  <2>6. \A k \in 0..p : k \in Fit
    <3> HIDE DEF Fit, p
    <3> QED
      BY <2>3, <2>4, <2>5, PrefixInduction
  <2>8. p \in 0..p /\ G[p] = venueLedger
    BY <2>2, <2>3 DEF V!History
  <2> QED
    BY <2>6, <2>8
<1> QED
  BY <1>1, LedgersAreTold, PTL

-----------------------------------------------------------------------------
(* The executor of intents: what is always true of it. *)

\* The stored bars, and the evaluations made of them.
Streamed ==
  /\ bars \subseteq BarTimes
  /\ DOMAIN evaluated \subseteq bars
  /\ PrefixIsStable

\* What the call in progress found and has not written yet.
Certain(e) ==
  /\ e.intent \in Intents
  /\ e.intent.id \notin DOMAIN acks
  /\ e.step \in Dispositions \cup {"SUBMIT", "REFUSED"}
  /\ e.step = "SUBMIT" => e.request.order_id = e.intent.id
  /\ e.intent.side = "LONG" /\ e.step = "SUBMIT" => ~WasRefused(e.intent)
  /\ e.intent.side = "LONG" /\ e.step # "ORDERED" => ~HasOrder(e.intent)

\* There is one call at a time.
OneCall == \A e \in call : call = {e} /\ Certain(e)

\* EntryHasOneChance of every intent the strategy may give.
OneChance ==
  \A i \in Intents :
    (i.side = "LONG" /\ i.id \in DOMAIN orders) =>
       /\ ~WasRefused(i)
       /\ i.id \in DOMAIN acks => acks[i.id].disposition = "ORDERED"

IntentInv == Streamed /\ OneCall /\ OneChance

-----------------------------------------------------------------------------
(* The executor of intents: its stream of bars. *)

\* Bars are ordered by time.
LEMMA BarOrder == BarTimes \subseteq Nat
BY IntentAssumption, TimesAssumption

\* An intent is one the strategy may give.
LEMMA SignalsAreIntents ==
  ASSUME bars \subseteq BarTimes, NEW t
  PROVE  SignalsAt(t) \subseteq Intents
<1>1. {b \in bars : b <= t} \in SUBSET BarTimes
  OBVIOUS
<1>2. Emits[{b \in bars : b <= t}] \subseteq Intents
  BY <1>1, IntentAssumption
<1> QED
  BY <1>2 DEF SignalsAt

\* So is a stored one.
LEMMA KnownAreIntents == Streamed => Known \subseteq Intents
<1> SUFFICES ASSUME Streamed, NEW t \in DOMAIN evaluated PROVE evaluated[t] \subseteq Intents
  BY DEF Known
<1> QED
  BY SignalsAreIntents DEF Streamed, PrefixIsStable

\* A bar that is taken leaves the prefixes of the earlier ones alone.
LEMMA StoreKeeps ==
  ASSUME Streamed, NEW t \in BarTimes, StoreBar(t)
  PROVE  Streamed'
<1>1. bars' = bars \cup {t} /\ evaluated' = evaluated /\ \A b \in bars : b < t
  BY DEF StoreBar, InOrder
<1>2. ASSUME NEW u \in DOMAIN evaluated PROVE SignalsAt(u)' = SignalsAt(u)
  <2>1. u \in Nat /\ t \in Nat /\ u < t
    BY <1>1, <1>2, BarOrder DEF Streamed
  <2>2. {b \in bars' : b <= u} = {b \in bars : b <= u}
    BY <1>1, <2>1
  <2> QED
    BY <2>2 DEF SignalsAt
<1> QED
  BY <1>1, <1>2 DEF Streamed, PrefixIsStable

\* An evaluation stores the signals of the present prefix.
LEMMA EvaluateKeeps ==
  ASSUME Streamed, NEW t \in BarTimes, EvaluateBar(t)
  PROVE  Streamed'
<1>1. /\ bars' = bars /\ t \in bars
      /\ evaluated' = [b \in DOMAIN evaluated \cup {t} |->
                         IF b = t THEN SignalsAt(t) ELSE evaluated[b]]
  BY DEF EvaluateBar
<1>2. \A u : SignalsAt(u)' = SignalsAt(u)
  BY <1>1 DEF SignalsAt
<1> QED
  BY <1>1, <1>2 DEF Streamed, PrefixIsStable

\* The stream does not look at anything else.
LEMMA StreamUntouched == Streamed /\ UNCHANGED <<bars, evaluated>> => Streamed'
BY DEF Streamed, PrefixIsStable, SignalsAt

-----------------------------------------------------------------------------
(* The executor of intents: what others do to its orders. *)

\* Nobody else orders under the identity of an intent.
LEMMA OthersOrders ==
  ASSUME Next, NEW i \in Intents, i.id \in DOMAIN orders'
  PROVE  i.id \in DOMAIN orders
<1>1. CASE UNCHANGED orders
  BY <1>1
<1>2. ASSUME NEW r \in Requests, NEW when, Submit(r, when)
      PROVE  i.id \in DOMAIN orders
  <2>1. DOMAIN orders' = DOMAIN orders \cup {r.order_id}
    BY <1>2 DEF Submit
  <2> QED
    BY <2>1, IntentAssumption
<1>3. CASE DOMAIN orders' = DOMAIN orders
  BY <1>3
<1>4. ASSUME NEW when, Trade(when) PROVE i.id \in DOMAIN orders
  <2>1. ASSUME NEW f, NEW o, NEW q, NEW price, NEW fee, Fill(f, o, q, price, fee, when)
        PROVE  DOMAIN orders' = DOMAIN orders
    BY <2>1 DEF Fill, ApplyFill
  <2>2. ASSUME NEW kind, NEW status, NEW o, CancelWith(kind, status, o, when)
        PROVE  DOMAIN orders' = DOMAIN orders
    BY <2>2 DEF CancelWith, SetStatus
  <2>3. ASSUME NEW o, NEW reason, Reject(o, reason, when)
        PROVE  DOMAIN orders' = DOMAIN orders
    BY <2>3 DEF Reject, SetStatus
  <2>4. ASSUME NEW id, NEW a, CorporateAction(id, a, when)
        PROVE  DOMAIN orders' = DOMAIN orders
    BY <2>4 DEF CorporateAction
  <2> QED
    BY <1>2, <1>3, <1>4, <2>1, <2>2, <2>3, <2>4 DEF Trade, RequestCancel, ConfirmCancel
<1>5. ASSUME NEW when, Control(when) PROVE UNCHANGED orders
  BY <1>5 DEF Control, Halt, Monitor, Reconcile, Resume, ledger
<1>6. ASSUME NEW q, Quote(q) PROVE UNCHANGED orders
  BY <1>6 DEF Quote
<1> QED
  BY <1>1, <1>4, <1>5, <1>6 DEF Next

-----------------------------------------------------------------------------
(* The executor of intents: the steps of a call. *)

\* What the reads of a call decide is what they found.
LEMMA DecisionCertain ==
  ASSUME NEW i \in Intents, i.id \notin DOMAIN acks, NEW c, NEW when
  PROVE  Certain(Decision(i, c, when))
<1> DEFINE price == LimitPrice(i, c, Facts[i.symbol][when].tick_size)
           request(q) == [order_id |-> i.id, symbol |-> i.symbol,
                          side |-> IF i.side = "LONG" THEN "BUY" ELSE "SELL",
                          quantity |-> q, limit_price |-> price,
                          stop_price |-> Raw(i.invalidation, c),
                          fee_budget |-> c.fee_budget, signal_at |-> i.timestamp]
           submit(q) == [intent |-> i, when |-> when, step |-> "SUBMIT", request |-> request(q)]
           next(s) == [intent |-> i, when |-> when, step |-> s]
           spent == IF i.side = "LONG" THEN Spent(i, c, when) ELSE {}
<1>1. spent \subseteq {"FILTERED", "EXPIRED"}
  BY DEF Spent
<1>2. i.side = "LONG" /\ spent = {} => ~WasRefused(i)
  BY DEF Spent
<1>3. spent # {} => (CHOOSE d \in spent : TRUE) \in spent
  OBVIOUS
<1> DEFINE e == Decision(i, c, when)
<1> SUFFICES Certain(e)
  OBVIOUS
<1>4. \/ HasOrder(i) /\ e = next("ORDERED")
      \/ /\ ~HasOrder(i)
         /\ \/ spent # {} /\ e = next(CHOOSE d \in spent : TRUE)
            \/ e \in {next("REFUSED"), next("RISK_EXIT_OBSERVED")}
            \/ spent = {} /\ \E q : e = submit(q)
  BY ZenonT(60) DEF Decision
<1> HIDE DEF e, spent, price
<1>5. ASSUME NEW s \in Dispositions \cup {"REFUSED"}, e = next(s), s = "ORDERED" \/ ~HasOrder(i)
      PROVE  Certain(e)
  <2>1. e.intent = i /\ e.step = s /\ s # "SUBMIT"
    BY <1>5 DEF Dispositions
  <2> QED
    BY <1>5, <2>1 DEF Certain
<1>6. ASSUME NEW q, e = submit(q), ~HasOrder(i), spent = {}
      PROVE  Certain(e)
  <2>1. e.intent = i /\ e.step = "SUBMIT" /\ e.request.order_id = i.id
    BY <1>6
  <2> QED
    BY <1>2, <1>6, <2>1 DEF Certain
<1>7. CASE HasOrder(i) /\ e = next("ORDERED")
  <2>1. "ORDERED" \in Dispositions \cup {"REFUSED"}
    BY DEF Dispositions
  <2> QED
    BY <1>5, <1>7, <2>1
<1>8. CASE ~HasOrder(i) /\ spent # {} /\ e = next(CHOOSE d \in spent : TRUE)
  <2>1. (CHOOSE d \in spent : TRUE) \in Dispositions \cup {"REFUSED"}
    BY <1>1, <1>3, <1>8 DEF Dispositions
  <2> QED
    BY <1>5, <1>8, <2>1
<1>9. CASE ~HasOrder(i) /\ e \in {next("REFUSED"), next("RISK_EXIT_OBSERVED")}
  <2>1. \A s \in {"REFUSED", "RISK_EXIT_OBSERVED"} : s \in Dispositions \cup {"REFUSED"}
    BY DEF Dispositions
  <2>2. e = next("REFUSED") \/ e = next("RISK_EXIT_OBSERVED")
    BY <1>9
  <2> QED
    BY <1>5, <1>9, <2>1, <2>2
<1> QED
  BY <1>4, <1>6, <1>7, <1>8, <1>9

\* The call in progress is the only one.
LEMMA TheCall ==
  ASSUME OneCall, NEW e \in call
  PROVE  call = {e} /\ Certain(e)
BY DEF OneCall

\* A call that writes nothing of its own is as certain as before.
LEMMA CallUntouched ==
  ASSUME OneCall, UNCHANGED <<refusals, acks, call>>,
         \A i \in Intents : i.id \in DOMAIN orders' => i.id \in DOMAIN orders
  PROVE  OneCall'
BY DEF OneCall, Certain, WasRefused, HasOrder

\* Nor does it change what is known of the intents.
LEMMA ChanceUntouched ==
  ASSUME OneChance, UNCHANGED <<refusals, acks>>,
         \A i \in Intents : i.id \in DOMAIN orders' => i.id \in DOMAIN orders
  PROVE  OneChance'
BY DEF OneChance, WasRefused

\* The next step of a call: s is what remains to be written.
LEMMA CallAdvances ==
  ASSUME NEW e, Certain(e), NEW s \in Dispositions \cup {"REFUSED"}, Advance(e, s),
         UNCHANGED acks,
         s = "ORDERED" \/ e.intent.id \notin DOMAIN orders'
  PROVE  OneCall'
<1> DEFINE n == [intent |-> e.intent, when |-> e.when, step |-> s]
<1>1. call' = {n}
  BY DEF Advance
<1>2. n.intent = e.intent /\ n.step = s /\ s # "SUBMIT"
  BY DEF Dispositions
<1> HIDE DEF n
<1>3. Certain(n)'
  BY <1>2 DEF Certain, HasOrder
<1> QED
  BY <1>1, <1>3 DEF OneCall

\* A call starts from a pending intent.
LEMMA ExecuteKeeps ==
  ASSUME IntentInv, NEW i \in Intents, NEW c, NEW when, Execute(i, c, when)
  PROVE  IntentInv'
<1>0. PICK e : e = Decision(i, c, when)
  OBVIOUS
<1>1. /\ call' = {e} /\ i \in PendingIntents
      /\ UNCHANGED <<orders, bars, evaluated, refusals, acks>>
  BY <1>0 DEF Execute, vars
<1>2. Certain(e)
  BY <1>0, <1>1, DecisionCertain DEF PendingIntents
<1>3. Certain(e)'
  BY <1>1, <1>2 DEF Certain, WasRefused, HasOrder
<1>4. OneCall'
  BY <1>1, <1>3 DEF OneCall
<1> QED
  BY <1>1, <1>4, StreamUntouched, ChanceUntouched DEF IntentInv

\* The order of an entry that was never refused, or no order at all.
LEMMA SubmitOrderKeeps ==
  ASSUME IntentInv, SubmitOrder
  PROVE  IntentInv'
<1>1. PICK e \in call :
        /\ e.step = "SUBMIT"
        /\ \/ Submit(e.request, e.when) /\ Advance(e, "ORDERED")
           \/ Advance(e, "REFUSED") /\ UNCHANGED vars
        /\ UNCHANGED <<bars, evaluated, refusals, acks>>
  BY Zenon DEF SubmitOrder
<1>2. Certain(e)
  BY <1>1, TheCall DEF IntentInv
<1>3. CASE Submit(e.request, e.when) /\ Advance(e, "ORDERED")
  <2>1. DOMAIN orders' = DOMAIN orders \cup {e.intent.id}
    <3>1. DOMAIN orders' = DOMAIN orders \cup {e.request.order_id}
      BY <1>3 DEF Submit
    <3> QED
      BY <1>1, <1>2, <3>1 DEF Certain
  <2>2. OneCall'
    <3>1. "ORDERED" \in Dispositions \cup {"REFUSED"}
      BY DEF Dispositions
    <3> QED
      BY <1>1, <1>2, <1>3, <3>1, CallAdvances
  <2>3. ASSUME NEW k \in Intents, k.side = "LONG", k.id = e.intent.id
        PROVE  ~WasRefused(k) /\ k.id \notin DOMAIN acks
    <3>1. k = e.intent
      BY <1>2, <2>3, IntentAssumption DEF Certain
    <3> QED
      BY <1>1, <1>2, <2>3, <3>1 DEF Certain
  <2>4. OneChance'
    BY <1>1, <2>1, <2>3 DEF OneChance, WasRefused, IntentInv
  <2> QED
    BY <1>1, <2>2, <2>4, StreamUntouched DEF IntentInv
<1>4. CASE Advance(e, "REFUSED") /\ UNCHANGED vars
  <2>1. UNCHANGED orders
    BY <1>4 DEF vars
  <2>2. CASE e.intent.side = "LONG"
    <3>1. e.intent.id \notin DOMAIN orders'
      BY <1>1, <1>2, <2>1, <2>2 DEF Certain, HasOrder
    <3>2. OneCall'
      BY <1>1, <1>2, <1>4, <3>1, CallAdvances
    <3> QED
      BY <1>1, <2>1, <3>2, StreamUntouched, ChanceUntouched DEF IntentInv
  <2>3. CASE e.intent.side # "LONG"
    <3>1. OneCall'
      BY <1>1, <1>2, <1>4, <2>3 DEF OneCall, Certain, Advance, Dispositions
    <3> QED
      BY <1>1, <2>1, <3>1, StreamUntouched, ChanceUntouched DEF IntentInv
  <2> QED
    BY <2>2, <2>3
<1> QED
  BY <1>1, <1>3, <1>4

\* A refusal is recorded for an intent that has no order.
LEMMA RefusalKeeps ==
  ASSUME IntentInv, RecordRefusal
  PROVE  IntentInv'
<1>1. PICK e \in call :
        /\ e.step = "REFUSED"
        /\ refusals' = refusals \cup {[intent |-> e.intent.id, time |-> e.when]}
        /\ IF e.intent.side = "LONG" THEN Advance(e, "FILTERED") ELSE call' = {}
        /\ UNCHANGED <<vars, bars, evaluated, acks>>
  BY DEF RecordRefusal
<1>2. Certain(e)
  BY <1>1, TheCall DEF IntentInv
<1>3. UNCHANGED orders
  BY <1>1 DEF vars
<1>4. OneCall'
  <2>1. CASE e.intent.side = "LONG"
    <3>1. "FILTERED" \in Dispositions \cup {"REFUSED"}
      BY DEF Dispositions
    <3>2. e.intent.id \notin DOMAIN orders'
      BY <1>1, <1>2, <1>3, <2>1 DEF Certain, HasOrder
    <3> QED
      BY <1>1, <1>2, <2>1, <3>1, <3>2, CallAdvances
  <2>2. CASE e.intent.side # "LONG"
    BY <1>1, <2>2 DEF OneCall
  <2> QED
    BY <2>1, <2>2
<1>5. ASSUME NEW k \in Intents, k.side = "LONG", k.id = e.intent.id
      PROVE  k.id \notin DOMAIN orders
  <2>1. k = e.intent
    BY <1>2, <1>5, IntentAssumption DEF Certain
  <2> QED
    BY <1>1, <1>2, <1>5, <2>1 DEF Certain, HasOrder
<1>6. OneChance'
  <2> SUFFICES ASSUME NEW k \in Intents, k.side = "LONG", k.id \in DOMAIN orders
               PROVE  /\ ~WasRefused(k)'
                      /\ k.id \in DOMAIN acks => acks[k.id].disposition = "ORDERED"
    BY <1>1, <1>3 DEF OneChance
  <2>1. k.id # e.intent.id
    BY <1>5
  <2> DEFINE r == [intent |-> e.intent.id, time |-> e.when]
  <2>2. refusals' = refusals \cup {r} /\ r.intent = e.intent.id
    BY <1>1
  <2> HIDE DEF r
  <2>3. ~WasRefused(k)'
    BY <2>1, <2>2 DEF IntentInv, OneChance, WasRefused
  <2> QED
    BY <2>3 DEF IntentInv, OneChance
<1> QED
  BY <1>1, <1>4, <1>6, StreamUntouched DEF IntentInv

\* An acknowledgement says what the call knows.
LEMMA AcknowledgeKeeps ==
  ASSUME IntentInv, Acknowledge
  PROVE  IntentInv'
<1>1. PICK e \in call :
        /\ e.step \in Dispositions
        /\ \/ acks' = [a \in DOMAIN acks \cup {e.intent.id} |->
                         IF a = e.intent.id THEN [disposition |-> e.step, time |-> e.when]
                         ELSE acks[a]]
           \/ UNCHANGED acks
        /\ call' = {}
        /\ UNCHANGED <<vars, bars, evaluated, refusals>>
  BY DEF Acknowledge
<1>2. Certain(e)
  BY <1>1, TheCall DEF IntentInv
<1>3. UNCHANGED orders
  BY <1>1 DEF vars
<1>4. OneCall'
  BY <1>1 DEF OneCall
<1>5. OneChance'
  <2>1. CASE UNCHANGED acks
    BY <1>1, <1>3, <2>1, ChanceUntouched DEF IntentInv
  <2>2. CASE acks' = [a \in DOMAIN acks \cup {e.intent.id} |->
                        IF a = e.intent.id THEN [disposition |-> e.step, time |-> e.when]
                        ELSE acks[a]]
    <3> SUFFICES ASSUME NEW k \in Intents, k.side = "LONG", k.id \in DOMAIN orders,
                        k.id \in DOMAIN acks'
                 PROVE  acks'[k.id].disposition = "ORDERED"
      BY <1>1, <1>3 DEF OneChance, IntentInv, WasRefused
    <3>1. CASE k.id = e.intent.id
      <4>1. k = e.intent
        BY <1>2, <3>1, IntentAssumption DEF Certain
      <4>2. e.step = "ORDERED"
        BY <1>2, <4>1 DEF Certain, HasOrder
      <4> QED
        BY <2>2, <3>1, <4>2
    <3>2. CASE k.id # e.intent.id
      BY <2>2, <3>2 DEF OneChance, IntentInv
    <3> QED
      BY <3>1, <3>2
  <2> QED
    BY <1>1, <2>1, <2>2
<1> QED
  BY <1>1, <1>4, <1>5, StreamUntouched DEF IntentInv

-----------------------------------------------------------------------------
(* The executor of intents: the theorems. *)

\* It holds at first.
LEMMA IntentInitKeeps == IntentInit => IntentInv
BY DEF IntentInit, IntentInv, Streamed, PrefixIsStable, OneCall, OneChance, WasRefused, Init

\* Every step keeps it.
LEMMA IntentNextKeeps == IntentInv /\ [IntentNext]_allVars => IntentInv'
<1> SUFFICES ASSUME IntentInv, [IntentNext]_allVars PROVE IntentInv'
  OBVIOUS
<1>1. ASSUME NEW t \in BarTimes, StoreBar(t) \/ EvaluateBar(t) PROVE IntentInv'
  <2>1. UNCHANGED <<orders, refusals, acks, call>>
    BY <1>1 DEF StoreBar, EvaluateBar, vars
  <2>2. Streamed'
    BY <1>1, StoreKeeps, EvaluateKeeps DEF IntentInv
  <2> QED
    BY <2>1, <2>2, CallUntouched, ChanceUntouched DEF IntentInv
<1>2. ASSUME NEW i \in Intents, Opened(i) PROVE IntentInv'
  BY <1>2, ExecuteKeeps DEF Opened
<1>3. CASE Finish
  BY <1>3, SubmitOrderKeeps, RefusalKeeps, AcknowledgeKeeps DEF Finish
<1>4. CASE Crash
  <2>1. call' = {} /\ UNCHANGED <<orders, bars, evaluated, refusals, acks>>
    BY <1>4 DEF Crash, vars
  <2>2. OneCall'
    BY <2>1 DEF OneCall
  <2> QED
    BY <2>1, <2>2, StreamUntouched, ChanceUntouched DEF IntentInv
<1>5. CASE Others
  <2>1. Next /\ UNCHANGED <<bars, evaluated, refusals, acks, call>>
    BY <1>5 DEF Others, intentVars
  <2> QED
    BY <2>1, OthersOrders, StreamUntouched, CallUntouched, ChanceUntouched DEF IntentInv
<1>6. CASE UNCHANGED allVars
  <2>1. UNCHANGED <<orders, bars, evaluated, refusals, acks, call>>
    BY <1>6 DEF allVars, vars, intentVars
  <2> QED
    BY <2>1, StreamUntouched, CallUntouched, ChanceUntouched DEF IntentInv
<1> QED
  BY <1>1, <1>2, <1>3, <1>4, <1>5, <1>6, Zenon DEF IntentNext, Stream

\* What the call in progress knows of the journal stays true until it writes.
THEOREM IntentInvariant == IntentSpec => []IntentInv
<1>1. IntentInit => IntentInv
  BY IntentInitKeeps
<1>2. IntentInv /\ [IntentNext]_allVars => IntentInv'
  BY IntentNextKeeps
<1> QED
  BY <1>1, <1>2, PTL DEF IntentSpec

\* A redelivered bar is evaluated on the prefix it was first evaluated on.
THEOREM RedeliveryRepeats == IntentSpec => []PrefixIsStable
<1>1. IntentInv => PrefixIsStable
  BY DEF IntentInv, Streamed
<1> QED
  BY <1>1, IntentInvariant, PTL

\* An entry that was refused, filtered or expired never has an order.
THEOREM EntryOnce == IntentSpec => []EntryHasOneChance
<1>1. IntentInv => EntryHasOneChance
  BY KnownAreIntents DEF IntentInv, OneChance, EntryHasOneChance
<1> QED
  BY <1>1, IntentInvariant, PTL

=============================================================================
