---------------------------- MODULE OrderService ----------------------------
(***************************************************************************)
(* The durable order management service of the paper account: class        *)
(* OrderService and the journal projection of order_service.py, on top of  *)
(* the append-only EventStore.                                             *)
(*                                                                         *)
(* Every public mutator runs load -> validate -> append inside one         *)
(* BEGIN IMMEDIATE transaction, so an operation is one atomic step; a      *)
(* refused operation rolls back and is a stutter.  The account is never    *)
(* stored: the code folds the journal again for every call.  The model     *)
(* keeps the running fold (cash, orders, positions, quotes, lots, halted,  *)
(* reconciled) beside the journal: an operation appends its event and      *)
(* applies the branch of project() for that event.                         *)
(*                                                                         *)
(* Abstractions.  Times are positions on a finite axis, SessionOf gives    *)
(* the Shanghai calendar date of each.  Money is an integer number of      *)
(* fen.  An event whose identity nobody reads back (QUOTE, RESUMED, an     *)
(* operator's HALT) carries a fresh identity, so the retry branch of its   *)
(* operation, which changes nothing, needs no action.                      *)
(***************************************************************************)
EXTENDS Integers, Sequences, FiniteSets, FiniteSetsExt

CONSTANTS
  Symbols,      \* securities
  OrderIds,     \* caller-chosen order identities
  FillIds,      \* identities of venue fill reports
  ActionIds,    \* identities of corporate actions
  ReportIds,    \* identities an incident HALT may be keyed by
  NoReport,     \* the key of a HALT that belongs to no venue report
  Requests,     \* the order requests callers may submit
  Quotes,       \* [symbol, price, time]: the raw quotes callers publish, in fen
  Prices,       \* fill prices, in fen
  Fees,         \* fill fees, in fen
  Reasons,      \* who gives the reason of a rejection
  Entitlements, \* [symbol, num, den, net]: share ratio num/den and net cash
  Times,        \* instants, a finite set of naturals
  SessionOf,    \* trading date of an instant
  Facts,        \* point-in-time security master: [Symbols -> [Times -> fact]]
  NoFact,       \* the master knows nothing about the symbol at that instant
  Capital,      \* opening cash
  Limits,       \* PortfolioLimits, weights in percent
  MaxEvents,    \* bound: journal length up to which callers ask for more
  MaxControl,   \* bound: same for the HALT, RECONCILIATION and RESUMED events in it
  MaxObserved   \* bound: number of distinct HEALTH observations

ASSUME TimesAssumption   == Times \subseteq Nat
ASSUME RequestAssumption ==
  \A r \in Requests :
     /\ r.order_id \in OrderIds /\ r.symbol \in Symbols
     /\ r.side \in {"BUY", "SELL"}
     /\ r.quantity \in Nat \ {0} /\ r.limit_price \in Nat \ {0}
     /\ r.stop_price \in Nat \ {0} /\ r.fee_budget \in Nat /\ r.signal_at \in Nat
ASSUME MoneyAssumption   ==
  /\ Prices \subseteq Nat \ {0} /\ Fees \subseteq Nat /\ Capital \in Nat \ {0}
  /\ Quotes \subseteq [symbol : Symbols, price : Nat \ {0}, time : Times]
FactRecord == [tradable : BOOLEAN, st : BOOLEAN, buy_lot : Nat \ {0}, tick_size : Nat \ {0},
               sector : STRING, settlement_days : Nat]
ASSUME FactAssumption    == Facts \in [Symbols -> [Times -> FactRecord \cup {NoFact}]]
ASSUME SessionAssumption ==
  /\ SessionOf \in [Times -> Nat]
  /\ \A t, u \in Times : t <= u => SessionOf[t] <= SessionOf[u]
ASSUME BoundAssumption   == MaxEvents \in Nat /\ MaxControl \in Nat /\ MaxObserved \in Nat
ASSUME EntitlementAssumption ==
  \A a \in Entitlements : /\ a.symbol \in Symbols /\ a.net \in Nat
                          /\ a.num \in Nat \ {0} /\ a.den \in Nat \ {0}

VARIABLES
  journal,     \* the events of the store that later operations read, in seq order
  observed,    \* HEALTH events with an equity, read back for the high-watermark
  cash,
  orders,      \* order id -> order, as the projection's dict
  positions,
  quotes,
  lots,        \* purchase lots in booking order
  halted,
  reconciled

ledger == <<cash, orders, positions, lots>>
vars   == <<journal, observed, cash, orders, positions, quotes, lots, halted, reconciled>>

ACTIVE == {"ACCEPTED", "PARTIAL", "CANCEL_PENDING"}

\* The kinds _financial_time compares against: every journalled kind but QUOTE and HEALTH.
FinancialKinds == {"ACCOUNT_OPENED", "ORDER_ACCEPTED", "FILL", "ORDER_CANCEL_REQUESTED",
                   "ORDER_CANCELED", "ORDER_REJECTED", "CORPORATE_ACTION", "HALT",
                   "RESUMED", "RECONCILIATION"}

\* The kinds after which project() drops a reconciliation: the ledger moved.
LedgerKinds == {"ORDER_ACCEPTED", "ORDER_CANCEL_REQUESTED", "ORDER_CANCELED",
                "ORDER_REJECTED", "FILL", "CORPORATE_ACTION"}

NoQuote == [price |-> 0, time |-> 0]

-----------------------------------------------------------------------------
(* The event store. *)

Has(kind, id) == \E i \in DOMAIN journal : journal[i].kind = kind /\ journal[i].id = id

\* EventStore.append inside a transaction.
Record(e) == journal' = Append(journal, e)

\* Fault: only executions and accepted orders are compared.
FinancialTimeOfTrades(when) ==
  \A i \in DOMAIN journal :
     journal[i].kind \in {"ORDER_ACCEPTED", "FILL"} => journal[i].time <= when

\* _financial_time: no ledger mutation earlier than the latest financial event.
FinancialTime(when) ==
  \A i \in DOMAIN journal : journal[i].kind \in FinancialKinds => journal[i].time <= when

-----------------------------------------------------------------------------
(* Views of the account. *)

Held    == {s \in Symbols : positions[s] # 0}
Pending == {o \in DOMAIN orders : orders[o].status \in ACTIVE}

Unfilled(o) == orders[o].quantity - orders[o].filled

\* reserved_cash(state, exclude): unfilled amount and unused fee budget of the
\* active BUY orders.
ReservedCash(exclude) ==
  SumFunctionOnSet([o \in DOMAIN orders |->
                      orders[o].limit_price * Unfilled(o)
                      + Max({0, orders[o].fee_budget - orders[o].fees})],
                   {o \in Pending \ exclude : orders[o].side = "BUY"})

\* _marks succeeds: each symbol has a quote that is neither stale nor from the future.
Marked(symbols, when) ==
  \A s \in symbols : /\ quotes[s] # NoQuote
                     /\ when - quotes[s].time \in 0..Limits.max_quote_age

Equity == cash + SumFunctionOnSet([s \in Symbols |-> positions[s] * quotes[s].price], Held)

\* health: priced, not halted and the drawdown from the observed peak below the limit.
Peak(when) == Max({Capital, Equity} \cup {h.equity : h \in {x \in observed : x.time <= when}})
Healthy(when) ==
  /\ Marked(Held, when)
  /\ ~halted
  /\ (Peak(when) - Equity) * 100 < Limits.max_drawdown * Peak(when)

\* The lots a SELL may draw on: bought in an earlier session unless settled at once.
Settled(lot, s, when) ==
  lot.symbol = s /\ (lot.settlement_days = 0 \/ lot.session < SessionOf[when])

\* The shares in the lots with these indices.
SharesIn(indices) == SumFunctionOnSet([i \in DOMAIN lots |-> lots[i].quantity], indices)

Available(s, when) == SharesIn({i \in DOMAIN lots : Settled(lots[i], s, when)})

-----------------------------------------------------------------------------
(* submit *)

\* Exposure by symbol once the new order is in: holdings at the mark, the
\* unfilled part of pending BUY orders and the order itself at their limits.
Exposure(r) ==
  LET buying(s) == {o \in Pending : orders[o].side = "BUY" /\ orders[o].symbol = s}
  IN  [s \in Held \cup {r.symbol} \cup {x \in Symbols : buying(x) # {}} |->
         positions[s] * quotes[s].price
         + SumFunctionOnSet([o \in Pending |-> orders[o].limit_price * Unfilled(o)], buying(s))
         + IF s = r.symbol THEN r.limit_price * r.quantity ELSE 0]

\* Fault: the reservations of other orders are forgotten.
AllCash(exclude) == cash

\* The money no other pending BUY order has reserved.
Unreserved(exclude) == cash - ReservedCash(exclude)

EntryAllowed(r, when) ==
  LET fact == Facts[r.symbol][when]
      exp  == Exposure(r)
  IN  /\ ~halted
      /\ Healthy(when)
      /\ ~fact.st
      /\ r.quantity % fact.buy_lot = 0
      /\ r.stop_price < r.limit_price
      /\ Cardinality(DOMAIN exp) <= Limits.max_positions
      /\ exp[r.symbol] * 100 <= Equity * Limits.max_symbol_weight
      /\ SumFunction(exp) * 100 <= Equity * Limits.max_gross_weight
      /\ \A s \in DOMAIN exp : Facts[s][when] # NoFact
      /\ SumFunctionOnSet(exp, {s \in DOMAIN exp : Facts[s][when].sector = fact.sector}) * 100
            <= Equity * Limits.max_sector_weight
      /\ ((r.limit_price - r.stop_price) * r.quantity + r.fee_budget) * 100
            <= Equity * Limits.max_order_risk
      /\ r.limit_price * r.quantity + r.fee_budget <= Unreserved({})

\* Fault: T+1 is forgotten.
ExitOfAnyLot(r, when) ==
  r.quantity <= positions[r.symbol]

\* Fault: holdings are not looked at.
ExitUncovered(r, when) ==
  r.quantity % Facts[r.symbol][when].buy_lot = 0

ExitAllowed(r, when) ==
  /\ r.quantity <= Available(r.symbol, when)
  /\ \/ r.quantity % Facts[r.symbol][when].buy_lot = 0
     \/ r.quantity = positions[r.symbol]

OrderOf(r, when) ==
  [symbol |-> r.symbol, side |-> r.side, quantity |-> r.quantity,
   limit_price |-> r.limit_price, fee_budget |-> r.fee_budget, signal_at |-> r.signal_at,
   settlement_days |-> Facts[r.symbol][when].settlement_days,
   tick_size |-> Facts[r.symbol][when].tick_size,
   accepted_at |-> when, status |-> "ACCEPTED", filled |-> 0, fees |-> 0]

NoOutstanding(s) == \A o \in Pending : orders[o].symbol # s

Submit(r, when) ==
  LET s == r.symbol  fact == Facts[s][when]
  IN  /\ r.signal_at < when
      /\ ~Has("ORDER_ACCEPTED", r.order_id)
      /\ FinancialTime(when)
      /\ fact # NoFact
      /\ fact.tradable
      /\ r.limit_price % fact.tick_size = 0
      /\ NoOutstanding(s)
      /\ Marked(Held \cup {s} \cup {orders[o].symbol : o \in Pending}, when)
      /\ IF r.side = "BUY" THEN EntryAllowed(r, when) ELSE ExitAllowed(r, when)
      /\ Record([kind |-> "ORDER_ACCEPTED", id |-> r.order_id, time |-> when])
      /\ orders' = [o \in DOMAIN orders \cup {r.order_id} |->
                      IF o = r.order_id THEN OrderOf(r, when) ELSE orders[o]]
      /\ reconciled' = FALSE
      /\ UNCHANGED <<observed, cash, positions, quotes, lots, halted>>

-----------------------------------------------------------------------------
(* fill *)

FillAllowed(o, q, price, fee, when) ==
  /\ FinancialTime(when)
  /\ o \in Pending
  /\ orders[o].accepted_at <= when
  /\ \A i \in DOMAIN journal :
        journal[i].kind = "FILL" => (journal[i].order = o => journal[i].time <= when)
  /\ q <= Unfilled(o)
  /\ orders[o].fees + fee <= orders[o].fee_budget
  /\ IF orders[o].side = "BUY"
     THEN /\ price <= orders[o].limit_price
          /\ q * price + fee <= Unreserved({o})
     ELSE /\ price >= orders[o].limit_price
          /\ fee <= q * price + cash

\* Fault: a sale stops at the first lot it draws on.
SellOneLot(s, q, when) ==
  LET first == {i \in DOMAIN lots : /\ Settled(lots[i], s, when)
                                    /\ \A j \in 1..(i-1) : ~Settled(lots[j], s, when)}
  IN  [i \in DOMAIN lots |->
         IF i \in first THEN [lots[i] EXCEPT !.quantity = @ - Min({@, q})] ELSE lots[i]]

\* A sale eats the settled lots of the symbol oldest first.
SellLots(s, q, when) ==
  LET older(i) == {j \in 1..(i-1) : Settled(lots[j], s, when)}
      left(i)  == Max({0, q - SharesIn(older(i))})
  IN  [i \in DOMAIN lots |->
         IF Settled(lots[i], s, when)
         THEN [lots[i] EXCEPT !.quantity = @ - Min({@, left(i)})]
         ELSE lots[i]]

\* Fault: a pending cancellation hides that the order is complete.
StatusCancelFirst(o, total) ==
  IF orders[o].status = "CANCEL_PENDING" THEN "CANCEL_PENDING"
  ELSE IF total = orders[o].quantity THEN "FILLED" ELSE "PARTIAL"

StatusAfter(o, total) ==
  IF total = orders[o].quantity THEN "FILLED"
  ELSE IF orders[o].status = "CANCEL_PENDING" THEN "CANCEL_PENDING" ELSE "PARTIAL"

\* Fault: a sale is credited gross of its fee.
GrossFlow(o, q, price, fee) ==
  IF orders[o].side = "BUY" THEN -(q * price + fee) ELSE q * price

CashFlow(o, q, price, fee) ==
  IF orders[o].side = "BUY" THEN -(q * price + fee) ELSE q * price - fee

\* The order once a fill is booked on it.
Executed(o, q, fee) ==
  LET total == orders[o].filled + q
  IN  [orders[o] EXCEPT !.filled = total,
                        !.fees   = orders[o].fees + fee,
                        !.status = StatusAfter(o, total)]

\* The FILL branch of project().
ApplyFill(o, q, price, fee, when) ==
  LET s == orders[o].symbol
  IN  /\ orders' = [orders EXCEPT ![o] = Executed(o, q, fee)]
      /\ cash' = cash + CashFlow(o, q, price, fee)
      /\ IF orders[o].side = "BUY"
         THEN /\ lots' = Append(lots, [symbol |-> s, quantity |-> q,
                                       session |-> SessionOf[when],
                                       settlement_days |-> orders[o].settlement_days])
              /\ positions' = [positions EXCEPT ![s] = @ + q]
         ELSE /\ lots' = SellLots(s, q, when)
              /\ positions' = [positions EXCEPT ![s] = @ - q]
      /\ reconciled' = FALSE

Fill(f, o, q, price, fee, when) ==
  /\ ~Has("FILL", f)
  /\ FillAllowed(o, q, price, fee, when)
  /\ Record([kind |-> "FILL", id |-> f, order |-> o, time |-> when])
  /\ ApplyFill(o, q, price, fee, when)
  /\ UNCHANGED <<observed, quotes, halted>>

-----------------------------------------------------------------------------
(* cancel and reject *)

SetStatus(o, status) == orders' = [orders EXCEPT ![o] = [orders[o] EXCEPT !.status = status]]

\* The journalled events that carry the order's id.
ActivityOf(o) ==
  {i \in DOMAIN journal :
     /\ journal[i].kind \in LedgerKinds \ {"CORPORATE_ACTION"}
     /\ IF journal[i].kind = "FILL" THEN journal[i].order = o ELSE journal[i].id = o}

\* Fault: the order may be closed already.
CancelAnyOrder(o, when) ==
  FinancialTime(when) /\ \A i \in ActivityOf(o) : journal[i].time <= when

\* The request and the confirmation carry different identities, so each happens once.
CancelAllowed(o, when) ==
  /\ FinancialTime(when)
  /\ o \in Pending
  /\ \A i \in ActivityOf(o) : journal[i].time <= when

CancelWith(kind, status, o, when) ==
  /\ ~Has(kind, o)
  /\ CancelAllowed(o, when)
  /\ Record([kind |-> kind, id |-> o, time |-> when])
  /\ SetStatus(o, status)
  /\ reconciled' = FALSE
  /\ UNCHANGED <<observed, cash, positions, quotes, lots, halted>>

RequestCancel(o, when) == CancelWith("ORDER_CANCEL_REQUESTED", "CANCEL_PENDING", o, when)
ConfirmCancel(o, when) == CancelWith("ORDER_CANCELED", "CANCELED", o, when)

RejectAllowed(o, when) == FinancialTime(when) /\ o \in Pending

Reject(o, reason, when) ==
  /\ ~Has("ORDER_REJECTED", o)
  /\ RejectAllowed(o, when)
  /\ Record([kind |-> "ORDER_REJECTED", id |-> o, reason |-> reason, time |-> when])
  /\ SetStatus(o, "REJECTED")
  /\ reconciled' = FALSE
  /\ UNCHANGED <<observed, cash, positions, quotes, lots, halted>>

-----------------------------------------------------------------------------
(* quote, corporate_action *)

Quote(q) ==
  /\ quotes[q.symbol].time <= q.time
  /\ quotes' = [quotes EXCEPT ![q.symbol] = [price |-> q.price, time |-> q.time]]
  /\ UNCHANGED <<journal, observed, cash, orders, positions, lots, halted, reconciled>>

CorporateAction(id, a, when) ==
  LET scaled(q) == (q * a.num) \div a.den
  IN  /\ ~Has("CORPORATE_ACTION", id)
      /\ FinancialTime(when)
      /\ NoOutstanding(a.symbol)
      /\ \A i \in DOMAIN lots :
            lots[i].symbol = a.symbol => (lots[i].quantity * a.num) % a.den = 0
      /\ Record([kind |-> "CORPORATE_ACTION", id |-> id, action |-> a, time |-> when])
      /\ cash' = cash + a.net
      /\ lots' = [i \in DOMAIN lots |->
                    IF lots[i].symbol = a.symbol
                    THEN [lots[i] EXCEPT !.quantity = scaled(@)] ELSE lots[i]]
      /\ positions' = [positions EXCEPT ![a.symbol] = scaled(@)]
      /\ quotes' = [quotes EXCEPT ![a.symbol] = NoQuote]
      /\ reconciled' = FALSE
      /\ UNCHANGED <<observed, orders, halted>>

-----------------------------------------------------------------------------
(* halt, monitor, reconcile, resume *)

\* Fault: an earlier match survives the halt.
HaltKeepsMatch(report, when) ==
  /\ report = NoReport \/ ~Has("HALT", report)
  /\ Record([kind |-> "HALT", id |-> report, time |-> when])
  /\ halted' = TRUE
  /\ UNCHANGED <<observed, quotes, reconciled, ledger>>

\* halt is not subject to _financial_time.  An incident is keyed by its report:
\* a second halt for the same report appends nothing.
Halt(report, when) ==
  /\ report = NoReport \/ ~Has("HALT", report)
  /\ Record([kind |-> "HALT", id |-> report, time |-> when])
  /\ halted' = TRUE
  /\ reconciled' = FALSE
  /\ UNCHANGED <<observed, quotes, ledger>>

\* monitor: the HEALTH event and, when unhealthy, the HALT in the same transaction.
Monitor(when) ==
  LET seen == IF Marked(Held, when) THEN {[time |-> when, equity |-> Equity]} ELSE {}
  IN  /\ observed' = observed \cup seen
      /\ IF Healthy(when)
         THEN UNCHANGED <<journal, halted, reconciled>>
         ELSE /\ Record([kind |-> "HALT", id |-> NoReport, time |-> when])
              /\ halted' = TRUE
              /\ reconciled' = FALSE
      /\ UNCHANGED <<quotes, ledger>>

\* snapshot(): what reconcile compares with the external ledger.
Snapshot ==
  [cash |-> cash,
   positions |-> [s \in Held |-> positions[s]],
   open_orders |-> [o \in Pending |->
      [status |-> orders[o].status, quantity |-> orders[o].quantity,
       filled |-> orders[o].filled]]]

\* A mismatch halts inside the same event.
Reconcile(matched, when) ==
  /\ FinancialTime(when)
  /\ Record([kind |-> "RECONCILIATION", matched |-> matched, time |-> when])
  /\ reconciled' = matched
  /\ halted' = (halted \/ ~matched)
  /\ UNCHANGED <<observed, quotes, ledger>>

Resume(when) ==
  /\ FinancialTime(when)
  /\ reconciled
  /\ \A i \in DOMAIN journal : journal[i].kind = "RECONCILIATION" => journal[i].time <= when
  /\ Record([kind |-> "RESUMED", time |-> when])
  /\ halted' = FALSE
  /\ UNCHANGED <<observed, quotes, reconciled, ledger>>

-----------------------------------------------------------------------------

Init ==
  /\ journal = << [kind |-> "ACCOUNT_OPENED", time |-> 0] >>
  /\ observed = {}
  /\ cash = Capital
  /\ orders = [o \in {} |-> {}]
  /\ positions = [s \in Symbols |-> 0]
  /\ quotes = [s \in Symbols |-> NoQuote]
  /\ lots = << >>
  /\ halted = FALSE
  /\ reconciled = FALSE

\* The bounds of a run: callers stop asking once the journal is long enough.
ControlKinds == {"HALT", "RECONCILIATION", "RESUMED"}
Room == Len(journal) < MaxEvents
ControlRoom ==
  Room /\ Cardinality({i \in DOMAIN journal : journal[i].kind \in ControlKinds}) < MaxControl

\* What callers and venue reports may ask of the service.
Trade(when) ==
  \/ \E r \in Requests : Submit(r, when)
  \/ \E f \in FillIds, o \in DOMAIN orders, price \in Prices, fee \in Fees :
       \E q \in 1..Unfilled(o) : Fill(f, o, q, price, fee, when)
  \/ \E o \in DOMAIN orders : \/ RequestCancel(o, when)
                              \/ ConfirmCancel(o, when)
                              \/ \E reason \in Reasons : Reject(o, reason, when)
  \/ \E id \in ActionIds, a \in Entitlements : CorporateAction(id, a, when)

Control(when) ==
  \/ Halt(NoReport, when)
  \/ Monitor(when) /\ Cardinality(observed') <= MaxObserved
  \/ \E matched \in BOOLEAN : Reconcile(matched, when)
  \/ Resume(when)

Next ==
  \/ \E q \in Quotes : Quote(q)
  \/ Room /\ \E when \in Times : Trade(when)
  \/ ControlRoom /\ \E when \in Times : Control(when)

Spec == Init /\ [][Next]_vars

-----------------------------------------------------------------------------
(* Properties. *)

Order == [symbol : Symbols, side : {"BUY", "SELL"}, quantity : Nat \ {0},
          limit_price : Nat \ {0}, fee_budget : Nat, signal_at : Nat,
          settlement_days : Nat, tick_size : Nat \ {0}, accepted_at : Times,
          status : ACTIVE \cup {"FILLED", "CANCELED", "REJECTED"},
          filled : Nat, fees : Nat]

Event ==
       [kind : {"ACCOUNT_OPENED", "RESUMED"}, time : Nat]
  \cup [kind : {"ORDER_ACCEPTED", "ORDER_CANCEL_REQUESTED", "ORDER_CANCELED"},
        id : OrderIds, time : Times]
  \cup [kind : {"ORDER_REJECTED"}, id : OrderIds, reason : Reasons, time : Times]
  \cup [kind : {"FILL"}, id : FillIds, order : OrderIds, time : Times]
  \cup [kind : {"CORPORATE_ACTION"}, id : ActionIds, action : Entitlements, time : Times]
  \cup [kind : {"HALT"}, id : ReportIds \cup {NoReport}, time : Times]
  \cup [kind : {"RECONCILIATION"}, matched : BOOLEAN, time : Times]

BookTypeOK ==
  /\ journal \in Seq(Event)
  /\ DOMAIN orders \subseteq OrderIds
  /\ \A o \in DOMAIN orders : orders[o] \in Order
  /\ quotes \in [Symbols -> [price : Nat, time : Nat]]
  /\ halted \in BOOLEAN
  /\ reconciled \in BOOLEAN

\* The type invariant: the projection of a journal is a well-formed account,
\* long-only and without debt (project, order_service.py:52-105).
TypeOK ==
  /\ BookTypeOK
  /\ cash \in Nat
  /\ positions \in [Symbols -> Nat]
  /\ lots \in Seq([symbol : Symbols, quantity : Nat, session : Nat, settlement_days : Nat])
  /\ observed \subseteq [time : Times, equity : Nat]

\* The cash no active BUY order has reserved.
Slack == cash - ReservedCash({})

\* The booking of a sale that costs more in fees than it brings: the code holds
\* the fee against the whole cash, not against what is left of it
\* (sell_fee_exceeds_cash, order_service.py:240).
CostlySale ==
  /\ cash' < cash
  /\ \E o \in Pending : orders[o].side = "SELL" /\ orders'[o].filled > orders[o].filled

\* A buying order keeps its money until it is done: whatever is submitted, filled
\* at other prices, canceled or rejected meanwhile, no step eats into the unfilled
\* amounts and unused fee budgets of the active BUY orders, a costly sale excepted
\* (platform_contract.md:78, reserved_cash at order_service.py:108-112).
ReservationsKept == [][Slack' >= Min({0, Slack}) \/ CostlySale]_vars

\* The shares held are exactly the shares in the lots: a sale that runs out of
\* settled lots would shrink the position and leave the lots behind, because
\* the loop at order_service.py:82-86 drops what it cannot place.
PositionsAreLots ==
  \A s \in Symbols :
     positions[s] = SharesIn({i \in DOMAIN lots : lots[i].symbol = s})

\* T+1 holds from acceptance to the last fill: what an active SELL still has to
\* execute is covered by the lots that were settled when it was accepted
\* (order_service.py:207-209 checks only once, at submit).
SellsStayCovered ==
  \A o \in Pending :
     orders[o].side = "SELL" =>
        Unfilled(o) <= Available(orders[o].symbol, orders[o].accepted_at)

\* Never two active orders for one symbol (platform_contract.md:78).
OneOrderPerSymbol ==
  \A o, p \in Pending : orders[o].symbol = orders[p].symbol => o = p

\* Books of one order: never overfilled, FILLED exactly when complete, an active
\* order has something left to fill, and its fees stay within the budget it
\* reserved (order_service.py:67-71, 232-233).
OrderAccounting ==
  \A o \in DOMAIN orders :
     /\ orders[o].filled <= orders[o].quantity
     /\ orders[o].status = "FILLED" <=> orders[o].filled = orders[o].quantity
     /\ orders[o].fees <= orders[o].fee_budget

\* Some reconciliation matched and neither the ledger nor a halt came after it.
MatchIsCurrent ==
  \E i \in DOMAIN journal :
     /\ journal[i].kind = "RECONCILIATION" /\ journal[i].matched
     /\ \A j \in DOMAIN journal :
           j > i => journal[j].kind \notin LedgerKinds \cup {"HALT"}

\* The reconciled flag is a credential for the present ledger only
\* (platform_contract.md:85, order_service.py:87-104).
ReconciledIsCurrent == reconciled => MatchIsCurrent

\* A halt is lifted only by an operator, on a reconciliation that matched the
\* ledger as it stands and that is later than the halt itself
\* (order_service.py:311-320).
HaltLiftsOnlyAfterMatch == [][halted /\ ~halted' => MatchIsCurrent]_vars

\* Whatever comes after a financial event in the journal is not dated before
\* it, halts excepted: the ledger can be replayed by time
\* (_financial_time, order_service.py:131-136).
LedgerInOrder ==
  \A i, j \in DOMAIN journal :
     (i < j /\ journal[j].kind # "HALT") => journal[i].time <= journal[j].time

\* Identities are idempotent: no order, fill, cancel, rejection, entitlement or
\* incident is journalled twice (event_store.py:90-94 and the early returns).
AppliedOnce ==
  \A i, j \in DOMAIN journal :
     (/\ i # j
      /\ journal[i].kind = journal[j].kind
      /\ journal[i].kind \in LedgerKinds \cup {"HALT"}
      /\ journal[i].id = journal[j].id)
        => journal[i].kind = "HALT" /\ journal[i].id = NoReport

Phase(status) == CASE status \in {"ACCEPTED", "PARTIAL"} -> "open"
                   [] status = "CANCEL_PENDING" -> "closing"
                   [] OTHER -> "closed"

Lifecycle == INSTANCE OrderLifecycle WITH
  Quantities <- UNION {1..r.quantity : r \in Requests},
  life <- [o \in OrderIds |->
             IF o \in DOMAIN orders
             THEN [quantity |-> orders[o].quantity, filled |-> orders[o].filled,
                   phase |-> Phase(orders[o].status)]
             ELSE [quantity |-> 0, filled |-> 0, phase |-> "unused"]]

\* The order service implements the life cycle of an order: whatever the order of
\* fills, cancel requests, confirmations and rejections, an order trades up to its
\* quantity, closes once and is never touched again (project,
\* order_service.py:61-72, and the status guards of fill, cancel and reject).
LifecycleSpec == Lifecycle!Spec
=============================================================================
