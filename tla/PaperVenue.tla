----------------------------- MODULE PaperVenue -----------------------------
(***************************************************************************)
(* The deterministic paper venue (class PaperVenue of paper_venue.py): it  *)
(* accepts the order events of the local service, matches them against     *)
(* opening ticks, cancels, rejects and applies entitlements, and keeps its *)
(* own ledger from its own journal, sharing no projection with the order   *)
(* service.                                                                *)
(*                                                                         *)
(* Every operation is one transaction on the venue's store.  The code      *)
(* folds that journal in orders() and _ledger(); the model keeps the       *)
(* running folds venueOrders and venueLedger beside it.  A tick is         *)
(* identified by its symbol and time, because match refuses a second tick  *)
(* of a symbol at the same time; replaying a known tick changes nothing.   *)
(***************************************************************************)
EXTENDS Integers, Sequences, FiniteSets, FiniteSetsExt

CONSTANTS
  Symbols,
  OrderIds,
  ActionIds,
  Times,
  Offers,          \* [id, order]: order events the service may hand over
  Ticks,           \* [symbol, time, price, volume, buyable, sellable]
  Entitlements,    \* [symbol, num, den, net]
  Capital,         \* opening cash, in fen
  MinimumFee,      \* in fen
  CommissionRate,  \* in 1/10000 of the value
  SellTaxRate,     \* in 1/10000 of the value
  SlippageBps,     \* in 1/10000 of the price
  MaxVenueEvents   \* bound: journal length up to which the market does more

ASSUME VenueBound == MaxVenueEvents \in Nat /\ Times \subseteq Nat
ASSUME VenueSettings ==
  /\ Capital \in Nat \ {0} /\ MinimumFee \in Nat
  /\ CommissionRate \in Nat /\ SellTaxRate \in Nat /\ SlippageBps \in Nat
\* What the service hands over and the market observes (OpeningTick.__post_init__).
ASSUME OfferAssumption ==
  \A offer \in Offers :
     /\ offer.id \in OrderIds
     /\ {"symbol", "side", "quantity", "limit_price", "signal_at", "tick_size",
         "accepted_at", "filled", "status"} \subseteq DOMAIN offer.order
     /\ offer.order.symbol \in Symbols /\ offer.order.accepted_at \in Nat
     /\ offer.order.quantity \in Nat \ {0} /\ offer.order.tick_size \in Nat \ {0}
ASSUME TickAssumption ==
  Ticks \subseteq [symbol : Symbols, time : Times, price : Nat \ {0}, volume : Nat,
                  buyable : BOOLEAN, sellable : BOOLEAN]
ASSUME VenueActionAssumption ==
  \A a \in Entitlements : /\ a.symbol \in Symbols /\ a.net \in Nat
                          /\ a.num \in Nat \ {0} /\ a.den \in Nat \ {0}

VARIABLES
  venueJournal,  \* VENUE_ACCEPTED, VENUE_TICK, VENUE_FILL, VENUE_CANCELED, ... in seq order
  venueOrders,   \* fold of orders(): order id -> order
  venueLedger    \* fold of _ledger(): [cash, positions, lots, short]

venueVars == <<venueJournal, venueOrders, venueLedger>>

VenueActive == {"ACCEPTED", "PARTIAL"}

-----------------------------------------------------------------------------

HasEvent(kind, id) ==
  \E i \in DOMAIN venueJournal : venueJournal[i].kind = kind /\ venueJournal[i].id = id

Write(events) == venueJournal' = venueJournal \o events

IsActive(o) == o \in DOMAIN venueOrders /\ venueOrders[o].status \in VenueActive
Remaining(o) == venueOrders[o].quantity - venueOrders[o].filled

\* Its place among the orders: match walks the dict of orders() as they were accepted.
Turn(o) ==
  CHOOSE i \in DOMAIN venueJournal :
     venueJournal[i].kind = "VENUE_ACCEPTED" /\ venueJournal[i].order = o

\* Where the reports the bridge reads are in the journal.
Reports ==
  {i \in DOMAIN venueJournal :
     venueJournal[i].kind \in {"VENUE_FILL", "VENUE_CANCELED", "VENUE_REJECTED"}}

\* No event about the order is later than `when`.
QuietSince(o, when) ==
  \A i \in DOMAIN venueJournal :
     venueJournal[i].kind \in {"VENUE_ACCEPTED", "VENUE_FILL", "VENUE_CANCELED", "VENUE_REJECTED"}
       => (venueJournal[i].order = o => venueJournal[i].time <= when)

-----------------------------------------------------------------------------
(* accept *)

\* Idempotent: the same order event again appends nothing.
Accept(o, order) ==
  /\ ~HasEvent("VENUE_ACCEPTED", o)
  /\ Write(<< [kind |-> "VENUE_ACCEPTED", id |-> o, order |-> o, time |-> order.accepted_at] >>)
  /\ venueOrders' = [p \in DOMAIN venueOrders \cup {o} |->
                       IF p = o THEN [order EXCEPT !.filled = 0, !.status = "ACCEPTED"]
                       ELSE venueOrders[p]]
  /\ UNCHANGED venueLedger

-----------------------------------------------------------------------------
(* match *)

\* Slippage against the order, rounded away from it to the tick size.
ExecutionPrice(buy, price, step) ==
  LET ceiling(n, d) == (n + d - 1) \div d
  IN  IF buy THEN ceiling(price * (10000 + SlippageBps), 10000 * step) * step
             ELSE ((price * (10000 - SlippageBps)) \div (10000 * step)) * step

\* money(): half up to the fen.
Fee(buy, value) ==
  LET tenths == Max({MinimumFee * 10000, value * CommissionRate})
                + IF buy THEN 0 ELSE value * SellTaxRate
  IN  (2 * tenths + 10000) \div 20000

PriceFor(o, tick) ==
  ExecutionPrice(venueOrders[o].side = "BUY", tick.price, venueOrders[o].tick_size)

\* Fault: an observation at the signal itself counts.
EligibleAtSignal(o, tick) ==
  LET order == venueOrders[o]  price == PriceFor(o, tick)
  IN  /\ order.symbol = tick.symbol
      /\ order.status \in VenueActive
      /\ tick.time >= order.accepted_at
      /\ IF order.side = "BUY" THEN tick.buyable  /\ price <= order.limit_price
                               ELSE tick.sellable /\ price >= order.limit_price
      /\ price > 0

\* Fault: closed orders are not skipped.
EligibleClosed(o, tick) ==
  LET order == venueOrders[o]  price == PriceFor(o, tick)
  IN  /\ order.symbol = tick.symbol
      /\ tick.time >= order.accepted_at
      /\ tick.time > order.signal_at
      /\ IF order.side = "BUY" THEN tick.buyable  /\ price <= order.limit_price
                               ELSE tick.sellable /\ price >= order.limit_price
      /\ price > 0

\* The orders the loop does not skip.
Eligible(o, tick) ==
  LET order == venueOrders[o]  price == PriceFor(o, tick)
  IN  /\ order.symbol = tick.symbol
      /\ order.status \in VenueActive
      /\ tick.time >= order.accepted_at
      /\ tick.time > order.signal_at
      /\ IF order.side = "BUY" THEN tick.buyable  /\ price <= order.limit_price
                               ELSE tick.sellable /\ price >= order.limit_price
      /\ price > 0

\* Fault: the capacity is not used up.
AllocationToEach(tick) ==
  [o \in DOMAIN venueOrders |->
     IF Eligible(o, tick) THEN Min({Remaining(o), tick.volume}) ELSE 0]

\* What these orders still ask for.
Demand(S) == SumFunctionOnSet([o \in S |-> Remaining(o)], S)

\* Fault: the newest order is served first.
AllocationNewestFirst(tick) ==
  LET first(o) == {p \in DOMAIN venueOrders : Turn(p) > Turn(o) /\ Eligible(p, tick)}
  IN  [o \in DOMAIN venueOrders |->
         IF Eligible(o, tick)
         THEN Min({Remaining(o), Max({0, tick.volume - Demand(first(o))})})
         ELSE 0]

\* Shares of the tick that reach an order once those accepted before it took theirs.
Allocation(tick) ==
  LET first(o) == {p \in DOMAIN venueOrders : Turn(p) < Turn(o) /\ Eligible(p, tick)}
  IN  [o \in DOMAIN venueOrders |->
         IF Eligible(o, tick)
         THEN Min({Remaining(o), Max({0, tick.volume - Demand(first(o))})})
         ELSE 0]

FillEvent(o, q, tick) ==
  LET price == PriceFor(o, tick)
  IN  [kind |-> "VENUE_FILL", id |-> <<"VENUE_FILL", o, tick.time>>, order |-> o,
       quantity |-> q, price |-> price,
       fee |-> Fee(venueOrders[o].side = "BUY", price * q), time |-> tick.time]

\* One VENUE_FILL in the loop of _ledger(): lots are eaten oldest first.  A sale
\* the lots do not cover makes every later _ledger() call raise: short is final.
Settle(l, e) ==
  LET buy == venueOrders[e.order].side = "BUY"
      s   == venueOrders[e.order].symbol
      older(i) == {j \in 1..(i-1) : l.lots[j].symbol = s}
      sizes    == [i \in DOMAIN l.lots |-> l.lots[i].quantity]
      left(i)  == Max({0, e.quantity - SumFunctionOnSet(sizes, older(i))})
  IN  IF buy
      THEN [l EXCEPT
              !.cash = @ - (e.price * e.quantity + e.fee),
              !.positions[s] = @ + e.quantity,
              !.lots = Append(@, [symbol |-> s, quantity |-> e.quantity])]
      ELSE [cash |-> l.cash + e.price * e.quantity - e.fee,
            positions |-> [l.positions EXCEPT ![s] = @ - e.quantity],
            short |-> l.short \/ left(Len(l.lots) + 1) > 0,
            lots |-> [i \in DOMAIN l.lots |->
                        IF l.lots[i].symbol = s
                        THEN [l.lots[i] EXCEPT !.quantity = @ - Min({@, left(i)})]
                        ELSE l.lots[i]]]

\* The executions of a tick, as the loop appends them.
Executions(tick) ==
  LET share == Allocation(tick)
      upTo[i \in 0..Len(venueJournal)] ==
        IF i = 0 THEN << >>
        ELSE LET e == venueJournal[i]
             IN  IF e.kind = "VENUE_ACCEPTED" /\ share[e.order] > 0
                 THEN Append(upTo[i-1], FillEvent(e.order, share[e.order], tick))
                 ELSE upTo[i-1]
  IN  upTo[Len(venueJournal)]

\* The ledger once these fills are settled.
SettledAll(fills) ==
  LET after[k \in 0..Len(fills)] ==
        IF k = 0 THEN venueLedger ELSE Settle(after[k-1], fills[k])
  IN  after[Len(fills)]

\* The tick and its fills commit together.
Match(tick) ==
  LET share == Allocation(tick)
      fills == Executions(tick)
  IN  /\ \A i \in DOMAIN venueJournal :
            venueJournal[i].kind = "VENUE_TICK" =>
               (venueJournal[i].symbol = tick.symbol => venueJournal[i].time < tick.time)
      /\ Write(<< [kind |-> "VENUE_TICK", symbol |-> tick.symbol, volume |-> tick.volume,
                   time |-> tick.time] >> \o fills)
      /\ venueOrders' = [o \in DOMAIN venueOrders |->
            IF share[o] = 0 THEN venueOrders[o]
            ELSE [venueOrders[o] EXCEPT
                    !.filled = @ + share[o],
                    !.status = IF venueOrders[o].filled + share[o] = venueOrders[o].quantity
                               THEN "FILLED" ELSE "PARTIAL"]]
      /\ venueLedger' = SettledAll(fills)

-----------------------------------------------------------------------------
(* cancel, reject, corporate_action *)

Close(kind, status, o, when) ==
  /\ ~HasEvent(kind, <<kind, o, 0>>)
  /\ IsActive(o)
  /\ QuietSince(o, when)
  /\ Write(<< [kind |-> kind, id |-> <<kind, o, 0>>, order |-> o, time |-> when] >>)
  /\ venueOrders' = [venueOrders EXCEPT ![o].status = status]
  /\ UNCHANGED venueLedger

Cancel(o, when) == Close("VENUE_CANCELED", "CANCELED", o, when)
Reject(o, when) == Close("VENUE_REJECTED", "REJECTED", o, when)

\* The VENUE_ACTION branch of _ledger().
Entitled(l, a) ==
  LET scaled(q) == (q * a.num) \div a.den
  IN  [l EXCEPT !.cash = @ + a.net,
                !.positions[a.symbol] = scaled(@),
                !.lots = [i \in DOMAIN l.lots |->
                            IF l.lots[i].symbol = a.symbol
                            THEN [l.lots[i] EXCEPT !.quantity = scaled(@)] ELSE l.lots[i]]]

CorporateAction(id, a, when) ==
  LET l == venueLedger
  IN  /\ ~HasEvent("VENUE_ACTION", id)
      /\ \A o \in DOMAIN venueOrders : IsActive(o) => venueOrders[o].symbol # a.symbol
      /\ \A i \in DOMAIN venueJournal : venueJournal[i].time <= when
      /\ ~l.short
      /\ \A i \in DOMAIN l.lots :
            l.lots[i].symbol = a.symbol => (l.lots[i].quantity * a.num) % a.den = 0
      /\ Write(<< [kind |-> "VENUE_ACTION", id |-> id, action |-> a, time |-> when] >>)
      /\ venueLedger' = Entitled(l, a)
      /\ UNCHANGED venueOrders

\* snapshot(): the external side of a reconciliation; raises on a short ledger.
SnapshotAllowed == ~venueLedger.short
Snapshot ==
  [cash |-> venueLedger.cash,
   positions |-> [s \in {x \in Symbols : venueLedger.positions[x] # 0} |-> venueLedger.positions[s]],
   open_orders |-> [o \in {x \in DOMAIN venueOrders : IsActive(x)} |->
      [status |-> venueOrders[o].status, quantity |-> venueOrders[o].quantity,
       filled |-> venueOrders[o].filled]]]

-----------------------------------------------------------------------------

Init ==
  /\ venueJournal = << [kind |-> "VENUE_OPENED", time |-> 0] >>
  /\ venueOrders = [o \in {} |-> {}]
  /\ venueLedger = [cash |-> Capital, positions |-> [s \in Symbols |-> 0], lots |-> << >>,
                    short |-> FALSE]

\* The bound of a run.
Room == Len(venueJournal) < MaxVenueEvents

Next ==
  /\ Room
  /\ \/ \E offer \in Offers : Accept(offer.id, offer.order)
     \/ \E tick \in Ticks : Match(tick)
     \/ \E when \in Times :
          \/ \E o \in DOMAIN venueOrders : Cancel(o, when) \/ Reject(o, when)
          \/ \E id \in ActionIds, a \in Entitlements : CorporateAction(id, a, when)

Spec == Init /\ [][Next]_venueVars

-----------------------------------------------------------------------------
(* Properties. *)

VenueTypeOK ==
  /\ \A o \in DOMAIN venueOrders :
        /\ o \in OrderIds
        /\ venueOrders[o].status \in VenueActive \cup {"FILLED", "CANCELED", "REJECTED"}
        /\ venueOrders[o].filled \in 0..venueOrders[o].quantity
  /\ venueLedger.cash \in Int
  /\ venueLedger.positions \in [Symbols -> Int]
  /\ venueLedger.lots \in Seq([symbol : Symbols, quantity : Nat])
  /\ venueLedger.short \in BOOLEAN

\* A tick never fills more shares than were observed, over all the orders it
\* serves (available_volume, paper_venue.py:84-104).
TickCapacity ==
  \A i \in DOMAIN venueJournal :
     venueJournal[i].kind = "VENUE_TICK" =>
       LET served == {j \in DOMAIN venueJournal :
                        /\ venueJournal[j].kind = "VENUE_FILL"
                        /\ venueJournal[j].time = venueJournal[i].time
                        /\ venueOrders[venueJournal[j].order].symbol = venueJournal[i].symbol}
       IN  SumFunctionOnSet([j \in served |-> venueJournal[j].quantity], served)
             <= venueJournal[i].volume

\* No execution before the order was accepted, at or before its signal, worse
\* than its limit, or after the order was closed (paper_venue.py:89-98).
FillsAreCausal ==
  \A j \in DOMAIN venueJournal :
     venueJournal[j].kind = "VENUE_FILL" =>
       LET e == venueJournal[j]  o == venueOrders[e.order]
       IN  /\ o.accepted_at <= e.time /\ o.signal_at < e.time
           /\ IF o.side = "BUY" THEN e.price <= o.limit_price ELSE e.price >= o.limit_price
           /\ \A i \in 1..(j-1) :
                 venueJournal[i].kind \in {"VENUE_CANCELED", "VENUE_REJECTED"}
                   => venueJournal[i].order # e.order

\* Orders that can trade at a tick are served in the order the venue accepted
\* them: nobody gets a share while one before it is left with a remainder
\* (the dict order of orders(), paper_venue.py:86-104).
AcceptancePriority ==
  [][\A tick \in Ticks, o, p \in DOMAIN venueOrders :
        (/\ Match(tick)
         /\ Turn(o) < Turn(p)
         /\ Eligible(o, tick)
         /\ venueOrders'[p].filled > venueOrders[p].filled)
           => venueOrders'[o].status = "FILLED"]_venueVars

\* The venue implements the life cycle of an order.
VenuePhase(status) == IF status \in VenueActive THEN "open" ELSE "closed"

Lifecycle == INSTANCE OrderLifecycle WITH
  Quantities <- UNION {1..offer.order.quantity : offer \in Offers},
  life <- [o \in OrderIds |->
             IF o \in DOMAIN venueOrders
             THEN [quantity |-> venueOrders[o].quantity, filled |-> venueOrders[o].filled,
                   phase |-> VenuePhase(venueOrders[o].status)]
             ELSE [quantity |-> 0, filled |-> 0, phase |-> "unused"]]

\* An order trades up to its quantity, closes once and is never touched again
\* (orders(), paper_venue.py:54-65).
VenueLifecycleSpec == Lifecycle!Spec
=============================================================================
