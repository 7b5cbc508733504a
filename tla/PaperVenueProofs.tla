-------------------------- MODULE PaperVenueProofs --------------------------
(* Theorems about the paper venue.  VenueInv is its inductive invariant: one  *)
(* place of acceptance for each order, a tick for each execution, no active   *)
(* order among the closed ones, and the two properties of executions the runs *)
(* check.  The executions of a tick are computed along the journal; their     *)
(* total is followed place by place (ExecutionsWithin) with the sums of       *)
(* SumFacts.  ReportInv, on top of it, is what the bridge relies on: reports  *)
(* are told apart by their identities, and come to what the orders hold.      *)
EXTENDS PaperVenue, SumFacts

-----------------------------------------------------------------------------
(* The inductive invariant. *)

Closing == {"VENUE_CANCELED", "VENUE_REJECTED"}

VenueEvent ==
  UNION {[kind : {"VENUE_OPENED"}, time : Nat],
         [kind : {"VENUE_ACCEPTED"}, id : OrderIds, order : OrderIds, time : Nat],
         [kind : {"VENUE_TICK"}, symbol : Symbols, volume : Nat, time : Times],
         [kind : {"VENUE_FILL"}, id : {"VENUE_FILL"} \X OrderIds \X Nat, order : OrderIds,
          quantity : Nat, price : Int, fee : Int, time : Times],
         [kind : Closing, id : Closing \X OrderIds \X {0}, order : OrderIds, time : Nat],
         [kind : {"VENUE_ACTION"}, id : ActionIds, action : Entitlements, time : Nat]}

\* An order as the venue keeps it: an active one has something left to trade.
Kept(order) ==
  /\ {"symbol", "side", "quantity", "limit_price", "signal_at", "tick_size",
      "accepted_at", "filled", "status"} \subseteq DOMAIN order
  /\ order.symbol \in Symbols /\ order.accepted_at \in Nat
  /\ order.quantity \in Nat \ {0} /\ order.tick_size \in Nat \ {0}
  /\ order.filled \in Nat /\ order.filled <= order.quantity
  /\ order.status \in VenueActive \cup {"FILLED", "CANCELED", "REJECTED"}
  /\ order.status \in VenueActive => order.filled < order.quantity

Shaped ==
  /\ venueJournal \in Seq(VenueEvent)
  /\ IsFiniteSet(DOMAIN venueOrders) /\ DOMAIN venueOrders \subseteq OrderIds
  /\ \A o \in DOMAIN venueOrders : Kept(venueOrders[o])

\* Each order has the one place in the journal at which it was accepted.
Queued ==
  /\ \A i \in DOMAIN venueJournal :
       venueJournal[i].kind = "VENUE_ACCEPTED" =>
         venueJournal[i].id = venueJournal[i].order /\ venueJournal[i].order \in DOMAIN venueOrders
  /\ \A o \in DOMAIN venueOrders : \E i \in DOMAIN venueJournal :
       venueJournal[i].kind = "VENUE_ACCEPTED" /\ venueJournal[i].order = o
  /\ \A i, j \in DOMAIN venueJournal :
       (/\ venueJournal[i].kind = "VENUE_ACCEPTED" /\ venueJournal[j].kind = "VENUE_ACCEPTED"
        /\ venueJournal[i].order = venueJournal[j].order) => i = j

\* Each execution is one of a tick of its symbol, of the same time.
Ticked ==
  \A j \in DOMAIN venueJournal :
    venueJournal[j].kind = "VENUE_FILL" =>
      /\ venueJournal[j].order \in DOMAIN venueOrders
      /\ \E i \in DOMAIN venueJournal :
           /\ venueJournal[i].kind = "VENUE_TICK" /\ venueJournal[i].time = venueJournal[j].time
           /\ venueJournal[i].symbol = venueOrders[venueJournal[j].order].symbol

\* An order with a cancellation or a rejection is no longer active.
Closed ==
  \A i \in DOMAIN venueJournal :
    venueJournal[i].kind \in Closing =>
      /\ venueJournal[i].order \in DOMAIN venueOrders
      /\ venueOrders[venueJournal[i].order].status \notin VenueActive

VenueInv == Shaped /\ Queued /\ Ticked /\ Closed /\ TickCapacity /\ FillsAreCausal

-----------------------------------------------------------------------------
(* The journal. *)

\* What the events of a kind carry.
LEMMA EventFields ==
  ASSUME NEW e \in VenueEvent
  PROVE  /\ e.kind = "VENUE_TICK" => e.symbol \in Symbols /\ e.volume \in Nat /\ e.time \in Nat
         /\ e.kind = "VENUE_FILL" => /\ e.order \in OrderIds /\ e.quantity \in Nat /\ e.time \in Nat
                                       /\ e.price \in Int /\ e.fee \in Int
         /\ e.kind = "VENUE_ACCEPTED" => e.order \in OrderIds
         /\ e.kind \in Closing => e.order \in OrderIds
<1>1. /\ e.kind = "VENUE_TICK" => e.symbol \in Symbols /\ e.volume \in Nat /\ e.time \in Times
      /\ e.kind = "VENUE_FILL" => /\ e.order \in OrderIds /\ e.quantity \in Nat /\ e.time \in Times
                                   /\ e.price \in Int /\ e.fee \in Int
      /\ e.kind = "VENUE_ACCEPTED" => e.order \in OrderIds
      /\ e.kind \in Closing => e.order \in OrderIds
  BY DEF VenueEvent, Closing
<1> QED
  BY <1>1, VenueBound

\* What the journal is after more events.
LEMMA Writing ==
  ASSUME venueJournal \in Seq(VenueEvent), NEW t \in Seq(VenueEvent), Write(t)
  PROVE  /\ venueJournal' \in Seq(VenueEvent)
         /\ Len(venueJournal) \in Nat /\ Len(t) \in Nat
         /\ Len(venueJournal') = Len(venueJournal) + Len(t)
         /\ DOMAIN venueJournal = 1..Len(venueJournal)
         /\ DOMAIN venueJournal' = 1..(Len(venueJournal) + Len(t))
         /\ \A i \in DOMAIN venueJournal : i \in DOMAIN venueJournal' /\ venueJournal'[i] = venueJournal[i]
         /\ \A i \in DOMAIN venueJournal' : i \notin DOMAIN venueJournal =>
              i - Len(venueJournal) \in DOMAIN t /\ venueJournal'[i] = t[i - Len(venueJournal)]
         /\ \A k \in DOMAIN t : /\ Len(venueJournal) + k \in DOMAIN venueJournal'
                                /\ venueJournal'[Len(venueJournal) + k] = t[k]
BY DEF Write

\* One event more.
LEMMA WritingOne ==
  ASSUME venueJournal \in Seq(VenueEvent), NEW e \in VenueEvent, Write(<<e>>)
  PROVE  /\ venueJournal' \in Seq(VenueEvent)
         /\ DOMAIN venueJournal' = DOMAIN venueJournal \union {Len(venueJournal) + 1}
         /\ DOMAIN venueJournal = 1..Len(venueJournal) /\ Len(venueJournal) \in Nat
         /\ \A i \in DOMAIN venueJournal : venueJournal'[i] = venueJournal[i]
         /\ venueJournal'[Len(venueJournal) + 1] = e
<1> DEFINE t == <<e>>
           n == Len(venueJournal)
<1>1. t \in Seq(VenueEvent) /\ Len(t) = 1 /\ DOMAIN t = {1} /\ t[1] = e /\ Write(t)
  OBVIOUS
<1> HIDE DEF t
<1>2. /\ venueJournal' \in Seq(VenueEvent) /\ n \in Nat
      /\ DOMAIN venueJournal = 1..n /\ DOMAIN venueJournal' = 1..(n + 1)
      /\ \A i \in DOMAIN venueJournal : venueJournal'[i] = venueJournal[i]
      /\ \A k \in DOMAIN t : venueJournal'[n + k] = t[k]
  BY <1>1, Writing
<1>3. venueJournal'[n + 1] = e
  BY <1>1, <1>2
<1> HIDE DEF n
<1>4. 1..(n + 1) = (1..n) \union {n + 1}
  BY <1>2
<1> QED
  BY <1>2, <1>3, <1>4 DEF n

-----------------------------------------------------------------------------
(* What a step does to the places, ticks and closings of the journal when it    *)
(* neither executes nor observes anything.                                      *)

\* What an order is accepted with stays.
SameTerms(old, new) ==
  /\ new.symbol = old.symbol /\ new.side = old.side /\ new.limit_price = old.limit_price
  /\ new.signal_at = old.signal_at /\ new.accepted_at = old.accepted_at

\* The executions of a symbol at a time, and the shares they come to.
Served(journal, os, time, s) ==
  {j \in DOMAIN journal : /\ journal[j].kind = "VENUE_FILL" /\ journal[j].time = time
                          /\ os[journal[j].order].symbol = s}
Traded(journal, S) == SumFunctionOnSet([j \in S |-> journal[j].quantity], S)

\* The capacity of ticks in terms of what was served.
LEMMA Capacity ==
  TickCapacity <=>
    \A i \in DOMAIN venueJournal :
      venueJournal[i].kind = "VENUE_TICK" =>
        Traded(venueJournal, Served(venueJournal, venueOrders, venueJournal[i].time, venueJournal[i].symbol))
          <= venueJournal[i].volume
BY DEF TickCapacity, Served, Traded

\* The execution at j of the journal had a cause.
Caused(journal, os, j) ==
  LET e == journal[j]  o == os[e.order]
  IN  /\ o.accepted_at <= e.time /\ o.signal_at < e.time
      /\ IF o.side = "BUY" THEN e.price <= o.limit_price ELSE e.price >= o.limit_price
      /\ \A i \in 1..(j-1) : journal[i].kind \in Closing => journal[i].order # e.order

\* The same executions come to the same shares.
LEMMA TradedSame ==
  ASSUME NEW j, NEW k, NEW S, IsFiniteSet(S), \A i \in S : j[i] = k[i]
  PROVE  Traded(j, S) = Traded(k, S)
<1> DEFINE f == [i \in S |-> j[i].quantity]
           g == [i \in S |-> k[i].quantity]
<1>1. \A i \in S : f[i] = g[i]
  OBVIOUS
<1> HIDE DEF f, g
<1>2. SumFunctionOnSet(f, S) = SumFunctionOnSet(g, S)
  BY <1>1, SumSame
<1> QED
  BY <1>2 DEF f, g, Traded

\* A step that neither executes nor observes leaves ticks and executions as they were.
LEMMA QuietStep ==
  ASSUME VenueInv, NEW e \in VenueEvent, e.kind \notin {"VENUE_FILL", "VENUE_TICK"}, Write(<<e>>),
         \A o \in DOMAIN venueOrders :
            o \in DOMAIN venueOrders' /\ SameTerms(venueOrders[o], venueOrders'[o])
  PROVE  Ticked' /\ TickCapacity' /\ FillsAreCausal'
<1> DEFINE n == Len(venueJournal)
<1>1. /\ DOMAIN venueJournal' = DOMAIN venueJournal \union {n + 1}
      /\ DOMAIN venueJournal = 1..n /\ n \in Nat
      /\ \A i \in DOMAIN venueJournal : venueJournal'[i] = venueJournal[i]
      /\ venueJournal'[n + 1] = e
  BY WritingOne DEF VenueInv, Shaped
<1>2. \A i \in DOMAIN venueJournal' :
        venueJournal'[i].kind \in {"VENUE_FILL", "VENUE_TICK"} =>
          i \in DOMAIN venueJournal /\ venueJournal'[i] = venueJournal[i]
  BY <1>1
<1>3. \A j \in DOMAIN venueJournal : venueJournal[j].kind = "VENUE_FILL" =>
        /\ venueJournal[j].order \in DOMAIN venueOrders /\ venueJournal[j].order \in DOMAIN venueOrders'
        /\ SameTerms(venueOrders[venueJournal[j].order], venueOrders'[venueJournal[j].order])
  BY DEF VenueInv, Ticked
<1>4. Ticked'
  <2> SUFFICES ASSUME NEW j \in DOMAIN venueJournal', venueJournal'[j].kind = "VENUE_FILL"
               PROVE  /\ venueJournal'[j].order \in DOMAIN venueOrders'
                      /\ \E i \in DOMAIN venueJournal' :
                           /\ venueJournal'[i].kind = "VENUE_TICK"
                           /\ venueJournal'[i].time = venueJournal'[j].time
                           /\ venueJournal'[i].symbol = venueOrders'[venueJournal'[j].order].symbol
    BY DEF Ticked
  <2>1. j \in DOMAIN venueJournal /\ venueJournal'[j] = venueJournal[j]
    BY <1>2
  <2>2. PICK i \in DOMAIN venueJournal :
           /\ venueJournal[i].kind = "VENUE_TICK" /\ venueJournal[i].time = venueJournal[j].time
           /\ venueJournal[i].symbol = venueOrders[venueJournal[j].order].symbol
    BY <2>1 DEF VenueInv, Ticked
  <2>3. i \in DOMAIN venueJournal' /\ venueJournal'[i] = venueJournal[i]
    BY <1>1
  <2> QED
    BY <1>3, <2>1, <2>2, <2>3 DEF SameTerms
<1>5. TickCapacity'
  <2> SUFFICES ASSUME NEW i \in DOMAIN venueJournal', venueJournal'[i].kind = "VENUE_TICK"
               PROVE  Traded(venueJournal', Served(venueJournal', venueOrders', venueJournal'[i].time,
                                                   venueJournal'[i].symbol)) <= venueJournal'[i].volume
    BY DEF TickCapacity, Served, Traded
  <2> DEFINE S == Served(venueJournal, venueOrders, venueJournal[i].time, venueJournal[i].symbol)
  <2>1. i \in DOMAIN venueJournal /\ venueJournal'[i] = venueJournal[i]
    BY <1>2
  <2>2. Served(venueJournal', venueOrders', venueJournal'[i].time, venueJournal'[i].symbol) = S
    <3>1. \A j : (j \in DOMAIN venueJournal' /\ venueJournal'[j].kind = "VENUE_FILL")
                 <=> (j \in DOMAIN venueJournal /\ venueJournal[j].kind = "VENUE_FILL")
      BY <1>1
    <3>2. \A j \in DOMAIN venueJournal : venueJournal[j].kind = "VENUE_FILL" =>
            /\ venueJournal'[j] = venueJournal[j]
            /\ venueOrders'[venueJournal[j].order].symbol = venueOrders[venueJournal[j].order].symbol
      BY <1>1, <1>3 DEF SameTerms
    <3> QED
      BY <2>1, <3>1, <3>2 DEF Served
  <2>3. IsFiniteSet(S) /\ \A j \in S : venueJournal'[j] = venueJournal[j]
    <3>1. IsFiniteSet(1..n)
      BY <1>1, FS_Interval
    <3>2. S \subseteq 1..n
      BY <1>1 DEF Served
    <3> QED
      BY <1>1, <3>1, <3>2, FS_Subset
  <2>4. Traded(venueJournal, S) <= venueJournal[i].volume
    BY <2>1, Capacity DEF VenueInv
  <2> HIDE DEF S
  <2>5. Traded(venueJournal', S) = Traded(venueJournal, S)
    BY <2>3, TradedSame
  <2> QED
    BY <2>1, <2>2, <2>4, <2>5
<1>6. FillsAreCausal'
  <2> SUFFICES ASSUME NEW j \in DOMAIN venueJournal', venueJournal'[j].kind = "VENUE_FILL"
               PROVE  Caused(venueJournal', venueOrders', j)
    BY DEF FillsAreCausal, Caused, Closing
  <2>1. j \in DOMAIN venueJournal /\ venueJournal'[j] = venueJournal[j]
    BY <1>2
  <2>2. Caused(venueJournal, venueOrders, j)
    BY <2>1 DEF VenueInv, FillsAreCausal, Caused, Closing
  <2> QED
    BY <1>1, <1>3, <2>1, <2>2 DEF Caused, SameTerms
<1> QED
  BY <1>4, <1>5, <1>6

\* An order that is unknown has not been accepted.
LEMMA Unknown ==
  ASSUME VenueInv, NEW o, ~HasEvent("VENUE_ACCEPTED", o)
  PROVE  o \notin DOMAIN venueOrders
<1> SUFFICES ASSUME o \in DOMAIN venueOrders PROVE FALSE
  OBVIOUS
<1>1. PICK i \in DOMAIN venueJournal :
         venueJournal[i].kind = "VENUE_ACCEPTED" /\ venueJournal[i].order = o
  BY DEF VenueInv, Queued
<1>2. venueJournal[i].id = o
  BY <1>1 DEF VenueInv, Queued
<1> QED
  BY <1>1, <1>2 DEF HasEvent

\* What accept makes of an order.
LEMMA AcceptedOrder ==
  ASSUME NEW order,
         {"symbol", "side", "quantity", "limit_price", "signal_at", "tick_size",
          "accepted_at", "filled", "status"} \subseteq DOMAIN order,
         order.symbol \in Symbols, order.accepted_at \in Nat,
         order.quantity \in Nat \ {0}, order.tick_size \in Nat \ {0}
  PROVE  LET new == [order EXCEPT !.filled = 0, !.status = "ACCEPTED"]
         IN  Kept(new) /\ new.quantity = order.quantity /\ new.filled = 0 /\ new.status = "ACCEPTED"
<1> DEFINE a == [order EXCEPT !.filled = 0]
           b == [a EXCEPT !.status = "ACCEPTED"]
<1>1. DOMAIN a = DOMAIN order /\ a.filled = 0 /\ \A x \in DOMAIN order : x # "filled" => a[x] = order[x]
  OBVIOUS
<1> HIDE DEF a
<1>2. DOMAIN b = DOMAIN order /\ b.status = "ACCEPTED" /\ \A x \in DOMAIN order : x # "status" => b[x] = a[x]
  BY <1>1
<1> HIDE DEF b
<1>3. /\ b.symbol = order.symbol /\ b.accepted_at = order.accepted_at /\ b.quantity = order.quantity
      /\ b.tick_size = order.tick_size /\ b.filled = 0 /\ b.status = "ACCEPTED"
  BY <1>1, <1>2
<1>4. Kept(b)
  BY <1>2, <1>3 DEF Kept, VenueActive
<1> QED
  BY <1>3, <1>4 DEF a, b

\* The order is new, and so is its place.
LEMMA AcceptKeeps ==
  ASSUME VenueInv, NEW offer \in Offers, Accept(offer.id, offer.order)
  PROVE  VenueInv'
<1> DEFINE o == offer.id
           order == offer.order
           new == [order EXCEPT !.filled = 0, !.status = "ACCEPTED"]
           e == [kind |-> "VENUE_ACCEPTED", id |-> o, order |-> o, time |-> order.accepted_at]
           n == Len(venueJournal)
<1>1. o \notin DOMAIN venueOrders
  BY Unknown DEF Accept
<1>2. /\ o \in OrderIds /\ order.accepted_at \in Nat /\ Kept(new)
  BY OfferAssumption, AcceptedOrder
<1>3. e \in VenueEvent
  BY <1>2 DEF VenueEvent
<1>4. /\ DOMAIN venueOrders' = DOMAIN venueOrders \union {o} /\ venueOrders'[o] = new
      /\ \A p \in DOMAIN venueOrders : venueOrders'[p] = venueOrders[p]
  BY <1>1 DEF Accept
<1>5. Write(<<e>>) /\ e.kind = "VENUE_ACCEPTED" /\ e.order = o /\ e.id = o
  BY DEF Accept
<1> HIDE DEF e, new, o, order
<1>6. /\ venueJournal' \in Seq(VenueEvent)
      /\ DOMAIN venueJournal' = DOMAIN venueJournal \union {n + 1}
      /\ DOMAIN venueJournal = 1..n /\ n \in Nat
      /\ \A i \in DOMAIN venueJournal : venueJournal'[i] = venueJournal[i]
      /\ venueJournal'[n + 1] = e
  BY <1>3, <1>5, WritingOne DEF VenueInv, Shaped
<1>7. Shaped'
  <2>1. IsFiniteSet(DOMAIN venueOrders')
    BY <1>4, FS_AddElement DEF VenueInv, Shaped
  <2> QED
    BY <1>2, <1>4, <1>6, <2>1 DEF VenueInv, Shaped
<1>8. Queued'
  <2>1. \A i \in DOMAIN venueJournal : venueJournal[i].kind = "VENUE_ACCEPTED" =>
          venueJournal[i].id = venueJournal[i].order /\ venueJournal[i].order \in DOMAIN venueOrders
    BY DEF VenueInv, Queued
  <2>2. \A i, j \in DOMAIN venueJournal :
          (/\ venueJournal[i].kind = "VENUE_ACCEPTED" /\ venueJournal[j].kind = "VENUE_ACCEPTED"
           /\ venueJournal[i].order = venueJournal[j].order) => i = j
    BY DEF VenueInv, Queued
  <2>3. \A p \in DOMAIN venueOrders : \E i \in DOMAIN venueJournal :
          venueJournal[i].kind = "VENUE_ACCEPTED" /\ venueJournal[i].order = p
    BY DEF VenueInv, Queued
  <2>4. \A p \in DOMAIN venueOrders' : \E i \in DOMAIN venueJournal' :
          venueJournal'[i].kind = "VENUE_ACCEPTED" /\ venueJournal'[i].order = p
    BY <1>4, <1>5, <1>6, <2>3
  <2>5. \A i, j \in DOMAIN venueJournal' :
          (/\ venueJournal'[i].kind = "VENUE_ACCEPTED" /\ venueJournal'[j].kind = "VENUE_ACCEPTED"
           /\ venueJournal'[i].order = venueJournal'[j].order) => i = j
    BY <1>1, <1>5, <1>6, <2>1, <2>2
  <2>6. \A i \in DOMAIN venueJournal' : venueJournal'[i].kind = "VENUE_ACCEPTED" =>
          venueJournal'[i].id = venueJournal'[i].order /\ venueJournal'[i].order \in DOMAIN venueOrders'
    BY <1>4, <1>5, <1>6, <2>1
  <2> QED
    BY <2>4, <2>5, <2>6 DEF Queued
<1>9. Closed'
  <2>1. \A i \in DOMAIN venueJournal : venueJournal[i].kind \in Closing =>
          /\ venueJournal[i].order \in DOMAIN venueOrders
          /\ venueOrders[venueJournal[i].order].status \notin VenueActive
    BY DEF VenueInv, Closed
  <2>2. "VENUE_ACCEPTED" \notin Closing
    BY DEF Closing
  <2> QED
    BY <1>4, <1>5, <1>6, <2>1, <2>2 DEF Closed
<1>10. Ticked' /\ TickCapacity' /\ FillsAreCausal'
  BY <1>3, <1>4, <1>5, QuietStep DEF SameTerms
<1> QED
  BY <1>7, <1>8, <1>9, <1>10 DEF VenueInv

\* Closing an order leaves all the rest as it was.
LEMMA CloseKeeps ==
  ASSUME VenueInv, NEW o \in DOMAIN venueOrders, NEW when \in Times,
         NEW kind \in Closing, NEW status \in {"CANCELED", "REJECTED"}, Close(kind, status, o, when)
  PROVE  VenueInv'
<1> DEFINE e == [kind |-> kind, id |-> <<kind, o, 0>>, order |-> o, time |-> when]
           n == Len(venueJournal)
<1>1. Kept(venueOrders[o]) /\ o \in OrderIds /\ when \in Nat
  BY VenueBound DEF VenueInv, Shaped
<1>2. e \in VenueEvent
  BY <1>1 DEF VenueEvent
<1>3. /\ DOMAIN venueOrders' = DOMAIN venueOrders
      /\ venueOrders'[o] = [venueOrders[o] EXCEPT !.status = status]
      /\ \A p \in DOMAIN venueOrders : p # o => venueOrders'[p] = venueOrders[p]
  BY DEF Close
<1>4. /\ Kept(venueOrders'[o]) /\ SameTerms(venueOrders[o], venueOrders'[o])
      /\ venueOrders'[o].status \notin VenueActive
  BY <1>1, <1>3 DEF Kept, VenueActive, SameTerms
<1>5. Write(<<e>>) /\ e.kind = kind /\ e.order = o
  BY DEF Close
<1> HIDE DEF e
<1>6. /\ venueJournal' \in Seq(VenueEvent)
      /\ DOMAIN venueJournal' = DOMAIN venueJournal \union {n + 1}
      /\ DOMAIN venueJournal = 1..n /\ n \in Nat
      /\ \A i \in DOMAIN venueJournal : venueJournal'[i] = venueJournal[i]
      /\ venueJournal'[n + 1] = e
  BY <1>2, <1>5, WritingOne DEF VenueInv, Shaped
<1>7. Shaped'
  BY <1>3, <1>4, <1>6 DEF VenueInv, Shaped
<1>8. Queued'
  <2>1. kind # "VENUE_ACCEPTED"
    BY DEF Closing
  <2> QED
    BY <1>3, <1>5, <1>6, <2>1, SMTT(30) DEF VenueInv, Queued
<1>9. Closed'
  <2>1. \A i \in DOMAIN venueJournal : venueJournal[i].kind \in Closing =>
          /\ venueJournal[i].order \in DOMAIN venueOrders
          /\ venueOrders[venueJournal[i].order].status \notin VenueActive
    BY DEF VenueInv, Closed
  <2>2. \A p \in DOMAIN venueOrders :
          venueOrders[p].status \notin VenueActive => venueOrders'[p].status \notin VenueActive
    BY <1>3, <1>4
  <2>3. ASSUME NEW i \in DOMAIN venueJournal', venueJournal'[i].kind \in Closing
        PROVE  /\ venueJournal'[i].order \in DOMAIN venueOrders'
               /\ venueOrders'[venueJournal'[i].order].status \notin VenueActive
    <3>1. CASE i = n + 1
      BY <1>3, <1>4, <1>5, <1>6, <3>1
    <3>2. CASE i # n + 1
      <4>1. i \in DOMAIN venueJournal /\ venueJournal'[i] = venueJournal[i]
        BY <1>6, <3>2
      <4> QED
        BY <1>3, <2>1, <2>2, <2>3, <4>1
    <3> QED
      BY <3>1, <3>2
  <2> QED
    BY <2>3 DEF Closed
<1>10. Ticked' /\ TickCapacity' /\ FillsAreCausal'
  <2>1. \A p \in DOMAIN venueOrders :
          p \in DOMAIN venueOrders' /\ SameTerms(venueOrders[p], venueOrders'[p])
    BY <1>3, <1>4 DEF SameTerms
  <2>2. kind \notin {"VENUE_FILL", "VENUE_TICK"}
    BY DEF Closing
  <2> QED
    BY <1>2, <1>5, <2>1, <2>2, QuietStep
<1> QED
  BY <1>7, <1>8, <1>9, <1>10 DEF VenueInv

\* An entitlement touches the ledger only.
LEMMA CorporateActionKeeps ==
  ASSUME VenueInv, NEW id \in ActionIds, NEW a \in Entitlements, NEW when \in Times,
         CorporateAction(id, a, when)
  PROVE  VenueInv'
<1> DEFINE e == [kind |-> "VENUE_ACTION", id |-> id, action |-> a, time |-> when]
           n == Len(venueJournal)
<1>1. e \in VenueEvent
  BY VenueBound DEF VenueEvent
<1>2. venueOrders' = venueOrders /\ Write(<<e>>) /\ e.kind = "VENUE_ACTION"
  BY DEF CorporateAction
<1> HIDE DEF e
<1>3. /\ venueJournal' \in Seq(VenueEvent)
      /\ DOMAIN venueJournal' = DOMAIN venueJournal \union {n + 1}
      /\ DOMAIN venueJournal = 1..n /\ n \in Nat
      /\ \A i \in DOMAIN venueJournal : venueJournal'[i] = venueJournal[i]
      /\ venueJournal'[n + 1] = e
  BY <1>1, <1>2, WritingOne DEF VenueInv, Shaped
<1>4. Shaped'
  BY <1>2, <1>3 DEF VenueInv, Shaped
<1>5. Queued'
  BY <1>2, <1>3 DEF VenueInv, Queued
<1>6. Closed'
  BY <1>2, <1>3 DEF VenueInv, Closed, Closing
<1>7. Ticked' /\ TickCapacity' /\ FillsAreCausal'
  BY <1>1, <1>2, QuietStep DEF SameTerms
<1> QED
  BY <1>4, <1>5, <1>6, <1>7 DEF VenueInv

\* Before anything was accepted.
LEMMA VenueInvInit == Init => VenueInv
<1> SUFFICES ASSUME Init PROVE VenueInv
  OBVIOUS
<1>1. venueJournal \in Seq(VenueEvent) /\ DOMAIN venueJournal = {1} /\ venueJournal[1].kind = "VENUE_OPENED"
  <2>1. [kind |-> "VENUE_OPENED", time |-> 0] \in VenueEvent
    BY DEF VenueEvent
  <2> QED
    BY <2>1 DEF Init
<1>2. DOMAIN venueOrders = {} /\ IsFiniteSet(DOMAIN venueOrders)
  BY FS_EmptySet DEF Init
<1> QED
  BY <1>1, <1>2 DEF VenueInv, Shaped, Queued, Ticked, Closed, Closing, TickCapacity, FillsAreCausal

-----------------------------------------------------------------------------
(* The allocation of a tick. *)

\* Places of different orders are different.
LEMMA Turns ==
  ASSUME Queued
  PROVE  /\ \A o \in DOMAIN venueOrders :
              /\ Turn(o) \in DOMAIN venueJournal
              /\ venueJournal[Turn(o)].kind = "VENUE_ACCEPTED" /\ venueJournal[Turn(o)].order = o
         /\ \A i \in DOMAIN venueJournal :
              venueJournal[i].kind = "VENUE_ACCEPTED" => Turn(venueJournal[i].order) = i
         /\ \A o, p \in DOMAIN venueOrders : Turn(o) = Turn(p) => o = p
<1>1. ASSUME NEW o \in DOMAIN venueOrders
      PROVE  /\ Turn(o) \in DOMAIN venueJournal
             /\ venueJournal[Turn(o)].kind = "VENUE_ACCEPTED" /\ venueJournal[Turn(o)].order = o
  <2>1. \E i \in DOMAIN venueJournal : venueJournal[i].kind = "VENUE_ACCEPTED" /\ venueJournal[i].order = o
    BY DEF Queued
  <2> QED
    BY <2>1, Zenon DEF Turn
<1>2. ASSUME NEW i \in DOMAIN venueJournal, venueJournal[i].kind = "VENUE_ACCEPTED"
      PROVE  Turn(venueJournal[i].order) = i
  <2>1. venueJournal[i].order \in DOMAIN venueOrders
    BY <1>2 DEF Queued
  <2> QED
    BY <1>1, <1>2, <2>1 DEF Queued
<1> QED
  BY <1>1, <1>2

\* Active orders of a tick's symbol, known to the venue.
LEMMA EligibleIsActive ==
  ASSUME Shaped, NEW tick, NEW o \in DOMAIN venueOrders, Eligible(o, tick)
  PROVE  /\ venueOrders[o].symbol = tick.symbol /\ venueOrders[o].status \in VenueActive
         /\ Remaining(o) \in Nat \ {0}
<1>1. Kept(venueOrders[o]) /\ venueOrders[o].symbol = tick.symbol /\ venueOrders[o].status \in VenueActive
  BY DEF Shaped, Eligible
<1>2. /\ venueOrders[o].quantity \in Nat /\ venueOrders[o].filled \in Nat
      /\ venueOrders[o].filled < venueOrders[o].quantity
  BY <1>1 DEF Kept
<1> QED
  BY <1>1, <1>2 DEF Remaining

\* What a set of orders asks for, and one order more.
LEMMA Demands ==
  ASSUME Shaped
  PROVE  /\ \A S \in SUBSET DOMAIN venueOrders : Demand(S) \in Nat /\ IsFiniteSet(S)
         /\ \A S \in SUBSET DOMAIN venueOrders : \A T \in SUBSET S : Demand(T) <= Demand(S)
         /\ \A S \in SUBSET DOMAIN venueOrders : \A o \in DOMAIN venueOrders \ S :
              Demand(S \union {o}) = Demand(S) + Remaining(o)
         /\ Demand({}) = 0
<1> DEFINE D == DOMAIN venueOrders
           f == [o \in D |-> Remaining(o)]
<1>1. IsFiniteSet(D) /\ \A o \in D : Remaining(o) \in Nat
  <2>1. \A o \in D : Kept(venueOrders[o])
    BY DEF Shaped
  <2>2. \A o \in D : /\ venueOrders[o].quantity \in Nat /\ venueOrders[o].filled \in Nat
                     /\ venueOrders[o].filled <= venueOrders[o].quantity
    BY <2>1 DEF Kept
  <2> QED
    BY <2>2 DEF Shaped, Remaining
<1>2. \A o \in D : f[o] = Remaining(o) /\ f[o] \in Nat
  BY <1>1
<1> HIDE DEF f
<1>3. ASSUME NEW S \in SUBSET D
      PROVE  IsFiniteSet(S) /\ Demand(S) = SumFunctionOnSet(f, S)
  <2> DEFINE g == [o \in S |-> Remaining(o)]
  <2>1. IsFiniteSet(S) /\ \A o \in S : g[o] = f[o]
    BY <1>1, <1>2, FS_Subset
  <2> HIDE DEF g
  <2>2. SumFunctionOnSet(g, S) = SumFunctionOnSet(f, S)
    BY <2>1, SumSame
  <2> QED
    BY <2>1, <2>2 DEF g, Demand
<1> HIDE DEF D
<1>4. ASSUME NEW S \in SUBSET D
      PROVE  Demand(S) \in Nat
  BY <1>1, <1>2, <1>3, SumNat
<1>5. ASSUME NEW S \in SUBSET D, NEW T \in SUBSET S
      PROVE  Demand(T) <= Demand(S)
  <2>1. \A o \in S : f[o] \in Nat
    BY <1>2
  <2>2. IsFiniteSet(S) /\ T \in SUBSET D
    BY <1>3
  <2> QED
    BY <1>3, <2>1, <2>2, SumPart
<1>6. ASSUME NEW S \in SUBSET D, NEW o \in D \ S
      PROVE  Demand(S \union {o}) = Demand(S) + Remaining(o)
  <2>1. IsFiniteSet(S) /\ o \notin S /\ f[o] \in Int /\ \A p \in S : f[p] \in Int
    BY <1>2, <1>3
  <2>2. SumFunctionOnSet(f, S \union {o}) = f[o] + SumFunctionOnSet(f, S)
    BY <2>1, SumWith
  <2>3. S \union {o} \in SUBSET D
    OBVIOUS
  <2>4. Demand(S) \in Nat /\ f[o] = Remaining(o) /\ Remaining(o) \in Nat
    BY <1>2, <1>4
  <2> QED
    BY <1>3, <2>2, <2>3, <2>4
<1>7. Demand({}) = 0
  BY <1>3, SumEmpty
<1> QED
  BY <1>3, <1>4, <1>5, <1>6, <1>7 DEF D

\* The orders served before o.
First(o, tick) == {p \in DOMAIN venueOrders : Turn(p) < Turn(o) /\ Eligible(p, tick)}

\* An order gets what it asks for, or what those before it left.
LEMMA Shares ==
  ASSUME Shaped, NEW tick, tick.volume \in Nat, NEW o \in DOMAIN venueOrders
  PROVE  LET d == Demand(First(o, tick))
             q == Allocation(tick)[o]
         IN  /\ d \in Nat
             /\ q = IF Eligible(o, tick)
                    THEN IF d + Remaining(o) <= tick.volume THEN Remaining(o)
                         ELSE IF d <= tick.volume THEN tick.volume - d ELSE 0
                    ELSE 0
<1> DEFINE d == Demand(First(o, tick))
           m == Max({0, tick.volume - d})
           r == Remaining(o)
<1>1. d \in Nat
  BY Demands DEF First
<1>2. Allocation(tick)[o] = IF Eligible(o, tick) THEN Min({r, m}) ELSE 0
  BY DEF Allocation, First
<1> HIDE DEF d
<1>3. m = IF 0 >= tick.volume - d THEN 0 ELSE tick.volume - d
  <2>1. 0 \in Int /\ tick.volume - d \in Int
    BY <1>1
  <2> QED
    BY <2>1, OfTwo
<1>4. m \in Int
  BY <1>1, <1>3
<1>5. CASE Eligible(o, tick)
  <2>1. r \in Nat
    BY <1>5, EligibleIsActive
  <2> HIDE DEF m, r
  <2>2. Min({r, m}) = IF r <= m THEN r ELSE m
    BY <1>4, <2>1, OfTwo
  <2>3. Allocation(tick)[o] = IF d + r <= tick.volume THEN r
                              ELSE IF d <= tick.volume THEN tick.volume - d ELSE 0
    BY <1>1, <1>2, <1>3, <1>5, <2>1, <2>2
  <2> QED
    BY <1>1, <1>5, <2>3 DEF d, r
<1>6. CASE ~Eligible(o, tick)
  BY <1>1, <1>2, <1>6 DEF d
<1> QED
  BY <1>5, <1>6

\* A share is part of what an eligible order has left.
LEMMA ShareWithin ==
  ASSUME Shaped, NEW tick, tick.volume \in Nat, NEW o \in DOMAIN venueOrders
  PROVE  /\ Allocation(tick)[o] \in Nat
         /\ Allocation(tick)[o] # 0 => Eligible(o, tick) /\ Allocation(tick)[o] <= Remaining(o)
<1> DEFINE d == Demand(First(o, tick))
           q == Allocation(tick)[o]
           r == Remaining(o)
<1>1. /\ d \in Nat
      /\ q = IF Eligible(o, tick)
             THEN IF d + r <= tick.volume THEN r
                  ELSE IF d <= tick.volume THEN tick.volume - d ELSE 0
             ELSE 0
  BY Shares
<1>2. Eligible(o, tick) => r \in Nat
  BY EligibleIsActive
<1> HIDE DEF d, q, r
<1>3. q \in Nat /\ (q # 0 => Eligible(o, tick) /\ q <= r)
  BY <1>1, <1>2
<1> QED
  BY <1>3 DEF q, r

-----------------------------------------------------------------------------
(* The executions of a tick. *)

\* What the loop appends for the orders with a share.
FillsOf(tick) ==
  {FillEvent(o, Allocation(tick)[o], tick) :
     o \in {p \in DOMAIN venueOrders : Allocation(tick)[p] > 0}}

\* The order accepted at place i, if it gets a share.
GetsShare(i, tick) ==
  venueJournal[i].kind = "VENUE_ACCEPTED" /\ Allocation(tick)[venueJournal[i].order] > 0
FillAt(i, tick) ==
  FillEvent(venueJournal[i].order, Allocation(tick)[venueJournal[i].order], tick)

\* f[i] are the executions once the first i places of the journal have been served.
Serving(f, tick) ==
  /\ f \in [0..Len(venueJournal) -> Seq(FillsOf(tick))]
  /\ f[0] = << >>
  /\ \A i \in 1..Len(venueJournal) :
       f[i] = IF GetsShare(i, tick) THEN Append(f[i-1], FillAt(i, tick)) ELSE f[i-1]

\* The recursion over the journal has exactly one solution.
LEMMA ServingExists ==
  ASSUME Shaped, Queued, NEW tick
  PROVE  \E f : Serving(f, tick) /\ Executions(tick) = f[Len(venueJournal)]
<1> DEFINE n == Len(venueJournal)
           S == Seq(FillsOf(tick))
           G == [i \in 1..n |-> [x \in S |->
                   IF GetsShare(i, tick) THEN Append(x, FillAt(i, tick)) ELSE x]]
           Rec(f) == f = [i \in 0..n |->
             IF i = 0 THEN << >>
             ELSE LET e == venueJournal[i]
                  IN  IF e.kind = "VENUE_ACCEPTED" /\ Allocation(tick)[e.order] > 0
                      THEN Append(f[i-1], FillEvent(e.order, Allocation(tick)[e.order], tick))
                      ELSE f[i-1]]
<1>1. n \in Nat /\ DOMAIN venueJournal = 1..n
  BY DEF Shaped
<1>2. << >> \in S
  OBVIOUS
<1>3. ASSUME NEW i \in 1..n, NEW x \in S
      PROVE  G[i][x] \in S
  <2>1. CASE GetsShare(i, tick)
    <3>1. venueJournal[i].order \in DOMAIN venueOrders /\ Allocation(tick)[venueJournal[i].order] > 0
      BY <1>1, <2>1 DEF GetsShare, Queued
    <3>2. FillAt(i, tick) \in FillsOf(tick)
      BY <3>1 DEF FillAt, FillsOf
    <3>3. G[i][x] = Append(x, FillAt(i, tick))
      BY <2>1
    <3> QED
      BY <3>2, <3>3
  <2>2. CASE ~GetsShare(i, tick)
    BY <2>2
  <2> QED
    BY <2>1, <2>2
<1>4. \E f \in [0..n -> S] : f[0] = << >> /\ \A i \in 1..n : f[i] = G[i][f[i-1]]
  <2>1. \A i \in 1..n : \A x \in S : G[i][x] \in S
    BY <1>3
  <2> DEFINE none == << >>
  <2>2. Stepwise(n, S, none, G)
    BY <1>1, <1>2, <2>1 DEF Stepwise
  <2> HIDE DEF n, S, G, none
  <2>3. \E f \in [0..n -> S] : f[0] = none /\ \A i \in 1..n : f[i] = G[i][f[i-1]]
    BY <2>2, PrefixRecursion
  <2> QED
    BY <2>3 DEF none
<1>5. PICK f \in [0..n -> S] : f[0] = << >> /\ \A i \in 1..n : f[i] = G[i][f[i-1]]
  BY <1>4
<1>6. \A i \in 1..n : f[i-1] \in S
  <2>1. \A i \in 1..n : i - 1 \in 0..n
    BY <1>1
  <2> HIDE DEF n, S
  <2> QED
    BY <2>1
<1>7. \A i \in 1..n : f[i] = IF GetsShare(i, tick) THEN Append(f[i-1], FillAt(i, tick)) ELSE f[i-1]
  BY <1>5, <1>6
<1>8. Serving(f, tick)
  BY <1>5, <1>7 DEF Serving
<1> DEFINE next(g, i) == IF i = 0 THEN << >>
                        ELSE IF GetsShare(i, tick) THEN Append(g[i-1], FillAt(i, tick)) ELSE g[i-1]
<1>9. \A g : Rec(g) <=> g = [i \in 0..n |-> next(g, i)]
  BY DEF GetsShare, FillAt
<1>10. \A i \in 0..n : f[i] = next(f, i)
  <2>1. \A i \in 0..n : i = 0 \/ i \in 1..n
    BY <1>1
  <2> QED
    BY <1>5, <1>7, <2>1
<1> HIDE DEF Rec
<1>11. Rec(f)
  <2>1. f = [i \in 0..n |-> next(f, i)]
    BY <1>10
  <2> QED
    BY <1>9, <2>1
<1>12. ASSUME NEW g, Rec(g)
       PROVE  g = f
  <2> DEFINE F == {k \in 0..n : g[k] = f[k]}
  <2>1. g = [i \in 0..n |-> next(g, i)]
    BY <1>9, <1>12
  <2>2. DOMAIN g = 0..n /\ \A i \in 0..n : g[i] = next(g, i)
    BY <2>1
  <2>3. 0 \in F
    <3>1. 0 \in 0..n
      BY <1>1
    <3> QED
      BY <1>5, <2>2, <3>1
  <2>4. ASSUME NEW k \in 0 .. n-1, k \in F
        PROVE  k+1 \in F
    <3>1. k+1 \in 0..n /\ k+1 # 0 /\ (k+1)-1 = k
      BY <1>1
    <3>2. g[k+1] = next(g, k+1) /\ f[k+1] = next(f, k+1)
      BY <1>10, <2>2, <3>1
    <3>3. next(g, k+1) = next(f, k+1)
      BY <2>4, <3>1
    <3> QED
      BY <3>1, <3>2, <3>3
  <2> HIDE DEF F
  <2>5. \A k \in 0..n : k \in F
    <3> HIDE DEF n, next
    <3> QED
      BY <1>1, <2>3, <2>4, PrefixInduction
  <2> QED
    BY <2>1, <2>2, <2>5 DEF F
<1>13. (CHOOSE g : Rec(g)) = f
  BY <1>11, <1>12
<1>14. Executions(tick) = f[n]
  BY <1>13 DEF Executions, Rec
<1> QED
  BY <1>8, <1>14

\* An execution is an event of the venue, of the share at the price of the tick.
LEMMA FillIsEvent ==
  ASSUME Shaped, NEW tick \in Ticks, NEW o \in DOMAIN venueOrders, NEW q \in Nat
  PROVE  LET e == FillEvent(o, q, tick)
         IN  /\ e \in VenueEvent /\ e.kind = "VENUE_FILL" /\ e.order = o /\ e.quantity = q
             /\ e.price = PriceFor(o, tick) /\ e.time = tick.time
<1> DEFINE price == PriceFor(o, tick)
           fee == Fee(venueOrders[o].side = "BUY", price * q)
<1>1. /\ tick.price \in Nat /\ tick.time \in Nat /\ tick.time \in Times /\ o \in OrderIds
      /\ venueOrders[o].tick_size \in Nat \ {0}
  BY TickAssumption, VenueBound DEF Shaped, Kept
<1>2. price \in Int
  <2> DEFINE step == venueOrders[o].tick_size
             up == tick.price * (10000 + SlippageBps)
             down == tick.price * (10000 - SlippageBps)
             per == 10000 * step
  <2>1. up \in Int /\ down \in Int /\ per \in Nat \ {0} /\ step \in Int
    BY <1>1, VenueSettings
  <2>2. price = IF venueOrders[o].side = "BUY" THEN ((up + per - 1) \div per) * step
                ELSE (down \div per) * step
    BY DEF PriceFor, ExecutionPrice
  <2> HIDE DEF price, up, down, per, step
  <2>3. (up + per - 1) \div per \in Int /\ down \div per \in Int
    BY <2>1
  <2> QED
    BY <2>1, <2>2, <2>3
<1>3. fee \in Int
  <2> DEFINE value == price * q
             low == MinimumFee * 10000
             share == value * CommissionRate
             most == Max({low, share})
             tax == IF venueOrders[o].side = "BUY" THEN 0 ELSE value * SellTaxRate
  <2>1. value \in Int /\ low \in Int
    <3> HIDE DEF price
    <3> QED
      BY <1>2, VenueSettings
  <2>2. fee = (2 * (most + tax) + 10000) \div 20000
    BY DEF Fee
  <2> HIDE DEF value, fee
  <2>3. share \in Int /\ tax \in Int
    BY <2>1, VenueSettings
  <2> HIDE DEF share, low, tax
  <2>4. most \in Int
    BY <2>1, <2>3, OfTwo
  <2> HIDE DEF most
  <2> QED
    BY <2>2, <2>3, <2>4
<1> DEFINE e == [kind |-> "VENUE_FILL", id |-> <<"VENUE_FILL", o, tick.time>>, order |-> o,
                 quantity |-> q, price |-> price, fee |-> fee, time |-> tick.time]
<1>4. FillEvent(o, q, tick) = e
  BY DEF FillEvent
<1> HIDE DEF price, fee
<1>5. e \in [kind : {"VENUE_FILL"}, id : {"VENUE_FILL"} \X OrderIds \X Nat, order : OrderIds,
             quantity : Nat, price : Int, fee : Int, time : Times]
  BY <1>1, <1>2, <1>3
<1>6. e \in VenueEvent
  BY <1>5 DEF VenueEvent
<1> QED
  BY <1>4, <1>6 DEF price

\* What a sequence of executions comes to.
Volume(s) == SumFunctionOnSet([k \in 1..Len(s) |-> s[k].quantity], 1..Len(s))

\* The orders that can trade at the tick, up to a place of the journal.
Ahead(i, tick) == {o \in DOMAIN venueOrders : Turn(o) <= i /\ Eligible(o, tick)}

\* One place further: the order accepted there comes after those ahead of it.
LEMMA AheadNext ==
  ASSUME Shaped, Queued, NEW tick, NEW i \in 1..Len(venueJournal)
  PROVE  LET o == venueJournal[i].order
         IN  IF venueJournal[i].kind = "VENUE_ACCEPTED" /\ Eligible(o, tick)
             THEN /\ o \in DOMAIN venueOrders \ Ahead(i-1, tick)
                  /\ Ahead(i, tick) = Ahead(i-1, tick) \union {o}
                  /\ First(o, tick) = Ahead(i-1, tick)
             ELSE Ahead(i, tick) = Ahead(i-1, tick)
<1> DEFINE D == DOMAIN venueOrders
           o == venueJournal[i].order
<1>1. /\ Len(venueJournal) \in Nat /\ i \in Int /\ DOMAIN venueJournal = 1..Len(venueJournal)
      /\ i \in DOMAIN venueJournal
  BY DEF Shaped
<1>2. \A p \in D : Turn(p) \in Int /\ Turn(p) \in DOMAIN venueJournal
  BY <1>1, Turns
<1>3. \A p \in D : (Turn(p) <= i <=> Turn(p) <= i-1 \/ Turn(p) = i) /\ (Turn(p) < i <=> Turn(p) <= i-1)
  BY <1>1, <1>2
<1>4. CASE venueJournal[i].kind = "VENUE_ACCEPTED"
  <2>1. o \in D /\ Turn(o) = i
    BY <1>1, <1>4, Turns DEF Queued
  <2>2. \A p \in D : Turn(p) = i <=> p = o
    BY <2>1, Turns
  <2>3. ~(Turn(o) <= i-1)
    BY <1>1, <2>1
  <2> HIDE DEF o
  <2> QED
    BY <1>3, <1>4, <2>1, <2>2, <2>3 DEF Ahead, First, o
<1>5. CASE venueJournal[i].kind # "VENUE_ACCEPTED"
  <2>1. \A p \in D : Turn(p) # i
    BY <1>5, Turns
  <2> QED
    BY <1>3, <1>5, <2>1 DEF Ahead
<1> QED
  BY <1>4, <1>5

\* One execution more.
LEMMA VolumeAppended ==
  ASSUME NEW S, NEW s \in Seq(S), \A x \in S : x.quantity \in Nat, NEW e \in S
  PROVE  /\ Volume(s) \in Nat
         /\ Volume(Append(s, e)) = Volume(s) + e.quantity
<1> DEFINE n == Len(s)
           t == Append(s, e)
           f == [k \in 1..n |-> s[k].quantity]
           g == [k \in 1..(n+1) |-> t[k].quantity]
<1>1. n \in Nat /\ Len(t) = n + 1 /\ t[n+1] = e /\ \A k \in 1..n : s[k] \in S /\ t[k] = s[k]
  OBVIOUS
<1>2. Volume(s) = SumFunctionOnSet(f, 1..n) /\ Volume(t) = SumFunctionOnSet(g, 1..(n+1))
  BY <1>1 DEF Volume
<1>3. \A k \in 1..n : f[k] \in Nat /\ g[k] = f[k]
  BY <1>1
<1>4. g[n+1] = e.quantity /\ e.quantity \in Nat
  BY <1>1
<1> HIDE DEF f, g, t, n
<1>5. SumFunctionOnSet(g, 1..(n+1)) = SumFunctionOnSet(f, 1..n) + e.quantity
  <2>1. e.quantity \in Int /\ \A k \in 1..n : f[k] \in Int
    BY <1>3, <1>4
  <2> QED
    BY <1>1, <1>3, <1>4, <2>1, SumAppended
<1>6. SumFunctionOnSet(f, 1..n) \in Nat
  <2>1. IsFiniteSet(1..n)
    BY <1>1, FS_Interval
  <2> DEFINE N == 1..n
  <2>2. IsFiniteSet(N) /\ \A k \in N : f[k] \in Nat
    BY <1>3, <2>1
  <2> HIDE DEF N
  <2>3. SumFunctionOnSet(f, N) \in Nat
    BY <2>2, SumNat
  <2> QED
    BY <2>3 DEF N
<1> QED
  BY <1>2, <1>5, <1>6 DEF t

\* The executions of a tick are events for orders with a share, and together they are
\* what is asked for or what was observed, whichever is less.
LEMMA ExecutionsWithin ==
  ASSUME Shaped, Queued, NEW tick \in Ticks
  PROVE  /\ Executions(tick) \in Seq(VenueEvent)
         /\ Executions(tick) \in Seq(FillsOf(tick))
         /\ Volume(Executions(tick)) \in Nat
         /\ Volume(Executions(tick)) <= tick.volume
<1> DEFINE n == Len(venueJournal)
           v == tick.volume
           X == FillsOf(tick)
           asked(i) == Demand(Ahead(i, tick))
<1>1. n \in Nat /\ DOMAIN venueJournal = 1..n /\ v \in Nat
  BY TickAssumption DEF Shaped
<1>2. PICK f : Serving(f, tick) /\ Executions(tick) = f[n]
  BY ServingExists
<1>3. \A x \in X : x \in VenueEvent /\ x.quantity \in Nat
  <2> SUFFICES ASSUME NEW o \in DOMAIN venueOrders, Allocation(tick)[o] > 0
               PROVE  LET x == FillEvent(o, Allocation(tick)[o], tick)
                      IN  x \in VenueEvent /\ x.quantity \in Nat
    BY DEF FillsOf
  <2>1. Allocation(tick)[o] \in Nat
    BY <1>1, ShareWithin
  <2> QED
    BY <2>1, FillIsEvent
<1>4. \A i \in 0..n : asked(i) \in Nat
  BY Demands DEF Ahead
<1>5. \A i \in 0..n : f[i] \in Seq(X)
  BY <1>2 DEF Serving
<1>6. asked(0) = 0
  <2>1. \A o \in DOMAIN venueOrders : ~(Turn(o) <= 0)
    BY <1>1, Turns
  <2>2. Ahead(0, tick) = {}
    BY <2>1 DEF Ahead
  <2> QED
    BY <2>2, Demands
<1>7. ASSUME NEW i \in 1..n
      PROVE  LET q == Allocation(tick)[venueJournal[i].order]
             IN  IF venueJournal[i].kind = "VENUE_ACCEPTED" /\ asked(i) # asked(i-1)
                 THEN /\ asked(i) >= asked(i-1)
                      /\ q = IF asked(i) <= v THEN asked(i) - asked(i-1)
                             ELSE IF asked(i-1) <= v THEN v - asked(i-1) ELSE 0
                 ELSE asked(i) = asked(i-1) /\ (venueJournal[i].kind = "VENUE_ACCEPTED" => q = 0)
  <2> DEFINE o == venueJournal[i].order
             q == Allocation(tick)[o]
             r == Remaining(o)
  <2>0. i \in DOMAIN venueJournal /\ i \in 0..n /\ i-1 \in 0..n
    BY <1>1
  <2>a. asked(i) \in Nat /\ asked(i-1) \in Nat
    BY <1>4, <2>0
  <2>1. CASE venueJournal[i].kind = "VENUE_ACCEPTED" /\ Eligible(o, tick)
    <3>1. /\ o \in DOMAIN venueOrders \ Ahead(i-1, tick)
          /\ Ahead(i, tick) = Ahead(i-1, tick) \union {o}
          /\ First(o, tick) = Ahead(i-1, tick)
      BY <2>1, AheadNext
    <3>2. asked(i) = asked(i-1) + r
      BY <3>1, Demands DEF Ahead
    <3>3. r \in Nat \ {0}
      BY <2>1, <3>1, EligibleIsActive
    <3>4. q = IF asked(i-1) + r <= v THEN r ELSE IF asked(i-1) <= v THEN v - asked(i-1) ELSE 0
      BY <1>1, <2>1, <3>1, Shares
    <3> HIDE DEF asked, q, o, v, r, n
    <3>5. asked(i) - asked(i-1) = r /\ asked(i) # asked(i-1) /\ asked(i) >= asked(i-1)
      BY <2>a, <3>2, <3>3
    <3> QED
      BY <2>1, <3>2, <3>4, <3>5 DEF q, o
  <2>2. CASE ~(venueJournal[i].kind = "VENUE_ACCEPTED" /\ Eligible(o, tick))
    <3>1. asked(i) = asked(i-1)
      BY <2>2, AheadNext
    <3>2. venueJournal[i].kind = "VENUE_ACCEPTED" => q = 0
      <4>1. venueJournal[i].kind = "VENUE_ACCEPTED" => o \in DOMAIN venueOrders
        BY <2>0 DEF Queued
      <4> QED
        BY <1>1, <2>2, <4>1, Shares
    <3> QED
      BY <3>1, <3>2
  <2> QED
    BY <2>1, <2>2
<1> DEFINE F == {i \in 0..n : Volume(f[i]) = IF asked(i) <= v THEN asked(i) ELSE v}
<1>8. 0 \in F
  <2>1. f[0] = << >>
    BY <1>2 DEF Serving
  <2>2. Volume(<< >>) = 0
    <3>1. Len(<< >>) = 0 /\ 1..0 = {}
      OBVIOUS
    <3> QED
      BY <3>1, SumEmpty DEF Volume
  <2> QED
    BY <1>1, <1>6, <2>1, <2>2
<1>9. ASSUME NEW k \in 0 .. n-1, k \in F
      PROVE  k+1 \in F
  <2> DEFINE i == k+1
             q == Allocation(tick)[venueJournal[i].order]
  <2>1. i \in 1..n /\ i \in 0..n /\ k \in 0..n /\ i-1 = k
    BY <1>1
  <2>2. asked(i) \in Nat /\ asked(k) \in Nat
    BY <1>4, <2>1
  <2>3. Volume(f[k]) = IF asked(k) <= v THEN asked(k) ELSE v
    BY <1>9
  <2>4. IF venueJournal[i].kind = "VENUE_ACCEPTED" /\ asked(i) # asked(k)
        THEN /\ asked(i) >= asked(k)
             /\ q = IF asked(i) <= v THEN asked(i) - asked(k)
                    ELSE IF asked(k) <= v THEN v - asked(k) ELSE 0
        ELSE asked(i) = asked(k) /\ (venueJournal[i].kind = "VENUE_ACCEPTED" => q = 0)
    BY <1>7, <2>1
  <2>5. f[i] = IF GetsShare(i, tick) THEN Append(f[k], FillAt(i, tick)) ELSE f[k]
    BY <1>2, <2>1 DEF Serving
  <2>6. GetsShare(i, tick) => Volume(f[i]) = Volume(f[k]) + q
    <3> SUFFICES ASSUME GetsShare(i, tick) PROVE Volume(f[i]) = Volume(f[k]) + q
      OBVIOUS
    <3>1. venueJournal[i].order \in DOMAIN venueOrders /\ q > 0
      BY <1>1, <2>1 DEF GetsShare, Queued
    <3>2. FillAt(i, tick) \in X
      BY <3>1 DEF FillAt, FillsOf
    <3>3. q \in Nat
      BY <1>1, <3>1, ShareWithin
    <3>4. FillAt(i, tick).quantity = q
      BY <3>1, <3>3, FillIsEvent DEF FillAt
    <3>5. f[k] \in Seq(X)
      BY <1>5, <2>1
    <3> HIDE DEF X
    <3> QED
      BY <1>3, <2>5, <3>2, <3>4, <3>5, VolumeAppended
  <2>7. GetsShare(i, tick) <=> venueJournal[i].kind = "VENUE_ACCEPTED" /\ q > 0
    BY DEF GetsShare
  <2>8. Volume(f[i]) = IF asked(i) <= v THEN asked(i) ELSE v
    <3> DEFINE a == asked(i)
               b == asked(k)
               c == Volume(f[k])
               d == Volume(f[i])
    <3>1. GetsShare(i, tick) => d = c + q
      BY <2>6
    <3>2. ~GetsShare(i, tick) => d = c
      BY <2>5
    <3> HIDE DEF a, b, c, d, q, i, v
    <3> QED
      BY <1>1, <2>2, <2>3, <2>4, <2>7, <3>1, <3>2 DEF a, b, c, d
  <2> QED
    BY <2>1, <2>8
<1> HIDE DEF F
<1>10. n \in F
  <2>1. \A k \in 0..n : k \in F
    <3> HIDE DEF n
    <3> QED
      BY <1>1, <1>8, <1>9, PrefixInduction
  <2> QED
    BY <1>1, <2>1
<1>11. Volume(f[n]) = IF asked(n) <= v THEN asked(n) ELSE v
  BY <1>10 DEF F
<1>12. n \in 0..n /\ asked(n) \in Nat /\ f[n] \in Seq(X)
  BY <1>1, <1>4, <1>5
<1>13. Seq(X) \subseteq Seq(VenueEvent)
  <2> HIDE DEF X
  <2> QED
    BY <1>3
<1> HIDE DEF asked, X, n, v
<1>14. Volume(f[n]) \in Nat /\ Volume(f[n]) <= v
  BY <1>1, <1>11, <1>12
<1> QED
  BY <1>2, <1>12, <1>13, <1>14 DEF X, v

\* An order with a share was eligible; each execution is of such an order.
LEMMA FillsAreShares ==
  ASSUME Shaped, Queued, NEW tick \in Ticks, NEW k \in 1..Len(Executions(tick))
  PROVE  LET e == Executions(tick)[k]
         IN  /\ e.kind = "VENUE_FILL" /\ e.time = tick.time /\ e.quantity \in Nat
             /\ e.order \in DOMAIN venueOrders /\ Eligible(e.order, tick)
             /\ e.price = PriceFor(e.order, tick)
<1>1. Executions(tick)[k] \in FillsOf(tick)
  BY ExecutionsWithin
<1>2. PICK o \in DOMAIN venueOrders :
         Allocation(tick)[o] > 0 /\ Executions(tick)[k] = FillEvent(o, Allocation(tick)[o], tick)
  BY <1>1 DEF FillsOf
<1>3. tick.volume \in Nat
  BY TickAssumption
<1>4. Allocation(tick)[o] \in Nat /\ Allocation(tick)[o] # 0 /\ Eligible(o, tick)
  BY <1>2, <1>3, ShareWithin
<1> QED
  BY <1>2, <1>4, FillIsEvent

\* What matching a tick does to the orders.
LEMMA MatchOrders ==
  ASSUME VenueInv, NEW tick \in Ticks, Match(tick)
  PROVE  /\ DOMAIN venueOrders' = DOMAIN venueOrders
         /\ \A o \in DOMAIN venueOrders :
              /\ Kept(venueOrders'[o]) /\ SameTerms(venueOrders[o], venueOrders'[o])
              /\ venueOrders'[o].quantity = venueOrders[o].quantity
              /\ venueOrders'[o].filled = venueOrders[o].filled + Allocation(tick)[o]
              /\ Allocation(tick)[o] = 0 => venueOrders'[o] = venueOrders[o]
              /\ Allocation(tick)[o] # 0 =>
                   venueOrders'[o].status = IF venueOrders'[o].filled = venueOrders[o].quantity
                                            THEN "FILLED" ELSE "PARTIAL"
              /\ venueOrders[o].status \notin VenueActive => venueOrders'[o] = venueOrders[o]
<1> DEFINE share == Allocation(tick)
           step(o) == [venueOrders[o] EXCEPT
                         !.filled = @ + share[o],
                         !.status = IF venueOrders[o].filled + share[o] = venueOrders[o].quantity
                                    THEN "FILLED" ELSE "PARTIAL"]
<1>1. venueOrders' = [o \in DOMAIN venueOrders |-> IF share[o] = 0 THEN venueOrders[o] ELSE step(o)]
  BY DEF Match
<1>2. tick.volume \in Nat /\ Shaped
  BY TickAssumption DEF VenueInv
<1>3. DOMAIN venueOrders' = DOMAIN venueOrders
  BY <1>1
<1>4. ASSUME NEW o \in DOMAIN venueOrders
      PROVE  /\ Kept(venueOrders'[o]) /\ SameTerms(venueOrders[o], venueOrders'[o])
             /\ venueOrders'[o].quantity = venueOrders[o].quantity
             /\ venueOrders'[o].filled = venueOrders[o].filled + share[o]
             /\ share[o] = 0 => venueOrders'[o] = venueOrders[o]
             /\ share[o] # 0 =>
                  venueOrders'[o].status = IF venueOrders'[o].filled = venueOrders[o].quantity
                                           THEN "FILLED" ELSE "PARTIAL"
             /\ venueOrders[o].status \notin VenueActive => venueOrders'[o] = venueOrders[o]
  <2> DEFINE old == venueOrders[o]
             q == share[o]
             sum == old.filled + q
             status == IF sum = old.quantity THEN "FILLED" ELSE "PARTIAL"
             a == [old EXCEPT !.filled = sum]
             b == [a EXCEPT !.status = status]
  <2>1. /\ Kept(old) /\ old.filled \in Nat /\ old.quantity \in Nat /\ old.filled <= old.quantity
    <3>1. Kept(old)
      BY <1>2 DEF Shaped
    <3> QED
      BY <3>1 DEF Kept
  <2>2. CASE q = 0
    <3>1. venueOrders'[o] = old
      BY <1>1, <2>2
    <3>2. old.filled + q = old.filled
      BY <2>1, <2>2
    <3> HIDE DEF old, q
    <3> QED
      BY <2>1, <2>2, <3>1, <3>2 DEF SameTerms, old, q
  <2>3. CASE q # 0
    <3>1. q \in Nat /\ Eligible(o, tick) /\ q <= Remaining(o)
      BY <1>2, <2>3, ShareWithin
    <3>2. old.status \in VenueActive
      BY <1>2, <3>1, EligibleIsActive
    <3>3. sum \in Nat /\ sum >= old.filled /\ sum <= old.quantity
      BY <2>1, <3>1 DEF Remaining
    <3>4. venueOrders'[o] = b
      BY <1>1, <2>3
    <3> HIDE DEF q, old, sum
    <3>5. DOMAIN a = DOMAIN old /\ (\A x \in DOMAIN old : x # "filled" => a[x] = old[x])
          /\ ("filled" \in DOMAIN old => a.filled = sum)
      OBVIOUS
    <3> HIDE DEF a, status
    <3>6. DOMAIN b = DOMAIN a /\ (\A x \in DOMAIN a : x # "status" => b[x] = a[x])
          /\ ("status" \in DOMAIN a => b.status = status)
      OBVIOUS
    <3> HIDE DEF b
    <3>7. {"symbol", "side", "quantity", "limit_price", "signal_at", "tick_size",
           "accepted_at", "filled", "status"} \subseteq DOMAIN old
      BY <2>1 DEF Kept
    <3>8. /\ DOMAIN b = DOMAIN old /\ b.filled = sum /\ b.status = status
          /\ b.symbol = old.symbol /\ b.side = old.side /\ b.limit_price = old.limit_price
          /\ b.signal_at = old.signal_at /\ b.accepted_at = old.accepted_at
          /\ b.quantity = old.quantity /\ b.tick_size = old.tick_size
      BY <3>5, <3>6, <3>7
    <3>9. status \in {"FILLED", "PARTIAL"} /\ (status = "FILLED" <=> sum = old.quantity)
      BY DEF status
    <3>10. Kept(b)
      <4>1. b.status \in VenueActive => b.filled < b.quantity
        BY <2>1, <3>3, <3>8, <3>9 DEF VenueActive
      <4>2. b.status \in VenueActive \union {"FILLED", "CANCELED", "REJECTED"}
        BY <3>8, <3>9 DEF VenueActive
      <4> QED
        BY <2>1, <3>3, <3>8, <4>1, <4>2 DEF Kept
    <3>11. venueOrders'[o].filled = old.filled + q
      BY <3>4, <3>8 DEF sum
    <3> QED
      BY <2>3, <3>2, <3>4, <3>8, <3>9, <3>10, <3>11 DEF SameTerms, old, q
  <2> QED
    BY <2>2, <2>3
<1> QED
  BY <1>3, <1>4

\* One sequence after another.
LEMMA Joined ==
  ASSUME NEW S, NEW s \in Seq(S), NEW t \in Seq(S)
  PROVE  /\ s \o t \in Seq(S) /\ Len(s \o t) = Len(s) + Len(t)
         /\ DOMAIN (s \o t) = 1..(Len(s) + Len(t))
         /\ \A i \in 1..Len(s) : (s \o t)[i] = s[i]
         /\ \A k \in 1..Len(t) : (s \o t)[Len(s) + k] = t[k]
OBVIOUS

\* What matching a tick writes: the tick and then its executions.
TickEvent(tick) ==
  [kind |-> "VENUE_TICK", symbol |-> tick.symbol, volume |-> tick.volume, time |-> tick.time]

LEMMA MatchJournal ==
  ASSUME VenueInv, NEW tick \in Ticks, Match(tick)
  PROVE  LET n == Len(venueJournal)
             m == Len(Executions(tick))
         IN  /\ n \in Nat /\ m \in Nat
             /\ venueJournal' \in Seq(VenueEvent)
             /\ DOMAIN venueJournal = 1..n
             /\ DOMAIN venueJournal' = 1..(n + 1 + m)
             /\ \A i \in 1..n : venueJournal'[i] = venueJournal[i]
             /\ venueJournal'[n + 1] = TickEvent(tick)
             /\ \A k \in 1..m : venueJournal'[n + 1 + k] = Executions(tick)[k]
             /\ \A i \in DOMAIN venueJournal' :
                  i \in 1..n \/ i = n + 1 \/ (i - (n + 1) \in 1..m /\ i = n + 1 + (i - (n + 1)))
<1> DEFINE n == Len(venueJournal)
           fills == Executions(tick)
           m == Len(fills)
           t == <<TickEvent(tick)>> \o fills
<1>1. Write(t)
  BY DEF Match, TickEvent
<1>2. TickEvent(tick) \in VenueEvent
  BY TickAssumption, VenueBound DEF TickEvent, VenueEvent
<1>3. fills \in Seq(VenueEvent)
  BY ExecutionsWithin DEF VenueInv
<1> HIDE DEF fills
<1>4. /\ m \in Nat /\ t \in Seq(VenueEvent) /\ Len(t) = 1 + m /\ DOMAIN t = 1..(1 + m)
      /\ t[1] = TickEvent(tick) /\ \A k \in 1..m : t[1 + k] = fills[k]
  <2> DEFINE e == TickEvent(tick)
             u == <<e>>
  <2>1. u \in Seq(VenueEvent) /\ Len(u) = 1 /\ u[1] = e
    BY <1>2
  <2>2. m \in Nat
    BY <1>3
  <2> HIDE DEF u, e
  <2>3. /\ t \in Seq(VenueEvent) /\ Len(t) = Len(u) + m /\ DOMAIN t = 1..(Len(u) + m)
        /\ \A i \in 1..Len(u) : t[i] = u[i]
        /\ \A k \in 1..m : t[Len(u) + k] = fills[k]
    BY <1>3, <2>1, Joined DEF u, e
  <2> QED
    BY <2>1, <2>2, <2>3 DEF e
<1> HIDE DEF t, m
<1>5. /\ venueJournal' \in Seq(VenueEvent) /\ n \in Nat
      /\ DOMAIN venueJournal = 1..n /\ DOMAIN venueJournal' = 1..(n + Len(t))
      /\ \A i \in DOMAIN venueJournal : venueJournal'[i] = venueJournal[i]
      /\ \A k \in DOMAIN t : venueJournal'[n + k] = t[k]
  BY <1>1, <1>4, Writing DEF VenueInv, Shaped
<1> HIDE DEF n
<1>6. n + Len(t) = n + 1 + m
  BY <1>4, <1>5
<1>7. venueJournal'[n + 1] = TickEvent(tick)
  <2>1. 1 \in DOMAIN t
    BY <1>4
  <2> QED
    BY <1>4, <1>5, <2>1
<1>8. ASSUME NEW k \in 1..m
      PROVE  venueJournal'[n + 1 + k] = fills[k]
  <2>1. 1 + k \in DOMAIN t /\ n + (1 + k) = n + 1 + k
    BY <1>4, <1>5
  <2>2. venueJournal'[n + (1 + k)] = t[1 + k]
    BY <1>5, <2>1
  <2> QED
    BY <1>4, <2>1, <2>2
<1>9. \A i \in 1..(n + 1 + m) :
        i \in 1..n \/ i = n + 1 \/ (i - (n + 1) \in 1..m /\ i = n + 1 + (i - (n + 1)))
  BY <1>4, <1>5
<1> QED
  BY <1>4, <1>5, <1>6, <1>7, <1>8, <1>9 DEF n, m, fills

\* A tick is later than all before it of its symbol: it has its executions to itself.
LEMMA MatchKeeps ==
  ASSUME VenueInv, NEW tick \in Ticks, Match(tick)
  PROVE  VenueInv'
<1> DEFINE n == Len(venueJournal)
           fills == Executions(tick)
           m == Len(fills)
           D == DOMAIN venueOrders
           e0 == TickEvent(tick)
<1>0. Shaped /\ Queued /\ Ticked /\ Closed /\ TickCapacity /\ FillsAreCausal
  BY DEF VenueInv
<1>1. /\ n \in Nat /\ m \in Nat
      /\ venueJournal' \in Seq(VenueEvent)
      /\ DOMAIN venueJournal = 1..n
      /\ DOMAIN venueJournal' = 1..(n + 1 + m)
      /\ \A i \in 1..n : venueJournal'[i] = venueJournal[i]
      /\ venueJournal'[n + 1] = e0
      /\ \A k \in 1..m : venueJournal'[n + 1 + k] = fills[k]
      /\ \A i \in DOMAIN venueJournal' :
           i \in 1..n \/ i = n + 1 \/ (i - (n + 1) \in 1..m /\ i = n + 1 + (i - (n + 1)))
  BY MatchJournal
<1>2. /\ DOMAIN venueOrders' = D
      /\ \A o \in D :
           /\ Kept(venueOrders'[o]) /\ SameTerms(venueOrders[o], venueOrders'[o])
           /\ venueOrders[o].status \notin VenueActive => venueOrders'[o] = venueOrders[o]
  BY MatchOrders
<1>3. \A k \in 1..m :
        /\ fills[k].kind = "VENUE_FILL" /\ fills[k].time = tick.time /\ fills[k].quantity \in Nat
        /\ fills[k].order \in D /\ Eligible(fills[k].order, tick)
        /\ fills[k].price = PriceFor(fills[k].order, tick)
  BY <1>0, FillsAreShares
<1>4. \A o \in D : Eligible(o, tick) =>
        venueOrders[o].symbol = tick.symbol /\ venueOrders[o].status \in VenueActive
  BY <1>0, EligibleIsActive
<1>5. \A i \in 1..n : venueJournal[i].kind = "VENUE_TICK" /\ venueJournal[i].symbol = tick.symbol =>
                        venueJournal[i].time < tick.time
  BY <1>1 DEF Match
<1>6. e0.kind = "VENUE_TICK" /\ e0.symbol = tick.symbol /\ e0.time = tick.time /\ e0.volume = tick.volume
  BY DEF TickEvent
<1>7. Volume(fills) \in Nat /\ Volume(fills) <= tick.volume
  BY <1>0, ExecutionsWithin
<1>8. tick.time \in Nat /\ tick.volume \in Nat
  BY TickAssumption, VenueBound
<1> HIDE DEF fills, m, e0, n
\* No new event but executions and the tick.
<1>9. \A i \in DOMAIN venueJournal' : venueJournal'[i].kind \notin {"VENUE_FILL", "VENUE_TICK"} =>
        i \in 1..n /\ venueJournal'[i] = venueJournal[i]
  <2> SUFFICES ASSUME NEW i \in DOMAIN venueJournal', i \notin 1..n
               PROVE  venueJournal'[i].kind \in {"VENUE_FILL", "VENUE_TICK"}
    BY <1>1
  <2>1. CASE i = n + 1
    BY <1>1, <1>6, <2>1
  <2>2. CASE i # n + 1
    <3>1. i - (n + 1) \in 1..m /\ i = n + 1 + (i - (n + 1))
      BY <1>1, <2>2
    <3>2. venueJournal'[i] = fills[i - (n + 1)]
      BY <1>1, <3>1
    <3> QED
      BY <1>3, <3>1, <3>2
  <2> QED
    BY <2>1, <2>2
<1>10. \A i \in 1..n : i \in DOMAIN venueJournal'
  BY <1>1
<1>11. Shaped'
  BY <1>0, <1>1, <1>2 DEF Shaped
<1>12. Queued'
  <2>1. \A i \in 1..n : venueJournal[i].kind = "VENUE_ACCEPTED" =>
          venueJournal[i].id = venueJournal[i].order /\ venueJournal[i].order \in D
    BY <1>0, <1>1 DEF Queued
  <2>2. \A o \in D : \E i \in 1..n :
          venueJournal[i].kind = "VENUE_ACCEPTED" /\ venueJournal[i].order = o
    BY <1>0, <1>1 DEF Queued
  <2>3. \A i, j \in 1..n :
          (/\ venueJournal[i].kind = "VENUE_ACCEPTED" /\ venueJournal[j].kind = "VENUE_ACCEPTED"
           /\ venueJournal[i].order = venueJournal[j].order) => i = j
    BY <1>0, <1>1 DEF Queued
  <2>4. \A i \in DOMAIN venueJournal' : venueJournal'[i].kind = "VENUE_ACCEPTED" =>
          i \in 1..n /\ venueJournal'[i] = venueJournal[i]
    BY <1>9
  <2>5. \A i \in 1..n : i \in DOMAIN venueJournal' /\ venueJournal'[i] = venueJournal[i]
    BY <1>1, <1>10
  <2> HIDE DEF D
  <2> QED
    BY <1>2, <2>1, <2>2, <2>3, <2>4, <2>5 DEF Queued
<1>13. Closed'
  <2>1. \A i \in 1..n : venueJournal[i].kind \in Closing =>
          /\ venueJournal[i].order \in D
          /\ venueOrders[venueJournal[i].order].status \notin VenueActive
    BY <1>0, <1>1 DEF Closed
  <2>2. \A i \in DOMAIN venueJournal' : venueJournal'[i].kind \in Closing =>
          i \in 1..n /\ venueJournal'[i] = venueJournal[i]
    BY <1>9 DEF Closing
  <2> HIDE DEF D
  <2> QED
    BY <1>2, <2>1, <2>2 DEF Closed
<1>14. \A j \in 1..n : venueJournal[j].kind = "VENUE_FILL" =>
         /\ venueJournal[j].order \in D
         /\ \E i \in 1..n :
              /\ venueJournal[i].kind = "VENUE_TICK" /\ venueJournal[i].time = venueJournal[j].time
              /\ venueJournal[i].symbol = venueOrders[venueJournal[j].order].symbol
  BY <1>0, <1>1 DEF Ticked
<1>15. Ticked'
  <2> SUFFICES ASSUME NEW j \in DOMAIN venueJournal', venueJournal'[j].kind = "VENUE_FILL"
               PROVE  /\ venueJournal'[j].order \in DOMAIN venueOrders'
                      /\ \E i \in DOMAIN venueJournal' :
                           /\ venueJournal'[i].kind = "VENUE_TICK"
                           /\ venueJournal'[i].time = venueJournal'[j].time
                           /\ venueJournal'[i].symbol = venueOrders'[venueJournal'[j].order].symbol
    BY DEF Ticked
  <2>1. CASE j \in 1..n
    <3>1. venueJournal'[j] = venueJournal[j]
      BY <1>1, <2>1
    <3>2. PICK i \in 1..n :
              /\ venueJournal[i].kind = "VENUE_TICK" /\ venueJournal[i].time = venueJournal[j].time
              /\ venueJournal[i].symbol = venueOrders[venueJournal[j].order].symbol
      BY <1>14, <2>1, <3>1
    <3>3. i \in DOMAIN venueJournal' /\ venueJournal'[i] = venueJournal[i]
      BY <1>1, <1>10
    <3> QED
      BY <1>2, <1>14, <2>1, <3>1, <3>2, <3>3 DEF SameTerms
  <2>2. CASE j \notin 1..n
    <3>1. PICK k \in 1..m : j = n + 1 + k
      BY <1>1, <1>6, <2>2
    <3>2. venueJournal'[j] = fills[k]
      BY <1>1, <3>1
    <3>3. n + 1 \in DOMAIN venueJournal'
      BY <1>1
    <3>4. venueOrders'[fills[k].order].symbol = tick.symbol
      BY <1>2, <1>3, <1>4 DEF SameTerms
    <3> QED
      BY <1>1, <1>2, <1>3, <1>6, <3>2, <3>3, <3>4, ZenonT(60)
  <2> QED
    BY <2>1, <2>2
<1>16. \A j \in 1..n : venueJournal[j].kind = "VENUE_FILL" =>
         /\ venueOrders'[venueJournal[j].order].symbol = venueOrders[venueJournal[j].order].symbol
         /\ SameTerms(venueOrders[venueJournal[j].order], venueOrders'[venueJournal[j].order])
  BY <1>2, <1>14 DEF SameTerms
<1>17. \A k \in 1..m : venueOrders'[fills[k].order].symbol = tick.symbol
  BY <1>2, <1>3, <1>4 DEF SameTerms
<1>18. TickCapacity'
  <2> SUFFICES ASSUME NEW i \in DOMAIN venueJournal', venueJournal'[i].kind = "VENUE_TICK"
               PROVE  Traded(venueJournal', Served(venueJournal', venueOrders', venueJournal'[i].time,
                                                   venueJournal'[i].symbol)) <= venueJournal'[i].volume
    BY DEF TickCapacity, Served, Traded
  <2>1. CASE i \in 1..n
    <3> DEFINE S == Served(venueJournal, venueOrders, venueJournal[i].time, venueJournal[i].symbol)
    <3>1. venueJournal'[i] = venueJournal[i] /\ venueJournal[i].kind = "VENUE_TICK"
      BY <1>1, <2>1
    <3>2. venueJournal[i].symbol = tick.symbol => venueJournal[i].time # tick.time
      <4>1. venueJournal[i].time \in Nat
        BY <1>0, <1>1, <2>1, <3>1, EventFields DEF Shaped
      <4> QED
        BY <1>5, <1>8, <2>1, <3>1, <4>1
    <3>3. \A j \in DOMAIN venueJournal' :
            (/\ venueJournal'[j].kind = "VENUE_FILL" /\ venueJournal'[j].time = venueJournal[i].time
             /\ venueOrders'[venueJournal'[j].order].symbol = venueJournal[i].symbol)
            => j \in 1..n
      <4> SUFFICES ASSUME NEW j \in DOMAIN venueJournal', j \notin 1..n, venueJournal'[j].kind = "VENUE_FILL"
                   PROVE  /\ venueJournal'[j].time = tick.time
                          /\ venueOrders'[venueJournal'[j].order].symbol = tick.symbol
        BY <3>2
      <4>1. j - (n + 1) \in 1..m /\ j = n + 1 + (j - (n + 1))
        BY <1>1, <1>6
      <4>2. venueJournal'[j] = fills[j - (n + 1)]
        BY <1>1, <4>1
      <4> QED
        BY <1>3, <1>17, <4>1, <4>2
    <3>4. Served(venueJournal', venueOrders', venueJournal'[i].time, venueJournal'[i].symbol) = S
      <4>1. \A j \in 1..n : venueJournal'[j] = venueJournal[j] /\ j \in DOMAIN venueJournal'
        BY <1>1, <1>10
      <4> QED
        BY <1>1, <1>16, <3>1, <3>3, <4>1 DEF Served
    <3>5. IsFiniteSet(S) /\ \A j \in S : venueJournal'[j] = venueJournal[j]
      <4>1. IsFiniteSet(1..n)
        BY <1>1, FS_Interval
      <4>2. S \subseteq 1..n
        BY <1>1 DEF Served
      <4> QED
        BY <1>1, <4>1, <4>2, FS_Subset
    <3>6. Traded(venueJournal, S) <= venueJournal[i].volume
      BY <1>0, <1>1, <2>1, <3>1, Capacity
    <3> HIDE DEF S
    <3>7. Traded(venueJournal', S) = Traded(venueJournal, S)
      BY <3>5, TradedSame
    <3> QED
      BY <3>1, <3>4, <3>6, <3>7
  <2>2. CASE i \notin 1..n
    <3> DEFINE S == (n+1+1)..(n+1+m)
    <3>1. i = n + 1 /\ venueJournal'[i] = e0
      BY <1>1, <1>3, <2>2, ZenonT(60)
    <3>2. Served(venueJournal', venueOrders', tick.time, tick.symbol) = S
      <4>1. ASSUME NEW j \in DOMAIN venueJournal', venueJournal'[j].kind = "VENUE_FILL",
                   venueJournal'[j].time = tick.time,
                   venueOrders'[venueJournal'[j].order].symbol = tick.symbol
            PROVE  j \in S
        <5>1. j \notin 1..n
          <6> SUFFICES ASSUME j \in 1..n PROVE FALSE
            OBVIOUS
          <6>1. venueJournal'[j] = venueJournal[j]
            BY <1>1
          <6>2. PICK h \in 1..n :
                   /\ venueJournal[h].kind = "VENUE_TICK" /\ venueJournal[h].time = venueJournal[j].time
                   /\ venueJournal[h].symbol = venueOrders[venueJournal[j].order].symbol
            BY <1>14, <4>1, <6>1
          <6>3. venueJournal[h].symbol = tick.symbol /\ venueJournal[h].time = tick.time
            BY <1>16, <4>1, <6>1, <6>2
          <6> QED
            BY <1>5, <1>8, <6>2, <6>3
        <5>2. j # n + 1
          BY <1>1, <1>6, <4>1
        <5> QED
          BY <1>1, <5>1, <5>2
      <4>2. ASSUME NEW j \in S
            PROVE  /\ j \in DOMAIN venueJournal' /\ venueJournal'[j].kind = "VENUE_FILL"
                   /\ venueJournal'[j].time = tick.time
                   /\ venueOrders'[venueJournal'[j].order].symbol = tick.symbol
        <5>1. j - (n+1) \in 1..m /\ j = n + 1 + (j - (n+1)) /\ j \in 1..(n + 1 + m)
          BY <1>1
        <5>2. venueJournal'[j] = fills[j - (n+1)]
          BY <1>1, <5>1
        <5> QED
          BY <1>1, <1>3, <1>17, <5>1, <5>2
      <4> HIDE DEF S
      <4> QED
        BY <4>1, <4>2 DEF Served
    <3>3. Traded(venueJournal', S) = Volume(fills)
      <4> DEFINE s == [k \in 1..m |-> fills[k].quantity]
                 t == [j \in S |-> venueJournal'[j].quantity]
                 b == n + 1
      <4>1. \A k \in 1..m : s[k] \in Int /\ b + k \in S /\ t[b+k] = s[k]
        <5>1. ASSUME NEW k \in 1..m
              PROVE  s[k] \in Int /\ b + k \in S /\ t[b+k] = s[k]
          <6>1. b + k \in S
            BY <1>1
          <6>2. venueJournal'[b + k] = fills[k] /\ fills[k].quantity \in Nat
            BY <1>1, <1>3
          <6> QED
            BY <6>1, <6>2
        <5> QED
          BY <5>1
      <4>2. b \in Nat /\ S = (b+1)..(b+m)
        BY <1>1
      <4> HIDE DEF s, t, b
      <4>6. \A k \in 1..m : s[k] \in Int /\ t[b+k] = s[k]
        BY <4>1
      <4>7. b \in Nat /\ m \in Nat
        BY <1>1, <4>2
      <4> HIDE DEF S
      <4>3. SumFunctionOnSet(t, (b+1)..(b+m)) = SumFunctionOnSet(s, 1..m)
        <5>1. Moved(s, t, b, m)
          BY <4>6, <4>7 DEF Moved
        <5> QED
          BY <5>1, SumShifted
      <4>4. SumFunctionOnSet(t, S) = Traded(venueJournal', S)
        BY DEF Traded, t
      <4>5. SumFunctionOnSet(s, 1..m) = Volume(fills)
        BY DEF Volume, s, m
      <4> QED
        BY <4>2, <4>3, <4>4, <4>5
    <3> HIDE DEF S
    <3> QED
      BY <1>6, <1>7, <3>1, <3>2, <3>3
  <2> QED
    BY <2>1, <2>2
<1>19. FillsAreCausal'
  <2> SUFFICES ASSUME NEW j \in DOMAIN venueJournal', venueJournal'[j].kind = "VENUE_FILL"
               PROVE  Caused(venueJournal', venueOrders', j)
    BY DEF FillsAreCausal, Caused, Closing
  <2>1. CASE j \in 1..n
    <3>1. venueJournal'[j] = venueJournal[j]
      BY <1>1, <2>1
    <3>2. Caused(venueJournal, venueOrders, j)
      BY <1>0, <1>1, <2>1, <3>1 DEF FillsAreCausal, Caused, Closing
    <3>3. \A i \in 1..(j-1) : venueJournal'[i] = venueJournal[i]
      BY <1>1, <2>1
    <3>4. SameTerms(venueOrders[venueJournal[j].order], venueOrders'[venueJournal[j].order])
      BY <1>16, <2>1, <3>1
    <3> QED
      BY <3>1, <3>2, <3>3, <3>4 DEF Caused, SameTerms
  <2>2. CASE j \notin 1..n
    <3>1. PICK k \in 1..m : j = n + 1 + k
      BY <1>1, <1>6, <2>2
    <3> DEFINE o == fills[k].order
    <3>2. /\ venueJournal'[j] = fills[k] /\ o \in D /\ Eligible(o, tick)
          /\ fills[k].price = PriceFor(o, tick) /\ fills[k].time = tick.time
      BY <1>1, <1>3, <3>1
    <3>3. /\ venueOrders[o].accepted_at <= tick.time /\ venueOrders[o].signal_at < tick.time
          /\ IF venueOrders[o].side = "BUY" THEN PriceFor(o, tick) <= venueOrders[o].limit_price
             ELSE PriceFor(o, tick) >= venueOrders[o].limit_price
      BY <3>2 DEF Eligible
    <3>4. SameTerms(venueOrders[o], venueOrders'[o]) /\ venueOrders[o].status \in VenueActive
      BY <1>2, <1>4, <3>2
    <3>5. ASSUME NEW i \in 1..(j-1), venueJournal'[i].kind \in Closing
          PROVE  venueJournal'[i].order # o
      <4>1. i \in DOMAIN venueJournal'
        BY <1>1, <3>1
      <4>2. i \in 1..n /\ venueJournal'[i] = venueJournal[i]
        BY <1>9, <3>5, <4>1 DEF Closing
      <4>3. venueOrders[venueJournal[i].order].status \notin VenueActive
        BY <1>0, <1>1, <3>5, <4>2 DEF Closed
      <4> QED
        BY <3>4, <4>2, <4>3
    <3> HIDE DEF o
    <3> QED
      BY <3>2, <3>3, <3>4, <3>5 DEF Caused, SameTerms, o
  <2> QED
    BY <2>1, <2>2
<1> QED
  BY <1>11, <1>12, <1>13, <1>15, <1>18, <1>19 DEF VenueInv

-----------------------------------------------------------------------------
(* Every step. *)

\* Every operation of the venue keeps the invariant.
LEMMA VenueInvNext ==
  ASSUME VenueInv, [Next]_venueVars
  PROVE  VenueInv'
<1>1. ASSUME NEW offer \in Offers, Accept(offer.id, offer.order)
      PROVE  VenueInv'
  BY <1>1, AcceptKeeps
<1>2. ASSUME NEW tick \in Ticks, Match(tick)
      PROVE  VenueInv'
  BY <1>2, MatchKeeps
<1>3. ASSUME NEW when \in Times, NEW o \in DOMAIN venueOrders, Cancel(o, when) \/ Reject(o, when)
      PROVE  VenueInv'
  <2>1. CASE Cancel(o, when)
    BY <2>1, CloseKeeps DEF Cancel, Closing
  <2>2. CASE Reject(o, when)
    BY <2>2, CloseKeeps DEF Reject, Closing
  <2> QED
    BY <1>3, <2>1, <2>2
<1>4. ASSUME NEW when \in Times, NEW id \in ActionIds, NEW a \in Entitlements,
             CorporateAction(id, a, when)
      PROVE  VenueInv'
  BY <1>4, CorporateActionKeeps
<1>5. CASE UNCHANGED venueVars
  <2>1. venueJournal' = venueJournal /\ venueOrders' = venueOrders
    BY <1>5 DEF venueVars
  <2>2. Shaped' /\ Queued' /\ Ticked' /\ Closed'
    BY <2>1 DEF VenueInv, Shaped, Queued, Ticked, Closed
  <2>3. TickCapacity'
    <3>1. TickCapacity'
            <=> \A i \in DOMAIN venueJournal' :
                  venueJournal'[i].kind = "VENUE_TICK" =>
                    Traded(venueJournal', Served(venueJournal', venueOrders', venueJournal'[i].time,
                                                 venueJournal'[i].symbol)) <= venueJournal'[i].volume
      BY DEF TickCapacity, Served, Traded
    <3> QED
      BY <2>1, <3>1, Capacity DEF VenueInv
  <2>4. FillsAreCausal'
    BY <2>1 DEF VenueInv, FillsAreCausal
  <2> QED
    BY <2>2, <2>3, <2>4 DEF VenueInv
<1> QED
  BY <1>1, <1>2, <1>3, <1>4, <1>5 DEF Next

\* The venue keeps its journal and its orders in agreement: one acceptance for each
\* order, a tick for each execution, no order active that was closed (match and orders(),
\* paper_venue.py:54-107).
THEOREM VenueInvariant == Spec => []VenueInv
<1>1. VenueInv /\ [Next]_venueVars => VenueInv'
  BY VenueInvNext
<1> QED
  BY <1>1, VenueInvInit, PTL DEF Spec

\* A tick never fills more shares than were observed, over all the orders it serves and
\* whatever they ask for (available_volume, paper_venue.py:84-104).
THEOREM TicksNotOversold == Spec => []TickCapacity
<1>1. VenueInv => TickCapacity
  BY DEF VenueInv
<1> QED
  BY <1>1, VenueInvariant, PTL

\* No execution before the order was accepted, at or before its signal, worse than its
\* limit, or after the order was closed (paper_venue.py:89-98).
THEOREM ExecutionsAreCausal == Spec => []FillsAreCausal
<1>1. VenueInv => FillsAreCausal
  BY DEF VenueInv
<1> QED
  BY <1>1, VenueInvariant, PTL

\* Who gets a share leaves nobody before it with a remainder.
LEMMA ServedInTurn ==
  ASSUME VenueInv, NEW tick \in Ticks, Match(tick),
         NEW o \in DOMAIN venueOrders, NEW p \in DOMAIN venueOrders,
         Turn(o) < Turn(p), Eligible(o, tick), venueOrders'[p].filled > venueOrders[p].filled
  PROVE  venueOrders'[o].status = "FILLED"
<1> DEFINE v == tick.volume
           share == Allocation(tick)
           before(x) == Demand(First(x, tick))
<1>0. Shaped /\ Queued /\ v \in Nat
  BY TickAssumption DEF VenueInv
<1>1. \A x \in {o, p} :
        /\ before(x) \in Nat
        /\ share[x] = IF Eligible(x, tick)
                      THEN IF before(x) + Remaining(x) <= v THEN Remaining(x)
                           ELSE IF before(x) <= v THEN v - before(x) ELSE 0
                      ELSE 0
  BY <1>0, Shares
<1>2. \A x \in {o, p} :
        /\ venueOrders[x].filled \in Nat /\ venueOrders[x].quantity \in Nat
        /\ venueOrders'[x].filled = venueOrders[x].filled + share[x]
        /\ share[x] # 0 => venueOrders'[x].status = IF venueOrders'[x].filled = venueOrders[x].quantity
                                                    THEN "FILLED" ELSE "PARTIAL"
        /\ share[x] \in Nat
  <2>1. \A x \in {o, p} : Kept(venueOrders[x]) /\ share[x] \in Nat
    BY <1>0, ShareWithin DEF Shaped
  <2>2. \A x \in {o, p} : venueOrders[x].filled \in Nat /\ venueOrders[x].quantity \in Nat
    BY <2>1 DEF Kept
  <2> QED
    BY <2>1, <2>2, MatchOrders
<1>3. share[p] > 0
  BY <1>2
<1>4. Eligible(p, tick) /\ before(p) < v
  <2>1. Eligible(p, tick)
    BY <1>1, <1>3
  <2>2. Remaining(p) \in Nat \ {0}
    BY <1>0, <2>1, EligibleIsActive
  <2> HIDE DEF before, share, v
  <2> QED
    BY <1>0, <1>1, <1>3, <2>1, <2>2
<1>5. before(o) + Remaining(o) <= before(p)
  <2> DEFINE S == First(o, tick)
             T == First(p, tick)
  <2>1. \A x \in DOMAIN venueOrders : Turn(x) \in Int
    <3>1. DOMAIN venueJournal \subseteq Int
      BY <1>0 DEF Shaped
    <3> QED
      BY <1>0, <3>1, Turns
  <2>2. S \in SUBSET DOMAIN venueOrders /\ T \in SUBSET DOMAIN venueOrders /\ o \notin S
    BY <2>1 DEF First
  <2>3. S \union {o} \in SUBSET T
    BY <2>1 DEF First
  <2> HIDE DEF S, T
  <2>4. Demand(S \union {o}) = Demand(S) + Remaining(o) /\ Demand(S \union {o}) <= Demand(T)
    BY <1>0, <2>2, <2>3, Demands
  <2> QED
    BY <2>4 DEF S, T
<1>6. Remaining(o) \in Nat \ {0}
  BY <1>0, EligibleIsActive
<1>7. share[o] = Remaining(o)
  <2> HIDE DEF before, share, v
  <2> QED
    BY <1>0, <1>1, <1>4, <1>5, <1>6
<1>8. venueOrders'[o].filled = venueOrders[o].quantity
  BY <1>2, <1>7 DEF Remaining
<1> QED
  BY <1>2, <1>6, <1>7, <1>8

\* Orders that can trade at a tick are served in the order the venue accepted them:
\* nobody gets a share while one before it is left with a remainder (the dict order of
\* orders(), paper_venue.py:86-104).
THEOREM PriorityKept == Spec => AcceptancePriority
<1>1. VenueInv =>
        \A tick \in Ticks, o, p \in DOMAIN venueOrders :
          (/\ Match(tick)
           /\ Turn(o) < Turn(p)
           /\ Eligible(o, tick)
           /\ venueOrders'[p].filled > venueOrders[p].filled)
             => venueOrders'[o].status = "FILLED"
  BY ServedInTurn
<1> QED
  BY <1>1, VenueInvariant, PTL DEF AcceptancePriority

-----------------------------------------------------------------------------
(* The life cycle of an order. *)

Asked == UNION {1..offer.order.quantity : offer \in Offers}

\* A kept order has the quantity it was offered with.
Offered == \A o \in DOMAIN venueOrders : venueOrders[o].quantity \in Asked

LifeOf(o) ==
  IF o \in DOMAIN venueOrders
  THEN [quantity |-> venueOrders[o].quantity, filled |-> venueOrders[o].filled,
        phase |-> VenuePhase(venueOrders[o].status)]
  ELSE [quantity |-> 0, filled |-> 0, phase |-> "unused"]
Life == [o \in OrderIds |-> LifeOf(o)]

\* Any part of an offered quantity is one an order may trade.
LEMMA PartsAreAsked ==
  ASSUME NEW q \in Asked, NEW n \in Nat \ {0}, n <= q
  PROVE  n \in Asked
<1>1. PICK offer \in Offers : q \in 1..offer.order.quantity
  BY DEF Asked
<1>2. offer.order.quantity \in Nat
  BY OfferAssumption
<1>3. n \in 1..offer.order.quantity
  BY <1>1, <1>2
<1> QED
  BY <1>3 DEF Asked

\* Steps of single orders, each of its own life.
LEMMA LivesMove ==
  ASSUME \A o \in OrderIds : \/ LifeOf(o)' = LifeOf(o) \/ Lifecycle!Open(o) \/ Lifecycle!Trade(o)
                             \/ Lifecycle!AskCancel(o) \/ Lifecycle!Close(o)
  PROVE  Lifecycle!Next
BY DEF Lifecycle!Next, LifeOf

\* Accepting opens an unused life.
LEMMA AcceptLives ==
  ASSUME VenueInv, Offered, NEW offer \in Offers, Accept(offer.id, offer.order)
  PROVE  Lifecycle!Next /\ Offered'
<1> DEFINE id == offer.id
           order == offer.order
           new == [order EXCEPT !.filled = 0, !.status = "ACCEPTED"]
<1>1. id \notin DOMAIN venueOrders
  BY Unknown DEF Accept
<1>2. /\ id \in OrderIds /\ order.quantity \in Nat \ {0} /\ new.quantity = order.quantity
      /\ new.filled = 0 /\ new.status = "ACCEPTED"
  BY OfferAssumption, AcceptedOrder
<1>3. /\ DOMAIN venueOrders' = DOMAIN venueOrders \union {id} /\ venueOrders'[id] = new
      /\ \A p \in DOMAIN venueOrders : venueOrders'[p] = venueOrders[p]
  BY <1>1 DEF Accept
<1>4. order.quantity \in Asked
  BY <1>2 DEF Asked
<1> HIDE DEF new, id, order
<1>5. LifeOf(id)' = [quantity |-> order.quantity, filled |-> 0, phase |-> "open"]
  BY <1>2, <1>3 DEF LifeOf, VenuePhase, VenueActive
<1>6. Lifecycle!Open(id)
  BY <1>1, <1>2, <1>4, <1>5 DEF Lifecycle!Open, Lifecycle!Unused, LifeOf, Asked
<1>7. \A p \in OrderIds : p # id => LifeOf(p)' = LifeOf(p)
  BY <1>3 DEF LifeOf
<1>8. Offered'
  BY <1>2, <1>3, <1>4 DEF Offered
<1> QED
  BY <1>6, <1>7, <1>8, LivesMove

\* Each order with a share trades it.
LEMMA MatchLives ==
  ASSUME VenueInv, Offered, NEW tick \in Ticks, Match(tick)
  PROVE  Lifecycle!Next /\ Offered'
<1> DEFINE D == DOMAIN venueOrders
           share == Allocation(tick)
<1>1. Shaped /\ tick.volume \in Nat /\ D \subseteq OrderIds
  BY TickAssumption DEF VenueInv, Shaped
<1>2. /\ DOMAIN venueOrders' = D
      /\ \A o \in D :
           /\ venueOrders'[o].quantity = venueOrders[o].quantity
           /\ venueOrders'[o].filled = venueOrders[o].filled + share[o]
           /\ share[o] = 0 => venueOrders'[o] = venueOrders[o]
           /\ share[o] # 0 =>
                venueOrders'[o].status = IF venueOrders'[o].filled = venueOrders[o].quantity
                                         THEN "FILLED" ELSE "PARTIAL"
  BY MatchOrders
<1>3. ASSUME NEW o \in D, share[o] # 0
      PROVE  Lifecycle!Trade(o)
  <2> DEFINE q == share[o]
             old == venueOrders[o]
  <2>1. q \in Nat \ {0} /\ q <= Remaining(o) /\ Eligible(o, tick)
    BY <1>1, <1>3, ShareWithin
  <2>2. old.status \in VenueActive
    BY <1>1, <2>1, EligibleIsActive
  <2>3. old.quantity \in Nat /\ old.filled \in Nat
    <3>1. Kept(old)
      BY <1>1 DEF Shaped
    <3> QED
      BY <3>1 DEF Kept
  <2>4. old.filled + q <= old.quantity /\ q <= old.quantity
    BY <2>1, <2>3 DEF Remaining
  <2>5. q \in Asked
    BY <2>1, <2>4, PartsAreAsked DEF Offered
  <2>6. LifeOf(o) = [quantity |-> old.quantity, filled |-> old.filled, phase |-> "open"]
    BY <2>2 DEF LifeOf, VenuePhase
  <2>7. LifeOf(o)' = [quantity |-> old.quantity, filled |-> old.filled + q,
                      phase |-> IF old.filled + q = old.quantity THEN "closed" ELSE "open"]
    <3>1. /\ venueOrders'[o].quantity = old.quantity /\ venueOrders'[o].filled = old.filled + q
          /\ venueOrders'[o].status = IF old.filled + q = old.quantity THEN "FILLED" ELSE "PARTIAL"
          /\ o \in DOMAIN venueOrders'
      BY <1>2, <1>3
    <3> HIDE DEF old, q
    <3> QED
      BY <3>1 DEF LifeOf, VenuePhase, VenueActive
  <2> HIDE DEF q, old
  <2>8. LifeOf(o)' = [LifeOf(o) EXCEPT !.filled = @ + q,
                        !.phase = IF LifeOf(o).filled + q = LifeOf(o).quantity THEN "closed" ELSE @]
    <3> DEFINE one == LifeOf(o)
               a == old.quantity
               b == old.filled
    <3>1. one = [quantity |-> a, filled |-> b, phase |-> "open"]
      BY <2>6
    <3> HIDE DEF one, a, b
    <3>2. [one EXCEPT !.filled = @ + q,
                      !.phase = IF one.filled + q = one.quantity THEN "closed" ELSE @]
            = [quantity |-> a, filled |-> b + q, phase |-> IF b + q = a THEN "closed" ELSE "open"]
      <4> DEFINE sum == b + q
                 then == IF sum = a THEN "closed" ELSE "open"
                 traded == [one EXCEPT !.filled = sum]
      <4>1. one.filled = b /\ one.quantity = a /\ one.phase = "open"
        BY <3>1
      <4>2. [one EXCEPT !.filled = @ + q, !.phase = IF one.filled + q = one.quantity THEN "closed" ELSE @]
              = [traded EXCEPT !.phase = then]
        BY <4>1
      <4> HIDE DEF sum, then
      <4>3. traded = [quantity |-> a, filled |-> sum, phase |-> "open"]
        BY <3>1
      <4> HIDE DEF traded
      <4>4. [traded EXCEPT !.phase = then] = [quantity |-> a, filled |-> sum, phase |-> then]
        BY <4>3
      <4> QED
        BY <4>2, <4>4 DEF sum, then
    <3> QED
      BY <2>7, <3>2, Zenon DEF one, a, b
  <2>9. LifeOf(o).phase \in {"open", "closing"} /\ LifeOf(o).filled + q <= LifeOf(o).quantity
    BY <2>4, <2>6
  <2> QED
    BY <1>1, <2>5, <2>8, <2>9 DEF Lifecycle!Trade, Lifecycle!Alive, LifeOf, Asked
<1>4. \A o \in OrderIds : (o \in D => share[o] = 0) => LifeOf(o)' = LifeOf(o)
  BY <1>2 DEF LifeOf
<1>5. Offered'
  BY <1>2 DEF Offered
<1> HIDE DEF D, share
<1> QED
  BY <1>3, <1>4, <1>5, LivesMove

\* A cancellation or a rejection closes an open life.
LEMMA CloseLives ==
  ASSUME VenueInv, Offered, NEW o \in DOMAIN venueOrders, NEW when, NEW kind,
         NEW status \in {"CANCELED", "REJECTED"}, Close(kind, status, o, when)
  PROVE  Lifecycle!Next /\ Offered'
<1> DEFINE old == venueOrders[o]
           new == [old EXCEPT !.status = status]
<1>1. Kept(old) /\ o \in OrderIds /\ old.status \in VenueActive
  BY DEF VenueInv, Shaped, Close, IsActive
<1>2. /\ DOMAIN venueOrders' = DOMAIN venueOrders /\ venueOrders'[o] = new
      /\ \A p \in DOMAIN venueOrders : p # o => venueOrders'[p] = venueOrders[p]
  BY DEF Close
<1>3. new.quantity = old.quantity /\ new.filled = old.filled /\ new.status = status
  BY <1>1 DEF Kept
<1> HIDE DEF new
<1>4. LifeOf(o) = [quantity |-> old.quantity, filled |-> old.filled, phase |-> "open"]
  BY <1>1 DEF LifeOf, VenuePhase
<1>5. LifeOf(o)' = [quantity |-> old.quantity, filled |-> old.filled, phase |-> "closed"]
  BY <1>2, <1>3 DEF LifeOf, VenuePhase, VenueActive
<1>6. LifeOf(o)' = [LifeOf(o) EXCEPT !.phase = "closed"] /\ LifeOf(o).phase = "open"
  BY <1>4, <1>5
<1>7. Lifecycle!Close(o)
  BY <1>1, <1>6 DEF Lifecycle!Close, Lifecycle!Alive, LifeOf
<1>8. \A p \in OrderIds : p # o => LifeOf(p)' = LifeOf(p)
  BY <1>2 DEF LifeOf
<1>9. Offered'
  BY <1>2, <1>3 DEF Offered
<1> QED
  BY <1>7, <1>8, <1>9, LivesMove

\* Whatever the venue does, each order takes a step of its life cycle or none.
LEMMA StepLives ==
  ASSUME VenueInv, Offered, [Next]_venueVars
  PROVE  [Lifecycle!Next]_Life /\ Offered'
<1>1. ASSUME NEW offer \in Offers, Accept(offer.id, offer.order)
      PROVE  Lifecycle!Next /\ Offered'
  BY <1>1, AcceptLives
<1>2. ASSUME NEW tick \in Ticks, Match(tick)
      PROVE  Lifecycle!Next /\ Offered'
  BY <1>2, MatchLives
<1>3. ASSUME NEW when \in Times, NEW o \in DOMAIN venueOrders, Cancel(o, when) \/ Reject(o, when)
      PROVE  Lifecycle!Next /\ Offered'
  BY <1>3, CloseLives DEF Cancel, Reject
<1>4. CASE UNCHANGED venueOrders
  BY <1>4 DEF Life, LifeOf, Offered
<1>5. ASSUME NEW when \in Times, NEW id \in ActionIds, NEW a \in Entitlements,
             CorporateAction(id, a, when)
      PROVE  UNCHANGED venueOrders
  BY <1>5 DEF CorporateAction
<1>6. UNCHANGED venueVars => UNCHANGED venueOrders
  BY DEF venueVars
<1> QED
  BY <1>1, <1>2, <1>3, <1>4, <1>5, <1>6 DEF Next

\* The venue implements the life cycle of an order: an order trades up to its quantity,
\* closes once and is never touched again (orders(), paper_venue.py:54-65).
THEOREM VenueImplementsLifecycle == Spec => VenueLifecycleSpec
<1>1. Init => Lifecycle!Init /\ Offered
  BY DEF Init, Lifecycle!Init, Lifecycle!Unused, Offered
<1>2. VenueInv /\ Offered /\ [Next]_venueVars => [Lifecycle!Next]_Life /\ Offered'
  BY StepLives
<1> QED
  BY <1>1, <1>2, VenueInvariant, PTL DEF Spec, VenueLifecycleSpec, Lifecycle!Spec, Life, LifeOf

-----------------------------------------------------------------------------
(* The ledger of the venue. *)

Lot == [symbol : Symbols, quantity : Nat]
Ledger == [cash : Int, positions : [Symbols -> Int], lots : Seq(Lot), short : BOOLEAN]

\* What an execution leaves of a lot is a number of shares.
LEMMA LeftOfLots ==
  ASSUME NEW lots \in Seq(Lot), NEW q \in Nat, NEW s
  PROVE  LET older(i) == {j \in 1..(i-1) : lots[j].symbol = s}
             sizes    == [i \in DOMAIN lots |-> lots[i].quantity]
             left(i)  == Max({0, q - SumFunctionOnSet(sizes, older(i))})
         IN  \A i \in DOMAIN lots : lots[i].quantity - Min({lots[i].quantity, left(i)}) \in Nat
<1> DEFINE older(i) == {j \in 1..(i-1) : lots[j].symbol = s}
           sizes    == [i \in DOMAIN lots |-> lots[i].quantity]
           left(i)  == Max({0, q - SumFunctionOnSet(sizes, older(i))})
<1>1. Len(lots) \in Nat /\ DOMAIN lots = 1..Len(lots) /\ \A i \in DOMAIN lots : lots[i] \in Lot
  OBVIOUS
<1>2. \A i \in DOMAIN lots : lots[i].quantity \in Nat
  BY <1>1 DEF Lot
<1>3. ASSUME NEW i \in DOMAIN lots
      PROVE  left(i) \in Nat
  <2> DEFINE S == older(i)
             sum == SumFunctionOnSet(sizes, S)
  <2>1. IsFiniteSet(S) /\ S \in SUBSET S /\ \A j \in S : sizes[j] \in Int
    <3>1. S \subseteq 1..Len(lots)
      BY <1>1
    <3>2. IsFiniteSet(S)
      <4>1. IsFiniteSet(1..Len(lots))
        BY <1>1, FS_Interval
      <4> HIDE DEF S
      <4> QED
        BY <3>1, <4>1, FS_Subset
    <3> QED
      BY <1>1, <1>2, <3>1, <3>2
  <2> HIDE DEF S, sizes
  <2>2. sum \in Int
    BY <2>1, SumInt
  <2> HIDE DEF sum
  <2>3. 0 \in Int /\ q - sum \in Int
    BY <2>2
  <2>4. Max({0, q - sum}) = IF 0 >= q - sum THEN 0 ELSE q - sum
    BY <2>3, OfTwo
  <2>5. Max({0, q - sum}) \in Nat
    BY <2>2, <2>4
  <2> QED
    BY <2>5 DEF S, sum
<1>4. ASSUME NEW i \in DOMAIN lots
      PROVE  lots[i].quantity - Min({lots[i].quantity, left(i)}) \in Nat
  <2> DEFINE a == lots[i].quantity
             b == left(i)
  <2>1. a \in Nat /\ b \in Nat
    BY <1>2, <1>3
  <2> HIDE DEF a, b
  <2>2. Min({a, b}) = IF a <= b THEN a ELSE b
    BY <2>1, OfTwo
  <2>3. a - Min({a, b}) \in Nat
    BY <2>1, <2>2
  <2> QED
    BY <2>3 DEF a, b
<1> QED
  BY <1>4

\* Settling one execution leaves a ledger.
LEMMA SettleTyped ==
  ASSUME NEW l \in Ledger, NEW e, e.order \in DOMAIN venueOrders,
         venueOrders[e.order].symbol \in Symbols,
         e.quantity \in Nat, e.price \in Int, e.fee \in Int
  PROVE  Settle(l, e) \in Ledger
<1> DEFINE s == venueOrders[e.order].symbol
           q == e.quantity
           value == e.price * q
           older(i) == {j \in 1..(i-1) : l.lots[j].symbol = s}
           sizes    == [i \in DOMAIN l.lots |-> l.lots[i].quantity]
           left(i)  == Max({0, q - SumFunctionOnSet(sizes, older(i))})
<1>1. /\ l.cash \in Int /\ l.positions \in [Symbols -> Int] /\ l.lots \in Seq(Lot) /\ l.short \in BOOLEAN
      /\ s \in Symbols /\ q \in Nat /\ value \in Int /\ e.fee \in Int
  BY DEF Ledger
<1>2. CASE venueOrders[e.order].side = "BUY"
  <2> DEFINE cash == l.cash - (value + e.fee)
             positions == [l.positions EXCEPT ![s] = @ + q]
             lot == [symbol |-> s, quantity |-> q]
             lots == Append(l.lots, lot)
             a == [l EXCEPT !.cash = cash]
             b == [a EXCEPT !.positions = positions]
             c == [b EXCEPT !.lots = lots]
  <2>1. Settle(l, e) = c
    BY <1>2 DEF Settle
  <2>2. cash \in Int /\ positions \in [Symbols -> Int] /\ lots \in Seq(Lot)
    <3>1. cash \in Int
      <4> HIDE DEF value
      <4> QED
        BY <1>1
    <3>2. positions \in [Symbols -> Int]
      <4> HIDE DEF s, q
      <4> QED
        BY <1>1, SMTT(60)
    <3>3. lot \in Lot
      BY <1>1 DEF Lot
    <3> HIDE DEF lot
    <3>4. lots \in Seq(Lot)
      BY <1>1, <3>3
    <3> QED
      BY <3>1, <3>2, <3>4
  <2> HIDE DEF cash, positions, lots
  <2>3. a \in Ledger
    BY <2>2 DEF Ledger
  <2> HIDE DEF a
  <2>4. b \in Ledger
    BY <2>2, <2>3 DEF Ledger
  <2> HIDE DEF b
  <2>5. c \in Ledger
    BY <2>2, <2>4 DEF Ledger
  <2> QED
    BY <2>1, <2>5
<1>3. CASE venueOrders[e.order].side # "BUY"
  <2> DEFINE cash == l.cash + value - e.fee
             positions == [l.positions EXCEPT ![s] = @ - q]
             short == l.short \/ left(Len(l.lots) + 1) > 0
             eaten(i) == [l.lots[i] EXCEPT !.quantity = @ - Min({@, left(i)})]
             lots == [i \in DOMAIN l.lots |-> IF l.lots[i].symbol = s THEN eaten(i) ELSE l.lots[i]]
  <2>1. Settle(l, e) = [cash |-> cash, positions |-> positions, short |-> short, lots |-> lots]
    BY <1>3 DEF Settle
  <2>2. cash \in Int /\ positions \in [Symbols -> Int] /\ short \in BOOLEAN
    <3>1. cash \in Int
      <4> HIDE DEF value
      <4> QED
        BY <1>1
    <3>2. positions \in [Symbols -> Int]
      <4> HIDE DEF s, q
      <4> QED
        BY <1>1, SMTT(60)
    <3>3. short \in BOOLEAN
      <4> HIDE DEF left
      <4> QED
        OBVIOUS
    <3> QED
      BY <3>1, <3>2, <3>3
  <2>3. lots \in Seq(Lot)
    <3>1. Len(l.lots) \in Nat /\ DOMAIN l.lots = 1..Len(l.lots) /\ \A i \in DOMAIN l.lots : l.lots[i] \in Lot
      BY <1>1
    <3>2. \A i \in DOMAIN l.lots : l.lots[i].quantity - Min({l.lots[i].quantity, left(i)}) \in Nat
      BY <1>1, LeftOfLots
    <3> HIDE DEF left
    <3>3. \A i \in DOMAIN l.lots : eaten(i) \in Lot
      BY <3>1, <3>2 DEF Lot
    <3> HIDE DEF eaten
    <3>4. lots \in [1..Len(l.lots) -> Lot]
      BY <3>1, <3>3
    <3> HIDE DEF lots
    <3> QED
      BY <3>1, <3>4
  <2> HIDE DEF cash, positions, short, lots
  <2> QED
    BY <2>1, <2>2, <2>3 DEF Ledger
<1> QED
  BY <1>2, <1>3

\* The executions of a tick are settled one by one.
LEMMA SettledFold ==
  ASSUME NEW X, NEW fills \in Seq(X), venueLedger \in Ledger,
         \A l \in Ledger : \A x \in X : Settle(l, x) \in Ledger
  PROVE  \E f \in [0..Len(fills) -> Ledger] :
           /\ f[0] = venueLedger /\ f[Len(fills)] = SettledAll(fills)
           /\ \A k \in 1..Len(fills) : f[k] = Settle(f[k-1], fills[k])
<1> DEFINE n == Len(fills)
           G == [k \in 1..n |-> [l \in Ledger |-> Settle(l, fills[k])]]
           next(g, k) == IF k = 0 THEN venueLedger ELSE Settle(g[k-1], fills[k])
           Rec(f) == f = [k \in 0..n |-> IF k = 0 THEN venueLedger ELSE Settle(f[k-1], fills[k])]
<1>1. n \in Nat /\ \A k \in 1..n : fills[k] \in X
  OBVIOUS
<1>2. \A k \in 1..n : \A l \in Ledger : G[k][l] = Settle(l, fills[k]) /\ G[k][l] \in Ledger
  BY <1>1
<1>3. \E f \in [0..n -> Ledger] : f[0] = venueLedger /\ \A k \in 1..n : f[k] = G[k][f[k-1]]
  <2>1. Stepwise(n, Ledger, venueLedger, G)
    BY <1>1, <1>2 DEF Stepwise
  <2> HIDE DEF n, G
  <2> QED
    BY <2>1, PrefixRecursion
<1>4. PICK f \in [0..n -> Ledger] : f[0] = venueLedger /\ \A k \in 1..n : f[k] = G[k][f[k-1]]
  BY <1>3
<1>5. \A k \in 0..n : f[k] = next(f, k)
  <2> SUFFICES ASSUME NEW k \in 0..n PROVE f[k] = next(f, k)
    OBVIOUS
  <2>1. CASE k = 0
    BY <1>4, <2>1
  <2>2. CASE k # 0
    <3>1. k \in 1..n /\ k-1 \in 0..n
      BY <1>1, <2>2
    <3>2. f[k-1] \in Ledger
      BY <3>1
    <3> HIDE DEF G
    <3> QED
      BY <1>2, <1>4, <2>2, <3>1, <3>2
  <2> QED
    BY <2>1, <2>2
<1>6. \A g : Rec(g) <=> g = [k \in 0..n |-> next(g, k)]
  OBVIOUS
<1> HIDE DEF Rec, G
<1>7. Rec(f)
  <2>1. f = [k \in 0..n |-> next(f, k)]
    BY <1>5
  <2> QED
    BY <1>6, <2>1
<1>8. ASSUME NEW g, Rec(g)
      PROVE  g = f
  <2> DEFINE F == {k \in 0..n : g[k] = f[k]}
  <2>1. g = [k \in 0..n |-> next(g, k)]
    BY <1>6, <1>8
  <2>2. DOMAIN g = 0..n /\ \A k \in 0..n : g[k] = next(g, k)
    BY <2>1
  <2>3. 0 \in F
    BY <1>1, <1>5, <2>2
  <2>4. ASSUME NEW k \in 0 .. n-1, k \in F
        PROVE  k+1 \in F
    <3>1. k+1 \in 0..n /\ k+1 # 0 /\ (k+1)-1 = k
      BY <1>1
    <3>2. g[k+1] = next(g, k+1) /\ f[k+1] = next(f, k+1)
      BY <1>5, <2>2, <3>1
    <3>3. next(g, k+1) = next(f, k+1)
      BY <2>4, <3>1
    <3> QED
      BY <3>1, <3>2, <3>3
  <2> HIDE DEF F
  <2>5. \A k \in 0..n : k \in F
    <3> HIDE DEF n, next
    <3> QED
      BY <1>1, <2>3, <2>4, PrefixInduction
  <2> QED
    BY <2>1, <2>2, <2>5 DEF F
<1>9. (CHOOSE g : Rec(g)) = f
  BY <1>7, <1>8
<1>10. SettledAll(fills) = f[n]
  BY <1>9 DEF SettledAll, Rec
<1>11. \A k \in 1..n : k-1 \in 0..n
  BY <1>1
<1>12. \A k \in 1..n : f[k] = Settle(f[k-1], fills[k])
  BY <1>2, <1>4, <1>11
<1> QED
  BY <1>4, <1>10, <1>12

\* An entitlement leaves a ledger.
LEMMA EntitledTyped ==
  ASSUME NEW l \in Ledger, NEW a \in Entitlements
  PROVE  Entitled(l, a) \in Ledger
<1> DEFINE scaled(q) == (q * a.num) \div a.den
           cash == l.cash + a.net
           positions == [l.positions EXCEPT ![a.symbol] = scaled(@)]
           lots == [i \in DOMAIN l.lots |->
                      IF l.lots[i].symbol = a.symbol
                      THEN [l.lots[i] EXCEPT !.quantity = scaled(@)] ELSE l.lots[i]]
           x == [l EXCEPT !.cash = cash]
           y == [x EXCEPT !.positions = positions]
           z == [y EXCEPT !.lots = lots]
<1>1. /\ l.cash \in Int /\ l.positions \in [Symbols -> Int] /\ l.lots \in Seq(Lot) /\ l.short \in BOOLEAN
      /\ a.symbol \in Symbols /\ a.net \in Nat /\ a.num \in Nat \ {0} /\ a.den \in Nat \ {0}
  BY VenueActionAssumption DEF Ledger
<1>2. (\A q \in Int : scaled(q) \in Int) /\ (\A q \in Nat : scaled(q) \in Nat)
  <2>1. ASSUME NEW q \in Int
        PROVE  scaled(q) \in Int /\ (q \in Nat => scaled(q) \in Nat)
    <3> DEFINE p == q * a.num
    <3>1. p \in Int /\ (q \in Nat => p \in Nat)
      BY <1>1
    <3> DEFINE d == a.den
    <3>2. d \in Nat /\ d > 0
      BY <1>1
    <3> HIDE DEF p, d
    <3>3. /\ p \div d \in Int /\ p % d \in 0..(d-1)
          /\ p = d * (p \div d) + (p % d)
      BY <3>1, <3>2
    <3>4. p \in Nat => p \div d >= 0
      <4> DEFINE c == p \div d
                 r == p % d
      <4> HIDE DEF c, r
      <4>1. c <= -1 => d * c <= -d
        BY <3>2, <3>3 DEF c
      <4>2. c \in Int /\ r < d /\ p = d * c + r /\ d * c \in Int /\ r \in Int
        BY <3>2, <3>3 DEF c, r
      <4>3. p \in Nat => c >= 0
        BY <3>1, <3>2, <4>1, <4>2
      <4> QED
        BY <4>3 DEF c
    <3> QED
      BY <3>1, <3>3, <3>4 DEF p, d
  <2> QED
    BY <2>1
<1>3. Entitled(l, a) = z
  BY DEF Entitled
<1> HIDE DEF scaled
<1>4. cash \in Int /\ positions \in [Symbols -> Int] /\ lots \in Seq(Lot)
  <2>1. Len(l.lots) \in Nat /\ DOMAIN l.lots = 1..Len(l.lots) /\ \A i \in DOMAIN l.lots : l.lots[i] \in Lot
    BY <1>1
  <2>2. lots \in [1..Len(l.lots) -> Lot]
    BY <1>2, <2>1 DEF Lot
  <2>3. lots \in Seq(Lot)
    <3> HIDE DEF lots
    <3> QED
      BY <2>1, <2>2
  <2>4. positions \in [Symbols -> Int]
    BY <1>1, <1>2
  <2> QED
    BY <1>1, <2>3, <2>4
<1> HIDE DEF cash, positions, lots
<1>5. x \in Ledger
  BY <1>4 DEF Ledger
<1> HIDE DEF x
<1>6. y \in Ledger
  BY <1>4, <1>5 DEF Ledger
<1> HIDE DEF y
<1>7. z \in Ledger
  BY <1>4, <1>6 DEF Ledger
<1> QED
  BY <1>3, <1>7

\* The ledgers on the way through a tick, execution by execution.
LEMMA SettledMatch ==
  ASSUME VenueInv, venueLedger \in Ledger, NEW tick \in Ticks, Match(tick)
  PROVE  \E f \in [0..Len(Executions(tick)) -> Ledger] :
           /\ f[0] = venueLedger /\ f[Len(Executions(tick))] = venueLedger'
           /\ \A k \in 1..Len(Executions(tick)) : f[k] = Settle(f[k-1], Executions(tick)[k])
<1> DEFINE fills == Executions(tick)
           X == {fills[k] : k \in 1..Len(fills)}
<1>1. venueLedger' = SettledAll(fills)
  BY DEF Match
<1>2. fills \in Seq(VenueEvent)
  BY ExecutionsWithin DEF VenueInv
<1>3. ASSUME NEW k \in 1..Len(fills), NEW l \in Ledger
      PROVE  Settle(l, fills[k]) \in Ledger
  <2>1. fills[k].kind = "VENUE_FILL" /\ fills[k].order \in DOMAIN venueOrders
    BY FillsAreShares DEF VenueInv
  <2>2. fills[k] \in VenueEvent
    BY <1>2
  <2>3. fills[k].quantity \in Nat /\ fills[k].price \in Int /\ fills[k].fee \in Int
    BY <2>1, <2>2, EventFields
  <2>4. venueOrders[fills[k].order].symbol \in Symbols
    BY <2>1 DEF VenueInv, Shaped, Kept
  <2> QED
    BY <2>1, <2>3, <2>4, SettleTyped
<1> HIDE DEF fills
<1>4. fills \in Seq(X)
  <2>1. Len(fills) \in Nat /\ DOMAIN fills = 1..Len(fills) /\ \A k \in 1..Len(fills) : fills[k] \in X
    BY <1>2
  <2>2. fills = [k \in 1..Len(fills) |-> fills[k]]
    BY <1>2
  <2>3. fills \in [1..Len(fills) -> X]
    BY <2>1, <2>2
  <2> HIDE DEF X
  <2> QED
    BY <2>1, <2>3
<1>5. \A l \in Ledger : \A x \in X : Settle(l, x) \in Ledger
  BY <1>3
<1> HIDE DEF X
<1> QED
  BY <1>1, <1>4, <1>5, SettledFold DEF fills

\* The ledger stays one through every operation.
LEMMA LedgerNext ==
  ASSUME VenueInv, venueLedger \in Ledger, [Next]_venueVars
  PROVE  venueLedger' \in Ledger
<1>1. ASSUME NEW tick \in Ticks, Match(tick)
      PROVE  venueLedger' \in Ledger
  <2>1. PICK f \in [0..Len(Executions(tick)) -> Ledger] : f[Len(Executions(tick))] = venueLedger'
    BY <1>1, SettledMatch
  <2>2. Len(Executions(tick)) \in Nat
    BY ExecutionsWithin DEF VenueInv
  <2>3. Len(Executions(tick)) \in 0..Len(Executions(tick))
    BY <2>2
  <2> QED
    BY <2>1, <2>3
<1>2. ASSUME NEW when \in Times, NEW id \in ActionIds, NEW a \in Entitlements,
             CorporateAction(id, a, when)
      PROVE  venueLedger' \in Ledger
  BY <1>2, EntitledTyped DEF CorporateAction
<1>3. CASE UNCHANGED venueLedger
  BY <1>3
<1>4. ASSUME NEW offer \in Offers, Accept(offer.id, offer.order)
      PROVE  UNCHANGED venueLedger
  BY <1>4 DEF Accept
<1>5. ASSUME NEW when \in Times, NEW o \in DOMAIN venueOrders, Cancel(o, when) \/ Reject(o, when)
      PROVE  UNCHANGED venueLedger
  BY <1>5 DEF Cancel, Reject, Close
<1>6. UNCHANGED venueVars => UNCHANGED venueLedger
  BY DEF venueVars
<1> QED
  BY <1>1, <1>2, <1>3, <1>4, <1>5, <1>6 DEF Next

\* Executed quantities stay within their orders, no lot of the venue's ledger goes below
\* zero and its cash and positions are numbers, whatever is sold uncovered (_ledger(),
\* paper_venue.py:160-198).
THEOREM VenueTyped == Spec => []VenueTypeOK
<1>1. Init => venueLedger \in Ledger
  BY VenueSettings DEF Init, Ledger
<1>2. VenueInv /\ venueLedger \in Ledger /\ [Next]_venueVars => (venueLedger \in Ledger)'
  BY LedgerNext
<1>3. VenueInv /\ venueLedger \in Ledger => VenueTypeOK
  <2> SUFFICES ASSUME VenueInv, venueLedger \in Ledger PROVE VenueTypeOK
    OBVIOUS
  <2>1. ASSUME NEW o \in DOMAIN venueOrders
        PROVE  /\ o \in OrderIds
               /\ venueOrders[o].status \in VenueActive \cup {"FILLED", "CANCELED", "REJECTED"}
               /\ venueOrders[o].filled \in 0..venueOrders[o].quantity
    <3>1. Kept(venueOrders[o]) /\ o \in OrderIds
      BY DEF VenueInv, Shaped
    <3> QED
      BY <3>1 DEF Kept
  <2> QED
    BY <2>1 DEF VenueTypeOK, Ledger, Lot
<1> QED
  BY <1>1, <1>2, <1>3, VenueInvariant, PTL DEF Spec
-----------------------------------------------------------------------------
(* What the reports say, for the bridge that reads them: each is told from the *)
(* others by its identity, and together they are what the orders were filled   *)
(* with.                                                                       *)

ExecutionsOf(journal, o) ==
  {k \in DOMAIN journal : journal[k].kind = "VENUE_FILL" /\ journal[k].order = o}

\* A report carries the identity the bridge books it by.
Identified ==
  \A k \in DOMAIN venueJournal :
    /\ venueJournal[k].kind = "VENUE_FILL" =>
         /\ venueJournal[k].id = <<"VENUE_FILL", venueJournal[k].order, venueJournal[k].time>>
         /\ venueJournal[k].quantity # 0
    /\ venueJournal[k].kind \in Closing =>
         venueJournal[k].id = <<venueJournal[k].kind, venueJournal[k].order, 0>>

\* An order executes once at a time and closes once.
Distinct ==
  \A j, k \in DOMAIN venueJournal :
    /\ (/\ venueJournal[j].kind = "VENUE_FILL" /\ venueJournal[k].kind = "VENUE_FILL"
        /\ venueJournal[j].order = venueJournal[k].order
        /\ venueJournal[j].time = venueJournal[k].time) => j = k
    /\ (/\ venueJournal[j].kind \in Closing /\ venueJournal[k].kind \in Closing
        /\ venueJournal[j].order = venueJournal[k].order) => j = k

\* Only what is not complete is closed.
ClosedEarly ==
  \A k \in DOMAIN venueJournal : venueJournal[k].kind \in Closing =>
    venueOrders[venueJournal[k].order].filled < venueOrders[venueJournal[k].order].quantity

\* An order is filled with its executions.
FilledByExecutions ==
  \A o \in DOMAIN venueOrders : venueOrders[o].filled = Traded(venueJournal, ExecutionsOf(venueJournal, o))

ReportInv == Identified /\ Distinct /\ ClosedEarly /\ FilledByExecutions

\* The executions of a tick are one for each order with a share.
LEMMA OneExecutionEach ==
  ASSUME Shaped, Queued, NEW tick \in Ticks
  PROVE  LET fills == Executions(tick)
         IN  /\ \A k, l \in 1..Len(fills) : fills[k].order = fills[l].order => k = l
             /\ \A o \in DOMAIN venueOrders : Allocation(tick)[o] > 0 =>
                  \E k \in 1..Len(fills) : fills[k].order = o
             /\ \A k \in 1..Len(fills) :
                  /\ fills[k].order \in DOMAIN venueOrders
                  /\ fills[k].id = <<"VENUE_FILL", fills[k].order, fills[k].time>>
                  /\ fills[k].quantity = Allocation(tick)[fills[k].order]
                  /\ fills[k].quantity > 0
<1> DEFINE n == Len(venueJournal)
           D == DOMAIN venueOrders
           share == Allocation(tick)
           X == FillsOf(tick)
<1>1. n \in Nat /\ DOMAIN venueJournal = 1..n
  BY DEF Shaped
<1>2. PICK f : Serving(f, tick) /\ Executions(tick) = f[n]
  BY ServingExists
<1>3. \A i \in 0..n : f[i] \in Seq(X)
  BY <1>2 DEF Serving
<1>4. \A o \in D : share[o] > 0 =>
        LET x == FillEvent(o, share[o], tick)
        IN  /\ x.order = o /\ x.quantity = share[o]
            /\ x.id = <<"VENUE_FILL", o, x.time>>
  BY DEF FillEvent
<1>5. \A x \in X : /\ x.order \in D /\ x.quantity = share[x.order] /\ x.quantity > 0
                   /\ x.id = <<"VENUE_FILL", x.order, x.time>>
  BY <1>4 DEF FillsOf
<1>6. /\ \A o \in D : /\ Turn(o) \in 1..n
                      /\ venueJournal[Turn(o)].kind = "VENUE_ACCEPTED" /\ venueJournal[Turn(o)].order = o
      /\ \A i \in 1..n : venueJournal[i].kind = "VENUE_ACCEPTED" =>
           venueJournal[i].order \in D /\ Turn(venueJournal[i].order) = i
  BY <1>1, Turns DEF Queued
<1> DEFINE Served1(i) ==
             /\ \A k \in 1..Len(f[i]) : Turn(f[i][k].order) <= i
             /\ \A k, l \in 1..Len(f[i]) : f[i][k].order = f[i][l].order => k = l
             /\ \A o \in D : Turn(o) <= i /\ share[o] > 0 =>
                  \E k \in 1..Len(f[i]) : f[i][k].order = o
           F == {i \in 0..n : Served1(i)}
<1>7. 0 \in F
  <2>1. f[0] = << >>
    BY <1>2 DEF Serving
  <2>2. \A o \in D : ~(Turn(o) <= 0)
    BY <1>1, <1>6
  <2> QED
    BY <1>1, <2>1, <2>2
<1>8. ASSUME NEW i \in 0 .. n-1, i \in F
      PROVE  i+1 \in F
  <2> DEFINE s == f[i]
             t == f[i+1]
             p == venueJournal[i+1].order
  <2>1. i \in 0..n /\ i+1 \in 1..n /\ i+1 \in 0..n /\ (i+1)-1 = i /\ i \in Nat
    BY <1>1
  <2>2. t = IF GetsShare(i+1, tick) THEN Append(s, FillAt(i+1, tick)) ELSE s
    BY <1>2, <2>1 DEF Serving
  <2>3. s \in Seq(X) /\ Served1(i)
    BY <1>3, <1>8, <2>1
  <2>4. \A o \in D : Turn(o) \in Int /\ (Turn(o) <= i+1 <=> Turn(o) <= i \/ Turn(o) = i+1)
    BY <1>6, <2>1
  <2>5. \A o \in D : Turn(o) = i+1 => venueJournal[i+1].kind = "VENUE_ACCEPTED" /\ o = p
    BY <1>6
  <2>6. \A k \in 1..Len(s) : s[k] \in X /\ s[k].order \in D
    BY <1>5, <2>3
  <2>7. CASE GetsShare(i+1, tick)
    <3> DEFINE e == FillAt(i+1, tick)
               m == Len(s)
    <3>1. p \in D /\ Turn(p) = i+1 /\ share[p] > 0
      BY <1>6, <2>1, <2>7 DEF GetsShare
    <3>2. e \in X /\ e.order = p
      BY <1>4, <3>1 DEF FillAt, FillsOf
    <3> HIDE DEF e, X
    <3>3. /\ m \in Nat /\ Len(t) = m + 1 /\ t[m+1] = e /\ \A k \in 1..m : t[k] = s[k]
      BY <2>2, <2>3, <2>7, <3>2 DEF e
    <3>4. \A k \in 1..Len(t) : k = m + 1 \/ k \in 1..m
      BY <3>3
    <3>5. \A k \in 1..m : Turn(s[k].order) <= i /\ s[k].order # p
      BY <2>1, <2>3, <3>1
    <3> HIDE DEF p, s, t, m
    <3>6. \A k \in 1..Len(t) : Turn(t[k].order) <= i+1
      <4> TAKE k \in 1..Len(t)
      <4>1. CASE k = m + 1
        BY <2>1, <3>1, <3>2, <3>3, <4>1
      <4>2. CASE k \in 1..m
        <5>1. s[k].order \in D /\ Turn(s[k].order) <= i
          BY <2>6, <3>5, <4>2 DEF m
        <5> QED
          BY <2>4, <3>3, <4>2, <5>1
      <4> QED
        BY <3>4, <4>1, <4>2
    <3>7. \A k, l \in 1..Len(t) : t[k].order = t[l].order => k = l
      <4>1. \A k, l \in 1..m : s[k].order = s[l].order => k = l
        BY <2>3 DEF s, m
      <4> QED
        BY <3>2, <3>3, <3>4, <3>5, <4>1
    <3>8. ASSUME NEW o \in D, Turn(o) <= i+1, share[o] > 0
          PROVE  \E k \in 1..Len(t) : t[k].order = o
      <4>1. CASE Turn(o) <= i
        <5>1. PICK k \in 1..m : s[k].order = o
          BY <2>3, <3>8, <4>1 DEF s, m
        <5>2. k \in 1..Len(t)
          BY <3>3
        <5> QED
          BY <3>3, <5>1, <5>2
      <4>2. CASE Turn(o) = i+1
        <5>1. o = p /\ m + 1 \in 1..Len(t)
          BY <2>5, <3>3, <4>2 DEF p
        <5> QED
          BY <3>2, <3>3, <5>1
      <4> QED
        BY <2>4, <3>8, <4>1, <4>2
    <3> QED
      BY <2>1, <3>6, <3>7, <3>8 DEF t
  <2>8. CASE ~GetsShare(i+1, tick)
    <3>1. t = s
      BY <2>2, <2>8
    <3>2. \A o \in D : Turn(o) = i+1 => ~(share[o] > 0)
      BY <2>5, <2>8 DEF GetsShare
    <3>3. \A k \in 1..Len(s) : Turn(s[k].order) <= i+1
      BY <2>3, <2>4, <2>6
    <3> QED
      BY <2>1, <2>3, <2>4, <3>1, <3>2, <3>3
  <2> QED
    BY <2>7, <2>8
<1> HIDE DEF F
<1>9. n \in F
  <2>1. \A i \in 0..n : i \in F
    <3> HIDE DEF n
    <3> QED
      BY <1>1, <1>7, <1>8, PrefixInduction
  <2> QED
    BY <1>1, <2>1
<1>10. Served1(n) /\ \A o \in D : Turn(o) <= n
  BY <1>6, <1>9 DEF F
<1>11. \A k \in 1..Len(f[n]) : f[n][k] \in X
  BY <1>1, <1>3
<1> QED
  BY <1>2, <1>5, <1>10, <1>11

\* A journal that goes on has the same executions of an order that gets no new one.
LEMMA SameExecutions ==
  ASSUME Shaped, NEW o, DOMAIN venueJournal \subseteq DOMAIN venueJournal',
         \A k \in DOMAIN venueJournal : venueJournal'[k] = venueJournal[k],
         \A k \in DOMAIN venueJournal' \ DOMAIN venueJournal :
            ~(venueJournal'[k].kind = "VENUE_FILL" /\ venueJournal'[k].order = o)
  PROVE  /\ ExecutionsOf(venueJournal', o) = ExecutionsOf(venueJournal, o)
         /\ Traded(venueJournal', ExecutionsOf(venueJournal', o))
              = Traded(venueJournal, ExecutionsOf(venueJournal, o))
<1> DEFINE S == ExecutionsOf(venueJournal, o)
<1>1. ExecutionsOf(venueJournal', o) = S
  BY DEF ExecutionsOf
<1>2. IsFiniteSet(S) /\ \A k \in S : venueJournal'[k] = venueJournal[k]
  <2>1. IsFiniteSet(1..Len(venueJournal)) /\ S \subseteq 1..Len(venueJournal)
    BY FS_Interval DEF Shaped, ExecutionsOf
  <2> QED
    BY <2>1, FS_Subset DEF ExecutionsOf
<1> HIDE DEF S
<1>3. Traded(venueJournal', S) = Traded(venueJournal, S)
  BY <1>2, TradedSame
<1> QED
  BY <1>1, <1>3 DEF S

\* A step that reports nothing.
LEMMA ReportsStay ==
  ASSUME VenueInv, ReportInv, NEW e \in VenueEvent, e.kind # "VENUE_FILL", e.kind \notin Closing,
         Write(<<e>>),
         \A o \in DOMAIN venueOrders : /\ o \in DOMAIN venueOrders'
                                       /\ venueOrders'[o].filled = venueOrders[o].filled
                                       /\ venueOrders'[o].quantity = venueOrders[o].quantity,
         \A o \in DOMAIN venueOrders' \ DOMAIN venueOrders : venueOrders'[o].filled = 0
  PROVE  ReportInv'
<1> DEFINE n == Len(venueJournal)
<1>0. Shaped /\ Ticked /\ Closed /\ Identified /\ Distinct /\ ClosedEarly /\ FilledByExecutions
  BY DEF VenueInv, ReportInv
<1>1. /\ DOMAIN venueJournal' = DOMAIN venueJournal \union {n + 1}
      /\ \A i \in DOMAIN venueJournal : venueJournal'[i] = venueJournal[i]
      /\ venueJournal'[n + 1] = e
  BY <1>0, WritingOne DEF Shaped
<1>2. \A i \in DOMAIN venueJournal' :
        venueJournal'[i].kind = "VENUE_FILL" \/ venueJournal'[i].kind \in Closing =>
          i \in DOMAIN venueJournal /\ venueJournal'[i] = venueJournal[i]
  BY <1>1
<1>3. Identified'
  BY <1>0, <1>2 DEF Identified
<1>4. Distinct'
  BY <1>0, <1>2 DEF Distinct
<1>5. ClosedEarly'
  BY <1>0, <1>2 DEF ClosedEarly, Closed
<1>6. FilledByExecutions'
  <2> SUFFICES ASSUME NEW o \in DOMAIN venueOrders'
               PROVE  venueOrders'[o].filled = Traded(venueJournal', ExecutionsOf(venueJournal', o))
    BY DEF FilledByExecutions
  <2>1. Traded(venueJournal', ExecutionsOf(venueJournal', o)) = Traded(venueJournal, ExecutionsOf(venueJournal, o))
    BY <1>0, <1>1, SameExecutions
  <2>2. CASE o \in DOMAIN venueOrders
    BY <1>0, <2>1, <2>2 DEF FilledByExecutions
  <2>3. CASE o \notin DOMAIN venueOrders
    <3>1. ExecutionsOf(venueJournal, o) = {}
      BY <1>0, <2>3 DEF ExecutionsOf, Ticked
    <3>2. Traded(venueJournal, {}) = 0
      BY SumEmpty DEF Traded
    <3> QED
      BY <2>1, <2>3, <3>1, <3>2
  <2> QED
    BY <2>2, <2>3
<1> QED
  BY <1>3, <1>4, <1>5, <1>6 DEF ReportInv

LEMMA AcceptReports ==
  ASSUME VenueInv, ReportInv, NEW offer \in Offers, Accept(offer.id, offer.order)
  PROVE  ReportInv'
<1> DEFINE o == offer.id
           order == offer.order
           new == [order EXCEPT !.filled = 0, !.status = "ACCEPTED"]
           e == [kind |-> "VENUE_ACCEPTED", id |-> o, order |-> o, time |-> order.accepted_at]
<1>1. o \notin DOMAIN venueOrders
  BY Unknown DEF Accept
<1>2. o \in OrderIds /\ order.accepted_at \in Nat /\ new.filled = 0
  BY OfferAssumption, AcceptedOrder
<1>3. e \in VenueEvent /\ e.kind # "VENUE_FILL" /\ e.kind \notin Closing
  BY <1>2 DEF VenueEvent, Closing
<1>4. /\ DOMAIN venueOrders' = DOMAIN venueOrders \union {o} /\ venueOrders'[o] = new
      /\ \A p \in DOMAIN venueOrders : venueOrders'[p] = venueOrders[p]
  BY <1>1 DEF Accept
<1>5. Write(<<e>>)
  BY DEF Accept
<1> HIDE DEF e, new, o
<1> QED
  BY <1>2, <1>3, <1>4, <1>5, ReportsStay

LEMMA CorporateActionReports ==
  ASSUME VenueInv, ReportInv, NEW id \in ActionIds, NEW a \in Entitlements, NEW when \in Times,
         CorporateAction(id, a, when)
  PROVE  ReportInv'
<1> DEFINE e == [kind |-> "VENUE_ACTION", id |-> id, action |-> a, time |-> when]
<1>1. e \in VenueEvent /\ e.kind # "VENUE_FILL" /\ e.kind \notin Closing
  BY VenueBound DEF VenueEvent, Closing
<1>2. venueOrders' = venueOrders /\ Write(<<e>>)
  BY DEF CorporateAction
<1> HIDE DEF e
<1> QED
  BY <1>1, <1>2, ReportsStay

\* An order that is closed had something left, and was not closed before.
LEMMA CloseReports ==
  ASSUME VenueInv, ReportInv, NEW o \in DOMAIN venueOrders, NEW when \in Times,
         NEW kind \in Closing, NEW status \in {"CANCELED", "REJECTED"}, Close(kind, status, o, when)
  PROVE  ReportInv'
<1> DEFINE e == [kind |-> kind, id |-> <<kind, o, 0>>, order |-> o, time |-> when]
           n == Len(venueJournal)
<1>0. Shaped /\ Ticked /\ Closed /\ Identified /\ Distinct /\ ClosedEarly /\ FilledByExecutions
  BY DEF VenueInv, ReportInv
<1>1. Kept(venueOrders[o]) /\ o \in OrderIds /\ when \in Nat /\ venueOrders[o].status \in VenueActive
  BY <1>0, VenueBound DEF Shaped, Close, IsActive
<1>2. e \in VenueEvent
  BY <1>1 DEF VenueEvent
<1>3. Write(<<e>>) /\ e.kind = kind /\ e.order = o /\ e.id = <<kind, o, 0>>
  BY DEF Close
<1> HIDE DEF e
<1>4. /\ DOMAIN venueJournal' = DOMAIN venueJournal \union {n + 1}
      /\ \A i \in DOMAIN venueJournal : venueJournal'[i] = venueJournal[i]
      /\ venueJournal'[n + 1] = e
  BY <1>0, <1>2, <1>3, WritingOne DEF Shaped
<1>5. /\ DOMAIN venueOrders' = DOMAIN venueOrders
      /\ \A p \in DOMAIN venueOrders : /\ venueOrders'[p].filled = venueOrders[p].filled
                                       /\ venueOrders'[p].quantity = venueOrders[p].quantity
  BY DEF Close
<1>6. venueOrders[o].filled < venueOrders[o].quantity
  BY <1>1 DEF Kept
<1>7. kind # "VENUE_FILL"
  BY DEF Closing
<1>8. \A i \in DOMAIN venueJournal : venueJournal[i].kind \in Closing => venueJournal[i].order # o
  BY <1>0, <1>1 DEF Closed
<1>9. Identified'
  BY <1>0, <1>3, <1>4, <1>7 DEF Identified
<1>10. Distinct'
  BY <1>0, <1>3, <1>4, <1>7, <1>8 DEF Distinct
<1>11. ClosedEarly'
  <2>1. \A i \in DOMAIN venueJournal : venueJournal[i].kind \in Closing => venueJournal[i].order \in DOMAIN venueOrders
    BY <1>0 DEF Closed
  <2> QED
    BY <1>0, <1>3, <1>4, <1>5, <1>6, <2>1 DEF ClosedEarly
<1>12. FilledByExecutions'
  <2> SUFFICES ASSUME NEW p \in DOMAIN venueOrders
               PROVE  venueOrders'[p].filled = Traded(venueJournal', ExecutionsOf(venueJournal', p))
    BY <1>5 DEF FilledByExecutions
  <2>1. Traded(venueJournal', ExecutionsOf(venueJournal', p)) = Traded(venueJournal, ExecutionsOf(venueJournal, p))
    BY <1>0, <1>3, <1>4, <1>7, SameExecutions
  <2> QED
    BY <1>0, <1>5, <2>1 DEF FilledByExecutions
<1> QED
  BY <1>9, <1>10, <1>11, <1>12 DEF ReportInv

\* One execution more of an order.
LEMMA ExecutedMore ==
  ASSUME Shaped, NEW o, NEW x, x \notin DOMAIN venueJournal,
         DOMAIN venueJournal \union {x} \subseteq DOMAIN venueJournal',
         \A k \in DOMAIN venueJournal : venueJournal'[k] = venueJournal[k],
         venueJournal'[x].kind = "VENUE_FILL", venueJournal'[x].order = o,
         venueJournal'[x].quantity \in Nat,
         \A k \in DOMAIN venueJournal' \ (DOMAIN venueJournal \union {x}) :
            ~(venueJournal'[k].kind = "VENUE_FILL" /\ venueJournal'[k].order = o)
  PROVE  Traded(venueJournal', ExecutionsOf(venueJournal', o))
           = venueJournal'[x].quantity + Traded(venueJournal, ExecutionsOf(venueJournal, o))
<1> DEFINE S == ExecutionsOf(venueJournal, o)
           T == S \union {x}
           f == [j \in T |-> venueJournal'[j].quantity]
<1>1. ExecutionsOf(venueJournal', o) = T
  BY DEF ExecutionsOf
<1>2. /\ IsFiniteSet(S) /\ x \notin S
      /\ \A k \in S : venueJournal'[k] = venueJournal[k] /\ venueJournal[k].quantity \in Nat
  <2>1. IsFiniteSet(1..Len(venueJournal)) /\ S \subseteq 1..Len(venueJournal)
    BY FS_Interval DEF Shaped, ExecutionsOf
  <2>2. \A k \in S : venueJournal[k] \in VenueEvent /\ venueJournal[k].kind = "VENUE_FILL"
    BY DEF Shaped, ExecutionsOf
  <2> QED
    BY <2>1, <2>2, FS_Subset, EventFields DEF ExecutionsOf
<1>3. f[x] = venueJournal'[x].quantity /\ \A k \in S : f[k] = venueJournal'[k].quantity /\ f[k] \in Nat
  BY <1>2
<1>4. Traded(venueJournal', T) = SumFunctionOnSet(f, T)
  BY DEF Traded
<1>5. SumFunctionOnSet(f, S) = Traded(venueJournal', S)
  <2> DEFINE g == [j \in S |-> venueJournal'[j].quantity]
  <2>1. \A k \in S : f[k] = g[k]
    OBVIOUS
  <2>2. Traded(venueJournal', S) = SumFunctionOnSet(g, S)
    BY DEF Traded
  <2> HIDE DEF f, g, S
  <2> QED
    BY <1>2, <2>1, <2>2, SumSame
<1>6. Traded(venueJournal', S) = Traded(venueJournal, S)
  <2> HIDE DEF S
  <2> QED
    BY <1>2, TradedSame
<1> HIDE DEF f, S
<1>7. SumFunctionOnSet(f, S \union {x}) = f[x] + SumFunctionOnSet(f, S)
  <2>1. f[x] \in Int /\ \A k \in S : f[k] \in Int
    BY <1>3
  <2> QED
    BY <1>2, <2>1, SumWith
<1> QED
  BY <1>1, <1>3, <1>4, <1>5, <1>6, <1>7 DEF S

\* A tick's executions are later than any other of the orders it serves.
LEMMA MatchReports ==
  ASSUME VenueInv, ReportInv, NEW tick \in Ticks, Match(tick)
  PROVE  ReportInv'
<1> DEFINE n == Len(venueJournal)
           fills == Executions(tick)
           m == Len(fills)
           D == DOMAIN venueOrders
           share == Allocation(tick)
           e0 == TickEvent(tick)
<1>0. /\ Shaped /\ Queued /\ Ticked /\ Closed
      /\ Identified /\ Distinct /\ ClosedEarly /\ FilledByExecutions
  BY DEF VenueInv, ReportInv
<1>1. /\ n \in Nat /\ m \in Nat
      /\ DOMAIN venueJournal = 1..n
      /\ DOMAIN venueJournal' = 1..(n + 1 + m)
      /\ \A i \in 1..n : venueJournal'[i] = venueJournal[i]
      /\ venueJournal'[n + 1] = e0
      /\ \A k \in 1..m : venueJournal'[n + 1 + k] = fills[k]
      /\ \A i \in DOMAIN venueJournal' :
           i \in 1..n \/ i = n + 1 \/ (i - (n + 1) \in 1..m /\ i = n + 1 + (i - (n + 1)))
  BY MatchJournal
<1>2. /\ DOMAIN venueOrders' = D
      /\ \A o \in D :
           /\ venueOrders'[o].quantity = venueOrders[o].quantity
           /\ venueOrders'[o].filled = venueOrders[o].filled + share[o]
           /\ venueOrders[o].status \notin VenueActive => venueOrders'[o] = venueOrders[o]
           /\ share[o] = 0 => venueOrders'[o] = venueOrders[o]
  BY MatchOrders
<1>3. \A k \in 1..m :
        /\ fills[k].kind = "VENUE_FILL" /\ fills[k].time = tick.time /\ fills[k].quantity \in Nat
        /\ fills[k].order \in D /\ Eligible(fills[k].order, tick)
  BY <1>0, FillsAreShares
<1>4. /\ \A k, l \in 1..m : fills[k].order = fills[l].order => k = l
      /\ \A o \in D : share[o] > 0 => \E k \in 1..m : fills[k].order = o
      /\ \A k \in 1..m :
           /\ fills[k].id = <<"VENUE_FILL", fills[k].order, fills[k].time>>
           /\ fills[k].quantity = share[fills[k].order] /\ fills[k].quantity > 0
  BY <1>0, OneExecutionEach
<1>5. \A k \in 1..m : venueOrders[fills[k].order].symbol = tick.symbol
  BY <1>0, <1>3, EligibleIsActive
<1>6. e0.kind = "VENUE_TICK"
  BY DEF TickEvent
<1>7. \A i \in 1..n : venueJournal[i].kind = "VENUE_TICK" /\ venueJournal[i].symbol = tick.symbol =>
                        venueJournal[i].time < tick.time
  BY <1>1 DEF Match
<1>8. tick.time \in Nat
  BY TickAssumption, VenueBound
\* An earlier execution of a served order is of an earlier time.
<1>9. ASSUME NEW j \in 1..n, venueJournal[j].kind = "VENUE_FILL", NEW k \in 1..m,
             venueJournal[j].order = fills[k].order
      PROVE  venueJournal[j].time # tick.time
  <2>1. PICK i \in 1..n :
          /\ venueJournal[i].kind = "VENUE_TICK" /\ venueJournal[i].time = venueJournal[j].time
          /\ venueJournal[i].symbol = venueOrders[venueJournal[j].order].symbol
    BY <1>0, <1>1, <1>9 DEF Ticked
  <2>2. venueJournal[i].time < tick.time
    BY <1>5, <1>7, <1>9, <2>1
  <2>3. venueJournal[i].time \in Nat
    BY <1>0, <1>1, <2>1, EventFields DEF Shaped
  <2> QED
    BY <1>8, <2>1, <2>2, <2>3
<1> HIDE DEF fills, m, e0, n, share
<1>10. \A i \in DOMAIN venueJournal' : i \notin 1..n =>
         \/ i = n + 1 /\ venueJournal'[i] = e0
         \/ \E k \in 1..m : i = n + 1 + k /\ venueJournal'[i] = fills[k]
  BY <1>1
<1>11. "VENUE_TICK" \notin Closing /\ "VENUE_FILL" \notin Closing
  BY DEF Closing
<1>12. Identified'
  <2> SUFFICES ASSUME NEW i \in DOMAIN venueJournal'
               PROVE  /\ venueJournal'[i].kind = "VENUE_FILL" =>
                           /\ venueJournal'[i].id = <<"VENUE_FILL", venueJournal'[i].order, venueJournal'[i].time>>
                           /\ venueJournal'[i].quantity # 0
                      /\ venueJournal'[i].kind \in Closing =>
                           venueJournal'[i].id = <<venueJournal'[i].kind, venueJournal'[i].order, 0>>
    BY DEF Identified
  <2>1. CASE i \in 1..n
    BY <1>0, <1>1, <2>1 DEF Identified
  <2>2. CASE i \notin 1..n
    <3>1. CASE i = n + 1 /\ venueJournal'[i] = e0
      BY <1>6, <1>11, <3>1
    <3>2. ASSUME NEW k \in 1..m, venueJournal'[i] = fills[k]
          PROVE  /\ venueJournal'[i].kind = "VENUE_FILL" /\ venueJournal'[i].kind \notin Closing
                 /\ venueJournal'[i].id = <<"VENUE_FILL", venueJournal'[i].order, venueJournal'[i].time>>
                 /\ venueJournal'[i].quantity # 0
      BY <1>3, <1>4, <1>11, <3>2
    <3> QED
      BY <1>10, <2>2, <3>1, <3>2
  <2> QED
    BY <2>1, <2>2
<1>13. \A i \in DOMAIN venueJournal' : venueJournal'[i].kind \in Closing =>
         i \in 1..n /\ venueJournal'[i] = venueJournal[i]
  BY <1>1, <1>3, <1>6, <1>10, <1>11
<1>14. \A i \in DOMAIN venueJournal' : venueJournal'[i].kind = "VENUE_FILL" =>
         \/ i \in 1..n /\ venueJournal'[i] = venueJournal[i]
         \/ \E k \in 1..m : i = n + 1 + k /\ venueJournal'[i] = fills[k]
  BY <1>1, <1>6, <1>10
<1>15. Distinct'
  <2> SUFFICES ASSUME NEW i \in DOMAIN venueJournal', NEW j \in DOMAIN venueJournal',
                      venueJournal'[i].order = venueJournal'[j].order
               PROVE  /\ (/\ venueJournal'[i].kind = "VENUE_FILL" /\ venueJournal'[j].kind = "VENUE_FILL"
                          /\ venueJournal'[i].time = venueJournal'[j].time) => i = j
                      /\ venueJournal'[i].kind \in Closing /\ venueJournal'[j].kind \in Closing => i = j
    BY DEF Distinct
  <2>1. venueJournal'[i].kind \in Closing /\ venueJournal'[j].kind \in Closing => i = j
    BY <1>0, <1>1, <1>13 DEF Distinct
  <2>2. ASSUME venueJournal'[i].kind = "VENUE_FILL", venueJournal'[j].kind = "VENUE_FILL",
               venueJournal'[i].time = venueJournal'[j].time
        PROVE  i = j
    <3>1. CASE i \in 1..n /\ j \in 1..n
      BY <1>0, <1>1, <2>2, <3>1 DEF Distinct
    <3>2. CASE i \in 1..n /\ j \notin 1..n
      <4>1. PICK k \in 1..m : venueJournal'[j] = fills[k]
        BY <1>14, <2>2, <3>2
      <4>2. venueJournal'[i] = venueJournal[i]
        BY <1>1, <3>2
      <4> QED
        BY <1>3, <1>9, <2>2, <3>2, <4>1, <4>2
    <3>3. CASE i \notin 1..n /\ j \in 1..n
      <4>1. PICK k \in 1..m : venueJournal'[i] = fills[k]
        BY <1>14, <2>2, <3>3
      <4>2. venueJournal'[j] = venueJournal[j]
        BY <1>1, <3>3
      <4> QED
        BY <1>3, <1>9, <2>2, <3>3, <4>1, <4>2
    <3>4. CASE i \notin 1..n /\ j \notin 1..n
      <4>1. PICK k \in 1..m : i = n + 1 + k /\ venueJournal'[i] = fills[k]
        BY <1>14, <2>2, <3>4
      <4>2. PICK l \in 1..m : j = n + 1 + l /\ venueJournal'[j] = fills[l]
        BY <1>14, <2>2, <3>4
      <4> QED
        BY <1>4, <4>1, <4>2
    <3> QED
      BY <3>1, <3>2, <3>3, <3>4
  <2> QED
    BY <2>1, <2>2
<1>16. ClosedEarly'
  <2>1. \A i \in 1..n : venueJournal[i].kind \in Closing =>
          /\ venueJournal[i].order \in D
          /\ venueOrders'[venueJournal[i].order] = venueOrders[venueJournal[i].order]
          /\ venueOrders[venueJournal[i].order].filled < venueOrders[venueJournal[i].order].quantity
    BY <1>0, <1>1, <1>2 DEF Closed, ClosedEarly
  <2> QED
    BY <1>13, <2>1 DEF ClosedEarly
<1>17. FilledByExecutions'
  <2> SUFFICES ASSUME NEW o \in D
               PROVE  venueOrders'[o].filled = Traded(venueJournal', ExecutionsOf(venueJournal', o))
    BY <1>2 DEF FilledByExecutions
  <2>1. venueOrders[o].filled = Traded(venueJournal, ExecutionsOf(venueJournal, o))
    BY <1>0 DEF FilledByExecutions
  <2>2. DOMAIN venueJournal \subseteq DOMAIN venueJournal' /\ n + 1 \notin DOMAIN venueJournal
    BY <1>1
  <2>3. share[o] \in Nat
    <3>1. tick.volume \in Nat
      BY TickAssumption
    <3> QED
      BY <1>0, <3>1, ShareWithin DEF share
  <2>4. CASE share[o] = 0
    <3>1. \A k \in 1..m : fills[k].order # o
      BY <1>4, <2>4
    <3>2. \A k \in DOMAIN venueJournal' \ DOMAIN venueJournal :
             ~(venueJournal'[k].kind = "VENUE_FILL" /\ venueJournal'[k].order = o)
      BY <1>1, <1>14, <3>1
    <3>3. Traded(venueJournal', ExecutionsOf(venueJournal', o)) = Traded(venueJournal, ExecutionsOf(venueJournal, o))
      BY <1>0, <1>1, <2>2, <3>2, SameExecutions
    <3> QED
      BY <1>2, <2>1, <2>4, <3>3
  <2>5. CASE share[o] # 0
    <3>1. PICK k \in 1..m : fills[k].order = o
      BY <1>4, <2>3, <2>5
    <3> DEFINE x == n + 1 + k
    <3>2. /\ x \notin DOMAIN venueJournal /\ x \in DOMAIN venueJournal'
          /\ venueJournal'[x] = fills[k]
      BY <1>1
    <3>3. \A i \in DOMAIN venueJournal' \ (DOMAIN venueJournal \union {x}) :
             ~(venueJournal'[i].kind = "VENUE_FILL" /\ venueJournal'[i].order = o)
      BY <1>1, <1>4, <1>14, <3>1
    <3> HIDE DEF x
    <3>4. Traded(venueJournal', ExecutionsOf(venueJournal', o))
            = venueJournal'[x].quantity + Traded(venueJournal, ExecutionsOf(venueJournal, o))
      BY <1>0, <1>1, <1>3, <2>2, <3>1, <3>2, <3>3, ExecutedMore
    <3>5. venueJournal'[x].quantity = share[o]
      BY <1>4, <3>1, <3>2
    <3>6. venueOrders[o].filled \in Nat
      BY <1>0 DEF Shaped, Kept
    <3>7. venueOrders'[o].filled = venueOrders[o].filled + share[o]
      BY <1>2
    <3> QED
      BY <2>1, <2>3, <3>4, <3>5, <3>6, <3>7
  <2> QED
    BY <2>4, <2>5
<1> QED
  BY <1>12, <1>15, <1>16, <1>17 DEF ReportInv

LEMMA ReportInvInit == Init => ReportInv
<1> SUFFICES ASSUME Init PROVE ReportInv
  OBVIOUS
<1>1. DOMAIN venueJournal = {1} /\ venueJournal[1].kind = "VENUE_OPENED" /\ DOMAIN venueOrders = {}
  BY DEF Init
<1> QED
  BY <1>1 DEF ReportInv, Identified, Distinct, ClosedEarly, FilledByExecutions, Closing

LEMMA ReportInvNext ==
  ASSUME VenueInv, ReportInv, [Next]_venueVars
  PROVE  ReportInv'
<1>1. ASSUME NEW offer \in Offers, Accept(offer.id, offer.order)
      PROVE  ReportInv'
  BY <1>1, AcceptReports
<1>2. ASSUME NEW tick \in Ticks, Match(tick)
      PROVE  ReportInv'
  BY <1>2, MatchReports
<1>3. ASSUME NEW when \in Times, NEW o \in DOMAIN venueOrders, Cancel(o, when) \/ Reject(o, when)
      PROVE  ReportInv'
  <2>1. CASE Cancel(o, when)
    BY <2>1, CloseReports DEF Cancel, Closing
  <2>2. CASE Reject(o, when)
    BY <2>2, CloseReports DEF Reject, Closing
  <2> QED
    BY <1>3, <2>1, <2>2
<1>4. ASSUME NEW when \in Times, NEW id \in ActionIds, NEW a \in Entitlements,
             CorporateAction(id, a, when)
      PROVE  ReportInv'
  BY <1>4, CorporateActionReports
<1>5. CASE UNCHANGED venueVars
  <2>1. venueJournal' = venueJournal /\ venueOrders' = venueOrders
    BY <1>5 DEF venueVars
  <2>2. FilledByExecutions'
    BY <2>1 DEF ReportInv, FilledByExecutions
  <2> QED
    BY <2>1, <2>2 DEF ReportInv, Identified, Distinct, ClosedEarly
<1> QED
  BY <1>1, <1>2, <1>3, <1>4, <1>5 DEF Next

\* The reports say what happened to each order, once: an execution or a closing is told
\* from any other by its identity, nothing complete is closed, and what an order is filled
\* with is the total of its executions (match, cancel, reject and orders(),
\* paper_venue.py:54-135).
THEOREM ReportsAreTheOrders == Spec => []ReportInv
<1>1. VenueInv /\ ReportInv /\ [Next]_venueVars => ReportInv'
  BY ReportInvNext
<1> QED
  BY <1>1, ReportInvInit, VenueInvariant, PTL DEF Spec

-----------------------------------------------------------------------------
(* The ledger the model keeps is the fold of the journal, and a ledger that is *)
(* not short holds what its lots hold.                                         *)

\* One event in the loop of _ledger() (paper_venue.py:160-187) makes m of the ledger l;
\* a sale can only leave it short with a position below zero.
Carries(l, e, m) ==
  LET order == venueOrders[e.order]  value == e.price * e.quantity
  IN  /\ (e.kind = "VENUE_FILL" /\ order.side = "BUY") =>
            /\ m.cash = l.cash - (value + e.fee) /\ m.short = l.short
            /\ m.positions = [l.positions EXCEPT ![order.symbol] = @ + e.quantity]
      /\ (e.kind = "VENUE_FILL" /\ order.side # "BUY") =>
            /\ m.cash = l.cash + value - e.fee
            /\ m.positions = [l.positions EXCEPT ![order.symbol] = @ - e.quantity]
            /\ m.short => l.short \/ m.positions[order.symbol] < 0
      /\ e.kind = "VENUE_ACTION" =>
            /\ m.cash = l.cash + e.action.net /\ m.short = l.short
            /\ m.positions = [l.positions EXCEPT ![e.action.symbol] = (@ * e.action.num) \div e.action.den]
      /\ e.kind \notin {"VENUE_FILL", "VENUE_ACTION"} => m = l

SizesOf(ls) == [i \in DOMAIN ls |-> ls[i].quantity]
OfSymbol(ls, s) == {i \in DOMAIN ls : ls[i].symbol = s}
InLots(ls, s) == SumFunctionOnSet(SizesOf(ls), OfSymbol(ls, s))

Covers(l) == ~l.short => \A s \in Symbols : l.positions[s] = InLots(l.lots, s)

\* The ledgers after each event of the journal.
History(G) ==
  /\ G \in [0..Len(venueJournal) -> Ledger]
  /\ G[0].cash = Capital /\ G[0].positions = [s \in Symbols |-> 0] /\ ~G[0].short
  /\ G[Len(venueJournal)] = venueLedger
  /\ \A i \in 1..Len(venueJournal) : Carries(G[i-1], venueJournal[i], G[i])

LedgerIsReplay == \E G : History(G)

ReplayInv == venueLedger \in Ledger /\ Covers(venueLedger) /\ LedgerIsReplay

\* The sizes of lots are naturals, and so is the total of any of them.
LEMMA LotSizes ==
  ASSUME NEW ls \in Seq(Lot)
  PROVE  /\ DOMAIN ls = 1..Len(ls) /\ Len(ls) \in Nat /\ IsFiniteSet(DOMAIN ls)
         /\ \A i \in DOMAIN ls : ls[i] \in Lot /\ SizesOf(ls)[i] = ls[i].quantity /\ SizesOf(ls)[i] \in Nat
         /\ \A T \in SUBSET DOMAIN ls : IsFiniteSet(T) /\ SumFunctionOnSet(SizesOf(ls), T) \in Nat
<1>1. DOMAIN ls = 1..Len(ls) /\ Len(ls) \in Nat
  OBVIOUS
<1>2. IsFiniteSet(DOMAIN ls)
  BY <1>1, FS_Interval
<1>3. \A i \in DOMAIN ls : ls[i] \in Lot
  OBVIOUS
<1>4. \A i \in DOMAIN ls : SizesOf(ls)[i] = ls[i].quantity /\ SizesOf(ls)[i] \in Nat
  BY <1>3 DEF SizesOf, Lot
<1>5. \A T \in SUBSET DOMAIN ls : IsFiniteSet(T)
  BY <1>2, FS_Subset
<1>6. \A T \in SUBSET DOMAIN ls : SumFunctionOnSet(SizesOf(ls), T) \in Nat
  BY <1>2, <1>4, SumNat
<1> QED
  BY <1>1, <1>2, <1>3, <1>4, <1>5, <1>6

\* Lots whose sizes are these less what d takes from those of a symbol hold as much less.
LEMMA LotsLess ==
  ASSUME NEW ls \in Seq(Lot), NEW after \in Seq(Lot), NEW s, NEW q \in Nat, NEW d,
         DOMAIN after = DOMAIN ls,
         \A i \in DOMAIN ls : /\ after[i].symbol = ls[i].symbol
                              /\ d[i] \in Nat /\ (ls[i].symbol # s => d[i] = 0)
                              /\ after[i].quantity = ls[i].quantity - d[i],
         SumFunctionOnSet(d, OfSymbol(ls, s)) = q
  PROVE  \A x : InLots(after, x) = InLots(ls, x) - IF x = s THEN q ELSE 0
<1> SUFFICES ASSUME NEW x
             PROVE  InLots(after, x) = InLots(ls, x) - IF x = s THEN q ELSE 0
  OBVIOUS
<1> DEFINE f == SizesOf(ls)
           g == SizesOf(after)
           T == OfSymbol(ls, x)
<1>1. OfSymbol(after, x) = T
  BY DEF OfSymbol
<1>2. T \in SUBSET DOMAIN ls /\ T \in SUBSET DOMAIN after /\ \A i \in T : ls[i].symbol = x
  BY DEF OfSymbol
<1>3. /\ IsFiniteSet(T) /\ SumFunctionOnSet(f, T) \in Nat
      /\ \A i \in T : f[i] = ls[i].quantity /\ f[i] \in Nat
  BY <1>2, LotSizes
<1>4. \A i \in T : g[i] = after[i].quantity
  BY <1>2, LotSizes
<1> HIDE DEF f, g, T
<1>5. \A i \in T : f[i] \in Int /\ d[i] \in Int /\ g[i] = f[i] - d[i]
  BY <1>2, <1>3, <1>4
<1>6. SumFunctionOnSet(g, T) = SumFunctionOnSet(f, T) - SumFunctionOnSet(d, T)
  BY <1>3, <1>5, SumLess
<1>7. CASE x = s
  <2>1. SumFunctionOnSet(d, T) = q
    BY <1>7 DEF T
  <2> QED
    BY <1>1, <1>6, <1>7, <2>1 DEF InLots, f, g, T
<1>8. CASE x # s
  <2>1. \A i \in T : g[i] = f[i]
    BY <1>2, <1>3, <1>5, <1>8
  <2>2. SumFunctionOnSet(g, T) = SumFunctionOnSet(f, T)
    BY <1>3, <2>1, SumSame
  <2> QED
    BY <1>1, <1>3, <1>8, <2>2 DEF InLots, f, g, T
<1> QED
  BY <1>7, <1>8

\* One lot more.
LEMMA LotsMore ==
  ASSUME NEW ls \in Seq(Lot), NEW lot \in Lot, NEW x
  PROVE  InLots(Append(ls, lot), x) = InLots(ls, x) + IF x = lot.symbol THEN lot.quantity ELSE 0
<1> DEFINE after == Append(ls, lot)
           f == SizesOf(ls)
           g == SizesOf(after)
           T == OfSymbol(ls, x)
           n == Len(ls) + 1
<1>1. /\ after \in Seq(Lot) /\ DOMAIN after = DOMAIN ls \union {n} /\ n \notin DOMAIN ls
      /\ after[n] = lot /\ \A i \in DOMAIN ls : after[i] = ls[i]
  <2>1. Len(ls) \in Nat /\ DOMAIN ls = 1..Len(ls)
    OBVIOUS
  <2>2. DOMAIN after = 1..n /\ after \in Seq(Lot) /\ after[n] = lot /\ \A i \in 1..Len(ls) : after[i] = ls[i]
    OBVIOUS
  <2>3. 1..n = (1..Len(ls)) \union {n} /\ n \notin 1..Len(ls)
    BY <2>1
  <2> QED
    BY <2>1, <2>2, <2>3
<1> HIDE DEF n
<1>2. T \in SUBSET DOMAIN ls /\ n \notin T
  BY <1>1 DEF OfSymbol
<1>3. IsFiniteSet(T) /\ SumFunctionOnSet(f, T) \in Nat /\ \A i \in T : f[i] \in Nat /\ f[i] = ls[i].quantity
  BY <1>2, LotSizes
<1>4. g[n] = lot.quantity /\ g[n] \in Nat /\ \A i \in T : g[i] = f[i]
  <2>1. n \in DOMAIN after /\ T \subseteq DOMAIN after
    BY <1>1, <1>2
  <2>2. \A i \in DOMAIN after : g[i] = after[i].quantity /\ g[i] \in Nat
    <3>1. after \in Seq(Lot)
      BY <1>1
    <3> QED
      BY <3>1, LotSizes
  <2> QED
    BY <1>1, <1>2, <1>3, <2>1, <2>2
<1>5. OfSymbol(after, x) = IF x = lot.symbol THEN T \union {n} ELSE T
  <2>1. \A i \in DOMAIN ls \union {n} : i \in OfSymbol(after, x) <=> i \in T \/ (i = n /\ x = lot.symbol)
    BY <1>1 DEF OfSymbol
  <2>2. OfSymbol(after, x) \subseteq DOMAIN ls \union {n} /\ T \subseteq DOMAIN ls \union {n}
    BY <1>1, <1>2 DEF OfSymbol
  <2> HIDE DEF T
  <2> QED
    BY <2>1, <2>2
<1> HIDE DEF f, g, T
<1>6. SumFunctionOnSet(g, T) = SumFunctionOnSet(f, T)
  BY <1>3, <1>4, SumSame
<1>7. SumFunctionOnSet(g, T \union {n}) = g[n] + SumFunctionOnSet(g, T)
  <2>1. \A i \in T : g[i] \in Int
    BY <1>3, <1>4
  <2> QED
    BY <1>2, <1>3, <1>4, <2>1, SumWith
<1> QED
  BY <1>3, <1>4, <1>5, <1>6, <1>7 DEF InLots, f, g, T

\* An execution the lots do not cover leaves a position below zero, and one they cover
\* takes as much out of the lots as out of the position (paper_venue.py:170-186).
LEMMA SettleCovers ==
  ASSUME NEW l \in Ledger, Covers(l), NEW e, e.order \in DOMAIN venueOrders,
         venueOrders[e.order].symbol \in Symbols,
         e.quantity \in Nat, e.price \in Int, e.fee \in Int
  PROVE  /\ Covers(Settle(l, e))
         /\ e.kind = "VENUE_FILL" => Carries(l, e, Settle(l, e))
<1> DEFINE s == venueOrders[e.order].symbol
           q == e.quantity
           value == e.price * q
           ls == l.lots
           older(i) == {j \in 1..(i-1) : ls[j].symbol = s}
           sizes    == [i \in DOMAIN ls |-> ls[i].quantity]
           left(i)  == Max({0, q - SumFunctionOnSet(sizes, older(i))})
           A == OfSymbol(ls, s)
           held == SumFunctionOnSet(sizes, A)
           n == Len(ls)
           after == Settle(l, e)
<1>1. /\ l.cash \in Int /\ l.positions \in [Symbols -> Int] /\ ls \in Seq(Lot) /\ l.short \in BOOLEAN
      /\ s \in Symbols /\ q \in Nat /\ value \in Int /\ e.fee \in Int
  BY DEF Ledger
<1>2. sizes = SizesOf(ls) /\ held = InLots(ls, s)
  BY DEF SizesOf, InLots
<1>3. /\ DOMAIN ls = 1..n /\ n \in Nat /\ IsFiniteSet(A) /\ held \in Nat /\ A \subseteq 1..n
      /\ \A i \in 1..n : ls[i] \in Lot /\ sizes[i] = ls[i].quantity /\ sizes[i] \in Nat
  <2>1. A \in SUBSET DOMAIN ls
    BY DEF OfSymbol
  <2> HIDE DEF A, sizes
  <2> QED
    BY <1>1, <1>2, <2>1, LotSizes
<1>4. ~l.short => l.positions[s] = held
  BY <1>1, <1>2 DEF Covers
<1>5. after \in Ledger
  BY SettleTyped
<1>6. CASE venueOrders[e.order].side = "BUY"
  <2> DEFINE lot == [symbol |-> s, quantity |-> q]
  <2>1. /\ after.short = l.short /\ after.positions = [l.positions EXCEPT ![s] = @ + q]
        /\ after.cash = l.cash - (value + e.fee) /\ after.lots = Append(ls, lot)
    <3> DEFINE cash == l.cash - (value + e.fee)
               positions == [l.positions EXCEPT ![s] = @ + q]
               lots == Append(ls, lot)
               a == [l EXCEPT !.cash = cash]
               b == [a EXCEPT !.positions = positions]
               c == [b EXCEPT !.lots = lots]
    <3>1. after = c
      BY <1>6 DEF Settle
    <3> HIDE DEF cash, positions, lots
    <3>2. DOMAIN l = {"cash", "positions", "lots", "short"}
      BY DEF Ledger
    <3>3. c.short = l.short /\ c.positions = positions /\ c.lots = lots /\ c.cash = cash
      BY <3>2
    <3> QED
      BY <3>1, <3>3 DEF positions, lots, cash
  <2>2. lot \in Lot /\ lot.symbol = s /\ lot.quantity = q
    BY <1>1 DEF Lot
  <2> HIDE DEF lot
  <2>3. \A x : InLots(after.lots, x) = InLots(ls, x) + IF x = s THEN q ELSE 0
    <3> DEFINE more == after.lots
    <3>1. more = Append(ls, lot)
      BY <2>1
    <3> HIDE DEF more, ls
    <3>2. \A x : InLots(more, x) = InLots(ls, x) + IF x = lot.symbol THEN lot.quantity ELSE 0
      <4>1. ls \in Seq(Lot) /\ lot \in Lot
        BY <1>1, <2>2
      <4>2. \A x : InLots(Append(ls, lot), x) = InLots(ls, x) + IF x = lot.symbol THEN lot.quantity ELSE 0
        BY <4>1, LotsMore
      <4> QED
        BY <3>1, <4>2
    <3> QED
      BY <2>2, <3>2 DEF more
  <2>4. \A x \in Symbols : after.positions[x] = l.positions[x] + IF x = s THEN q ELSE 0
    <3> HIDE DEF s, q
    <3> QED
      BY <1>1, <2>1
  <2>5. Covers(after)
    BY <2>1, <2>3, <2>4 DEF Covers
  <2>6. e.kind = "VENUE_FILL" => Carries(l, e, after)
    <3> HIDE DEF after
    <3> QED
      BY <1>6, <2>1 DEF Carries
  <2> QED
    BY <2>5, <2>6
<1>7. CASE venueOrders[e.order].side # "BUY"
  <2> DEFINE over == left(Len(ls) + 1) > 0
             eaten(i) == [ls[i] EXCEPT !.quantity = @ - Min({@, left(i)})]
             lots == [i \in DOMAIN ls |-> IF ls[i].symbol = s THEN eaten(i) ELSE ls[i]]
  <2>1. /\ after.short = (l.short \/ over) /\ after.positions = [l.positions EXCEPT ![s] = @ - q]
        /\ after.cash = l.cash + value - e.fee /\ after.lots = lots
    BY <1>7 DEF Settle
  <2>2. over <=> q > held
    <3>1. older(n + 1) = A
      BY <1>3 DEF OfSymbol
    <3>2. left(n + 1) = Max({0, q - held})
      BY <3>1
    <3> HIDE DEF left, held
    <3>3. 0 \in Int /\ q - held \in Int
      BY <1>1, <1>3
    <3>4. Max({0, q - held}) = IF 0 >= q - held THEN 0 ELSE q - held
      BY <3>3, OfTwo
    <3> QED
      BY <1>1, <1>3, <3>2, <3>4
  <2>3. \A x \in Symbols : after.positions[x] = l.positions[x] - IF x = s THEN q ELSE 0
    <3> HIDE DEF s, q
    <3> QED
      BY <1>1, <2>1
  <2>4. ASSUME l.short
        PROVE  Covers(after) /\ (after.short => l.short \/ after.positions[s] < 0)
    BY <2>1, <2>4 DEF Covers
  <2>5. ASSUME ~l.short /\ over
        PROVE  Covers(after) /\ (after.short => l.short \/ after.positions[s] < 0)
    <3>1. after.positions[s] < 0
      BY <1>1, <1>3, <1>4, <2>2, <2>3, <2>5
    <3> QED
      BY <1>1, <2>1, <2>5, <3>1 DEF Covers
  <2>6. ASSUME ~l.short /\ ~over
        PROVE  Covers(after) /\ (after.short => l.short \/ after.positions[s] < 0)
    <3> DEFINE d == [i \in 1..n |-> IF i \in A THEN Min({sizes[i], left(i)}) ELSE 0]
               b == [i \in 1..n |-> older(i)]
    <3>1. /\ \A i \in 1..n : d[i] \in Nat /\ d[i] <= sizes[i] /\ (i \notin A => d[i] = 0)
          /\ SumFunctionOnSet(d, A) = q
      <4>1. n \in Nat /\ q \in Nat /\ A \in SUBSET (1..n) /\ q <= SumFunctionOnSet(sizes, A)
        <5> HIDE DEF sizes, A
        <5> QED
          BY <1>1, <1>3, <2>2, <2>6
      <4>2. \A i \in 1..n : b[i] = {j \in 1..(i-1) : j \in A}
        BY <1>3 DEF OfSymbol
      <4>3. \A i \in 1..n : d[i] = IF i \in A
                              THEN Min({sizes[i], Max({0, q - SumFunctionOnSet(sizes, b[i])})}) ELSE 0
        BY <1>3
      <4>4. \A i \in 1..n : sizes[i] \in Nat
        BY <1>3
      <4> HIDE DEF d, b, sizes, A, n, q
      <4>5. Draws(n, sizes, A, q, b, d)
        BY <4>1, <4>2, <4>3, <4>4 DEF Draws
      <4> QED
        BY <4>5, Drawing
    <3>2. \A i \in 1..n : lots[i].symbol = ls[i].symbol /\ lots[i].quantity = ls[i].quantity - d[i]
      <4> SUFFICES ASSUME NEW i \in 1..n
                   PROVE  lots[i].symbol = ls[i].symbol /\ lots[i].quantity = ls[i].quantity - d[i]
        OBVIOUS
      <4>1. DOMAIN ls[i] = {"symbol", "quantity"} /\ ls[i].quantity \in Nat
        BY <1>3 DEF Lot
      <4>2. i \in A <=> ls[i].symbol = s
        BY <1>3 DEF OfSymbol
      <4>3. d[i] = IF i \in A THEN Min({ls[i].quantity, left(i)}) ELSE 0
        BY <1>3
      <4> HIDE DEF left, A, d, s
      <4>4. lots[i] = IF ls[i].symbol = s THEN eaten(i) ELSE ls[i]
        BY <1>3
      <4> HIDE DEF lots
      <4>5. CASE i \in A
        BY <4>1, <4>2, <4>3, <4>4, <4>5
      <4>6. CASE i \notin A
        <5>1. lots[i] = ls[i] /\ d[i] = 0
          BY <4>2, <4>3, <4>4, <4>6
        <5> QED
          BY <4>1, <5>1
      <4> QED
        BY <4>5, <4>6
    <3>3. lots \in Seq(Lot)
      BY <1>5, <2>1 DEF Ledger
    <3>4. DOMAIN lots = DOMAIN ls
      OBVIOUS
    <3>5. \A i \in 1..n : d[i] \in Nat /\ (ls[i].symbol # s => d[i] = 0)
      BY <1>3, <3>1 DEF OfSymbol
    <3> HIDE DEF lots, d, s, q, A, ls, n
    <3>6. \A x : InLots(lots, x) = InLots(ls, x) - IF x = s THEN q ELSE 0
      <4>1. SumFunctionOnSet(d, OfSymbol(ls, s)) = q
        BY <3>1 DEF A
      <4>2. ls \in Seq(Lot) /\ lots \in Seq(Lot) /\ q \in Nat /\ DOMAIN lots = DOMAIN ls
        BY <1>1, <3>3, <3>4
      <4>3. \A i \in DOMAIN ls : /\ lots[i].symbol = ls[i].symbol
                                /\ d[i] \in Nat /\ (ls[i].symbol # s => d[i] = 0)
                                /\ lots[i].quantity = ls[i].quantity - d[i]
        BY <1>3, <3>2, <3>5
      <4> QED
        BY <4>1, <4>2, <4>3, LotsLess
    <3>7. \A x \in Symbols : l.positions[x] = InLots(ls, x)
      BY <2>6 DEF Covers, ls
    <3>8. Covers(after)
      BY <2>1, <2>3, <3>6, <3>7 DEF Covers
    <3> QED
      BY <2>1, <2>6, <3>8
  <2>7. Covers(after) /\ (after.short => l.short \/ after.positions[s] < 0)
    BY <2>4, <2>5, <2>6
  <2>8. e.kind = "VENUE_FILL" => Carries(l, e, after)
    <3> HIDE DEF after
    <3> QED
      BY <1>7, <2>1, <2>7 DEF Carries
  <2> QED
    BY <2>7, <2>8
<1> QED
  BY <1>6, <1>7

\* An entitlement that leaves no fraction scales the position as it scales the lots
\* (paper_venue.py:155-157, 164-169).
LEMMA EntitledCovers ==
  ASSUME NEW l \in Ledger, Covers(l), NEW a \in Entitlements, ~l.short,
         \A i \in DOMAIN l.lots : l.lots[i].symbol = a.symbol => (l.lots[i].quantity * a.num) % a.den = 0
  PROVE  /\ Covers(Entitled(l, a))
         /\ \A e : e.kind = "VENUE_ACTION" /\ e.action = a => Carries(l, e, Entitled(l, a))
<1> DEFINE ls == l.lots
           s == a.symbol
           num == a.num
           den == a.den
           scaled(q) == (q * num) \div den
           new(i) == IF ls[i].symbol = s THEN [ls[i] EXCEPT !.quantity = scaled(@)] ELSE ls[i]
           after == [i \in DOMAIN ls |-> new(i)]
           f == SizesOf(ls)
           g == SizesOf(after)
           n == Len(ls)
<1>1. /\ l.cash \in Int /\ l.positions \in [Symbols -> Int] /\ ls \in Seq(Lot)
      /\ s \in Symbols /\ num \in Nat \ {0} /\ den \in Nat \ {0} /\ num \in Int /\ den \in Int
  BY VenueActionAssumption DEF Ledger
<1>2. /\ Entitled(l, a).short = l.short /\ Entitled(l, a).lots = after
      /\ Entitled(l, a).positions = [l.positions EXCEPT ![s] = (@ * num) \div den]
      /\ Entitled(l, a).cash = l.cash + a.net
  <2> DEFINE cash == l.cash + a.net
             positions == [l.positions EXCEPT ![s] = scaled(@)]
             x == [l EXCEPT !.cash = cash]
             y == [x EXCEPT !.positions = positions]
             z == [y EXCEPT !.lots = after]
  <2>1. Entitled(l, a) = z
    BY DEF Entitled
  <2> HIDE DEF cash, positions, after
  <2>2. DOMAIN l = {"cash", "positions", "lots", "short"}
    BY DEF Ledger
  <2>3. z.short = l.short /\ z.positions = positions /\ z.lots = after /\ z.cash = cash
    BY <2>2
  <2> QED
    BY <2>1, <2>3 DEF positions, cash
<1>3. /\ DOMAIN ls = 1..n /\ n \in Nat /\ \A i \in 1..n : ls[i] \in Lot /\ ls[i].quantity \in Nat /\ f[i] = ls[i].quantity
      /\ \A T \in SUBSET (1..n) : IsFiniteSet(T) /\ SumFunctionOnSet(f, T) \in Nat
  BY <1>1, LotSizes DEF Lot
<1>4. ASSUME NEW i \in 1..n, ls[i].symbol = s
      PROVE  scaled(f[i]) \in Nat /\ scaled(f[i]) * den = f[i] * num
  <2> DEFINE x == f[i] * num
  <2>1. x \in Nat /\ x % den = 0
    BY <1>1, <1>3, <1>4
  <2> HIDE DEF x, den
  <2>2. (x \div den) \in Nat /\ (x \div den) * den = x
    BY <1>1, <2>1, Divides
  <2> QED
    BY <2>2 DEF x
<1> HIDE DEF scaled, num, den, f
<1>5. ASSUME NEW i \in 1..n
      PROVE  /\ after[i].symbol = ls[i].symbol
             /\ after[i].quantity = IF ls[i].symbol = s THEN scaled(f[i]) ELSE f[i]
  BY <1>3 DEF Lot
<1>6. DOMAIN after = 1..n
  BY <1>3
<1> HIDE DEF after, ls, s
<1>7. \A i \in 1..n : g[i] = IF ls[i].symbol = s THEN scaled(f[i]) ELSE f[i]
  BY <1>5, <1>6 DEF SizesOf
<1> HIDE DEF g
<1>8. \A x : OfSymbol(after, x) = OfSymbol(ls, x) /\ OfSymbol(ls, x) \in SUBSET (1..n)
  BY <1>3, <1>5, <1>6 DEF OfSymbol
<1>9. ASSUME NEW x \in Symbols, x # s
      PROVE  InLots(after, x) = InLots(ls, x)
  <2> DEFINE T == OfSymbol(ls, x)
  <2>1. \A i \in T : g[i] = f[i]
    BY <1>3, <1>7, <1>9 DEF OfSymbol
  <2>2. IsFiniteSet(T)
    BY <1>3, <1>8
  <2> HIDE DEF T
  <2>3. SumFunctionOnSet(g, T) = SumFunctionOnSet(f, T)
    BY <2>1, <2>2, SumSame
  <2> QED
    BY <1>8, <2>3 DEF InLots, T, f, g
<1>10. InLots(after, s) = scaled(InLots(ls, s))
  <2> DEFINE T == OfSymbol(ls, s)
             was == SumFunctionOnSet(f, T)
             is == SumFunctionOnSet(g, T)
  <2>1. T \in SUBSET (1..n) /\ IsFiniteSet(T) /\ was \in Nat /\ \A i \in T : ls[i].symbol = s
    BY <1>3, <1>8 DEF OfSymbol
  <2> HIDE DEF T
  <2>2. \A i \in T : g[i] \in Nat /\ f[i] \in Int /\ g[i] \in Int /\ g[i] * den = f[i] * num
    BY <1>3, <1>4, <1>7, <2>1
  <2>3. is * den = was * num
    <3>1. IsFiniteSet(T) /\ num \in Int /\ den \in Int
      BY <1>1, <2>1
    <3>2. \A i \in T : f[i] \in Int /\ g[i] \in Int /\ g[i] * den = f[i] * num
      BY <2>2
    <3>3. SumFunctionOnSet(g, T) * den = SumFunctionOnSet(f, T) * num
      BY ONLY <3>1, <3>2, SumScaled
    <3> QED
      BY <3>3
  <2>4. is \in Nat
    BY <2>1, <2>2, SumNat
  <2> HIDE DEF is, was
  <2>5. scaled(was) = is
    <3> DEFINE x == was * num
    <3>1. x \in Nat /\ x = is * den
      BY <1>1, <2>1, <2>3
    <3> HIDE DEF x
    <3>2. x \div den = is
      BY <1>1, <2>4, <3>1, Divides
    <3> QED
      BY <3>2 DEF x, scaled
  <2> QED
    BY <1>8, <2>5 DEF InLots, T, f, g, was, is
<1>11. \A x \in Symbols : Entitled(l, a).positions[x] = IF x = s THEN scaled(l.positions[x]) ELSE l.positions[x]
  BY <1>1, <1>2 DEF scaled
<1>12. \A x \in Symbols : l.positions[x] = InLots(ls, x)
  BY DEF Covers, ls
<1>13. Covers(Entitled(l, a))
  BY <1>2, <1>9, <1>10, <1>11, <1>12 DEF Covers
<1>14. ASSUME NEW e, e.kind = "VENUE_ACTION", e.action = a
       PROVE  Carries(l, e, Entitled(l, a))
  <2> DEFINE after2 == Entitled(l, a)
  <2>1. /\ after2.short = l.short /\ after2.cash = l.cash + a.net
        /\ after2.positions = [l.positions EXCEPT ![a.symbol] = (@ * a.num) \div a.den]
    BY <1>2 DEF s, num, den
  <2> HIDE DEF after2
  <2>2. Carries(l, e, after2)
    BY <1>14, <2>1 DEF Carries
  <2> QED
    BY <2>2 DEF after2
<1> QED
  BY <1>13, <1>14

\* More events, each of which the ledger is carried through, and orders that keep their terms.
LEMMA ReplayExtends ==
  ASSUME VenueInv, LedgerIsReplay, NEW m \in Nat, NEW f \in [0..m -> Ledger],
         \A o \in DOMAIN venueOrders : /\ venueOrders'[o].symbol = venueOrders[o].symbol
                                       /\ venueOrders'[o].side = venueOrders[o].side,
         f[0] = venueLedger, f[m] = venueLedger', Len(venueJournal') = Len(venueJournal) + m,
         \A i \in 1..Len(venueJournal) : venueJournal'[i] = venueJournal[i],
         \A k \in 1..m : LET e == venueJournal'[Len(venueJournal) + k]
                         IN  /\ Carries(f[k-1], e, f[k])
                             /\ e.kind = "VENUE_FILL" => e.order \in DOMAIN venueOrders
  PROVE  LedgerIsReplay'
<1> DEFINE n == Len(venueJournal)
<1>1. PICK G : History(G)
  BY DEF LedgerIsReplay
<1>2. n \in Nat /\ DOMAIN venueJournal = 1..n
  BY DEF VenueInv, Shaped
<1>3. /\ G \in [0..n -> Ledger] /\ G[n] = f[0]
      /\ G[0].cash = Capital /\ G[0].positions = [s \in Symbols |-> 0] /\ ~G[0].short
      /\ \A i \in 1..n : Carries(G[i-1], venueJournal[i], G[i])
  BY <1>1 DEF History
<1> HIDE DEF n
<1> DEFINE H == [i \in 0..(n + m) |-> IF i <= n THEN G[i] ELSE f[i - n]]
<1>4. H \in [0..(n + m) -> Ledger]
  <2> SUFFICES ASSUME NEW i \in 0..(n + m) PROVE (IF i <= n THEN G[i] ELSE f[i - n]) \in Ledger
    OBVIOUS
  <2>1. i <= n => i \in 0..n
    BY <1>2
  <2>2. ~(i <= n) => i - n \in 0..m
    BY <1>2
  <2> QED
    BY <1>3, <2>1, <2>2
<1>5. \A i \in 0..n : H[i] = G[i]
  BY <1>2
<1>6. \A k \in 0..m : H[n + k] = f[k]
  <2> SUFFICES ASSUME NEW k \in 0..m PROVE H[n + k] = f[k]
    OBVIOUS
  <2>1. n + k \in 0..(n + m) /\ (n + k) - n = k /\ (n + k <= n <=> k = 0) /\ n \in 0..n
    BY <1>2
  <2>2. CASE k = 0
    BY <1>2, <1>3, <1>5, <2>1, <2>2
  <2>3. CASE k # 0
    BY <2>1, <2>3
  <2> QED
    BY <2>2, <2>3
<1> HIDE DEF H
<1>7. ASSUME NEW i \in 1..(n + m)
      PROVE  /\ Carries(H[i-1], venueJournal'[i], H[i])
             /\ venueJournal'[i].kind = "VENUE_FILL" => venueJournal'[i].order \in DOMAIN venueOrders
  <2>1. CASE i <= n
    <3>1. i \in 1..n /\ i-1 \in 0..n /\ i \in 0..n
      BY <1>2, <2>1
    <3>2. venueJournal'[i] = venueJournal[i] /\ H[i-1] = G[i-1] /\ H[i] = G[i]
      BY <1>5, <3>1 DEF n
    <3>3. venueJournal[i].kind = "VENUE_FILL" => venueJournal[i].order \in DOMAIN venueOrders
      BY <1>2, <3>1 DEF VenueInv, Ticked
    <3> QED
      BY <1>3, <3>1, <3>2, <3>3
  <2>2. CASE ~(i <= n)
    <3> DEFINE k == i - n
    <3>1. k \in 1..m /\ k \in 0..m /\ k-1 \in 0..m /\ n + k = i /\ n + (k-1) = i-1
      BY <1>2, <2>2
    <3> HIDE DEF k
    <3>2. H[i] = f[k] /\ H[i-1] = f[k-1]
      BY <1>6, <3>1
    <3>3. /\ Carries(f[k-1], venueJournal'[n + k], f[k])
          /\ venueJournal'[n + k].kind = "VENUE_FILL" => venueJournal'[n + k].order \in DOMAIN venueOrders
      BY <3>1 DEF n
    <3> QED
      BY <3>1, <3>2, <3>3
  <2> QED
    BY <2>1, <2>2
<1>8. 0 \in 0..n /\ n + m \in Nat /\ m \in 0..m
  BY <1>2
<1>9. /\ H \in [0..Len(venueJournal') -> Ledger] /\ H[0] = G[0] /\ H[Len(venueJournal')] = venueLedger'
      /\ \A i \in 1..Len(venueJournal') :
           /\ Carries(H[i-1], venueJournal'[i], H[i])
           /\ venueJournal'[i].kind = "VENUE_FILL" => venueJournal'[i].order \in DOMAIN venueOrders
  <2>1. Len(venueJournal') = n + m
    BY DEF n
  <2>2. H[0] = G[0] /\ H[n + m] = venueLedger'
    BY <1>5, <1>6, <1>8
  <2> QED
    BY <1>4, <1>7, <2>1, <2>2
<1>10. PICK h : /\ h \in [0..Len(venueJournal') -> Ledger] /\ h[0] = G[0] /\ h[Len(venueJournal')] = venueLedger'
                /\ \A i \in 1..Len(venueJournal') :
                     /\ Carries(h[i-1], venueJournal'[i], h[i])
                     /\ venueJournal'[i].kind = "VENUE_FILL" => venueJournal'[i].order \in DOMAIN venueOrders
  BY <1>9
<1>11. ASSUME NEW i \in 1..Len(venueJournal')
      PROVE  Carries(h[i-1], venueJournal[i], h[i])'
  <2> DEFINE e == venueJournal'[i]
  <2>1. Carries(h[i-1], e, h[i]) /\ (e.kind = "VENUE_FILL" => e.order \in DOMAIN venueOrders)
    BY <1>10
  <2>2. e.kind = "VENUE_FILL" => /\ venueOrders'[e.order].symbol = venueOrders[e.order].symbol
                                 /\ venueOrders'[e.order].side = venueOrders[e.order].side
    BY <2>1
  <2> QED
    BY <2>1, <2>2 DEF Carries
<1>12. History(h)'
  BY <1>3, <1>10, <1>11 DEF History
<1> QED
  BY <1>12 DEF LedgerIsReplay

\* One event more.
LEMMA ReplayOne ==
  ASSUME VenueInv, LedgerIsReplay, venueLedger \in Ledger, venueLedger' \in Ledger,
         \A o \in DOMAIN venueOrders : /\ venueOrders'[o].symbol = venueOrders[o].symbol
                                       /\ venueOrders'[o].side = venueOrders[o].side,
         NEW e \in VenueEvent, Write(<<e>>), e.kind # "VENUE_FILL",
         Carries(venueLedger, e, venueLedger')
  PROVE  LedgerIsReplay'
<1> DEFINE f == [k \in 0..1 |-> IF k = 0 THEN venueLedger ELSE venueLedger']
           n == Len(venueJournal)
<1>1. /\ venueJournal' \in Seq(VenueEvent) /\ n \in Nat
      /\ DOMAIN venueJournal' = DOMAIN venueJournal \union {n + 1} /\ DOMAIN venueJournal = 1..n
      /\ \A i \in DOMAIN venueJournal : venueJournal'[i] = venueJournal[i]
      /\ venueJournal'[n + 1] = e
  BY WritingOne DEF VenueInv, Shaped
<1>2. Len(venueJournal') = n + 1
  <2>1. DOMAIN venueJournal' = 1..Len(venueJournal') /\ Len(venueJournal') \in Nat
    BY <1>1
  <2> HIDE DEF n
  <2>2. 1..Len(venueJournal') = (1..n) \union {n + 1}
    BY <1>1, <2>1
  <2>3. n + 1 \in 1..Len(venueJournal')
    BY <2>2
  <2>4. Len(venueJournal') \in (1..n) \union {n + 1}
    <3>1. Len(venueJournal') \in 1..Len(venueJournal')
      BY <2>1, <2>3, <1>1
    <3> QED
      BY <2>2, <3>1
  <2> QED
    BY <1>1, <2>1, <2>3, <2>4
<1>3. f \in [0..1 -> Ledger] /\ f[0] = venueLedger /\ f[1] = venueLedger'
  OBVIOUS
<1> HIDE DEF f
<1>4. \A k \in 1..1 : k = 1 /\ k-1 = 0 /\ n + k = n + 1
  OBVIOUS
<1>5. \A k \in 1..1 : LET a == venueJournal'[n + k]
                      IN  /\ Carries(f[k-1], a, f[k])
                          /\ a.kind = "VENUE_FILL" => a.order \in DOMAIN venueOrders
  BY <1>1, <1>3, <1>4
<1>6. 1 \in Nat
  OBVIOUS
<1> QED
  BY <1>1, <1>2, <1>3, <1>5, <1>6, ReplayExtends

\* An order is added to the others.
LEMMA AcceptReplays ==
  ASSUME VenueInv, ReplayInv, NEW offer \in Offers, Accept(offer.id, offer.order)
  PROVE  ReplayInv'
<1> DEFINE o == offer.id
           e == [kind |-> "VENUE_ACCEPTED", id |-> o, order |-> o, time |-> offer.order.accepted_at]
<1>1. /\ Write(<<e>>) /\ venueLedger' = venueLedger
      /\ \A p \in DOMAIN venueOrders : p # o => venueOrders'[p] = venueOrders[p]
  BY DEF Accept
<1>2. o \notin DOMAIN venueOrders
  BY Unknown DEF Accept
<1>3. e \in VenueEvent /\ e.kind = "VENUE_ACCEPTED"
  BY OfferAssumption DEF VenueEvent
<1> HIDE DEF e
<1>4. Carries(venueLedger, e, venueLedger')
  BY <1>1, <1>3 DEF Carries
<1>5. LedgerIsReplay'
  BY <1>1, <1>2, <1>3, <1>4, ReplayOne DEF ReplayInv
<1> QED
  BY <1>1, <1>5 DEF ReplayInv, Covers

\* An order is closed.
LEMMA CloseReplays ==
  ASSUME VenueInv, ReplayInv, NEW kind \in Closing, NEW status, NEW o \in DOMAIN venueOrders,
         NEW when \in Times, Close(kind, status, o, when)
  PROVE  ReplayInv'
<1> DEFINE e == [kind |-> kind, id |-> <<kind, o, 0>>, order |-> o, time |-> when]
<1>1. /\ Write(<<e>>) /\ venueLedger' = venueLedger
      /\ venueOrders' = [venueOrders EXCEPT ![o].status = status]
  BY DEF Close
<1>2. \A p \in DOMAIN venueOrders : /\ venueOrders'[p].symbol = venueOrders[p].symbol
                                    /\ venueOrders'[p].side = venueOrders[p].side
  <2> SUFFICES ASSUME NEW p \in DOMAIN venueOrders
               PROVE  /\ venueOrders'[p].symbol = venueOrders[p].symbol
                      /\ venueOrders'[p].side = venueOrders[p].side
    OBVIOUS
  <2>1. Kept(venueOrders[p])
    BY DEF VenueInv, Shaped
  <2>2. {"symbol", "side"} \subseteq DOMAIN venueOrders[p]
    BY <2>1 DEF Kept
  <2> QED
    BY <1>1, <2>2
<1>3. e \in VenueEvent /\ e.kind = kind
  BY VenueBound DEF VenueEvent, Closing, VenueInv, Shaped
<1> HIDE DEF e
<1>4. Carries(venueLedger, e, venueLedger')
  BY <1>1, <1>3 DEF Carries, Closing
<1>5. LedgerIsReplay'
  <2>1. e.kind # "VENUE_FILL"
    BY <1>3 DEF Closing
  <2> QED
    BY <1>1, <1>2, <1>3, <1>4, <2>1, ReplayOne DEF ReplayInv
<1> QED
  BY <1>1, <1>5 DEF ReplayInv, Covers

\* An entitlement is applied to a ledger that is not short, without a fraction.
LEMMA CorporateActionReplays ==
  ASSUME VenueInv, ReplayInv, NEW id \in ActionIds, NEW a \in Entitlements, NEW when \in Times,
         CorporateAction(id, a, when)
  PROVE  ReplayInv'
<1> DEFINE e == [kind |-> "VENUE_ACTION", id |-> id, action |-> a, time |-> when]
<1>1. /\ Write(<<e>>) /\ venueLedger' = Entitled(venueLedger, a) /\ venueOrders' = venueOrders
      /\ ~venueLedger.short
      /\ \A i \in DOMAIN venueLedger.lots :
            venueLedger.lots[i].symbol = a.symbol => (venueLedger.lots[i].quantity * a.num) % a.den = 0
  BY DEF CorporateAction
<1>2. venueLedger \in Ledger /\ Covers(venueLedger) /\ LedgerIsReplay
  BY DEF ReplayInv
<1>3. e \in VenueEvent /\ e.kind = "VENUE_ACTION" /\ e.action = a
  BY VenueBound DEF VenueEvent
<1> HIDE DEF e
<1>4. Covers(Entitled(venueLedger, a)) /\ Carries(venueLedger, e, Entitled(venueLedger, a))
  BY <1>1, <1>2, <1>3, EntitledCovers
<1>5. venueLedger' \in Ledger
  BY <1>1, <1>2, EntitledTyped
<1>6. LedgerIsReplay'
  BY <1>1, <1>2, <1>3, <1>4, <1>5, ReplayOne
<1>7. Covers(venueLedger)'
  BY <1>1, <1>4 DEF Covers
<1> QED
  BY <1>5, <1>6, <1>7 DEF ReplayInv

\* The executions of a tick carry the ledger on, one by one.
LEMMA MatchReplays ==
  ASSUME VenueInv, ReplayInv, NEW tick \in Ticks, Match(tick)
  PROVE  ReplayInv'
<1> DEFINE fills == Executions(tick)
           c == Len(fills)
           n == Len(venueJournal)
<1>1. venueLedger \in Ledger /\ Covers(venueLedger) /\ LedgerIsReplay
  BY DEF ReplayInv
<1>2. PICK f \in [0..c -> Ledger] :
         /\ f[0] = venueLedger /\ f[c] = venueLedger'
         /\ \A k \in 1..c : f[k] = Settle(f[k-1], fills[k])
  BY <1>1, SettledMatch
<1>3. /\ n \in Nat /\ c \in Nat /\ venueJournal' \in Seq(VenueEvent)
      /\ DOMAIN venueJournal' = 1..(n + 1 + c)
      /\ \A i \in 1..n : venueJournal'[i] = venueJournal[i]
      /\ venueJournal'[n + 1] = TickEvent(tick)
      /\ \A k \in 1..c : venueJournal'[n + 1 + k] = fills[k]
  BY MatchJournal
<1>4. Len(venueJournal') = n + (1 + c)
  <2>1. DOMAIN venueJournal' = 1..Len(venueJournal') /\ Len(venueJournal') \in Nat
    BY <1>3
  <2> HIDE DEF n, c
  <2> QED
    BY <1>3, <2>1
<1>5. ASSUME NEW k \in 1..c
      PROVE  /\ fills[k].kind = "VENUE_FILL" /\ fills[k].order \in DOMAIN venueOrders
             /\ fills[k].quantity \in Nat /\ fills[k].price \in Int /\ fills[k].fee \in Int
             /\ venueOrders[fills[k].order].symbol \in Symbols
  <2>1. fills[k].kind = "VENUE_FILL" /\ fills[k].order \in DOMAIN venueOrders
    BY FillsAreShares DEF VenueInv
  <2>2. fills[k] \in VenueEvent
    <3>1. fills \in Seq(VenueEvent)
      BY ExecutionsWithin DEF VenueInv
    <3> HIDE DEF fills
    <3> QED
      BY <3>1
  <2>3. fills[k].quantity \in Nat /\ fills[k].price \in Int /\ fills[k].fee \in Int
    BY <2>1, <2>2, EventFields
  <2>4. venueOrders[fills[k].order].symbol \in Symbols
    BY <2>1 DEF VenueInv, Shaped, Kept
  <2> QED
    BY <2>1, <2>3, <2>4
<1> HIDE DEF fills, c
<1>6. ASSUME NEW k \in 1..c, Covers(f[k-1])
      PROVE  Covers(f[k]) /\ Carries(f[k-1], fills[k], f[k])
  <2>1. f[k-1] \in Ledger
    <3>1. k-1 \in 0..c
      BY <1>3
    <3> QED
      BY <3>1
  <2>2. Covers(Settle(f[k-1], fills[k])) /\ Carries(f[k-1], fills[k], Settle(f[k-1], fills[k]))
    BY <1>5, <1>6, <2>1, SettleCovers
  <2> QED
    BY <1>2, <2>2
<1>7. \A k \in 0..c : Covers(f[k])
  <2> DEFINE F == {k \in 0..c : Covers(f[k])}
  <2>1. 0 \in F
    BY <1>1, <1>2, <1>3
  <2>2. ASSUME NEW k \in 0 .. c-1, k \in F
        PROVE  k+1 \in F
    <3>1. k+1 \in 1..c /\ (k+1)-1 = k /\ k+1 \in 0..c
      BY <1>3
    <3>2. Covers(f[(k+1)-1])
      BY <2>2, <3>1
    <3>3. Covers(f[k+1])
      BY <1>6, <3>1, <3>2
    <3> QED
      BY <3>1, <3>3
  <2> HIDE DEF F
  <2>3. \A k \in 0..c : k \in F
    BY <1>3, <2>1, <2>2, PrefixInduction
  <2> QED
    BY <2>3 DEF F
<1>8. \A k \in 1..c : Carries(f[k-1], fills[k], f[k])
  <2> SUFFICES ASSUME NEW k \in 1..c PROVE Carries(f[k-1], fills[k], f[k])
    OBVIOUS
  <2>1. k-1 \in 0..c
    BY <1>3
  <2> QED
    BY <1>6, <1>7, <2>1
<1> DEFINE g == [k \in 0..(1 + c) |-> IF k = 0 THEN venueLedger ELSE f[k-1]]
<1>9. g \in [0..(1 + c) -> Ledger] /\ g[0] = venueLedger /\ g[1 + c] = venueLedger'
  <2>1. \A k \in 0..(1 + c) : k # 0 => k-1 \in 0..c
    BY <1>3
  <2>2. 1 + c \in 0..(1 + c) /\ 0 \in 0..(1 + c) /\ 1 + c # 0 /\ (1 + c) - 1 = c
    BY <1>3
  <2>3. \A k \in 0..(1 + c) : g[k] \in Ledger
    BY <1>1, <2>1
  <2>4. g[0] = venueLedger
    BY <2>2
  <2>5. g[1 + c] = venueLedger'
    BY <1>2, <2>2
  <2> QED
    BY <2>3, <2>4, <2>5
<1>10. \A k \in 1..(1 + c) : g[k] = f[k-1] /\ g[k-1] = IF k = 1 THEN venueLedger ELSE f[k-2]
  <2> SUFFICES ASSUME NEW k \in 1..(1 + c)
               PROVE  g[k] = f[k-1] /\ g[k-1] = IF k = 1 THEN venueLedger ELSE f[k-2]
    OBVIOUS
  <2>1. k \in 0..(1 + c) /\ k-1 \in 0..(1 + c) /\ k # 0 /\ (k-1 = 0 <=> k = 1) /\ (k-1)-1 = k-2
    BY <1>3
  <2> QED
    BY <2>1
<1> HIDE DEF g
<1>11. ASSUME NEW k \in 1..(1 + c)
       PROVE  /\ Carries(g[k-1], venueJournal'[n + k], g[k])
              /\ venueJournal'[n + k].kind = "VENUE_FILL" => venueJournal'[n + k].order \in DOMAIN venueOrders
  <2>1. CASE k = 1
    <3>1. g[k-1] = venueLedger /\ g[k] = venueLedger /\ venueJournal'[n + k] = TickEvent(tick)
      BY <1>2, <1>3, <1>10, <2>1
    <3>2. TickEvent(tick).kind = "VENUE_TICK"
      BY DEF TickEvent
    <3> QED
      BY <3>1, <3>2 DEF Carries
  <2>2. CASE k # 1
    <3> DEFINE j == k-1
    <3>1. j \in 1..c /\ n + 1 + j = n + k /\ k-2 = j-1
      BY <1>3, <2>2
    <3> HIDE DEF n
    <3>2. g[k-1] = f[j-1] /\ g[k] = f[j]
      BY <1>10, <2>2, <3>1
    <3>3. venueJournal'[n + k] = fills[j]
      BY <1>3, <3>1
    <3> HIDE DEF j
    <3> QED
      BY <1>5, <1>8, <3>1, <3>2, <3>3
  <2> QED
    BY <2>1, <2>2
<1>12. LedgerIsReplay'
  <2>1. \A o \in DOMAIN venueOrders : /\ venueOrders'[o].symbol = venueOrders[o].symbol
                                      /\ venueOrders'[o].side = venueOrders[o].side
    BY MatchOrders DEF SameTerms
  <2>2. 1 + c \in Nat /\ Len(venueJournal') = n + (1 + c)
    BY <1>3, <1>4
  <2> QED
    BY <1>1, <1>3, <1>9, <1>11, <2>1, <2>2, ReplayExtends
<1>13. venueLedger' \in Ledger /\ Covers(venueLedger)'
  <2>1. c \in 0..c
    BY <1>3
  <2>2. f[c] \in Ledger /\ Covers(f[c])
    BY <1>7, <2>1
  <2> QED
    BY <1>2, <2>2 DEF Covers
<1> QED
  BY <1>12, <1>13 DEF ReplayInv

\* Nothing has been booked yet.
LEMMA ReplayInvInit == Init => ReplayInv
<1> SUFFICES ASSUME Init PROVE ReplayInv
  OBVIOUS
<1>1. /\ venueLedger = [cash |-> Capital, positions |-> [s \in Symbols |-> 0], lots |-> << >>, short |-> FALSE]
      /\ venueJournal = << [kind |-> "VENUE_OPENED", time |-> 0] >>
  BY DEF Init
<1>2. venueLedger \in Ledger
  BY <1>1, VenueSettings DEF Ledger
<1>3. Covers(venueLedger)
  <2>1. \A s : InLots(venueLedger.lots, s) = 0
    <3>1. \A s : OfSymbol(venueLedger.lots, s) = {}
      BY <1>1 DEF OfSymbol
    <3> QED
      BY <3>1, SumEmpty DEF InLots
  <2> QED
    BY <1>1, <2>1 DEF Covers
<1>4. PICK l : l = venueLedger
  OBVIOUS
<1> DEFINE G == [i \in 0..1 |-> l]
<1>5. Len(venueJournal) = 1 /\ venueJournal[1].kind = "VENUE_OPENED"
  BY <1>1
<1>6. G \in [0..1 -> Ledger] /\ G[0] = l /\ G[1] = l
  BY <1>2, <1>4
<1> HIDE DEF G
<1>7. Carries(G[0], venueJournal[1], G[1])
  BY <1>5, <1>6 DEF Carries
<1>8. \A i \in 1..1 : i = 1 /\ i-1 = 0
  OBVIOUS
<1>9. History(G)
  <2>1. \A i \in 1..1 : Carries(G[i-1], venueJournal[i], G[i])
    BY <1>7, <1>8
  <2>2. l.cash = Capital /\ l.positions = [s \in Symbols |-> 0] /\ ~l.short
    BY <1>1, <1>4
  <2> QED
    BY <1>4, <1>5, <1>6, <2>1, <2>2 DEF History
<1> QED
  BY <1>2, <1>3, <1>9 DEF ReplayInv, LedgerIsReplay

\* Every step keeps it.
LEMMA ReplayInvNext ==
  ASSUME VenueInv, ReplayInv, [Next]_venueVars
  PROVE  ReplayInv'
<1>1. CASE UNCHANGED venueVars
  <2>1. venueJournal' = venueJournal /\ venueOrders' = venueOrders /\ venueLedger' = venueLedger
    BY <1>1 DEF venueVars
  <2>2. PICK G : History(G)
    BY DEF ReplayInv, LedgerIsReplay
  <2>3. \A i \in 1..Len(venueJournal) : Carries(G[i-1], venueJournal[i], G[i])'
    BY <2>1, <2>2 DEF History, Carries
  <2>4. History(G)'
    BY <2>1, <2>2, <2>3 DEF History
  <2> QED
    BY <2>1, <2>4 DEF ReplayInv, Covers, LedgerIsReplay
<1>2. ASSUME NEW offer \in Offers, Accept(offer.id, offer.order)
      PROVE  ReplayInv'
  BY <1>2, AcceptReplays
<1>3. ASSUME NEW tick \in Ticks, Match(tick)
      PROVE  ReplayInv'
  BY <1>3, MatchReplays
<1>4. ASSUME NEW when \in Times, NEW o \in DOMAIN venueOrders, Cancel(o, when) \/ Reject(o, when)
      PROVE  ReplayInv'
  BY <1>4, CloseReplays DEF Cancel, Reject, Closing
<1>5. ASSUME NEW when \in Times, NEW id \in ActionIds, NEW a \in Entitlements, CorporateAction(id, a, when)
      PROVE  ReplayInv'
  BY <1>5, CorporateActionReplays
<1> QED
  BY <1>1, <1>2, <1>3, <1>4, <1>5 DEF Next

\* The ledger the venue answers with is what the loop of _ledger() makes of the journal,
\* event by event, and it is only short when a sale took more than was held
\* (paper_venue.py:150-188).
THEOREM LedgerReplaysJournal == Spec => []ReplayInv
<1>1. Init => VenueInv /\ ReplayInv
  BY VenueInvInit, ReplayInvInit
<1>2. VenueInv /\ ReplayInv /\ [Next]_venueVars => VenueInv' /\ ReplayInv'
  BY VenueInvNext, ReplayInvNext
<1>3. Spec => [](VenueInv /\ ReplayInv)
  BY <1>1, <1>2, PTL DEF Spec
<1> QED
  BY <1>3, PTL

-----------------------------------------------------------------------------
(* What the status of an order tells. *)

\* How far it is filled, and that whatever closed it is on record.
Tells(events, o, order) ==
  /\ order.status = "ACCEPTED" => order.filled = 0
  /\ order.status = "PARTIAL" => order.filled # 0
  /\ order.status = "FILLED" => order.filled = order.quantity
  /\ order.status \in {"CANCELED", "REJECTED"} =>
       \E i \in DOMAIN events : events[i].kind \in Closing /\ events[i].order = o

ActionsOnce ==
  \A i, j \in DOMAIN venueJournal :
    (/\ venueJournal[i].kind = "VENUE_ACTION" /\ venueJournal[j].kind = "VENUE_ACTION"
     /\ venueJournal[i].id = venueJournal[j].id) => i = j

StatusInv == ActionsOnce /\ \A o \in DOMAIN venueOrders : Tells(venueJournal, o, venueOrders[o])

\* One event more: its order tells the truth, and it is no action that happened before.
LEMMA StatusGoesOn ==
  ASSUME VenueInv, StatusInv, NEW e \in VenueEvent, Write(<<e>>),
         e.kind = "VENUE_ACTION" => ~HasEvent("VENUE_ACTION", e.id),
         \A p \in DOMAIN venueOrders' : \/ p \in DOMAIN venueOrders /\ venueOrders'[p] = venueOrders[p]
                                       \/ Tells(venueJournal', p, venueOrders'[p])
  PROVE  StatusInv'
<1>1. /\ DOMAIN venueJournal' = DOMAIN venueJournal \union {Len(venueJournal) + 1}
      /\ \A i \in DOMAIN venueJournal : venueJournal'[i] = venueJournal[i]
      /\ venueJournal'[Len(venueJournal) + 1] = e
  BY WritingOne DEF VenueInv, Shaped
<1>2. ActionsOnce'
  BY <1>1 DEF StatusInv, ActionsOnce, HasEvent
<1>3. ASSUME NEW p \in DOMAIN venueOrders'
      PROVE  Tells(venueJournal', p, venueOrders'[p])
  <2> SUFFICES ASSUME p \in DOMAIN venueOrders, venueOrders'[p] = venueOrders[p]
               PROVE  Tells(venueJournal', p, venueOrders'[p])
    OBVIOUS
  <2>1. Tells(venueJournal, p, venueOrders[p])
    BY DEF StatusInv
  <2> QED
    BY <1>1, <2>1 DEF Tells
<1> QED
  BY <1>2, <1>3 DEF StatusInv

\* An accepted order has no execution yet.
LEMMA AcceptTells ==
  ASSUME VenueInv, StatusInv, NEW offer \in Offers, Accept(offer.id, offer.order)
  PROVE  StatusInv'
<1> DEFINE o == offer.id
           e == [kind |-> "VENUE_ACCEPTED", id |-> o, order |-> o, time |-> offer.order.accepted_at]
           new == [offer.order EXCEPT !.filled = 0, !.status = "ACCEPTED"]
<1>1. e \in VenueEvent /\ Write(<<e>>) /\ e.kind = "VENUE_ACCEPTED"
  BY OfferAssumption DEF VenueEvent, Accept
<1>2. venueOrders' = [p \in DOMAIN venueOrders \cup {o} |-> IF p = o THEN new ELSE venueOrders[p]]
  BY DEF Accept
<1>3. new.filled = 0 /\ new.status = "ACCEPTED"
  BY OfferAssumption
<1> HIDE DEF e, o, new
<1>4. venueOrders'[o] = new /\ \A p \in DOMAIN venueOrders' : p # o => p \in DOMAIN venueOrders /\ venueOrders'[p] = venueOrders[p]
  BY <1>2
<1>5. Tells(venueJournal', o, venueOrders'[o])
  BY <1>3, <1>4 DEF Tells
<1> QED
  BY <1>1, <1>4, <1>5, StatusGoesOn

\* What closes an order is on record.
LEMMA CloseTells ==
  ASSUME VenueInv, StatusInv, NEW kind \in Closing, NEW status \in {"CANCELED", "REJECTED"},
         NEW o \in DOMAIN venueOrders, NEW when \in Times, Close(kind, status, o, when)
  PROVE  StatusInv'
<1> DEFINE e == [kind |-> kind, id |-> <<kind, o, 0>>, order |-> o, time |-> when]
<1>1. e \in VenueEvent /\ Write(<<e>>) /\ e.kind = kind /\ e.order = o
  BY VenueBound DEF VenueEvent, Closing, VenueInv, Shaped, Close
<1>2. venueOrders' = [venueOrders EXCEPT ![o].status = status]
  BY DEF Close
<1>3. "status" \in DOMAIN venueOrders[o]
  BY DEF VenueInv, Shaped, Kept
<1> HIDE DEF e
<1>4. /\ venueOrders'[o].status = status
      /\ \A p \in DOMAIN venueOrders' : p # o => p \in DOMAIN venueOrders /\ venueOrders'[p] = venueOrders[p]
  BY <1>2, <1>3
<1>5. /\ Len(venueJournal) + 1 \in DOMAIN venueJournal'
      /\ venueJournal'[Len(venueJournal) + 1] = e
  BY <1>1, WritingOne DEF VenueInv, Shaped
<1>6. Tells(venueJournal', o, venueOrders'[o])
  BY <1>1, <1>4, <1>5 DEF Tells
<1>7. e.kind # "VENUE_ACTION"
  BY <1>1 DEF Closing
<1> QED
  BY <1>1, <1>4, <1>6, <1>7, StatusGoesOn

\* An action happens once, and to no order.
LEMMA CorporateActionTells ==
  ASSUME VenueInv, StatusInv, NEW id \in ActionIds, NEW a \in Entitlements, NEW when \in Times,
         CorporateAction(id, a, when)
  PROVE  StatusInv'
<1> DEFINE e == [kind |-> "VENUE_ACTION", id |-> id, action |-> a, time |-> when]
<1>1. e \in VenueEvent /\ Write(<<e>>) /\ e.id = id
  BY VenueBound DEF VenueEvent, CorporateAction
<1>2. venueOrders' = venueOrders /\ ~HasEvent("VENUE_ACTION", id)
  BY DEF CorporateAction
<1> HIDE DEF e
<1> QED
  BY <1>1, <1>2, StatusGoesOn

\* A tick fills some orders.
LEMMA MatchTells ==
  ASSUME VenueInv, StatusInv, NEW tick \in Ticks, Match(tick)
  PROVE  StatusInv'
<1> DEFINE n == Len(venueJournal)
           m == Len(Executions(tick))
<1>1. Shaped /\ Queued
  BY DEF VenueInv
<1>2. /\ n \in Nat /\ m \in Nat /\ DOMAIN venueJournal = 1..n
      /\ \A i \in 1..n : venueJournal'[i] = venueJournal[i]
      /\ venueJournal'[n + 1] = TickEvent(tick)
      /\ \A k \in 1..m : venueJournal'[n + 1 + k] = Executions(tick)[k]
      /\ \A i \in DOMAIN venueJournal' :
           i \in 1..n \/ i = n + 1 \/ (i - (n + 1) \in 1..m /\ i = n + 1 + (i - (n + 1)))
      /\ DOMAIN venueJournal' = 1..(n + 1 + m)
  BY MatchJournal
<1>3. \A k \in 1..m : Executions(tick)[k].kind = "VENUE_FILL"
  BY <1>1, FillsAreShares
<1> HIDE DEF n, m
<1>4. \A i \in DOMAIN venueJournal' : venueJournal'[i].kind = "VENUE_ACTION" => i \in DOMAIN venueJournal
  <2> SUFFICES ASSUME NEW i \in DOMAIN venueJournal', i \notin 1..n
               PROVE  venueJournal'[i].kind # "VENUE_ACTION"
    BY <1>2
  <2>1. CASE i = n + 1
    BY <1>2, <2>1 DEF TickEvent
  <2>2. CASE i # n + 1
    <3>1. i - (n + 1) \in 1..m /\ venueJournal'[i] = Executions(tick)[i - (n + 1)]
      BY <1>2, <2>2
    <3> QED
      BY <1>3, <3>1
  <2> QED
    BY <2>1, <2>2
<1>5. ActionsOnce'
  BY <1>2, <1>4 DEF StatusInv, ActionsOnce
<1>6. DOMAIN venueJournal \subseteq DOMAIN venueJournal'
  BY <1>2
<1>7. ASSUME NEW o \in DOMAIN venueOrders'
      PROVE  Tells(venueJournal', o, venueOrders'[o])
  <2>1. /\ o \in DOMAIN venueOrders /\ venueOrders'[o].quantity = venueOrders[o].quantity
        /\ venueOrders'[o].filled = venueOrders[o].filled + Allocation(tick)[o]
        /\ Allocation(tick)[o] = 0 => venueOrders'[o] = venueOrders[o]
        /\ Allocation(tick)[o] # 0 =>
             venueOrders'[o].status = IF venueOrders'[o].filled = venueOrders[o].quantity
                                      THEN "FILLED" ELSE "PARTIAL"
    BY MatchOrders
  <2>2. CASE Allocation(tick)[o] = 0
    <3>1. Tells(venueJournal, o, venueOrders[o]) /\ venueOrders'[o] = venueOrders[o]
      BY <2>1, <2>2 DEF StatusInv
    <3> QED
      BY <1>2, <1>6, <3>1 DEF Tells
  <2>3. CASE Allocation(tick)[o] # 0
    <3>1. Allocation(tick)[o] \in Nat /\ venueOrders[o].filled \in Nat
      <4>1. tick.volume \in Nat
        BY TickAssumption
      <4> QED
        BY <1>1, <2>1, <4>1, ShareWithin DEF Shaped, Kept
    <3>2. venueOrders'[o].filled # 0
      BY <2>1, <2>3, <3>1
    <3> QED
      BY <2>1, <2>3, <3>2 DEF Tells
  <2> QED
    BY <2>2, <2>3
<1> QED
  BY <1>5, <1>7 DEF StatusInv

\* At the opening there is no order.
LEMMA StatusInvInit == Init => StatusInv
BY DEF Init, StatusInv, ActionsOnce

\* Every step keeps it.
LEMMA StatusInvNext ==
  ASSUME VenueInv, StatusInv, [Next]_venueVars
  PROVE  StatusInv'
<1>1. CASE UNCHANGED venueVars
  BY <1>1 DEF venueVars, StatusInv, ActionsOnce
<1>2. ASSUME NEW when \in Times, NEW o \in DOMAIN venueOrders, Cancel(o, when) \/ Reject(o, when)
      PROVE  StatusInv'
  BY <1>2, CloseTells DEF Cancel, Reject, Closing
<1> QED
  BY <1>1, <1>2, AcceptTells, MatchTells, CorporateActionTells DEF Next
=============================================================================
