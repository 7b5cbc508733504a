--------------------------- MODULE BacktestAccount ---------------------------
(***************************************************************************)
(* The simulated account of one stock: portfolio_days() of                 *)
(* application/analytics/backtest.py in its live form (one stock, one      *)
(* AccountDay per bar) with the switches of the whole-wave profile.  A day *)
(* is a fixed sequence of phases over one holding, one pending exit order  *)
(* and one pending entry order; the risk observers are functions of the    *)
(* prices and are any of their possible answers.                           *)
(*                                                                         *)
(* Quantities are sale lots; money, fees and prices are left out.          *)
(***************************************************************************)
EXTENDS Integers

CONSTANTS
    MaxLots,        \* bound: lots held at one time
    MaxInitial,     \* bound: lots ever bought by one holding, add-ons included
    Rooms,          \* capacity(): lots the liquidity estimate of a day allows
    Tiers,          \* support_break_reduction(): the tiers, in percent
    Risks           \* bound: the partial reductions the observers may advise

ASSUME AccountAssumption ==
    /\ MaxLots \in Nat \ {0} /\ MaxInitial \in Nat /\ MaxLots <= MaxInitial
    /\ Rooms \subseteq Nat /\ Tiers \subseteq 1..99
    /\ Risks \subseteq {"wave", "gap", "high", "fall", "limit_open", "volume", "small_n"}

VARIABLES
    phase,      \* where in the day the loop is
    pos,        \* positions[symbol]
    order,      \* pending_exit[symbol] with its exit_evidence
    bid,        \* a pending_entry exists
    bought,     \* bought_today: lots bought today, over all holdings
    sold,       \* symbol \in sold_today
    cleared,    \* symbol \in wave_clear_symbols
    watched,    \* observing_structure_exits
    minute,     \* the intraday wave risk of today: "none" or "clear"
    day,        \* the day's room, EXIT signals, minute entry and minute data
    verdict,    \* what an execution meets now: free, blocked or limit
    free        \* history: every execution of today met a free market

vars == <<phase, pos, order, bid, bought, sold, cleared, watched, minute,
          day, verdict, free>>

----------------------------------------------------------------------------
(* Orders and holdings *)

Order(why, pct, target, model) ==
    [reason |-> why, pct |-> pct, target |-> target, left |-> 0, model |-> model, old |-> FALSE]
Clear(why) == Order(why, 100, FALSE, "same_day_close")
Cut(why, pct) == Order(why, pct, TRUE, "same_day_close")
NoOrder == Order("none", 0, FALSE, "next_open")

\* goal is a history field: the most lots any executed order had asked to be sold.
Flat == [lots |-> 0, initial |-> 0, today |-> 0, fresh |-> FALSE, tier |-> 0, broken |-> "no",
         over |-> FALSE, waved |-> FALSE, warned |-> FALSE, fell |-> FALSE, inverse |-> FALSE, goal |-> 0]

\* The holding is reduced no further while one of these is pending.
LockedRemainder(o) == o.left > 0                                \* Fault: full orders are evaluated again.
Locked(o) == o.pct = 100 \/ o.left > 0
Replaceable(o) == o.pct < 100

RoundedUp == {"limit_open", "heavy"}          \* reductions that sell at least their share
Halving == {"gap", "high"}                    \* reductions dropped below one lot

Share(n, pct, why) == IF why \in RoundedUp THEN (n * pct + 99) \div 100 ELSE (n * pct) \div 100
AtLeastZero(n) == IF n < 0 THEN 0 ELSE n
Least(a, b) == IF a < b THEN a ELSE b

\* A target is cumulative: what the holding has already sold counts towards it.
FreshTargetLots(p, o) == Least(p.lots, Share(p.initial, o.pct, o.reason))   \* Fault: earlier sales forgotten.
TargetLots(p, o) == Least(p.lots, AtLeastZero(Share(p.initial, o.pct, o.reason) - (p.initial - p.lots)))

Wanted(p, o) ==
    IF o.left > 0 THEN Least(p.lots, o.left)
    ELSE IF o.target THEN TargetLots(p, o)
    ELSE IF o.pct = 100 THEN p.lots ELSE Share(p.lots, o.pct, "plain")

\* What a fill leaves behind on a holding it did not close.
Marked(p, o) ==
    CASE o.reason \in Halving -> [p EXCEPT !.warned = TRUE]
      [] o.reason = "wave"    -> [p EXCEPT !.waved = TRUE]
      [] o.reason = "fall"    -> [p EXCEPT !.fell = TRUE]
      [] o.reason = "inverse" -> [p EXCEPT !.inverse = TRUE]
      [] OTHER                -> p

Reduced(p, o, n) ==
    IF n = p.lots THEN Flat
    ELSE [Marked(p, o) EXCEPT !.lots = p.lots - n,
            !.goal = LET asked == IF o.target THEN Share(p.initial, o.pct, o.reason) ELSE p.initial
                     IN  IF asked > @ THEN asked ELSE @]

(* execute_exit(): T+1 holds today's lots back, a blocked or too large order *)
(* is deferred whole, and what T+1 held back stays pending for the next open. *)
Executed(p, o, v, room) ==
    LET asked == Wanted(p, o)
        want  == IF asked = 0 THEN p.lots ELSE asked
        open  == p.lots - p.today
        now   == Least(want, open)
        rest  == [o EXCEPT !.left = want - now, !.model = "next_open"]
        whole == [o EXCEPT !.left = want, !.model = "next_open"]
        result(q, r, w) == [pos |-> q, order |-> r, why |-> w]
    IN  IF asked = 0 /\ (o.target \/ o.reason \in Halving) THEN result(p, NoOrder, "below_one_lot")
        ELSE IF open = 0 THEN result(p, IF p.fresh THEN o ELSE whole, "T+1")
        ELSE IF v = "blocked" THEN result(p, IF want > now THEN whole ELSE o, "not_sellable")
        ELSE IF now > room THEN result(p, IF want > now THEN whole ELSE o, "capacity")
        ELSE IF v = "limit" THEN result(p, o, "below_limit")
        ELSE result(Reduced(p, o, now), IF want > now THEN rest ELSE NoOrder, "filled")

Settle(r) == /\ pos' = r.pos
             /\ order' = r.order
             /\ sold' = (sold \/ r.why = "filled")

(* execute_entry(): the market, price and sizing gates answer with the lots q. *)
MayBuy(p, o) == p.lots > 0 => (o = NoOrder /\ ~sold)

TodayOfLastBuy(p, q) == q                        \* Fault: only the last purchase of the day is held back.
TodayAfter(p, q) == p.today + q

Bought(p, q) ==
    IF p.lots = 0 THEN [Flat EXCEPT !.lots = q, !.initial = q, !.today = q, !.fresh = TRUE]
    ELSE [p EXCEPT !.lots = @ + q, !.initial = @ + q, !.today = TodayAfter(p, q)]

Buy(p, o) ==
    \/ UNCHANGED <<pos, bought>>
    \/ \E q \in 1..(MaxLots - p.lots) :
          /\ MayBuy(p, o) /\ q <= day.room - bought /\ p.initial + q <= MaxInitial
          /\ pos' = Bought(p, q) /\ bought' = bought + q

----------------------------------------------------------------------------
(* The close: resolving the observed risks *)

\* Advice that gives way to any full-exit risk.
Yielding == {"high", "limit_open"}

Flags == [waved : BOOLEAN, warned : BOOLEAN, fell : BOOLEAN, inverse : BOOLEAN, exits : BOOLEAN]

\* The answers the observers may give about a holding with these flags.
Observed(f) ==
    [mother   : IF f.exits THEN BOOLEAN ELSE {FALSE},
     inverse  : IF f.exits THEN BOOLEAN ELSE {FALSE},
     failure  : IF f.inverse THEN BOOLEAN ELSE {FALSE},
     hard     : BOOLEAN,
     wave     : {NoOrder, Clear("plain"), Clear("top")}
                  \cup (IF f.waved THEN {} ELSE {Cut("wave", 80)}),
     pressure : {NoOrder, Clear("plain")}
                  \cup (IF f.warned THEN {}
                        ELSE {Order(why, 50, FALSE, "same_day_close") : why \in Halving}
                             \cup {Cut("limit_open", 90)}
                             \cup (IF f.fell THEN {} ELSE {Cut("fall", 80)})),
     volume   : {NoOrder, Clear("plain"), Clear("heavy"), Clear("distribution"), Clear("shadow"),
                 Cut("volume", 70), Order("small_n", 30, TRUE, "next_open"), Cut("heavy", 90)}]

Advised(c) == {c.wave.reason, c.pressure.reason, c.volume.reason} \ {"none", "plain", "top", "distribution", "shadow", "heavy"}

FullVolume(c) == c.volume.pct = 100
OtherFull(c) == c.hard \/ c.inverse \/ c.failure \/ FullVolume(c)

\* The advice that survives the conflicts between particular risks.
PressureLeft(c) ==
    IF \/ c.pressure.reason \in Yielding /\ OtherFull(c)
       \/ c.pressure.pct < 100 /\ c.volume = Clear("distribution")
       \/ c.volume.reason = "heavy" /\ c.pressure.pct < c.volume.pct
    THEN NoOrder ELSE c.pressure
WaveLeft(c) ==
    IF \/ c.wave.reason = "top" /\ (c.mother \/ OtherFull(c) \/ c.pressure.pct = 100)
       \/ c.volume.reason = "heavy" /\ c.wave.pct < c.volume.pct
    THEN NoOrder ELSE c.wave

\* A rung of the ladder, or the rungs below it when it has no advice.
a ?? b == IF a # NoOrder THEN a ELSE b

When(b, o) == IF b THEN o ELSE NoOrder
FullOnly(o) == When(o.pct = 100, o)

\* The first of the ladder's rungs that has advice; the last rung is the staged exit.
Ladder(c) ==
    When(c.mother, Clear("plain"))
    ?? FullOnly(WaveLeft(c))
    ?? PressureLeft(c)
    ?? When(c.inverse, Clear("plain"))
    ?? When(~c.failure \/ c.volume.reason = "shadow", FullOnly(c.volume))
    ?? When(c.hard, Order("plain", 100, FALSE, "next_open"))
    ?? When(c.failure, Clear("plain"))
    ?? WaveLeft(c)
    ?? c.volume

\* What the close decides for each combination of the holding's flags.
Decisions ==
    UNION {{[flags |-> f, order |-> Ladder(c),
             wave |-> ~c.mother /\ WaveLeft(c).pct = 100] :
               c \in {x \in Observed(f) : Advised(x) \subseteq Risks}} : f \in Flags}

----------------------------------------------------------------------------
(* The day *)

\* Inputs are forgotten once the day no longer reads them.
NoDay == [room |-> 0, exits |-> FALSE, entry |-> "none", data |-> TRUE]

Init ==
    /\ phase = "night" /\ pos = Flat /\ order = NoOrder /\ bid = FALSE
    /\ bought = 0 /\ sold = FALSE /\ cleared = FALSE /\ watched = NoOrder /\ minute = "none"
    /\ day = NoDay /\ verdict = "free" /\ free = TRUE

Verdicts == {"free", "blocked", "limit"}
Meets(v) == free' = (free /\ v = "free")

\* The day's fresh books; a date change frees the lots bought before it.
NewDay ==
    /\ phase = "night"
    /\ pos' = [pos EXCEPT !.today = 0, !.fresh = FALSE, !.broken = IF @ = "no" THEN "no" ELSE "yes"]
    /\ bought' = 0 /\ sold' = FALSE /\ watched' = NoOrder /\ minute' = "none"
    /\ day' \in [room : Rooms, exits : BOOLEAN, entry : {"none", "due"}, data : BOOLEAN]
    /\ verdict' \in Verdicts
    /\ free' = (verdict' = "free" /\ day'.room >= MaxLots)

\* A breakout that opens lower replaces what is pending and withdraws the entry.
OpenDay ==
    /\ NewDay
    /\ phase' = "open"
    /\ \/ /\ order' = IF order = NoOrder THEN NoOrder ELSE [order EXCEPT !.old = TRUE]
          /\ cleared' = FALSE /\ UNCHANGED bid
       \/ /\ pos.lots > 0
          /\ order' = [Order("plain", 100, FALSE, "next_open") EXCEPT !.old = TRUE]
          /\ cleared' = TRUE /\ bid' = FALSE

\* The day the eligibility ends: entries and exits are withdrawn and the holding sold.
CloseEligibility ==
    /\ phase = "night" /\ bid' = FALSE
    /\ bought' = 0 /\ cleared' = FALSE /\ watched' = NoOrder /\ minute' = "none"
    /\ LET p == [pos EXCEPT !.today = 0, !.fresh = FALSE, !.broken = IF @ = "no" THEN "no" ELSE "yes"]
       IN  IF pos.lots = 0 THEN pos' = p /\ order' = NoOrder /\ sold' = FALSE
           ELSE \E v \in Verdicts, room \in Rooms :
                  LET r == Executed(p, Clear("closed"), v, room)
                  IN  /\ pos' = r.pos /\ sold' = (r.why = "filled")
                      /\ order' = IF r.order = NoOrder THEN NoOrder ELSE [r.order EXCEPT !.model = "next_open"]
    /\ UNCHANGED <<phase, day, verdict, free>>

\* Yesterday's exits meet the open; a gap up disputes a structural exit for the day.
OpenExits ==
    /\ phase = "open" /\ phase' = "entries"
    /\ \/ /\ order.reason = "structure" /\ order.model = "next_open"
          /\ watched' = order /\ order' = NoOrder /\ UNCHANGED <<pos, sold>>
       \/ /\ order # NoOrder /\ order.model = "next_open"
          /\ Settle(Executed(pos, order, verdict, day.room)) /\ UNCHANGED watched
       \/ /\ order = NoOrder \/ order.model # "next_open"
          /\ UNCHANGED <<pos, order, sold, watched>>
    /\ verdict' = "free"
    /\ UNCHANGED <<bid, bought, cleared, minute, day, free>>

OpenEntry ==
    /\ phase = "entries" /\ phase' = "minutes"
    /\ bid' = FALSE
    /\ IF bid THEN Buy(pos, order) ELSE UNCHANGED <<pos, bought>>
    /\ UNCHANGED <<order, sold, cleared, watched, minute, day, verdict, free>>

\* A minute entry replaces the pending one, and is refused after a clearing risk.
MinuteEntry ==
    /\ phase = "minutes" /\ day.entry = "due" /\ day' = [day EXCEPT !.entry = "done"]
    /\ bid' = FALSE
    /\ IF cleared THEN UNCHANGED <<pos, bought>> ELSE Buy(pos, order)
    /\ UNCHANGED <<phase, order, sold, cleared, watched, minute, verdict, free>>

\* The first clearing risk seen in a minute holds for the rest of the day; every later
\* candle tries the sale again until T+1 or the capacity puts it off to the next open.
MinuteRisk ==
    /\ phase = "minutes" /\ day.data /\ (pos.lots > 0 \/ day.entry # "none")
    /\ minute' = "clear" /\ cleared' = TRUE /\ bid' = (bid /\ minute = "clear")
    /\ LET o == IF Replaceable(order) THEN Order("minute", 100, FALSE, "intraday") ELSE order
           prior == order.pct = 100 /\ order.old
       IN  IF pos.lots = 0 \/ ~(prior \/ o.reason = "minute") \/ (~prior /\ o.model = "next_open")
           THEN /\ order' = IF pos.lots = 0 THEN order ELSE o
                /\ UNCHANGED <<pos, sold, free>>
           ELSE \E v \in Verdicts :
                  LET r == Executed(pos, o, v, day.room)
                  IN  Meets(v) /\ Settle(IF r.why \in {"T+1", "capacity"}
                                         THEN [r EXCEPT !.order.model = "next_open"] ELSE r)
    /\ UNCHANGED <<phase, bought, watched, day, verdict>>

\* A support break in the afternoon sells a tier at the next minute, or is forgotten.
MinuteStaged ==
    /\ phase = "minutes" /\ day.data /\ order = NoOrder /\ pos.lots > 0 /\ ~pos.over
    /\ ~(pos.fresh /\ day.entry # "none")
    /\ \E t \in {x \in Tiers : x > pos.tier}, v \in Verdicts :
          LET r == Executed([pos EXCEPT !.tier = t, !.broken = IF @ = "no" THEN "today" ELSE @],
                            Order("staged", t, TRUE, "intraday"), v, day.room)
              late == r.order # NoOrder /\ r.order.model = "next_open"
          IN  /\ Meets(v)
              /\ pos' = IF r.why = "filled" \/ late THEN r.pos ELSE [r.pos EXCEPT !.tier = pos.tier]
              /\ order' = IF late THEN r.order ELSE NoOrder
              /\ sold' = (sold \/ r.why = "filled")
    /\ UNCHANGED <<phase, bid, bought, cleared, watched, minute, day, verdict>>

\* A full risk of the minutes survives a locked last interval.
LeftBehind(o) == o                                      \* Fault: it keeps the minute clock.
Overnight(o) == IF o.model = "intraday" THEN [o EXCEPT !.model = "next_open"] ELSE o

EndMinutes ==
    /\ phase = "minutes" /\ phase' = "ladder"
    /\ order' = IF minute = "clear" THEN Overnight(order) ELSE order
    /\ minute' = "none"
    /\ UNCHANGED <<pos, bid, bought, sold, cleared, watched, day, verdict, free>>

\* The staged exit: a first tier on daily data, a weak rebound, or a recovery that ends it.
Staged ==
    \/ /\ pos.broken = "no" /\ ~day.data
       /\ \E t \in Tiers : /\ pos' = [pos EXCEPT !.tier = t, !.broken = "today"]
                           /\ order' = Cut("staged", t)
    \/ /\ pos.broken = "yes" /\ ~pos.over
       /\ \/ pos' = [pos EXCEPT !.over = TRUE] /\ UNCHANGED order
          \/ /\ pos' = [pos EXCEPT !.over = TRUE]
             /\ order' = Order("plain", 100, FALSE, IF day.data THEN "next_open" ELSE "same_day_close")
          \/ /\ ~day.data /\ pos.tier > 0
             /\ \E t \in {x \in Tiers : x > pos.tier} :
                   pos' = [pos EXCEPT !.tier = t] /\ order' = Cut("staged", t)

CloseRisks ==
    /\ phase = "ladder" /\ phase' = "closing"
    /\ verdict' \in Verdicts /\ Meets(verdict')
    /\ \/ /\ pos.lots = 0 \/ Locked(order)
          /\ UNCHANGED <<pos, order, cleared>>
       \/ /\ pos.lots > 0 /\ ~Locked(order)
          /\ \E kept \in BOOLEAN, d \in Decisions :
                /\ d.flags = [waved |-> pos.waved, warned |-> pos.warned, fell |-> pos.fell,
                              inverse |-> pos.inverse /\ kept, exits |-> day.exits]
                /\ cleared' = (cleared \/ d.wave)
                /\ \/ /\ d.order # NoOrder /\ order' = d.order
                      /\ pos' = [pos EXCEPT !.inverse = @ /\ kept]
                   \/ d.order = NoOrder /\ kept /\ (Staged \/ UNCHANGED <<pos, order>>)
    /\ UNCHANGED <<bid, bought, sold, watched, minute, day>>

CloseExits ==
    /\ phase = "closing" /\ phase' = "signals"
    /\ IF order.model = "same_day_close" THEN Settle(Executed(pos, order, verdict, day.room))
       ELSE UNCHANGED <<pos, order, sold>>
    /\ UNCHANGED <<bid, bought, cleared, watched, minute, day, verdict, free>>

\* A LONG signal is rejected by its candle or waits for the next execution.
EntryWelcome == ~cleared /\ (pos.lots > 0 => order = NoOrder /\ ~sold)

SignalLong ==
    /\ phase = "signals"
    /\ bid' \in {FALSE} \cup {b \in {TRUE} : EntryWelcome}
    /\ UNCHANGED <<phase, pos, order, bought, sold, cleared, watched, minute, day, verdict, free>>

\* An EXIT signal withdraws the entry, and replaces only a partial exit.
SignalExit ==
    /\ phase = "signals" /\ day.exits /\ bid' = FALSE
    /\ IF pos.lots = 0 \/ ~Replaceable(order) THEN UNCHANGED <<pos, order, sold, cleared>>
       ELSE \/ \E why \in {"plain", "structure"} :
                  order' = Order(why, 100, FALSE, "next_open") /\ UNCHANGED <<pos, sold, cleared>>
            \/ cleared' = TRUE /\ Settle(Executed(pos, Clear("plain"), verdict, day.room))
            \/ /\ IF TargetLots(pos, Cut("inverse", 90)) = 0 THEN UNCHANGED <<pos, order, sold>>
                  ELSE Settle(Executed(pos, Cut("inverse", 90), verdict, day.room))
               /\ UNCHANGED cleared
    /\ UNCHANGED <<phase, bought, watched, minute, day, verdict, free>>

\* Only a weak close confirms the structural exit the gap had disputed.
StructureExit ==
    /\ phase = "signals" /\ phase' = "bids" /\ watched' = NoOrder
    /\ \/ UNCHANGED <<pos, order, sold, bid>>
       \/ /\ watched # NoOrder /\ pos.lots > 0 /\ order = NoOrder /\ ~sold
          /\ bid' = FALSE
          /\ Settle(Executed(pos, [watched EXCEPT !.model = "same_day_close"], verdict, day.room))
    /\ verdict' = "free"
    /\ UNCHANGED <<bought, cleared, minute, day, free>>

\* Entries matched at the close; an EXIT signal of the day comes first.
CloseEntry ==
    /\ phase = "bids" /\ phase' = "night"
    /\ \/ UNCHANGED <<bid, pos, bought>>
       \/ /\ bid /\ bid' = FALSE
          /\ IF day.exits THEN UNCHANGED <<pos, bought>> ELSE Buy(pos, order)
    /\ day' = NoDay
    /\ UNCHANGED <<order, sold, cleared, watched, minute, verdict, free>>

Next ==
    \/ OpenDay \/ CloseEligibility \/ OpenExits \/ OpenEntry
    \/ MinuteEntry \/ MinuteRisk \/ MinuteStaged \/ EndMinutes
    \/ CloseRisks \/ CloseExits \/ SignalLong \/ SignalExit \/ StructureExit \/ CloseEntry

Spec == Init /\ [][Next]_vars

----------------------------------------------------------------------------
(* Properties *)

OrderType ==
    [reason : Risks \cup {"none", "plain", "top", "heavy", "distribution", "shadow", "staged",
                          "minute", "structure", "inverse", "closed"},
     pct : 0..100, target : BOOLEAN, left : 0..MaxLots,
     model : {"next_open", "same_day_close", "intraday"}, old : BOOLEAN]

\* Every order is for a holding, and the holding's lots are within what it has bought.
AccountTypeOK ==
    /\ order \in OrderType /\ watched \in OrderType
    /\ pos.lots \in 0..MaxLots /\ pos.lots <= pos.initial /\ pos.initial \in 0..MaxInitial
    /\ pos.lots = 0 => pos = Flat /\ order = NoOrder
    /\ order.left <= pos.lots

\* T+1: whatever was bought today is still held tonight, over add-ons, partial exits at
\* the open, in the minutes and at the close, and a holding closed and opened again.
SettledBeforeSold == pos.lots >= bought

\* A pending full exit is never weakened or lost: until it has sold what it asks for it
\* stays, or waits for the close because a gap up disputes a structural reason.
FullExitStands ==
    [][(pos.lots > 0 /\ order.pct = 100) =>
          \/ pos'.lots <= pos.lots - Wanted(pos, order)
          \/ order'.pct = 100 \/ watched'.pct = 100]_vars

\* Reductions are cumulative: a holding never sells more lots than the largest share of
\* its purchases that an executed order had asked for.
SoldWithinTarget == pos.initial - pos.lots <= pos.goal

\* No exit is stranded on a clock that never comes: after a day without purchases whose
\* every execution met a free market, nothing that was pending before it still is.
FreeDayClears == phase = "night" /\ free /\ bought = 0 => ~order.old

=============================================================================
