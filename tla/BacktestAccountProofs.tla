------------------------ MODULE BacktestAccountProofs ------------------------
(***************************************************************************)
(* Theorems about BacktestAccount, for any lots, tiers, capacities and     *)
(* advice: what T+1 holds back, what a reduction may sell, and what        *)
(* becomes of a full exit and of the orders pending at the open.           *)
(***************************************************************************)
EXTENDS BacktestAccount, TLAPS

Holdings ==
    [lots : Nat, initial : Nat, today : Nat, fresh : BOOLEAN, tier : Nat, broken : {"no", "today", "yes"},
     over : BOOLEAN, waved : BOOLEAN, warned : BOOLEAN, fell : BOOLEAN, inverse : BOOLEAN, goal : Nat]

\* A holding: within its bounds, with today's lots among its own, and sold within its goal.
Held(p) ==
    /\ p \in Holdings
    /\ p.lots <= MaxLots /\ p.lots <= p.initial /\ p.initial <= MaxInitial
    /\ p.today <= p.lots
    /\ p.lots = 0 => p = Flat
    /\ p.initial - p.lots <= p.goal

\* An order as the program writes one: a target is partial, a structural exit is not one.
Written(o) ==
    /\ o \in OrderType
    /\ o.target => o.pct < 100
    /\ o.reason = "structure" => o.pct = 100

\* What is left of a reduction is still within its share.
Remainder(p, o) == o.target /\ o.left > 0 =>
    p.initial - p.lots + o.left <= Share(p.initial, o.pct, o.reason)

Fits(p, o) ==
    /\ o.left <= p.lots
    /\ p.lots = 0 => o = NoOrder
    /\ Remainder(p, o)

-----------------------------------------------------------------------------
(* Shares and wanted lots. *)

\* A share of n lots is no more than n, rounded up or down.
LEMMA ShareBounds ==
  ASSUME NEW n \in Nat, NEW pct \in 0..100, NEW why
  PROVE  Share(n, pct, why) \in 0..n
<1> DEFINE m == n * pct
<1>1. m \in Nat /\ m <= n * 100
  <2>1. n * pct <= n * 100
    BY SMT
  <2>2. n * pct \in Nat
    BY SMT
  <2> QED BY <2>1, <2>2
<1> HIDE DEF m
<1>2. m \div 100 \in 0..n /\ (m + 99) \div 100 \in 0..n
  BY <1>1, SMT
<1> QED
  BY <1>2 DEF Share, m

\* An order for lots that are held asks for some of them; only a reduction asks for none.
LEMMA WantedBounds ==
  ASSUME NEW p, NEW o, Held(p), Written(o)
  PROVE  /\ Wanted(p, o) \in 0..p.lots
         /\ p.lots > 0 /\ o.pct = 100 => Wanted(p, o) > 0
<1>1. p.lots \in Nat /\ p.initial \in Nat /\ o.left \in Nat /\ o.pct \in 0..100 /\ p.lots <= p.initial
      /\ o.target \in BOOLEAN
  BY AccountAssumption DEF Held, Holdings, Written, OrderType
<1>2. Share(p.lots, o.pct, "plain") \in 0..p.lots
  BY <1>1, ShareBounds
<1>3. Share(p.initial, o.pct, o.reason) \in 0..p.initial
  BY <1>1, ShareBounds
<1>4. TargetLots(p, o) \in 0..p.lots
  BY <1>1, <1>3 DEF TargetLots, Least, AtLeastZero
<1>5. o.target => o.pct < 100
  BY DEF Written
<1> QED
  BY <1>1, <1>2, <1>4, <1>5 DEF Wanted, Least

\* What a reduction asks for, with what was sold before, is within its share.
LEMMA WantedWithinShare ==
  ASSUME NEW p, NEW o, Held(p), Written(o), Remainder(p, o), o.target, Wanted(p, o) > 0
  PROVE  p.initial - p.lots + Wanted(p, o) <= Share(p.initial, o.pct, o.reason)
<1>1. p.lots \in Nat /\ p.initial \in Nat /\ o.left \in Nat /\ o.pct \in 0..100 /\ p.lots <= p.initial
  BY AccountAssumption DEF Held, Holdings, Written, OrderType
<1>2. Share(p.initial, o.pct, o.reason) \in Nat
  BY <1>1, ShareBounds, SMTT(60)
<1>3. CASE o.left > 0
  BY <1>1, <1>2, <1>3 DEF Wanted, Least, Remainder
<1>4. CASE o.left = 0
  BY <1>1, <1>2, <1>4 DEF Wanted, TargetLots, Least, AtLeastZero
<1> QED
  BY <1>1, <1>3, <1>4

-----------------------------------------------------------------------------
(* What an execution leaves behind. *)

\* A fill marks the holding and nothing else.
LEMMA MarkedFields ==
  ASSUME NEW p, NEW o, p \in Holdings
  PROVE  /\ Marked(p, o) \in Holdings
         /\ Marked(p, o).lots = p.lots /\ Marked(p, o).initial = p.initial
         /\ Marked(p, o).today = p.today /\ Marked(p, o).goal = p.goal
<1>1. CASE o.reason \in Halving
  BY <1>1 DEF Marked, Holdings
<1>2. CASE o.reason \notin Halving
  BY <1>2 DEF Marked, Holdings, Halving
<1> QED
  BY <1>1, <1>2

\* A sale of n free lots, which an order with this share or a full one asked for.
LEMMA ReducedHeld ==
  ASSUME NEW p, NEW o, NEW n \in Nat, Held(p), Written(o), n <= p.lots - p.today,
         o.target => p.initial - p.lots + n <= Share(p.initial, o.pct, o.reason)
  PROVE  /\ Held(Reduced(p, o, n))
         /\ Reduced(p, o, n).lots = p.lots - n
         /\ Reduced(p, o, n).today = p.today
         /\ n < p.lots => Reduced(p, o, n).initial = p.initial
<1>1. p.lots \in Nat /\ p.initial \in Nat /\ p.today \in Nat /\ p.goal \in Nat /\ o.pct \in 0..100
      /\ o.target \in BOOLEAN
  BY DEF Held, Holdings, Written, OrderType
<1>2. CASE n = p.lots
  <2>1. Reduced(p, o, n) = Flat /\ p.today = 0
    BY <1>1, <1>2 DEF Reduced
  <2>2. Held(Flat) /\ Flat.lots = 0 /\ Flat.today = 0
    BY AccountAssumption DEF Held, Holdings, Flat
  <2> QED BY <1>1, <1>2, <2>1, <2>2
<1>3. CASE n # p.lots
  <2> DEFINE asked == IF o.target THEN Share(p.initial, o.pct, o.reason) ELSE p.initial
             g == IF asked > p.goal THEN asked ELSE p.goal
             q == [Marked(p, o) EXCEPT !.lots = p.lots - n, !.goal = g]
  <2>1. asked \in Nat /\ p.initial - (p.lots - n) <= asked
    BY <1>1, ShareBounds, SMTT(60) DEF Held
  <2>2. g \in Nat /\ p.initial - (p.lots - n) <= g
    BY <1>1, <2>1
  <2>3. Marked(p, o) \in Holdings /\ Marked(p, o).initial = p.initial
        /\ Marked(p, o).today = p.today /\ Marked(p, o).goal = p.goal
    BY MarkedFields DEF Held
  <2>4. Reduced(p, o, n) = q
    BY <1>3, <2>3 DEF Reduced
  <2>5. p.lots - n \in Nat /\ p.lots - n > 0
    BY <1>1, <1>3 DEF Held
  <2>6. q \in Holdings /\ q.lots = p.lots - n /\ q.initial = p.initial /\ q.today = p.today /\ q.goal = g
    <3> HIDE DEF g
    <3> QED BY <2>2, <2>3, <2>5 DEF Holdings
  <2>7. Held(q)
    <3> HIDE DEF q
    <3> QED BY <1>1, <2>2, <2>5, <2>6, AccountAssumption DEF Held
  <2> QED BY <2>4, <2>6, <2>7
<1> QED
  BY <1>2, <1>3

\* An order put off is the same order with a remainder, and waits for the next open.
Deferred(o, n) == [o EXCEPT !.left = n, !.model = "next_open"]

LEMMA DeferredFields ==
  ASSUME NEW o, Written(o), NEW n \in 0..MaxLots
  PROVE  /\ Written(Deferred(o, n))
         /\ Deferred(o, n).left = n /\ Deferred(o, n).model = "next_open"
         /\ Deferred(o, n).old = o.old /\ Deferred(o, n).pct = o.pct
         /\ Deferred(o, n).target = o.target /\ Deferred(o, n).reason = o.reason
BY ZenonT(60) DEF Written, OrderType, Deferred

\* Every outcome of an execution: the holding it leaves, the order still pending, and what
\* has become of the lots that were asked for.
LEMMA ExecutedFacts ==
  ASSUME NEW p, NEW o, NEW v, NEW room \in Nat,
         Held(p), p.lots > 0, Written(o), Fits(p, o), o # NoOrder,
         NEW r, r = Executed(p, o, v, room)
  PROVE  /\ Held(r.pos) /\ Written(r.order) /\ Fits(r.pos, r.order)
         /\ r.pos.today = p.today
         /\ r.why # "filled" => r.pos = p
         /\ r.order # NoOrder => /\ r.order.old = o.old /\ r.order.pct = o.pct
                                 /\ r.order.reason = o.reason
                                 /\ r.order.model \in {o.model, "next_open"}
         /\ r.order = NoOrder /\ o.pct = 100 => r.pos.lots <= p.lots - Wanted(p, o)
         /\ v = "free" /\ room >= MaxLots /\ p.today = 0 => r.order = NoOrder
         /\ r.why \in {"T+1", "capacity"} => /\ r.order # NoOrder
                                             /\ p.today > 0 \/ room < MaxLots
<1> DEFINE asked == Wanted(p, o)
           want == IF asked = 0 THEN p.lots ELSE asked
           open == p.lots - p.today
           now == Least(want, open)
           rest == Deferred(o, want - now)
           whole == Deferred(o, want)
<1>1. p.lots \in Nat /\ p.initial \in Nat /\ p.today \in Nat /\ p.today <= p.lots /\ p.lots <= MaxLots
      /\ o.left \in Nat /\ o.pct \in 0..100 /\ o.target \in BOOLEAN /\ MaxLots \in Nat
  BY AccountAssumption DEF Held, Holdings, Written, OrderType
<1>2. asked \in 0..p.lots /\ (o.pct = 100 => asked > 0)
  BY WantedBounds
<1>3. want \in 1..p.lots /\ open \in 0..p.lots /\ now \in 0..want /\ now <= open
      /\ (now = want \/ now = open) /\ want \in 0..MaxLots /\ want - now \in 0..MaxLots
  BY <1>1, <1>2 DEF Least
<1>4. Fits(p, o) /\ Held(p) /\ Written(o) /\ Written(NoOrder) /\ ~NoOrder.target /\ NoOrder.left = 0
  BY AccountAssumption DEF Written, OrderType, NoOrder, Order
<1>5. o.target /\ asked > 0 => p.initial - p.lots + want <= Share(p.initial, o.pct, o.reason)
  BY <1>3, WantedWithinShare DEF Fits
<1>6. NoOrder.pct = 0
  BY DEF NoOrder, Order
<1>7. /\ Written(whole) /\ whole.left = want /\ whole.model = "next_open" /\ whole.old = o.old
      /\ whole.pct = o.pct /\ whole.target = o.target /\ whole.reason = o.reason
  BY <1>3, DeferredFields
<1>8. /\ Written(rest) /\ rest.left = want - now /\ rest.model = "next_open" /\ rest.old = o.old
      /\ rest.pct = o.pct /\ rest.target = o.target /\ rest.reason = o.reason
  BY <1>3, DeferredFields
<1>9. r = IF asked = 0 /\ (o.target \/ o.reason \in Halving)
             THEN [pos |-> p, order |-> NoOrder, why |-> "below_one_lot"]
          ELSE IF open = 0 THEN [pos |-> p, order |-> IF p.fresh THEN o ELSE whole, why |-> "T+1"]
          ELSE IF v = "blocked"
             THEN [pos |-> p, order |-> IF want > now THEN whole ELSE o, why |-> "not_sellable"]
          ELSE IF now > room
             THEN [pos |-> p, order |-> IF want > now THEN whole ELSE o, why |-> "capacity"]
          ELSE IF v = "limit" THEN [pos |-> p, order |-> o, why |-> "below_limit"]
          ELSE [pos |-> Reduced(p, o, now), order |-> IF want > now THEN rest ELSE NoOrder, why |-> "filled"]
  BY DEF Executed, Deferred
<1> HIDE DEF asked, want, open, now, rest, whole
<1>10. CASE asked = 0 /\ (o.target \/ o.reason \in Halving)
  <2>1. r.pos = p /\ r.order = NoOrder /\ r.why = "below_one_lot"
    BY <1>9, <1>10
  <2> QED BY <1>1, <1>2, <1>4, <1>10, <2>1 DEF Fits, Remainder
<1>11. ASSUME ~(asked = 0 /\ (o.target \/ o.reason \in Halving))
       PROVE  Fits(p, whole) /\ (want > now => Fits(Reduced(p, o, now), rest))
              /\ Held(Reduced(p, o, now)) /\ Reduced(p, o, now).today = p.today
              /\ Reduced(p, o, now).lots = p.lots - now
  <2>1. Fits(p, whole)
    BY <1>1, <1>2, <1>3, <1>5, <1>7, <1>11 DEF Fits, Remainder
  <2>2. o.target => p.initial - p.lots + want <= Share(p.initial, o.pct, o.reason)
    BY <1>1, <1>5, <1>11, <1>2, <1>3 DEF want
  <2>3. o.target => Share(p.initial, o.pct, o.reason) \in Nat
    BY <1>1, ShareBounds, SMTT(60)
  <2>4. o.target => p.initial - p.lots + now <= Share(p.initial, o.pct, o.reason)
    BY <1>1, <1>3, <2>2, <2>3
  <2>5. now \in Nat /\ now <= p.lots - p.today
    BY <1>1, <1>3 DEF open
  <2>6. /\ Held(Reduced(p, o, now)) /\ Reduced(p, o, now).lots = p.lots - now
        /\ Reduced(p, o, now).today = p.today
        /\ now < p.lots => Reduced(p, o, now).initial = p.initial
    BY <2>4, <2>5, ReducedHeld
  <2>7. ASSUME want > now
        PROVE  Fits(Reduced(p, o, now), rest)
    <3>1. now < p.lots /\ p.lots - now > 0 /\ want - now <= p.lots - now
      BY <1>1, <1>3, <2>5, <2>7
    <3>2. Remainder(Reduced(p, o, now), rest)
      BY <1>1, <1>3, <1>8, <2>2, <2>3, <2>6, <3>1 DEF Remainder
    <3> QED BY <1>8, <2>6, <3>1, <3>2 DEF Fits
  <2> QED BY <2>1, <2>6, <2>7
<1>12. CASE ~(asked = 0 /\ (o.target \/ o.reason \in Halving)) /\ open = 0
  <2>1. /\ r.pos = p /\ r.why = "T+1" /\ (r.order = o \/ r.order = whole)
        /\ p.today = p.lots
    BY <1>1, <1>9, <1>12 DEF open
  <2>2. Fits(p, whole)
    BY <1>11, <1>12
  <2>3. r.order # NoOrder => r.order.model \in {o.model, "next_open"}
    BY <1>7, <2>1
  <2>4. NoOrder # whole
    BY <1>3, <1>4, <1>7
  <2>5. r.order # NoOrder
    BY <2>1, <2>4
  <2>6. Held(r.pos) /\ Written(r.order) /\ Fits(r.pos, r.order)
    BY <1>4, <1>7, <2>1, <2>2
  <2> QED BY <1>1, <1>3, <1>4, <1>6, <1>7, <2>1, <2>2, <2>3, <2>4, <2>5, <2>6
<1>13. CASE ~(asked = 0 /\ (o.target \/ o.reason \in Halving)) /\ open # 0 /\ v = "blocked"
  <2>1. r.pos = p /\ r.why = "not_sellable" /\ (r.order = o \/ r.order = whole)
    BY <1>9, <1>13
  <2>2. Fits(p, whole)
    BY <1>11, <1>13
  <2> QED BY <1>1, <1>3, <1>4, <1>6, <1>7, <1>13, <2>1, <2>2
<1>14. CASE /\ ~(asked = 0 /\ (o.target \/ o.reason \in Halving)) /\ open # 0 /\ v # "blocked"
            /\ now > room
  <2>1. r.pos = p /\ r.why = "capacity" /\ (r.order = o \/ r.order = whole)
    BY <1>9, <1>14
  <2>2. Fits(p, whole)
    BY <1>11, <1>14
  <2> QED BY <1>1, <1>3, <1>4, <1>6, <1>7, <1>14, <2>1, <2>2
<1>15. CASE /\ ~(asked = 0 /\ (o.target \/ o.reason \in Halving)) /\ open # 0 /\ v = "limit"
            /\ ~(now > room)
  <2>1. r.pos = p /\ r.why = "below_limit" /\ r.order = o
    BY <1>9, <1>15
  <2> QED BY <1>1, <1>3, <1>4, <1>6, <1>15, <2>1
<1>16. CASE /\ ~(asked = 0 /\ (o.target \/ o.reason \in Halving)) /\ open # 0
            /\ v \notin {"blocked", "limit"} /\ ~(now > room)
  <2>1. /\ r.pos = Reduced(p, o, now) /\ r.why = "filled"
        /\ r.order = IF want > now THEN rest ELSE NoOrder
    BY <1>9, <1>16
  <2>2. /\ Held(r.pos) /\ r.pos.today = p.today /\ r.pos.lots = p.lots - now
        /\ want > now => Fits(r.pos, rest)
    BY <1>11, <1>16, <2>1
  <2>3. ASSUME want > now PROVE p.today > 0
    BY <1>1, <1>3, <2>3 DEF open
  <2>4. ASSUME want <= now PROVE r.pos.lots <= p.lots - asked /\ Fits(r.pos, NoOrder)
    BY <1>1, <1>2, <1>3, <1>4, <2>2, <2>4 DEF Fits, Remainder, want, Held, Holdings
  <2> QED BY <1>1, <1>3, <1>4, <1>8, <2>1, <2>2, <2>3, <2>4 DEF asked
<1> QED
  BY <1>10, <1>12, <1>13, <1>14, <1>15, <1>16

-----------------------------------------------------------------------------
(* The close's advice. *)

\* Advice is a whole order of today's for the close or the next open, and no structural exit.
Advice(o) ==
    /\ Written(o) /\ o.left = 0 /\ ~o.old /\ o.reason # "structure"
    /\ o.model \in {"same_day_close", "next_open"}

LEMMA NoAdvice == Advice(NoOrder)
BY AccountAssumption DEF Advice, Written, OrderType, Order, NoOrder

LEMMA ClearAdvice ==
  ASSUME NEW why \in {"plain", "top", "heavy", "distribution", "shadow"}
  PROVE  Advice(Clear(why)) /\ Advice(Order(why, 100, FALSE, "next_open"))
BY AccountAssumption DEF Advice, Written, OrderType, Order, Clear

LEMMA CutAdvice ==
  ASSUME NEW why \in Risks \cup {"heavy", "staged"}, NEW pct \in 1..99
  PROVE  Advice(Cut(why, pct))
BY AccountAssumption DEF Advice, Written, OrderType, Order, Cut

\* The observers' answers that a run admits.
LEMMA ObservedAdvice ==
  ASSUME NEW f, NEW c \in Observed(f), Advised(c) \subseteq Risks
  PROVE  Advice(c.wave) /\ Advice(c.pressure) /\ Advice(c.volume)
<1> USE ClearAdvice, NoAdvice
<1>1. Advice(c.wave)
  <2>1. c.wave \in {NoOrder, Clear("plain"), Clear("top"), Cut("wave", 80)}
    BY DEF Observed
  <2>2. CASE c.wave = Cut("wave", 80)
    <3>1. "wave" \in Risks
      BY <2>2 DEF Advised, Cut, Order
    <3> QED BY <3>1, <2>2, AccountAssumption DEF Advice, Written, OrderType, Order, Cut
  <2> QED BY <2>1, <2>2
<1>2. Advice(c.pressure)
  <2> DEFINE halved == {Order(why, 50, FALSE, "same_day_close") : why \in Halving}
             fallen == IF f.fell THEN {} ELSE {Cut("fall", 80)}
             cuts == IF f.warned THEN {} ELSE halved \cup {Cut("limit_open", 90)} \cup fallen
  <2>1. c.pressure \in {NoOrder, Clear("plain")} \cup cuts
    BY DEF Observed
  <2>2. c.pressure.reason \notin {"none", "plain", "top", "distribution", "shadow", "heavy"}
        => c.pressure.reason \in Risks
    BY DEF Advised
  <2>3. CASE c.pressure = Cut("limit_open", 90)
    BY <2>2, <2>3, AccountAssumption DEF Advice, Written, OrderType, Order, Cut
  <2>4. CASE c.pressure = Cut("fall", 80)
    BY <2>2, <2>4, AccountAssumption DEF Advice, Written, OrderType, Order, Cut
  <2>5. CASE c.pressure \in halved
    <3>1. PICK why \in Halving : c.pressure = Order(why, 50, FALSE, "same_day_close")
      BY <2>5
    <3>2. why \in Risks
      BY <2>2, <3>1 DEF Order, Halving
    <3> QED BY <3>1, <3>2, AccountAssumption DEF Advice, Written, OrderType, Order, Halving
  <2> QED BY <2>1, <2>3, <2>4, <2>5
<1>3. Advice(c.volume)
  <2>1. c.volume \in {NoOrder, Clear("plain"), Clear("heavy"), Clear("distribution"), Clear("shadow"),
                      Cut("volume", 70), Order("small_n", 30, TRUE, "next_open"), Cut("heavy", 90)}
    BY DEF Observed
  <2>2. c.volume.reason \notin {"none", "plain", "top", "distribution", "shadow", "heavy"}
        => c.volume.reason \in Risks
    BY DEF Advised
  <2>3. CASE c.volume = Cut("volume", 70)
    BY <2>2, <2>3, AccountAssumption DEF Advice, Written, OrderType, Order, Cut
  <2>4. CASE c.volume = Cut("heavy", 90)
    BY <2>4, AccountAssumption DEF Advice, Written, OrderType, Order, Cut
  <2>5. CASE c.volume = Order("small_n", 30, TRUE, "next_open")
    BY <2>2, <2>5, AccountAssumption DEF Advice, Written, OrderType, Order, Cut
  <2> QED BY <2>1, <2>3, <2>4, <2>5
<1> QED
  BY <1>1, <1>2, <1>3

\* Whatever rung decides, it decides for advice.
LEMMA LadderAdvice ==
  ASSUME NEW f, NEW c \in Observed(f), Advised(c) \subseteq Risks
  PROVE  Advice(Ladder(c))
<1>1. Advice(c.wave) /\ Advice(c.pressure) /\ Advice(c.volume)
  BY ObservedAdvice
<1>2. Advice(WaveLeft(c)) /\ Advice(PressureLeft(c))
  BY <1>1, NoAdvice DEF WaveLeft, PressureLeft
<1>3. Advice(Clear("plain")) /\ Advice(Order("plain", 100, FALSE, "next_open"))
  BY ClearAdvice
<1>4. /\ Advice(When(c.mother, Clear("plain"))) /\ Advice(When(c.inverse, Clear("plain")))
      /\ Advice(When(c.failure, Clear("plain")))
      /\ Advice(When(c.hard, Order("plain", 100, FALSE, "next_open")))
  BY <1>3, NoAdvice DEF When
<1>5. /\ Advice(FullOnly(WaveLeft(c))) /\ Advice(FullOnly(c.volume))
      /\ Advice(When(~c.failure \/ c.volume.reason = "shadow", FullOnly(c.volume)))
  BY <1>1, <1>2, NoAdvice DEF When, FullOnly
<1> QED
  BY <1>1, <1>2, <1>4, <1>5, Zenon DEF Ladder, ??

LEMMA DecisionAdvice ==
  ASSUME NEW d \in Decisions
  PROVE  Advice(d.order)
<1>1. PICK f \in Flags : \E c \in {x \in Observed(f) : Advised(x) \subseteq Risks} : d.order = Ladder(c)
  BY DEF Decisions
<1> QED
  BY <1>1, LadderAdvice

-----------------------------------------------------------------------------
(* Holdings through a day. *)

\* Two holdings of the same lots, whatever the observers have noted on them.
SameLots(p, q) ==
    /\ q.lots = p.lots /\ q.initial = p.initial /\ q.today = p.today /\ q.goal = p.goal

LEMMA NotedHeld ==
  ASSUME NEW p, NEW q \in Holdings, Held(p), p.lots > 0, SameLots(p, q)
  PROVE  Held(q) /\ q.lots > 0 /\ q.today = p.today /\ \A o : Fits(p, o) => Fits(q, o)
BY DEF Held, Holdings, SameLots, Fits, Remainder

\* The holding on the morning of a new date.
Woken(p) == [p EXCEPT !.today = 0, !.fresh = FALSE, !.broken = IF @ = "no" THEN "no" ELSE "yes"]

LEMMA WokenHeld ==
  ASSUME NEW p, Held(p)
  PROVE  /\ Held(Woken(p)) /\ Woken(p).lots = p.lots /\ Woken(p).today = 0
         /\ \A o : Fits(p, o) => Fits(Woken(p), o)
<1>1. /\ Woken(p) \in Holdings /\ Woken(p).lots = p.lots /\ Woken(p).today = 0
      /\ Woken(p).initial = p.initial /\ Woken(p).goal = p.goal
  BY DEF Held, Holdings, Woken
<1>2. ASSUME p.lots = 0 PROVE Woken(p) = Flat
  <2>1. p = Flat
    BY <1>2 DEF Held
  <2>2. Flat.today = 0 /\ Flat.fresh = FALSE /\ Flat.broken = "no"
    BY DEF Flat
  <2>3. Woken(p) = [Flat EXCEPT !.today = Flat.today, !.fresh = Flat.fresh, !.broken = Flat.broken]
    BY <2>1, <2>2 DEF Woken
  <2>4. Flat \in Holdings
    BY <2>1 DEF Held
  <2> QED BY <2>3, <2>4 DEF Holdings
<1> HIDE DEF Woken
<1> QED
  BY <1>1, <1>2 DEF Held, Holdings, Fits, Remainder

\* A purchase, of a new holding or an add-on.
LEMMA BoughtHeld ==
  ASSUME NEW p, Held(p), NEW q \in 1..(MaxLots - p.lots), p.initial + q <= MaxInitial
  PROVE  /\ Held(Bought(p, q)) /\ Bought(p, q).lots = p.lots + q /\ Bought(p, q).today = p.today + q
<1>1. p.lots \in Nat /\ p.initial \in Nat /\ p.today \in Nat /\ p.goal \in Nat /\ MaxLots \in Nat
  BY AccountAssumption DEF Held, Holdings
<1>2. CASE p.lots = 0
  <2>1. p = Flat
    BY <1>2 DEF Held
  <2> DEFINE b == [Flat EXCEPT !.lots = q, !.initial = q, !.today = q, !.fresh = TRUE]
  <2>2. Bought(p, q) = b
    BY <1>2 DEF Bought
  <2>3. Flat \in Holdings /\ Flat.goal = 0 /\ Flat.initial = 0 /\ Flat.today = 0
    BY <2>1 DEF Held, Flat
  <2>4. q \in Nat
    BY <1>1
  <2>5. b \in Holdings
    BY <2>3, <2>4 DEF Holdings
  <2>6. b.lots = q /\ b.initial = q /\ b.today = q /\ b.goal = 0
    BY <2>3 DEF Holdings
  <2> HIDE DEF b
  <2> QED BY <1>1, <1>2, <2>1, <2>2, <2>3, <2>5, <2>6 DEF Held
<1>3. CASE p.lots # 0
  <2> DEFINE b == [p EXCEPT !.lots = p.lots + q, !.initial = p.initial + q, !.today = p.today + q]
  <2>1. p \in Holdings /\ Bought(p, q) = b
    BY <1>3 DEF Bought, TodayAfter, Held, Holdings
  <2>2. p.lots + q \in Nat /\ p.initial + q \in Nat /\ p.today + q \in Nat
    BY <1>1
  <2>3. b \in Holdings
    BY <2>1, <2>2 DEF Holdings
  <2>4. /\ b.lots = p.lots + q /\ b.initial = p.initial + q
        /\ b.today = p.today + q /\ b.goal = p.goal
    BY <2>1 DEF Holdings
  <2> HIDE DEF b
  <2> QED BY <1>1, <1>3, <2>1, <2>3, <2>4 DEF Held
<1> QED
  BY <1>2, <1>3

-----------------------------------------------------------------------------
(* The books. *)

Phases == {"night", "open", "entries", "minutes", "ladder", "closing", "signals", "bids"}

Days == [room : Nat, exits : BOOLEAN, entry : {"none", "due", "done"}, data : BOOLEAN]

\* The books of the day: the pending order fits the holding, what was bought today is
\* what T+1 holds back, and what is watched is a structural exit of what is still held.
Books ==
    /\ phase \in Phases /\ sold \in BOOLEAN /\ free \in BOOLEAN /\ day \in Days
    /\ Held(pos) /\ Written(order) /\ Fits(pos, order)
    /\ Written(watched)
    /\ watched # NoOrder => watched.reason = "structure"
    /\ watched.left <= pos.lots \/ sold
    /\ bought = pos.today

\* The clocks of the day: only the minutes leave an order on theirs, a free day has met
\* nothing but free markets, and what it found pending at its open it sells by its close.
Clocks ==
    /\ order.model = "intraday" => phase = "minutes" /\ minute = "clear"
    /\ free => verdict = "free"
    /\ free /\ phase # "night" => day.room >= MaxLots
    /\ free /\ bought = 0 /\ order.old =>
          \/ phase = "open"
          \/ phase \in {"entries", "minutes", "ladder", "closing"} /\ order.model = "same_day_close"

AccountInv == Books /\ Clocks

\* What a step does to a pending full exit.
FullExitStep ==
    (pos.lots > 0 /\ order.pct = 100) =>
          \/ pos'.lots <= pos.lots - Wanted(pos, order)
          \/ order'.pct = 100 \/ watched'.pct = 100

\* An execution settled in the books.
LEMMA SettleKeeps ==
  ASSUME Books, pos.lots > 0, NEW o, Written(o), Fits(pos, o), o # NoOrder,
         NEW v, NEW room \in Nat, Settle(Executed(pos, o, v, room))
  PROVE  /\ Held(pos') /\ Written(order') /\ Fits(pos', order') /\ pos'.today = pos.today
         /\ sold' \in BOOLEAN /\ (watched.left <= pos'.lots \/ sold')
         /\ order' # NoOrder => /\ order'.old = o.old /\ order'.pct = o.pct
                                /\ order'.model \in {o.model, "next_open"}
         /\ order' = NoOrder /\ o.pct = 100 => pos'.lots <= pos.lots - Wanted(pos, o)
         /\ v = "free" /\ room >= MaxLots /\ pos.today = 0 => order' = NoOrder
<1> DEFINE r == Executed(pos, o, v, room)
<1>1. pos' = r.pos /\ order' = r.order /\ sold' = (sold \/ r.why = "filled")
  BY DEF Settle
<1> HIDE DEF r
<1>2. /\ Held(r.pos) /\ Written(r.order) /\ Fits(r.pos, r.order)
      /\ r.pos.today = pos.today
      /\ r.why # "filled" => r.pos = pos
      /\ r.order # NoOrder => /\ r.order.old = o.old /\ r.order.pct = o.pct
                              /\ r.order.model \in {o.model, "next_open"}
      /\ r.order = NoOrder /\ o.pct = 100 => r.pos.lots <= pos.lots - Wanted(pos, o)
      /\ v = "free" /\ room >= MaxLots /\ pos.today = 0 => r.order = NoOrder
  BY ExecutedFacts DEF Books, r
<1>3. sold' \in BOOLEAN /\ (watched.left <= pos'.lots \/ sold')
  BY <1>1, <1>2 DEF Books
<1> QED
  BY <1>1, <1>2, <1>3

LEMMA BuyKeeps ==
  ASSUME Books, Buy(pos, order), UNCHANGED <<order, watched, sold>>
  PROVE  /\ Held(pos') /\ Fits(pos', order) /\ (watched.left <= pos'.lots \/ sold)
         /\ bought' = pos'.today /\ bought <= bought' /\ pos.lots <= pos'.lots
         /\ pos.lots > 0 /\ order # NoOrder => UNCHANGED <<pos, bought>>
<1>1. CASE UNCHANGED <<pos, bought>>
  BY <1>1 DEF Books, Held, Holdings
<1>2. ASSUME NEW q \in 1..(MaxLots - pos.lots), MayBuy(pos, order), pos.initial + q <= MaxInitial,
             pos' = Bought(pos, q), bought' = bought + q
      PROVE  /\ Held(pos') /\ Fits(pos', order) /\ (watched.left <= pos'.lots \/ sold)
             /\ bought' = pos'.today /\ bought <= bought' /\ pos.lots <= pos'.lots
             /\ pos.lots > 0 => order = NoOrder
  <2>1. Held(pos') /\ pos'.lots = pos.lots + q /\ pos'.today = pos.today + q
    BY <1>2, BoughtHeld DEF Books
  <2>2. pos.lots \in Nat /\ pos.today \in Nat /\ watched.left \in Nat /\ MaxLots \in Nat
    <3>1. watched \in OrderType /\ pos \in Holdings
      BY DEF Books, Held, Written
    <3> QED BY <3>1, AccountAssumption DEF Holdings, OrderType
  <2>3. order = NoOrder
    BY <1>2, <2>2 DEF Books, Fits, MayBuy
  <2> QED BY <1>2, <2>1, <2>2, <2>3 DEF Books, Fits, Remainder, NoOrder, Order
<1> QED
  BY <1>1, <1>2 DEF Buy

\* An order of a held stock on another clock, or of an earlier day.
OnClock(o, m) == [o EXCEPT !.model = m]
Aged(o) == [o EXCEPT !.old = TRUE]

LEMMA OnClockFits ==
  ASSUME NEW p, p.lots > 0, p.lots \in Nat, NEW o, Written(o), Fits(p, o),
         NEW m \in {"next_open", "same_day_close", "intraday"}
  PROVE  /\ Written(OnClock(o, m)) /\ Fits(p, OnClock(o, m))
         /\ OnClock(o, m).old = o.old /\ OnClock(o, m).pct = o.pct /\ OnClock(o, m).model = m
         /\ OnClock(o, m).left = o.left /\ OnClock(o, m).reason = o.reason
<1>1. /\ Written(OnClock(o, m)) /\ OnClock(o, m).target = o.target
      /\ OnClock(o, m).old = o.old /\ OnClock(o, m).pct = o.pct /\ OnClock(o, m).model = m
      /\ OnClock(o, m).left = o.left /\ OnClock(o, m).reason = o.reason
  BY DEF Written, OrderType, OnClock
<1> QED
  BY <1>1 DEF Fits, Remainder

LEMMA AgedFits ==
  ASSUME NEW p, p.lots > 0, p.lots \in Nat, NEW o, Written(o), Fits(p, o)
  PROVE  /\ Written(Aged(o)) /\ Fits(p, Aged(o))
         /\ Aged(o).pct = o.pct /\ Aged(o).model = o.model
<1>1. /\ Written(Aged(o)) /\ Aged(o).target = o.target /\ Aged(o).pct = o.pct
      /\ Aged(o).left = o.left /\ Aged(o).reason = o.reason /\ Aged(o).model = o.model
  BY ZenonT(60) DEF Written, OrderType, Aged
<1> QED
  BY <1>1 DEF Fits, Remainder

LEMMA AdviceFits ==
  ASSUME NEW p, Held(p), p.lots > 0, NEW o, Advice(o)
  PROVE  Written(o) /\ Fits(p, o)
BY DEF Advice, Fits, Remainder, Held, Holdings

LEMMA NoOrderFits ==
  ASSUME NEW p, Held(p)
  PROVE  Written(NoOrder) /\ Fits(p, NoOrder) /\ NoOrder.left = 0 /\ NoOrder.pct = 0
         /\ NoOrder.model = "next_open" /\ ~NoOrder.old
BY AccountAssumption DEF Written, OrderType, Fits, Remainder, Held, Holdings, NoOrder, Order

\* The orders the program writes outside the ladder.
LEMMA FullOrderWritten ==
  ASSUME NEW why \in {"plain", "structure", "closed", "minute"},
         NEW model \in {"next_open", "same_day_close", "intraday"}
  PROVE  /\ Written(Order(why, 100, FALSE, model)) /\ Order(why, 100, FALSE, model) # NoOrder
         /\ Order(why, 100, FALSE, model).left = 0 /\ ~Order(why, 100, FALSE, model).old
         /\ Order(why, 100, FALSE, model).pct = 100 /\ Order(why, 100, FALSE, model).model = model
BY AccountAssumption DEF Written, OrderType, NoOrder, Order

LEMMA UntouchedFits ==
  ASSUME NEW p, Held(p), p.lots > 0, NEW o, Written(o), o.left = 0
  PROVE  Fits(p, o)
BY DEF Fits, Remainder, Held, Holdings

-----------------------------------------------------------------------------
(* The steps of a day. *)

LEMMA OpenDayKeeps ==
  ASSUME AccountInv, OpenDay
  PROVE  AccountInv' /\ FullExitStep
<1> USE DEF AccountInv
<1>1. /\ pos' = Woken(pos) /\ bought' = 0 /\ sold' = FALSE /\ watched' = NoOrder
      /\ phase = "night" /\ phase' = "open" /\ day' \in Days
      /\ free' = (verdict' = "free" /\ day'.room >= MaxLots)
  BY AccountAssumption DEF OpenDay, NewDay, Woken, Days
<1>2. /\ Held(pos') /\ pos'.lots = pos.lots /\ pos'.today = 0 /\ (Fits(pos, order) => Fits(pos', order))
      /\ pos'.lots \in Nat
  BY <1>1, WokenHeld DEF Books, Held, Holdings
<1>3. /\ Written(NoOrder) /\ Fits(pos', NoOrder) /\ NoOrder.left = 0 /\ NoOrder.pct = 0
      /\ NoOrder.model = "next_open"
  BY <1>2, NoOrderFits
<1>4. /\ Written(order') /\ Fits(pos', order') /\ (order.pct = 100 => order'.pct = 100)
      /\ order'.model # "intraday"
  <2>1. CASE order' = NoOrder /\ order = NoOrder
    BY <1>3, <2>1
  <2>2. CASE order # NoOrder /\ order' = [order EXCEPT !.old = TRUE]
    <3>1. pos'.lots # 0
      BY <1>2, <2>2 DEF Books, Fits
    <3>2. order.model # "intraday"
      BY <1>1 DEF Clocks
    <3> QED BY <1>2, <2>2, <3>1, <3>2, AgedFits DEF Books, Aged
  <2>3. CASE pos.lots > 0 /\ order' = [Order("plain", 100, FALSE, "next_open") EXCEPT !.old = TRUE]
    <3> DEFINE o == Order("plain", 100, FALSE, "next_open")
    <3>1. Written(o) /\ o.left = 0 /\ o.pct = 100 /\ o.model = "next_open"
      BY FullOrderWritten DEF Order
    <3> HIDE DEF o
    <3>2. Fits(pos', o)
      BY <1>2, <2>3, <3>1, UntouchedFits
    <3>3. order' = Aged(o)
      BY <2>3 DEF Aged, o
    <3>4. pos'.lots > 0
      BY <1>2, <2>3
    <3> QED BY <1>2, <3>1, <3>2, <3>3, <3>4, AgedFits
  <2> QED BY <2>1, <2>2, <2>3 DEF OpenDay
<1>5. Books'
  <2>1. phase' \in Phases /\ sold' \in BOOLEAN /\ free' \in BOOLEAN /\ day' \in Days
    BY <1>1 DEF Phases
  <2>2. watched'.left <= pos'.lots
    BY <1>1, <1>2, <1>3
  <2> QED BY <1>1, <1>2, <1>3, <1>4, <2>1, <2>2 DEF Books
<1>6. Clocks'
  BY <1>1, <1>4 DEF Clocks
<1> QED
  BY <1>4, <1>5, <1>6 DEF FullExitStep

LEMMA CloseEligibilityKeeps ==
  ASSUME AccountInv, CloseEligibility
  PROVE  AccountInv' /\ FullExitStep
<1> USE DEF AccountInv
<1>1. /\ phase = "night" /\ UNCHANGED <<phase, day, verdict, free>>
      /\ bought' = 0 /\ watched' = NoOrder
  BY DEF CloseEligibility
<1>2. /\ Held(Woken(pos)) /\ Woken(pos).lots = pos.lots /\ Woken(pos).today = 0
      /\ pos.lots \in Nat
  BY WokenHeld DEF Books, Held, Holdings
<1>3. Written(NoOrder) /\ NoOrder.left = 0 /\ ~NoOrder.old /\ NoOrder.model = "next_open"
  BY <1>2, NoOrderFits
<1>4. SUFFICES /\ Held(pos') /\ Written(order') /\ Fits(pos', order') /\ sold' \in BOOLEAN
               /\ pos'.today = 0 /\ ~order'.old /\ order'.model = "next_open" /\ pos'.lots \in Nat
               /\ FullExitStep
  BY <1>1, <1>3, <1>4 DEF Books, Clocks
<1>5. CASE pos.lots = 0
  <2>1. pos' = Woken(pos) /\ order' = NoOrder /\ sold' = FALSE
    BY <1>5 DEF CloseEligibility, Woken
  <2>2. Fits(pos', NoOrder)
    BY <1>2, <2>1, NoOrderFits
  <2>3. FullExitStep
    BY <1>5 DEF FullExitStep
  <2> QED BY <1>2, <1>3, <1>5, <2>1, <2>2, <2>3
<1>6. CASE pos.lots # 0
  <2> DEFINE o == Clear("closed")
             r(v, room) == Executed(Woken(pos), o, v, room)
  <2>1. PICK v \in Verdicts, room \in Rooms :
          /\ pos' = r(v, room).pos /\ sold' = (r(v, room).why = "filled")
          /\ order' = IF r(v, room).order = NoOrder THEN NoOrder
                       ELSE [r(v, room).order EXCEPT !.model = "next_open"]
    BY <1>6 DEF CloseEligibility, Woken
  <2> DEFINE e == r(v, room)
  <2>2. /\ pos' = e.pos /\ sold' \in BOOLEAN
        /\ order' = IF e.order = NoOrder THEN NoOrder ELSE OnClock(e.order, "next_open")
    BY <2>1 DEF OnClock
  <2>3. Woken(pos).lots > 0 /\ room \in Nat
    BY <1>2, <1>6, AccountAssumption
  <2>4. Written(o) /\ o # NoOrder /\ ~o.old /\ o.left = 0 /\ o.pct = 100 /\ ~o.target
    BY FullOrderWritten DEF Clear, Order
  <2>5. e = Executed(Woken(pos), o, v, room)
    OBVIOUS
  <2> HIDE DEF e, o
  <2>6. Fits(Woken(pos), o) /\ Wanted(Woken(pos), o) = pos.lots
    BY <1>2, <2>3, <2>4, UntouchedFits DEF Wanted
  <2>7. /\ Held(e.pos) /\ Written(e.order) /\ Fits(e.pos, e.order) /\ e.pos.today = 0
        /\ e.order # NoOrder => e.order.old = o.old /\ e.order.pct = 100
        /\ e.order = NoOrder => e.pos.lots <= pos.lots - pos.lots
    BY <1>2, <2>3, <2>4, <2>5, <2>6, ExecutedFacts
  <2>8. CASE e.order = NoOrder
    <3>1. Wanted(pos, order) \in 0..pos.lots
      BY WantedBounds DEF Books
    <3>2. pos'.lots <= pos.lots - Wanted(pos, order) /\ pos'.lots \in Nat
      BY <1>2, <2>2, <2>7, <2>8, <3>1 DEF Held, Holdings
    <3> QED BY <1>3, <2>2, <2>7, <2>8, <3>2 DEF FullExitStep
  <2>9. CASE e.order # NoOrder
    <3>1. e.pos.lots > 0 /\ e.pos.lots \in Nat
      BY <2>7, <2>9 DEF Fits, Held, Holdings
    <3> QED BY <2>2, <2>4, <2>7, <2>9, <3>1, OnClockFits DEF FullExitStep
  <2> QED BY <2>8, <2>9
<1> QED
  BY <1>5, <1>6

LEMMA OpenExitsKeeps ==
  ASSUME AccountInv, OpenExits
  PROVE  AccountInv' /\ FullExitStep
<1> USE DEF AccountInv
<1>1. /\ UNCHANGED <<bought, day, free>> /\ phase = "open" /\ phase' = "entries"
      /\ verdict' = "free"
  BY DEF OpenExits
<1>2. /\ Written(NoOrder) /\ Fits(pos, NoOrder) /\ NoOrder.left = 0 /\ ~NoOrder.old
      /\ NoOrder.model = "next_open" /\ day.room \in Nat /\ order.model # "intraday"
  BY <1>1, NoOrderFits DEF Books, Days, Clocks
<1>3. CASE order.reason = "structure" /\ watched' = order /\ order' = NoOrder /\ UNCHANGED <<pos, sold>>
  <2>1. Books'
    BY <1>1, <1>2, <1>3 DEF Books, Phases, Fits
  <2>2. Clocks'
    BY <1>1, <1>2, <1>3 DEF Clocks
  <2> QED BY <1>3, <2>1, <2>2 DEF FullExitStep
<1>4. CASE /\ order # NoOrder /\ order.model = "next_open" /\ UNCHANGED watched
           /\ Settle(Executed(pos, order, verdict, day.room))
  <2>1. pos.lots > 0
    BY <1>4 DEF Books, Fits, Held, Holdings
  <2>2. /\ Held(pos') /\ Written(order') /\ Fits(pos', order') /\ pos'.today = pos.today
        /\ sold' \in BOOLEAN /\ (watched.left <= pos'.lots \/ sold')
        /\ order' # NoOrder => /\ order'.old = order.old /\ order'.pct = order.pct
                               /\ order'.model = "next_open"
        /\ order' = NoOrder /\ order.pct = 100 => pos'.lots <= pos.lots - Wanted(pos, order)
        /\ verdict = "free" /\ day.room >= MaxLots /\ pos.today = 0 => order' = NoOrder
    BY <1>2, <1>4, <2>1, SettleKeeps DEF Books
  <2>3. Books'
    BY <1>1, <1>4, <2>2 DEF Books, Phases
  <2>4. Clocks'
    BY <1>1, <1>2, <2>2 DEF Clocks, Books
  <2> QED BY <2>2, <2>3, <2>4 DEF FullExitStep
<1>5. CASE (order = NoOrder \/ order.model # "next_open") /\ UNCHANGED <<pos, order, sold, watched>>
  <2>1. Books'
    BY <1>1, <1>5 DEF Books, Phases
  <2>2. order.old => order.model = "same_day_close"
    BY <1>2, <1>5 DEF Books, Written, OrderType
  <2>3. Clocks'
    BY <1>1, <1>2, <1>5, <2>2 DEF Clocks
  <2> QED BY <1>5, <2>1, <2>3 DEF FullExitStep
<1> QED
  BY <1>3, <1>4, <1>5 DEF OpenExits

\* A purchase, or none, in the phases of the day that buy.
LEMMA EntryKeeps ==
  ASSUME AccountInv, Buy(pos, order) \/ UNCHANGED <<pos, bought>>,
         UNCHANGED <<order, sold, watched, minute, verdict, free>>,
         day' \in Days, phase' # "night" => day'.room = day.room,
         \/ phase = "entries" /\ phase' = "minutes"
         \/ phase = "minutes" /\ phase' = "minutes"
         \/ phase = "bids" /\ phase' = "night"
  PROVE  AccountInv' /\ FullExitStep
<1> USE DEF AccountInv
<1>1. /\ Held(pos') /\ Fits(pos', order) /\ (watched.left <= pos'.lots \/ sold)
      /\ bought' = pos'.today /\ bought <= bought' /\ bought \in Nat /\ bought' \in Nat
  BY BuyKeeps DEF Books, Held, Holdings
<1>2. Books'
  BY <1>1 DEF Books, Phases
<1>3. Clocks'
  BY <1>1 DEF Clocks
<1> QED
  BY <1>2, <1>3 DEF FullExitStep

LEMMA OpenEntryKeeps ==
  ASSUME AccountInv, OpenEntry
  PROVE  AccountInv' /\ FullExitStep
BY EntryKeeps DEF OpenEntry, AccountInv, Books

LEMMA MinuteEntryKeeps ==
  ASSUME AccountInv, MinuteEntry
  PROVE  AccountInv' /\ FullExitStep
<1>1. /\ day' = [day EXCEPT !.entry = "done"] /\ phase = "minutes" /\ phase' = phase
      /\ UNCHANGED <<order, sold, watched, minute, verdict, free>>
      /\ Buy(pos, order) \/ UNCHANGED <<pos, bought>>
  BY DEF MinuteEntry
<1>2. day' \in Days /\ day'.room = day.room
  BY <1>1 DEF AccountInv, Books, Days
<1> QED
  BY <1>1, <1>2, EntryKeeps

LEMMA CloseEntryKeeps ==
  ASSUME AccountInv, CloseEntry
  PROVE  AccountInv' /\ FullExitStep
<1>1. /\ day' = NoDay /\ phase = "bids" /\ phase' = "night"
      /\ UNCHANGED <<order, sold, watched, minute, verdict, free>>
      /\ Buy(pos, order) \/ UNCHANGED <<pos, bought>>
  BY DEF CloseEntry
<1>2. day' \in Days
  BY <1>1 DEF NoDay, Days
<1> QED
  BY <1>1, <1>2, EntryKeeps

LEMMA ExecutedRecord ==
  ASSUME NEW p, NEW o, NEW v, NEW room
  PROVE  LET r == Executed(p, o, v, room)
         IN  r = [pos |-> r.pos, order |-> r.order, why |-> r.why]
BY DEF Executed

\* A clearing risk seen in a minute, with the order it executes or leaves for later.
LEMMA MinuteRiskKeeps ==
  ASSUME AccountInv, MinuteRisk
  PROVE  AccountInv' /\ FullExitStep
<1> USE DEF AccountInv
<1> DEFINE new == Order("minute", 100, FALSE, "intraday")
           o == IF Replaceable(order) THEN new ELSE order
<1>1. /\ phase = "minutes" /\ phase' = "minutes" /\ minute' = "clear"
      /\ UNCHANGED <<bought, watched, day, verdict>>
  BY DEF MinuteRisk
<1>2. pos.lots \in Nat /\ day.room \in Nat /\ order.pct \in 0..100 /\ bought \in Nat
  BY DEF Books, Held, Holdings, Days, Written, OrderType
<1>3. Written(new) /\ new.left = 0 /\ new # NoOrder /\ ~new.old /\ new.pct = 100
  BY FullOrderWritten DEF Order
<1> HIDE DEF new
<1>4. /\ order.pct = 100 => o = order
      /\ o = new \/ (o = order /\ order.pct = 100)
  BY <1>2 DEF Replaceable
<1> HIDE DEF o
<1>5. pos.lots > 0 => Written(o) /\ Fits(pos, o) /\ o # NoOrder
  BY <1>3, <1>4, UntouchedFits, NoOrderFits DEF Books
<1>6. CASE /\ order' = IF pos.lots = 0 THEN order ELSE o
           /\ UNCHANGED <<pos, sold, free>>
  <2>1. Written(order') /\ Fits(pos, order')
    BY <1>2, <1>5, <1>6 DEF Books
  <2>2. Books'
    BY <1>1, <1>6, <2>1 DEF Books
  <2>3. Clocks'
    BY <1>1, <1>3, <1>4, <1>6 DEF Clocks
  <2>4. order.pct = 100 => order' = order
    BY <1>4, <1>6
  <2> QED BY <2>2, <2>3, <2>4 DEF FullExitStep
<1>7. ASSUME pos.lots # 0, NEW v \in Verdicts, Meets(v), NEW r, r = Executed(pos, o, v, day.room),
             Settle(IF r.why \in {"T+1", "capacity"} THEN [r EXCEPT !.order.model = "next_open"] ELSE r)
      PROVE  AccountInv' /\ FullExitStep
  <2>1. /\ Held(r.pos) /\ Written(r.order) /\ Fits(r.pos, r.order)
        /\ r.pos.today = pos.today
        /\ r.why # "filled" => r.pos = pos
        /\ r.order # NoOrder => r.order.pct = o.pct
        /\ r.order = NoOrder /\ o.pct = 100 => r.pos.lots <= pos.lots - Wanted(pos, o)
        /\ v = "free" /\ day.room >= MaxLots /\ pos.today = 0 => r.order = NoOrder
        /\ r.why \in {"T+1", "capacity"} => /\ r.order # NoOrder
                                            /\ pos.today > 0 \/ day.room < MaxLots
    BY <1>2, <1>5, <1>7, ExecutedFacts DEF Books
  <2>2. r = [pos |-> r.pos, order |-> r.order, why |-> r.why]
    BY <1>7, ExecutedRecord
  <2>3. /\ pos' = r.pos /\ sold' = (sold \/ r.why = "filled")
        /\ order' = IF r.why \in {"T+1", "capacity"} THEN OnClock(r.order, "next_open") ELSE r.order
    <3>1. CASE r.why \in {"T+1", "capacity"}
      <4>1. [r EXCEPT !.order.model = "next_open"]
              = [pos |-> r.pos, order |-> OnClock(r.order, "next_open"), why |-> r.why]
        BY <2>2 DEF OnClock
      <4> QED BY <1>7, <3>1, <4>1 DEF Settle
    <3>2. CASE r.why \notin {"T+1", "capacity"}
      BY <1>7, <3>2 DEF Settle
    <3> QED BY <3>1, <3>2
  <2>4. /\ Written(order') /\ Fits(pos', order')
        /\ order' = NoOrder \/ order'.pct = o.pct
        /\ order' = NoOrder => r.order = NoOrder \/ o.pct = 0
        /\ r.order = NoOrder => order' = NoOrder
    <3>1. CASE r.why \in {"T+1", "capacity"}
      <4>1. pos.lots > 0 /\ r.pos = pos
        BY <1>2, <1>7, <2>1, <3>1
      <4> QED BY <1>2, <2>1, <2>3, <3>1, <4>1, OnClockFits DEF NoOrder, Order
    <3>2. CASE r.why \notin {"T+1", "capacity"}
      BY <2>1, <2>3, <3>2
    <3> QED BY <3>1, <3>2
  <2>5. sold' \in BOOLEAN /\ (watched.left <= pos'.lots \/ sold') /\ free' \in BOOLEAN
    BY <1>7, <2>1, <2>3 DEF Books, Meets
  <2>6. Books'
    BY <1>1, <2>1, <2>3, <2>4, <2>5 DEF Books
  <2>7. Clocks'
    <3>1. free' => free /\ v = "free"
      BY <1>7 DEF Meets, Books
    <3>2. free' /\ bought = 0 => order' = NoOrder
      BY <1>1, <2>1, <2>4, <3>1 DEF Clocks, Books
    <3>3. ~NoOrder.old
      BY DEF NoOrder, Order
    <3> QED BY <1>1, <3>1, <3>2, <3>3 DEF Clocks
  <2>8. FullExitStep
    BY <1>4, <2>1, <2>3, <2>4 DEF FullExitStep
  <2> QED BY <2>6, <2>7, <2>8
<1> QED
  <2>1. \/ order' = (IF pos.lots = 0 THEN order ELSE o) /\ UNCHANGED <<pos, sold, free>>
        \/ pos.lots # 0 /\ \E v \in Verdicts :
              LET r == Executed(pos, o, v, day.room)
              IN  Meets(v) /\ Settle(IF r.why \in {"T+1", "capacity"}
                                     THEN [r EXCEPT !.order.model = "next_open"] ELSE r)
    BY DEF MinuteRisk, o, new
  <2> QED BY <1>6, <1>7, <2>1

LEMMA MinuteStagedKeeps ==
  ASSUME AccountInv, MinuteStaged
  PROVE  AccountInv' /\ FullExitStep
<1> USE DEF AccountInv
<1>1. /\ phase = "minutes" /\ order = NoOrder /\ pos.lots > 0
      /\ UNCHANGED <<phase, bought, watched, minute, day, verdict>>
  BY DEF MinuteStaged
<1>2. pos.lots \in Nat /\ day.room \in Nat /\ NoOrder.pct = 0 /\ ~NoOrder.old /\ Written(NoOrder)
      /\ NoOrder.model = "next_open"
  BY NoOrderFits DEF Books, Held, Holdings, Days
<1>3. PICK t \in Tiers, v \in Verdicts :
        LET p == [pos EXCEPT !.tier = t, !.broken = IF @ = "no" THEN "today" ELSE @]
            o == Order("staged", t, TRUE, "intraday")
            r == Executed(p, o, v, day.room)
            late == r.order # NoOrder /\ r.order.model = "next_open"
        IN  /\ Meets(v)
            /\ pos' = IF r.why = "filled" \/ late THEN r.pos ELSE [r.pos EXCEPT !.tier = pos.tier]
            /\ order' = IF late THEN r.order ELSE NoOrder
            /\ sold' = (sold \/ r.why = "filled")
  BY DEF MinuteStaged
<1> DEFINE p == [pos EXCEPT !.tier = t, !.broken = IF @ = "no" THEN "today" ELSE @]
           o == Order("staged", t, TRUE, "intraday")
           r == Executed(p, o, v, day.room)
<1>4. /\ Meets(v) /\ sold' = (sold \/ r.why = "filled")
      /\ pos' = r.pos \/ (r.why # "filled" /\ pos' = [r.pos EXCEPT !.tier = pos.tier])
      /\ order' = NoOrder \/ (r.order # NoOrder /\ order' = r.order /\ pos' = r.pos /\ order'.model = "next_open")
  BY <1>3
<1>5. r = Executed(p, o, v, day.room)
  OBVIOUS
<1>6. Written(o) /\ o.left = 0 /\ o # NoOrder /\ ~o.old
  <2>1. t \in 1..99
    BY AccountAssumption
  <2> QED BY <2>1, AccountAssumption DEF Written, OrderType, NoOrder, Order
<1>7. p \in Holdings /\ SameLots(pos, p)
  <2>1. t \in Nat /\ pos \in Holdings
    BY AccountAssumption DEF Books, Held
  <2>2. p \in Holdings
    BY <2>1 DEF Holdings
  <2>3. SameLots(pos, p)
    BY <2>1 DEF Holdings, SameLots
  <2> QED BY <2>2, <2>3
<1> HIDE DEF p, o, r
<1>8. Held(p) /\ p.lots > 0 /\ Fits(p, o) /\ p.today = pos.today /\ p.lots = pos.lots
  BY <1>1, <1>6, <1>7, NotedHeld, UntouchedFits DEF Books, SameLots
<1>9. /\ Held(r.pos) /\ Written(r.order) /\ Fits(r.pos, r.order)
      /\ r.pos.today = pos.today
      /\ r.why # "filled" => r.pos = p
      /\ r.order # NoOrder => r.order.old = o.old
  BY <1>2, <1>5, <1>6, <1>8, ExecutedFacts
<1>10. /\ Held(pos') /\ pos'.today = pos.today /\ Fits(pos', order')
       /\ r.why # "filled" => pos'.lots = pos.lots
  <2>1. CASE pos' = r.pos
    BY <1>4, <1>8, <1>9, <2>1, NoOrderFits
  <2>2. CASE r.why # "filled" /\ pos' = [p EXCEPT !.tier = pos.tier] /\ order' = NoOrder
    <3>1. pos' \in Holdings /\ SameLots(p, pos')
      BY <1>7, <2>2 DEF Books, Held, Holdings, SameLots
    <3> QED BY <1>8, <2>2, <3>1, NotedHeld, NoOrderFits DEF SameLots
  <2> QED BY <1>4, <1>9, <2>1, <2>2
<1>11. Written(order') /\ ~order'.old /\ order'.model = "next_open"
  BY <1>2, <1>4, <1>6, <1>9
<1>12. free' \in BOOLEAN /\ (free' => free) /\ sold' \in BOOLEAN /\ (watched.left <= pos'.lots \/ sold')
  BY <1>4, <1>10 DEF Meets, Books
<1>13. Books'
  BY <1>1, <1>10, <1>11, <1>12 DEF Books
<1>14. Clocks'
  BY <1>1, <1>11, <1>12 DEF Clocks
<1> QED
  BY <1>1, <1>2, <1>13, <1>14 DEF FullExitStep

LEMMA EndMinutesKeeps ==
  ASSUME AccountInv, EndMinutes
  PROVE  AccountInv' /\ FullExitStep
<1> USE DEF AccountInv
<1>1. /\ phase = "minutes" /\ phase' = "ladder"
      /\ UNCHANGED <<pos, bought, sold, watched, day, verdict, free>>
      /\ order' = IF minute = "clear" THEN Overnight(order) ELSE order
  BY DEF EndMinutes
<1>2. /\ Written(order') /\ Fits(pos, order') /\ order'.model # "intraday"
      /\ order'.pct = order.pct /\ order'.old = order.old
      /\ order.model # "intraday" => order' = order
  <2>1. CASE minute = "clear" /\ order.model = "intraday"
    <3>1. order' = OnClock(order, "next_open") /\ order # NoOrder
      BY <1>1, <2>1, NoOrderFits DEF Overnight, OnClock, Books
    <3>2. pos.lots \in Nat /\ pos.lots > 0
      BY <3>1 DEF Books, Fits, Held, Holdings
    <3> QED BY <2>1, <3>1, <3>2, OnClockFits DEF Books
  <2>2. CASE ~(minute = "clear" /\ order.model = "intraday")
    <3>1. order' = order /\ order.model # "intraday"
      BY <1>1, <2>2 DEF Overnight, Clocks
    <3> QED BY <3>1 DEF Books
  <2> QED BY <2>1, <2>2
<1>3. Books'
  BY <1>1, <1>2 DEF Books, Phases
<1>4. Clocks'
  BY <1>1, <1>2 DEF Clocks
<1> QED
  BY <1>2, <1>3, <1>4 DEF FullExitStep

\* What the staged exit decides for the holding at the close.
LEMMA StagedKeeps ==
  ASSUME Books, pos.lots > 0, Staged
  PROVE  /\ pos' \in Holdings /\ SameLots(pos, pos')
         /\ order' = order \/ Advice(order')
<1>1. pos \in Holdings /\ Tiers \subseteq Nat
  BY AccountAssumption DEF Books, Held
<1>2. ASSUME NEW t \in Tiers, pos' = [pos EXCEPT !.tier = t, !.broken = "today"], order' = Cut("staged", t)
      PROVE  pos' \in Holdings /\ SameLots(pos, pos') /\ Advice(order')
  <2>1. Advice(Cut("staged", t))
    BY AccountAssumption, CutAdvice
  <2> QED BY <1>1, <1>2, <2>1 DEF Holdings, SameLots
<1>3. ASSUME NEW t \in Tiers, pos' = [pos EXCEPT !.tier = t], order' = Cut("staged", t)
      PROVE  pos' \in Holdings /\ SameLots(pos, pos') /\ Advice(order')
  <2>1. Advice(Cut("staged", t))
    BY AccountAssumption, CutAdvice
  <2> QED BY <1>1, <1>3, <2>1 DEF Holdings, SameLots
<1>4. ASSUME pos' = [pos EXCEPT !.over = TRUE]
      PROVE  pos' \in Holdings /\ SameLots(pos, pos')
  BY <1>1, <1>4 DEF Holdings, SameLots
<1>5. Advice(Order("plain", 100, FALSE, IF day.data THEN "next_open" ELSE "same_day_close"))
  <2>1. CASE day.data
    BY <2>1, ClearAdvice
  <2>2. CASE ~day.data
    BY <2>2, ClearAdvice DEF Clear
  <2> QED BY <2>1, <2>2
<1> QED
  BY <1>2, <1>3, <1>4, <1>5 DEF Staged

LEMMA CloseRisksKeeps ==
  ASSUME AccountInv, CloseRisks
  PROVE  AccountInv' /\ FullExitStep
<1> USE DEF AccountInv
<1>1. /\ phase = "ladder" /\ phase' = "closing" /\ (free' => free /\ verdict' = "free") /\ free' \in BOOLEAN
      /\ UNCHANGED <<bought, sold, watched, minute, day>>
  BY DEF CloseRisks, Meets, Books
<1>2. CASE UNCHANGED <<pos, order>>
  <2>1. Books'
    BY <1>1, <1>2 DEF Books, Phases
  <2>2. Clocks'
    BY <1>1, <1>2 DEF Clocks
  <2> QED BY <1>2, <2>1, <2>2 DEF FullExitStep
<1>3. ASSUME pos.lots > 0, ~Locked(order), pos' \in Holdings, SameLots(pos, pos'),
             order' = order \/ Advice(order')
      PROVE  AccountInv' /\ FullExitStep
  <2>1. Held(pos') /\ pos'.lots = pos.lots /\ pos'.lots > 0 /\ pos'.today = pos.today
        /\ (Fits(pos, order) => Fits(pos', order))
    BY <1>3, NotedHeld DEF Books, SameLots
  <2>2. Written(order') /\ Fits(pos', order')
    BY <1>3, <2>1, AdviceFits DEF Books, Advice
  <2>3. order' = order \/ (~order'.old /\ order'.model # "intraday")
    BY <1>3 DEF Advice
  <2>4. Books'
    BY <1>1, <2>1, <2>2 DEF Books, Phases
  <2>5. Clocks'
    BY <1>1, <2>3 DEF Clocks
  <2>6. FullExitStep
    BY <1>3 DEF FullExitStep, Locked
  <2> QED BY <2>4, <2>5, <2>6
<1>4. ASSUME pos.lots > 0, ~Locked(order), NEW kept \in BOOLEAN, NEW d \in Decisions,
             d.order # NoOrder, order' = d.order, pos' = [pos EXCEPT !.inverse = @ /\ kept]
      PROVE  AccountInv' /\ FullExitStep
  <2>1. pos' \in Holdings /\ SameLots(pos, pos')
    BY <1>4 DEF Books, Held, Holdings, SameLots
  <2> QED BY <1>3, <1>4, <2>1, DecisionAdvice
<1>5. ASSUME pos.lots > 0, ~Locked(order), Staged
      PROVE  AccountInv' /\ FullExitStep
  BY <1>3, <1>5, StagedKeeps
<1> QED
  BY <1>2, <1>4, <1>5 DEF CloseRisks

LEMMA CloseExitsKeeps ==
  ASSUME AccountInv, CloseExits
  PROVE  AccountInv' /\ FullExitStep
<1> USE DEF AccountInv
<1>1. /\ phase = "closing" /\ phase' = "signals" /\ day.room \in Nat
      /\ UNCHANGED <<bought, watched, minute, day, verdict, free>>
  BY DEF CloseExits, Books, Days
<1>2. CASE order.model = "same_day_close" /\ Settle(Executed(pos, order, verdict, day.room))
  <2>1. order # NoOrder /\ pos.lots > 0
    BY <1>2, NoOrderFits DEF Books, Fits, Held, Holdings
  <2>2. /\ Held(pos') /\ Written(order') /\ Fits(pos', order') /\ pos'.today = pos.today
        /\ sold' \in BOOLEAN /\ (watched.left <= pos'.lots \/ sold')
        /\ order' # NoOrder => /\ order'.old = order.old /\ order'.pct = order.pct
                               /\ order'.model \in {"same_day_close", "next_open"}
        /\ order' = NoOrder /\ order.pct = 100 => pos'.lots <= pos.lots - Wanted(pos, order)
        /\ verdict = "free" /\ day.room >= MaxLots /\ pos.today = 0 => order' = NoOrder
    BY <1>1, <1>2, <2>1, SettleKeeps DEF Books
  <2>3. ~NoOrder.old /\ NoOrder.model = "next_open"
    BY DEF NoOrder, Order
  <2>4. Books'
    BY <1>1, <2>2 DEF Books, Phases
  <2>5. Clocks'
    BY <1>1, <2>2, <2>3 DEF Clocks, Books
  <2> QED BY <2>2, <2>4, <2>5 DEF FullExitStep
<1>3. CASE order.model # "same_day_close" /\ UNCHANGED <<pos, order, sold>>
  <2>1. Books'
    BY <1>1, <1>3 DEF Books, Phases
  <2>2. Clocks'
    BY <1>1, <1>3 DEF Clocks
  <2> QED BY <1>3, <2>1, <2>2 DEF FullExitStep
<1> QED
  BY <1>2, <1>3 DEF CloseExits

LEMMA SignalExitKeeps ==
  ASSUME AccountInv, SignalExit
  PROVE  AccountInv' /\ FullExitStep
<1> USE DEF AccountInv
<1>1. /\ phase = "signals" /\ phase' = "signals" /\ day.room \in Nat
      /\ UNCHANGED <<bought, watched, minute, day, verdict, free>>
  BY DEF SignalExit, Books, Days
<1>2. CASE UNCHANGED <<pos, order, sold>>
  <2>1. Books'
    BY <1>1, <1>2 DEF Books
  <2>2. Clocks'
    BY <1>1, <1>2 DEF Clocks
  <2> QED BY <1>2, <2>1, <2>2 DEF FullExitStep
<1>3. ASSUME pos.lots # 0, Replaceable(order), Held(pos'), Written(order'), Fits(pos', order'),
             pos'.today = pos.today, sold' \in BOOLEAN, watched.left <= pos'.lots \/ sold',
             ~order'.old, order'.model # "intraday"
      PROVE  AccountInv' /\ FullExitStep
  <2>1. Books'
    BY <1>1, <1>3 DEF Books
  <2>2. Clocks'
    BY <1>1, <1>3 DEF Clocks
  <2>3. order.pct # 100
    BY <1>3 DEF Replaceable, Books, Written, OrderType
  <2> QED BY <2>1, <2>2, <2>3 DEF FullExitStep
<1>4. ASSUME pos.lots # 0, Replaceable(order), NEW why \in {"plain", "structure"},
             order' = Order(why, 100, FALSE, "next_open"), UNCHANGED <<pos, sold>>
      PROVE  AccountInv' /\ FullExitStep
  <2> DEFINE o == Order(why, 100, FALSE, "next_open")
  <2>1. Written(o) /\ o.left = 0 /\ ~o.old /\ o.model = "next_open"
    BY FullOrderWritten DEF Order
  <2> HIDE DEF o
  <2>2. pos.lots > 0
    BY <1>4 DEF Books, Held, Holdings
  <2>3. Fits(pos, o)
    BY <2>1, <2>2, UntouchedFits DEF Books
  <2>4. order' = o
    BY <1>4 DEF o
  <2> QED BY <1>3, <1>4, <2>1, <2>3, <2>4 DEF Books
<1>5. ASSUME pos.lots # 0, Replaceable(order), NEW o, Written(o), o.left = 0, o # NoOrder, ~o.old,
             o.model = "same_day_close", Settle(Executed(pos, o, verdict, day.room))
      PROVE  AccountInv' /\ FullExitStep
  <2>1. pos.lots > 0
    BY <1>5 DEF Books, Held, Holdings
  <2>2. Fits(pos, o)
    BY <1>5, <2>1, UntouchedFits DEF Books
  <2>3. /\ Held(pos') /\ Written(order') /\ Fits(pos', order') /\ pos'.today = pos.today
        /\ sold' \in BOOLEAN /\ (watched.left <= pos'.lots \/ sold')
        /\ order' # NoOrder => /\ order'.old = o.old
                               /\ order'.model \in {"same_day_close", "next_open"}
    BY <1>1, <1>5, <2>1, <2>2, SettleKeeps
  <2>4. ~NoOrder.old /\ NoOrder.model = "next_open"
    BY DEF NoOrder, Order
  <2> QED BY <1>3, <1>5, <2>3, <2>4
<1>6. /\ Written(Clear("plain")) /\ Clear("plain").left = 0 /\ ~Clear("plain").old
      /\ Clear("plain") # NoOrder /\ Clear("plain").model = "same_day_close"
  BY FullOrderWritten DEF Order, Clear
<1>7. /\ Written(Cut("inverse", 90)) /\ Cut("inverse", 90).left = 0 /\ ~Cut("inverse", 90).old
      /\ Cut("inverse", 90) # NoOrder /\ Cut("inverse", 90).model = "same_day_close"
  BY AccountAssumption DEF Written, OrderType, Order, Cut, NoOrder
<1> QED
  <2>1. CASE pos.lots # 0 /\ Replaceable(order) /\ Settle(Executed(pos, Clear("plain"), verdict, day.room))
    BY <1>5, <1>6, <2>1
  <2>2. CASE pos.lots # 0 /\ Replaceable(order) /\ Settle(Executed(pos, Cut("inverse", 90), verdict, day.room))
    BY <1>5, <1>7, <2>2
  <2> QED BY <1>2, <1>4, <2>1, <2>2 DEF SignalExit

LEMMA StructureExitKeeps ==
  ASSUME AccountInv, StructureExit
  PROVE  AccountInv' /\ FullExitStep
<1> USE DEF AccountInv
<1>1. /\ phase = "signals" /\ phase' = "bids" /\ day.room \in Nat
      /\ watched' = NoOrder /\ verdict' = "free" /\ UNCHANGED <<bought, minute, day, free>>
  BY DEF StructureExit, Books, Days
<1>2. Written(NoOrder) /\ NoOrder.left = 0 /\ ~NoOrder.old /\ NoOrder.model = "next_open"
  BY NoOrderFits DEF Books
<1>3. CASE UNCHANGED <<pos, order, sold>>
  <2>1. watched'.left <= pos'.lots
    BY <1>1, <1>2, <1>3 DEF Books, Held, Holdings
  <2>2. Books'
    BY <1>1, <1>2, <1>3, <2>1 DEF Books, Phases
  <2>3. Clocks'
    BY <1>1, <1>3 DEF Clocks
  <2> QED BY <1>3, <2>2, <2>3 DEF FullExitStep
<1>4. CASE /\ watched # NoOrder /\ pos.lots > 0 /\ order = NoOrder /\ ~sold
           /\ Settle(Executed(pos, [watched EXCEPT !.model = "same_day_close"], verdict, day.room))
  <2> DEFINE o == OnClock(watched, "same_day_close")
  <2>1. /\ Fits(pos, watched) /\ watched.reason = "structure" /\ pos.lots \in Nat
    BY <1>4 DEF Books, Fits, Remainder, Written, Held, Holdings
  <2>2. Written(o) /\ Fits(pos, o) /\ o.reason = "structure" /\ o.model = "same_day_close"
    BY <1>4, <2>1, OnClockFits DEF Books
  <2>3. o # NoOrder /\ Settle(Executed(pos, o, verdict, day.room))
    BY <1>4, <2>2 DEF OnClock, NoOrder, Order
  <2> HIDE DEF o
  <2>4. /\ Held(pos') /\ Written(order') /\ Fits(pos', order') /\ pos'.today = pos.today
        /\ sold' \in BOOLEAN
        /\ order' # NoOrder => order'.model \in {"same_day_close", "next_open"}
        /\ verdict = "free" /\ day.room >= MaxLots /\ pos.today = 0 => order' = NoOrder
    BY <1>1, <1>4, <2>2, <2>3, SettleKeeps
  <2>5. watched'.left <= pos'.lots
    BY <1>1, <1>2, <2>4 DEF Held, Holdings
  <2>6. Books'
    BY <1>1, <1>2, <2>4, <2>5 DEF Books, Phases
  <2>7. Clocks'
    BY <1>1, <1>2, <2>4 DEF Clocks, Books
  <2>8. order.pct # 100
    BY <1>4 DEF NoOrder, Order
  <2> QED BY <2>6, <2>7, <2>8 DEF FullExitStep
<1> QED
  BY <1>3, <1>4 DEF StructureExit

LEMMA UnchangedKeeps ==
  ASSUME AccountInv, SignalLong \/ UNCHANGED vars
  PROVE  AccountInv' /\ FullExitStep
<1>1. UNCHANGED <<phase, pos, order, bought, sold, watched, minute, day, verdict, free>>
  BY DEF SignalLong, vars
<1>2. Books'
  BY <1>1 DEF AccountInv, Books
<1>3. Clocks'
  BY <1>1 DEF AccountInv, Clocks
<1> QED
  BY <1>1, <1>2, <1>3 DEF AccountInv, FullExitStep

\* The first night, without a holding.
LEMMA InitKeeps == Init => AccountInv
<1> SUFFICES ASSUME Init PROVE AccountInv
  OBVIOUS
<1>1. pos = Flat /\ order = NoOrder /\ watched = NoOrder /\ day = NoDay
  BY DEF Init
<1>2. Held(Flat) /\ Flat.lots = 0 /\ Flat.today = 0
  BY AccountAssumption DEF Held, Holdings, Flat
<1>3. Written(NoOrder) /\ Fits(Flat, NoOrder) /\ NoOrder.left = 0 /\ NoOrder.model = "next_open" /\ ~NoOrder.old
  BY <1>2, NoOrderFits
<1>4. day \in Days
  BY <1>1 DEF NoDay, Days
<1>5. Books
  <2>1. phase \in Phases /\ sold \in BOOLEAN /\ free \in BOOLEAN /\ bought = 0
    BY DEF Init, Phases
  <2>2. watched.left <= pos.lots /\ bought = pos.today
    BY <1>1, <1>2, <1>3, <2>1
  <2> QED BY <1>1, <1>2, <1>3, <1>4, <2>1, <2>2 DEF Books
<1> QED
  BY <1>1, <1>3, <1>5 DEF AccountInv, Clocks, Init

LEMMA StepKeeps == AccountInv /\ [Next]_vars => AccountInv' /\ FullExitStep
<1> SUFFICES ASSUME AccountInv, [Next]_vars PROVE AccountInv' /\ FullExitStep
  OBVIOUS
<1>1. CASE OpenDay
  BY <1>1, OpenDayKeeps
<1>2. CASE CloseEligibility
  BY <1>2, CloseEligibilityKeeps
<1>3. CASE OpenExits
  BY <1>3, OpenExitsKeeps
<1>4. CASE OpenEntry
  BY <1>4, OpenEntryKeeps
<1>5. CASE MinuteEntry
  BY <1>5, MinuteEntryKeeps
<1>6. CASE MinuteRisk
  BY <1>6, MinuteRiskKeeps
<1>7. CASE MinuteStaged
  BY <1>7, MinuteStagedKeeps
<1>8. CASE EndMinutes
  BY <1>8, EndMinutesKeeps
<1>9. CASE CloseRisks
  BY <1>9, CloseRisksKeeps
<1>10. CASE CloseExits
  BY <1>10, CloseExitsKeeps
<1>11. CASE SignalLong \/ UNCHANGED vars
  BY <1>11, UnchangedKeeps
<1>12. CASE SignalExit
  BY <1>12, SignalExitKeeps
<1>13. CASE StructureExit
  BY <1>13, StructureExitKeeps
<1>14. CASE CloseEntry
  BY <1>14, CloseEntryKeeps
<1> QED
  BY <1>1, <1>2, <1>3, <1>4, <1>5, <1>6, <1>7, <1>8, <1>9, <1>10, <1>11, <1>12, <1>13, <1>14 DEF Next

-----------------------------------------------------------------------------
(* The theorems. *)

\* portfolio_days() keeps its books and its clocks through every day.
THEOREM AccountInvariant == Spec => []AccountInv
BY InitKeeps, StepKeeps, PTL DEF Spec

\* Every order is for a holding, of no more lots than it has, on a clock of the program.
THEOREM AccountTyped == Spec => []AccountTypeOK
<1>1. AccountInv => AccountTypeOK
  BY AccountAssumption DEF AccountInv, Books, Held, Holdings, Written, Fits, AccountTypeOK
<1> QED
  BY <1>1, AccountInvariant, PTL

\* T+1 (execute_exit): the lots bought today are still held tonight, whatever was sold.
THEOREM TodayIsHeld == Spec => []SettledBeforeSold
<1>1. AccountInv => SettledBeforeSold
  BY DEF AccountInv, Books, Held, Holdings, SettledBeforeSold
<1> QED
  BY <1>1, AccountInvariant, PTL

\* A holding sells no more than the largest share an executed order asked for, however
\* often its reductions were cut short, put off and tried again.
THEOREM ReductionsAreCumulative == Spec => []SoldWithinTarget
<1>1. AccountInv => SoldWithinTarget
  BY DEF AccountInv, Books, Held, SoldWithinTarget
<1> QED
  BY <1>1, AccountInvariant, PTL

\* After a day of free markets without purchases nothing of the morning is still pending.
THEOREM FreeDayEndsClear == Spec => []FreeDayClears
<1>1. AccountInv => FreeDayClears
  BY DEF AccountInv, Clocks, FreeDayClears
<1> QED
  BY <1>1, AccountInvariant, PTL

\* A pending full exit sells what it asks for, stays, or waits for the close's confirmation.
THEOREM FullExitIsNotWeakened == Spec => FullExitStands
<1>1. Spec => [][FullExitStep]_vars
  BY AccountInvariant, StepKeeps, PTL DEF Spec
<1> QED
  BY <1>1 DEF FullExitStands, FullExitStep
=============================================================================
