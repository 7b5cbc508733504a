--------------------------- MODULE TrendLifecycle ---------------------------
(***************************************************************************)
(* The life cycle of one trend path of one level (domain/market_structure/ *)
(* trend_lifecycle.py): flip, alternation and confirmation, upwards and    *)
(* downwards, fed one market day after the other with the vertices and the *)
(* observations the geometry knows that day, which it may later revise.    *)
(* The numbers behind a volume, gap or N confirmation are abstracted to    *)
(* whether there is one; prices are small integers.                        *)
(***************************************************************************)
EXTENDS Integers, FiniteSets, SequencesExt

CONSTANTS
  LastDay,      \* the market days are 0..LastDay
  Courses,      \* the courses the market may take: sequences of bars
  Lag,          \* a vertex is confirmed at most this many days after its bar
  MaxLowerLows, \* lower lows in a row that a recovery survives (3 in the code)
  MaxRevisions  \* bound: vertices taken back, or added as a second one of their day

ASSUME TrendAssumption ==
  /\ LastDay \in Nat /\ Lag \in Nat /\ MaxLowerLows \in Nat /\ MaxRevisions \in Nat
  /\ Courses \subseteq [1..(LastDay + 1) -> [low : Int, high : Int, close : Int]]

VARIABLES
  now,          \* the market day, _last_index
  bars,         \* bars[d + 1] is the bar of day d
  points,       \* the confirmed vertices of the path, in order
  facts,        \* the observations attached to them
  present,      \* the path is still drawn
  revisions,
  phase,        \* "night", "geometry" or "close"
  cycle,        \* _cycles[key]
  seen,         \* _seen[key]
  recovery,     \* _bull_recovery[key]
  bearBreaks    \* _bear_breaks[key]

marketVars == <<now, bars, points, facts, present, revisions>>
lifecycleVars == <<cycle, seen, recovery, bearBreaks>>

Never == -1
NoPivot == [index |-> Never, kind |-> "none", price |-> 0, known |-> Never]
NoFact == [title |-> "none", point |-> NoPivot, known |-> Never,
           origin |-> NoPivot, impulse |-> NoPivot, broken |-> NoPivot]
NoGap == [index |-> Never, lower |-> 0]
NoCycle == [state |-> "none"]
NoRecovery == [seed |-> NoFact, breach |-> Never, lower |-> 0, recovered |-> Never]

Bar(d) == bars[d + 1]
Today == Bar(now)
Yesterday == Bar(now - 1)

\* Some bar after the vertex went strictly beyond its price.
Broken(p) ==
  \E d \in (p.index + 1)..now :
     IF p.kind = "L" THEN Bar(d).low < p.price ELSE Bar(d).high > p.price

Beyond(up, x, y) == IF up THEN x > y ELSE x < y
IsUp(c) == c.state \in {"BULL_FLIP", "BULL_ALTERNATION", "BULL_CONFIRMED"}
FlipState(up) == IF up THEN "BULL_FLIP" ELSE "BEAR_FLIP"
AlternationState(up) == IF up THEN "BULL_ALTERNATION" ELSE "BEAR_ALTERNATION"
ConfirmedState(up) == IF up THEN "BULL_CONFIRMED" ELSE "BEAR_CONFIRMED"
FlipTitle(up) == IF up THEN "BullFlip" ELSE "BearFlip"
FlipConfirmed(c) == c.recovery \/ \E f \in c.evidence : f.title = FlipTitle(IsUp(c))

Event(kind, c, f, reason) ==
  [kind |-> kind, cycle |-> c, fact |-> f, reason |-> reason, known |-> f.known, replaces |-> Never]

-----------------------------------------------------------------------------
(* The geometry of the day (external to this module's code): vertices are    *)
(* confirmed one by one, high and low in turn; the last one may be extended, *)
(* withdrawn or lose its observation, and the path may end.                  *)

Vertex(kind, d) ==
  [index |-> d, kind |-> kind, known |-> now,
   price |-> IF kind = "H" THEN Bar(d).high ELSE Bar(d).low]

\* The vertex with the clock the geometry gives it, at the latest today: a path that is
\* drawn anew may bring back a vertex that became known earlier.
ClockedVertices(kind, d, from) == {[Vertex(kind, d) EXCEPT !.known = k] : k \in (d + 1)..now \cap from..now}

Extreme(v, from) ==
  \A d \in from..(now - 1) : ~Beyond(v.kind = "H", Vertex(v.kind, d).price, v.price)

\* A high that breaks the high before a low flips the path up from that low, and
\* a low above the low before a high alternates; mirrored for the other side.
Observations(path, v) ==
  LET up == v.kind = "H"
      origins == {k \in DOMAIN path :
                    /\ path[k].kind # v.kind
                    /\ k > 1 => Beyond(up, v.price, path[k-1].price)
                    /\ \A j \in k..Len(path) :
                          path[j].kind # v.kind => ~Beyond(~up, path[j].price, path[k].price)}
      flip(k) == [title |-> FlipTitle(up), point |-> v, known |-> v.known, origin |-> path[k],
                  impulse |-> NoPivot, broken |-> IF k > 1 THEN path[k-1] ELSE NoPivot]
      alternation == [NoFact EXCEPT
                        !.title = IF up THEN "BearAlternation" ELSE "BullAlternation",
                        !.point = v, !.known = v.known, !.impulse = Last(path)]
  IN  {flip(k) : k \in origins}
        \cup (IF Len(path) > 1 /\ Beyond(~up, v.price, path[Len(path)-1].price)
              THEN {alternation} ELSE {})

\* The path becomes the given one followed by a newly drawn vertex.
Draw(path, v) ==
  /\ points' = Append(path, v)
  /\ \E fs \in SUBSET Observations(path, v) :
        /\ \A f, g \in fs : f.title = g.title => f = g
        /\ facts' = {g \in facts : g.point \in ToSet(path)} \cup fs
  /\ UNCHANGED present

\* The vertices that may follow a path: not before its last one, in time and in knowledge.
Candidates(kind, path, from) ==
  LET known == IF path = <<>> THEN 0 ELSE Last(path).known
  IN  {v \in UNION {ClockedVertices(kind, d, known) : d \in from..(now - 1)} :
         v.index >= now - Lag /\ Extreme(v, from)}

ConfirmVertex ==
  /\ \E kind \in {"H", "L"} :
     \E v \in Candidates(kind, points, IF points = <<>> THEN 0 ELSE Last(points).index + 1) :
        /\ points # <<>> => Last(points).kind # kind /\ Beyond(kind = "H", v.price, Last(points).price)
        /\ Draw(points, v)

Revise == revisions < MaxRevisions /\ revisions' = revisions + 1

ExtendVertex ==
  /\ points # <<>> /\ Revise
  /\ \E v \in Candidates(Last(points).kind, Front(points), Last(points).index + 1) :
        /\ Beyond(v.kind = "H", v.price, Last(points).price)
        /\ Draw(Front(points), v)

WithdrawVertex ==
  /\ points # <<>> /\ Revise
  /\ points' = Front(points)
  /\ facts' = {f \in facts : f.point # Last(points)}
  /\ UNCHANGED present

WithdrawObservation ==
  /\ \E f \in facts : facts' = facts \ {f}
  /\ Revise
  /\ UNCHANGED <<points, present>>

EndPath ==
  /\ Revise
  /\ present' = FALSE
  /\ UNCHANGED <<points, facts>>

KeepGeometry == UNCHANGED <<points, facts, present, revisions>>

MarketDay ==
  /\ phase = "night" /\ now < LastDay /\ present
  /\ phase' = "geometry"
  /\ now' = now + 1
  /\ \E course \in Courses : /\ SubSeq(course, 1, Len(bars)) = bars
                               /\ bars' = Append(bars, course[Len(bars) + 1])
  /\ UNCHANGED <<points, facts, present, revisions>>

Redraw ==
  /\ phase = "geometry"
  /\ \/ ConfirmVertex /\ Revise /\ UNCHANGED phase
     \/ ConfirmVertex /\ phase' = "close" /\ UNCHANGED revisions
     \/ /\ ExtendVertex \/ WithdrawVertex \/ WithdrawObservation \/ EndPath \/ KeepGeometry
        /\ phase' = "close"
  /\ UNCHANGED <<now, bars>>

-----------------------------------------------------------------------------
(* The steps of advance() for a path that is drawn, in order.  A book holds  *)
(* the cycle, the recovery and the events of the day so far.                 *)

Emit(s, e) == [s EXCEPT !.events = Append(@, e)]
Become(s, kind, c, f) == Emit([s EXCEPT !.cycle = c], Event(kind, c, f, "none"))
Invalidate(s, reason) ==
  Emit([s EXCEPT !.cycle = NoCycle], Event("invalidated", s.cycle, NoFact, reason))

KeptStructure(c) == IF c.recovery THEN SubSeq(c.structure, 1, 3) ELSE <<>>

\* The gap that confirmed the alternation is filled: the confirmation is revoked and
\* the flip goes on (_expire_confirmation_gap).
ExpireGap(s) ==
  LET c == s.cycle IN
  IF c = NoCycle \/ c.gap = NoGap \/ now <= c.gap.index \/ Today.low > c.gap.lower THEN s
  ELSE [s EXCEPT
         !.events = Append(@, Event("revoked", c, NoFact, "confirmation_gap_filled")),
         !.cycle = [c EXCEPT !.state = "BULL_FLIP", !.counter = NoPivot, !.alternated = Never,
                             !.source = {}, !.gap = NoGap, !.structure = KeptStructure(c)]]

Stands(c) == c.evidence \subseteq facts /\ ToSet(c.structure) \subseteq ToSet(points)

\* The high of a special flip moved up and right on the same leg.
Extension(c) ==
  {k \in 1..(Len(points) - 2) :
     /\ points[k] = c.structure[1] /\ points[k+1] = c.structure[2]
     /\ points[k+2].kind = "H"
     /\ points[k+2].index >= c.structure[3].index
     /\ points[k+2].price >= c.structure[3].price
     /\ points[k+2].known >= c.structure[3].known}

ContinueImpulse(s) ==
  LET c == s.cycle IN
  IF \/ c = NoCycle
     \/ ~(c.evidence \subseteq facts) \/ ToSet(c.structure) \subseteq ToSet(points)
     \/ ~c.recovery \/ c.alternated # Never \/ Len(c.structure) # 3
     \/ Extension(c) = {} THEN s
  ELSE LET k == CHOOSE k \in Extension(c) : TRUE
       IN  Become(s, "anchor", [c EXCEPT !.impulse = points[k+2],
                                         !.structure = SubSeq(points, k, k + 2)], NoFact)

\* What the state rests on is no longer drawn; the polyline vertices of the confirmation
\* are checked too.
CheckEvidence(s, polylineRevised) ==
  LET c == s.cycle IN
  IF c # NoCycle /\ (~Stands(c) \/ (polylineRevised /\ c.source # {}))
  THEN Invalidate(s, "source_evidence_revised") ELSE s

CheckSeed(s) == IF s.recovery.seed \in facts THEN s ELSE [s EXCEPT !.recovery = NoRecovery]

\* A fall below the last rising low known before the attack (confirmed_bear_key_break).
KeyBroken(origin, attack, f) ==
  /\ f.title = "BearFlip" /\ f.broken # NoPivot
  /\ f.broken.index < origin.index /\ origin.index < attack.index
  /\ f.broken.known < attack.index
  /\ attack.known <= f.known
  /\ attack.price < f.broken.price

StartRecovery(s, f) ==
  IF /\ f.title = "BullFlip"
     /\ s.recovery.breach = Never
     /\ ~(s.cycle # NoCycle /\ s.cycle.recovery /\ s.cycle.alternated = Never)
  THEN [s EXCEPT !.recovery = [NoRecovery EXCEPT !.seed = f]] ELSE s

NewCycle(up, origin, impulse, evidence) ==
  [state |-> FlipState(up), origin |-> origin, started |-> now, impulse |-> impulse,
   counter |-> NoPivot, alternated |-> Never, evidence |-> evidence, recovery |-> FALSE,
   structure |-> <<>>, source |-> {}, gap |-> NoGap, closed |-> Never]

Flip(s, f, up) ==
  LET c == s.cycle IN
  IF c = NoCycle THEN Become(s, "state", NewCycle(up, f.origin, f.point, {f}), f)
  ELSE IF IsUp(c) # up THEN Become(s, "state", NewCycle(up, f.origin, f.point, {f}), f)
  ELSE IF /\ c.state = FlipState(up)
          /\ Beyond(up, f.point.price, c.impulse.price)
          /\ f.point.index > c.impulse.index
       THEN Become(s, "anchor", [c EXCEPT !.impulse = f.point, !.evidence = @ \cup {f}], f)
  ELSE s

Alternate(s, f, up) ==
  LET c == s.cycle
      accepts == /\ c # NoCycle
                 /\ IsUp(c) = up
                 /\ c.state = FlipState(up) \/ (up /\ c.gap # NoGap)
                 /\ FlipConfirmed(c)
                 /\ \/ /\ f.impulse.index = c.impulse.index /\ f.impulse.price = c.impulse.price
                    \/ /\ Beyond(up, f.impulse.price, c.impulse.price)
                       /\ f.impulse.index > c.impulse.index
                       /\ f.impulse.known >= c.impulse.known
                 /\ f.point.index > f.impulse.index
                 /\ f.known >= f.impulse.known
                 /\ f.known > c.closed
      next == [c EXCEPT !.state = AlternationState(up), !.impulse = f.impulse,
                        !.counter = f.point, !.alternated = now, !.evidence = @ \cup {f},
                        !.gap = NoGap, !.source = {}, !.closed = Never]
  IN  IF accepts
      THEN Emit([s EXCEPT !.cycle = next],
                [Event("state", next, f, "none") EXCEPT !.replaces = c.gap.index])
      ELSE s

\* Fault: a rise gets through while the recovery is under way.
ConsumeRises(s, f) ==
  LET up == f.title \in {"BullFlip", "BullAlternation"}
      withheld == s.cycle # NoCycle /\ s.cycle.recovery /\ s.cycle.alternated = Never
      open == IF withheld THEN [s EXCEPT !.recovery = NoRecovery] ELSE s
  IN  IF withheld /\ ~KeyBroken(f.origin, f.point, f) THEN s
      ELSE IF f.title = FlipTitle(up) THEN Flip(open, f, up) ELSE Alternate(open, f, up)

\* _consume: while a recovery is under way only a proven fall gets through.
Consume(s, f) ==
  LET up == f.title \in {"BullFlip", "BullAlternation"}
      withheld == \/ up /\ s.recovery.breach # Never
                  \/ s.cycle # NoCycle /\ s.cycle.recovery /\ s.cycle.alternated = Never
      open == IF withheld THEN [s EXCEPT !.recovery = NoRecovery] ELSE s
  IN  IF withheld /\ ~KeyBroken(f.origin, f.point, f) THEN s
      ELSE IF f.title = FlipTitle(up) THEN Flip(open, f, up) ELSE Alternate(open, f, up)

\* In the order they became known, then of their vertices, flips before alternations.
Before(f, g) ==
  \/ f.known < g.known
  \/ f.known = g.known /\ f.point.index < g.point.index
  \/ f.known = g.known /\ f.point.index = g.point.index
       /\ f.title \in {"BullFlip", "BearFlip"} /\ g.title \notin {"BullFlip", "BearFlip"}

\* The new observations, in such an order.
NewFacts == {new \in SetToSeqs(facts \ seen) :
               \A i, j \in DOMAIN new : i < j => ~Before(new[j], new[i])}

ConsumeFacts(s, new) == FoldLeft(LAMBDA t, f : Consume(StartRecovery(t, f), f), s, new)

\* advance_bull_recovery: too many lower lows in a row end it, a close above the low
\* recovers it.
Recovered(r) ==
  LET breach == IF r.breach = Never THEN now ELSE r.breach
      lower == IF Today.low < Yesterday.low THEN r.lower + 1 ELSE 0
      low == r.seed.origin.price
  IN  IF now <= r.seed.known \/ (r.breach = Never /\ Today.low >= low) THEN r
      ELSE IF lower > MaxLowerLows THEN NoRecovery
      ELSE [r EXCEPT !.breach = breach, !.lower = lower,
                     !.recovered = CASE Today.close < low -> Never
                                     [] Today.close > low /\ @ = Never -> now
                                     [] OTHER -> @]

\* High, low and higher high of the path after the recovery, the low not broken since.
SpecialFlips(r) ==
  {k \in 1..(Len(points) - 2) :
     LET key == points[k]  origin == points[k+1]  impulse == points[k+2]
     IN  /\ key.kind = "H"
         /\ origin.index >= r.breach /\ impulse.index >= r.recovered
         /\ key.known < impulse.index
         /\ impulse.price > key.price
         /\ ~Broken(origin)}

AdvanceRecovery(s) ==
  LET r == Recovered(s.recovery)
      fell == s.recovery.breach = Never /\ r.breach # Never
      s1 == [s EXCEPT !.recovery = r]
      s2 == IF fell
            THEN Emit([s1 EXCEPT !.cycle = IF @ # NoCycle /\ IsUp(@) THEN NoCycle ELSE @],
                      Event("invalidated", NoCycle, NoFact, "bull_recovery_pending"))
            ELSE s1
      k == CHOOSE i \in SpecialFlips(r) : \A j \in SpecialFlips(r) : i <= j
      c == [NewCycle(TRUE, points[k+1], points[k+2], {r.seed}) EXCEPT
              !.recovery = TRUE, !.structure = SubSeq(points, k, k + 2)]
  IN  IF s.recovery = NoRecovery THEN s
      ELSE IF r.recovered # Never /\ SpecialFlips(r) # {}
      THEN Become([s2 EXCEPT !.recovery = NoRecovery], "state", c, NoFact)
      ELSE s2

NeedsConfirmation(c) ==
  /\ c # NoCycle /\ IsUp(c)
  /\ FlipConfirmed(c)
  /\ c.alternated = Never \/ c.gap # NoGap \/ c.closed # Never

\* The last falling high the flip broke: that of the special structure, or of the first
\* flip from this origin.
KeyOf(c) ==
  LET flips == {f \in c.evidence : f.title = "BullFlip" /\ f.origin = c.origin /\ f.broken # NoPivot}
  IN  IF c.recovery THEN c.structure[1]
      ELSE IF flips = {} THEN NoPivot
      ELSE (CHOOSE f \in flips : \A g \in flips : f.known <= g.known).broken

NoProof == [low |-> NoPivot, trend |-> <<>>, source |-> {}, known |-> Never, gap |-> NoGap]

\* A pullback of the path that held and did not give back two thirds of the rise, or was
\* followed by a higher high.
OrdinaryProofs(c) ==
  LET lows == {k \in DOMAIN points : /\ points[k].kind = "L" /\ points[k].index > c.impulse.index
                                     /\ points[k].known > c.closed}
      k == CHOOSE i \in lows : \A j \in lows :
             points[i].price < points[j].price \/ (points[i].price = points[j].price /\ i <= j)
      low == points[k]
      highs == {j \in DOMAIN points : /\ points[j].kind = "H" /\ points[j].index > low.index
                                      /\ points[j].price > c.impulse.price}
      high == points[CHOOSE j \in highs : \A i \in highs : j <= i]
      shallow == 3 * (c.impulse.price - low.price) < 2 * (c.impulse.price - c.origin.price)
      sound == lows # {} /\ ~Broken(low) /\ c.origin.price < low.price /\ low.price < c.impulse.price
  IN  CASE sound /\ shallow ->
             {[NoProof EXCEPT !.low = low, !.trend = <<low>>, !.known = low.known]}
        [] sound /\ ~shallow /\ highs # {} ->
             {p \in {[NoProof EXCEPT !.low = low, !.trend = <<low, high>>, !.known = high.known]} :
                p.known > c.closed}
        [] OTHER -> {}

\* The gap of today above the bar of yesterday, or above its body: bars have no open, so the
\* body may end anywhere from the close to the high. One is taken only once, or after the
\* search began anew.
PolylineGaps(c) ==
  {[index |-> now, lower |-> p] :
     p \in {q \in Yesterday.close..Yesterday.high :
            Today.close > q /\ (c.gap = NoGap \/ c.closed # Never)}}

\* The polyline lows of the pullback.
PolylineLows(c) ==
  {v \in {Vertex("L", d) : d \in (c.impulse.index + 1)..(now - 1)} :
     /\ Extreme(v, c.impulse.index + 1)
     /\ ~Broken(v) /\ c.origin.price < v.price /\ v.price < c.impulse.price}

DayProof(v, g) == [NoProof EXCEPT !.low = v, !.source = {v}, !.known = now, !.gap = g]

\* A confirmation by volume, by a gap or by an N on the polyline, on this very day.
PolylineProofs(c) ==
  {DayProof(v, g) : v \in PolylineLows(c), g \in {NoGap} \cup PolylineGaps(c)}

\* The proofs confirm_bull_alternation may give; whether it gives one depends on numbers
\* that are not modelled.
Proofs(c) ==
  {NoProof} \cup (IF Broken(c.origin) \/ c.closed >= now THEN {}
                  ELSE OrdinaryProofs(c) \cup PolylineProofs(c))

AdvanceAlternation(s) ==
  LET c == s.cycle
      key == KeyOf(c)
      drawn == /\ key # NoPivot
               /\ key.index < c.origin.index /\ c.origin.index < c.impulse.index
               /\ {key, c.origin, c.impulse} \subseteq ToSet(points)
      next(p) == [c EXCEPT !.state = "BULL_ALTERNATION", !.counter = p.low, !.alternated = now,
                           !.structure = <<key, c.origin, c.impulse>> \o p.trend,
                           !.source = p.source, !.gap = p.gap, !.closed = Never]
      alternated(p) == Emit([s EXCEPT !.cycle = next(p)],
                            [Event("state", next(p), NoFact, "none") EXCEPT
                               !.known = p.known, !.replaces = c.gap.index])
  IN  IF ~NeedsConfirmation(c) THEN {s}
      ELSE IF c.recovery /\ Broken(c.origin) THEN {Invalidate(s, "special_bull_origin_broken")}
      ELSE IF ~drawn THEN {s}
      ELSE {IF p = NoProof THEN s ELSE alternated(p) : p \in Proofs(c)}

\* Fault: the defence stays with the origin after the alternation.
DefenceAtOrigin(c) == c.origin

\* The low or high whose break ends the cycle.
Defence(c) == IF c.counter # NoPivot THEN c.counter ELSE c.origin

\* The price breaks the defence of the cycle, or crosses the attack after an alternation.
Price(s) ==
  LET c == s.cycle
      up == IsUp(c)
      adverse == IF up THEN Today.low ELSE Today.high
      defence == Defence(c)
      flips == {f \in c.evidence : f.title = FlipTitle(up)}
      again == [c EXCEPT !.state = FlipState(up), !.counter = NoPivot, !.alternated = Never,
                         !.evidence = IF c.recovery THEN @ ELSE flips,
                         !.structure = KeptStructure(c), !.source = {}, !.gap = NoGap]
      crossed == /\ c.alternated # Never /\ now > c.alternated
                 /\ ~Beyond(up, Yesterday.close, c.impulse.price)
                 /\ Beyond(up, Today.close, c.impulse.price)
  IN  IF c = NoCycle THEN s
      ELSE IF Beyond(~up, adverse, defence.price)
      THEN LET lost == Invalidate(s, "defense_broken")
           IN  IF /\ c.counter # NoPivot
                  /\ ~Beyond(~up, adverse, c.origin.price)
                  /\ flips # {} \/ c.recovery
               THEN Become(lost, "anchor", again, NoFact) ELSE lost
      ELSE IF c.state # ConfirmedState(up) /\ crossed
      THEN Become(s, "state", [c EXCEPT !.state = ConfirmedState(up)], NoFact)
      ELSE s

\* The structure low after a proven bear flip: flip low, rebound high, key low. Rebounds
\* that only a wick takes above the flip's origin are left out.
BearKeys ==
  {k \in 1..(Len(points) - 2) :
     \E f \in facts :
        /\ f.title = "BearFlip" /\ f.broken # NoPivot
        /\ \A g \in facts : g.title = "BearFlip" => g.known <= f.known
        /\ points[k] = f.point /\ f.origin \in ToSet(points)
        /\ f.known < points[k+1].index
        /\ points[k+1].price <= f.origin.price}

\* It is broken today for the first time since yesterday, the rebound still unbroken
\* (_BearStructureCandidate.observe); each structure is reported once.
BreakStructure(s) ==
  LET broken == {k \in BearKeys : /\ points[k+2].known < now
                                  /\ Today.low < points[k+2].price
                                  /\ points[k+2].price <= Yesterday.low
                                  /\ ~Broken(points[k+1])
                                  /\ <<points[k].index, points[k+1].index, points[k+2].index>> \notin bearBreaks}
  IN  IF broken = {} THEN s
      ELSE [Emit(s, Event("bear_break", NoCycle, NoFact, "none")) EXCEPT
              !.breaks = @ \cup {<<points[k].index, points[k+1].index, points[k+2].index>> : k \in broken}]

\* A completed ordinary alternation uses its flip up as the seed of a recovery.
SpendSeed(s) ==
  IF /\ s.recovery.breach = Never
     /\ s.cycle # NoCycle /\ IsUp(s.cycle) /\ s.cycle.alternated # Never
  THEN [s EXCEPT !.recovery = NoRecovery] ELSE s

\* advance() of a path that is drawn: the books the day may end with.
Advanced(polylineRevised) ==
  LET today == [cycle |-> cycle, recovery |-> recovery, breaks |-> bearBreaks, events |-> <<>>]
      checked == CheckSeed(CheckEvidence(ContinueImpulse(ExpireGap(today)), polylineRevised))
  IN  {SpendSeed(BreakStructure(Price(s))) :
         s \in UNION {AdvanceAlternation(AdvanceRecovery(ConsumeFacts(checked, new))) : new \in NewFacts}}

\* Fault: the search goes on with what it knew.
ResumeKnowing(c) == c

\* resume_qualification_search: the search for a confirmation starts again.
ResumeSearch(c) ==
  IF c # NoCycle /\ IsUp(c) /\ Today.low >= c.origin.price THEN [c EXCEPT !.closed = now] ELSE c
=============================================================================
