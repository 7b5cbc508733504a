------------------------ MODULE TradingEligibility ------------------------
(***************************************************************************)
(* The trading windows of one path (domain/strategies/trading_intervals.py)*)
(* and the gate a broken rise closes (same_level_recovery.py), fed every   *)
(* day with the events of the life cycle, as MarketCalculations does:      *)
(* life cycle, gate, windows, and the search of the next day.              *)
(***************************************************************************)
EXTENDS TrendLifecycle

VARIABLES
  windows,   \* _intervals; the last one is open while it has no end
  barrier,   \* _blocked[path]
  released   \* _released[path]

vars == <<marketVars, phase, lifecycleVars, windows, barrier, released>>

NoBarrier == [high |-> NoPivot, low |-> NoPivot, breach |-> Never]
NoKeys == [low |-> NoPivot, high |-> NoPivot, decline |-> NoPivot]

IsOpen(ws) == ws # <<>> /\ Last(ws).end = Never
Open == IsOpen(windows)

Init ==
  /\ now = Never /\ bars = <<>> /\ points = <<>> /\ facts = {} /\ present = TRUE
  /\ revisions = 0 /\ phase = "night"
  /\ cycle = NoCycle /\ seen = {} /\ recovery = NoRecovery /\ bearBreaks = {}
  /\ windows = <<>> /\ barrier = NoBarrier /\ released = Never

-----------------------------------------------------------------------------
(* A book of the day: windows, gate, release, and whether a window closed.   *)

Closed(b, reason) ==
  IF ~IsOpen(b.windows) THEN b
  ELSE [b EXCEPT !.windows[Len(b.windows)].end = now,
                 !.windows[Len(b.windows)].reason = reason, !.closed = TRUE]

\* The origin of the whole wave the high completed, if its flips agree on one (_flip_origin).
WaveOrigins(high) ==
  {f.origin : f \in {g \in facts :
     /\ g.title = "BullFlip" /\ g.point = high /\ g.broken # NoPivot
     /\ g.broken.index < g.origin.index /\ g.origin.index < high.index
     /\ g.broken.known < high.index
     /\ g.origin.price < g.broken.price /\ g.broken.price < high.price
     /\ {g.origin, g.broken} \subseteq ToSet(points)}}

\* The last rise of the path and the low that undercut it since (_keys); whether the wave
\* of the high counts as completed is for the geometry to say.
Keys(completed) ==
  LET highs == {k \in 2..Len(points) : points[k].kind = "H"}
      k == CHOOSE i \in highs : \A j \in highs : j <= i
      low == IF Cardinality(WaveOrigins(points[k])) = 1
             THEN CHOOSE p \in WaveOrigins(points[k]) : TRUE ELSE points[k-1]
      undercut == completed /\ k < Len(points) /\ points[k+1].price < low.price
  IN  IF highs = {} THEN NoKeys
      ELSE [low |-> low, high |-> points[k],
            decline |-> IF undercut THEN points[k+1] ELSE NoPivot]

\* advance_recovery, before the events of the day: the gate is opened by a high above its
\* own, follows a later fall, or is closed by the break of the last rise.
Gate(b, keys) ==
  LET cleared == /\ now > b.barrier.breach /\ now > b.barrier.high.known
                 /\ Today.high > b.barrier.high.price
      follows == /\ keys.decline # NoPivot /\ keys.low.known < now
                 /\ keys.high.index > b.barrier.high.index
                 /\ keys.high.index > b.barrier.breach
      breaks == /\ keys # NoKeys /\ keys.low.known < now
                /\ Today.low < keys.low.price
                /\ ~Broken(keys.high)
      shut(breach) == [Closed(b, "last_rise_low_broken") EXCEPT
                         !.barrier = [high |-> keys.high, low |-> keys.low, breach |-> breach],
                         !.released = Never]
  IN  IF b.barrier # NoBarrier
      THEN CASE cleared -> [b EXCEPT !.barrier = NoBarrier, !.released = now]
             [] ~cleared /\ follows -> shut(b.barrier.breach)
             [] OTHER -> b
      ELSE IF breaks THEN shut(now) ELSE b

Ending == {"source_evidence_revised", "source_path_ended", "bull_recovery_pending",
           "special_bull_origin_broken"}

\* Why an event ends the open window w, "none" if it does not.
EndReason(e, w) ==
  CASE e.kind \in {"state", "anchor"} /\ e.cycle.state = "BEAR_FLIP"
       /\ KeyBroken(e.cycle.origin, e.cycle.impulse, e.fact) -> "last_rise_low_broken"
    [] e.kind = "bear_break" -> "bear_trend_confirmed"
    [] e.kind = "state" /\ e.cycle.state = "BEAR_CONFIRMED" -> "bear_trend_confirmed"
    [] e.kind = "revoked" /\ ~w.replaced /\ now > w.start /\ e.cycle.gap = w.gap
       /\ w.gap.index = w.start -> "gap_filled"
    [] e.kind = "source_bear" -> "source_bear_confirmed"
    [] e.kind = "invalidated" /\ e.reason \in Ending -> e.reason
    [] e.kind = "state" /\ e.cycle.state = "BEAR_ALTERNATION" -> "bear_alternation"
    [] OTHER -> "none"

\* Fault: an opened gate lets an older flip through.
PermitsOlder(b, e) == b.barrier = NoBarrier

\* Nothing is opened below a closed gate, nor by a flip from before it was opened.
Permits(b, e) ==
  /\ b.barrier = NoBarrier
  /\ b.released # Never => e.cycle.impulse.index >= b.released

NewWindow(e) ==
  [start |-> now, started |-> e.cycle.started, flip |-> e.cycle.impulse.index,
   low |-> e.cycle.counter.index, known |-> e.known, gap |-> e.cycle.gap,
   replaced |-> FALSE, end |-> Never, reason |-> "none"]

\* TradingEligibility.observe.
Observe(b, e) ==
  LET opens == e.kind = "state" /\ e.cycle.state = "BULL_ALTERNATION"
               /\ FlipConfirmed(e.cycle) /\ Permits(b, e)
      w == Last(b.windows)
      forgotten == IF e.kind = "invalidated" /\ e.reason = "source_path_ended"
                   THEN [b EXCEPT !.barrier = NoBarrier, !.released = Never] ELSE b
  IN  IF ~IsOpen(b.windows)
      THEN IF opens THEN [b EXCEPT !.windows = Append(@, NewWindow(e))] ELSE forgotten
      ELSE IF EndReason(e, w) # "none" THEN Closed(forgotten, EndReason(e, w))
      ELSE IF opens /\ w.gap # NoGap /\ e.replaces = w.gap.index /\ e.cycle.gap = NoGap
      THEN [b EXCEPT !.windows[Len(b.windows)].replaced = TRUE]
      ELSE b

\* close_on_confirmation_gap_fill: the gap is filled although no cycle holds it any more.
FillGap(b) ==
  IF IsOpen(b.windows) /\ LET w == Last(b.windows)
                          IN  /\ w.gap # NoGap /\ ~w.replaced /\ now > w.start
                              /\ Today.low <= w.gap.lower
  THEN Closed(b, "gap_filled") ELSE b

\* close_on_reversal_low_break: the latest low known before today, from the window's on.
BreakReversal(b) ==
  LET lows == {p \in ToSet(points) : p.kind = "L" /\ p.known < now /\ p.index >= Last(b.windows).low}
      key == CHOOSE p \in lows : \A q \in lows : q.index <= p.index
  IN  IF IsOpen(b.windows) /\ lows # {} /\ Today.low < key.price
      THEN Closed(b, "reversal_low_broken") ELSE b

SourceBear == Event("source_bear", NoCycle, NoFact, "none")

Book == [windows |-> windows, barrier |-> barrier, released |-> released, closed |-> FALSE]

Settled(gated, events) == BreakReversal(FillGap(FoldLeft(Observe, gated, events)))

\* _advance_lifecycle of a day the path is drawn. A window that was closed leaves the
\* cycle searching from today.
AdvanceLifecycle ==
  /\ phase = "close" /\ present
  /\ \E polylineRevised \in BOOLEAN, completed \in BOOLEAN, bear \in {<<>>, <<SourceBear>>} :
     \E s \in Advanced(polylineRevised) :
       LET b == Settled(Gate(Book, Keys(completed)), s.events \o bear)
       IN  /\ windows' = b.windows /\ barrier' = b.barrier /\ released' = b.released
           /\ cycle' = IF b.closed /\ ~IsOpen(b.windows) THEN ResumeSearch(s.cycle) ELSE s.cycle
           /\ recovery' = s.recovery /\ bearBreaks' = s.breaks
  /\ seen' = seen \cup facts
  /\ phase' = "night"
  /\ UNCHANGED marketVars

\* The path is no longer drawn: everything kept for it goes, and its window closes.
ClosePath ==
  /\ phase = "close" /\ ~present
  /\ LET b == Settled(Book, << Event("invalidated", NoCycle, NoFact, "source_path_ended") >>)
     IN  windows' = b.windows /\ barrier' = b.barrier /\ released' = b.released
  /\ cycle' = NoCycle /\ seen' = {} /\ recovery' = NoRecovery /\ bearBreaks' = {}
  /\ phase' = "night"
  /\ UNCHANGED marketVars

Quiet == UNCHANGED <<lifecycleVars, windows, barrier, released>>

Next ==
  \/ MarketDay /\ Quiet
  \/ Redraw /\ Quiet
  \/ AdvanceLifecycle
  \/ ClosePath

Spec == Init /\ [][Next]_vars

-----------------------------------------------------------------------------
(* Properties *)

\* The last day that has been advanced.
Done == IF phase = "night" THEN now ELSE now - 1

\* A rise whose window closed trades again only on a confirmation that became known since
\* (market_calculations.py:280; the rise that still holds its origin, progress.md:666): not
\* on an old one, even if the path is drawn anew. The one exception is the day a gap is
\* filled: the revoked flip may take an older pullback as its proof at once, though not
\* the filled gap again. A rise is told from one that took its place by being older than
\* the window.
ReopensAfresh ==
  \A k \in 2..Len(windows) :
    LET last == windows[k-1]  new == windows[k]
    IN  new.started < last.start =>
          \/ new.known > last.end
          \/ last.reason = "gap_filled" /\ new.start = last.end /\ new.gap # last.gap

\* While a broken flip may still recover there is neither a rising cycle nor a window
\* (trend_lifecycle.py, _consume and _advance_bull_recovery).
RecoveringIsClosed ==
  recovery.breach # Never => ~Open /\ (cycle # NoCycle => ~IsUp(cycle))

\* Behind a closed gate nothing trades; once it is opened, only what flipped since
\* (same_level_recovery.py, permits: a release does not bring old windows back).
GateStands ==
  /\ barrier # NoBarrier => ~Open
  /\ Open /\ released # Never => Last(windows).flip >= released

\* No bar of a rising cycle ever fell below its origin, nor below its counter low once
\* it alternated: a cycle whose defence broke is gone the same day, whichever proof
\* gave it that defence (trend_lifecycle.py, _price).
DefenceHolds ==
  cycle # NoCycle /\ IsUp(cycle) =>
    \A d \in cycle.started..Done :
      /\ Bar(d).low >= cycle.origin.price
      /\ cycle.counter # NoPivot /\ d > cycle.alternated => Bar(d).low >= cycle.counter.price

\* Type correctness: the windows follow each other, and only the last may be open.
EligibilityTypeOK ==
  /\ phase \in {"night", "geometry", "close"}
  /\ now \in Never..LastDay /\ Len(bars) = now + 1
  /\ facts \subseteq [title : {"BullFlip", "BearFlip", "BullAlternation", "BearAlternation"},
                     point : ToSet(points), known : 0..LastDay, origin : ToSet(points) \cup {NoPivot},
                     impulse : ToSet(points) \cup {NoPivot}, broken : ToSet(points) \cup {NoPivot}]
  /\ \A k \in DOMAIN windows :
       /\ windows[k].start \in 0..now
       /\ windows[k].end \in windows[k].start..now \cup (IF k = Len(windows) THEN {Never} ELSE {})
       /\ k > 1 => windows[k-1].end <= windows[k].start
=============================================================================
