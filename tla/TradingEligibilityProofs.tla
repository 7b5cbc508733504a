---------------------- MODULE TradingEligibilityProofs ----------------------
(* Theorems about TradingEligibility, for any market, any number of days and  *)
(* revisions: the gate stands, nothing is open while a broken flip may        *)
(* recover, no rise outlives its defence, and no window reopens on what was   *)
(* known before.  Five invariants carry them:                                  *)
(*   Base       types, vertices in the order of their days, a sound recovery; *)
(*   Facts      the observations lie on the path, and no bar has yet passed   *)
(*              the high of one that is unseen;                               *)
(*   RiseStands what the bars since the origin of a rise did not undercut;    *)
(*   Loose      a vertex of a structure that is no longer drawn came after    *)
(*              every fact that is left of it;                                *)
(*   Reopening  a rise that waits behind a closed window began its search     *)
(*              after that window closed, or the gate keeps it out.           *)
(* A day is a chain of stages: a lemma for each says what it makes of a day   *)
(* (...Does, ...Typed), and each invariant goes along the chain by a set of   *)
(* days that every stage maps into itself (SoundDays, RecoveringDays,         *)
(* RisingDays, DrawnDays, ReadyDays, SettlingDays).                           *)
EXTENDS TradingEligibility, SumFacts

Prices == [low : Int, high : Int, close : Int]
Pivots == [index : Int, kind : {"H", "L", "none"}, price : Int, known : Int]
Gaps == [index : Int, lower : Int]

FactType ==
  [title : {"BullFlip", "BearFlip", "BullAlternation", "BearAlternation", "none"},
   point : Pivots, known : Int, origin : Pivots, impulse : Pivots, broken : Pivots]

States == {"BULL_FLIP", "BULL_ALTERNATION", "BULL_CONFIRMED",
           "BEAR_FLIP", "BEAR_ALTERNATION", "BEAR_CONFIRMED"}

CycleShape ==
  [state : States, origin : Pivots, started : Int, impulse : Pivots, counter : Pivots,
   alternated : Int, evidence : SUBSET FactType, recovery : BOOLEAN, structure : Seq(Pivots),
   source : SUBSET Pivots, gap : Gaps, closed : Int]

\* Only a rise is recovered or confirmed by a gap; a recovered one has a structure of three.
CycleType ==
  {c \in CycleShape : /\ c.recovery => IsUp(c) /\ Len(c.structure) >= 3
                      /\ c.gap # NoGap => IsUp(c)}

CycleOrNone == CycleType \cup {NoCycle}

RecoveryType == [seed : FactType, breach : Int, lower : Int, recovered : Int]

Kinds == {"state", "anchor", "revoked", "invalidated", "bear_break", "source_bear"}
Reasons == {"none", "confirmation_gap_filled", "source_evidence_revised", "bull_recovery_pending",
            "special_bull_origin_broken", "defense_broken", "source_path_ended"}
Closings == {"none", "last_rise_low_broken", "bear_trend_confirmed", "gap_filled", "source_bear_confirmed",
             "source_evidence_revised", "source_path_ended", "bull_recovery_pending",
             "special_bull_origin_broken", "bear_alternation", "reversal_low_broken"}

EventType == [kind : Kinds, cycle : CycleOrNone, fact : FactType, reason : Reasons,
              known : Int, replaces : Int]

WindowType == [start : Int, started : Int, flip : Int, low : Int, known : Int, gap : Gaps,
               replaced : BOOLEAN, end : Int, reason : Closings]

BarrierType == [high : Pivots, low : Pivots, breach : Int]

\* A day of the life cycle, and a book of the windows.
DayType == [cycle : CycleOrNone, recovery : RecoveryType, breaks : SUBSET (Int \X Int \X Int),
            events : Seq(EventType)]
BookType == [windows : Seq(WindowType), barrier : BarrierType, released : Int, closed : BOOLEAN]

Typed ==
  /\ now \in Never..LastDay
  /\ bars \in [1..(now + 1) -> Prices]
  /\ phase \in {"night", "geometry", "close"} /\ (phase # "night" => now >= 0)
  /\ present \in BOOLEAN
  /\ points \in Seq(Pivots) /\ facts \in SUBSET FactType /\ IsFiniteSet(facts)
  /\ cycle \in CycleOrNone /\ recovery \in RecoveryType
  /\ bearBreaks \in SUBSET (Int \X Int \X Int)
  /\ windows \in Seq(WindowType) /\ barrier \in BarrierType /\ released \in Int

\* A vertex of the path: drawn on its bar, confirmed later, and no bar passed it before.
Vertices ==
  /\ \A k \in 1..Len(points) :
       LET p == points[k] IN
       /\ p.kind # "none" /\ 0 <= p.index /\ p.index < p.known /\ p.known <= now
       /\ p.price = IF p.kind = "H" THEN Bar(p.index).high ELSE Bar(p.index).low
       /\ p.kind = "H" => \A d \in (p.index + 1)..(p.known - 1) : Bar(d).high <= p.price
  /\ \A j, k \in 1..Len(points) :
       j < k => points[j].index < points[k].index /\ points[j].known <= points[k].known
  /\ \A j, k \in 1..Len(points) : k = j + 1 => points[j].kind # points[k].kind

-----------------------------------------------------------------------------
(* The two folds of a day, over its new observations and over its events.    *)

\* One step of a fold.
Taken(consumes, b, x) ==
  IF consumes THEN Consume(StartRecovery(b, x), x) ELSE Observe(b, x)

\* g holds what the fold gives over every set of places of q, the last place taken last.
Table(consumes, base, q, g, S) ==
  g = [s \in SUBSET S |-> IF s = {} THEN base
                          ELSE Taken(consumes, g[s \ {Max(s)}], q[Max(s)])]

\* What g holds over s.
Holds(consumes, base, q, g, s) ==
  g[s] = IF s = {} THEN base ELSE Taken(consumes, g[s \ {Max(s)}], q[Max(s)])

Filled(consumes, base, q, g, S) == \A s \in SUBSET S : Holds(consumes, base, q, g, s)

\* Every part of S that is not empty has a last place.
Places(S) == IsFiniteSet(S) /\ \A s \in SUBSET S : s # {} => Max(s) \in s

\* A set of places is finite.
LEMMA FinitePlaces ==
  ASSUME NEW n \in Nat, NEW s \in SUBSET (1..n)
  PROVE  IsFiniteSet(s)
<1>1. IsFiniteSet(1..n)
  BY FS_Interval
<1> DEFINE D == 1..n
<1>2. IsFiniteSet(D) /\ s \subseteq D
  BY <1>1
<1> HIDE DEF D
<1> QED
  BY <1>2, FS_Subset

\* A set of places has a last one.
LEMMA FurthestPlace ==
  ASSUME NEW n \in Nat, NEW s \in SUBSET (1..n), s # {}
  PROVE  \E m \in s : \A i \in s : m >= i
<1>1. IsFiniteSet(s)
  BY FinitePlaces
<1> DEFINE F == {T \in SUBSET s : T # {} => \E m \in T : \A i \in T : m >= i}
<1>2. ASSUME NEW T \in SUBSET s, \A U \in SUBSET T : U # T => U \in F
      PROVE  T \in F
  <2> SUFFICES ASSUME T # {} PROVE \E m \in T : \A i \in T : m >= i
    OBVIOUS
  <2>1. PICK x \in T : TRUE
    OBVIOUS
  <2>2. T \ {x} \in F
    BY <1>2, <2>1
  <2>3. CASE T \ {x} = {}
    BY <2>1, <2>3
  <2>4. CASE T \ {x} # {}
    <3>1. PICK m \in T \ {x} : \A i \in T \ {x} : m >= i
      BY <2>2, <2>4
    <3>2. m \in Int /\ x \in Int
      BY <2>1
    <3>3. \A i \in T : IF m >= x THEN m >= i ELSE x >= i
      BY <3>1, <3>2
    <3> QED
      BY <2>1, <3>1, <3>3
  <2> QED
    BY <2>3, <2>4
<1> HIDE DEF F
<1>3. s \in F
  <2>1. \A T \in SUBSET s : (\A U \in SUBSET T : U # T => U \in F) => T \in F
    BY <1>2
  <2> QED
    BY <1>1, <2>1, SubsetInduction
<1> QED
  BY <1>3 DEF F

\* A set of places is smaller without its last one.
LEMMA LastPlace ==
  ASSUME NEW n \in Nat, NEW s \in SUBSET (1..n), s # {}
  PROVE  Max(s) \in s /\ s \ {Max(s)} \in SUBSET s /\ s \ {Max(s)} # s
<1>1. \E m \in s : \A i \in s : m >= i
  BY FurthestPlace
<1>2. Max(s) \in s
  BY <1>1, Zenon DEF Max
<1> QED
  BY <1>2

\* An entry of the table.
LEMMA TableEntry ==
  ASSUME NEW consumes, NEW base, NEW q, NEW g, NEW S, Table(consumes, base, q, g, S)
  PROVE  \A s \in SUBSET S : Holds(consumes, base, q, g, s)
<1> DEFINE body == [s \in SUBSET S |-> IF s = {} THEN base
                                       ELSE Taken(consumes, g[s \ {Max(s)}], q[Max(s)])]
<1>1. g = body
  BY DEF Table
<1>2. \A s \in SUBSET S : body[s] = IF s = {} THEN base
                                    ELSE Taken(consumes, g[s \ {Max(s)}], q[Max(s)])
  OBVIOUS
<1> HIDE DEF body
<1> QED
  BY <1>1, <1>2 DEF Holds

\* Two tables of a fold agree where both have entries.
LEMMA EntriesAgree ==
  ASSUME NEW consumes, NEW base, NEW q, NEW S, Places(S),
         NEW g, Filled(consumes, base, q, g, S), NEW h, Filled(consumes, base, q, h, S)
  PROVE  \A s \in SUBSET S : g[s] = h[s]
<1> DEFINE F == {s \in SUBSET S : g[s] = h[s]}
<1>1. ASSUME NEW s \in SUBSET S, \A u \in SUBSET s : u # s => u \in F
      PROVE  s \in F
  <2>1. Holds(consumes, base, q, g, s) /\ Holds(consumes, base, q, h, s)
    BY DEF Filled
  <2>2. s # {} => g[s \ {Max(s)}] = h[s \ {Max(s)}]
    BY <1>1 DEF Places
  <2> QED
    BY <2>1, <2>2 DEF Holds
<1> HIDE DEF F
<1>2. \A s \in SUBSET S : s \in F
  BY <1>1, SubsetInduction DEF Places
<1> QED
  BY <1>2 DEF F

\* Every fold has its table.
LEMMA FoldHasTable ==
  ASSUME NEW consumes, NEW base, NEW q, NEW n \in Nat
  PROVE  \E g : Table(consumes, base, q, g, 1..n)
<1> DEFINE S == 1..n
           F == {T \in SUBSET S : \E g : Table(consumes, base, q, g, T)}
<1>1. ASSUME NEW T \in SUBSET S, \A U \in SUBSET T : U # T => U \in F
      PROVE  T \in F
  <2> DEFINE own(s) == CHOOSE g : Table(consumes, base, q, g, s)
             rest == T \ {Max(T)}
             h == [s \in SUBSET T |-> IF s = T THEN (IF T = {} THEN base ELSE Taken(consumes, own(rest)[rest], q[Max(T)]))
                                      ELSE own(s)[s]]
  <2>1. \A s \in SUBSET T : s # T => Table(consumes, base, q, own(s), s)
    BY <1>1, Zenon
  <2> HIDE DEF own
  <2>2. ASSUME NEW s \in SUBSET T
        PROVE  Holds(consumes, base, q, h, s)
    <3>0. \A u \in SUBSET T : u # T => \A v \in SUBSET u : Holds(consumes, base, q, own(u), v)
      <4> SUFFICES ASSUME NEW u \in SUBSET T, u # T
                   PROVE  \A v \in SUBSET u : Holds(consumes, base, q, own(u), v)
        OBVIOUS
      <4>1. Table(consumes, base, q, own(u), u)
        BY <2>1
      <4> QED
        BY <4>1, TableEntry
    <3>1. CASE s = {}
      <4>1. s # T => own(s)[s] = base
        BY <3>0, <3>1 DEF Holds
      <4> QED
        BY <3>1, <4>1 DEF Holds
    <3>2. CASE s # {}
      <4> DEFINE r == s \ {Max(s)}
      <4>0. s \in SUBSET (1..n)
        OBVIOUS
      <4>1. r \in SUBSET s /\ r # s /\ r \in SUBSET T /\ r # T
        BY <3>2, <4>0, LastPlace
      <4>2. h[r] = own(r)[r]
        BY <4>1
      <4>3. CASE s = T
        BY <3>2, <4>2, <4>3 DEF Holds
      <4>4. CASE s # T
        <5>1. own(s)[s] = Taken(consumes, own(s)[r], q[Max(s)])
          BY <3>0, <3>2, <4>4 DEF Holds
        <5>2. own(r)[r] = own(s)[r]
          <6>1. Places(r) /\ r \in SUBSET r
            <7>1. r \in SUBSET (1..n) /\ \A v \in SUBSET r : v \in SUBSET (1..n)
              BY <4>0, <4>1
            <7> QED
              BY <7>1, FinitePlaces, LastPlace DEF Places
          <6>2. Filled(consumes, base, q, own(s), r) /\ Filled(consumes, base, q, own(r), r)
            BY <3>0, <4>1, <4>4 DEF Filled
          <6> HIDE DEF r, h
          <6>3. \A v \in SUBSET r : own(r)[v] = own(s)[v]
            BY ONLY <6>1, <6>2, EntriesAgree
          <6> QED
            BY <6>1, <6>3
        <5>3. h[s] = own(s)[s]
          BY <4>4
        <5> HIDE DEF h
        <5> QED
          BY <3>2, <4>2, <5>1, <5>2, <5>3 DEF Holds
      <4> QED
        BY <4>3, <4>4
    <3> QED
      BY <3>1, <3>2
  <2>3. Table(consumes, base, q, h, T)
    <3>1. h = [s \in SUBSET T |-> h[s]]
      OBVIOUS
    <3> HIDE DEF h
    <3>2. [s \in SUBSET T |-> h[s]]
            = [s \in SUBSET T |-> IF s = {} THEN base ELSE Taken(consumes, h[s \ {Max(s)}], q[Max(s)])]
      BY <2>2 DEF Holds
    <3> QED
      BY <3>1, <3>2 DEF Table
  <2> QED
    BY <2>3
<1> HIDE DEF F
<1>2. IsFiniteSet(S)
  BY FS_Interval
<1>3. S \in F
  <2>1. \A T \in SUBSET S : (\A U \in SUBSET T : U # T => U \in F) => T \in F
    BY <1>1
  <2> HIDE DEF S
  <2> QED
    BY <1>2, <2>1, SubsetInduction
<1> QED
  BY <1>3 DEF F

\* The value of a fold.
Folded(consumes, base, q) ==
  IF consumes THEN ConsumeFacts(base, q) ELSE FoldLeft(Observe, base, q)

\* A fold goes from its base to its value in one step for each place of q.
LEMMA FoldRuns ==
  ASSUME NEW consumes \in BOOLEAN, NEW base, NEW n \in Nat, NEW q, DOMAIN q = 1..n
  PROVE  \E g : /\ g[0] = base /\ g[n] = Folded(consumes, base, q)
                /\ \A k \in 1..n : g[k] = Taken(consumes, g[k-1], q[k])
<1> DEFINE t == CHOOSE g : Table(consumes, base, q, g, 1..n)
           g == [k \in 0..n |-> t[1..k]]
<1>1. Table(consumes, base, q, t, 1..n)
  BY FoldHasTable, Zenon
<1>2. Folded(consumes, base, q) = t[1..n]
  <2>1. CASE consumes
    BY <2>1 DEF Folded, ConsumeFacts, FoldLeft, MapThenFoldSet, Table, Taken
  <2>2. CASE ~consumes
    BY <2>2 DEF Folded, FoldLeft, MapThenFoldSet, Table, Taken
  <2> QED
    BY <2>1, <2>2
<1> HIDE DEF t
<1>3. \A s \in SUBSET (1..n) : Holds(consumes, base, q, t, s)
  BY <1>1, TableEntry
<1>4. g[0] = base
  <2>1. 1..0 = {} /\ {} \in SUBSET (1..n) /\ 0 \in 0..n
    OBVIOUS
  <2>2. t[{}] = base
    BY <1>3, <2>1 DEF Holds
  <2> QED
    BY <2>1, <2>2
<1>5. g[n] = Folded(consumes, base, q)
  BY <1>2
<1>6. ASSUME NEW k \in 1..n
      PROVE  g[k] = Taken(consumes, g[k-1], q[k])
  <2> DEFINE s == 1..k
  <2>1. s \in SUBSET (1..n) /\ s # {} /\ k \in 0..n /\ k-1 \in 0..n
    <3>1. 1 \in 1..k /\ k \in 0..n /\ k-1 \in 0..n
      OBVIOUS
    <3>2. 1..k \in SUBSET (1..n)
      OBVIOUS
    <3> QED
      BY <3>1, <3>2
  <2>2. Max(s) = k
    <3>1. Max(1..k) \in 1..k /\ \A i \in 1..k : Max(1..k) >= i
      <4>1. k \in 1..k /\ \A i \in 1..k : k >= i
        OBVIOUS
      <4> QED
        BY <4>1, Zenon DEF Max
    <3> QED
      BY <3>1
  <2>3. s \ {k} = 1..(k-1)
    OBVIOUS
  <2> HIDE DEF s
  <2>4. t[s] = Taken(consumes, t[s \ {Max(s)}], q[Max(s)])
    BY <1>3, <2>1 DEF Holds
  <2>5. g[k] = t[s] /\ g[k-1] = t[1..(k-1)]
    BY <2>1 DEF s
  <2> HIDE DEF g
  <2> QED
    BY <2>2, <2>3, <2>4, <2>5
<1> HIDE DEF g
<1> QED
  BY <1>4, <1>5, <1>6
-----------------------------------------------------------------------------
(* Choices among the places of the path. *)

\* A set of places has a first one.
LEMMA FirstPlace ==
  ASSUME NEW n \in Nat, NEW s \in SUBSET (1..n), s # {}
  PROVE  \E m \in s : \A i \in s : m <= i
<1> DEFINE F == {T \in SUBSET s : T # {} => \E m \in T : \A i \in T : m <= i}
<1>1. ASSUME NEW T \in SUBSET s, \A U \in SUBSET T : U # T => U \in F
      PROVE  T \in F
  <2> SUFFICES ASSUME T # {} PROVE \E m \in T : \A i \in T : m <= i
    OBVIOUS
  <2>1. PICK x \in T : TRUE
    OBVIOUS
  <2>2. T \ {x} \in F
    BY <1>1, <2>1
  <2>3. CASE T \ {x} = {}
    BY <2>1, <2>3
  <2>4. CASE T \ {x} # {}
    <3>1. PICK m \in T \ {x} : \A i \in T \ {x} : m <= i
      BY <2>2, <2>4
    <3>2. m \in Int /\ x \in Int
      BY <2>1
    <3>3. \A i \in T : IF m <= x THEN m <= i ELSE x <= i
      BY <3>1, <3>2
    <3> QED
      BY <2>1, <3>1, <3>3
  <2> QED
    BY <2>3, <2>4
<1> HIDE DEF F
<1>2. s \in F
  <2>1. \A T \in SUBSET s : (\A U \in SUBSET T : U # T => U \in F) => T \in F
    BY <1>1
  <2> QED
    BY <2>1, FinitePlaces, SubsetInduction
<1> QED
  BY <1>2 DEF F

-----------------------------------------------------------------------------
(* What the steps of a day make of its types. *)

\* The constants of the life cycle are of their types.
LEMMA Blanks ==
  /\ NoPivot \in Pivots /\ NoGap \in Gaps /\ NoFact \in FactType
  /\ NoRecovery \in RecoveryType /\ Never \in Int
  BY DEF NoPivot, Pivots, NoGap, Gaps, NoFact, FactType, NoRecovery, RecoveryType, Never

\* An event of the day has the type of events.
LEMMA EventTyped ==
  ASSUME NEW kind \in Kinds, NEW c \in CycleOrNone, NEW f \in FactType, NEW reason \in Reasons
  PROVE  Event(kind, c, f, reason) \in EventType
  BY Blanks DEF Event, EventType, FactType, Kinds, Reasons

\* An event is added at the end.
LEMMA EmitTyped ==
  ASSUME NEW s \in DayType, NEW e \in EventType
  PROVE  /\ Emit(s, e) \in DayType
         /\ Emit(s, e).cycle = s.cycle /\ Emit(s, e).recovery = s.recovery
         /\ Emit(s, e).breaks = s.breaks /\ Emit(s, e).events = Append(s.events, e)
<1>1. s.events \in Seq(EventType)
  BY DEF DayType
<1>2. Append(s.events, e) \in Seq(EventType)
  BY <1>1
<1> QED
  BY <1>2 DEF Emit, DayType

\* The cycle becomes another, and an event says so.
LEMMA BecomeTyped ==
  ASSUME NEW s \in DayType, NEW kind \in Kinds, NEW c \in CycleOrNone, NEW f \in FactType
  PROVE  /\ Become(s, kind, c, f) \in DayType
         /\ Become(s, kind, c, f).cycle = c /\ Become(s, kind, c, f).recovery = s.recovery
         /\ Become(s, kind, c, f).events = Append(s.events, Event(kind, c, f, "none"))
<1>1. [s EXCEPT !.cycle = c] \in DayType
  BY DEF DayType
<1>2. Event(kind, c, f, "none") \in EventType
  <2>1. "none" \in Reasons
    BY DEF Reasons
  <2> QED
    BY <2>1, EventTyped
<1> QED
  BY <1>1, <1>2, EmitTyped DEF Become, DayType

\* What ending a cycle leaves of a day.
LEMMA InvalidateTyped ==
  ASSUME NEW s \in DayType, NEW reason \in Reasons
  PROVE  /\ Invalidate(s, reason) \in DayType
         /\ Invalidate(s, reason).cycle = NoCycle /\ Invalidate(s, reason).recovery = s.recovery
         /\ Invalidate(s, reason).events = Append(s.events, Event("invalidated", s.cycle, NoFact, reason))
<1>1. [s EXCEPT !.cycle = NoCycle] \in DayType
  BY DEF DayType, CycleOrNone
<1>2. Event("invalidated", s.cycle, NoFact, reason) \in EventType
  <2>1. s.cycle \in CycleOrNone
    BY DEF DayType
  <2> QED
    <3>1. "invalidated" \in Kinds /\ NoFact \in FactType
      BY Blanks DEF Kinds
    <3> QED
      BY <2>1, <3>1, EventTyped
<1> QED
  BY <1>1, <1>2, EmitTyped DEF Invalidate, DayType

\* A cycle is one or none.
LEMMA CycleIsOne ==
  ASSUME NEW c \in CycleOrNone
  PROVE  /\ c = NoCycle <=> c \notin CycleType
         /\ c # NoCycle => c \in CycleShape /\ c \in CycleType
  BY DEF CycleOrNone, CycleType, CycleShape, NoCycle, States

\* The names of the states of either side.
LEMMA StateNames ==
  ASSUME NEW up \in BOOLEAN, NEW c \in CycleShape
  PROVE  /\ FlipState(up) \in States /\ AlternationState(up) \in States /\ ConfirmedState(up) \in States
         /\ c.state \in {FlipState(up), AlternationState(up), ConfirmedState(up)} => IsUp(c) = up
         /\ IsUp(c) \in BOOLEAN
  BY DEF FlipState, AlternationState, ConfirmedState, States, IsUp, CycleShape

\* The part of a structure that is kept.
LEMMA KeptTyped ==
  ASSUME NEW c \in CycleType
  PROVE  /\ KeptStructure(c) \in Seq(Pivots)
         /\ c.recovery => /\ Len(KeptStructure(c)) = 3
                          /\ \A i \in 1..3 : KeptStructure(c)[i] = c.structure[i]
         /\ ~c.recovery => KeptStructure(c) = <<>>
<1>1. c.structure \in Seq(Pivots) /\ (c.recovery => Len(c.structure) >= 3) /\ c.recovery \in BOOLEAN
  BY DEF CycleType, CycleShape
<1> DEFINE q == c.structure
<1>2. q \in Seq(Pivots) /\ Len(q) >= 3 =>
        /\ SubSeq(q, 1, 3) \in Seq(Pivots) /\ Len(SubSeq(q, 1, 3)) = 3
        /\ \A i \in 1..3 : SubSeq(q, 1, 3)[i] = q[i]
  <2> HIDE DEF q
  <2> QED
    OBVIOUS
<1> QED
  BY <1>1, <1>2 DEF KeptStructure

\* A day goes on with its cycle back at the flip, the gap filled, or as it was.
LEMMA ExpireGapDoes ==
  ASSUME NEW s \in DayType
  PROVE  /\ ExpireGap(s) \in DayType
         /\ ExpireGap(s).recovery = s.recovery
         /\ \/ ExpireGap(s) = s
            \/ /\ s.cycle \in CycleType /\ s.cycle.gap # NoGap
               /\ ExpireGap(s).cycle =
                    [s.cycle EXCEPT !.state = "BULL_FLIP", !.counter = NoPivot, !.alternated = Never,
                                    !.source = {}, !.gap = NoGap, !.structure = KeptStructure(s.cycle)]
               /\ ExpireGap(s).cycle \in CycleType
               /\ ExpireGap(s).events =
                    Append(s.events, Event("revoked", s.cycle, NoFact, "confirmation_gap_filled"))
<1> DEFINE c == s.cycle
           d == [c EXCEPT !.state = "BULL_FLIP", !.counter = NoPivot, !.alternated = Never,
                          !.source = {}, !.gap = NoGap, !.structure = KeptStructure(c)]
           e == Event("revoked", c, NoFact, "confirmation_gap_filled")
<1>1. CASE c = NoCycle \/ c.gap = NoGap \/ now <= c.gap.index \/ Today.low > c.gap.lower
  BY <1>1 DEF ExpireGap
<1>2. CASE ~(c = NoCycle \/ c.gap = NoGap \/ now <= c.gap.index \/ Today.low > c.gap.lower)
  <2>1. c \in CycleType /\ c \in CycleShape
    BY <1>2, CycleIsOne DEF DayType
  <2>2. d \in CycleShape
    BY <2>1, KeptTyped, Blanks DEF CycleShape, States
  <2>3. d \in CycleType
    <3>1. d.recovery = c.recovery /\ d.gap = NoGap /\ d.structure = KeptStructure(c) /\ d.state = "BULL_FLIP"
      BY <2>1 DEF CycleShape
    <3>2. IsUp(d)
      BY <3>1 DEF IsUp
    <3>3. d.recovery => Len(d.structure) >= 3
      BY <2>1, <3>1, KeptTyped
    <3> HIDE DEF d
    <3> QED
      BY <2>2, <3>2, <3>3 DEF CycleType
  <2>4. e \in EventType
    <3>1. "revoked" \in Kinds /\ "confirmation_gap_filled" \in Reasons /\ NoFact \in FactType /\ c \in CycleOrNone
      BY <2>1, Blanks DEF Kinds, Reasons, CycleOrNone
    <3> QED
      BY <3>1, EventTyped
  <2>5. s.events \in Seq(EventType) /\ Append(s.events, e) \in Seq(EventType)
    <3>1. s.events \in Seq(EventType)
      BY DEF DayType
    <3> QED
      BY <2>4, <3>1
  <2>6. ExpireGap(s) = [s EXCEPT !.events = Append(s.events, e), !.cycle = d]
    BY <1>2 DEF ExpireGap, DayType
  <2>7. d \in CycleOrNone
    BY <2>3 DEF CycleOrNone
  <2> HIDE DEF d, e
  <2>8. ExpireGap(s) \in DayType /\ ExpireGap(s).cycle = d /\ ExpireGap(s).recovery = s.recovery
        /\ ExpireGap(s).events = Append(s.events, e)
    BY <2>5, <2>6, <2>7 DEF DayType
  <2> QED
    BY <1>2, <2>1, <2>3, <2>8 DEF d, e
<1> QED
  BY <1>1, <1>2

\* Three vertices of the path, one after the other.
LEMMA ThreePoints ==
  ASSUME points \in Seq(Pivots), NEW k \in 1..(Len(points) - 2)
  PROVE  /\ SubSeq(points, k, k + 2) \in Seq(Pivots) /\ Len(SubSeq(points, k, k + 2)) = 3
         /\ SubSeq(points, k, k + 2)[1] = points[k] /\ SubSeq(points, k, k + 2)[2] = points[k + 1]
         /\ SubSeq(points, k, k + 2)[3] = points[k + 2]
         /\ points[k] \in Pivots /\ points[k + 1] \in Pivots /\ points[k + 2] \in Pivots
  OBVIOUS

\* A recovered rise that has lost its structure goes on with the same leg's new high.
LEMMA ContinueImpulseDoes ==
  ASSUME Typed, NEW s \in DayType
  PROVE  /\ ContinueImpulse(s) \in DayType
         /\ ContinueImpulse(s).recovery = s.recovery
         /\ \/ ContinueImpulse(s) = s
            \/ /\ s.cycle \in CycleType /\ s.cycle.recovery /\ s.cycle.evidence \subseteq facts
               /\ ~ (ToSet(s.cycle.structure) \subseteq ToSet(points)) /\ Len(s.cycle.structure) = 3
               /\ \E k \in Extension(s.cycle) :
                     ContinueImpulse(s).cycle = [s.cycle EXCEPT !.impulse = points[k+2],
                                                                !.structure = SubSeq(points, k, k + 2)]
               /\ ContinueImpulse(s).cycle \in CycleType
               /\ ContinueImpulse(s).events =
                    Append(s.events, Event("anchor", ContinueImpulse(s).cycle, NoFact, "none"))
<1> DEFINE c == s.cycle
           idle == \/ c = NoCycle
                   \/ ~(c.evidence \subseteq facts) \/ ToSet(c.structure) \subseteq ToSet(points)
                   \/ ~c.recovery \/ c.alternated # Never \/ Len(c.structure) # 3
                   \/ Extension(c) = {}
<1>1. CASE idle
  BY <1>1 DEF ContinueImpulse
<1>2. CASE ~idle
  <2> DEFINE k == CHOOSE k \in Extension(c) : TRUE
             d == [c EXCEPT !.impulse = points[k+2], !.structure = SubSeq(points, k, k + 2)]
  <2>1. c \in CycleType /\ c \in CycleShape
    BY <1>2, CycleIsOne DEF DayType
  <2>2. k \in Extension(c) /\ k \in 1..(Len(points) - 2)
    <3>1. k \in Extension(c)
      BY <1>2
    <3> QED
      BY <3>1 DEF Extension
  <2>3. ContinueImpulse(s) = Become(s, "anchor", d, NoFact)
    BY <1>2 DEF ContinueImpulse
  <2> HIDE DEF k
  <2>4. SubSeq(points, k, k + 2) \in Seq(Pivots) /\ Len(SubSeq(points, k, k + 2)) = 3 /\ points[k+2] \in Pivots
    BY <2>2, ThreePoints DEF Typed
  <2>5. d \in CycleShape /\ d.recovery = c.recovery /\ d.state = c.state /\ d.gap = c.gap
        /\ d.structure = SubSeq(points, k, k + 2)
    BY <2>1, <2>4 DEF CycleShape
  <2>6. d \in CycleType
    <3>1. IsUp(d) = IsUp(c)
      BY <2>5 DEF IsUp
    <3> HIDE DEF d
    <3> QED
      BY <2>1, <2>4, <2>5, <3>1 DEF CycleType
  <2>7. d \in CycleOrNone /\ "anchor" \in Kinds /\ NoFact \in FactType
    BY <2>6, Blanks DEF CycleOrNone, Kinds
  <2> HIDE DEF d
  <2>8. /\ ContinueImpulse(s) \in DayType /\ ContinueImpulse(s).cycle = d
        /\ ContinueImpulse(s).recovery = s.recovery
        /\ ContinueImpulse(s).events = Append(s.events, Event("anchor", d, NoFact, "none"))
    BY <2>3, <2>7, BecomeTyped
  <2> QED
    BY <1>2, <2>1, <2>2, <2>6, <2>8 DEF d
<1> QED
  BY <1>1, <1>2

\* A cycle stands on what is drawn, or it goes.
LEMMA CheckEvidenceDoes ==
  ASSUME NEW s \in DayType, NEW revised \in BOOLEAN
  PROVE  /\ CheckEvidence(s, revised) \in DayType
         /\ CheckEvidence(s, revised).recovery = s.recovery
         /\ \/ CheckEvidence(s, revised) = s /\ (s.cycle # NoCycle => Stands(s.cycle))
            \/ /\ s.cycle # NoCycle /\ CheckEvidence(s, revised).cycle = NoCycle
               /\ CheckEvidence(s, revised).events =
                    Append(s.events, Event("invalidated", s.cycle, NoFact, "source_evidence_revised"))
<1>1. "source_evidence_revised" \in Reasons
  BY DEF Reasons
<1> QED
  BY <1>1, InvalidateTyped DEF CheckEvidence

\* A recovery without its seed is gone.
LEMMA CheckSeedDoes ==
  ASSUME NEW s \in DayType
  PROVE  /\ CheckSeed(s) \in DayType
         /\ CheckSeed(s).cycle = s.cycle /\ CheckSeed(s).events = s.events
         /\ \/ CheckSeed(s).recovery = s.recovery /\ s.recovery.seed \in facts
            \/ CheckSeed(s).recovery = NoRecovery
  BY Blanks DEF CheckSeed, DayType

\* A flip up may become the seed of a recovery.
LEMMA StartRecoveryDoes ==
  ASSUME NEW s \in DayType, NEW f \in FactType
  PROVE  /\ StartRecovery(s, f) \in DayType
         /\ StartRecovery(s, f).cycle = s.cycle /\ StartRecovery(s, f).events = s.events
         /\ \/ StartRecovery(s, f).recovery = s.recovery
            \/ /\ s.recovery.breach = Never
               /\ StartRecovery(s, f).recovery = [NoRecovery EXCEPT !.seed = f]
  BY Blanks DEF StartRecovery, DayType, RecoveryType

\* A new cycle.
LEMMA NewCycleTyped ==
  ASSUME Typed, NEW up \in BOOLEAN, NEW origin \in Pivots, NEW impulse \in Pivots,
         NEW evidence \in SUBSET FactType
  PROVE  /\ NewCycle(up, origin, impulse, evidence) \in CycleType
         /\ NewCycle(up, origin, impulse, evidence) \in CycleShape
         /\ IsUp(NewCycle(up, origin, impulse, evidence)) = up
<1> DEFINE c == NewCycle(up, origin, impulse, evidence)
<1>1. now \in Int
  BY TrendAssumption DEF Typed, Never
<1>2. /\ c \in CycleShape /\ c.recovery = FALSE /\ c.gap = NoGap /\ c.state = FlipState(up)
  <2>1. FlipState(up) \in States /\ <<>> \in Seq(Pivots)
    BY DEF FlipState, States
  <2> QED
    BY <1>1, <2>1, Blanks DEF NewCycle, CycleShape
<1> HIDE DEF c
<1>3. IsUp(c) = up
  BY <1>2 DEF IsUp, FlipState
<1> QED
  BY <1>2, <1>3 DEF CycleType, c

\* What a day s becomes when a flip starts a cycle, or moves the impulse of one.
FlipStarts(s, r, f, up) ==
  /\ f.title = FlipTitle(up)
  /\ s.cycle # NoCycle => IsUp(s.cycle) # up
  /\ r.cycle = NewCycle(up, f.origin, f.point, {f})
  /\ r.events = Append(s.events, Event("state", r.cycle, f, "none"))

FlipMoves(s, r, f, up) ==
  /\ f.title = FlipTitle(up)
  /\ s.cycle \in CycleType /\ IsUp(s.cycle) = up /\ s.cycle.state = FlipState(up)
  /\ Beyond(up, f.point.price, s.cycle.impulse.price) /\ f.point.index > s.cycle.impulse.index
  /\ r.cycle = [s.cycle EXCEPT !.impulse = f.point, !.evidence = s.cycle.evidence \cup {f}]
  /\ r.events = Append(s.events, Event("anchor", r.cycle, f, "none"))

\* A flip starts a cycle, moves the attack of one, or is passed over.
LEMMA FlipDoes ==
  ASSUME Typed, NEW s \in DayType, NEW f \in FactType, NEW up \in BOOLEAN, f.title = FlipTitle(up)
  PROVE  /\ Flip(s, f, up) \in DayType /\ Flip(s, f, up).recovery = s.recovery
         /\ \/ Flip(s, f, up) = s
            \/ FlipStarts(s, Flip(s, f, up), f, up)
            \/ FlipMoves(s, Flip(s, f, up), f, up)
<1> DEFINE c == s.cycle
           starts == c = NoCycle \/ IsUp(c) # up
           moves == /\ c.state = FlipState(up) /\ Beyond(up, f.point.price, c.impulse.price)
                    /\ f.point.index > c.impulse.index
<1>0. f.point \in Pivots /\ f.origin \in Pivots /\ {f} \in SUBSET FactType /\ c \in CycleOrNone
      /\ "state" \in Kinds /\ "anchor" \in Kinds
  BY DEF FactType, DayType, Kinds
<1>1. CASE starts
  <2> DEFINE d == NewCycle(up, f.origin, f.point, {f})
  <2>1. d \in CycleOrNone
    BY <1>0, NewCycleTyped DEF CycleOrNone
  <2>2. Flip(s, f, up) = Become(s, "state", d, f)
    BY <1>1 DEF Flip
  <2> HIDE DEF d
  <2>3. /\ Flip(s, f, up) \in DayType /\ Flip(s, f, up).recovery = s.recovery
        /\ Flip(s, f, up).cycle = d
        /\ Flip(s, f, up).events = Append(s.events, Event("state", d, f, "none"))
    BY <1>0, <2>1, <2>2, BecomeTyped
  <2>4. FlipStarts(s, Flip(s, f, up), f, up)
    BY <1>1, <2>3 DEF FlipStarts, d
  <2> QED
    BY <2>3, <2>4
<1>2. CASE ~starts /\ moves
  <2> DEFINE d == [c EXCEPT !.impulse = f.point, !.evidence = c.evidence \cup {f}]
  <2>1. c \in CycleType /\ c \in CycleShape
    BY <1>0, <1>2, CycleIsOne
  <2>2. /\ d \in CycleShape /\ d.recovery = c.recovery /\ d.state = c.state /\ d.gap = c.gap
        /\ d.structure = c.structure
    BY <1>0, <2>1 DEF CycleShape
  <2>3. d \in CycleOrNone
    <3>1. IsUp(d) = IsUp(c)
      BY <2>2 DEF IsUp
    <3> HIDE DEF d
    <3> QED
      BY <2>1, <2>2, <3>1 DEF CycleType, CycleOrNone
  <2>4. Flip(s, f, up) = Become(s, "anchor", d, f)
    BY <1>2 DEF Flip
  <2> HIDE DEF d
  <2>5. /\ Flip(s, f, up) \in DayType /\ Flip(s, f, up).recovery = s.recovery
        /\ Flip(s, f, up).cycle = d
        /\ Flip(s, f, up).events = Append(s.events, Event("anchor", d, f, "none"))
    BY <1>0, <2>3, <2>4, BecomeTyped
  <2>6. FlipMoves(s, Flip(s, f, up), f, up)
    BY <1>2, <2>1, <2>5 DEF FlipMoves, d
  <2> QED
    BY <2>5, <2>6
<1>3. CASE ~starts /\ ~moves
  BY <1>3 DEF Flip
<1> QED
  BY <1>1, <1>2, <1>3

\* Two vertices of one bar at one price.
Same(p, q) == p.index = q.index /\ p.price = q.price

\* What an alternation needs, and what it makes of the cycle.
Accepts(c, f, up) ==
  /\ c \in CycleType /\ IsUp(c) = up
  /\ c.state = FlipState(up) \/ (up /\ c.gap # NoGap)
  /\ FlipConfirmed(c)
  /\ \/ Same(f.impulse, c.impulse)
     \/ /\ Beyond(up, f.impulse.price, c.impulse.price)
        /\ f.impulse.index > c.impulse.index
        /\ f.impulse.known >= c.impulse.known
  /\ f.point.index > f.impulse.index
  /\ f.known > c.closed

Alternates(s, r, f, up) ==
  /\ Accepts(s.cycle, f, up)
  /\ r.cycle = [s.cycle EXCEPT !.state = AlternationState(up), !.impulse = f.impulse,
                              !.counter = f.point, !.alternated = now,
                              !.evidence = s.cycle.evidence \cup {f},
                              !.gap = NoGap, !.source = {}, !.closed = Never]
  /\ r.events = Append(s.events, [Event("state", r.cycle, f, "none") EXCEPT !.replaces = s.cycle.gap.index])

\* An alternation is accepted, or is passed over.
LEMMA AlternateDoes ==
  ASSUME Typed, NEW s \in DayType, NEW f \in FactType, NEW up \in BOOLEAN
  PROVE  /\ Alternate(s, f, up) \in DayType /\ Alternate(s, f, up).recovery = s.recovery
         /\ Alternate(s, f, up) = s \/ Alternates(s, Alternate(s, f, up), f, up)
<1> DEFINE c == s.cycle
           accepts == /\ c # NoCycle
                      /\ IsUp(c) = up
                      /\ c.state = FlipState(up) \/ (up /\ c.gap # NoGap)
                      /\ FlipConfirmed(c)
                      /\ \/ /\ f.impulse.index = c.impulse.index /\ f.impulse.price = c.impulse.price
                         \/ /\ Beyond(up, f.impulse.price, c.impulse.price)
                            /\ f.impulse.index > c.impulse.index
                            /\ f.impulse.known >= c.impulse.known
                      /\ f.point.index > f.impulse.index
                      /\ f.known >= f.impulse.known
                      /\ f.known > c.closed
<1>1. CASE ~accepts
  BY <1>1 DEF Alternate
<1>2. CASE accepts
  <2> DEFINE d == [c EXCEPT !.state = AlternationState(up), !.impulse = f.impulse,
                            !.counter = f.point, !.alternated = now, !.evidence = c.evidence \cup {f},
                            !.gap = NoGap, !.source = {}, !.closed = Never]
             e == [Event("state", d, f, "none") EXCEPT !.replaces = c.gap.index]
  <2>1. c \in CycleType /\ c \in CycleShape
    BY <1>2, CycleIsOne DEF DayType
  <2>2. now \in Int /\ f.point \in Pivots /\ f.impulse \in Pivots /\ AlternationState(up) \in States
        /\ c.gap.index \in Int
    <3>1. now \in Int
      BY TrendAssumption DEF Typed, Never
    <3>2. f.point \in Pivots /\ f.impulse \in Pivots
      BY DEF FactType
    <3>3. c.gap.index \in Int
      <4>1. c.gap \in Gaps
        BY <2>1 DEF CycleShape
      <4> QED
        BY <4>1 DEF Gaps
    <3> QED
      BY <3>1, <3>2, <3>3 DEF AlternationState, States
  <2>3. /\ d \in CycleShape /\ d.recovery = c.recovery /\ d.state = AlternationState(up) /\ d.gap = NoGap
        /\ d.structure = c.structure
    BY <2>1, <2>2, Blanks DEF CycleShape
  <2>4. d \in CycleOrNone
    <3>1. IsUp(d) = IsUp(c)
      BY <1>2, <2>3 DEF IsUp, AlternationState
    <3> HIDE DEF d
    <3> QED
      BY <2>1, <2>3, <3>1 DEF CycleType, CycleOrNone
  <2>5. Alternate(s, f, up) = Emit([s EXCEPT !.cycle = d], e)
    BY <1>2 DEF Alternate
  <2> HIDE DEF d
  <2>6. e \in EventType
    <3>1. "state" \in Kinds /\ "none" \in Reasons
      BY DEF Kinds, Reasons
    <3>2. Event("state", d, f, "none") \in EventType
      BY <2>4, <3>1, EventTyped
    <3> QED
      BY <2>2, <3>2 DEF EventType
  <2> HIDE DEF e
  <2>7. [s EXCEPT !.cycle = d] \in DayType
    BY <2>4 DEF DayType
  <2>8. /\ Alternate(s, f, up) \in DayType /\ Alternate(s, f, up).recovery = s.recovery
        /\ Alternate(s, f, up).cycle = d
        /\ Alternate(s, f, up).events = Append(s.events, e)
    <3> DEFINE t == [s EXCEPT !.cycle = d]
    <3>1. t.cycle = d /\ t.recovery = s.recovery /\ t.events = s.events
      BY DEF DayType
    <3> HIDE DEF t
    <3>2. t \in DayType /\ Alternate(s, f, up) = Emit(t, e)
      BY <2>5, <2>7 DEF t
    <3> QED
      BY <2>6, <3>1, <3>2, EmitTyped
  <2>9. Alternates(s, Alternate(s, f, up), f, up)
    <3>1. Accepts(c, f, up)
      BY <1>2, <2>1 DEF Accepts, Same
    <3> QED
      BY <2>8, <3>1 DEF Alternates, d, e
  <2> QED
    BY <2>8, <2>9
<1> QED
  BY <1>1, <1>2

\* A fact of a rise, and a recovered rise that has not alternated yet.
Rises(f) == f.title \in {"BullFlip", "BullAlternation"}
Withheld(c) == c # NoCycle /\ c.recovery /\ c.alternated = Never

\* What one fact makes of the cycle and the events of a day.
Consumed(s, r, f) ==
  \/ r.cycle = s.cycle /\ r.events = s.events
  \/ FlipStarts(s, r, f, Rises(f))
  \/ FlipMoves(s, r, f, Rises(f))
  \/ f.title # FlipTitle(Rises(f)) /\ Alternates(s, r, f, Rises(f))

\* A rise gets through only while no recovery is under way.
LEMMA ConsumeDoes ==
  ASSUME Typed, NEW s \in DayType, NEW f \in FactType
  PROVE  /\ Consume(s, f) \in DayType
         /\ \/ Consume(s, f) = s
            \/ /\ Rises(f) => s.recovery.breach = Never /\ ~Withheld(s.cycle)
               /\ Consume(s, f).recovery \in {s.recovery, NoRecovery}
               /\ Consumed(s, Consume(s, f), f)
<1> DEFINE up == Rises(f)
           c == s.cycle
           r == Consume(s, f)
           withheld == \/ up /\ s.recovery.breach # Never
                       \/ Withheld(c)
           open == IF withheld THEN [s EXCEPT !.recovery = NoRecovery] ELSE s
<1>0. up \in BOOLEAN
  BY DEF Rises
<1>1. up => ~KeyBroken(f.origin, f.point, f)
  BY DEF KeyBroken, Rises
<1>2. CASE withheld /\ ~KeyBroken(f.origin, f.point, f)
  BY <1>2 DEF Consume, Rises, Withheld
<1>3. CASE ~(withheld /\ ~KeyBroken(f.origin, f.point, f))
  <2>1. up => ~withheld
    BY <1>1, <1>3
  <2>2. /\ open \in DayType /\ open.recovery \in {s.recovery, NoRecovery}
        /\ open.cycle = s.cycle /\ open.events = s.events
    BY Blanks DEF DayType
  <2>3. r = IF f.title = FlipTitle(up) THEN Flip(open, f, up) ELSE Alternate(open, f, up)
    BY <1>3 DEF Consume, Rises, Withheld
  <2> HIDE DEF open, r, up
  <2>4. CASE f.title = FlipTitle(up)
    <3>1. /\ r \in DayType /\ r.recovery = open.recovery
          /\ r = open \/ FlipStarts(open, r, f, up) \/ FlipMoves(open, r, f, up)
      BY <1>0, <2>2, <2>3, <2>4, FlipDoes
    <3>2. (r.cycle = s.cycle /\ r.events = s.events) \/ FlipStarts(s, r, f, up) \/ FlipMoves(s, r, f, up)
      BY <2>2, <3>1 DEF FlipStarts, FlipMoves
    <3> QED
      BY <2>1, <2>2, <3>1, <3>2 DEF up, r, Consumed
  <2>5. CASE f.title # FlipTitle(up)
    <3>1. /\ r \in DayType /\ r.recovery = open.recovery
          /\ r = open \/ Alternates(open, r, f, up)
      BY <1>0, <2>2, <2>3, <2>5, AlternateDoes
    <3>2. (r.cycle = s.cycle /\ r.events = s.events) \/ Alternates(s, r, f, up)
      BY <2>2, <3>1 DEF Alternates
    <3> QED
      BY <2>1, <2>2, <2>5, <3>1, <3>2 DEF up, r, Consumed
  <2> QED
    BY <2>4, <2>5
<1> QED
  BY <1>2, <1>3

\* One step of the fold over the new facts.
LEMMA TakeDoes ==
  ASSUME Typed, NEW s \in DayType, NEW f \in FactType
  PROVE  /\ Taken(TRUE, s, f) \in DayType
         /\ \/ Taken(TRUE, s, f).recovery = s.recovery
            \/ Taken(TRUE, s, f).recovery = NoRecovery
            \/ s.recovery.breach = Never /\ Taken(TRUE, s, f).recovery = [NoRecovery EXCEPT !.seed = f]
         /\ \/ Taken(TRUE, s, f).cycle = s.cycle /\ Taken(TRUE, s, f).events = s.events
            \/ /\ Rises(f) => s.recovery.breach = Never /\ ~Withheld(s.cycle)
               /\ Consumed(s, Taken(TRUE, s, f), f)
<1> DEFINE t == StartRecovery(s, f)
           r == Consume(t, f)
<1>1. /\ t \in DayType /\ t.cycle = s.cycle /\ t.events = s.events
      /\ t.recovery = s.recovery \/ (s.recovery.breach = Never /\ t.recovery = [NoRecovery EXCEPT !.seed = f])
  BY StartRecoveryDoes
<1> HIDE DEF t
<1>2. /\ r \in DayType
      /\ \/ r = t
         \/ /\ Rises(f) => t.recovery.breach = Never /\ ~Withheld(t.cycle)
            /\ r.recovery \in {t.recovery, NoRecovery}
            /\ Consumed(t, r, f)
  BY <1>1, ConsumeDoes
<1>3. Taken(TRUE, s, f) = r
  BY DEF Taken, t
<1> HIDE DEF r
<1>4. t.recovery.breach = Never => s.recovery.breach = Never
  BY <1>1
<1>5. Consumed(t, r, f) => Consumed(s, r, f)
  BY <1>1 DEF Consumed, FlipStarts, FlipMoves, Alternates
<1> QED
  BY <1>1, <1>2, <1>3, <1>4, <1>5

\* A recovery: nothing is recovered that has not fallen.
Sound(r) ==
  /\ r.breach = Never => r.recovered = Never
  /\ r.recovered # Never => r.recovered >= r.breach
  /\ r.breach <= now

\* A recovery that goes on keeps its seed, and the day it fell.
LEMMA RecoveredDoes ==
  ASSUME Typed, now >= 0, NEW r \in RecoveryType, Sound(r)
  PROVE  /\ Recovered(r) \in RecoveryType /\ Sound(Recovered(r))
         /\ \/ Recovered(r) = r
            \/ Recovered(r) = NoRecovery
            \/ /\ Recovered(r).seed = r.seed
               /\ Recovered(r).breach = IF r.breach = Never THEN now ELSE r.breach
<1> DEFINE breach == IF r.breach = Never THEN now ELSE r.breach
           lower == IF Today.low < Yesterday.low THEN r.lower + 1 ELSE 0
           low == r.seed.origin.price
           to == CASE Today.close < low -> Never
                   [] Today.close > low /\ r.recovered = Never -> now
                   [] OTHER -> r.recovered
           q == [r EXCEPT !.breach = breach, !.lower = lower, !.recovered = to]
<1>1. /\ now \in Int /\ breach \in Int /\ lower \in Int /\ to \in {Never, now, r.recovered}
      /\ r.recovered \in Int /\ r.breach \in Int
  <2>1. now \in Int /\ r.breach \in Int /\ r.lower \in Int /\ r.recovered \in Int
    BY TrendAssumption DEF Typed, Never, RecoveryType
  <2> QED
    BY <2>1
<1>2. CASE Recovered(r) = r
  BY <1>2
<1>3. CASE Recovered(r) = NoRecovery
  BY <1>1, <1>3, Blanks DEF Sound, NoRecovery, Never
<1>4. CASE Recovered(r) # r /\ Recovered(r) # NoRecovery
  <2>1. Recovered(r) = [r EXCEPT !.breach = breach, !.lower = lower,
                                 !.recovered = CASE Today.close < low -> Never
                                                 [] Today.close > low /\ @ = Never -> now
                                                 [] OTHER -> @]
    BY <1>4, Zenon DEF Recovered
  <2>2. Recovered(r) = q
    BY <2>1 DEF RecoveryType
  <2> HIDE DEF breach, lower, to
  <2>3. /\ q \in RecoveryType /\ q.seed = r.seed /\ q.breach = breach /\ q.recovered = to
    BY <1>1, Blanks DEF RecoveryType
  <2> HIDE DEF q
  <2>4. Sound(q)
    BY <1>1, <2>3 DEF Sound, Never, breach
  <2> QED
    BY <2>2, <2>3, <2>4 DEF breach
<1> QED
  BY <1>2, <1>3, <1>4

\* The rise of a broken flip that is recovered.
SpecialCycle(r, k) ==
  [NewCycle(TRUE, points[k+1], points[k+2], {r.seed}) EXCEPT
     !.recovery = TRUE, !.structure = SubSeq(points, k, k + 2)]

\* The cycle a recovery starts.
LEMMA SpecialTyped ==
  ASSUME Typed, NEW r \in RecoveryType, NEW k \in 1..(Len(points) - 2)
  PROVE  /\ SpecialCycle(r, k) \in CycleType /\ SpecialCycle(r, k) \in CycleShape
         /\ IsUp(SpecialCycle(r, k)) /\ SpecialCycle(r, k).state = "BULL_FLIP"
         /\ SpecialCycle(r, k).recovery /\ SpecialCycle(r, k).origin = points[k+1]
         /\ SpecialCycle(r, k).impulse = points[k+2] /\ SpecialCycle(r, k).started = now
         /\ SpecialCycle(r, k).counter = NoPivot /\ SpecialCycle(r, k).alternated = Never
         /\ SpecialCycle(r, k).gap = NoGap /\ SpecialCycle(r, k).closed = Never
         /\ SpecialCycle(r, k).evidence = {r.seed}
         /\ SpecialCycle(r, k).structure = SubSeq(points, k, k + 2)
<1> DEFINE n == NewCycle(TRUE, points[k+1], points[k+2], {r.seed})
           c == SpecialCycle(r, k)
<1>1. /\ SubSeq(points, k, k + 2) \in Seq(Pivots) /\ Len(SubSeq(points, k, k + 2)) = 3
      /\ points[k+1] \in Pivots /\ points[k+2] \in Pivots
  BY ThreePoints DEF Typed
<1>2. {r.seed} \in SUBSET FactType
  BY DEF RecoveryType
<1>3. n \in CycleShape
  BY <1>1, <1>2, NewCycleTyped
<1>4. c = [n EXCEPT !.recovery = TRUE, !.structure = SubSeq(points, k, k + 2)]
  BY DEF SpecialCycle
<1>5. /\ n.state = "BULL_FLIP" /\ n.origin = points[k+1] /\ n.impulse = points[k+2] /\ n.started = now
      /\ n.counter = NoPivot /\ n.alternated = Never /\ n.gap = NoGap /\ n.closed = Never
      /\ n.evidence = {r.seed}
  BY DEF NewCycle, FlipState
<1> HIDE DEF n, c
<1>6. /\ c \in CycleShape /\ c.recovery /\ c.structure = SubSeq(points, k, k + 2)
      /\ c.state = "BULL_FLIP" /\ c.origin = points[k+1] /\ c.impulse = points[k+2] /\ c.started = now
      /\ c.counter = NoPivot /\ c.alternated = Never /\ c.gap = NoGap /\ c.closed = Never
      /\ c.evidence = {r.seed}
  BY <1>1, <1>3, <1>4, <1>5 DEF CycleShape
<1>7. IsUp(c)
  BY <1>6 DEF IsUp
<1>8. c \in CycleType
  BY <1>1, <1>6, <1>7 DEF CycleType
<1> QED
  BY <1>6, <1>7, <1>8 DEF c

Pending == Event("invalidated", NoCycle, NoFact, "bull_recovery_pending")

\* A recovery goes on or ends without a sign; falls; or is recovered.
Waits(s, r) ==
  /\ r.cycle = s.cycle /\ r.events = s.events
  /\ \/ r.recovery = NoRecovery
     \/ /\ s.recovery # NoRecovery
        /\ r.recovery.breach = s.recovery.breach /\ r.recovery.seed = s.recovery.seed

Falls(s, r) ==
  /\ s.recovery # NoRecovery /\ s.recovery.breach = Never
  /\ r.recovery.breach = now /\ r.recovery.seed = s.recovery.seed
  /\ r.cycle = IF s.cycle # NoCycle /\ IsUp(s.cycle) THEN NoCycle ELSE s.cycle
  /\ r.events = Append(s.events, Pending)

Rebounds(s, r) ==
  /\ s.recovery.breach # Never /\ r.recovery = NoRecovery
  /\ \E q \in RecoveryType : \E k \in 1..(Len(points) - 2) :
        /\ q.breach = s.recovery.breach /\ q.recovered # Never /\ Sound(q) /\ k \in SpecialFlips(q)
        /\ r.cycle = SpecialCycle(q, k) /\ q.seed = s.recovery.seed
  /\ r.events = Append(s.events, Event("state", r.cycle, NoFact, "none"))

\* A recovery waits, finds that its flip was broken, or starts a cycle.
LEMMA AdvanceRecoveryDoes ==
  ASSUME Typed, Vertices, now >= 0, NEW s \in DayType, Sound(s.recovery)
  PROVE  /\ AdvanceRecovery(s) \in DayType /\ Sound(AdvanceRecovery(s).recovery)
         /\ \/ Waits(s, AdvanceRecovery(s))
            \/ Falls(s, AdvanceRecovery(s))
            \/ Rebounds(s, AdvanceRecovery(s))
<1> DEFINE r == s.recovery
           q == Recovered(r)
           fell == r.breach = Never /\ q.breach # Never
           s1 == [s EXCEPT !.recovery = q]
           left == IF s1.cycle # NoCycle /\ IsUp(s1.cycle) THEN NoCycle ELSE s1.cycle
           s2 == IF fell THEN Emit([s1 EXCEPT !.cycle = left], Pending) ELSE s1
           k == CHOOSE i \in SpecialFlips(q) : \A j \in SpecialFlips(q) : i <= j
           rebounds == q.recovered # Never /\ SpecialFlips(q) # {}
           a == AdvanceRecovery(s)
<1>1. r \in RecoveryType /\ s.cycle \in CycleOrNone /\ NoCycle \in CycleOrNone
  BY DEF DayType, CycleOrNone
<1>2. /\ q \in RecoveryType /\ Sound(q)
      /\ \/ q = r \/ q = NoRecovery
         \/ q.seed = r.seed /\ q.breach = IF r.breach = Never THEN now ELSE r.breach
  BY <1>1, RecoveredDoes
<1>3. a = IF r = NoRecovery THEN s
          ELSE IF rebounds THEN Become([s2 EXCEPT !.recovery = NoRecovery], "state", SpecialCycle(q, k), NoFact)
          ELSE s2
  <2>1. s1.cycle = s.cycle
    BY DEF DayType
  <2>2. [s1 EXCEPT !.cycle = IF @ # NoCycle /\ IsUp(@) THEN NoCycle ELSE @] = [s1 EXCEPT !.cycle = left]
    BY DEF DayType
  <2> QED
    BY <2>2, Zenon DEF AdvanceRecovery, Pending, SpecialCycle
<1> HIDE DEF q, k, a
<1>4. Pending \in EventType
  <2>1. "invalidated" \in Kinds /\ "bull_recovery_pending" \in Reasons
    BY DEF Kinds, Reasons
  <2> QED
    BY <1>1, <2>1, Blanks, EventTyped DEF Pending
<1>5. s1 \in DayType /\ s1.cycle = s.cycle /\ s1.events = s.events /\ s1.recovery = q
  BY <1>2 DEF DayType
<1> HIDE DEF s1
<1>6. /\ s2 \in DayType /\ s2.recovery = q
      /\ fell => s2.cycle = left /\ s2.events = Append(s.events, Pending)
      /\ ~fell => s2.cycle = s.cycle /\ s2.events = s.events
  <2>1. CASE fell
    <3> DEFINE t == [s1 EXCEPT !.cycle = left]
    <3>1. t \in DayType /\ t.cycle = left /\ t.events = s.events /\ t.recovery = q
      BY <1>1, <1>5 DEF DayType
    <3> HIDE DEF t
    <3>2. s2 = Emit(t, Pending)
      BY <2>1 DEF t
    <3> HIDE DEF s2, left
    <3>3. /\ s2 \in DayType /\ s2.cycle = t.cycle /\ s2.recovery = t.recovery
          /\ s2.events = Append(t.events, Pending)
      BY <1>4, <3>1, <3>2, EmitTyped
    <3> QED
      BY <2>1, <3>1, <3>3
  <2>2. CASE ~fell
    BY <1>5, <2>2
  <2> QED
    BY <2>1, <2>2
<1>7. fell => q.breach = now /\ q.seed = r.seed
  BY <1>2 DEF NoRecovery
<1>8. ~fell => q = NoRecovery \/ (q.breach = r.breach /\ q.seed = r.seed)
  BY <1>2 DEF NoRecovery
<1> HIDE DEF s2
<1>9. CASE r = NoRecovery
  <2>1. a = s
    BY <1>3, <1>9
  <2> QED
    BY <2>1 DEF Waits, a
<1>10. CASE r # NoRecovery /\ ~rebounds
  <2>1. a = s2
    BY <1>3, <1>10
  <2>2. CASE fell
    BY <1>2, <1>5, <1>6, <1>7, <1>10, <2>1, <2>2 DEF Falls, a
  <2>3. CASE ~fell
    BY <1>2, <1>6, <1>8, <1>10, <2>1, <2>3 DEF Waits, a
  <2> QED
    BY <2>2, <2>3
<1>11. CASE r # NoRecovery /\ rebounds
  <2>1. SpecialFlips(q) \in SUBSET (1..Len(points)) /\ Len(points) \in Nat
    BY DEF SpecialFlips, Typed
  <2>2. k \in SpecialFlips(q)
    <3>1. \E i \in SpecialFlips(q) : \A j \in SpecialFlips(q) : i <= j
      BY <1>11, <2>1, FirstPlace
    <3> QED
      BY <3>1, Zenon DEF k
  <2>3. k \in 1..(Len(points) - 2) /\ points[k+1].index >= q.breach
    BY <2>2 DEF SpecialFlips
  <2>4. points[k+1].index < now
    <3>1. k + 1 \in 1..Len(points)
      BY <2>1, <2>3
    <3>2. points[k+1].index < points[k+1].known /\ points[k+1].known <= now
      BY <3>1 DEF Vertices
    <3>3. points[k+1] \in Pivots /\ now \in Int
      BY <3>1, TrendAssumption DEF Typed, Never
    <3>4. points[k+1].index \in Int /\ points[k+1].known \in Int
      BY <3>3 DEF Pivots
    <3> QED
      BY <3>2, <3>3, <3>4
  <2>5. ~fell
    <3>1. points[k+1] \in Pivots /\ now \in Int
      BY <2>1, <2>3, TrendAssumption DEF Typed, Never
    <3>2. points[k+1].index \in Int
      BY <3>1 DEF Pivots
    <3> QED
      BY <1>7, <2>3, <2>4, <3>1, <3>2
  <2>6. /\ q.recovered # Never /\ q # NoRecovery /\ q.breach # Never /\ q.breach = r.breach
        /\ q.seed = r.seed
    BY <1>2, <1>8, <1>11, <2>5 DEF NoRecovery, Sound
  <2> DEFINE t == [s2 EXCEPT !.recovery = NoRecovery]
             c == SpecialCycle(q, k)
  <2>7. t \in DayType /\ t.cycle = s.cycle /\ t.events = s.events /\ t.recovery = NoRecovery
    BY <1>6, <2>5, Blanks DEF DayType
  <2>8. c \in CycleOrNone /\ "state" \in Kinds /\ NoFact \in FactType
    BY <1>2, <2>3, SpecialTyped, Blanks DEF CycleOrNone, Kinds
  <2>9. a = Become(t, "state", c, NoFact)
    BY <1>3, <1>11
  <2> HIDE DEF t, c
  <2>10. /\ a \in DayType /\ a.recovery = NoRecovery /\ a.cycle = c
         /\ a.events = Append(s.events, Event("state", c, NoFact, "none"))
    BY <2>7, <2>8, <2>9, BecomeTyped
  <2>11. Rebounds(s, a)
    BY <1>2, <2>2, <2>3, <2>6, <2>10 DEF Rebounds, c
  <2>12. Sound(NoRecovery)
    BY TrendAssumption DEF Typed, Sound, NoRecovery, Never
  <2> QED
    BY <2>10, <2>11, <2>12 DEF a
<1> QED
  BY <1>9, <1>10, <1>11

\* The bars of the course so far.
LEMMA BarTyped ==
  ASSUME Typed, NEW d \in 0..now
  PROVE  Bar(d) \in Prices /\ Bar(d).low \in Int /\ Bar(d).high \in Int /\ Bar(d).close \in Int
<1>1. now \in Int /\ d + 1 \in 1..(now + 1)
  BY TrendAssumption DEF Typed, Never
<1>2. bars[d + 1] \in Prices
  BY <1>1 DEF Typed
<1> QED
  BY <1>2 DEF Bar, Prices

\* The vertices of the path.
LEMMA PathTyped ==
  ASSUME Typed
  PROVE  Len(points) \in Nat /\ DOMAIN points = 1..Len(points)
  BY DEF Typed

\* The vertex at a place of the path.
LEMMA PlaceTyped ==
  ASSUME Typed, NEW i \in 1..Len(points)
  PROVE  /\ points[i] \in Pivots /\ points[i] \in ToSet(points)
         /\ points[i].index \in Int /\ points[i].known \in Int /\ points[i].price \in Int
<1>1. points \in Seq(Pivots)
  BY DEF Typed
<1>2. points[i] \in Pivots
  BY <1>1
<1> QED
  BY <1>2, PathTyped DEF ToSet, Pivots

\* A vertex of the path and its place.
LEMMA PointTyped ==
  ASSUME Typed, NEW p \in ToSet(points)
  PROVE  /\ \E i \in 1..Len(points) : p = points[i]
         /\ p \in Pivots /\ p.index \in Int /\ p.known \in Int /\ p.price \in Int
<1>1. PICK i \in DOMAIN points : p = points[i]
  BY DEF ToSet
<1> QED
  BY <1>1, PathTyped, PlaceTyped

\* A later bar is a later place, and was not confirmed earlier.
LEMMA LaterPoint ==
  ASSUME Typed, Vertices, NEW i \in 1..Len(points), NEW j \in 1..Len(points),
         points[i].index < points[j].index
  PROVE  i < j /\ points[i].known <= points[j].known
<1>1. Len(points) \in Nat
  BY DEF Typed
<1>2. points[i].index \in Int /\ points[j].index \in Int
  BY PlaceTyped
<1>3. ~(j < i) /\ j # i
  BY <1>2 DEF Vertices
<1>4. i < j
  BY <1>1, <1>3
<1> QED
  BY <1>4 DEF Vertices

\* The lowest of some places, the first of those that are as low.
LEMMA LowestPlace ==
  ASSUME Typed, NEW s \in SUBSET (1..Len(points)), s # {}
  PROVE  \E i \in s : \A j \in s :
            points[i].price < points[j].price \/ (points[i].price = points[j].price /\ i <= j)
<1> DEFINE Low(i, j) == points[i].price < points[j].price \/ (points[i].price = points[j].price /\ i <= j)
           F == {T \in SUBSET s : T # {} => \E m \in T : \A i \in T : Low(m, i)}
<1>0. Len(points) \in Nat /\ \A i \in s : i \in Nat /\ points[i].price \in Int
  <2>1. \A i \in s : i \in 1..Len(points)
    OBVIOUS
  <2> QED
    BY <2>1, PathTyped, PlaceTyped
<1>1. ASSUME NEW T \in SUBSET s, \A U \in SUBSET T : U # T => U \in F
      PROVE  T \in F
  <2> SUFFICES ASSUME T # {} PROVE \E m \in T : \A i \in T : Low(m, i)
    OBVIOUS
  <2>1. PICK x \in T : TRUE
    OBVIOUS
  <2>2. T \ {x} \in F
    BY <1>1, <2>1
  <2>3. CASE T \ {x} = {}
    <3>1. \A i \in T : i = x /\ Low(x, i)
      BY <1>0, <2>1, <2>3
    <3> QED
      BY <2>1, <3>1
  <2>4. CASE T \ {x} # {}
    <3>1. PICK m \in T \ {x} : \A i \in T \ {x} : Low(m, i)
      BY <2>2, <2>4
    <3>2. CASE Low(m, x)
      <4>1. \A i \in T : Low(m, i)
        BY <3>1, <3>2
      <4> QED
        BY <3>1, <4>1
    <3>3. CASE ~Low(m, x)
      <4>1. Low(x, m) /\ Low(x, x)
        BY <1>0, <2>1, <3>1, <3>3
      <4>2. \A i \in T : Low(x, i)
        BY <1>0, <2>1, <3>1, <4>1
      <4> QED
        BY <2>1, <4>2
    <3> QED
      BY <3>2, <3>3
  <2> QED
    BY <2>3, <2>4
<1> HIDE DEF F
<1>2. s \in F
  <2>1. \A T \in SUBSET s : (\A U \in SUBSET T : U # T => U \in F) => T \in F
    BY <1>1
  <2> QED
    BY <1>0, <2>1, FinitePlaces, SubsetInduction
<1> QED
  BY <1>2 DEF F

ProofType == [low : Pivots, trend : Seq(Pivots), source : SUBSET Pivots, known : Int, gap : Gaps]

\* What a proof of an alternation gives: a low above the origin, on vertices of the path,
\* known after the search began and no earlier than the impulse; a gap is that of today.
Proof(c, p) ==
  /\ p \in ProofType
  /\ p.low.price > c.origin.price
  /\ \A i \in 1..Len(p.trend) : p.trend[i] \in ToSet(points)
  /\ p.known > c.closed /\ p.known >= c.impulse.known
  /\ p.gap # NoGap => p.gap.index = now

\* Proofs by the path.
LEMMA OrdinaryProof ==
  ASSUME Typed, Vertices, NEW c \in CycleShape, c.impulse \in ToSet(points),
         NEW p \in OrdinaryProofs(c)
  PROVE  Proof(c, p)
<1> DEFINE lows == {k \in DOMAIN points : /\ points[k].kind = "L" /\ points[k].index > c.impulse.index
                                          /\ points[k].known > c.closed}
           k == CHOOSE i \in lows : \A j \in lows :
                  points[i].price < points[j].price \/ (points[i].price = points[j].price /\ i <= j)
           low == points[k]
           highs == {j \in DOMAIN points : /\ points[j].kind = "H" /\ points[j].index > low.index
                                           /\ points[j].price > c.impulse.price}
           h == CHOOSE j \in highs : \A i \in highs : j <= i
           high == points[h]
           shallow == 3 * (c.impulse.price - low.price) < 2 * (c.impulse.price - c.origin.price)
           sound == lows # {} /\ ~Broken(low) /\ c.origin.price < low.price /\ low.price < c.impulse.price
           one == [NoProof EXCEPT !.low = low, !.trend = <<low>>, !.known = low.known]
           two == [NoProof EXCEPT !.low = low, !.trend = <<low, high>>, !.known = high.known]
<1>1. p \in CASE sound /\ shallow -> {one}
              [] sound /\ ~shallow /\ highs # {} -> {q \in {two} : q.known > c.closed}
              [] OTHER -> {}
  BY DEF OrdinaryProofs
<1>2. sound
  BY <1>1
<1>3. Len(points) \in Nat /\ DOMAIN points = 1..Len(points)
  BY DEF Typed
<1>4. k \in lows
  <2>1. lows \in SUBSET (1..Len(points)) /\ lows # {}
    BY <1>2, <1>3
  <2>2. \E i \in lows : \A j \in lows :
            points[i].price < points[j].price \/ (points[i].price = points[j].price /\ i <= j)
    <3> HIDE DEF lows
    <3> QED
      BY <2>1, LowestPlace
  <2> HIDE DEF lows
  <2> QED
    BY <2>2, Zenon
<1> HIDE DEF k
<1>5. /\ k \in 1..Len(points) /\ low.index > c.impulse.index /\ low.known > c.closed
      /\ c.origin.price < low.price
  BY <1>2, <1>3, <1>4
<1>6. low \in Pivots /\ low \in ToSet(points) /\ low.known \in Int /\ low.index \in Int /\ low.price \in Int
  BY <1>5, PlaceTyped
<1>7. PICK i \in 1..Len(points) : c.impulse = points[i]
  BY PointTyped
<1>8. low.known >= c.impulse.known
  <2>1. points[i].known <= points[k].known
    <3>1. points[i].index \in Int /\ points[k].index \in Int
      BY <1>5, PlaceTyped
    <3> QED
      BY <1>5, <1>7, <3>1, LaterPoint
  <2>2. points[i].known \in Int /\ points[k].known \in Int
    BY <1>5, PlaceTyped
  <2> QED
    BY <1>7, <2>1, <2>2
<1>9. c.origin.price \in Int
  BY DEF CycleShape, Pivots
<1> HIDE DEF lows
<1>10. CASE sound /\ shallow
  <2>1. p = one
    BY <1>1, <1>10
  <2> DEFINE t == <<low>>
  <2>2. t \in Seq(Pivots) /\ Len(t) = 1 /\ t[1] = low
    BY <1>6
  <2>3. /\ one.low = low /\ one.trend = t /\ one.known = low.known /\ one \in ProofType
        /\ one.gap = NoGap
    <3> HIDE DEF t, low
    <3> QED
      BY <1>6, <2>2, Blanks DEF NoProof, ProofType, t
  <2> HIDE DEF one, t, low
  <2>4. \A j \in 1..Len(t) : t[j] \in ToSet(points)
    BY <1>6, <2>2
  <2> QED
    BY <1>5, <1>6, <1>8, <1>9, <2>1, <2>3, <2>4 DEF Proof
<1>11. CASE ~(sound /\ shallow)
  <2>1. highs # {} /\ p = two /\ p.known > c.closed
    BY <1>1, <1>2, <1>11
  <2>2. h \in highs
    <3>1. highs \in SUBSET (1..Len(points))
      BY <1>3
    <3>2. \E j \in highs : \A m \in highs : j <= m
      <4> HIDE DEF highs
      <4> QED
        BY <1>3, <2>1, <3>1, FirstPlace
    <3> HIDE DEF highs
    <3> QED
      BY <3>2, Zenon
  <2> HIDE DEF h
  <2>3. h \in 1..Len(points) /\ high.index > low.index
    BY <1>3, <2>2
  <2>4. high \in Pivots /\ high \in ToSet(points) /\ high.known \in Int /\ high.index \in Int
    BY <2>3, PlaceTyped
  <2>5. high.known >= c.impulse.known
    <3>1. points[k].known <= points[h].known
      BY <1>5, <1>6, <2>3, <2>4, LaterPoint
    <3>2. c.impulse.known \in Int
      BY DEF CycleShape, Pivots
    <3> QED
      BY <1>6, <1>8, <2>4, <3>1, <3>2
  <2> HIDE DEF highs
  <2> DEFINE t == <<low, high>>
  <2>6. t \in Seq(Pivots) /\ Len(t) = 2 /\ t[1] = low /\ t[2] = high
    BY <1>6, <2>4
  <2>7. /\ two.low = low /\ two.trend = t /\ two.known = high.known /\ two \in ProofType
        /\ two.gap = NoGap
    <3> HIDE DEF t, low, high
    <3> QED
      BY <1>6, <2>4, <2>6, Blanks DEF NoProof, ProofType, t
  <2> HIDE DEF two, t, low, high
  <2>8. \A j \in 1..Len(t) : t[j] \in ToSet(points)
    <3>1. \A j \in 1..2 : j = 1 \/ j = 2
      OBVIOUS
    <3> QED
      BY <1>6, <2>4, <2>6, <3>1
  <2> QED
    BY <1>5, <1>6, <1>9, <2>1, <2>5, <2>7, <2>8 DEF Proof
<1> QED
  BY <1>10, <1>11

\* Proofs by a volume, a gap or an N of today.
LEMMA PolylineProof ==
  ASSUME Typed, Vertices, NEW c \in CycleShape, c.impulse \in ToSet(points), c.closed < now,
         NEW p \in PolylineProofs(c)
  PROVE  Proof(c, p)
<1> DEFINE gaps == {NoGap} \cup PolylineGaps(c)
<1>1. PICK v \in PolylineLows(c), g \in gaps : p = DayProof(v, g)
  BY DEF PolylineProofs
<1>2. PICK d \in (c.impulse.index + 1)..(now - 1) : v = Vertex("L", d)
  BY <1>1 DEF PolylineLows
<1>3. c.origin.price < v.price
  BY <1>1 DEF PolylineLows
<1>4. PICK i \in 1..Len(points) : c.impulse = points[i]
  BY PointTyped
<1>5. 0 <= c.impulse.index /\ c.impulse.known <= now /\ c.impulse.index \in Int /\ c.impulse.known \in Int
  BY <1>4, PlaceTyped DEF Vertices
<1>6. now \in Int /\ now - 1 \in 0..now /\ d \in 0..now
  <2>1. now \in Int
    BY TrendAssumption DEF Typed, Never
  <2> QED
    BY <1>5, <2>1
<1>7. v \in Pivots
  <2>1. Bar(d).low \in Int
    BY <1>6, BarTyped
  <2> QED
    <3>1. v = [index |-> d, kind |-> "L", known |-> now, price |-> Bar(d).low]
      BY <1>2 DEF Vertex
    <3> QED
      BY <1>6, <2>1, <3>1 DEF Pivots
<1>8. g \in Gaps /\ (g # NoGap => g.index = now)
  BY <1>6, Blanks DEF PolylineGaps, Gaps
<1> HIDE DEF gaps
<1>9. <<>> \in Seq(Pivots) /\ Len(<<>>) = 0
  BY DEF Pivots
<1>10. /\ p \in ProofType /\ p.low = v /\ p.trend = <<>> /\ p.known = now
       /\ p.gap # NoGap => p.gap.index = now
  BY <1>1, <1>6, <1>7, <1>8, <1>9, Blanks DEF DayProof, NoProof, ProofType
<1>11. 1..Len(<<>>) = {}
  BY <1>9
<1> QED
  BY <1>3, <1>5, <1>6, <1>10, <1>11 DEF Proof

\* The key of a rise that is drawn.
LEMMA KeyDrawn ==
  ASSUME Typed, NEW c, KeyOf(c) \in ToSet(points)
  PROVE  KeyOf(c) \in Pivots
  BY PointTyped

\* A rise that a proof alternates, and what it makes of it.
Proven(c, p) ==
  [c EXCEPT !.state = "BULL_ALTERNATION", !.counter = p.low, !.alternated = now,
            !.structure = <<KeyOf(c), c.origin, c.impulse>> \o p.trend,
            !.source = p.source, !.gap = p.gap, !.closed = Never]

Proves(s, r) ==
  LET c == s.cycle IN
  /\ c \in CycleType /\ NeedsConfirmation(c) /\ r.recovery = s.recovery
  /\ KeyOf(c) \in ToSet(points) /\ c.origin \in ToSet(points) /\ c.impulse \in ToSet(points)
  /\ c.origin.index < c.impulse.index
  /\ \E p : /\ Proof(c, p) /\ r.cycle = Proven(c, p)
            /\ r.events = Append(s.events, [Event("state", r.cycle, NoFact, "none") EXCEPT
                                              !.known = p.known, !.replaces = c.gap.index])

\* One sequence after the other.
LEMMA Joined ==
  ASSUME NEW S, NEW a \in Seq(S), NEW b \in Seq(S)
  PROVE  /\ a \o b \in Seq(S) /\ Len(a \o b) = Len(a) + Len(b)
         /\ Len(a) \in Nat /\ Len(b) \in Nat
         /\ \A i \in 1..Len(a \o b) : (a \o b)[i] = IF i <= Len(a) THEN a[i] ELSE b[i - Len(a)]
  OBVIOUS

\* The cycle a proof makes.
LEMMA ProvenTyped ==
  ASSUME Typed, NEW c \in CycleType, IsUp(c), NEW p, Proof(c, p), KeyOf(c) \in ToSet(points)
  PROVE  /\ Proven(c, p) \in CycleType /\ Proven(c, p) \in CycleShape
         /\ IsUp(Proven(c, p)) /\ Len(Proven(c, p).structure) >= 3
         /\ Proven(c, p).structure[1] = KeyOf(c) /\ Proven(c, p).structure[2] = c.origin
         /\ Proven(c, p).structure[3] = c.impulse
         /\ \A i \in 1..Len(Proven(c, p).structure) :
               i > 3 => Proven(c, p).structure[i] \in ToSet(points)
         /\ Proven(c, p).state = "BULL_ALTERNATION" /\ Proven(c, p).counter = p.low
         /\ Proven(c, p).alternated = now /\ Proven(c, p).gap = p.gap /\ Proven(c, p).closed = Never
         /\ Proven(c, p).origin = c.origin /\ Proven(c, p).impulse = c.impulse
         /\ Proven(c, p).started = c.started /\ Proven(c, p).evidence = c.evidence
         /\ Proven(c, p).recovery = c.recovery
<1> DEFINE k == KeyOf(c)
           three == <<k, c.origin, c.impulse>>
           q == p.trend
           st == three \o q
           r == Proven(c, p)
<1>1. c \in CycleShape /\ now \in Int /\ k \in Pivots /\ c.origin \in Pivots /\ c.impulse \in Pivots
  BY KeyDrawn, TrendAssumption DEF CycleType, CycleShape, Typed, Never
<1>2. p \in ProofType /\ q \in Seq(Pivots) /\ \A i \in 1..Len(q) : q[i] \in ToSet(points)
  BY DEF Proof, ProofType
<1> HIDE DEF k, q
<1>3. three \in Seq(Pivots) /\ Len(three) = 3 /\ three[1] = k /\ three[2] = c.origin /\ three[3] = c.impulse
  BY <1>1
<1> HIDE DEF three
<1>4. /\ st \in Seq(Pivots) /\ Len(st) >= 3
      /\ st[1] = k /\ st[2] = c.origin /\ st[3] = c.impulse
      /\ \A i \in 1..Len(st) : i > 3 => st[i] \in ToSet(points)
  <2>1. /\ st \in Seq(Pivots) /\ Len(st) = Len(three) + Len(q) /\ Len(q) \in Nat
        /\ \A i \in 1..Len(st) : st[i] = IF i <= Len(three) THEN three[i] ELSE q[i - Len(three)]
    BY <1>2, <1>3, Joined
  <2>2. \A i \in 1..Len(st) : st[i] = IF i <= Len(three) THEN three[i] ELSE q[i - Len(three)]
    BY <2>1
  <2>3. st[1] = three[1] /\ st[2] = three[2] /\ st[3] = three[3]
    <3> HIDE DEF st
    <3> QED
      BY <1>3, <2>1, <2>2
  <2>4. ASSUME NEW i \in 1..Len(st), i > 3 PROVE st[i] \in ToSet(points)
    <3>1. i - 3 \in 1..Len(q) /\ st[i] = q[i - 3]
      <4> HIDE DEF st
      <4> QED
        BY <1>3, <2>1, <2>2, <2>4
    <3> QED
      BY <1>2, <3>1
  <2> HIDE DEF st
  <2> QED
    BY <1>3, <2>1, <2>3, <2>4, SMTT(30)
<1>5. r = [c EXCEPT !.state = "BULL_ALTERNATION", !.counter = p.low, !.alternated = now,
                    !.structure = st, !.source = p.source, !.gap = p.gap, !.closed = Never]
  BY DEF Proven, k, q, three
<1> HIDE DEF st, r
<1>6. /\ r \in CycleShape /\ r.structure = st /\ r.state = "BULL_ALTERNATION" /\ r.counter = p.low
      /\ r.alternated = now /\ r.gap = p.gap /\ r.closed = Never /\ r.origin = c.origin
      /\ r.impulse = c.impulse /\ r.started = c.started /\ r.evidence = c.evidence
      /\ r.recovery = c.recovery
  BY <1>1, <1>2, <1>4, <1>5, Blanks DEF CycleShape, ProofType, States
<1>7. IsUp(r)
  BY <1>6 DEF IsUp
<1>8. r \in CycleType
  BY <1>4, <1>6, <1>7 DEF CycleType
<1> QED
  BY <1>4, <1>6, <1>7, <1>8 DEF r, k

\* A rise waits for its proof, is proved, or is given up below its special origin.
LEMMA AdvanceAlternationDoes ==
  ASSUME Typed, Vertices, NEW s \in DayType, NEW r \in AdvanceAlternation(s)
  PROVE  /\ r \in DayType /\ r.recovery = s.recovery
         /\ \/ r = s
            \/ /\ s.cycle \in CycleType /\ IsUp(s.cycle) /\ r.cycle = NoCycle
               /\ r.events = Append(s.events, Event("invalidated", s.cycle, NoFact, "special_bull_origin_broken"))
            \/ Proves(s, r)
<1> DEFINE c == s.cycle
           key == KeyOf(c)
           drawn == /\ key # NoPivot
                    /\ key.index < c.origin.index /\ c.origin.index < c.impulse.index
                    /\ {key, c.origin, c.impulse} \subseteq ToSet(points)
           next(p) == [c EXCEPT !.state = "BULL_ALTERNATION", !.counter = p.low, !.alternated = now,
                                !.structure = <<key, c.origin, c.impulse>> \o p.trend,
                                !.source = p.source, !.gap = p.gap, !.closed = Never]
           alternated(p) == Emit([s EXCEPT !.cycle = next(p)],
                                 [Event("state", next(p), NoFact, "none") EXCEPT
                                    !.known = p.known, !.replaces = c.gap.index])
           broke == c.recovery /\ Broken(c.origin)
<1>1. CASE ~NeedsConfirmation(c)
  <2>1. r = s
    BY <1>1 DEF AdvanceAlternation
  <2> QED
    BY <2>1
<1>2. CASE NeedsConfirmation(c) /\ broke
  <2>1. r = Invalidate(s, "special_bull_origin_broken")
    BY <1>2 DEF AdvanceAlternation
  <2>2. "special_bull_origin_broken" \in Reasons
    BY DEF Reasons
  <2>3. c \in CycleType /\ IsUp(c)
    BY <1>2, CycleIsOne DEF NeedsConfirmation, DayType
  <2> QED
    BY <2>1, <2>2, <2>3, InvalidateTyped
<1>3. CASE NeedsConfirmation(c) /\ ~broke /\ ~drawn
  <2>1. r = s
    BY <1>3 DEF AdvanceAlternation
  <2> QED
    BY <2>1
<1>4. CASE NeedsConfirmation(c) /\ ~broke /\ drawn
  <2>1. PICK p \in Proofs(c) : r = IF p = NoProof THEN s ELSE alternated(p)
    BY <1>4 DEF AdvanceAlternation
  <2>2. CASE p = NoProof
    BY <2>1, <2>2
  <2>3. CASE p # NoProof
    <3>1. c \in CycleType /\ c \in CycleShape /\ IsUp(c)
      BY <1>4, CycleIsOne DEF NeedsConfirmation, DayType
    <3>2. Proof(c, p)
      <4>1. c.closed < now /\ p \in OrdinaryProofs(c) \cup PolylineProofs(c)
        <5>1. ~(c.closed >= now) /\ p \in OrdinaryProofs(c) \cup PolylineProofs(c)
          BY <2>3 DEF Proofs
        <5>2. c.closed \in Int /\ now \in Int
          BY <3>1, TrendAssumption DEF CycleShape, Typed, Never
        <5> QED
          BY <5>1, <5>2
      <4>2. c.impulse \in ToSet(points)
        BY <1>4
      <4> QED
        BY <3>1, <4>1, <4>2, OrdinaryProof, PolylineProof
    <3>3. KeyOf(c) \in ToSet(points) /\ c.origin \in ToSet(points) /\ c.impulse \in ToSet(points)
          /\ c.origin.index < c.impulse.index
      BY <1>4
    <3> DEFINE d == Proven(c, p)
               e == [Event("state", d, NoFact, "none") EXCEPT !.known = p.known, !.replaces = c.gap.index]
               t == [s EXCEPT !.cycle = d]
    <3>4. d \in CycleOrNone
      BY <3>1, <3>2, <3>3, ProvenTyped DEF CycleOrNone
    <3>5. r = Emit(t, e)
      BY <2>1, <2>3 DEF Proven
    <3> HIDE DEF d
    <3>6. e \in EventType
      <4>1. "state" \in Kinds /\ "none" \in Reasons
        BY DEF Kinds, Reasons
      <4>2. Event("state", d, NoFact, "none") \in EventType
        BY <3>4, <4>1, Blanks, EventTyped
      <4>3. p.known \in Int /\ c.gap.index \in Int
        BY <3>1, <3>2 DEF Proof, ProofType, CycleShape, Gaps
      <4> QED
        BY <4>2, <4>3 DEF EventType
    <3> HIDE DEF e
    <3>7. t \in DayType /\ t.cycle = d /\ t.events = s.events /\ t.recovery = s.recovery
      BY <3>4 DEF DayType
    <3> HIDE DEF t
    <3>8. r \in DayType /\ r.cycle = d /\ r.recovery = s.recovery /\ r.events = Append(s.events, e)
      BY <3>5, <3>6, <3>7, EmitTyped, SMTT(30)
    <3>9. Proves(s, r)
      BY <1>4, <3>1, <3>2, <3>3, <3>8 DEF Proves, d, e
    <3> QED
      BY <3>8, <3>9
  <2> QED
    BY <2>2, <2>3
<1> QED
  BY <1>1, <1>2, <1>3, <1>4

\* Whether the price of today respects the defence of a cycle.
Held(c) == ~Beyond(~IsUp(c), IF IsUp(c) THEN Today.low ELSE Today.high, Defence(c).price)

\* The cycle back at its flip.
Again(c) ==
  [c EXCEPT !.state = FlipState(IsUp(c)), !.counter = NoPivot, !.alternated = Never,
            !.evidence = IF c.recovery THEN c.evidence ELSE {f \in c.evidence : f.title = FlipTitle(IsUp(c))},
            !.structure = KeptStructure(c), !.source = {}, !.gap = NoGap]

Lost(c) == Event("invalidated", c, NoFact, "defense_broken")

\* The cycle that went back to its flip.
LEMMA AgainTyped ==
  ASSUME Typed, NEW c \in CycleType
  PROVE  /\ Again(c) \in CycleType /\ Again(c) \in CycleShape /\ IsUp(Again(c)) = IsUp(c)
         /\ Again(c).state = FlipState(IsUp(c)) /\ Again(c).counter = NoPivot
         /\ Again(c).alternated = Never /\ Again(c).structure = KeptStructure(c)
         /\ Again(c).gap = NoGap /\ Again(c).origin = c.origin /\ Again(c).impulse = c.impulse
         /\ Again(c).started = c.started /\ Again(c).recovery = c.recovery /\ Again(c).closed = c.closed
         /\ Again(c).evidence = IF c.recovery THEN c.evidence
                                ELSE {f \in c.evidence : f.title = FlipTitle(IsUp(c))}
<1> DEFINE up == IsUp(c)
           own == IF c.recovery THEN c.evidence ELSE {f \in c.evidence : f.title = FlipTitle(up)}
           r == Again(c)
<1>1. c \in CycleShape /\ up \in BOOLEAN /\ FlipState(up) \in States
  BY StateNames DEF CycleType, IsUp
<1>2. own \in SUBSET FactType
  BY <1>1 DEF CycleShape
<1>3. r = [c EXCEPT !.state = FlipState(up), !.counter = NoPivot, !.alternated = Never,
                    !.evidence = own, !.structure = KeptStructure(c), !.source = {}, !.gap = NoGap]
  BY DEF Again
<1> HIDE DEF own, r, up
<1>4. /\ r \in CycleShape /\ r.state = FlipState(up) /\ r.counter = NoPivot /\ r.alternated = Never
      /\ r.evidence = own /\ r.structure = KeptStructure(c) /\ r.gap = NoGap /\ r.origin = c.origin
      /\ r.impulse = c.impulse /\ r.started = c.started /\ r.recovery = c.recovery /\ r.closed = c.closed
  <2> DEFINE k == KeptStructure(c)
  <2>1. k \in Seq(Pivots)
    BY KeptTyped
  <2> HIDE DEF k
  <2>2. r = [c EXCEPT !.state = FlipState(up), !.counter = NoPivot, !.alternated = Never,
                      !.evidence = own, !.structure = k, !.source = {}, !.gap = NoGap]
    BY <1>3 DEF k
  <2>3. r \in CycleShape
    BY <1>1, <1>2, <2>1, <2>2, Blanks DEF CycleShape
  <2>4. /\ r.state = FlipState(up) /\ r.counter = NoPivot /\ r.alternated = Never
        /\ r.evidence = own /\ r.structure = k /\ r.gap = NoGap /\ r.origin = c.origin
        /\ r.impulse = c.impulse /\ r.started = c.started /\ r.recovery = c.recovery /\ r.closed = c.closed
    BY <1>1, <2>2 DEF CycleShape
  <2> QED
    BY <2>3, <2>4 DEF k
<1>5. IsUp(r) = up
  BY <1>1, <1>4 DEF IsUp, FlipState
<1>6. r \in CycleType
  BY <1>4, <1>5, KeptTyped DEF CycleType, up
<1> QED
  BY <1>4, <1>5, <1>6 DEF r, up, own

PriceEnds(s, r) ==
  /\ s.cycle \in CycleType /\ ~Held(s.cycle)
  /\ r.cycle = NoCycle /\ r.events = Append(s.events, Lost(s.cycle))

PriceReturns(s, r) ==
  /\ s.cycle \in CycleType /\ ~Held(s.cycle) /\ s.cycle.counter # NoPivot
  /\ IsUp(s.cycle) => ~(Today.low < s.cycle.origin.price)
  /\ s.cycle.recovery \/ \E f \in s.cycle.evidence : f.title = FlipTitle(IsUp(s.cycle))
  /\ r.cycle = Again(s.cycle)
  /\ r.events = Append(Append(s.events, Lost(s.cycle)), Event("anchor", r.cycle, NoFact, "none"))

PriceConfirms(s, r) ==
  /\ s.cycle \in CycleType /\ Held(s.cycle) /\ s.cycle.alternated # Never
  /\ r.cycle = [s.cycle EXCEPT !.state = ConfirmedState(IsUp(s.cycle))]
  /\ r.events = Append(s.events, Event("state", r.cycle, NoFact, "none"))

\* The price leaves the day alone, or ends, takes back or confirms its cycle.
LEMMA PriceDoes ==
  ASSUME Typed, NEW s \in DayType
  PROVE  /\ Price(s) \in DayType /\ Price(s).recovery = s.recovery
         /\ \/ Price(s) = s /\ (s.cycle # NoCycle => Held(s.cycle))
            \/ PriceEnds(s, Price(s))
            \/ PriceReturns(s, Price(s))
            \/ PriceConfirms(s, Price(s))
<1> DEFINE c == s.cycle
           up == IsUp(c)
           flips == {f \in c.evidence : f.title = FlipTitle(up)}
           adverse == IF up THEN Today.low ELSE Today.high
           crossed == /\ c.alternated # Never /\ now > c.alternated
                      /\ ~Beyond(up, Yesterday.close, c.impulse.price)
                      /\ Beyond(up, Today.close, c.impulse.price)
           lost == Invalidate(s, "defense_broken")
           returns == /\ c.counter # NoPivot
                      /\ ~Beyond(~up, adverse, c.origin.price)
                      /\ flips # {} \/ c.recovery
           confirms == c.state # ConfirmedState(up) /\ crossed
           r == Price(s)
<1>1. r = IF c = NoCycle THEN s
          ELSE IF ~Held(c) THEN IF returns THEN Become(lost, "anchor", Again(c), NoFact) ELSE lost
          ELSE IF confirms THEN Become(s, "state", [c EXCEPT !.state = ConfirmedState(up)], NoFact)
          ELSE s
  BY Zenon DEF Price, Held, Again
<1>2. c # NoCycle => c \in CycleType /\ c \in CycleShape
  BY CycleIsOne DEF DayType
<1>3. /\ lost \in DayType /\ lost.cycle = NoCycle /\ lost.recovery = s.recovery
      /\ lost.events = Append(s.events, Lost(c))
  <2>1. "defense_broken" \in Reasons
    BY DEF Reasons
  <2> QED
    BY <2>1, InvalidateTyped DEF Lost
<1>4. "state" \in Kinds /\ "anchor" \in Kinds /\ NoFact \in FactType
  BY Blanks DEF Kinds
<1> HIDE DEF lost, r
<1>5. CASE c = NoCycle
  BY <1>1, <1>5 DEF r
<1>6. CASE c # NoCycle /\ ~Held(c) /\ returns
  <2>1. Again(c) \in CycleOrNone
    BY <1>2, <1>6, AgainTyped DEF CycleOrNone
  <2>2. r = Become(lost, "anchor", Again(c), NoFact)
    BY <1>1, <1>6
  <2>3. /\ r \in DayType /\ r.recovery = s.recovery /\ r.cycle = Again(c)
        /\ r.events = Append(Append(s.events, Lost(c)), Event("anchor", Again(c), NoFact, "none"))
    BY <1>3, <1>4, <2>1, <2>2, BecomeTyped, SMTT(30)
  <2>4. up => ~(Today.low < c.origin.price)
    BY <1>6 DEF Beyond
  <2>5. c.recovery \/ \E f \in c.evidence : f.title = FlipTitle(up)
    BY <1>6
  <2>6. PriceReturns(s, r)
    BY <1>2, <1>6, <2>3, <2>4, <2>5 DEF PriceReturns
  <2> QED
    BY <2>3, <2>6 DEF r
<1>7. CASE c # NoCycle /\ ~Held(c) /\ ~returns
  <2>1. r = lost
    BY <1>1, <1>7
  <2>2. PriceEnds(s, r)
    BY <1>2, <1>3, <1>7, <2>1 DEF PriceEnds
  <2> QED
    BY <1>3, <2>1, <2>2 DEF r
<1>8. CASE c # NoCycle /\ Held(c) /\ confirms
  <2> DEFINE d == [c EXCEPT !.state = ConfirmedState(up)]
  <2>1. /\ d \in CycleShape /\ d.recovery = c.recovery /\ d.gap = c.gap /\ d.structure = c.structure
        /\ d.state = ConfirmedState(up)
    BY <1>2, <1>8, StateNames DEF CycleShape, IsUp
  <2>2. d \in CycleOrNone
    <3>1. IsUp(d) = IsUp(c)
      BY <2>1 DEF IsUp, ConfirmedState
    <3> HIDE DEF d
    <3> QED
      BY <1>2, <1>8, <2>1, <3>1 DEF CycleType, CycleOrNone
  <2>3. r = Become(s, "state", d, NoFact)
    BY <1>1, <1>8
  <2> HIDE DEF d
  <2>4. /\ r \in DayType /\ r.recovery = s.recovery /\ r.cycle = d
        /\ r.events = Append(s.events, Event("state", d, NoFact, "none"))
    BY <1>4, <2>2, <2>3, BecomeTyped
  <2>5. PriceConfirms(s, r)
    BY <1>2, <1>8, <2>4 DEF PriceConfirms, d
  <2> QED
    BY <2>4, <2>5 DEF r
<1>9. CASE c # NoCycle /\ Held(c) /\ ~confirms
  <2>1. r = s
    BY <1>1, <1>9
  <2> QED
    BY <1>9, <2>1 DEF r
<1> QED
  BY <1>5, <1>6, <1>7, <1>8, <1>9

\* A broken bear structure is an event, and is remembered.
LEMMA BreakStructureDoes ==
  ASSUME Typed, NEW s \in DayType
  PROVE  /\ BreakStructure(s) \in DayType
         /\ BreakStructure(s).cycle = s.cycle /\ BreakStructure(s).recovery = s.recovery
         /\ \/ BreakStructure(s).events = s.events
            \/ BreakStructure(s).events = Append(s.events, Event("bear_break", NoCycle, NoFact, "none"))
<1> DEFINE broken == {k \in BearKeys : /\ points[k+2].known < now
                                       /\ Today.low < points[k+2].price
                                       /\ points[k+2].price <= Yesterday.low
                                       /\ ~Broken(points[k+1])
                                       /\ <<points[k].index, points[k+1].index, points[k+2].index>> \notin bearBreaks}
           e == Event("bear_break", NoCycle, NoFact, "none")
           new == {<<points[k].index, points[k+1].index, points[k+2].index>> : k \in broken}
<1>1. CASE broken = {}
  BY <1>1 DEF BreakStructure
<1>2. CASE broken # {}
  <2>1. BreakStructure(s) = [Emit(s, e) EXCEPT !.breaks = @ \cup new]
    BY <1>2 DEF BreakStructure
  <2>2. new \in SUBSET (Int \X Int \X Int)
    <3>1. ASSUME NEW k \in broken
          PROVE  points[k].index \in Int /\ points[k+1].index \in Int /\ points[k+2].index \in Int
      <4>1. k \in 1..(Len(points) - 2)
        BY <3>1 DEF BearKeys
      <4> HIDE DEF broken
      <4>2. k \in 1..Len(points) /\ k + 1 \in 1..Len(points) /\ k + 2 \in 1..Len(points)
        BY <4>1, PathTyped
      <4> QED
        BY <4>2, PlaceTyped
    <3> HIDE DEF broken
    <3> QED
      BY <3>1
  <2>3. e \in EventType
    <3>1. "bear_break" \in Kinds /\ "none" \in Reasons /\ NoCycle \in CycleOrNone
      BY DEF Kinds, Reasons, CycleOrNone
    <3> QED
      BY <3>1, Blanks, EventTyped
  <2> HIDE DEF new, e
  <2>4. /\ Emit(s, e) \in DayType /\ Emit(s, e).cycle = s.cycle /\ Emit(s, e).recovery = s.recovery
        /\ Emit(s, e).events = Append(s.events, e)
    BY <2>3, EmitTyped
  <2> QED
    BY <2>1, <2>2, <2>4 DEF DayType, e
<1> QED
  BY <1>1, <1>2

\* Spending the seed changes the recovery only.
LEMMA SpendSeedDoes ==
  ASSUME NEW s \in DayType
  PROVE  /\ SpendSeed(s) \in DayType
         /\ SpendSeed(s).cycle = s.cycle /\ SpendSeed(s).events = s.events
         /\ \/ SpendSeed(s).recovery = s.recovery
            \/ s.recovery.breach = Never /\ SpendSeed(s).recovery = NoRecovery
  BY Blanks DEF SpendSeed, DayType

-----------------------------------------------------------------------------
(* A day as a whole: its stages, and the folds. *)

\* What holds of the base and is kept by every step, holds of the fold.
LEMMA FoldStays ==
  ASSUME NEW consumes \in BOOLEAN, NEW G, NEW base \in G, NEW n \in Nat, NEW q, DOMAIN q = 1..n,
         \A b \in G : \A k \in 1..n : Taken(consumes, b, q[k]) \in G
  PROVE  Folded(consumes, base, q) \in G
<1>1. PICK g : /\ g[0] = base /\ g[n] = Folded(consumes, base, q)
               /\ \A k \in 1..n : g[k] = Taken(consumes, g[k-1], q[k])
  <2>1. consumes \in BOOLEAN /\ n \in Nat /\ DOMAIN q = 1..n
    OBVIOUS
  <2> QED
    BY ONLY <2>1, FoldRuns
<1> DEFINE F == {k \in 0..n : g[k] \in G}
<1>2. 0 \in F
  BY <1>1
<1>3. \A k \in 0 .. n-1 : k \in F => k+1 \in F
  <2> SUFFICES ASSUME NEW k \in 0 .. n-1, g[k] \in G PROVE k + 1 \in F
    OBVIOUS
  <2>1. k + 1 \in 1..n /\ k + 1 \in 0..n /\ (k + 1) - 1 = k
    OBVIOUS
  <2>2. g[k + 1] = Taken(consumes, g[k], q[k + 1])
    BY <1>1, <2>1
  <2> QED
    BY <2>1, <2>2
<1> HIDE DEF F
<1>4. n \in F
  <2>1. \A k \in 0..n : k \in F
    BY <1>2, <1>3, PrefixInduction
  <2> QED
    BY <2>1
<1> QED
  BY <1>1, <1>4 DEF F

\* An order of the new facts.
LEMMA NewFactsTyped ==
  ASSUME Typed, NEW new \in NewFacts
  PROVE  \E n \in Nat : DOMAIN new = 1..n /\ \A k \in 1..n : new[k] \in facts \ seen
<1> DEFINE n == Cardinality(facts \ seen)
<1>1. n \in Nat
  <2>1. IsFiniteSet(facts \ seen)
    BY FS_Difference DEF Typed
  <2> QED
    BY <2>1, FS_CardinalityType
<1>2. new \in [1..n -> facts \ seen]
  BY DEF NewFacts, SetToSeqs
<1> HIDE DEF n
<1> QED
  BY <1>1, <1>2

\* What the consumption of a fact keeps, the day's facts keep.
LEMMA FactsStay ==
  ASSUME Typed, NEW new \in NewFacts, NEW G, NEW base \in G,
         \A b \in G : \A f \in facts \ seen : Taken(TRUE, b, f) \in G
  PROVE  ConsumeFacts(base, new) \in G
<1>1. PICK n \in Nat : DOMAIN new = 1..n /\ \A k \in 1..n : new[k] \in facts \ seen
  BY NewFactsTyped
<1>2. \A b \in G : \A k \in 1..n : Taken(TRUE, b, new[k]) \in G
  BY <1>1
<1>3. Folded(TRUE, base, new) \in G
  BY ONLY <1>1, <1>2, base \in G, FoldStays
<1> QED
  BY <1>3 DEF Folded

\* What the observation of an event keeps, the day's events keep.
LEMMA EventsStay ==
  ASSUME NEW q \in Seq(EventType), NEW G, NEW base \in G,
         \A b \in G : \A e \in EventType : Observe(b, e) \in G
  PROVE  FoldLeft(Observe, base, q) \in G
<1>1. Len(q) \in Nat /\ DOMAIN q = 1..Len(q) /\ \A k \in 1..Len(q) : q[k] \in EventType
  OBVIOUS
<1>2. \A b \in G : \A k \in 1..Len(q) : Taken(FALSE, b, q[k]) \in G
  BY <1>1 DEF Taken
<1>3. Folded(FALSE, base, q) \in G
  BY ONLY <1>1, <1>2, base \in G, FoldStays
<1> QED
  BY <1>3 DEF Folded

\* The day before the new facts.
Start == [cycle |-> cycle, recovery |-> recovery, breaks |-> bearBreaks, events |-> <<>>]
Checked(revised) == CheckSeed(CheckEvidence(ContinueImpulse(ExpireGap(Start)), revised))

\* The stages by which a day comes about.
LEMMA AdvancedStages ==
  ASSUME NEW revised, NEW s \in Advanced(revised)
  PROVE  \E new \in NewFacts : \E w \in AdvanceAlternation(AdvanceRecovery(ConsumeFacts(Checked(revised), new))) :
            s = SpendSeed(BreakStructure(Price(w)))
<1> DEFINE stage(new) == AdvanceAlternation(AdvanceRecovery(ConsumeFacts(Checked(revised), new)))
<1>1. s \in {SpendSeed(BreakStructure(Price(t))) : t \in UNION {stage(new) : new \in NewFacts}}
  BY Zenon DEF Advanced, Checked, Start
<1> HIDE DEF stage
<1>2. PICK w \in UNION {stage(new) : new \in NewFacts} : s = SpendSeed(BreakStructure(Price(w)))
  BY <1>1
<1>3. PICK new \in NewFacts : w \in stage(new)
  BY <1>2
<1> QED
  BY <1>2, <1>3 DEF stage

\* The day begins with what was kept of the path.
LEMMA StartTyped ==
  ASSUME Typed
  PROVE  Start \in DayType /\ Start.cycle = cycle /\ Start.recovery = recovery /\ Start.events = <<>>
<1>1. <<>> \in Seq(EventType)
  OBVIOUS
<1> QED
  BY <1>1 DEF Typed, Start, DayType

\* The days that are of their type, with a recovery that is sound.
SoundDays == {t \in DayType : Sound(t.recovery)}

\* No recovery, and one that just began, are sound.
LEMMA BlankSound ==
  ASSUME Typed
  PROVE  Sound(NoRecovery) /\ \A f : Sound([NoRecovery EXCEPT !.seed = f])
  BY TrendAssumption DEF Typed, Sound, NoRecovery, Never

\* The checks of the evidence keep the recovery sound.
LEMMA CheckedSound ==
  ASSUME Typed, Sound(recovery), NEW revised \in BOOLEAN
  PROVE  Checked(revised) \in SoundDays
<1>1. Start \in DayType /\ Start.recovery = recovery
  BY StartTyped
<1>2. ExpireGap(Start) \in DayType /\ ExpireGap(Start).recovery = recovery
  BY <1>1, ExpireGapDoes
<1> DEFINE a == ExpireGap(Start)
           b == ContinueImpulse(a)
           c == CheckEvidence(b, revised)
           d == CheckSeed(c)
<1>3. a \in DayType /\ a.recovery = recovery
  BY <1>2
<1> HIDE DEF a
<1>4. b \in DayType /\ b.recovery = recovery
  BY <1>3, ContinueImpulseDoes
<1> HIDE DEF b
<1>5. c \in DayType /\ c.recovery = recovery
  BY <1>4, CheckEvidenceDoes
<1> HIDE DEF c
<1>6. d \in DayType /\ (d.recovery = recovery \/ d.recovery = NoRecovery)
  BY <1>5, CheckSeedDoes
<1>7. d = Checked(revised)
  BY DEF a, b, c, Checked
<1> QED
  BY <1>6, <1>7, BlankSound DEF SoundDays

\* So do the new facts.
LEMMA ConsumedSound ==
  ASSUME Typed, NEW new \in NewFacts, NEW base \in SoundDays
  PROVE  ConsumeFacts(base, new) \in SoundDays
<1>1. \A b \in SoundDays : \A f \in facts \ seen : Taken(TRUE, b, f) \in SoundDays
  <2> SUFFICES ASSUME NEW b \in SoundDays, NEW f \in facts \ seen
               PROVE  Taken(TRUE, b, f) \in SoundDays
    OBVIOUS
  <2>1. b \in DayType /\ f \in FactType /\ Sound(b.recovery)
    BY DEF SoundDays, Typed
  <2> DEFINE r == Taken(TRUE, b, f)
  <2>2. /\ r \in DayType
        /\ \/ r.recovery = b.recovery \/ r.recovery = NoRecovery
           \/ r.recovery = [NoRecovery EXCEPT !.seed = f]
    BY <2>1, TakeDoes
  <2> HIDE DEF r
  <2>3. Sound(r.recovery)
    BY <2>1, <2>2, BlankSound
  <2> QED
    BY <2>2, <2>3 DEF SoundDays, r
<1> HIDE DEF SoundDays
<1> QED
  BY <1>1, FactsStay

\* Every day ends with books of their types.
LEMMA AdvancedTyped ==
  ASSUME Typed, Vertices, Sound(recovery), now >= 0, NEW revised \in BOOLEAN,
         NEW s \in Advanced(revised)
  PROVE  s \in SoundDays
<1>1. PICK new \in NewFacts :
        \E w \in AdvanceAlternation(AdvanceRecovery(ConsumeFacts(Checked(revised), new))) :
            s = SpendSeed(BreakStructure(Price(w)))
  BY AdvancedStages
<1> DEFINE u == ConsumeFacts(Checked(revised), new)
           v == AdvanceRecovery(u)
<1>2. u \in DayType /\ Sound(u.recovery)
  BY CheckedSound, ConsumedSound DEF SoundDays
<1>3. PICK w \in AdvanceAlternation(v) : s = SpendSeed(BreakStructure(Price(w)))
  BY <1>1
<1> HIDE DEF u
<1>4. v \in DayType /\ Sound(v.recovery)
  BY <1>2, AdvanceRecoveryDoes
<1> HIDE DEF v
<1>5. w \in DayType /\ w.recovery = v.recovery
  BY <1>3, <1>4, AdvanceAlternationDoes
<1> DEFINE x == Price(w)
           y == BreakStructure(x)
<1>6. x \in DayType /\ x.recovery = w.recovery
  BY <1>5, PriceDoes
<1> HIDE DEF x
<1>7. y \in DayType /\ y.recovery = x.recovery
  BY <1>6, BreakStructureDoes
<1> HIDE DEF y
<1>8. s \in DayType /\ (s.recovery = y.recovery \/ s.recovery = NoRecovery)
  BY <1>3, <1>7, SpendSeedDoes DEF x, y
<1> QED
  BY <1>4, <1>5, <1>6, <1>7, <1>8, BlankSound DEF SoundDays

-----------------------------------------------------------------------------
(* The book of the windows. *)

\* The windows when the last one closes, or has its flip replaced.
Shut(ws, reason) == [ws EXCEPT ![Len(ws)] = [ws[Len(ws)] EXCEPT !.end = now, !.reason = reason]]
Reflip(ws) == [ws EXCEPT ![Len(ws)] = [ws[Len(ws)] EXCEPT !.replaced = TRUE]]

\* The days there are.
LEMMA Clock ==
  ASSUME Typed
  PROVE  now \in Int /\ now >= Never /\ now <= LastDay /\ (now # Never => now >= 0)
  BY TrendAssumption DEF Typed, Never

\* The last of the windows.
LEMMA LastWindow ==
  ASSUME NEW ws \in Seq(WindowType), ws # <<>>
  PROVE  /\ Len(ws) \in Nat /\ Len(ws) > 0 /\ Len(ws) \in 1..Len(ws)
         /\ Last(ws) = ws[Len(ws)] /\ Last(ws) \in WindowType /\ ws[Len(ws)] \in WindowType
<1>1. Len(ws) \in Nat /\ Len(ws) > 0 /\ Len(ws) \in 1..Len(ws)
  OBVIOUS
<1>2. ws[Len(ws)] \in WindowType
  BY <1>1
<1> QED
  BY <1>1, <1>2 DEF Last

\* The windows of which the last was closed.
LEMMA ShutTyped ==
  ASSUME Typed, now >= 0, NEW ws \in Seq(WindowType), ws # <<>>, NEW reason \in Closings
  PROVE  /\ Shut(ws, reason) \in Seq(WindowType) /\ Len(Shut(ws, reason)) = Len(ws)
         /\ Shut(ws, reason) # <<>> /\ ~IsOpen(Shut(ws, reason))
         /\ \A k \in 1..Len(ws) : k # Len(ws) => Shut(ws, reason)[k] = ws[k]
         /\ Shut(ws, reason)[Len(ws)] = [ws[Len(ws)] EXCEPT !.end = now, !.reason = reason]
         /\ Last(Shut(ws, reason)) = [ws[Len(ws)] EXCEPT !.end = now, !.reason = reason]
<1> DEFINE n == Len(ws)
           w == [ws[n] EXCEPT !.end = now, !.reason = reason]
           r == Shut(ws, reason)
<1>1. n \in Nat /\ n \in 1..n /\ ws[n] \in WindowType
  BY LastWindow
<1>2. w \in WindowType /\ w.end = now
  BY <1>1, Clock DEF WindowType
<1>3. r = [ws EXCEPT ![n] = w]
  BY DEF Shut
<1> HIDE DEF w, r
<1>4. r \in Seq(WindowType) /\ Len(r) = n /\ r[n] = w /\ \A k \in 1..n : k # n => r[k] = ws[k]
  BY <1>1, <1>2, <1>3
<1>5. r # <<>> /\ Last(r) = w
  BY <1>1, <1>4 DEF Last
<1>6. ~IsOpen(r)
  BY <1>2, <1>5 DEF IsOpen, Never
<1> QED
  BY <1>4, <1>5, <1>6 DEF w, r

\* The windows of which the last had its gap replaced.
LEMMA ReflipTyped ==
  ASSUME NEW ws \in Seq(WindowType), ws # <<>>
  PROVE  /\ Reflip(ws) \in Seq(WindowType) /\ Len(Reflip(ws)) = Len(ws) /\ Reflip(ws) # <<>>
         /\ \A k \in 1..Len(ws) : k # Len(ws) => Reflip(ws)[k] = ws[k]
         /\ Reflip(ws)[Len(ws)] = [ws[Len(ws)] EXCEPT !.replaced = TRUE]
         /\ Last(Reflip(ws)) = [ws[Len(ws)] EXCEPT !.replaced = TRUE]
<1> DEFINE n == Len(ws)
           w == [ws[n] EXCEPT !.replaced = TRUE]
           r == Reflip(ws)
<1>1. n \in Nat /\ n \in 1..n /\ ws[n] \in WindowType
  BY LastWindow
<1>2. w \in WindowType
  BY <1>1 DEF WindowType
<1>3. r = [ws EXCEPT ![n] = w]
  BY DEF Reflip
<1> HIDE DEF w, r
<1>4. r \in Seq(WindowType) /\ Len(r) = n /\ r[n] = w /\ \A k \in 1..n : k # n => r[k] = ws[k]
  BY <1>1, <1>2, <1>3
<1>5. r # <<>> /\ Last(r) = w
  BY <1>1, <1>4 DEF Last
<1> QED
  BY <1>4, <1>5 DEF w, r

\* Closing shuts the open window and nothing else.
LEMMA ClosedDoes ==
  ASSUME Typed, now >= 0, NEW b \in BookType, NEW reason \in Closings
  PROVE  /\ Closed(b, reason) \in BookType
         /\ Closed(b, reason).barrier = b.barrier /\ Closed(b, reason).released = b.released
         /\ ~IsOpen(Closed(b, reason).windows)
         /\ ~IsOpen(b.windows) => Closed(b, reason) = b
         /\ IsOpen(b.windows) => /\ Closed(b, reason).windows = Shut(b.windows, reason)
                                 /\ Closed(b, reason).closed
<1> DEFINE ws == b.windows
           n == Len(ws)
<1>1. CASE ~IsOpen(ws)
  BY <1>1 DEF Closed
<1>2. CASE IsOpen(ws)
  <2>1. ws \in Seq(WindowType) /\ ws # <<>>
    BY <1>2 DEF IsOpen, BookType
  <2>2. n \in 1..n /\ ws[n] \in WindowType
    BY <2>1, LastWindow
  <2>3. Closed(b, reason) = [b EXCEPT !.windows = Shut(ws, reason), !.closed = TRUE]
    <3>1. Closed(b, reason) = [b EXCEPT !.windows[n].end = now, !.windows[n].reason = reason, !.closed = TRUE]
      BY <1>2 DEF Closed
    <3>2. [b EXCEPT !.windows[n].end = now, !.windows[n].reason = reason, !.closed = TRUE]
            = [b EXCEPT !.windows = [[ws EXCEPT ![n] = [ws[n] EXCEPT !.end = now]]
                                       EXCEPT ![n] = [[ws EXCEPT ![n] = [ws[n] EXCEPT !.end = now]][n]
                                                        EXCEPT !.reason = reason]],
                        !.closed = TRUE]
      BY DEF BookType
    <3>3. [[ws EXCEPT ![n] = [ws[n] EXCEPT !.end = now]]
             EXCEPT ![n] = [[ws EXCEPT ![n] = [ws[n] EXCEPT !.end = now]][n] EXCEPT !.reason = reason]]
            = Shut(ws, reason)
      <4> DEFINE a == [ws[n] EXCEPT !.end = now]
                 x == [ws EXCEPT ![n] = a]
                 c == [a EXCEPT !.reason = reason]
      <4>1. c = [ws[n] EXCEPT !.end = now, !.reason = reason]
        BY <2>2 DEF WindowType
      <4> HIDE DEF a, c
      <4>2. x[n] = a
        BY <2>1, <2>2
      <4>3. [x EXCEPT ![n] = c] = [ws EXCEPT ![n] = c]
        BY <2>1, <2>2
      <4> QED
        BY <4>1, <4>2, <4>3 DEF Shut, a, c
    <3> QED
      BY <3>1, <3>2, <3>3
  <2>4. Shut(ws, reason) \in Seq(WindowType) /\ ~IsOpen(Shut(ws, reason))
    BY <2>1, ShutTyped
  <2> QED
    BY <1>2, <2>3, <2>4 DEF BookType
<1> QED
  BY <1>1, <1>2

\* The book without the gate of its path.
Forgotten(b) == [b EXCEPT !.barrier = NoBarrier, !.released = Never]

\* Forgetting the gate leaves the windows.
LEMMA ForgottenTyped ==
  ASSUME NEW b \in BookType
  PROVE  /\ Forgotten(b) \in BookType /\ Forgotten(b).windows = b.windows
         /\ Forgotten(b).closed = b.closed /\ Forgotten(b).barrier = NoBarrier
         /\ Forgotten(b).released = Never
<1>1. NoBarrier \in BarrierType
  BY Blanks DEF NoBarrier, BarrierType
<1> QED
  BY <1>1, Blanks DEF Forgotten, BookType

\* An event that opens a window, and a reason an event gives to close one.
Opening(e) == e.kind = "state" /\ e.cycle.state = "BULL_ALTERNATION" /\ FlipConfirmed(e.cycle)
Ends(e) == e.kind = "invalidated" /\ e.reason = "source_path_ended"

\* Every reason to end a window is one to close it.
LEMMA EndReasonTyped ==
  ASSUME NEW e \in EventType, NEW w \in WindowType
  PROVE  EndReason(e, w) \in Closings
  BY DEF EndReason, Closings, Ending

\* The window an event opens.
LEMMA NewWindowTyped ==
  ASSUME Typed, NEW e \in EventType, e.cycle \in CycleType
  PROVE  NewWindow(e) \in WindowType
<1>1. e.cycle \in CycleShape /\ e.known \in Int
  BY DEF CycleType, EventType
<1>2. /\ e.cycle.impulse.index \in Int /\ e.cycle.counter.index \in Int /\ e.cycle.gap \in Gaps
      /\ e.cycle.started \in Int
  BY <1>1 DEF CycleShape, Pivots
<1>3. "none" \in Closings
  BY DEF Closings
<1> QED
  BY <1>1, <1>2, <1>3, Blanks, Clock DEF NewWindow, WindowType

\* The ways a book takes an event.
KeepsGate(b, e, r) ==
  \/ r.barrier = b.barrier /\ r.released = b.released
  \/ Ends(e) /\ r.barrier = NoBarrier /\ r.released = Never

ObserveOpens(b, e, r) ==
  /\ ~IsOpen(b.windows) /\ Opening(e) /\ Permits(b, e) /\ e.cycle \in CycleType
  /\ r = [b EXCEPT !.windows = Append(b.windows, NewWindow(e))]
  /\ r.windows = Append(b.windows, NewWindow(e)) /\ r.closed = b.closed
  /\ r.barrier = b.barrier /\ r.released = b.released

ObservePasses(b, e, r) ==
  /\ ~IsOpen(b.windows) /\ ~(Opening(e) /\ Permits(b, e))
  /\ r.windows = b.windows /\ r.closed = b.closed /\ KeepsGate(b, e, r)

ObserveEnds(b, e, r) ==
  /\ IsOpen(b.windows) /\ EndReason(e, Last(b.windows)) # "none"
  /\ r.windows = Shut(b.windows, EndReason(e, Last(b.windows))) /\ r.closed /\ ~IsOpen(r.windows)
  /\ KeepsGate(b, e, r)

ObserveKeeps(b, e, r) ==
  /\ IsOpen(b.windows) /\ EndReason(e, Last(b.windows)) = "none"
  /\ r.windows \in {b.windows, Reflip(b.windows)} /\ r.closed = b.closed
  /\ r.barrier = b.barrier /\ r.released = b.released

\* A book takes an event in one of four ways.
LEMMA ObserveDoes ==
  ASSUME Typed, now >= 0, NEW b \in BookType, NEW e \in EventType
  PROVE  /\ Observe(b, e) \in BookType
         /\ \/ ObserveOpens(b, e, Observe(b, e))
            \/ ObservePasses(b, e, Observe(b, e))
            \/ ObserveEnds(b, e, Observe(b, e))
            \/ ObserveKeeps(b, e, Observe(b, e))
<1> DEFINE opens == Opening(e) /\ Permits(b, e)
           w == Last(b.windows)
           n == Len(b.windows)
           reason == EndReason(e, w)
           forgotten == IF Ends(e) THEN Forgotten(b) ELSE b
           replaces == w.gap # NoGap /\ e.replaces = w.gap.index /\ e.cycle.gap = NoGap
           r == Observe(b, e)
<1>1. r = IF ~IsOpen(b.windows)
          THEN IF opens THEN [b EXCEPT !.windows = Append(@, NewWindow(e))] ELSE forgotten
          ELSE IF reason # "none" THEN Closed(forgotten, reason)
          ELSE IF opens /\ replaces THEN [b EXCEPT !.windows[n].replaced = TRUE]
          ELSE b
  BY Zenon DEF Observe, Opening, Ends, Forgotten
<1>2. b.windows \in Seq(WindowType)
  BY DEF BookType
<1>3. /\ forgotten \in BookType /\ forgotten.windows = b.windows /\ forgotten.closed = b.closed
      /\ KeepsGate(b, e, forgotten)
  BY ForgottenTyped DEF KeepsGate
<1> HIDE DEF forgotten, r, reason, replaces
<1>4. CASE ~IsOpen(b.windows) /\ opens
  <2>1. e.cycle \in CycleType
    <3>1. e.cycle \in CycleOrNone /\ e.cycle.state = "BULL_ALTERNATION"
      BY <1>4 DEF EventType, Opening
    <3>2. e.cycle # NoCycle
      BY <3>1 DEF NoCycle
    <3> QED
      BY <3>1, <3>2 DEF CycleOrNone
  <2> DEFINE x == NewWindow(e)
  <2>2. x \in WindowType
    BY <2>1, NewWindowTyped
  <2> HIDE DEF x
  <2>3. Append(b.windows, x) \in Seq(WindowType)
    BY <1>2, <2>2
  <2>4. r = [b EXCEPT !.windows = Append(b.windows, x)]
    BY <1>1, <1>4 DEF x, BookType
  <2>5. r \in BookType /\ r.windows = Append(b.windows, x) /\ r.closed = b.closed
        /\ r.barrier = b.barrier /\ r.released = b.released
    BY <2>3, <2>4 DEF BookType
  <2>6. ObserveOpens(b, e, r)
    BY <1>4, <2>1, <2>4, <2>5 DEF ObserveOpens, x
  <2> QED
    BY <2>5, <2>6 DEF r
<1>5. CASE ~IsOpen(b.windows) /\ ~opens
  <2>1. r = forgotten
    BY <1>1, <1>5
  <2>2. ObservePasses(b, e, r)
    BY <1>3, <1>5, <2>1 DEF ObservePasses
  <2> QED
    BY <1>3, <2>1, <2>2 DEF r
<1>6. CASE IsOpen(b.windows) /\ reason # "none"
  <2>1. b.windows # <<>> /\ reason \in Closings
    <3>1. b.windows # <<>>
      BY <1>6 DEF IsOpen
    <3> QED
      BY <1>2, <3>1, LastWindow, EndReasonTyped DEF reason
  <2>2. r = Closed(forgotten, reason)
    BY <1>1, <1>6
  <2>3. /\ r \in BookType /\ r.barrier = forgotten.barrier /\ r.released = forgotten.released
        /\ ~IsOpen(r.windows) /\ r.windows = Shut(b.windows, reason) /\ r.closed
    BY <1>3, <1>6, <2>1, <2>2, ClosedDoes
  <2>4. ObserveEnds(b, e, r)
    BY <1>3, <1>6, <2>3 DEF ObserveEnds, KeepsGate, reason
  <2> QED
    BY <2>3, <2>4 DEF r
<1>7. CASE IsOpen(b.windows) /\ reason = "none" /\ opens /\ replaces
  <2>1. b.windows # <<>> /\ n \in 1..n /\ b.windows[n] \in WindowType
    <3>1. b.windows # <<>>
      BY <1>7 DEF IsOpen
    <3> QED
      BY <1>2, <3>1, LastWindow
  <2>2. r = [b EXCEPT !.windows = Reflip(b.windows)]
    <3>1. r = [b EXCEPT !.windows[n].replaced = TRUE]
      BY <1>1, <1>7
    <3> QED
      BY <3>1 DEF Reflip, BookType
  <2>3. Reflip(b.windows) \in Seq(WindowType)
    BY <1>2, <2>1, ReflipTyped
  <2>4. /\ r \in BookType /\ r.windows = Reflip(b.windows) /\ r.closed = b.closed
        /\ r.barrier = b.barrier /\ r.released = b.released
    BY <2>2, <2>3 DEF BookType
  <2>5. ObserveKeeps(b, e, r)
    BY <1>7, <2>4 DEF ObserveKeeps, reason
  <2> QED
    BY <2>4, <2>5 DEF r
<1>8. CASE IsOpen(b.windows) /\ reason = "none" /\ ~(opens /\ replaces)
  <2>1. r = b
    BY <1>1, <1>8
  <2>2. ObserveKeeps(b, e, r)
    BY <1>8, <2>1 DEF ObserveKeeps, reason
  <2> QED
    BY <2>1, <2>2 DEF r
<1> QED
  BY <1>4, <1>5, <1>6, <1>7, <1>8

\* The keys are vertices: the high one of the path, the low one of the path or the origin
\* of one of its flips.
LEMMA KeysDoes ==
  ASSUME Typed, NEW completed \in BOOLEAN
  PROVE  \/ Keys(completed) = NoKeys
         \/ /\ Keys(completed).high \in ToSet(points) /\ Keys(completed).low \in Pivots
            /\ Keys(completed).decline \in Pivots
<1> DEFINE highs == {k \in 2..Len(points) : points[k].kind = "H"}
           k == CHOOSE i \in highs : \A j \in highs : j <= i
           origins == WaveOrigins(points[k])
           low == IF Cardinality(origins) = 1 THEN CHOOSE p \in origins : TRUE ELSE points[k-1]
           undercut == completed /\ k < Len(points) /\ points[k+1].price < low.price
           keys == [low |-> low, high |-> points[k],
                    decline |-> IF undercut THEN points[k+1] ELSE NoPivot]
<1>1. Keys(completed) = IF highs = {} THEN NoKeys ELSE keys
  BY Zenon DEF Keys
<1>2. CASE highs = {}
  BY <1>1, <1>2
<1>3. CASE highs # {}
  <2>1. k \in highs
    <3>1. highs \in SUBSET (1..Len(points)) /\ Len(points) \in Nat
      BY PathTyped
    <3> HIDE DEF highs
    <3>2. \E m \in highs : \A i \in highs : m >= i
      BY <1>3, <3>1, FurthestPlace
    <3>3. \E m \in highs : \A i \in highs : i <= m
      BY <3>1, <3>2
    <3> QED
      BY <3>3, Zenon
  <2>2. k \in 2..Len(points)
    BY <2>1
  <2> HIDE DEF k, highs
  <2>3. k \in 1..Len(points) /\ k - 1 \in 1..Len(points)
        /\ (k < Len(points) => k + 1 \in 1..Len(points))
    BY <2>2, PathTyped
  <2>4. low \in Pivots
    <3>1. CASE Cardinality(origins) = 1
      <4>1. origins # {}
        BY <3>1, FS_EmptySet
      <4>2. \A p \in origins : p \in Pivots
        BY DEF WaveOrigins, Typed, FactType
      <4> HIDE DEF origins
      <4> QED
        BY <3>1, <4>1, <4>2
    <3>2. CASE Cardinality(origins) # 1
      BY <2>3, <3>2, PlaceTyped
    <3> QED
      BY <3>1, <3>2
  <2> HIDE DEF low
  <2>5. points[k] \in ToSet(points) /\ (undercut => points[k+1] \in Pivots)
    BY <2>3, PlaceTyped
  <2>6. keys.high = points[k] /\ keys.low = low /\ keys.decline \in Pivots
    BY <2>5, Blanks
  <2> HIDE DEF keys
  <2> QED
    BY <1>1, <1>3, <2>4, <2>5, <2>6
<1> QED
  BY <1>2, <1>3

\* The gate is opened; or it is closed, or closed anew, and the window with it.
GateClears(b, r) ==
  /\ b.barrier # NoBarrier /\ r.barrier = NoBarrier /\ r.released = now
  /\ r.windows = b.windows /\ r.closed = b.closed

GateShuts(b, r) ==
  /\ r.barrier # NoBarrier /\ r.released = Never
  /\ r.windows = Closed(b, "last_rise_low_broken").windows
  /\ r.closed = Closed(b, "last_rise_low_broken").closed

\* The gate stays, is opened, or is closed together with the window.
LEMMA GateDoes ==
  ASSUME Typed, Vertices, now >= 0, NEW b \in BookType, NEW completed \in BOOLEAN
  PROVE  /\ Gate(b, Keys(completed)) \in BookType
         /\ \/ Gate(b, Keys(completed)) = b
            \/ GateClears(b, Gate(b, Keys(completed)))
            \/ GateShuts(b, Gate(b, Keys(completed)))
<1> DEFINE keys == Keys(completed)
           cleared == /\ now > b.barrier.breach /\ now > b.barrier.high.known
                      /\ Today.high > b.barrier.high.price
           follows == /\ keys.decline # NoPivot /\ keys.low.known < now
                      /\ keys.high.index > b.barrier.high.index
                      /\ keys.high.index > b.barrier.breach
           breaks == /\ keys # NoKeys /\ keys.low.known < now
                     /\ Today.low < keys.low.price
                     /\ ~Broken(keys.high)
           closed == Closed(b, "last_rise_low_broken")
           shut(breach) == [closed EXCEPT
                              !.barrier = [high |-> keys.high, low |-> keys.low, breach |-> breach],
                              !.released = Never]
           r == Gate(b, keys)
<1>1. \/ r = b
      \/ b.barrier # NoBarrier /\ r = [b EXCEPT !.barrier = NoBarrier, !.released = now]
      \/ follows /\ r = shut(b.barrier.breach)
      \/ breaks /\ r = shut(now)
  <2>1. r = IF b.barrier # NoBarrier
            THEN CASE cleared -> [b EXCEPT !.barrier = NoBarrier, !.released = now]
                   [] ~cleared /\ follows -> shut(b.barrier.breach)
                   [] OTHER -> b
            ELSE IF breaks THEN shut(now) ELSE b
    BY Zenon DEF Gate
  <2> HIDE DEF cleared, follows, breaks, shut, r
  <2> QED
    BY <2>1
<1>2. closed \in BookType
  <2>1. "last_rise_low_broken" \in Closings
    BY DEF Closings
  <2> QED
    BY <2>1, ClosedDoes
<1>3. NoBarrier \in BarrierType /\ now \in Int /\ b.barrier.breach \in Int
  BY Blanks, Clock DEF NoBarrier, BarrierType, BookType
<1>4. keys = NoKeys \/ (keys.high \in ToSet(points) /\ keys.low \in Pivots /\ keys.decline \in Pivots)
  BY KeysDoes
<1>5. NoKeys.decline = NoPivot
  BY DEF NoKeys
<1>6. ASSUME NEW breach \in Int, keys # NoKeys, r = shut(breach)
      PROVE  r \in BookType /\ GateShuts(b, r)
  <2>1. keys.high \in Pivots /\ keys.low \in Pivots /\ keys.high.kind # "none"
    <3>1. keys.high \in ToSet(points) /\ keys.low \in Pivots
      BY <1>4, <1>6
    <3>2. PICK i \in 1..Len(points) : keys.high = points[i]
      BY <3>1, PointTyped
    <3> QED
      BY <3>1, <3>2, PlaceTyped DEF Vertices
  <2> DEFINE barr == [high |-> keys.high, low |-> keys.low, breach |-> breach]
  <2>2. barr \in BarrierType /\ barr # NoBarrier
    <3>1. barr \in BarrierType
      BY <1>6, <2>1 DEF BarrierType
    <3>2. barr.high = keys.high /\ NoBarrier.high.kind = "none"
      BY DEF NoBarrier, NoPivot
    <3> HIDE DEF barr
    <3> QED
      BY <2>1, <3>1, <3>2
  <2>3. r = [closed EXCEPT !.barrier = barr, !.released = Never]
    BY <1>6
  <2> HIDE DEF barr, closed, r
  <2>4. /\ r \in BookType /\ r.barrier = barr /\ r.released = Never
        /\ r.windows = closed.windows /\ r.closed = closed.closed
    BY <1>2, <2>2, <2>3, Blanks DEF BookType
  <2> QED
    BY <2>2, <2>4 DEF GateShuts, closed
<1> HIDE DEF r, closed
<1>7. CASE r = b
  BY <1>7 DEF r
<1>8. CASE b.barrier # NoBarrier /\ r = [b EXCEPT !.barrier = NoBarrier, !.released = now]
  <2>1. r \in BookType /\ GateClears(b, r)
    BY <1>3, <1>8 DEF BookType, GateClears
  <2> QED
    BY <2>1 DEF r
<1>9. CASE follows /\ r = shut(b.barrier.breach)
  <2>1. keys # NoKeys
    BY <1>5, <1>9
  <2> HIDE DEF shut
  <2>2. r \in BookType /\ GateShuts(b, r)
    BY <1>3, <1>6, <1>9, <2>1
  <2> QED
    BY <2>2 DEF r
<1>10. CASE breaks /\ r = shut(now)
  <2>1. keys # NoKeys
    BY <1>10
  <2> HIDE DEF shut
  <2>2. r \in BookType /\ GateShuts(b, r)
    BY <1>3, <1>6, <1>10, <2>1
  <2> QED
    BY <2>2 DEF r
<1> QED
  BY <1>1, <1>7, <1>8, <1>9, <1>10

\* The closings of the end of the day.
Late(b, r) ==
  \/ r = b
  \/ /\ IsOpen(b.windows) /\ ~IsOpen(r.windows) /\ r.closed
     /\ r.barrier = b.barrier /\ r.released = b.released
     /\ \E reason \in {"gap_filled", "reversal_low_broken"} : r.windows = Shut(b.windows, reason)

\* A filled gap closes the window or leaves the book alone.
LEMMA FillGapDoes ==
  ASSUME Typed, now >= 0, NEW b \in BookType
  PROVE  FillGap(b) \in BookType /\ Late(b, FillGap(b))
<1>1. "gap_filled" \in Closings
  BY DEF Closings
<1>2. FillGap(b) = b \/ (IsOpen(b.windows) /\ FillGap(b) = Closed(b, "gap_filled"))
  BY DEF FillGap
<1> QED
  BY <1>1, <1>2, ClosedDoes DEF Late

\* So does a broken reversal low.
LEMMA BreakReversalDoes ==
  ASSUME Typed, now >= 0, NEW b \in BookType
  PROVE  BreakReversal(b) \in BookType /\ Late(b, BreakReversal(b))
<1>1. "reversal_low_broken" \in Closings
  BY DEF Closings
<1>2. BreakReversal(b) = b \/ (IsOpen(b.windows) /\ BreakReversal(b) = Closed(b, "reversal_low_broken"))
  BY DEF BreakReversal
<1> QED
  BY <1>1, <1>2, ClosedDoes DEF Late

\* The book of a day begins with the windows and the gate of the path.
LEMMA BookTyped ==
  ASSUME Typed
  PROVE  Book \in BookType /\ Book.windows = windows /\ Book.barrier = barrier
         /\ Book.released = released /\ ~Book.closed
  BY DEF Typed, Book, BookType

-----------------------------------------------------------------------------
(* The gate. *)

\* Behind a closed gate no window is open; an open one flipped since the release.
GateBook(b) ==
  /\ b.barrier # NoBarrier => ~IsOpen(b.windows)
  /\ IsOpen(b.windows) /\ b.released # Never => Last(b.windows).flip >= b.released

GatedBooks == {b \in BookType : GateBook(b)}

\* No event opens a window that the gate forbids.
LEMMA ObserveGated ==
  ASSUME Typed, now >= 0, NEW b \in GatedBooks, NEW e \in EventType
  PROVE  Observe(b, e) \in GatedBooks
<1> DEFINE r == Observe(b, e)
<1>1. b \in BookType /\ GateBook(b) /\ b.windows \in Seq(WindowType)
  BY DEF GatedBooks, BookType
<1>2. /\ r \in BookType
      /\ ObserveOpens(b, e, r) \/ ObservePasses(b, e, r) \/ ObserveEnds(b, e, r) \/ ObserveKeeps(b, e, r)
  BY <1>1, ObserveDoes
<1> HIDE DEF r
<1>3. CASE ObserveOpens(b, e, r)
  <2> DEFINE x == NewWindow(e)
  <2>1. x \in WindowType /\ x.flip = e.cycle.impulse.index
    BY <1>3, NewWindowTyped DEF ObserveOpens, NewWindow
  <2> HIDE DEF x
  <2>2. Last(r.windows) = x
    <3>1. r.windows = Append(b.windows, x)
      BY <1>3 DEF ObserveOpens, x
    <3>2. Append(b.windows, x)[Len(b.windows) + 1] = x /\ Len(Append(b.windows, x)) = Len(b.windows) + 1
      BY <1>1, <2>1
    <3> QED
      BY <3>1, <3>2 DEF Last
  <2>3. b.barrier = NoBarrier /\ (b.released # Never => x.flip >= b.released)
        /\ r.barrier = b.barrier /\ r.released = b.released
    BY <1>3, <2>1 DEF ObserveOpens, Permits
  <2> QED
    BY <1>2, <2>2, <2>3 DEF GateBook, GatedBooks, r
<1>4. CASE ObservePasses(b, e, r)
  BY <1>1, <1>2, <1>4 DEF ObservePasses, GateBook, GatedBooks, r
<1>5. CASE ObserveEnds(b, e, r)
  BY <1>2, <1>5 DEF ObserveEnds, GateBook, GatedBooks, r
<1>6. CASE ObserveKeeps(b, e, r)
  <2>1. IsOpen(b.windows) /\ b.windows # <<>>
    BY <1>6 DEF ObserveKeeps, IsOpen
  <2>2. Last(Reflip(b.windows)).flip = Last(b.windows).flip
    <3> DEFINE w == b.windows[Len(b.windows)]
    <3>1. w \in WindowType /\ Last(b.windows) = w
      BY <1>1, <2>1, LastWindow
    <3>2. Last(Reflip(b.windows)) = [w EXCEPT !.replaced = TRUE]
      BY <1>1, <2>1, ReflipTyped
    <3> HIDE DEF w
    <3> QED
      BY <3>1, <3>2 DEF WindowType
  <2> QED
    BY <1>1, <1>2, <1>6, <2>1, <2>2 DEF ObserveKeeps, GateBook, GatedBooks, r
<1> QED
  BY <1>2, <1>3, <1>4, <1>5, <1>6

\* Nor do the closings of the end of the day.
LEMMA LateGated ==
  ASSUME NEW b \in GatedBooks, NEW r \in BookType, Late(b, r)
  PROVE  r \in GatedBooks
  BY DEF GatedBooks, GateBook, Late

\* Nor does a whole day.
LEMMA SettledGated ==
  ASSUME Typed, now >= 0, NEW b \in GatedBooks, NEW q \in Seq(EventType)
  PROVE  Settled(b, q) \in GatedBooks
<1> DEFINE u == FoldLeft(Observe, b, q)
           v == FillGap(u)
<1>1. u \in GatedBooks
  <2>1. \A c \in GatedBooks : \A e \in EventType : Observe(c, e) \in GatedBooks
    BY ObserveGated
  <2> HIDE DEF GatedBooks
  <2> QED
    BY <2>1, EventsStay
<1> HIDE DEF u
<1>2. v \in GatedBooks
  BY <1>1, FillGapDoes, LateGated DEF GatedBooks
<1> HIDE DEF v
<1>3. BreakReversal(v) \in GatedBooks
  BY <1>2, BreakReversalDoes, LateGated DEF GatedBooks
<1> QED
  BY <1>3 DEF Settled, u, v

\* The gate of the day closes the window it would forbid.
LEMMA GateGated ==
  ASSUME Typed, Vertices, now >= 0, NEW completed \in BOOLEAN, GateStands
  PROVE  Gate(Book, Keys(completed)) \in GatedBooks
<1> DEFINE r == Gate(Book, Keys(completed))
<1>1. Book \in BookType /\ GateBook(Book)
  BY BookTyped DEF GateStands, GateBook, Open
<1>2. r \in BookType /\ (r = Book \/ GateClears(Book, r) \/ GateShuts(Book, r))
  BY <1>1, GateDoes
<1> HIDE DEF r
<1>3. CASE GateClears(Book, r)
  BY <1>1, <1>2, <1>3 DEF GateClears, GateBook, GatedBooks, r
<1>4. CASE GateShuts(Book, r)
  <2>1. ~IsOpen(Closed(Book, "last_rise_low_broken").windows)
    <3>1. "last_rise_low_broken" \in Closings
      BY DEF Closings
    <3> QED
      BY <1>1, <3>1, ClosedDoes
  <2> QED
    BY <1>2, <1>4, <2>1 DEF GateShuts, GateBook, GatedBooks, r
<1> QED
  BY <1>1, <1>2, <1>3, <1>4 DEF GatedBooks, r

-----------------------------------------------------------------------------
(* The geometry. *)

\* A path whose vertices are as Vertices has them.
PathOK(path) ==
  /\ \A k \in 1..Len(path) :
       LET p == path[k] IN
       /\ p.kind # "none" /\ 0 <= p.index /\ p.index < p.known /\ p.known <= now
       /\ p.price = IF p.kind = "H" THEN Bar(p.index).high ELSE Bar(p.index).low
       /\ p.kind = "H" => \A d \in (p.index + 1)..(p.known - 1) : Bar(d).high <= p.price
  /\ \A j, k \in 1..Len(path) :
       j < k => path[j].index < path[k].index /\ path[j].known <= path[k].known
  /\ \A j, k \in 1..Len(path) : k = j + 1 => path[j].kind # path[k].kind

\* A vertex that may follow a path today.
NewVertex(path, v) ==
  /\ v \in Pivots /\ v.kind # "none" /\ 0 <= v.index /\ v.index < v.known /\ v.known <= now
  /\ v.price = IF v.kind = "H" THEN Bar(v.index).high ELSE Bar(v.index).low
  /\ v.kind = "H" => \A d \in (v.index + 1)..(now - 1) : Bar(d).high <= v.price
  /\ path # <<>> => /\ Last(path).kind # v.kind /\ Last(path).index < v.index
                    /\ Last(path).known <= v.known

\* A path without its last vertex.
LEMMA FrontOf ==
  ASSUME NEW q \in Seq(Pivots), q # <<>>
  PROVE  /\ Front(q) \in Seq(Pivots) /\ Len(Front(q)) = Len(q) - 1
         /\ Len(q) \in Nat /\ Len(q) \in 1..Len(q) /\ Last(q) = q[Len(q)]
         /\ \A i \in 1..(Len(q) - 1) : Front(q)[i] = q[i]
  BY DEF Front, Last

\* It is in order if the path is.
LEMMA FrontOK ==
  ASSUME NEW q \in Seq(Pivots), q # <<>>, PathOK(q)
  PROVE  PathOK(Front(q))
<1>1. /\ Len(Front(q)) = Len(q) - 1 /\ Len(q) \in Nat
      /\ \A i \in 1..(Len(q) - 1) : Front(q)[i] = q[i]
  BY FrontOf
<1> DEFINE p == Front(q)
<1>2. Len(p) = Len(q) - 1 /\ \A i \in 1..Len(p) : p[i] = q[i] /\ i \in 1..Len(q)
  BY <1>1
<1> HIDE DEF p
<1> DEFINE V(x) ==
       /\ x.kind # "none" /\ 0 <= x.index /\ x.index < x.known /\ x.known <= now
       /\ x.price = IF x.kind = "H" THEN Bar(x.index).high ELSE Bar(x.index).low
       /\ x.kind = "H" => \A d \in (x.index + 1)..(x.known - 1) : Bar(d).high <= x.price
<1>3. /\ \A i \in 1..Len(q) : V(q[i])
      /\ \A j, k \in 1..Len(q) : j < k => q[j].index < q[k].index /\ q[j].known <= q[k].known
      /\ \A j, k \in 1..Len(q) : k = j + 1 => q[j].kind # q[k].kind
  BY DEF PathOK
<1>4. PathOK(p) <=>
      /\ \A i \in 1..Len(p) : V(p[i])
      /\ \A j, k \in 1..Len(p) : j < k => p[j].index < p[k].index /\ p[j].known <= p[k].known
      /\ \A j, k \in 1..Len(p) : k = j + 1 => p[j].kind # p[k].kind
  BY DEF PathOK
<1> HIDE DEF V
<1>5. \A i \in 1..Len(p) : V(p[i])
  BY <1>2, <1>3
<1>6. \A j, k \in 1..Len(p) : j < k => p[j].index < p[k].index /\ p[j].known <= p[k].known
  BY <1>2, <1>3
<1>7. \A j, k \in 1..Len(p) : k = j + 1 => p[j].kind # p[k].kind
  BY <1>2, <1>3
<1>8. PathOK(p)
  BY <1>4, <1>5, <1>6, <1>7
<1> QED
  BY <1>8 DEF p

\* A path with a new vertex is in order.
LEMMA LongerOK ==
  ASSUME Typed, NEW q \in Seq(Pivots), PathOK(q), NEW v, NewVertex(q, v)
  PROVE  Append(q, v) \in Seq(Pivots) /\ PathOK(Append(q, v))
<1> DEFINE p == Append(q, v)
           n == Len(q)
<1>1. /\ p \in Seq(Pivots) /\ n \in Nat /\ Len(p) = n + 1 /\ p[n + 1] = v
      /\ \A i \in 1..n : p[i] = q[i]
  BY DEF NewVertex
<1>2. \A i \in 1..n : q[i].index \in Int /\ q[i].known \in Int /\ q[i].known <= now
  <2> SUFFICES ASSUME NEW i \in 1..n PROVE q[i].index \in Int /\ q[i].known \in Int /\ q[i].known <= now
    OBVIOUS
  <2>1. q[i] \in Pivots
    OBVIOUS
  <2> QED
    BY <2>1 DEF PathOK, Pivots
<1>3. v.index \in Int /\ v.known \in Int /\ v.known <= now /\ now \in Int
  BY Clock DEF NewVertex, Pivots
<1>4. \A i \in 1..n : q[i].index < v.index /\ q[i].known <= v.known
  <2> SUFFICES ASSUME NEW i \in 1..n PROVE q[i].index < v.index /\ q[i].known <= v.known
    OBVIOUS
  <2>1. q # <<>> /\ n \in 1..n /\ Last(q) = q[n]
    BY <1>1 DEF Last
  <2>2. q[n].index < v.index /\ q[n].known <= v.known
    BY <2>1 DEF NewVertex
  <2>3. i = n \/ (q[i].index < q[n].index /\ q[i].known <= q[n].known)
    <3>1. i = n \/ i < n
      BY <1>1
    <3> QED
      BY <2>1, <3>1 DEF PathOK
  <2> QED
    BY <1>2, <1>3, <2>1, <2>2, <2>3
<1>5. n > 0 => q[n].kind # v.kind
  <2>1. n > 0 => q # <<>> /\ Last(q) = q[n]
    BY <1>1 DEF Last
  <2> QED
    BY <2>1 DEF NewVertex
<1> HIDE DEF p
<1>6. \A k \in 1..Len(p) : k \in 1..n \/ k = n + 1
  BY <1>1
<1>7. ASSUME NEW k \in 1..Len(p)
      PROVE  /\ p[k].kind # "none" /\ 0 <= p[k].index /\ p[k].index < p[k].known /\ p[k].known <= now
             /\ p[k].price = IF p[k].kind = "H" THEN Bar(p[k].index).high ELSE Bar(p[k].index).low
             /\ p[k].kind = "H" => \A d \in (p[k].index + 1)..(p[k].known - 1) : Bar(d).high <= p[k].price
  <2>1. CASE k \in 1..n
    BY <1>1, <2>1 DEF PathOK
  <2>2. CASE k = n + 1
    <3>1. \A d \in (v.index + 1)..(v.known - 1) : d \in (v.index + 1)..(now - 1)
      BY <1>3
    <3> QED
      BY <1>1, <2>2, <3>1 DEF NewVertex
  <2> QED
    BY <1>6, <2>1, <2>2
<1>8. ASSUME NEW j \in 1..Len(p), NEW k \in 1..Len(p), j < k
      PROVE  p[j].index < p[k].index /\ p[j].known <= p[k].known
  <2>1. CASE k \in 1..n
    <3>1. j \in 1..n
      BY <1>8, <2>1
    <3> QED
      BY <1>1, <1>8, <2>1, <3>1 DEF PathOK
  <2>2. CASE k = n + 1
    <3>1. j \in 1..n
      BY <1>1, <1>8, <2>2
    <3> QED
      BY <1>1, <1>4, <2>2, <3>1
  <2> QED
    BY <1>6, <2>1, <2>2
<1>9. ASSUME NEW j \in 1..Len(p), NEW k \in 1..Len(p), k = j + 1
      PROVE  p[j].kind # p[k].kind
  <2>1. CASE k \in 1..n
    <3>1. j \in 1..n
      BY <1>9, <2>1
    <3> QED
      BY <1>1, <1>9, <2>1, <3>1 DEF PathOK
  <2>2. CASE k = n + 1
    BY <1>1, <1>5, <1>9, <2>2
  <2> QED
    BY <1>6, <2>1, <2>2
<1>10. PathOK(p)
  BY <1>7, <1>8, <1>9 DEF PathOK
<1> QED
  BY <1>1, <1>10 DEF p

\* A fact and the vertices it rests on: a flip up rises from a low none of the later ones
\* undercut, an alternation up pulls back from the high before it, above the low before that.
FlipOK(path, f, j) ==
  /\ path[j].kind = "H"
  /\ \E k \in 1..(j - 1) :
        /\ f.origin = path[k] /\ path[k].kind = "L"
        /\ \A i \in k..(j - 1) : path[i].kind = "L" => path[i].price >= path[k].price

AlternationOK(path, f, j) ==
  /\ path[j].kind = "L" /\ j > 2
  /\ f.impulse = path[j - 1] /\ path[j - 2].price < path[j].price

FactOK(path, f) ==
  \E j \in 1..Len(path) :
     /\ f.point = path[j] /\ f.known = path[j].known
     /\ f.title = "BullFlip" => FlipOK(path, f, j)
     /\ f.title = "BullAlternation" => AlternationOK(path, f, j)

\* The observations of a new vertex are at it and on the path.
LEMMA ObservationsDo ==
  ASSUME Typed, NEW q \in Seq(Pivots), PathOK(q), NEW v, NewVertex(q, v)
  PROVE  /\ Observations(q, v) \in SUBSET FactType /\ IsFiniteSet(Observations(q, v))
         /\ \A f \in Observations(q, v) : f.point = v /\ FactOK(Append(q, v), f)
<1> DEFINE up == v.kind = "H"
           n == Len(q)
           p == Append(q, v)
           origins == {k \in DOMAIN q :
                         /\ q[k].kind # v.kind
                         /\ k > 1 => Beyond(up, v.price, q[k-1].price)
                         /\ \A j \in k..Len(q) :
                               q[j].kind # v.kind => ~Beyond(~up, q[j].price, q[k].price)}
           flip(k) == [title |-> FlipTitle(up), point |-> v, known |-> v.known, origin |-> q[k],
                       impulse |-> NoPivot, broken |-> IF k > 1 THEN q[k-1] ELSE NoPivot]
           alternation == [NoFact EXCEPT
                             !.title = IF up THEN "BearAlternation" ELSE "BullAlternation",
                             !.point = v, !.known = v.known, !.impulse = Last(q)]
           alternates == n > 1 /\ Beyond(~up, v.price, q[n-1].price)
           flips == {flip(k) : k \in origins}
           O == Observations(q, v)
<1>1. O = flips \cup (IF alternates THEN {alternation} ELSE {})
  BY DEF Observations
<1>2. /\ n \in Nat /\ DOMAIN q = 1..n /\ Len(p) = n + 1 /\ p[n + 1] = v
      /\ \A i \in 1..n : p[i] = q[i] /\ q[i] \in Pivots
  BY DEF NewVertex
<1>3. v \in Pivots /\ v.known \in Int /\ v.price \in Int /\ v.kind \in {"H", "L"}
  BY Clock DEF NewVertex, Pivots
<1>4. \A i \in 1..n : q[i].kind \in {"H", "L"} /\ q[i].price \in Int
  BY <1>2 DEF PathOK, Pivots
<1>5. origins \in SUBSET (1..n)
  BY <1>2
<1> HIDE DEF O, p, n
<1>6. ASSUME NEW k \in origins
      PROVE  flip(k) \in FactType /\ flip(k).point = v /\ FactOK(p, flip(k))
  <2>1. k \in 1..n /\ q[k].kind # v.kind
    BY <1>2, <1>6
  <2>2. \A j \in k..n : q[j].kind # v.kind => ~Beyond(~up, q[j].price, q[k].price)
    BY <1>6 DEF n
  <2> DEFINE f == flip(k)
             broken == IF k > 1 THEN q[k-1] ELSE NoPivot
  <2>3. broken \in Pivots /\ FlipTitle(up) \in {"BullFlip", "BearFlip"}
    <3>1. k > 1 => k - 1 \in 1..n
      BY <1>2, <2>1
    <3> QED
      BY <1>2, <3>1, Blanks DEF FlipTitle
  <2> HIDE DEF broken
  <2>4. f = [title |-> FlipTitle(up), point |-> v, known |-> v.known, origin |-> q[k],
             impulse |-> NoPivot, broken |-> broken]
    BY DEF broken
  <2> HIDE DEF f, origins
  <2>5. /\ f \in FactType /\ f.point = v /\ f.known = v.known /\ f.origin = q[k] /\ f.title = FlipTitle(up)
    BY <1>2, <1>3, <2>1, <2>3, <2>4, Blanks DEF FactType
  <2>6. FactOK(p, f)
    <3>1. n + 1 \in 1..Len(p) /\ f.point = p[n + 1] /\ f.known = p[n + 1].known
      BY <1>2, <1>3, <2>5
    <3>2. f.title # "BullAlternation"
      BY <2>3, <2>5
    <3>3. f.title = "BullFlip" => FlipOK(p, f, n + 1)
      <4> SUFFICES ASSUME up PROVE FlipOK(p, f, n + 1)
        BY <2>5 DEF FlipTitle
      <4>1. k \in 1..((n + 1) - 1) /\ f.origin = p[k] /\ p[k].kind = "L" /\ p[n + 1].kind = "H"
        BY <1>2, <1>3, <1>4, <2>1, <2>5
      <4>2. ASSUME NEW i \in k..((n + 1) - 1), p[i].kind = "L"
            PROVE  p[i].price >= p[k].price
        <5>1. i \in k..n /\ i \in 1..n /\ p[i] = q[i] /\ p[k] = q[k]
          BY <1>2, <2>1
        <5>2. ~(q[i].price < q[k].price)
          <6>1. ~Beyond(~up, q[i].price, q[k].price)
            BY <2>2, <4>2, <5>1
          <6> QED
            BY <6>1 DEF Beyond
        <5> QED
          BY <1>4, <2>1, <5>1, <5>2
      <4> QED
        BY <4>1, <4>2 DEF FlipOK
    <3> QED
      BY <3>1, <3>2, <3>3 DEF FactOK
  <2> QED
    BY <2>5, <2>6 DEF f
<1>7. ASSUME alternates
      PROVE  alternation \in FactType /\ alternation.point = v /\ FactOK(p, alternation)
  <2>1. n \in 1..n /\ n - 1 \in 1..n /\ Last(q) = q[n] /\ Last(q) \in Pivots
    BY <1>2, <1>7 DEF Last, n
  <2> DEFINE f == alternation
             title == IF up THEN "BearAlternation" ELSE "BullAlternation"
  <2>2. title \in {"BearAlternation", "BullAlternation"}
    OBVIOUS
  <2> HIDE DEF title
  <2>3. f = [NoFact EXCEPT !.title = title, !.point = v, !.known = v.known, !.impulse = Last(q)]
    BY DEF title
  <2> HIDE DEF f
  <2>4. f \in FactType /\ f.point = v /\ f.known = v.known /\ f.impulse = q[n] /\ f.title = title
    BY <1>3, <2>1, <2>2, <2>3, Blanks DEF FactType, NoFact
  <2>5. FactOK(p, f)
    <3>1. n + 1 \in 1..Len(p) /\ f.point = p[n + 1] /\ f.known = p[n + 1].known
      BY <1>2, <1>3, <2>4
    <3>2. f.title # "BullFlip"
      BY <2>2, <2>4
    <3>3. f.title = "BullAlternation" => AlternationOK(p, f, n + 1)
      <4> SUFFICES ASSUME ~up PROVE AlternationOK(p, f, n + 1)
        BY <2>4 DEF title
      <4>1. p[n + 1].kind = "L" /\ n + 1 > 2 /\ f.impulse = p[(n + 1) - 1]
        BY <1>2, <1>3, <1>7, <2>1, <2>4
      <4>2. p[(n + 1) - 2].price < p[n + 1].price
        <5>1. v.price > q[n - 1].price
          BY <1>7 DEF Beyond
        <5>2. (n + 1) - 2 = n - 1 /\ p[n - 1] = q[n - 1]
          BY <1>2, <2>1
        <5> QED
          BY <1>2, <1>3, <1>4, <2>1, <5>1, <5>2
      <4> QED
        BY <4>1, <4>2 DEF AlternationOK
    <3> QED
      BY <3>1, <3>2, <3>3 DEF FactOK
  <2> QED
    BY <2>4, <2>5 DEF f
<1>8. IsFiniteSet(O)
  <2>1. IsFiniteSet(origins)
    BY <1>2, <1>5, FinitePlaces
  <2>2. IsFiniteSet(flips)
    <3> HIDE DEF origins, flip
    <3> QED
      <4> DEFINE m == [k \in origins |-> flip(k)]
      <4>1. m \in Surjection(origins, {flip(k) : k \in origins})
        BY DEF Surjection
      <4> HIDE DEF m
      <4> QED
        BY <2>1, <4>1, FS_Surjection
  <2>3. IsFiniteSet(IF alternates THEN {alternation} ELSE {})
    BY FS_Singleton, FS_EmptySet
  <2> HIDE DEF flips, alternates, alternation
  <2> QED
    BY <1>1, <2>2, <2>3, FS_Union
<1>9. ASSUME NEW f \in O
      PROVE  f \in FactType /\ f.point = v /\ FactOK(p, f)
  <2>1. (\E k \in origins : f = flip(k)) \/ (alternates /\ f = alternation)
    BY <1>1
  <2> HIDE DEF origins, flip, alternates, alternation
  <2> QED
    BY <1>6, <1>7, <2>1
<1> QED
  BY <1>8, <1>9 DEF O, p

\* A vertex that may be confirmed today.
LEMMA CandidateNew ==
  ASSUME Typed, NEW kind \in {"H", "L"},
         NEW path, NEW from \in Nat, NEW v \in Candidates(kind, path, from),
         path # <<>> => /\ Last(path).kind # kind /\ Last(path).index < from
                        /\ Last(path).index \in Int /\ Last(path).known \in Int
  PROVE  NewVertex(path, v)
<1> DEFINE known == IF path = <<>> THEN 0 ELSE Last(path).known
<1>0. PICK d \in from..(now - 1) : v \in ClockedVertices(kind, d, known)
  BY DEF Candidates
<1>1. PICK k \in (d + 1)..now \cap known..now : v = [Vertex(kind, d) EXCEPT !.known = k]
  BY <1>0 DEF ClockedVertices
<1>2. Extreme(v, from)
  BY DEF Candidates
<1>3. /\ now \in Int /\ d \in 0..now /\ d < now
      /\ k \in Int /\ d < k /\ k <= now /\ (path # <<>> => Last(path).known <= k)
  BY Clock
<1>4. v = [index |-> d, kind |-> kind, known |-> k,
           price |-> IF kind = "H" THEN Bar(d).high ELSE Bar(d).low]
  BY <1>1 DEF Vertex
<1>5. /\ v \in Pivots /\ v.index = d /\ v.kind = kind /\ v.known = k
      /\ v.price = IF kind = "H" THEN Bar(d).high ELSE Bar(d).low
  <2>1. Bar(d).high \in Int /\ Bar(d).low \in Int
    BY <1>3, BarTyped
  <2> QED
    BY <1>3, <1>4, <2>1 DEF Pivots
<1>6. ASSUME kind = "H", NEW e \in (v.index + 1)..(now - 1)
      PROVE  Bar(e).high <= v.price
  <2>1. e \in from..(now - 1) /\ e \in 0..now
    BY <1>3, <1>5, <1>6
  <2>2. ~Beyond(v.kind = "H", Vertex(v.kind, e).price, v.price)
    BY <1>2, <2>1 DEF Extreme
  <2>3. Vertex("H", e).price = Bar(e).high
    BY DEF Vertex
  <2>4. ~(Bar(e).high > v.price)
    BY <1>5, <1>6, <2>2, <2>3 DEF Beyond
  <2>5. Bar(e).high \in Int /\ v.price \in Int
    BY <1>5, <2>1, BarTyped DEF Pivots
  <2> QED
    BY <2>4, <2>5
<1>7. kind # "none" /\ 0 <= v.index /\ v.index < v.known /\ v.known <= now
  BY <1>3, <1>5
<1>8. path # <<>> => /\ Last(path).kind # v.kind /\ Last(path).index < v.index
                     /\ Last(path).known <= v.known
  BY <1>3, <1>5
<1>9. v.kind = "H" => \A e \in (v.index + 1)..(now - 1) : Bar(e).high <= v.price
  BY <1>5, <1>6
<1> QED
  BY <1>5, <1>7, <1>8, <1>9 DEF NewVertex

\* The path is one of today's vertex after another path.
Redraws(path) ==
  \E v : \E fs \in SUBSET Observations(path, v) :
     /\ NewVertex(path, v) /\ points' = Append(path, v)
     /\ facts' = {g \in facts : g.point \in ToSet(path)} \cup fs /\ present' = present

\* Drawing a vertex redraws the path.
LEMMA DrawRedraws ==
  ASSUME NEW path, NEW v, NewVertex(path, v), Draw(path, v)
  PROVE  Redraws(path)
  BY DEF Draw, Redraws

Withdraws ==
  /\ points # <<>> /\ points' = Front(points)
  /\ facts' = {f \in facts : f.point # Last(points)} /\ present' = present

Forgets == points' = points /\ facts' \in SUBSET facts /\ (present' = present \/ present' = FALSE)

\* The last vertex of the path.
LEMMA LastPoint ==
  ASSUME Typed, Vertices, points # <<>>
  PROVE  /\ Len(points) \in 1..Len(points) /\ Last(points) = points[Len(points)]
         /\ Last(points).kind \in {"H", "L"} /\ Last(points).index \in Nat
         /\ Last(points).known \in Int /\ Last(points) \in ToSet(points)
<1>1. points \in Seq(Pivots)
  BY DEF Typed
<1>2. Len(points) \in 1..Len(points) /\ Last(points) = points[Len(points)]
  BY <1>1 DEF Last
<1>3. points[Len(points)] \in Pivots /\ points[Len(points)].index \in Int
      /\ points[Len(points)].known \in Int /\ points[Len(points)] \in ToSet(points)
  BY <1>2, PlaceTyped
<1>4. points[Len(points)].kind # "none" /\ 0 <= points[Len(points)].index
  BY <1>2 DEF Vertices
<1>5. points[Len(points)].kind \in {"H", "L", "none"}
  BY <1>3 DEF Pivots
<1> QED
  BY <1>2, <1>3, <1>4, <1>5

\* The ways the geometry of a day may change.
LEMMA RedrawDoes ==
  ASSUME Typed, Vertices, Redraw
  PROVE  /\ now' = now /\ bars' = bars /\ phase = "geometry" /\ phase' \in {"geometry", "close"}
         /\ \/ Redraws(points)
            \/ points # <<>> /\ Redraws(Front(points))
            \/ Withdraws
            \/ Forgets
<1>1. now' = now /\ bars' = bars /\ phase = "geometry" /\ phase' \in {"geometry", "close"}
  BY DEF Redraw
<1>2. CASE ConfirmVertex
  <2> DEFINE from == IF points = <<>> THEN 0 ELSE Last(points).index + 1
  <2>0. PICK kind \in {"H", "L"} :
          \E v \in Candidates(kind, points, from) : /\ points # <<>> => Last(points).kind # kind
                                           /\ Draw(points, v)
    BY <1>2, Zenon DEF ConfirmVertex
  <2>1. PICK v \in Candidates(kind, points, from) : /\ points # <<>> => Last(points).kind # kind
                                            /\ Draw(points, v)
    BY <2>0
  <2>2. from \in Nat /\ (points # <<>> => /\ Last(points).index < from /\ Last(points).index \in Int
                                          /\ Last(points).known \in Int)
    BY LastPoint
  <2> HIDE DEF from
  <2>3. NewVertex(points, v)
    BY <2>1, <2>2, CandidateNew
  <2> QED
    BY <1>1, <2>1, <2>3, DrawRedraws
<1>3. CASE ExtendVertex
  <2> DEFINE from == Last(points).index + 1
  <2>1. points # <<>>
    BY <1>3 DEF ExtendVertex
  <2>2. PICK v \in Candidates(Last(points).kind, Front(points), from) : Draw(Front(points), v)
    BY <1>3 DEF ExtendVertex
  <2>3. from \in Nat /\ Last(points).kind \in {"H", "L"}
    BY <2>1, LastPoint
  <2>4. Front(points) # <<>> =>
          /\ Last(Front(points)).kind # Last(points).kind
          /\ Last(Front(points)).index < from /\ Last(Front(points)).index \in Int
          /\ Last(Front(points)).known \in Int
    <3> SUFFICES ASSUME Front(points) # <<>>
                 PROVE  /\ Last(Front(points)).kind # Last(points).kind
                        /\ Last(Front(points)).index < from /\ Last(Front(points)).index \in Int
                        /\ Last(Front(points)).known \in Int
      OBVIOUS
    <3> DEFINE n == Len(points)
               q == Front(points)
    <3>1. /\ q \in Seq(Pivots) /\ Len(q) = n - 1 /\ n \in 1..n /\ Last(points) = points[n]
          /\ \A i \in 1..(n - 1) : q[i] = points[i]
      BY <2>1, FrontOf DEF Typed
    <3> HIDE DEF q, n
    <3>2. n \in Nat /\ n - 1 \in 1..n /\ Last(q) = points[n - 1]
      <4>1. n \in Nat
        BY PathTyped DEF n
      <4>2. q # <<>>
        BY DEF q
      <4>3. Len(q) # 0
        BY <3>1, <4>2
      <4>4. n - 1 \in 1..(n - 1)
        BY <3>1, <4>1, <4>3
      <4>5. Last(q) = q[n - 1]
        BY <3>1 DEF Last
      <4> QED
        BY <3>1, <4>1, <4>4, <4>5
    <3>3. points[n - 1].kind # points[n].kind /\ points[n - 1].index < points[n].index
      BY <3>1, <3>2 DEF Vertices, n
    <3>4. points[n - 1].index \in Int /\ points[n].index \in Int /\ points[n - 1].known \in Int
      BY <3>1, <3>2, PlaceTyped DEF n
    <3> QED
      BY <3>1, <3>2, <3>3, <3>4 DEF q
  <2> HIDE DEF from
  <2>5. NewVertex(Front(points), v)
    BY <2>2, <2>3, <2>4, CandidateNew
  <2> QED
    BY <1>1, <2>1, <2>2, <2>5, DrawRedraws
<1>4. CASE WithdrawVertex
  BY <1>1, <1>4 DEF WithdrawVertex, Withdraws
<1>5. CASE WithdrawObservation
  <2>1. points' = points /\ present' = present /\ facts' \in SUBSET facts
    BY <1>5 DEF WithdrawObservation
  <2> QED
    BY <1>1, <2>1 DEF Forgets
<1>6. CASE EndPath \/ KeepGeometry
  BY <1>1, <1>6 DEF EndPath, KeepGeometry, Forgets
<1> QED
  BY <1>2, <1>3, <1>4, <1>5, <1>6, Zenon DEF Redraw

\* A fact of a longer path is one of the path.
LEMMA FactStays ==
  ASSUME Typed, Vertices, NEW f, FactOK(points, f), NEW n \in 0..Len(points),
         NEW i \in 1..n, f.point = points[i], NEW p, n <= Len(p), Len(p) \in Nat,
         \A k \in 1..n : p[k] = points[k]
  PROVE  FactOK(p, f)
<1>1. PICK j \in 1..Len(points) :
        /\ f.point = points[j] /\ f.known = points[j].known
        /\ f.title = "BullFlip" => FlipOK(points, f, j)
        /\ f.title = "BullAlternation" => AlternationOK(points, f, j)
  BY DEF FactOK
<1>2. Len(points) \in Nat /\ i \in 1..Len(points)
  BY PathTyped
<1>3. j = i
  <2>1. points[i].index \in Int /\ points[j].index \in Int
    BY <1>2, PlaceTyped
  <2>2. ~(i < j) /\ ~(j < i)
    <3>1. points[i].index = points[j].index
      BY <1>1
    <3>2. i < j => points[i].index < points[j].index
      BY <1>2 DEF Vertices
    <3>3. j < i => points[j].index < points[i].index
      BY <1>2 DEF Vertices
    <3> QED
      BY <2>1, <3>1, <3>2, <3>3
  <2> QED
    BY <1>2, <2>2
<1>4. i \in 1..Len(p) /\ p[i] = points[i] /\ \A k \in 1..i : p[k] = points[k]
  BY <1>2
<1>5. FlipOK(points, f, i) => FlipOK(p, f, i)
  <2> SUFFICES ASSUME FlipOK(points, f, i) PROVE FlipOK(p, f, i)
    OBVIOUS
  <2>1. PICK k \in 1..(i - 1) :
          /\ f.origin = points[k] /\ points[k].kind = "L"
          /\ \A m \in k..(i - 1) : points[m].kind = "L" => points[m].price >= points[k].price
    BY DEF FlipOK
  <2>2. p[k] = points[k] /\ \A m \in k..(i - 1) : p[m] = points[m]
    BY <1>2, <1>4
  <2> QED
    BY <1>4, <2>1, <2>2 DEF FlipOK
<1>6. AlternationOK(points, f, i) => AlternationOK(p, f, i)
  <2> SUFFICES ASSUME AlternationOK(points, f, i) PROVE AlternationOK(p, f, i)
    OBVIOUS
  <2>1. i - 1 \in 1..i /\ i - 2 \in 1..i
    BY <1>2 DEF AlternationOK
  <2> QED
    BY <1>4, <2>1 DEF AlternationOK
<1> QED
  BY <1>1, <1>3, <1>4, <1>5, <1>6 DEF FactOK

\* No bar of the days before passed the high.
Unpassed(p) == p.kind = "H" => \A d \in (p.index + 1)..(now - 1) : Bar(d).high <= p.price

\* Every fact stands on the path; no later bar has passed the high of an unseen one, and at
\* night none is unseen.
Facts ==
  /\ \A f \in facts : FactOK(points, f)
  /\ present => \A f \in facts \ seen : Unpassed(f.point) /\ phase # "night"

-----------------------------------------------------------------------------
(* The types, the path and the recovery of every state. *)

Base ==
  /\ Typed /\ Vertices /\ Sound(recovery)

\* The types of the geometry.
LEMMA TypedHolds ==
  ASSUME Typed
  PROVE  points \in Seq(Pivots) /\ facts \in SUBSET FactType /\ IsFiniteSet(facts)
  BY DEF Typed

\* A market day is added at the end of the bars.
LEMMA MarketDayDoes ==
  ASSUME Typed, MarketDay
  PROVE  /\ now' = now + 1 /\ now' \in 0..LastDay /\ phase = "night" /\ phase' = "geometry" /\ present
         /\ bars' \in [1..(now' + 1) -> Prices]
         /\ \A d \in 1..(now + 1) : bars'[d] = bars[d]
         /\ points' = points /\ facts' = facts /\ present' = present
<1>1. now' = now + 1 /\ now < LastDay /\ phase = "night" /\ phase' = "geometry" /\ present
      /\ points' = points /\ facts' = facts /\ present' = present
  BY DEF MarketDay
<1>2. now \in Int /\ now >= -1 /\ LastDay \in Nat
  BY TrendAssumption DEF Typed, Never
<1>3. PICK course \in Courses : bars' = Append(bars, course[Len(bars) + 1])
  BY DEF MarketDay
<1>4. bars \in [1..(now + 1) -> Prices] /\ now + 1 \in Nat
  BY <1>2 DEF Typed
<1>5. bars \in Seq(Prices) /\ Len(bars) = now + 1
  BY <1>4
<1>6. course \in [1..(LastDay + 1) -> Prices]
  BY <1>3, TrendAssumption DEF Prices
<1>7. course[Len(bars) + 1] \in Prices
  BY <1>1, <1>2, <1>5, <1>6
<1> DEFINE x == course[Len(bars) + 1]
<1> HIDE DEF x
<1>8. /\ bars' \in Seq(Prices) /\ Len(bars') = now + 2
      /\ \A d \in 1..(now + 1) : bars'[d] = bars[d]
  <2>1. bars' = Append(bars, x) /\ x \in Prices
    BY <1>3, <1>7 DEF x
  <2> QED
    BY <1>2, <1>5, <2>1
<1>9. bars' \in [1..(now' + 1) -> Prices]
  BY <1>1, <1>2, <1>8
<1> QED
  BY <1>1, <1>2, <1>8, <1>9

\* The bars of the days before are as they were.
LEMMA BarsStay ==
  ASSUME Typed, \A d \in 1..(now + 1) : bars'[d] = bars[d]
  PROVE  \A d \in 0..now : Bar(d)' = Bar(d)
<1>1. now \in Int /\ \A d \in 0..now : d + 1 \in 1..(now + 1)
  BY Clock
<1> QED
  BY <1>1 DEF Bar

\* The path stays in order as the days pass.
LEMMA PathStays ==
  ASSUME Typed, NEW q \in Seq(Pivots), PathOK(q), now' \in Int, now <= now',
         \A d \in 1..(now + 1) : bars'[d] = bars[d]
  PROVE  PathOK(q)'
<1>1. \A d \in 0..now : Bar(d)' = Bar(d)
  BY BarsStay
<1>2. now \in Int
  BY Clock
<1>3. ASSUME NEW k \in 1..Len(q)
      PROVE  /\ q[k].kind # "none" /\ 0 <= q[k].index /\ q[k].index < q[k].known /\ q[k].known <= now'
             /\ q[k].price = IF q[k].kind = "H" THEN Bar(q[k].index)'.high ELSE Bar(q[k].index)'.low
             /\ q[k].kind = "H" => \A d \in (q[k].index + 1)..(q[k].known - 1) : Bar(d)'.high <= q[k].price
  <2>1. q[k].index \in Int /\ q[k].known \in Int
    <3>1. q[k] \in Pivots
      OBVIOUS
    <3> QED
      BY <3>1 DEF Pivots
  <2>2. /\ q[k].kind # "none" /\ 0 <= q[k].index /\ q[k].index < q[k].known /\ q[k].known <= now
        /\ q[k].price = IF q[k].kind = "H" THEN Bar(q[k].index).high ELSE Bar(q[k].index).low
        /\ q[k].kind = "H" => \A d \in (q[k].index + 1)..(q[k].known - 1) : Bar(d).high <= q[k].price
    BY DEF PathOK
  <2>3. q[k].index \in 0..now /\ Bar(q[k].index)' = Bar(q[k].index)
    BY <1>1, <1>2, <2>1, <2>2
  <2>4. \A d \in (q[k].index + 1)..(q[k].known - 1) : Bar(d)' = Bar(d)
    <3>1. \A d \in (q[k].index + 1)..(q[k].known - 1) : d \in 0..now
      BY <1>2, <2>1, <2>2
    <3> QED
      BY <1>1, <3>1
  <2> QED
    BY <1>2, <2>1, <2>2, <2>3, <2>4
<1>4. /\ \A j, k \in 1..Len(q) : j < k => q[j].index < q[k].index /\ q[j].known <= q[k].known
      /\ \A j, k \in 1..Len(q) : k = j + 1 => q[j].kind # q[k].kind
  BY DEF PathOK
<1> QED
  BY <1>3, <1>4 DEF PathOK

\* The order of the path in the words of any path.
LEMMA VerticesPath == Vertices <=> PathOK(points)
  BY DEF Vertices, PathOK

\* A recovery stays sound as the days pass.
LEMMA SoundStays ==
  ASSUME Typed, Sound(recovery), recovery' = recovery, now' \in Int, now <= now'
  PROVE  Sound(recovery)'
<1>1. recovery.breach \in Int /\ now \in Int
  BY Clock DEF Typed, RecoveryType
<1> QED
  BY <1>1 DEF Sound

\* The geometry leaves the life cycle and the windows alone.
LEMMA QuietKeeps ==
  ASSUME Quiet
  PROVE  /\ cycle' = cycle /\ seen' = seen /\ recovery' = recovery /\ bearBreaks' = bearBreaks
         /\ windows' = windows /\ barrier' = barrier /\ released' = released
  BY DEF Quiet, lifecycleVars

\* The base holds in the beginning, ...
LEMMA InitBase == Init => Base
<1> SUFFICES ASSUME Init PROVE Base
  OBVIOUS
<1>1. now = Never /\ bars = <<>> /\ points = <<>> /\ facts = {} /\ present = TRUE /\ phase = "night"
      /\ cycle = NoCycle /\ recovery = NoRecovery /\ bearBreaks = {}
      /\ windows = <<>> /\ barrier = NoBarrier /\ released = Never
  BY DEF Init
<1>2. now \in Never..LastDay
  BY <1>1, TrendAssumption DEF Never
<1>3. bars \in [1..(now + 1) -> Prices]
  BY <1>1 DEF Never
<1>4. points \in Seq(Pivots) /\ facts \in SUBSET FactType /\ IsFiniteSet(facts) /\ windows \in Seq(WindowType)
  BY <1>1, FS_EmptySet
<1>5. cycle \in CycleOrNone /\ recovery \in RecoveryType /\ bearBreaks \in SUBSET (Int \X Int \X Int)
      /\ barrier \in BarrierType /\ released \in Int
  BY <1>1, Blanks DEF CycleOrNone, NoBarrier, BarrierType
<1>6. Typed
  BY <1>1, <1>2, <1>3, <1>4, <1>5 DEF Typed
<1>7. Vertices
  <2>1. Len(points) = 0
    BY <1>1
  <2> QED
    BY <2>1 DEF Vertices
<1>8. Sound(recovery)
  BY <1>1, <1>6, BlankSound
<1> QED
  BY <1>6, <1>7, <1>8 DEF Base

\* ... after a market day, ...
LEMMA MarketDayBase ==
  ASSUME Base, MarketDay, Quiet
  PROVE  Base'
<1>1. Typed /\ Vertices /\ Sound(recovery)
  BY DEF Base
<1>2. /\ now' = now + 1 /\ now' \in 0..LastDay /\ phase' = "geometry"
      /\ bars' \in [1..(now' + 1) -> Prices]
      /\ \A d \in 1..(now + 1) : bars'[d] = bars[d]
      /\ points' = points /\ facts' = facts /\ present' = present
  BY <1>1, MarketDayDoes
<1>3. now \in Int /\ now' \in Int /\ now <= now'
  BY <1>1, <1>2, Clock
<1>4. Typed'
  <2>1. now' \in Never..LastDay /\ now' >= 0
    BY <1>2, TrendAssumption DEF Never
  <2>2. /\ cycle' = cycle /\ recovery' = recovery /\ bearBreaks' = bearBreaks
        /\ windows' = windows /\ barrier' = barrier /\ released' = released
    BY QuietKeeps
  <2>3. /\ present \in BOOLEAN /\ points \in Seq(Pivots) /\ facts \in SUBSET FactType /\ IsFiniteSet(facts)
        /\ cycle \in CycleOrNone /\ recovery \in RecoveryType
        /\ bearBreaks \in SUBSET (Int \X Int \X Int)
        /\ windows \in Seq(WindowType) /\ barrier \in BarrierType /\ released \in Int
    BY <1>1 DEF Typed
  <2> QED
    BY <1>2, <2>1, <2>2, <2>3 DEF Typed
<1>5. Vertices'
  <2>1. points \in Seq(Pivots) /\ PathOK(points)
    BY <1>1, TypedHolds, VerticesPath
  <2>2. \A q \in Seq(Pivots) : PathOK(q) => PathOK(q)'
    BY <1>1, <1>2, <1>3, PathStays
  <2> QED
    BY <1>2, <2>1, <2>2, SMTT(30) DEF Vertices, PathOK
<1>6. Sound(recovery)'
  BY <1>1, <1>3, QuietKeeps, SoundStays
<1> QED
  BY <1>4, <1>5, <1>6 DEF Base

\* A path that is drawn anew carries the facts of the part that stays, and today's.
LEMMA DrawnGeometry ==
  ASSUME Base, NEW n \in 0..Len(points), NEW q \in Seq(Pivots), Len(q) = n, PathOK(q),
         \A k \in 1..n : q[k] = points[k], Redraws(q)
  PROVE  /\ points' \in Seq(Pivots) /\ PathOK(points')
         /\ facts' \in SUBSET FactType /\ IsFiniteSet(facts') /\ present' = present
         /\ Facts => \A f \in facts' : FactOK(points', f)
         /\ \A f \in facts' : f \in facts \/ Unpassed(f.point)
<1>1. Typed /\ Vertices
  BY DEF Base
<1>0. PICK v : \E fs \in SUBSET Observations(q, v) :
        /\ NewVertex(q, v) /\ points' = Append(q, v)
        /\ facts' = {g \in facts : g.point \in ToSet(q)} \cup fs /\ present' = present
  BY Zenon DEF Redraws
<1>2. PICK fs \in SUBSET Observations(q, v) :
        /\ NewVertex(q, v) /\ points' = Append(q, v)
        /\ facts' = {g \in facts : g.point \in ToSet(q)} \cup fs /\ present' = present
  BY <1>0
<1>3. Append(q, v) \in Seq(Pivots) /\ PathOK(Append(q, v))
  BY <1>1, <1>2, LongerOK
<1>4. /\ fs \in SUBSET FactType /\ IsFiniteSet(fs)
      /\ \A f \in fs : f.point = v /\ FactOK(Append(q, v), f)
  <2>1. /\ Observations(q, v) \in SUBSET FactType /\ IsFiniteSet(Observations(q, v))
        /\ \A f \in Observations(q, v) : f.point = v /\ FactOK(Append(q, v), f)
    BY <1>1, <1>2, ObservationsDo
  <2>2. fs \in SUBSET Observations(q, v)
    BY <1>2
  <2>3. IsFiniteSet(fs)
    BY <2>1, <2>2, FS_Subset
  <2> QED
    BY <2>1, <2>2, <2>3
<1> DEFINE kept == {g \in facts : g.point \in ToSet(q)}
<1>5. kept \in SUBSET facts /\ IsFiniteSet(kept)
  <2>1. kept \in SUBSET facts
    OBVIOUS
  <2> HIDE DEF kept
  <2> QED
    BY <1>1, <2>1, TypedHolds, FS_Subset
<1>6. IsFiniteSet(kept \cup fs)
  <2> HIDE DEF kept
  <2> QED
    BY <1>4, <1>5, FS_Union
<1>7. ASSUME Facts, NEW f \in kept
      PROVE  FactOK(Append(q, v), f)
  <2>1. f \in facts /\ f.point \in ToSet(q) /\ FactOK(points, f)
    BY <1>7 DEF Facts
  <2>2. n \in Nat /\ DOMAIN q = 1..n
    BY <1>1, PathTyped
  <2>3. PICK i \in 1..n : f.point = q[i]
    BY <2>1, <2>2 DEF ToSet
  <2>4. /\ Len(Append(q, v)) = n + 1 /\ \A k \in 1..n : Append(q, v)[k] = points[k]
    BY <2>2
  <2> DEFINE p == Append(q, v)
  <2> HIDE DEF p
  <2>5. n <= Len(p) /\ Len(p) \in Nat /\ (\A k \in 1..n : p[k] = points[k]) /\ f.point = points[i]
    BY <2>2, <2>3, <2>4 DEF p
  <2>6. FactOK(p, f)
    BY <1>1, <2>1, <2>5, FactStays
  <2> QED
    BY <2>6 DEF p
<1>8. facts' = kept \cup fs
  BY <1>2
<1>9. facts \in SUBSET FactType
  BY <1>1, TypedHolds
<1> HIDE DEF kept
<1>10. \A f \in fs : Unpassed(f.point)
  BY <1>2, <1>4 DEF NewVertex, Unpassed
<1> QED
  BY <1>2, <1>3, <1>4, <1>5, <1>6, <1>7, <1>8, <1>9, <1>10

\* The geometry that a redrawing leaves.
LEMMA RedrawGeometry ==
  ASSUME Base, Redraw
  PROVE  /\ points' \in Seq(Pivots) /\ PathOK(points')
         /\ facts' \in SUBSET FactType /\ IsFiniteSet(facts')
         /\ present' = present \/ present' = FALSE
         /\ Facts => \A f \in facts' : FactOK(points', f)
         /\ \A f \in facts' : f \in facts \/ Unpassed(f.point)
<1>1. Typed /\ Vertices /\ PathOK(points) /\ points \in Seq(Pivots)
      /\ facts \in SUBSET FactType /\ IsFiniteSet(facts)
  BY TypedHolds, VerticesPath DEF Base
<1>2. \/ Redraws(points)
      \/ points # <<>> /\ Redraws(Front(points))
      \/ Withdraws
      \/ Forgets
  BY <1>1, RedrawDoes
<1>3. Len(points) \in Nat
  BY <1>1
<1>4. CASE Redraws(points)
  <2>1. Len(points) \in 0..Len(points) /\ \A k \in 1..Len(points) : points[k] = points[k]
    BY <1>3
  <2> QED
    BY <1>1, <1>4, <2>1, DrawnGeometry
<1>5. CASE points # <<>> /\ Redraws(Front(points))
  <2> DEFINE q == Front(points)
             n == Len(points) - 1
  <2>1. /\ q \in Seq(Pivots) /\ Len(q) = n /\ PathOK(q) /\ \A k \in 1..n : q[k] = points[k]
    BY <1>1, <1>5, FrontOf, FrontOK
  <2>2. n \in 0..Len(points)
    BY <1>1, <1>3, <1>5, FrontOf
  <2>3. Redraws(q)
    BY <1>5
  <2> HIDE DEF q, n
  <2> QED
    BY <2>1, <2>2, <2>3, DrawnGeometry
<1>6. CASE Withdraws
  <2> DEFINE n == Len(points) - 1
             q == Front(points)
  <2>1. points # <<>> /\ points' = q /\ facts' = {f \in facts : f.point # Last(points)} /\ present' = present
    BY <1>6 DEF Withdraws
  <2>2. /\ q \in Seq(Pivots) /\ Len(q) = n /\ PathOK(q) /\ (\A k \in 1..n : q[k] = points[k])
        /\ Last(points) = points[Len(points)]
    BY <1>1, <2>1, FrontOf, FrontOK
  <2>3. n \in 0..Len(points) /\ n \in Nat
    BY <1>1, <1>3, <2>1, FrontOf
  <2>4. facts' \in SUBSET facts
    BY <2>1
  <2>5. IsFiniteSet(facts')
    BY <1>1, <2>4, FS_Subset
  <2>6. ASSUME Facts, NEW f \in facts'
        PROVE  FactOK(q, f)
    <3>1. f \in facts /\ f.point # Last(points) /\ FactOK(points, f)
      BY <2>1, <2>6 DEF Facts
    <3>2. PICK j \in 1..Len(points) : f.point = points[j]
      BY <3>1 DEF FactOK
    <3>3. j \in 1..n
      <4>1. j # Len(points)
        BY <2>2, <3>1, <3>2
      <4> QED
        BY <1>3, <4>1
    <3> HIDE DEF q, n
    <3>4. n <= Len(q) /\ Len(q) \in Nat
      BY <2>2, <2>3
    <3> QED
      BY <1>1, <2>2, <2>3, <3>1, <3>2, <3>3, <3>4, FactStays
  <2> HIDE DEF q, n
  <2> QED
    BY <1>1, <2>1, <2>2, <2>4, <2>5, <2>6
<1>7. CASE Forgets
  <2>1. points' = points /\ facts' \in SUBSET facts /\ (present' = present \/ present' = FALSE)
    BY <1>7 DEF Forgets
  <2>2. IsFiniteSet(facts')
    BY <1>1, <2>1, FS_Subset
  <2> QED
    BY <1>1, <2>1, <2>2 DEF Facts
<1> QED
  BY <1>2, <1>4, <1>5, <1>6, <1>7

\* ... after a redrawing, ...
LEMMA RedrawBase ==
  ASSUME Base, Redraw, Quiet
  PROVE  Base'
<1>1. Typed /\ Vertices /\ Sound(recovery)
  BY DEF Base
<1>2. /\ points' \in Seq(Pivots) /\ PathOK(points')
      /\ facts' \in SUBSET FactType /\ IsFiniteSet(facts')
      /\ present' = present \/ present' = FALSE
  BY RedrawGeometry
<1>3. now' = now /\ bars' = bars /\ phase = "geometry" /\ phase' \in {"geometry", "close"}
  BY <1>1, RedrawDoes
<1>4. /\ cycle' = cycle /\ recovery' = recovery /\ bearBreaks' = bearBreaks
      /\ windows' = windows /\ barrier' = barrier /\ released' = released
  BY QuietKeeps
<1>5. Typed'
  <2>1. /\ now \in Never..LastDay /\ now >= 0 /\ bars \in [1..(now + 1) -> Prices]
        /\ present \in BOOLEAN
        /\ cycle \in CycleOrNone /\ recovery \in RecoveryType
        /\ bearBreaks \in SUBSET (Int \X Int \X Int)
        /\ windows \in Seq(WindowType) /\ barrier \in BarrierType /\ released \in Int
    BY <1>1, <1>3 DEF Typed
  <2> QED
    BY <1>2, <1>3, <1>4, <2>1 DEF Typed
<1>6. Vertices'
  BY <1>2, <1>3 DEF Vertices, PathOK, Bar
<1>7. Sound(recovery)'
  BY <1>1, <1>3, <1>4 DEF Sound
<1> QED
  BY <1>5, <1>6, <1>7 DEF Base

\* Resuming the search keeps the cycle what it is.
LEMMA ResumeTyped ==
  ASSUME Typed, NEW c \in CycleOrNone
  PROVE  /\ ResumeSearch(c) \in CycleOrNone
         /\ \/ ResumeSearch(c) = c
            \/ c \in CycleType /\ IsUp(c) /\ ResumeSearch(c) = [c EXCEPT !.closed = now]
<1> DEFINE d == [c EXCEPT !.closed = now]
<1>1. ResumeSearch(c) = c \/ (c # NoCycle /\ IsUp(c) /\ ResumeSearch(c) = d)
  BY DEF ResumeSearch
<1>2. ASSUME c # NoCycle, IsUp(c)
      PROVE  c \in CycleType /\ d \in CycleOrNone
  <2>1. c \in CycleType /\ c \in CycleShape
    BY <1>2, CycleIsOne
  <2>2. /\ d \in CycleShape /\ d.state = c.state /\ d.recovery = c.recovery /\ d.structure = c.structure
        /\ d.gap = c.gap
    BY <2>1, Clock DEF CycleShape
  <2>3. IsUp(d) = IsUp(c)
    BY <2>2 DEF IsUp
  <2> HIDE DEF d
  <2> QED
    BY <2>1, <2>2, <2>3 DEF CycleType, CycleOrNone
<1> QED
  BY <1>1, <1>2

\* The book of a day is of its type.
LEMMA SettledTyped ==
  ASSUME Typed, now >= 0, NEW b \in BookType, NEW q \in Seq(EventType)
  PROVE  Settled(b, q) \in BookType
<1>1. \A c \in BookType : \A e \in EventType : Observe(c, e) \in BookType
  BY ObserveDoes
<1>2. FoldLeft(Observe, b, q) \in BookType
  <2> HIDE DEF BookType
  <2> QED
    BY <1>1, EventsStay
<1> QED
  BY <1>2, FillGapDoes, BreakReversalDoes DEF Settled

\* The events of a day with the confirmation of a fall on another path.
LEMMA BearTyped ==
  ASSUME NEW q \in Seq(EventType), NEW bear \in {<<>>, <<SourceBear>>}
  PROVE  SourceBear \in EventType /\ bear \in Seq(EventType) /\ q \o bear \in Seq(EventType)
<1>1. SourceBear \in EventType
  <2>1. "source_bear" \in Kinds /\ "none" \in Reasons /\ NoCycle \in CycleOrNone
    BY DEF Kinds, Reasons, CycleOrNone
  <2> QED
    BY <2>1, Blanks, EventTyped DEF SourceBear
<1>2. bear \in Seq(EventType)
  <2> DEFINE x == SourceBear
  <2> HIDE DEF x
  <2>1. x \in EventType => <<x>> \in Seq(EventType)
    OBVIOUS
  <2>2. <<>> \in Seq(EventType)
    OBVIOUS
  <2> QED
    BY <1>1, <2>1, <2>2 DEF x
<1> QED
  BY <1>1, <1>2, Joined

\* What an advance of the life cycle does: a day, its book, and what they leave.
Advances(s, b) ==
  /\ s \in SoundDays /\ b \in BookType
  /\ windows' = b.windows /\ barrier' = b.barrier /\ released' = b.released
  /\ cycle' = IF b.closed /\ ~IsOpen(b.windows) THEN ResumeSearch(s.cycle) ELSE s.cycle
  /\ recovery' = s.recovery /\ bearBreaks' = s.breaks
  /\ seen' = seen \cup facts /\ phase' = "night" /\ phase = "close" /\ present
  /\ now' = now /\ bars' = bars /\ points' = points /\ facts' = facts /\ present' = present
  /\ now >= 0

\* An advance of the life cycle is that of one of its days.
LEMMA AdvanceDoes ==
  ASSUME Base, AdvanceLifecycle
  PROVE  \E revised \in BOOLEAN, completed \in BOOLEAN, bear \in {<<>>, <<SourceBear>>} :
         \E s \in Advanced(revised) :
            Advances(s, Settled(Gate(Book, Keys(completed)), s.events \o bear))
<1>1. Typed /\ Vertices /\ Sound(recovery)
  BY DEF Base
<1>2. phase = "close" /\ present /\ now >= 0
  BY <1>1 DEF AdvanceLifecycle, Typed
<1>3. PICK revised \in BOOLEAN, completed \in BOOLEAN, bear \in {<<>>, <<SourceBear>>} :
      \E s \in Advanced(revised) :
        LET b == Settled(Gate(Book, Keys(completed)), s.events \o bear)
        IN  /\ windows' = b.windows /\ barrier' = b.barrier /\ released' = b.released
            /\ cycle' = IF b.closed /\ ~IsOpen(b.windows) THEN ResumeSearch(s.cycle) ELSE s.cycle
            /\ recovery' = s.recovery /\ bearBreaks' = s.breaks
  BY Zenon DEF AdvanceLifecycle
<1>4. PICK s \in Advanced(revised) :
        LET b == Settled(Gate(Book, Keys(completed)), s.events \o bear)
        IN  /\ windows' = b.windows /\ barrier' = b.barrier /\ released' = b.released
            /\ cycle' = IF b.closed /\ ~IsOpen(b.windows) THEN ResumeSearch(s.cycle) ELSE s.cycle
            /\ recovery' = s.recovery /\ bearBreaks' = s.breaks
  BY <1>3
<1> DEFINE g == Gate(Book, Keys(completed))
           b == Settled(g, s.events \o bear)
<1>5. s \in SoundDays /\ s.events \in Seq(EventType)
  <2>1. s \in SoundDays
    BY <1>1, <1>2, AdvancedTyped
  <2> QED
    BY <2>1 DEF SoundDays, DayType
<1>6. g \in BookType
  BY <1>1, <1>2, BookTyped, GateDoes
<1> HIDE DEF g
<1>7. b \in BookType
  BY <1>1, <1>2, <1>5, <1>6, BearTyped, SettledTyped
<1>8. seen' = seen \cup facts /\ phase' = "night"
      /\ now' = now /\ bars' = bars /\ points' = points /\ facts' = facts /\ present' = present
  BY DEF AdvanceLifecycle, marketVars
<1>9. Advances(s, b)
  BY <1>2, <1>4, <1>5, <1>7, <1>8, Zenon DEF Advances, g
<1> QED
  BY <1>9 DEF g

\* ... after an advance of the life cycle, ...
LEMMA AdvancesBase ==
  ASSUME Base, NEW s, NEW b, Advances(s, b)
  PROVE  Base'
<1>1. Typed /\ Vertices
  BY DEF Base
<1>2. /\ s \in DayType /\ Sound(s.recovery) /\ b \in BookType
      /\ windows' = b.windows /\ barrier' = b.barrier /\ released' = b.released
      /\ recovery' = s.recovery /\ bearBreaks' = s.breaks /\ phase' = "night"
      /\ now' = now /\ bars' = bars /\ points' = points /\ facts' = facts /\ present' = present
  BY DEF Advances, SoundDays
<1>3. cycle' \in CycleOrNone
  <2>1. s.cycle \in CycleOrNone
    BY <1>2 DEF DayType
  <2> QED
    BY <1>1, <2>1, ResumeTyped DEF Advances
<1>4. Typed'
  <2>1. /\ now \in Never..LastDay /\ bars \in [1..(now + 1) -> Prices]
        /\ present \in BOOLEAN /\ points \in Seq(Pivots) /\ facts \in SUBSET FactType /\ IsFiniteSet(facts)
    BY <1>1 DEF Typed
  <2>2. b.windows \in Seq(WindowType) /\ b.barrier \in BarrierType /\ b.released \in Int
        /\ s.recovery \in RecoveryType /\ s.breaks \in SUBSET (Int \X Int \X Int)
    BY <1>2 DEF BookType, DayType
  <2> QED
    BY <1>2, <1>3, <2>1, <2>2 DEF Typed
<1>5. Vertices'
  BY <1>1, <1>2 DEF Vertices, Bar
<1>6. Sound(recovery)'
  BY <1>2 DEF Sound
<1> QED
  BY <1>4, <1>5, <1>6 DEF Base

PathEnded == Event("invalidated", NoCycle, NoFact, "source_path_ended")

\* What closing a path does.
LEMMA ClosePathDoes ==
  ASSUME Base, ClosePath
  PROVE  /\ now >= 0 /\ ~present /\ phase = "close" /\ phase' = "night"
         /\ <<PathEnded>> \in Seq(EventType)
         /\ Settled(Book, <<PathEnded>>) \in BookType
         /\ windows' = Settled(Book, <<PathEnded>>).windows
         /\ barrier' = Settled(Book, <<PathEnded>>).barrier
         /\ released' = Settled(Book, <<PathEnded>>).released
         /\ cycle' = NoCycle /\ seen' = {} /\ recovery' = NoRecovery /\ bearBreaks' = {}
         /\ now' = now /\ bars' = bars /\ points' = points /\ facts' = facts /\ present' = present
<1>1. Typed
  BY DEF Base
<1>2. phase = "close" /\ ~present /\ now >= 0 /\ phase' = "night"
  BY <1>1 DEF ClosePath, Typed
<1>3. PathEnded \in EventType
  <2>1. "invalidated" \in Kinds /\ "source_path_ended" \in Reasons /\ NoCycle \in CycleOrNone
    BY DEF Kinds, Reasons, CycleOrNone
  <2> QED
    BY <2>1, Blanks, EventTyped DEF PathEnded
<1>4. <<PathEnded>> \in Seq(EventType)
  <2> DEFINE x == PathEnded
  <2> HIDE DEF x
  <2>1. x \in EventType => <<x>> \in Seq(EventType)
    OBVIOUS
  <2> QED
    BY <1>3, <2>1 DEF x
<1>5. Settled(Book, <<PathEnded>>) \in BookType
  BY <1>1, <1>2, <1>4, BookTyped, SettledTyped
<1>6. /\ windows' = Settled(Book, <<PathEnded>>).windows
      /\ barrier' = Settled(Book, <<PathEnded>>).barrier
      /\ released' = Settled(Book, <<PathEnded>>).released
  BY Zenon DEF ClosePath, PathEnded
<1>7. /\ cycle' = NoCycle /\ seen' = {} /\ recovery' = NoRecovery /\ bearBreaks' = {}
      /\ now' = now /\ bars' = bars /\ points' = points /\ facts' = facts /\ present' = present
  BY DEF ClosePath, marketVars
<1> QED
  BY <1>2, <1>4, <1>5, <1>6, <1>7

\* ... after the end of a path, ...
LEMMA ClosePathBase ==
  ASSUME Base, ClosePath
  PROVE  Base'
<1>1. Typed /\ Vertices
  BY DEF Base
<1> DEFINE b == Settled(Book, <<PathEnded>>)
<1>2. /\ b \in BookType /\ phase' = "night"
      /\ windows' = b.windows /\ barrier' = b.barrier /\ released' = b.released
      /\ cycle' = NoCycle /\ recovery' = NoRecovery /\ bearBreaks' = {}
      /\ now' = now /\ bars' = bars /\ points' = points /\ facts' = facts /\ present' = present
  BY ClosePathDoes
<1> HIDE DEF b
<1>3. Typed'
  <2>1. /\ now \in Never..LastDay /\ bars \in [1..(now + 1) -> Prices]
        /\ present \in BOOLEAN /\ points \in Seq(Pivots) /\ facts \in SUBSET FactType /\ IsFiniteSet(facts)
    BY <1>1 DEF Typed
  <2>2. b.windows \in Seq(WindowType) /\ b.barrier \in BarrierType /\ b.released \in Int
    BY <1>2 DEF BookType
  <2>3. NoCycle \in CycleOrNone
    BY DEF CycleOrNone
  <2> QED
    BY <1>2, <2>1, <2>2, <2>3, Blanks DEF Typed
<1>4. Vertices'
  BY <1>1, <1>2 DEF Vertices, Bar
<1>5. Sound(recovery)'
  BY <1>1, <1>2, BlankSound DEF Sound
<1> QED
  BY <1>3, <1>4, <1>5 DEF Base

\* ... and when nothing happens.
LEMMA StutterBase ==
  ASSUME Base, UNCHANGED vars
  PROVE  Base'
  BY DEF Base, vars, marketVars, lifecycleVars, Typed, Vertices, Sound, Bar

\* Every state is typed, its path in order, its recovery sound (TLC: Base).
LEMMA BaseHolds == Spec => []Base
<1>1. ASSUME Base, [Next]_vars
      PROVE  Base'
  <2>1. CASE MarketDay /\ Quiet
    BY <1>1, <2>1, MarketDayBase
  <2>2. CASE Redraw /\ Quiet
    BY <1>1, <2>2, RedrawBase
  <2>3. CASE AdvanceLifecycle
    <3>1. PICK revised \in BOOLEAN, completed \in BOOLEAN, bear \in {<<>>, <<SourceBear>>} :
          \E s \in Advanced(revised) :
            Advances(s, Settled(Gate(Book, Keys(completed)), s.events \o bear))
      BY <1>1, <2>3, AdvanceDoes
    <3> QED
      BY <1>1, <3>1, AdvancesBase
  <2>4. CASE ClosePath
    BY <1>1, <2>4, ClosePathBase
  <2>5. CASE UNCHANGED vars
    BY <1>1, <2>5, StutterBase
  <2> QED
    BY <1>1, <2>1, <2>2, <2>3, <2>4, <2>5 DEF Next
<1> QED
  BY <1>1, InitBase, PTL DEF Spec

-----------------------------------------------------------------------------
(* The gate in every state. *)

\* The windows of a gated book.
LEMMA GatedState ==
  ASSUME NEW b \in GatedBooks, windows' = b.windows, barrier' = b.barrier, released' = b.released
  PROVE  GateStands'
  BY DEF GatedBooks, GateBook, GateStands, Open

\* Every step keeps the gate.
LEMMA GateKept ==
  ASSUME Base, GateStands, [Next]_vars
  PROVE  GateStands'
<1>1. Typed /\ Vertices
  BY DEF Base
<1>2. CASE (MarketDay \/ Redraw) /\ Quiet
  BY <1>2, QuietKeeps DEF GateStands, Open
<1>3. CASE AdvanceLifecycle
  <2>1. PICK revised \in BOOLEAN, completed \in BOOLEAN, bear \in {<<>>, <<SourceBear>>} :
        \E s \in Advanced(revised) :
          Advances(s, Settled(Gate(Book, Keys(completed)), s.events \o bear))
    BY <1>3, AdvanceDoes
  <2>2. PICK s \in Advanced(revised) :
          Advances(s, Settled(Gate(Book, Keys(completed)), s.events \o bear))
    BY <2>1
  <2> DEFINE g == Gate(Book, Keys(completed))
             q == s.events \o bear
             b == Settled(g, q)
  <2>3. now >= 0 /\ windows' = b.windows /\ barrier' = b.barrier /\ released' = b.released
    BY <2>2 DEF Advances
  <2>4. g \in GatedBooks
    BY <1>1, <2>3, GateGated
  <2>5. q \in Seq(EventType)
    <3>1. s.events \in Seq(EventType)
      BY <2>2 DEF Advances, SoundDays, DayType
    <3> QED
      BY <3>1, BearTyped
  <2> HIDE DEF g, q
  <2>6. b \in GatedBooks
    BY <1>1, <2>3, <2>4, <2>5, SettledGated
  <2> HIDE DEF b
  <2> QED
    BY <2>3, <2>6, GatedState
<1>4. CASE ClosePath
  <2> DEFINE b == Settled(Book, <<PathEnded>>)
  <2>1. /\ now >= 0 /\ <<PathEnded>> \in Seq(EventType)
        /\ windows' = b.windows /\ barrier' = b.barrier /\ released' = b.released
    BY <1>4, ClosePathDoes
  <2>2. Book \in GatedBooks
    BY <1>1, BookTyped DEF GateStands, GatedBooks, GateBook, Open
  <2>3. b \in GatedBooks
    BY <1>1, <2>1, <2>2, SettledGated
  <2> HIDE DEF b
  <2> QED
    BY <2>1, <2>3, GatedState
<1>5. CASE UNCHANGED vars
  BY <1>5 DEF vars, GateStands, Open
<1> QED
  BY <1>2, <1>3, <1>4, <1>5 DEF Next

\* Behind a closed gate nothing trades; once it is opened, only what flipped since
\* (same_level_recovery.py, permits).
THEOREM GateStandsHolds == Spec => []GateStands
<1>1. Init => GateStands
  BY DEF Init, GateStands, Open, IsOpen
<1>2. Base /\ GateStands /\ [Next]_vars => GateStands'
  BY GateKept
<1> QED
  BY <1>1, <1>2, BaseHolds, PTL DEF Spec

\* Every step keeps the facts to the path, and the unseen ones to today.
LEMMA FactsKept ==
  ASSUME Base, Facts, [Next]_vars
  PROVE  Facts'
<1>1. Typed
  BY DEF Base
<1>2. CASE MarketDay /\ Quiet
  <2>1. points' = points /\ facts' = facts /\ present' = present /\ seen' = seen /\ phase = "night" /\ present
    BY <1>1, <1>2, MarketDayDoes, QuietKeeps
  <2>2. facts \ seen = {}
    BY <2>1 DEF Facts
  <2> QED
    BY <2>1, <2>2 DEF Facts, FactOK, FlipOK, AlternationOK
<1>3. CASE Redraw /\ Quiet
  <2>1. /\ \A f \in facts' : FactOK(points', f)
        /\ \A f \in facts' : f \in facts \/ Unpassed(f.point)
        /\ present' = present \/ present' = FALSE
    BY <1>3, RedrawGeometry
  <2>2. now' = now /\ phase' # "night" /\ seen' = seen
    BY <1>1, <1>3, RedrawDoes, QuietKeeps DEF Base
  <2>3. present' => \A f \in facts' \ seen' : Unpassed(f.point)
    BY <2>1, <2>2 DEF Facts
  <2>4. \A f \in facts' : Unpassed(f.point) => Unpassed(f.point)'
    <3>1. bars' = bars
      BY <1>1, <1>3, RedrawDoes DEF Base
    <3> QED
      BY <2>2, <3>1 DEF Unpassed, Bar
  <2> QED
    BY <2>1, <2>2, <2>3, <2>4 DEF Facts, FactOK, FlipOK, AlternationOK
<1>4. CASE AdvanceLifecycle
  <2>1. points' = points /\ facts' = facts /\ seen' = seen \cup facts
    BY <1>4 DEF AdvanceLifecycle, marketVars
  <2> QED
    BY <2>1 DEF Facts, FactOK, FlipOK, AlternationOK
<1>5. CASE ClosePath
  <2>1. points' = points /\ facts' = facts /\ present' = FALSE
    BY <1>5 DEF ClosePath, marketVars
  <2> QED
    BY <2>1 DEF Facts, FactOK, FlipOK, AlternationOK
<1>6. CASE UNCHANGED vars
  BY <1>6 DEF vars, marketVars, lifecycleVars, Facts, FactOK, FlipOK, AlternationOK, Unpassed, Bar
<1> QED
  BY <1>2, <1>3, <1>4, <1>5, <1>6 DEF Next

\* So it is in every state (TLC: Facts).
LEMMA FactsHold == Spec => []Facts
<1>1. Init => Facts
  BY DEF Init, Facts
<1>2. Base /\ Facts /\ [Next]_vars => Facts'
  BY FactsKept
<1> QED
  BY <1>1, <1>2, BaseHolds, PTL DEF Spec

-----------------------------------------------------------------------------
(* The recovery: nothing rises while a broken flip may recover. *)

NotUp(c) == c # NoCycle => ~IsUp(c)

\* No window is opened after the i-th event.
Silent(q, i) == \A j \in 1..Len(q) : j > i => ~Opening(q[j])

\* The events leave no window open: the recovery was under way before, or began.
Hushed(q) ==
  \/ recovery.breach # Never /\ Silent(q, 0)
  \/ \E i \in 1..Len(q) : q[i] = Pending /\ Silent(q, i)

Recovering(t) == t.recovery.breach # Never => NotUp(t.cycle) /\ Hushed(t.events)

RecoveringDays == {t \in SoundDays : Recovering(t)}

\* A sequence with one more element.
LEMMA Appended ==
  ASSUME NEW S, NEW q \in Seq(S), NEW e \in S
  PROVE  /\ Append(q, e) \in Seq(S) /\ Len(q) \in Nat /\ Len(Append(q, e)) = Len(q) + 1
         /\ Append(q, e)[Len(q) + 1] = e
         /\ \A i \in 1..Len(q) : Append(q, e)[i] = q[i]
  OBVIOUS

\* An event that opens nothing leaves the events hushed.
LEMMA HushedOn ==
  ASSUME NEW q \in Seq(EventType), NEW e \in EventType, Hushed(q), ~Opening(e)
  PROVE  Hushed(Append(q, e))
<1> DEFINE p == Append(q, e)
<1>1. /\ Len(q) \in Nat /\ Len(p) = Len(q) + 1 /\ p[Len(q) + 1] = e
      /\ \A i \in 1..Len(q) : p[i] = q[i]
  BY Appended
<1> HIDE DEF p
<1>2. ASSUME NEW i \in 0..Len(q), Silent(q, i)
      PROVE  Silent(p, i)
  <2> SUFFICES ASSUME NEW j \in 1..Len(p), j > i PROVE ~Opening(p[j])
    BY DEF Silent
  <2>1. j \in 1..Len(q) \/ j = Len(q) + 1
    BY <1>1
  <2> QED
    BY <1>1, <1>2, <2>1 DEF Silent
<1>3. CASE recovery.breach # Never /\ Silent(q, 0)
  <2>1. Silent(p, 0)
    BY <1>1, <1>2, <1>3
  <2> QED
    BY <1>3, <2>1 DEF Hushed, p
<1>4. CASE \E i \in 1..Len(q) : q[i] = Pending /\ Silent(q, i)
  <2>1. PICK i \in 1..Len(q) : q[i] = Pending /\ Silent(q, i)
    BY <1>4
  <2>2. i \in 0..Len(q) /\ i \in 1..Len(p) /\ p[i] = Pending
    BY <1>1, <2>1
  <2>3. Silent(p, i)
    BY <1>2, <2>1, <2>2
  <2> QED
    BY <2>2, <2>3 DEF Hushed, p
<1> QED
  BY <1>3, <1>4 DEF Hushed

\* Only the state of an alternation up opens.
LEMMA OpeningIs ==
  ASSUME NEW kind, NEW c, NEW f, NEW reason, Opening(Event(kind, c, f, reason))
  PROVE  kind = "state" /\ c.state = "BULL_ALTERNATION"
  BY DEF Opening, Event

\* A fall leaves no rise, and hushes the events.
LEMMA FellDoes ==
  ASSUME NEW s \in DayType, NEW r \in DayType, Falls(s, r)
  PROVE  NotUp(r.cycle) /\ Hushed(r.events)
<1>1. NotUp(r.cycle)
  BY DEF Falls, NotUp
<1>2. Pending \in EventType /\ s.events \in Seq(EventType)
  <2>1. "invalidated" \in Kinds /\ "bull_recovery_pending" \in Reasons /\ NoCycle \in CycleOrNone
    BY DEF Kinds, Reasons, CycleOrNone
  <2>2. Pending \in EventType
    BY <2>1, Blanks, EventTyped DEF Pending
  <2> QED
    BY <2>2 DEF DayType
<1> DEFINE q == s.events
           n == Len(q)
           p == Append(q, Pending)
<1>3. n \in Nat /\ Len(p) = n + 1 /\ p[n + 1] = Pending
  BY <1>2, Appended
<1> HIDE DEF p, n
<1>4. Hushed(p)
  <2>1. n + 1 \in 1..Len(p) /\ Silent(p, n + 1)
    BY <1>3 DEF Silent
  <2> QED
    BY <1>3, <2>1 DEF Hushed
<1> QED
  BY <1>1, <1>4 DEF Falls, p

\* A day before its facts.
LEMMA CheckedRecovering ==
  ASSUME Base, RecoveringIsClosed, NEW revised \in BOOLEAN
  PROVE  Checked(revised) \in RecoveringDays
<1>0. Typed /\ Sound(recovery)
  BY DEF Base
<1> DEFINE a == ExpireGap(Start)
           b == ContinueImpulse(a)
           c == CheckEvidence(b, revised)
           d == CheckSeed(c)
<1>1. Checked(revised) \in SoundDays
  BY <1>0, CheckedSound
<1>2. SUFFICES ASSUME d.recovery.breach # Never PROVE NotUp(d.cycle) /\ Hushed(d.events)
  BY <1>1 DEF RecoveringDays, Recovering, Checked
<1>3. Start \in DayType /\ Start.cycle = cycle /\ Start.recovery = recovery /\ Start.events = <<>>
  BY <1>0, StartTyped
<1>4. a \in DayType /\ b \in DayType /\ c \in DayType
  BY <1>0, <1>3, ExpireGapDoes, ContinueImpulseDoes, CheckEvidenceDoes
<1>5. recovery.breach # Never
  <2>1. a.recovery = recovery
    BY <1>3, ExpireGapDoes
  <2>2. b.recovery = a.recovery
    BY <1>0, <1>4, ContinueImpulseDoes
  <2>3. c.recovery = b.recovery
    BY <1>4, CheckEvidenceDoes
  <2>4. d.recovery = c.recovery \/ d.recovery = NoRecovery
    BY <1>4, CheckSeedDoes
  <2>5. NoRecovery.breach = Never
    BY DEF NoRecovery
  <2> HIDE DEF a, b, c, d
  <2> QED
    BY <1>2, <2>1, <2>2, <2>3, <2>4, <2>5
<1>6. NotUp(cycle)
  BY <1>5 DEF RecoveringIsClosed, NotUp
<1>7. a = Start
  <2>1. \/ a = Start
        \/ Start.cycle \in CycleType /\ Start.cycle.gap # NoGap
    BY <1>3, ExpireGapDoes
  <2>2. \A x \in CycleType : x.gap # NoGap => x # NoCycle /\ IsUp(x)
    BY CycleIsOne DEF CycleType, CycleOrNone
  <2> QED
    BY <1>3, <1>6, <2>1, <2>2 DEF NotUp
<1>8. b = a
  <2>1. \/ b = a
        \/ a.cycle \in CycleType /\ a.cycle.recovery
    BY <1>0, <1>4, ContinueImpulseDoes
  <2>2. \A x \in CycleType : x.recovery => x # NoCycle /\ IsUp(x)
    BY CycleIsOne DEF CycleType, CycleOrNone
  <2> QED
    BY <1>3, <1>6, <1>7, <2>1, <2>2 DEF NotUp
<1>9. Hushed(<<>>)
  BY <1>5 DEF Hushed, Silent
<1>10. NotUp(c.cycle) /\ Hushed(c.events)
  <2>1. b.cycle = cycle /\ b.events = <<>> /\ b \in DayType
    BY <1>3, <1>4, <1>7, <1>8
  <2> HIDE DEF b
  <2>2. CASE c = b
    BY <1>6, <1>9, <2>1, <2>2
  <2>3. CASE c # b
    <3> DEFINE e == Event("invalidated", b.cycle, NoFact, "source_evidence_revised")
    <3>1. c.cycle = NoCycle /\ c.events = Append(<<>>, e)
      BY <2>1, <2>3, CheckEvidenceDoes
    <3>2. e \in EventType /\ ~Opening(e)
      <4>1. "invalidated" \in Kinds /\ "source_evidence_revised" \in Reasons /\ b.cycle \in CycleOrNone
        BY <2>1 DEF Kinds, Reasons, DayType
      <4> QED
        BY <4>1, Blanks, EventTyped, OpeningIs
    <3> HIDE DEF e, c
    <3>3. Hushed(Append(<<>>, e))
      <4>1. <<>> \in Seq(EventType)
        OBVIOUS
      <4> QED
        BY <1>9, <3>2, <4>1, HushedOn
    <3> QED
      BY <3>1, <3>3 DEF NotUp
  <2> QED
    BY <2>2, <2>3
<1>11. d.cycle = c.cycle /\ d.events = c.events
  BY <1>4, CheckSeedDoes
<1> HIDE DEF c, d
<1> QED
  BY <1>10, <1>11

\* What a fact makes of a cycle that does not rise.
LEMMA TakeRecovering ==
  ASSUME Typed, NEW s \in RecoveringDays, NEW f \in FactType
  PROVE  Taken(TRUE, s, f) \in RecoveringDays
<1> DEFINE r == Taken(TRUE, s, f)
<1>1. s \in DayType /\ Sound(s.recovery) /\ Recovering(s) /\ s.events \in Seq(EventType)
  BY DEF RecoveringDays, SoundDays, DayType
<1>2. /\ r \in DayType
      /\ \/ r.recovery = s.recovery
         \/ r.recovery = NoRecovery
         \/ s.recovery.breach = Never /\ r.recovery = [NoRecovery EXCEPT !.seed = f]
      /\ \/ r.cycle = s.cycle /\ r.events = s.events
         \/ /\ Rises(f) => s.recovery.breach = Never
            /\ Consumed(s, r, f)
  BY <1>1, TakeDoes
<1> HIDE DEF r
<1>3. Sound(r.recovery)
  BY <1>1, <1>2, BlankSound
<1>4. SUFFICES ASSUME r.recovery.breach # Never PROVE NotUp(r.cycle) /\ Hushed(r.events)
  BY <1>2, <1>3 DEF RecoveringDays, SoundDays, Recovering, r
<1>5. s.recovery.breach # Never /\ NotUp(s.cycle) /\ Hushed(s.events)
  BY <1>1, <1>2, <1>4 DEF NoRecovery, Recovering
<1>6. CASE r.cycle = s.cycle /\ r.events = s.events
  BY <1>5, <1>6
<1>7. CASE ~Rises(f) /\ Consumed(s, r, f)
  <2>1. CASE FlipStarts(s, r, f, FALSE)
    <3> DEFINE c == r.cycle
               e == Event("state", c, f, "none")
    <3>1. c = NewCycle(FALSE, f.origin, f.point, {f}) /\ r.events = Append(s.events, e)
      BY <2>1 DEF FlipStarts
    <3>2. c.state = "BEAR_FLIP" /\ c \in CycleOrNone
      <4>1. c \in CycleOrNone
        BY <1>2 DEF DayType
      <4> HIDE DEF c
      <4>2. c.state = "BEAR_FLIP"
        BY <3>1 DEF NewCycle, FlipState
      <4> QED
        BY <4>1, <4>2
    <3>3. e \in EventType /\ ~Opening(e)
      <4>1. "state" \in Kinds /\ "none" \in Reasons
        BY DEF Kinds, Reasons
      <4> QED
        BY <3>2, <4>1, EventTyped, OpeningIs
    <3> HIDE DEF e, c
    <3>4. Hushed(r.events) /\ NotUp(c)
      BY <1>1, <1>5, <3>1, <3>2, <3>3, HushedOn DEF NotUp, IsUp
    <3> QED
      BY <3>4 DEF c
  <2>2. CASE FlipMoves(s, r, f, FALSE)
    <3> DEFINE c == r.cycle
               e == Event("anchor", c, f, "none")
    <3>1. /\ s.cycle \in CycleType /\ IsUp(s.cycle) = FALSE /\ r.events = Append(s.events, e)
          /\ c = [s.cycle EXCEPT !.impulse = f.point, !.evidence = s.cycle.evidence \cup {f}]
      BY <2>2 DEF FlipMoves
    <3>2. c.state = s.cycle.state /\ c \in CycleOrNone
      BY <1>2, <3>1 DEF CycleType, CycleShape, DayType
    <3>3. e \in EventType /\ ~Opening(e)
      <4>1. "anchor" \in Kinds /\ "none" \in Reasons
        BY DEF Kinds, Reasons
      <4> QED
        BY <3>2, <4>1, EventTyped, OpeningIs
    <3> HIDE DEF e, c
    <3>4. Hushed(r.events) /\ NotUp(c)
      BY <1>1, <1>5, <3>1, <3>2, <3>3, HushedOn DEF NotUp, IsUp
    <3> QED
      BY <3>4 DEF c
  <2>3. CASE Alternates(s, r, f, FALSE)
    <3> DEFINE c == r.cycle
               e == [Event("state", c, f, "none") EXCEPT !.replaces = s.cycle.gap.index]
    <3>1. /\ s.cycle \in CycleType /\ r.events = Append(s.events, e)
          /\ c = [s.cycle EXCEPT !.state = AlternationState(FALSE), !.impulse = f.impulse,
                                 !.counter = f.point, !.alternated = now,
                                 !.evidence = s.cycle.evidence \cup {f},
                                 !.gap = NoGap, !.source = {}, !.closed = Never]
      BY <2>3 DEF Alternates, Accepts
    <3>2. c.state = "BEAR_ALTERNATION" /\ c \in CycleOrNone
      BY <1>2, <3>1 DEF CycleType, CycleShape, DayType, AlternationState
    <3>3. e \in EventType /\ ~Opening(e)
      <4>1. "state" \in Kinds /\ "none" \in Reasons
        BY DEF Kinds, Reasons
      <4>2. Event("state", c, f, "none") \in EventType
        BY <3>2, <4>1, EventTyped
      <4>3. s.cycle.gap.index \in Int
        BY <3>1 DEF CycleType, CycleShape, Gaps
      <4>4. e.cycle = c
        BY DEF Event
      <4> QED
        BY <3>2, <4>2, <4>3, <4>4 DEF EventType, Opening
    <3> HIDE DEF e, c
    <3>4. Hushed(r.events) /\ NotUp(c)
      BY <1>1, <1>5, <3>1, <3>2, <3>3, HushedOn DEF NotUp, IsUp
    <3> QED
      BY <3>4 DEF c
  <2>4. Rises(f) = FALSE
    BY <1>7 DEF Rises
  <2> QED
    BY <1>5, <1>7, <2>1, <2>2, <2>3, <2>4 DEF Consumed
<1> QED
  BY <1>2, <1>5, <1>6, <1>7

\* The rest of the day.
LEMMA RestRecovering ==
  ASSUME Typed, Vertices, now >= 0, NEW u \in RecoveringDays,
         NEW w \in AdvanceAlternation(AdvanceRecovery(u))
  PROVE  SpendSeed(BreakStructure(Price(w))) \in RecoveringDays
<1> DEFINE v == AdvanceRecovery(u)
           x == Price(w)
           y == BreakStructure(x)
           z == SpendSeed(y)
<1>1. u \in DayType /\ Sound(u.recovery) /\ Recovering(u)
  BY DEF RecoveringDays, SoundDays
<1>2. v \in DayType /\ Sound(v.recovery) /\ (Waits(u, v) \/ Falls(u, v) \/ Rebounds(u, v))
  BY <1>1, AdvanceRecoveryDoes
<1>3. Recovering(v)
  <2> HIDE DEF v
  <2>1. CASE Waits(u, v)
    BY <1>1, <2>1 DEF Waits, Recovering, NoRecovery
  <2>2. CASE Falls(u, v)
    BY <1>1, <1>2, <2>2, FellDoes DEF Recovering
  <2>3. CASE Rebounds(u, v)
    BY <2>3 DEF Rebounds, Recovering, NoRecovery
  <2> QED
    BY <1>2, <2>1, <2>2, <2>3
<1> HIDE DEF v
<1>4. /\ w \in DayType /\ w.recovery = v.recovery
      /\ \/ w = v \/ (v.cycle \in CycleType /\ IsUp(v.cycle))
  BY <1>2, AdvanceAlternationDoes DEF Proves, NeedsConfirmation, v
<1>5. Recovering(w)
  <2>1. v.cycle \in CycleType => v.cycle # NoCycle
    BY CycleIsOne DEF CycleOrNone
  <2> QED
    BY <1>3, <1>4, <2>1 DEF Recovering, NotUp
<1>6. /\ x \in DayType /\ x.recovery = w.recovery
      /\ (x = w \/ PriceEnds(w, x) \/ PriceReturns(w, x) \/ PriceConfirms(w, x))
  BY <1>4, PriceDoes
<1> HIDE DEF x
<1>7. Recovering(x)
  <2> SUFFICES ASSUME x.recovery.breach # Never PROVE NotUp(x.cycle) /\ Hushed(x.events)
    BY DEF Recovering
  <2>1. NotUp(w.cycle) /\ Hushed(w.events) /\ w.events \in Seq(EventType)
    BY <1>4, <1>5, <1>6 DEF Recovering, DayType
  <2>2. w.cycle \in CycleType => w.cycle # NoCycle
    BY CycleIsOne DEF CycleOrNone
  <2>3. w.cycle \in CycleType => Lost(w.cycle) \in EventType /\ ~Opening(Lost(w.cycle))
    <3>1. "invalidated" \in Kinds /\ "defense_broken" \in Reasons
      BY DEF Kinds, Reasons
    <3> QED
      BY <3>1, Blanks, EventTyped, OpeningIs DEF Lost, CycleOrNone
  <2>4. CASE x = w
    BY <2>1, <2>4
  <2>5. CASE PriceEnds(w, x)
    BY <2>1, <2>3, <2>5, HushedOn DEF PriceEnds, NotUp
  <2>6. CASE PriceReturns(w, x)
    <3> DEFINE e == Event("anchor", x.cycle, NoFact, "none")
    <3>1. /\ w.cycle \in CycleType /\ x.cycle = Again(w.cycle)
          /\ x.events = Append(Append(w.events, Lost(w.cycle)), e)
      BY <2>6 DEF PriceReturns
    <3>2. NotUp(x.cycle)
      BY <2>1, <2>2, <3>1, AgainTyped DEF NotUp
    <3>3. e \in EventType /\ ~Opening(e)
      <4>1. "anchor" \in Kinds /\ "none" \in Reasons /\ x.cycle \in CycleOrNone
        BY <1>6 DEF Kinds, Reasons, DayType
      <4> QED
        BY <4>1, Blanks, EventTyped, OpeningIs
    <3> DEFINE q == Append(w.events, Lost(w.cycle))
    <3> HIDE DEF e
    <3>4. q \in Seq(EventType) /\ Hushed(q)
      BY <2>1, <2>3, <3>1, HushedOn, Appended
    <3> HIDE DEF q
    <3>5. Hushed(Append(q, e))
      BY <3>3, <3>4, HushedOn
    <3> QED
      BY <3>1, <3>2, <3>5 DEF q
  <2>7. CASE PriceConfirms(w, x)
    <3> DEFINE c == x.cycle
               e == Event("state", c, NoFact, "none")
    <3>1. /\ w.cycle \in CycleType /\ c = [w.cycle EXCEPT !.state = ConfirmedState(IsUp(w.cycle))]
          /\ x.events = Append(w.events, e)
      BY <2>7 DEF PriceConfirms
    <3>2. c.state = "BEAR_CONFIRMED"
      <4>1. ~IsUp(w.cycle) /\ w.cycle \in CycleShape
        BY <2>1, <2>2, <3>1 DEF NotUp, CycleType
      <4> QED
        BY <3>1, <4>1 DEF CycleShape, ConfirmedState
    <3>3. e \in EventType /\ ~Opening(e)
      <4>1. "state" \in Kinds /\ "none" \in Reasons /\ c \in CycleOrNone
        BY <1>6 DEF Kinds, Reasons, DayType
      <4> QED
        BY <3>2, <4>1, Blanks, EventTyped, OpeningIs
    <3> HIDE DEF e, c
    <3>4. Hushed(x.events) /\ NotUp(c)
      BY <2>1, <3>1, <3>2, <3>3, HushedOn DEF NotUp, IsUp
    <3> QED
      BY <3>4 DEF c
  <2> QED
    BY <1>6, <2>4, <2>5, <2>6, <2>7
<1>8. /\ y \in DayType /\ y.cycle = x.cycle /\ y.recovery = x.recovery
      /\ \/ y.events = x.events
         \/ y.events = Append(x.events, Event("bear_break", NoCycle, NoFact, "none"))
  BY <1>6, BreakStructureDoes
<1> HIDE DEF y
<1>9. Recovering(y)
  <2> DEFINE e == Event("bear_break", NoCycle, NoFact, "none")
  <2>1. e \in EventType /\ ~Opening(e)
    <3>1. "bear_break" \in Kinds /\ "none" \in Reasons /\ NoCycle \in CycleOrNone
      BY DEF Kinds, Reasons, CycleOrNone
    <3> QED
      BY <3>1, Blanks, EventTyped, OpeningIs
  <2>2. x.events \in Seq(EventType)
    BY <1>6 DEF DayType
  <2>3. y.events = x.events \/ y.events = Append(x.events, e)
    BY <1>8
  <2> HIDE DEF e
  <2>4. Hushed(x.events) => Hushed(y.events)
    BY <2>1, <2>2, <2>3, HushedOn
  <2> QED
    BY <1>7, <1>8, <2>4 DEF Recovering
<1>10. /\ z \in DayType /\ z.cycle = y.cycle /\ z.events = y.events
       /\ z.recovery = y.recovery \/ z.recovery = NoRecovery
  BY <1>8, SpendSeedDoes
<1>11. Sound(z.recovery) /\ Recovering(z)
  <2> HIDE DEF z
  <2> QED
    BY <1>2, <1>4, <1>6, <1>8, <1>9, <1>10, BlankSound DEF Recovering, NoRecovery
<1> QED
  BY <1>10, <1>11 DEF RecoveringDays, SoundDays, x, y, z

\* A whole day: where a recovery is under way, nothing rises or opens.
LEMMA AdvancedRecovering ==
  ASSUME Base, now >= 0, RecoveringIsClosed, NEW revised \in BOOLEAN, NEW s \in Advanced(revised)
  PROVE  s \in RecoveringDays
<1>1. Typed /\ Vertices
  BY DEF Base
<1>2. PICK new \in NewFacts :
        \E w \in AdvanceAlternation(AdvanceRecovery(ConsumeFacts(Checked(revised), new))) :
            s = SpendSeed(BreakStructure(Price(w)))
  BY AdvancedStages
<1> DEFINE u == ConsumeFacts(Checked(revised), new)
<1>3. u \in RecoveringDays
  <2>1. Checked(revised) \in RecoveringDays
    BY CheckedRecovering
  <2>2. \A b \in RecoveringDays : \A f \in facts \ seen : Taken(TRUE, b, f) \in RecoveringDays
    BY <1>1, TakeRecovering DEF Typed
  <2> HIDE DEF RecoveringDays
  <2> QED
    BY <1>1, <2>1, <2>2, FactsStay
<1>4. PICK w \in AdvanceAlternation(AdvanceRecovery(u)) : s = SpendSeed(BreakStructure(Price(w)))
  BY <1>2
<1> HIDE DEF u
<1> QED
  BY <1>1, <1>3, <1>4, RestRecovering

\* The sign of a recovery closes the window.
LEMMA PendingEnds ==
  ASSUME NEW w \in WindowType
  PROVE  EndReason(Pending, w) # "none" /\ ~Opening(Pending) /\ ~Ends(Pending)
  BY DEF Pending, Event, EndReason, Ending, Opening, Ends

\* The books between the first n events of a day have a table.
Runs(base, n, q) ==
  \E g : /\ g[0] = base /\ g[n] = Folded(FALSE, base, q)
         /\ \A k \in 1..n : g[k] = Taken(FALSE, g[k-1], q[k])

\* The books between the events of a day.
LEMMA EventsRun ==
  ASSUME NEW base, NEW n \in Nat, NEW q, DOMAIN q = 1..n
  PROVE  Runs(base, n, q)
<1>1. ASSUME NEW c \in BOOLEAN
      PROVE  \E g : /\ g[0] = base /\ g[n] = Folded(c, base, q)
                    /\ \A k \in 1..n : g[k] = Taken(c, g[k-1], q[k])
  <2>1. c \in BOOLEAN /\ n \in Nat /\ DOMAIN q = 1..n
    BY <1>1
  <2> QED
    BY ONLY <2>1, FoldRuns
<1> QED
  BY <1>1, Zenon DEF Runs

\* After a closing event, or before the first, no event opens a window.
LEMMA SilentFold ==
  ASSUME Typed, now >= 0, NEW b \in BookType, NEW q \in Seq(EventType), NEW i \in 0..Len(q),
         i = 0 => ~IsOpen(b.windows), i > 0 => q[i] = Pending, Silent(q, i)
  PROVE  ~IsOpen(FoldLeft(Observe, b, q).windows)
<1>1. PICK n \in Nat : n = Len(q) /\ DOMAIN q = 1..n /\ \A k \in 1..n : q[k] \in EventType
  OBVIOUS
<1>2. PICK g : /\ g[0] = b /\ g[n] = Folded(FALSE, b, q)
               /\ \A k \in 1..n : g[k] = Taken(FALSE, g[k-1], q[k])
  <2>1. n \in Nat /\ DOMAIN q = 1..n
    BY <1>1
  <2>2. Runs(b, n, q)
    BY <2>1, EventsRun
  <2> QED
    BY <2>2 DEF Runs
<1> DEFINE F == {k \in 0..n : g[k] \in BookType /\ (k >= i => ~IsOpen(g[k].windows))}
<1>3. 0 \in F
  BY <1>1, <1>2
<1>4. ASSUME NEW k \in 0..n-1, k \in F
      PROVE  k + 1 \in F
  <2>1. k + 1 \in 1..n /\ k + 1 \in 0..n /\ (k + 1) - 1 = k
    BY <1>1
  <2> DEFINE c == g[k]
             e == q[k + 1]
             r == Observe(c, e)
  <2>2. g[k + 1] = r
    BY <1>2, <2>1 DEF Taken
  <2>3. c \in BookType /\ e \in EventType /\ (k >= i => ~IsOpen(c.windows))
    BY <1>1, <1>4, <2>1
  <2>4. /\ r \in BookType
        /\ ObserveOpens(c, e, r) \/ ObservePasses(c, e, r) \/ ObserveEnds(c, e, r) \/ ObserveKeeps(c, e, r)
    BY <2>3, ObserveDoes
  <2> HIDE DEF r
  <2>5. ASSUME k + 1 >= i
        PROVE  ~IsOpen(r.windows)
    <3>1. CASE k >= i
      <4>1. ~Opening(e)
        BY <1>1, <2>1, <3>1 DEF Silent
      <4> QED
        BY <2>3, <2>4, <3>1, <4>1 DEF ObserveOpens, ObservePasses, ObserveEnds, ObserveKeeps
    <3>2. CASE ~(k >= i)
      <4>1. i = k + 1 /\ e = Pending
        BY <2>1, <2>5, <3>2
      <4>2. CASE IsOpen(c.windows)
        <5>1. Last(c.windows) \in WindowType
          BY <2>3, <4>2, LastWindow DEF IsOpen, BookType
        <5>2. EndReason(e, Last(c.windows)) # "none"
          BY <4>1, <5>1, PendingEnds
        <5> QED
          BY <2>4, <4>2, <5>2 DEF ObserveOpens, ObservePasses, ObserveEnds, ObserveKeeps
      <4>3. CASE ~IsOpen(c.windows)
        <5>1. ~Opening(e)
          BY <4>1, OpeningIs DEF Pending
        <5> QED
          BY <2>4, <4>3, <5>1 DEF ObserveOpens, ObservePasses, ObserveEnds, ObserveKeeps
      <4> QED
        BY <4>2, <4>3
    <3> QED
      BY <3>1, <3>2
  <2> QED
    BY <2>1, <2>2, <2>4, <2>5
<1> HIDE DEF F
<1>5. n \in F
  <2>1. \A k \in 0 .. n-1 : k \in F => k+1 \in F
    BY <1>4
  <2>2. \A k \in 0..n : k \in F
    BY <1>1, <1>3, <2>1, PrefixInduction
  <2> QED
    BY <1>1, <2>2
<1>6. ~IsOpen(g[n].windows)
  BY <1>1, <1>5 DEF F
<1> QED
  BY <1>2, <1>6 DEF Folded

\* The confirmation of a fall on another path opens nothing.
LEMMA BearSilent ==
  ASSUME NEW q \in Seq(EventType), Hushed(q), NEW bear \in {<<>>, <<SourceBear>>}
  PROVE  Hushed(q \o bear)
<1>1. CASE bear = <<>>
  <2>1. q \o <<>> = q
    OBVIOUS
  <2> QED
    BY <1>1, <2>1
<1>2. CASE bear = <<SourceBear>>
  <2> DEFINE x == SourceBear
  <2>1. x \in EventType /\ ~Opening(x)
    BY BearTyped, OpeningIs DEF SourceBear
  <2> HIDE DEF x
  <2>2. q \o <<x>> = Append(q, x)
    BY <2>1
  <2>3. Hushed(Append(q, x))
    BY <2>1, HushedOn
  <2> QED
    BY <1>2, <2>2, <2>3 DEF x
<1> QED
  BY <1>1, <1>2

\* A book that is not open stays so at the end of the day.
LEMMA LateShut ==
  ASSUME Typed, now >= 0, NEW b \in BookType, NEW q \in Seq(EventType),
         ~IsOpen(FoldLeft(Observe, b, q).windows)
  PROVE  ~IsOpen(Settled(b, q).windows)
<1> DEFINE u == FoldLeft(Observe, b, q)
           v == FillGap(u)
<1>1. u \in BookType
  <2>1. \A c \in BookType : \A e \in EventType : Observe(c, e) \in BookType
    BY ObserveDoes
  <2> HIDE DEF BookType
  <2> QED
    BY <2>1, EventsStay
<1> HIDE DEF u
<1>2. ~IsOpen(u.windows)
  BY DEF u
<1>3. v \in BookType /\ ~IsOpen(v.windows)
  BY <1>1, <1>2, FillGapDoes DEF Late
<1> HIDE DEF v
<1>4. ~IsOpen(BreakReversal(v).windows)
  BY <1>3, BreakReversalDoes DEF Late
<1> QED
  BY <1>4 DEF Settled, u, v

\* Every step keeps it so.
LEMMA RecoveringKept ==
  ASSUME Base, RecoveringIsClosed, [Next]_vars
  PROVE  RecoveringIsClosed'
<1>1. Typed /\ Vertices
  BY DEF Base
<1>2. CASE (MarketDay \/ Redraw) /\ Quiet
  BY <1>2, QuietKeeps DEF RecoveringIsClosed, Open
<1>3. CASE AdvanceLifecycle
  <2>1. PICK revised \in BOOLEAN, completed \in BOOLEAN, bear \in {<<>>, <<SourceBear>>} :
        \E s \in Advanced(revised) :
          Advances(s, Settled(Gate(Book, Keys(completed)), s.events \o bear))
    BY <1>3, AdvanceDoes
  <2>2. PICK s \in Advanced(revised) :
          Advances(s, Settled(Gate(Book, Keys(completed)), s.events \o bear))
    BY <2>1
  <2> DEFINE g == Gate(Book, Keys(completed))
             q == s.events \o bear
             b == Settled(g, q)
  <2>3. /\ now >= 0 /\ windows' = b.windows /\ recovery' = s.recovery
        /\ cycle' = IF b.closed /\ ~IsOpen(b.windows) THEN ResumeSearch(s.cycle) ELSE s.cycle
    BY <2>2, Zenon DEF Advances
  <2>4. s \in DayType /\ Recovering(s) /\ s.events \in Seq(EventType)
    BY <2>3, AdvancedRecovering DEF RecoveringDays, SoundDays, DayType
  <2>5. SUFFICES ASSUME s.recovery.breach # Never
                 PROVE  ~IsOpen(b.windows) /\ NotUp(cycle')
    BY <2>3 DEF RecoveringIsClosed, Open, NotUp, IsUp
  <2>6. NotUp(s.cycle) /\ Hushed(q)
    BY <2>4, <2>5, BearSilent DEF Recovering
  <2>7. NotUp(cycle')
    BY <2>3, <2>6 DEF NotUp, ResumeSearch
  <2>8. q \in Seq(EventType) /\ g \in BookType
    BY <1>1, <2>3, <2>4, BearTyped, BookTyped, GateDoes
  <2>9. recovery.breach # Never => ~IsOpen(g.windows)
    <3> SUFFICES ASSUME recovery.breach # Never PROVE ~IsOpen(g.windows)
      OBVIOUS
    <3>1. ~IsOpen(Book.windows) /\ Book \in BookType
      BY <1>1, BookTyped DEF RecoveringIsClosed, Open
    <3>2. g = Book \/ GateClears(Book, g) \/ GateShuts(Book, g)
      BY <1>1, <2>3, <3>1, GateDoes
    <3>3. ~IsOpen(Closed(Book, "last_rise_low_broken").windows)
      <4>1. "last_rise_low_broken" \in Closings
        BY DEF Closings
      <4> QED
        BY <1>1, <2>3, <3>1, <4>1, ClosedDoes
    <3> HIDE DEF g
    <3> QED
      BY <3>1, <3>2, <3>3 DEF GateClears, GateShuts
  <2> HIDE DEF g, q
  <2>10. ~IsOpen(FoldLeft(Observe, g, q).windows)
    <3>1. CASE recovery.breach # Never /\ Silent(q, 0)
      <4>1. 0 \in 0..Len(q)
        BY <2>8
      <4> QED
        BY <1>1, <2>3, <2>8, <2>9, <3>1, <4>1, SilentFold
    <3>2. CASE \E i \in 1..Len(q) : q[i] = Pending /\ Silent(q, i)
      <4>1. PICK i \in 1..Len(q) : q[i] = Pending /\ Silent(q, i)
        BY <3>2
      <4>2. i \in 0..Len(q) /\ i # 0
        OBVIOUS
      <4> QED
        BY <1>1, <2>3, <2>8, <4>1, <4>2, SilentFold
    <3> QED
      BY <2>6, <3>1, <3>2 DEF Hushed
  <2> QED
    BY <1>1, <2>3, <2>7, <2>8, <2>10, LateShut
<1>4. CASE ClosePath
  <2>1. recovery' = NoRecovery
    BY <1>4, ClosePathDoes
  <2> QED
    BY <2>1 DEF RecoveringIsClosed, NoRecovery
<1>5. CASE UNCHANGED vars
  BY <1>5 DEF vars, lifecycleVars, RecoveringIsClosed, Open
<1> QED
  BY <1>2, <1>3, <1>4, <1>5 DEF Next

\* While a broken flip may still recover there is neither a rising cycle nor a window
\* (trend_lifecycle.py, _consume and _advance_bull_recovery).
THEOREM RecoveringIsClosedHolds == Spec => []RecoveringIsClosed
<1>1. Init => RecoveringIsClosed
  BY DEF Init, RecoveringIsClosed, NoRecovery
<1>2. Base /\ RecoveringIsClosed /\ [Next]_vars => RecoveringIsClosed'
  BY RecoveringKept
<1> QED
  BY <1>1, <1>2, BaseHolds, PTL DEF Spec

-----------------------------------------------------------------------------
(* The defence of a rise.                                                    *)

\* No bar from a day on fell below a price.
Above(price, from, upto) == \A d \in 0..upto : d >= from => Bar(d).low >= price

\* A recovered rise was never undercut since its origin, whose place its structure keeps.
Recovers(c, upto) ==
  /\ Above(c.origin.price, c.origin.index + 1, upto)
  /\ c.structure[2] = c.origin /\ c.structure[3].index <= c.impulse.index

\* An ordinary one began with a flip, and no bar of the days before passed its high.
Attacks(c) ==
  /\ \/ c.impulse.index >= c.started
     \/ \E f \in c.evidence : f.title = "BullFlip" /\ f.origin = c.origin /\ Same(f.point, c.impulse)
  /\ \A d \in 0..(c.started - 1) : d > c.impulse.index => Bar(d).high <= c.impulse.price

\* What a rise rests on, up to a day.
Rising(c, upto) ==
  /\ 0 <= c.origin.index /\ c.origin.index < c.impulse.index /\ c.started \in 0..now
  /\ Above(c.origin.price, c.started, upto)
  /\ IF c.recovery THEN Recovers(c, upto) ELSE Attacks(c)
  /\ c.counter # NoPivot => /\ c.counter.price >= c.origin.price
                            /\ Above(c.counter.price, c.alternated + 1, upto)

\* A new impulse: a later, higher high.
Climbs(c, p) ==
  /\ p \in Pivots /\ p.index > c.impulse.index /\ p.price > c.impulse.price
  /\ p.index <= now /\ Bar(p.index).high = p.price

\* Two stages of a rise.
Follows(c, e) ==
  /\ e.origin = c.origin /\ e.started = c.started /\ e.recovery = c.recovery
  /\ \A f \in c.evidence : f.title = "BullFlip" => f \in e.evidence
  /\ Same(e.impulse, c.impulse) \/ Climbs(c, e.impulse)
  /\ e.recovery => e.structure[2] = e.origin /\ e.structure[3].index <= e.impulse.index

\* A later high is not of a day before the rise began.
LEMMA ClimbsLate ==
  ASSUME Typed, NEW c \in CycleShape, Attacks(c), NEW p, Climbs(c, p), c.impulse.index >= 0
  PROVE  p.index >= c.started
<1>0. /\ p.index \in Int /\ c.started \in Int /\ c.impulse.index \in Int
      /\ p.index > c.impulse.index /\ p.index <= now
  BY DEF Climbs, Pivots, CycleShape
<1>1. SUFFICES ASSUME p.index < c.started PROVE FALSE
  BY <1>0
<1>2. p.index \in 0..(c.started - 1) /\ p.index \in 0..now
  BY <1>0, <1>1, Clock
<1>3. Bar(p.index).high <= c.impulse.price
  BY <1>2 DEF Attacks, Climbs
<1>4. Bar(p.index).high = p.price /\ p.price > c.impulse.price /\ p.price \in Int /\ c.impulse.price \in Int
  BY DEF Climbs, Pivots, CycleShape
<1> HIDE DEF Climbs
<1> QED
  BY <1>3, <1>4

\* A stage of a rise rises as the one before, with the same counter low or without one.
LEMMA RisingFollows ==
  ASSUME Typed, NEW c \in CycleShape, NEW e \in CycleShape, NEW upto \in Int, Rising(c, upto),
         Follows(c, e),
         \/ e.counter = NoPivot
         \/ e.counter = c.counter /\ e.alternated = c.alternated
         \/ e.counter.price >= c.origin.price /\ e.alternated >= upto
  PROVE  Rising(e, upto)
<1>1. /\ e.origin = c.origin /\ e.started = c.started /\ e.recovery = c.recovery
      /\ 0 <= c.origin.index /\ c.origin.index < c.impulse.index /\ c.started \in 0..now
      /\ Above(c.origin.price, c.started, upto)
  BY DEF Rising, Follows
<1>2. c.origin.index < e.impulse.index
  <2>1. c.origin.index \in Int /\ c.impulse.index \in Int /\ e.impulse.index \in Int
    BY DEF CycleShape, Pivots
  <2> QED
    BY <1>1, <2>1 DEF Follows, Climbs, Same
<1>3. CASE c.recovery
  <2>1. Recovers(e, upto)
    BY <1>1, <1>3 DEF Rising, Recovers, Follows
  <2>2. e.counter # NoPivot => /\ e.counter.price >= e.origin.price
                               /\ Above(e.counter.price, e.alternated + 1, upto)
    <3>1. e.alternated \in Int
      BY DEF CycleShape
    <3>2. e.alternated >= upto => Above(e.counter.price, e.alternated + 1, upto)
      BY <3>1 DEF Above
    <3> QED
      BY <1>1, <3>2 DEF Rising
  <2> QED
    BY <1>1, <1>2, <1>3, <2>1, <2>2 DEF Rising
<1>4. CASE ~c.recovery
  <2>1. Attacks(c)
    BY <1>4 DEF Rising
  <2>2. Attacks(e)
    <3>1. CASE Same(e.impulse, c.impulse)
      BY <1>1, <2>1, <3>1 DEF Attacks, Follows, Same
    <3>2. CASE Climbs(c, e.impulse)
      <4>1. c.impulse.index >= 0
        <5>1. c.origin.index \in Int /\ c.impulse.index \in Int
          BY DEF CycleShape, Pivots
        <5> QED
          BY <1>1, <5>1
      <4>2. e.impulse.index >= e.started
        BY <1>1, <2>1, <3>2, <4>1, ClimbsLate
      <4>3. e.impulse.index \in Int /\ e.started \in Int
        BY DEF CycleShape, Pivots
      <4>4. \A d \in 0..(e.started - 1) : ~(d > e.impulse.index)
        BY <4>2, <4>3
      <4> QED
        BY <4>2, <4>4 DEF Attacks
    <3> QED
      BY <3>1, <3>2 DEF Follows
  <2>3. e.counter # NoPivot => /\ e.counter.price >= e.origin.price
                               /\ Above(e.counter.price, e.alternated + 1, upto)
    <3>1. e.alternated \in Int
      BY DEF CycleShape
    <3>2. e.alternated >= upto => Above(e.counter.price, e.alternated + 1, upto)
      BY <3>1 DEF Above
    <3> QED
      BY <1>1, <3>2 DEF Rising
  <2> QED
    BY <1>1, <1>2, <1>4, <2>2, <2>3 DEF Rising
<1> QED
  BY <1>3, <1>4

\* A flip up, and the bars it stands on.
LEMMA FlipStands ==
  ASSUME Base, Facts, NEW f \in facts, f.title = "BullFlip"
  PROVE  /\ 0 <= f.origin.index /\ f.origin.index < f.point.index /\ f.point.index <= now
         /\ f.point.known = f.known /\ f.point \in Pivots /\ f.origin \in Pivots
         /\ Bar(f.point.index).high = f.point.price
         /\ Unpassed(f.point) => \A d \in 0..(now - 1) : d > f.point.index => Bar(d).high <= f.point.price
<1>0. Typed /\ Vertices
  BY DEF Base
<1>1. PICK j \in 1..Len(points) :
        f.point = points[j] /\ f.known = points[j].known /\ FlipOK(points, f, j)
  BY DEF Facts, FactOK
<1>2. PICK k \in 1..(j - 1) : f.origin = points[k]
  BY <1>1 DEF FlipOK
<1>3. k \in 1..Len(points) /\ k < j /\ points[j].kind = "H"
  BY <1>0, <1>1, <1>2, PathTyped DEF FlipOK
<1>4. /\ points[j] \in Pivots /\ points[k] \in Pivots /\ points[j].index \in Int /\ points[j].known \in Int
      /\ now \in Int
  BY <1>0, <1>3, PlaceTyped, Clock
<1>5. points[k].index < points[j].index /\ 0 <= points[k].index
  BY <1>0, <1>3 DEF Vertices
<1>6. /\ points[j].index < points[j].known /\ points[j].known <= now
      /\ points[j].price = Bar(points[j].index).high
  BY <1>0, <1>3 DEF Vertices
<1>7. Unpassed(f.point) => \A d \in 0..(now - 1) : d > f.point.index => Bar(d).high <= f.point.price
  BY <1>1, <1>3, <1>4 DEF Unpassed
<1> QED
  BY <1>1, <1>2, <1>4, <1>5, <1>6, <1>7

\* An alternation up accepted by a rise gives it a counter low above its origin, and an
\* impulse that is the same or climbs.
LEMMA CounterStands ==
  ASSUME Base, Facts, NEW c \in CycleShape, Rising(c, now - 1), c.evidence \subseteq facts,
         NEW f \in facts, f.title = "BullAlternation",
         \/ Same(f.impulse, c.impulse)
         \/ f.impulse.price > c.impulse.price /\ f.impulse.index > c.impulse.index
  PROVE  /\ f.point.price >= c.origin.price
         /\ Same(f.impulse, c.impulse) \/ Climbs(c, f.impulse)
<1>0. Typed /\ Vertices
  BY DEF Base
<1>1. PICK j \in 1..Len(points) : f.point = points[j] /\ AlternationOK(points, f, j)
  BY DEF Facts, FactOK
<1> DEFINE low == points[j]
           high == points[j - 1]
           base == points[j - 2]
<1>2. /\ j \in Int /\ j > 2 /\ j - 1 \in 1..Len(points) /\ j - 2 \in 1..Len(points) /\ low.kind = "L"
      /\ f.impulse = high /\ base.price < low.price
  BY <1>0, <1>1, PathTyped DEF AlternationOK
<1>3. /\ low \in Pivots /\ high \in Pivots /\ base \in Pivots
      /\ low.index \in Int /\ high.index \in Int /\ low.price \in Int /\ high.price \in Int /\ base.price \in Int
      /\ low.known \in Int /\ high.known \in Int /\ now \in Int
  BY <1>0, <1>2, PlaceTyped, Clock
<1>4. high.index < low.index
  BY <1>0, <1>2 DEF Vertices
<1>5. /\ low.index < low.known /\ low.known <= now /\ 0 <= low.index /\ low.price = Bar(low.index).low
  BY <1>0, <1>2 DEF Vertices
<1>6. high.kind # low.kind /\ high.kind # "none" /\ base.kind # high.kind /\ base.kind # "none"
  <2>1. j = (j - 1) + 1 /\ j - 1 = (j - 2) + 1
    BY <1>2
  <2> QED
    BY <1>0, <1>2, <2>1 DEF Vertices
<1>7. high.kind = "H" /\ base.kind = "L"
  BY <1>2, <1>3, <1>6 DEF Pivots
<1>8. high.price = Bar(high.index).high /\ 0 <= high.index
  BY <1>0, <1>2, <1>7 DEF Vertices
<1> HIDE DEF low, high, base
<1>9. Same(f.impulse, c.impulse) \/ Climbs(c, f.impulse)
  BY <1>2, <1>3, <1>4, <1>5, <1>8 DEF Climbs
<1>10. /\ c.origin.index \in Int /\ c.origin.price \in Int /\ c.impulse.index \in Int /\ c.impulse.price \in Int
       /\ c.started \in Int
  BY DEF CycleShape, Pivots
<1>11. /\ 0 <= c.origin.index /\ c.origin.index < c.impulse.index /\ c.started \in 0..now
       /\ Above(c.origin.price, c.started, now - 1)
  BY DEF Rising
<1>12. c.impulse.index <= high.index /\ low.index \in 0..(now - 1) /\ c.impulse.index < low.index
  <2>1. c.impulse.index = high.index \/ high.index > c.impulse.index
    BY <1>2, <1>9 DEF Climbs, Same
  <2>2. c.impulse.index <= high.index
    BY <1>3, <1>10, <2>1
  <2>3. low.index < now
    BY <1>3, <1>5
  <2> QED
    BY <1>3, <1>4, <1>5, <1>10, <2>2, <2>3
<1>13. CASE low.index >= c.started
  <2>1. Bar(low.index).low >= c.origin.price
    BY <1>11, <1>12, <1>13 DEF Above
  <2> QED
    BY <1>1, <1>5, <1>9, <2>1 DEF low
<1>14. CASE c.recovery
  <2>1. Above(c.origin.price, c.origin.index + 1, now - 1)
    BY <1>14 DEF Rising, Recovers
  <2>2. low.index >= c.origin.index + 1
    BY <1>3, <1>10, <1>11, <1>12, SMTT(30)
  <2>3. Bar(low.index).low >= c.origin.price
    BY <1>12, <2>1, <2>2 DEF Above
  <2> QED
    BY <1>1, <1>5, <1>9, <2>3 DEF low
<1>15. CASE low.index < c.started /\ ~c.recovery
  <2>1. Attacks(c)
    BY <1>15 DEF Rising
  <2>2. Same(f.impulse, c.impulse)
    <3>1. SUFFICES ASSUME Climbs(c, f.impulse) PROVE FALSE
      BY <1>9
    <3>2. c.impulse.index >= 0
      BY <1>10, <1>11
    <3>3. f.impulse.index >= c.started
      BY <1>0, <2>1, <3>1, <3>2, ClimbsLate
    <3> QED
      BY <1>2, <1>3, <1>4, <1>10, <1>15, <3>3, SMTT(30)
  <2>3. c.impulse.index = high.index
    BY <1>2, <2>2 DEF Same
  <2>4. ~(c.impulse.index >= c.started)
    BY <1>3, <1>10, <1>12, <1>15
  <2>5. PICK g \in c.evidence : g.title = "BullFlip" /\ g.origin = c.origin /\ Same(g.point, c.impulse)
    BY <2>1, <2>3, <2>4 DEF Attacks
  <2>6. g \in facts
    BY <2>5
  <2>7. PICK m \in 1..Len(points) : g.point = points[m] /\ FlipOK(points, g, m)
    BY <2>5, <2>6 DEF Facts, FactOK
  <2>8. m = j - 1
    <3>1. points[m].index = points[j - 1].index
      BY <2>3, <2>5, <2>7 DEF high, Same
    <3>2. m \in Int /\ j - 1 \in 1..Len(points) /\ j - 1 \in Int
      BY <1>2
    <3>3. ~(points[m].index < points[j-1].index) /\ ~(points[j-1].index < points[m].index)
          /\ m \in 1..Len(points)
      BY <1>2, <1>3, <3>1 DEF high
    <3> QED
      BY <1>0, <2>7, <3>2, <3>3 DEF Vertices
  <2>9. PICK k \in 1..(m - 1) :
          /\ g.origin = points[k] /\ \A i \in k..(m - 1) : points[i].kind = "L" => points[i].price >= points[k].price
    BY <2>7 DEF FlipOK
  <2>10. j - 2 \in k..(m - 1) /\ points[j-2].kind = "L"
    BY <1>2, <1>7, <2>8, <2>9 DEF base
  <2>11. base.price >= c.origin.price
    BY <2>5, <2>9, <2>10 DEF base
  <2>12. low.price >= c.origin.price
    BY <1>2, <1>3, <1>10, <2>11, SMTT(30)
  <2> QED
    BY <1>1, <1>9, <2>12 DEF low
<1> QED
  BY <1>3, <1>10, <1>13, <1>14, <1>15

\* The days whose rise rises up to yesterday, on facts that are drawn.
RisesTo(c, upto) == c # NoCycle /\ IsUp(c) => Rising(c, upto)
Rests(c) == c # NoCycle => c.evidence \subseteq facts

RisingDays == {t \in DayType : RisesTo(t.cycle, now - 1)}
StandingDays == {t \in RisingDays : Rests(t.cycle)}

\* The stages of a day that go on with the rise.
LEMMA FillRises ==
  ASSUME Typed, NEW s \in RisingDays
  PROVE  ExpireGap(s) \in RisingDays
<1> DEFINE r == ExpireGap(s)
           c == s.cycle
           e == r.cycle
<1>0. s \in DayType /\ RisesTo(c, now - 1)
  BY DEF RisingDays
<1>1. /\ r \in DayType
      /\ \/ r = s
         \/ /\ c \in CycleType /\ c.gap # NoGap
            /\ e = [c EXCEPT !.state = "BULL_FLIP", !.counter = NoPivot, !.alternated = Never,
                             !.source = {}, !.gap = NoGap, !.structure = KeptStructure(c)]
  BY <1>0, ExpireGapDoes
<1> HIDE DEF r
<1>2. CASE r = s
  BY <1>2 DEF r
<1>3. CASE /\ c \in CycleType /\ c.gap # NoGap
           /\ e = [c EXCEPT !.state = "BULL_FLIP", !.counter = NoPivot, !.alternated = Never,
                            !.source = {}, !.gap = NoGap, !.structure = KeptStructure(c)]
  <2>1. e \in CycleOrNone
    BY <1>1 DEF DayType
  <2> HIDE DEF e, c
  <2>2. c \in CycleShape /\ IsUp(c) /\ c # NoCycle
    BY <1>3, CycleIsOne DEF CycleType, CycleOrNone
  <2>3. /\ e.origin = c.origin /\ e.started = c.started /\ e.recovery = c.recovery /\ e.evidence = c.evidence
        /\ e.impulse = c.impulse /\ e.counter = NoPivot /\ e.structure = KeptStructure(c)
    BY <1>3, <2>2 DEF CycleShape
  <2>4. SUFFICES ASSUME e # NoCycle PROVE Rising(e, now - 1)
    BY <1>1 DEF RisingDays, RisesTo, e, r
  <2>5. e \in CycleShape
    BY <2>1, <2>4, CycleIsOne
  <2>6. Rising(c, now - 1)
    BY <1>0, <2>2 DEF RisesTo
  <2>7. e.recovery => e.structure[2] = e.origin /\ e.structure[3].index <= e.impulse.index
    <3>1. c.recovery => KeptStructure(c)[2] = c.structure[2] /\ KeptStructure(c)[3] = c.structure[3]
      BY <1>3, KeptTyped
    <3> QED
      BY <2>3, <2>6, <3>1 DEF Rising, Recovers
  <2>8. Follows(c, e)
    BY <2>3, <2>7 DEF Follows, Same
  <2>9. now - 1 \in Int
    BY Clock
  <2> QED
    BY <2>2, <2>3, <2>5, <2>6, <2>8, <2>9, RisingFollows
<1> QED
  BY <1>1, <1>2, <1>3 DEF r

\* A recovered rise goes on with a later high.
LEMMA ContinuedRises ==
  ASSUME Typed, Vertices, NEW s \in RisingDays
  PROVE  ContinueImpulse(s) \in RisingDays
<1> DEFINE r == ContinueImpulse(s)
           c == s.cycle
           e == r.cycle
<1>0. s \in DayType /\ RisesTo(c, now - 1)
  BY DEF RisingDays
<1>1. /\ r \in DayType
      /\ \/ r = s
         \/ /\ c \in CycleType /\ c.recovery
            /\ \E k \in Extension(c) : e = [c EXCEPT !.impulse = points[k+2], !.structure = SubSeq(points, k, k + 2)]
  BY <1>0, ContinueImpulseDoes
<1> HIDE DEF r
<1>2. CASE r = s
  BY <1>2 DEF r
<1>3. CASE /\ c \in CycleType /\ c.recovery
           /\ \E k \in Extension(c) : e = [c EXCEPT !.impulse = points[k+2], !.structure = SubSeq(points, k, k + 2)]
  <2>1. e \in CycleOrNone
    BY <1>1 DEF DayType
  <2> HIDE DEF e, c
  <2>2. c \in CycleShape /\ IsUp(c) /\ c # NoCycle
    BY <1>3, CycleIsOne DEF CycleType, CycleOrNone
  <2>3. PICK k \in Extension(c) : e = [c EXCEPT !.impulse = points[k+2], !.structure = SubSeq(points, k, k + 2)]
    BY <1>3
  <2>4. /\ e.origin = c.origin /\ e.started = c.started /\ e.recovery = c.recovery
        /\ e.impulse = points[k+2] /\ e.counter = c.counter /\ e.alternated = c.alternated
        /\ e.structure = SubSeq(points, k, k + 2)
    BY <2>2, <2>3 DEF CycleShape
  <2>5. SUFFICES ASSUME e # NoCycle PROVE Rising(e, now - 1)
    BY <1>1 DEF RisingDays, RisesTo, e, r
  <2>6. Rising(c, now - 1) /\ Recovers(c, now - 1)
    BY <1>0, <1>3, <2>2 DEF RisesTo, Rising
  <2>7. k \in 1..(Len(points) - 2) /\ points[k+1] = c.structure[2]
    BY <2>3 DEF Extension
  <2>8. e.structure[2] = c.origin /\ e.structure[3] = e.impulse /\ points[k+1] = c.origin
    BY <2>4, <2>6, <2>7, TypedHolds, ThreePoints DEF Recovers
  <2>9. k + 1 \in 1..Len(points) /\ k + 2 \in 1..Len(points) /\ k + 1 < k + 2
    BY <2>7, PathTyped
  <2>10. points[k+1].index < points[k+2].index /\ points[k+2].index \in Int
    BY <2>9, PlaceTyped DEF Vertices
  <2>11. Recovers(e, now - 1)
    <3>1. Above(c.origin.price, c.origin.index + 1, now - 1)
      BY <2>6 DEF Recovers
    <3>2. e.structure[3].index <= e.impulse.index
      <4>1. e.impulse.index \in Int
        BY <2>4, <2>10
      <4>2. e.structure[3] = e.impulse
        BY <2>8
      <4> QED
        BY ONLY <4>1, <4>2
    <3> QED
      BY <2>4, <2>8, <3>1, <3>2 DEF Recovers
  <2> QED
    BY <1>3, <2>4, <2>6, <2>8, <2>10, <2>11 DEF Rising
<1> QED
  BY <1>1, <1>2, <1>3 DEF r

\* A day before its facts.
LEMMA CheckedRises ==
  ASSUME Base, RisesTo(cycle, now - 1), NEW revised \in BOOLEAN
  PROVE  Checked(revised) \in StandingDays
<1>0. Typed /\ Vertices
  BY DEF Base
<1> DEFINE a == ExpireGap(Start)
           b == ContinueImpulse(a)
           c == CheckEvidence(b, revised)
           d == CheckSeed(c)
<1>1. Start \in RisingDays
  BY <1>0, StartTyped DEF RisingDays
<1>2. b \in RisingDays
  BY <1>0, <1>1, FillRises, ContinuedRises
<1> HIDE DEF b
<1>3. c \in DayType /\ RisesTo(c.cycle, now - 1) /\ Rests(c.cycle)
  BY <1>2, CheckEvidenceDoes DEF RisingDays, RisesTo, Rests, Stands
<1> HIDE DEF c
<1>4. d \in DayType /\ d.cycle = c.cycle
  BY <1>3, CheckSeedDoes
<1> HIDE DEF d
<1>5. d \in StandingDays
  BY <1>3, <1>4 DEF StandingDays, RisingDays
<1> QED
  BY <1>5 DEF Checked, a, b, c, d

\* The structure of a recovered rise holds vertices.
LEMMA StructureTyped ==
  ASSUME NEW c \in CycleType, c.recovery
  PROVE  c.structure[2] \in Pivots /\ c.structure[3] \in Pivots /\ c.structure[3].index \in Int
<1>1. c.structure \in Seq(Pivots) /\ Len(c.structure) >= 3
  BY DEF CycleType, CycleShape
<1>2. 2 \in 1..Len(c.structure) /\ 3 \in 1..Len(c.structure)
  BY <1>1
<1>3. c.structure[2] \in Pivots /\ c.structure[3] \in Pivots
  BY <1>1, <1>2
<1> QED
  BY <1>3 DEF Pivots

\* What a new fact makes of a rise.
LEMMA TakeRises ==
  ASSUME Base, Facts, present, now >= 0, NEW s \in StandingDays, NEW f \in facts \ seen
  PROVE  Taken(TRUE, s, f) \in StandingDays
<1>0. Typed /\ f \in FactType /\ f \in facts /\ Unpassed(f.point) /\ now \in Int
  BY Clock DEF Base, Facts, Typed
<1> DEFINE r == Taken(TRUE, s, f)
           c == s.cycle
           e == r.cycle
<1>1. s \in DayType /\ RisesTo(c, now - 1) /\ Rests(c)
  BY DEF StandingDays, RisingDays
<1>2. /\ r \in DayType
      /\ (c = e /\ r.events = s.events) \/ Consumed(s, r, f)
  BY <1>0, <1>1, TakeDoes
<1>3. e \in CycleOrNone
  BY <1>2 DEF DayType
<1> HIDE DEF r
<1>4. SUFFICES RisesTo(e, now - 1) /\ Rests(e)
  BY <1>2 DEF StandingDays, RisingDays, e, r
<1>5. c \in CycleType => c \in CycleShape /\ c # NoCycle
  BY CycleIsOne DEF CycleOrNone
<1>6. e # NoCycle => e \in CycleShape
  BY <1>3, CycleIsOne
<1>7. Rises(f) \in BOOLEAN
  BY DEF Rises
<1>8. CASE e = c
  BY <1>1, <1>8
<1>9. CASE FlipStarts(s, r, f, Rises(f))
  <2>1. f.title = FlipTitle(Rises(f)) /\ e = NewCycle(Rises(f), f.origin, f.point, {f})
    BY <1>9 DEF FlipStarts
  <2> HIDE DEF e, c
  <2>2. /\ e.origin = f.origin /\ e.started = now /\ e.impulse = f.point /\ e.recovery = FALSE
        /\ e.counter = NoPivot /\ e.evidence = {f} /\ e.state = FlipState(Rises(f))
    BY <2>1 DEF NewCycle
  <2>3. Rests(e)
    BY <1>0, <2>2 DEF Rests
  <2>4. ASSUME IsUp(e) PROVE Rising(e, now - 1)
    <3>1. f.title = "BullFlip"
      BY <1>7, <2>1, <2>2, <2>4 DEF IsUp, FlipState, FlipTitle
    <3>2. /\ 0 <= f.origin.index /\ f.origin.index < f.point.index
          /\ \A d \in 0..(now - 1) : d > f.point.index => Bar(d).high <= f.point.price
      BY <1>0, <3>1, FlipStands
    <3>3. Attacks(e)
      BY <2>2, <3>1, <3>2 DEF Attacks, Same
    <3>4. now \in 0..now /\ Above(e.origin.price, now, now - 1)
      BY <1>0 DEF Above
    <3> QED
      BY <2>2, <3>2, <3>3, <3>4 DEF Rising
  <2> QED
    BY <2>3, <2>4 DEF RisesTo
<1>10. CASE FlipMoves(s, r, f, Rises(f))
  <2>1. /\ f.title = FlipTitle(Rises(f)) /\ c \in CycleType /\ IsUp(c) = Rises(f)
        /\ Beyond(Rises(f), f.point.price, c.impulse.price) /\ f.point.index > c.impulse.index
        /\ e = [c EXCEPT !.impulse = f.point, !.evidence = c.evidence \cup {f}]
    BY <1>10 DEF FlipMoves
  <2> HIDE DEF e, c
  <2>2. /\ e.origin = c.origin /\ e.started = c.started /\ e.impulse = f.point /\ e.recovery = c.recovery
        /\ e.counter = c.counter /\ e.alternated = c.alternated /\ e.evidence = c.evidence \cup {f}
        /\ e.structure = c.structure /\ e.state = c.state
    BY <1>5, <2>1 DEF CycleShape
  <2>3. Rests(e)
    BY <1>0, <1>1, <1>5, <2>1, <2>2 DEF Rests
  <2>4. ASSUME IsUp(e), e # NoCycle PROVE Rising(e, now - 1)
    <3>1. IsUp(c) /\ Rises(f) /\ f.title = "BullFlip"
      BY <2>1, <2>2, <2>4 DEF IsUp, FlipTitle
    <3>2. Rising(c, now - 1) /\ c \in CycleShape /\ e \in CycleShape
      BY <1>1, <1>5, <1>6, <2>1, <2>4, <3>1 DEF RisesTo
    <3>3. /\ f.point.index <= now /\ f.point \in Pivots /\ Bar(f.point.index).high = f.point.price
      BY <1>0, <3>1, FlipStands
    <3>4. Climbs(c, e.impulse)
      BY <2>1, <2>2, <3>1, <3>3 DEF Climbs, Beyond
    <3>5. e.recovery => e.structure[2] = e.origin /\ e.structure[3].index <= e.impulse.index
      <4>1. SUFFICES ASSUME c.recovery PROVE c.structure[2] = c.origin /\ c.structure[3].index <= f.point.index
        BY <2>2
      <4>2. c.structure[2] = c.origin /\ c.structure[3].index <= c.impulse.index
        BY <3>2, <4>1 DEF Rising, Recovers
      <4>3. c.structure[3].index \in Int
        BY <2>1, <4>1, StructureTyped
      <4>4. c.impulse.index \in Int /\ f.point.index \in Int
        BY <3>2, <3>3 DEF CycleShape, Pivots
      <4> QED
        BY <2>1, <4>2, <4>3, <4>4
    <3>6. Follows(c, e)
      BY <2>2, <3>4, <3>5 DEF Follows
    <3> QED
      BY <1>0, <2>2, <3>2, <3>6, RisingFollows
  <2> QED
    BY <2>3, <2>4 DEF RisesTo
<1>11. CASE f.title # FlipTitle(Rises(f)) /\ Alternates(s, r, f, Rises(f))
  <2>1. /\ c \in CycleType /\ IsUp(c) = Rises(f)
        /\ \/ Same(f.impulse, c.impulse)
           \/ Beyond(Rises(f), f.impulse.price, c.impulse.price) /\ f.impulse.index > c.impulse.index
        /\ e = [c EXCEPT !.state = AlternationState(Rises(f)), !.impulse = f.impulse,
                         !.counter = f.point, !.alternated = now, !.evidence = c.evidence \cup {f},
                         !.gap = NoGap, !.source = {}, !.closed = Never]
    BY <1>11 DEF Alternates, Accepts
  <2> HIDE DEF e, c
  <2>2. /\ e.origin = c.origin /\ e.started = c.started /\ e.impulse = f.impulse /\ e.recovery = c.recovery
        /\ e.counter = f.point /\ e.alternated = now /\ e.evidence = c.evidence \cup {f}
        /\ e.structure = c.structure /\ e.state = AlternationState(Rises(f))
    BY <1>5, <2>1 DEF CycleShape
  <2>3. Rests(e)
    BY <1>0, <1>1, <1>5, <2>1, <2>2 DEF Rests
  <2>4. ASSUME IsUp(e), e # NoCycle PROVE Rising(e, now - 1)
    <3>1. IsUp(c) /\ Rises(f) /\ f.title = "BullAlternation"
      BY <1>7, <1>11, <2>1, <2>2, <2>4 DEF IsUp, FlipTitle, AlternationState, Rises
    <3>2. Rising(c, now - 1) /\ c \in CycleShape /\ e \in CycleShape
      BY <1>1, <1>5, <1>6, <2>1, <2>4, <3>1 DEF RisesTo
    <3>3. Same(f.impulse, c.impulse) \/ (f.impulse.price > c.impulse.price /\ f.impulse.index > c.impulse.index)
      BY <2>1, <3>1 DEF Beyond
    <3>4. c.evidence \subseteq facts
      BY <1>1, <1>5, <2>1 DEF Rests
    <3>5. f.point.price >= c.origin.price /\ (Same(f.impulse, c.impulse) \/ Climbs(c, f.impulse))
      BY <1>0, <3>1, <3>2, <3>3, <3>4, CounterStands
    <3>6. e.recovery => e.structure[2] = e.origin /\ e.structure[3].index <= e.impulse.index
      <4>1. SUFFICES ASSUME c.recovery PROVE c.structure[2] = c.origin /\ c.structure[3].index <= f.impulse.index
        BY <2>2
      <4>2. c.structure[2] = c.origin /\ c.structure[3].index <= c.impulse.index
        BY <3>2, <4>1 DEF Rising, Recovers
      <4>3. c.structure[3].index \in Int
        BY <2>1, <4>1, StructureTyped
      <4>4. c.impulse.index \in Int /\ f.impulse.index \in Int
        BY <1>0, <3>2 DEF CycleShape, Pivots, FactType
      <4> QED
        BY <3>3, <4>2, <4>3, <4>4 DEF Same
    <3>7. Follows(c, e)
      BY <2>2, <3>5, <3>6 DEF Follows
    <3>8. e.counter.price >= c.origin.price /\ e.alternated >= now - 1
      BY <1>0, <2>2, <3>5
    <3> QED
      BY <1>0, <3>2, <3>7, <3>8, RisingFollows
  <2> QED
    BY <2>3, <2>4 DEF RisesTo
<1> QED
  BY <1>2, <1>8, <1>9, <1>10, <1>11 DEF Consumed

\* The rise of a recovery.
LEMMA SpecialRises ==
  ASSUME Typed, Vertices, now >= 0, NEW q \in RecoveryType, NEW k \in 1..(Len(points) - 2),
         k \in SpecialFlips(q)
  PROVE  Rising(SpecialCycle(q, k), now - 1)
<1> DEFINE e == SpecialCycle(q, k)
<1>1. /\ e.origin = points[k+1] /\ e.impulse = points[k+2] /\ e.started = now /\ e.recovery
      /\ e.counter = NoPivot /\ e.structure = SubSeq(points, k, k + 2)
  BY SpecialTyped
<1> HIDE DEF e
<1>2. points[k].kind = "H" /\ ~Broken(points[k+1])
  BY DEF SpecialFlips
<1>3. /\ k \in 1..Len(points) /\ k + 1 \in 1..Len(points) /\ k + 2 \in 1..Len(points)
      /\ k + 1 < k + 2
  BY PathTyped
<1>4. /\ points[k+1] \in Pivots /\ points[k+1].index \in Int /\ points[k+2].index \in Int
      /\ points[k+1].price \in Int
  BY <1>3, PlaceTyped
<1>5. points[k+1].kind = "L"
  <2>1. points[k+1].kind # "none" /\ points[k].kind # points[k+1].kind
    BY <1>3 DEF Vertices
  <2> QED
    BY <1>2, <1>4, <2>1 DEF Pivots
<1>6. 0 <= points[k+1].index /\ points[k+1].index < points[k+2].index
  BY <1>3 DEF Vertices
<1>7. now \in Int /\ now \in 0..now /\ Above(e.origin.price, now, now - 1)
  BY Clock DEF Above
<1>8. Above(points[k+1].price, points[k+1].index + 1, now - 1)
  <2>1. \A d \in (points[k+1].index + 1)..now : ~(Bar(d).low < points[k+1].price)
    BY <1>2, <1>5 DEF Broken
  <2>2. \A d \in 0..(now - 1) : Bar(d).low \in Int
    BY <1>7, BarTyped
  <2>3. ASSUME NEW d \in 0..(now - 1), d >= points[k+1].index + 1
        PROVE  Bar(d).low >= points[k+1].price
    <3>1. d \in (points[k+1].index + 1)..now
      BY <1>4, <1>7, <2>3
    <3> QED
      BY <1>4, <2>1, <2>2, <3>1
  <2> QED
    BY <2>3 DEF Above
<1>9. Recovers(e, now - 1)
  <2>1. e.structure[2] = points[k+1] /\ e.structure[3] = points[k+2]
    BY <1>1, TypedHolds, ThreePoints
  <2>2. e.structure[3].index <= e.impulse.index
    BY <1>1, <1>4, <2>1
  <2> QED
    BY <1>1, <1>8, <2>1, <2>2 DEF Recovers
<1>10. Rising(e, now - 1)
  BY <1>1, <1>6, <1>7, <1>9 DEF Rising
<1> QED
  BY <1>10 DEF e

\* The recovery ends a rise, or starts one.
LEMMA RecoveryRises ==
  ASSUME Typed, Vertices, now >= 0, NEW s \in RisingDays, Sound(s.recovery)
  PROVE  AdvanceRecovery(s) \in RisingDays
<1> DEFINE r == AdvanceRecovery(s)
<1>1. s \in DayType /\ RisesTo(s.cycle, now - 1)
  BY DEF RisingDays
<1>2. r \in DayType /\ (Waits(s, r) \/ Falls(s, r) \/ Rebounds(s, r))
  BY <1>1, AdvanceRecoveryDoes
<1> HIDE DEF r
<1>3. RisesTo(r.cycle, now - 1)
  <2>1. CASE Waits(s, r)
    BY <1>1, <2>1 DEF Waits
  <2>2. CASE Falls(s, r)
    BY <2>2 DEF Falls, RisesTo
  <2>3. CASE Rebounds(s, r)
    BY <2>3, SpecialRises DEF Rebounds, RisesTo
  <2> QED
    BY <1>2, <2>1, <2>2, <2>3
<1> QED
  BY <1>2, <1>3 DEF RisingDays, r

\* A proof gives the rise its counter low.
LEMMA AlternationRises ==
  ASSUME Typed, Vertices, NEW s \in RisingDays, NEW r \in AdvanceAlternation(s)
  PROVE  r \in RisingDays
<1> DEFINE c == s.cycle
           e == r.cycle
<1>1. s \in DayType /\ RisesTo(c, now - 1)
  BY DEF RisingDays
<1>2. r \in DayType /\ (r = s \/ e = NoCycle \/ Proves(s, r))
  BY <1>1, AdvanceAlternationDoes
<1>3. CASE r = s \/ e = NoCycle
  BY <1>1, <1>2, <1>3 DEF RisingDays, RisesTo
<1>4. CASE Proves(s, r)
  <2>1. /\ c \in CycleType /\ IsUp(c) /\ c # NoCycle /\ KeyOf(c) \in ToSet(points)
        /\ \E p : Proof(c, p) /\ e = Proven(c, p)
    BY <1>4 DEF Proves, NeedsConfirmation
  <2> HIDE DEF c, e
  <2>2. PICK p : Proof(c, p) /\ e = Proven(c, p)
    BY <2>1
  <2>3. /\ e \in CycleShape /\ e.structure[2] = c.origin /\ e.structure[3] = c.impulse
        /\ e.counter = p.low /\ e.alternated = now /\ e.origin = c.origin /\ e.impulse = c.impulse
        /\ e.started = c.started /\ e.evidence = c.evidence /\ e.recovery = c.recovery
    BY <2>1, <2>2, ProvenTyped
  <2>4. Rising(c, now - 1) /\ c \in CycleShape
    BY <1>1, <2>1 DEF RisesTo, CycleType
  <2>5. Follows(c, e)
    <3>1. c.impulse.index \in Int
      BY <2>4 DEF CycleShape, Pivots
    <3> QED
      BY <2>3, <3>1 DEF Follows, Same
  <2>6. e.counter.price >= c.origin.price /\ e.alternated >= now - 1
    <3>1. p.low.price > c.origin.price /\ p.low.price \in Int
      BY <2>2 DEF Proof, ProofType, Pivots
    <3>2. c.origin.price \in Int /\ now \in Int
      BY <2>4, Clock DEF CycleShape, Pivots
    <3> QED
      BY <2>3, <3>1, <3>2
  <2>7. now - 1 \in Int
    BY Clock
  <2>8. Rising(e, now - 1)
    BY <2>3, <2>4, <2>5, <2>6, <2>7, RisingFollows
  <2> QED
    BY <1>2, <2>8 DEF RisingDays, RisesTo, e
<1> QED
  BY <1>2, <1>3, <1>4

\* A cycle whose defence held today rises up to today.
LEMMA HeldRises ==
  ASSUME Typed, now >= 0, NEW c \in CycleShape, IsUp(c), Rising(c, now - 1), Held(c)
  PROVE  Rising(c, now)
<1>1. /\ now \in Int /\ Today.low \in Int /\ c.origin.price \in Int /\ c.counter.price \in Int
      /\ c.alternated \in Int /\ c.started \in Int
  <2>1. now \in 0..now
    BY Clock
  <2> QED
    BY <2>1, BarTyped DEF Today, CycleShape, Pivots
<1>2. IF c.counter # NoPivot THEN Today.low >= c.counter.price ELSE Today.low >= c.origin.price
  BY <1>1 DEF Held, Beyond, Defence
<1>3. Today.low >= c.origin.price
  BY <1>1, <1>2 DEF Rising
<1>4. \A d \in 0..now : d \in 0..(now - 1) \/ d = now
  BY <1>1
<1>5. ASSUME NEW price, NEW from, Above(price, from, now - 1), Today.low >= price
      PROVE  Above(price, from, now)
  BY <1>4, <1>5 DEF Above, Today
<1>6. Above(c.origin.price, c.started, now)
  BY <1>3, <1>5 DEF Rising
<1>7. c.recovery => Recovers(c, now)
  BY <1>3, <1>5 DEF Rising, Recovers
<1>8. c.counter # NoPivot => Above(c.counter.price, c.alternated + 1, now)
  BY <1>2, <1>5 DEF Rising
<1> QED
  BY <1>6, <1>7, <1>8 DEF Rising

\* A stage of a rise that keeps its origin, its impulse and its structure.
LEMMA KeptFollows ==
  ASSUME NEW c \in CycleType, NEW e \in CycleShape, IsUp(c), NEW upto \in Int, Rising(c, upto),
         e.origin = c.origin, e.started = c.started, e.recovery = c.recovery, e.impulse = c.impulse,
         e.structure \in {c.structure, KeptStructure(c)},
         \A f \in c.evidence : f.title = "BullFlip" => f \in e.evidence
  PROVE  Follows(c, e)
<1>1. c.recovery => KeptStructure(c)[2] = c.structure[2] /\ KeptStructure(c)[3] = c.structure[3]
  BY KeptTyped
<1>2. c.recovery => c.structure[2] = c.origin /\ c.structure[3].index <= c.impulse.index
  BY DEF Rising, Recovers
<1> QED
  BY <1>1, <1>2 DEF Follows, Same

\* The price of the day, after which the defence holds today too.
LEMMA PriceRises ==
  ASSUME Typed, now >= 0, NEW s \in RisingDays
  PROVE  Price(s) \in DayType /\ RisesTo(Price(s).cycle, now)
<1> DEFINE r == Price(s)
           c == s.cycle
           e == r.cycle
<1>1. s \in DayType /\ RisesTo(c, now - 1)
  BY DEF RisingDays
<1>2. /\ r \in DayType
      /\ \/ r = s /\ (c # NoCycle => Held(c))
         \/ PriceEnds(s, r) \/ PriceReturns(s, r) \/ PriceConfirms(s, r)
  BY <1>1, PriceDoes
<1>3. e \in CycleOrNone /\ now - 1 \in Int /\ now \in Int /\ c \in CycleOrNone
  BY <1>1, <1>2, Clock DEF DayType
<1> HIDE DEF r
<1>4. c # NoCycle => c \in CycleShape /\ c \in CycleType
  BY <1>3, CycleIsOne
<1>5. e # NoCycle => e \in CycleShape
  BY <1>3, CycleIsOne
<1>6. c \in CycleType => c # NoCycle
  BY CycleIsOne DEF CycleOrNone
<1>7. SUFFICES ASSUME e # NoCycle, IsUp(e) PROVE Rising(e, now)
  BY <1>2 DEF RisesTo, e, r
<1>8. CASE r = s /\ (c # NoCycle => Held(c))
  BY <1>1, <1>4, <1>7, <1>8, HeldRises DEF RisesTo
<1>9. CASE PriceEnds(s, r)
  BY <1>7, <1>9 DEF PriceEnds
<1>10. CASE PriceReturns(s, r)
  <2>1. /\ c \in CycleType /\ (IsUp(c) => ~(Today.low < c.origin.price)) /\ e = Again(c)
    BY <1>10 DEF PriceReturns
  <2> HIDE DEF c, e
  <2>2. /\ e \in CycleShape /\ IsUp(e) = IsUp(c) /\ e.counter = NoPivot /\ e.structure = KeptStructure(c)
        /\ e.origin = c.origin /\ e.impulse = c.impulse
        /\ e.started = c.started /\ e.recovery = c.recovery
        /\ e.evidence = IF c.recovery THEN c.evidence
                        ELSE {f \in c.evidence : f.title = FlipTitle(IsUp(c))}
    BY <2>1, AgainTyped
  <2>3. IsUp(c) /\ Rising(c, now - 1) /\ c \in CycleShape
    BY <1>1, <1>4, <1>6, <1>7, <2>1, <2>2 DEF RisesTo
  <2>4. \A f \in c.evidence : f.title = "BullFlip" => f \in e.evidence
    BY <2>2, <2>3 DEF FlipTitle
  <2>5. Follows(c, e)
    BY <1>3, <2>1, <2>2, <2>3, <2>4, KeptFollows
  <2>6. Rising(e, now - 1)
    BY <1>3, <2>2, <2>3, <2>5, RisingFollows
  <2>7. Held(e)
    BY <2>1, <2>2, <2>3 DEF Held, Beyond, Defence
  <2> QED
    BY <1>7, <2>2, <2>6, <2>7, HeldRises
<1>11. CASE PriceConfirms(s, r)
  <2>1. c \in CycleType /\ Held(c) /\ e = [c EXCEPT !.state = ConfirmedState(IsUp(c))]
    BY <1>11 DEF PriceConfirms
  <2>2. c \in CycleShape
    BY <1>4, <1>6, <2>1
  <2> HIDE DEF c, e
  <2>3. /\ e.origin = c.origin /\ e.impulse = c.impulse /\ e.counter = c.counter /\ e.alternated = c.alternated
        /\ e.started = c.started /\ e.recovery = c.recovery /\ e.evidence = c.evidence
        /\ e.structure = c.structure /\ e.state = ConfirmedState(IsUp(c))
    BY <2>1, <2>2 DEF CycleShape
  <2>4. IsUp(c)
    BY <1>7, <2>3 DEF ConfirmedState, IsUp
  <2>5. Rising(c, now - 1) /\ e \in CycleShape
    BY <1>1, <1>5, <1>6, <1>7, <2>1, <2>4 DEF RisesTo
  <2>6. Follows(c, e)
    BY <1>3, <2>1, <2>3, <2>4, <2>5, KeptFollows
  <2>7. Rising(e, now - 1)
    BY <1>3, <2>2, <2>3, <2>5, <2>6, RisingFollows
  <2>8. Held(e)
    BY <1>7, <2>1, <2>3, <2>4 DEF Held, Defence
  <2> QED
    BY <1>7, <2>5, <2>7, <2>8, HeldRises
<1> QED
  BY <1>2, <1>8, <1>9, <1>10, <1>11

\* At the end of the day the rise rises up to today.
LEMMA AdvancedRises ==
  ASSUME Base, Facts, present, now >= 0, RisesTo(cycle, now - 1), NEW revised \in BOOLEAN,
         NEW s \in Advanced(revised)
  PROVE  s \in DayType /\ RisesTo(s.cycle, now)
<1>0. Typed /\ Vertices /\ Sound(recovery)
  BY DEF Base
<1> DEFINE k == Checked(revised)
<1>1. k \in StandingDays /\ k \in SoundDays
  BY <1>0, CheckedRises, CheckedSound
<1>2. PICK new \in NewFacts : \E w \in AdvanceAlternation(AdvanceRecovery(ConsumeFacts(k, new))) :
            s = SpendSeed(BreakStructure(Price(w)))
  BY AdvancedStages
<1> DEFINE u == ConsumeFacts(k, new)
<1> HIDE DEF k
<1>3. u \in StandingDays
  <2>1. \A b \in StandingDays : \A f \in facts \ seen : Taken(TRUE, b, f) \in StandingDays
    BY TakeRises
  <2> HIDE DEF StandingDays
  <2> QED
    BY <1>0, <1>1, <2>1, FactsStay
<1>4. u \in SoundDays
  BY <1>0, <1>1, ConsumedSound
<1>5. PICK w \in AdvanceAlternation(AdvanceRecovery(u)) : s = SpendSeed(BreakStructure(Price(w)))
  BY <1>2
<1> HIDE DEF u
<1> DEFINE v == AdvanceRecovery(u)
           x == Price(w)
           y == BreakStructure(x)
<1>6. u \in RisingDays /\ Sound(u.recovery)
  BY <1>3, <1>4 DEF StandingDays, SoundDays
<1>7. v \in RisingDays
  BY <1>0, <1>6, RecoveryRises
<1>8. w \in RisingDays
  <2> HIDE DEF v
  <2>1. w \in AdvanceAlternation(v)
    BY <1>5 DEF v
  <2> QED
    BY <1>0, <1>7, <2>1, AlternationRises
<1>9. x \in DayType /\ RisesTo(x.cycle, now)
  BY <1>0, <1>8, PriceRises
<1> HIDE DEF x
<1>10. y \in DayType /\ y.cycle = x.cycle
  BY <1>0, <1>9, BreakStructureDoes
<1> HIDE DEF y
<1>11. SpendSeed(y) \in DayType /\ SpendSeed(y).cycle = y.cycle
  BY <1>10, SpendSeedDoes
<1>12. s = SpendSeed(y)
  BY <1>5 DEF x, y
<1> QED
  BY <1>9, <1>10, <1>11, <1>12

\* What a rise rests on stays true as the days pass.
LEMMA RisingStays ==
  ASSUME Typed, NEW c \in CycleShape, NEW u \in Int, u <= now, Rising(c, u), now' \in Int,
         now <= now',
         \A d \in 1..(now + 1) : bars'[d] = bars[d]
  PROVE  Rising(c, u)'
<1>1. \A d \in 0..now : Bar(d)' = Bar(d)
  BY BarsStay
<1>2. now \in Int /\ c.started \in 0..now
  BY Clock DEF Rising
<1>3. (\A d \in 0..u : Bar(d)' = Bar(d)) /\ (\A d \in 0..(c.started - 1) : Bar(d)' = Bar(d))
  <2>1. (\A d \in 0..u : d \in 0..now) /\ (\A d \in 0..(c.started - 1) : d \in 0..now)
    BY <1>2
  <2> QED
    BY <1>1, <2>1
<1>4. ASSUME NEW price, NEW from, Above(price, from, u)
      PROVE  \A d \in 0..u : d >= from => Bar(d)'.low >= price
  BY <1>3, <1>4 DEF Above
<1>5. c.recovery => /\ \A d \in 0..u : d >= c.origin.index + 1 => Bar(d)'.low >= c.origin.price
                    /\ c.structure[2] = c.origin /\ c.structure[3].index <= c.impulse.index
  BY <1>4 DEF Rising, Recovers
<1>6. ~c.recovery => /\ \/ c.impulse.index >= c.started
                        \/ \E f \in c.evidence : f.title = "BullFlip" /\ f.origin = c.origin /\ Same(f.point, c.impulse)
                     /\ \A d \in 0..(c.started - 1) : d > c.impulse.index => Bar(d)'.high <= c.impulse.price
  BY <1>3 DEF Rising, Attacks
<1>7. c.counter # NoPivot => /\ c.counter.price >= c.origin.price
                             /\ \A d \in 0..u : d >= c.alternated + 1 => Bar(d)'.low >= c.counter.price
  BY <1>4 DEF Rising
<1>8. \A d \in 0..u : d >= c.started => Bar(d)'.low >= c.origin.price
  BY <1>4 DEF Rising
<1>9. 0 <= c.origin.index /\ c.origin.index < c.impulse.index /\ c.started \in 0..now'
  <2>1. c.started \in 0..now'
    BY <1>2
  <2> QED
    BY <2>1 DEF Rising
<1> QED
  BY <1>5, <1>6, <1>7, <1>8, <1>9 DEF Rising, Recovers, Attacks, Above

\* Starting the search anew changes nothing a rise rests on.
LEMMA ResumeRises ==
  ASSUME Typed, NEW c \in CycleOrNone, RisesTo(c, now)
  PROVE  RisesTo(ResumeSearch(c), now)
<1> DEFINE e == ResumeSearch(c)
<1>1. \/ e = c
      \/ c \in CycleType /\ IsUp(c) /\ e = [c EXCEPT !.closed = now]
  BY ResumeTyped
<1>2. e \in CycleOrNone /\ now \in Int
  BY ResumeTyped, Clock
<1> HIDE DEF e
<1>3. CASE e # c /\ e # NoCycle
  <2>1. c \in CycleType /\ IsUp(c) /\ e = [c EXCEPT !.closed = now] /\ c # NoCycle /\ c \in CycleShape /\ e \in CycleShape
    BY <1>1, <1>2, <1>3, CycleIsOne DEF CycleType, CycleOrNone
  <2>2. /\ e.origin = c.origin /\ e.impulse = c.impulse /\ e.counter = c.counter /\ e.alternated = c.alternated
        /\ e.started = c.started /\ e.recovery = c.recovery /\ e.evidence = c.evidence
        /\ e.structure = c.structure
    BY <2>1 DEF CycleShape
  <2>3. Rising(c, now)
    BY <2>1 DEF RisesTo
  <2>4. Follows(c, e)
    BY <1>2, <2>1, <2>2, <2>3, KeptFollows
  <2>5. Rising(e, now)
    BY <1>2, <2>1, <2>2, <2>3, <2>4, RisingFollows
  <2> QED
    BY <2>5 DEF RisesTo, e
<1> QED
  BY <1>1, <1>3 DEF RisesTo, e

\* The rise of a path, up to the last day that was advanced (TLC: Rising).
RiseStands == RisesTo(cycle, Done)

\* A new bar has still to be held against the defence.
LEMMA MarketDayRise ==
  ASSUME Base, RiseStands, MarketDay, Quiet
  PROVE  RiseStands'
<1>1. Typed
  BY DEF Base
<1>2. /\ now' = now + 1 /\ phase = "night" /\ phase' = "geometry" /\ \A d \in 1..(now + 1) : bars'[d] = bars[d]
      /\ now \in Int
  BY <1>1, MarketDayDoes, Clock
<1>3. cycle' = cycle /\ cycle \in CycleOrNone
  BY <1>1, QuietKeeps DEF Typed
<1>4. PICK u \in Int : u = now
  BY <1>2
<1>5. PICK c \in CycleOrNone : c = cycle
  BY <1>3
<1>6. Done = u /\ Done' = u /\ cycle' = c
  BY <1>2, <1>3, <1>4, <1>5 DEF Done
<1>7. c # NoCycle => c \in CycleShape
  BY CycleIsOne
<1>8. c # NoCycle /\ IsUp(c) => Rising(c, u)'
  <2>1. c # NoCycle /\ IsUp(c) => Rising(c, u)
    BY <1>5, <1>6 DEF RiseStands, RisesTo
  <2>2. u <= now /\ now' \in Int /\ now <= now'
    BY <1>2, <1>4
  <2> QED
    BY <1>1, <1>2, <1>7, <2>1, <2>2, RisingStays
<1> QED
  BY <1>6, <1>8 DEF RiseStands, RisesTo, IsUp, Rising, Recovers, Attacks, Above

\* Every step keeps what the rise rests on.
LEMMA RiseKept ==
  ASSUME Base, Facts, RiseStands, [Next]_vars
  PROVE  RiseStands'
<1>1. Typed /\ Vertices
  BY DEF Base
<1>2. CASE MarketDay /\ Quiet
  BY <1>2, MarketDayRise
<1>3. CASE Redraw /\ Quiet
  <2>1. now' = now /\ bars' = bars /\ phase # "night" /\ phase' # "night" /\ cycle' = cycle
    BY <1>1, <1>3, RedrawDoes, QuietKeeps
  <2>2. Done' = Done
    BY <2>1 DEF Done
  <2> QED
    BY <2>1, <2>2 DEF RiseStands, RisesTo, IsUp, Rising, Recovers, Attacks, Above, Bar
<1>4. CASE AdvanceLifecycle
  <2>1. PICK revised \in BOOLEAN, completed \in BOOLEAN, bear \in {<<>>, <<SourceBear>>} :
        \E s \in Advanced(revised) :
          Advances(s, Settled(Gate(Book, Keys(completed)), s.events \o bear))
    BY <1>4, AdvanceDoes
  <2>2. PICK s \in Advanced(revised) :
          Advances(s, Settled(Gate(Book, Keys(completed)), s.events \o bear))
    BY <2>1
  <2> DEFINE b == Settled(Gate(Book, Keys(completed)), s.events \o bear)
  <2> HIDE DEF b
  <2>3. Advances(s, b)
    BY <2>2 DEF b
  <2>4. /\ now >= 0 /\ present /\ phase = "close" /\ phase' = "night" /\ now' = now /\ bars' = bars
        /\ cycle' = s.cycle \/ cycle' = ResumeSearch(s.cycle)
    BY <2>3 DEF Advances
  <2>5. Done = now - 1 /\ Done' = now
    BY <2>4 DEF Done
  <2>6. s \in DayType /\ RisesTo(s.cycle, now)
    BY <2>4, <2>5, AdvancedRises DEF RiseStands
  <2>7. s.cycle \in CycleOrNone
    BY <2>6 DEF DayType
  <2>8. RisesTo(cycle', now)
    BY <1>1, <2>4, <2>6, <2>7, ResumeRises
  <2> QED
    BY <2>4, <2>5, <2>8 DEF RiseStands, RisesTo, IsUp, Rising, Recovers, Attacks, Above, Bar
<1>5. CASE ClosePath
  BY <1>5, ClosePathDoes DEF RiseStands, RisesTo
<1>6. CASE UNCHANGED vars
  BY <1>6 DEF vars, marketVars, lifecycleVars, RiseStands, RisesTo, IsUp, Rising, Recovers, Attacks,
     Above,
              Bar, Done
<1> QED
  BY <1>2, <1>3, <1>4, <1>5, <1>6 DEF Next

\* It holds in every state.
LEMMA RiseHolds == Spec => []RiseStands
<1>1. Init => RiseStands
  BY DEF Init, RiseStands, RisesTo
<1>2. Base /\ Facts /\ RiseStands /\ [Next]_vars => RiseStands'
  BY RiseKept
<1> QED
  BY <1>1, <1>2, BaseHolds, FactsHold, PTL DEF Spec

\* No bar of a rising cycle ever fell below its origin, nor below its counter low once
\* it alternated (trend_lifecycle.py, _price).
THEOREM DefenceHoldsAlways == Spec => []DefenceHolds
<1>1. ASSUME Base, RiseStands PROVE DefenceHolds
  <2>1. SUFFICES ASSUME cycle # NoCycle, IsUp(cycle), NEW d \in cycle.started..Done
                 PROVE  /\ Bar(d).low >= cycle.origin.price
                        /\ cycle.counter # NoPivot /\ d > cycle.alternated => Bar(d).low >= cycle.counter.price
    BY DEF DefenceHolds
  <2>2. cycle \in CycleShape /\ now \in Int /\ Done \in Int
    BY <1>1, <2>1, CycleIsOne, Clock DEF Base, Typed, Done
  <2>3. Rising(cycle, Done)
    BY <1>1, <2>1 DEF RiseStands, RisesTo
  <2>4. cycle.started \in 0..now /\ cycle.alternated \in Int /\ cycle.started \in Int
    BY <2>2, <2>3 DEF Rising, CycleShape
  <2>5. d \in 0..Done /\ d >= cycle.started /\ (d > cycle.alternated => d >= cycle.alternated + 1)
    BY <2>2, <2>4
  <2> QED
    BY <2>3, <2>5 DEF Rising, Above
<1> QED
  BY <1>1, BaseHolds, RiseHolds, PTL

-----------------------------------------------------------------------------
(* What a cycle rests on is drawn at night; its impulse moves on with a fact. *)

\* Of a recovered rise the impulse is that of the structure, or a fact moved it.
Anchored(c) ==
  c # NoCycle /\ c.recovery =>
    c.impulse.index <= c.structure[3].index \/ \E f \in c.evidence : c.impulse.index <= f.point.index

Standing(c) == c # NoCycle => Stands(c)
Seeded(r) == r = NoRecovery \/ r.seed \in facts

DrawnDays == {t \in DayType : Standing(t.cycle) /\ Anchored(t.cycle) /\ Seeded(t.recovery)}

\* The kept part of a structure is a part of it.
LEMMA KeptPart ==
  ASSUME NEW c \in CycleType
  PROVE  ToSet(KeptStructure(c)) \subseteq ToSet(c.structure)
<1>1. CASE c.recovery
  <2>1. /\ KeptStructure(c) \in Seq(Pivots) /\ Len(KeptStructure(c)) = 3
        /\ \A i \in 1..3 : KeptStructure(c)[i] = c.structure[i]
    BY <1>1, KeptTyped
  <2>2. c.structure \in Seq(Pivots) /\ Len(c.structure) >= 3
    BY <1>1 DEF CycleType, CycleShape
  <2>3. DOMAIN KeptStructure(c) = 1..3 /\ \A i \in 1..3 : i \in DOMAIN c.structure
    BY <2>1, <2>2
  <2> QED
    BY <2>1, <2>3 DEF ToSet
<1>2. CASE ~c.recovery
  <2>1. KeptStructure(c) = <<>>
    BY <1>2, KeptTyped
  <2>2. DOMAIN KeptStructure(c) = {}
    BY <2>1
  <2> QED
    BY <2>2 DEF ToSet
<1> QED
  BY <1>1, <1>2

\* A cycle goes on from the same impulse, with its structure or the part of it that is kept.
LEMMA AnchoredKept ==
  ASSUME NEW c \in CycleType, NEW e, Anchored(c), e.recovery = c.recovery, e.impulse = c.impulse,
         c.recovery => c.evidence \subseteq e.evidence,
         e.structure \in {c.structure, KeptStructure(c)}
  PROVE  Anchored(e)
<1>1. c # NoCycle
  BY CycleIsOne DEF CycleOrNone
<1>2. SUFFICES ASSUME c.recovery
               PROVE  \/ c.impulse.index <= e.structure[3].index
                      \/ \E f \in e.evidence : c.impulse.index <= f.point.index
  BY DEF Anchored
<1>3. e.structure[3] = c.structure[3]
  BY <1>2, KeptTyped
<1> QED
  BY <1>1, <1>2, <1>3 DEF Anchored

\* A day before its facts.
LEMMA CheckedDrawn ==
  ASSUME Typed, Anchored(cycle), NEW revised \in BOOLEAN
  PROVE  Checked(revised) \in DrawnDays
<1> DEFINE a == ExpireGap(Start)
           b == ContinueImpulse(a)
           c == CheckEvidence(b, revised)
           d == CheckSeed(c)
<1>1. /\ a \in DayType
      /\ \/ a = Start
         \/ /\ Start.cycle \in CycleType
            /\ a.cycle = [Start.cycle EXCEPT !.state = "BULL_FLIP", !.counter = NoPivot, !.alternated = Never,
                                 !.source = {}, !.gap = NoGap, !.structure = KeptStructure(Start.cycle)]
  BY StartTyped, ExpireGapDoes
<1>2. Anchored(a.cycle)
  <2>1. Start.cycle = cycle
    BY StartTyped
  <2> HIDE DEF a
  <2>2. CASE a = Start
    BY <2>1, <2>2
  <2>3. CASE a # Start
    <3>1. PICK x \in CycleType : x = cycle
      BY <1>1, <2>1, <2>3
    <3>2. x \in CycleShape /\ a.cycle = [x EXCEPT !.state = "BULL_FLIP", !.counter = NoPivot,
               !.alternated = Never, !.source = {}, !.gap = NoGap, !.structure = KeptStructure(x)]
      BY <1>1, <2>1, <2>3, <3>1 DEF CycleType
    <3>3. /\ a.cycle.structure = KeptStructure(x) /\ a.cycle.recovery = x.recovery
          /\ a.cycle.impulse = x.impulse /\ a.cycle.evidence = x.evidence
      BY <3>2 DEF CycleShape
    <3> QED
      BY <3>1, <3>3, AnchoredKept
  <2> QED
    BY <2>2, <2>3
<1> HIDE DEF a
<1>3. /\ b \in DayType
      /\ \/ b = a
         \/ /\ a.cycle \in CycleType
            /\ \E k \in Extension(a.cycle) :
                  b.cycle = [a.cycle EXCEPT !.impulse = points[k+2], !.structure = SubSeq(points, k, k + 2)]
  BY <1>1, ContinueImpulseDoes
<1> HIDE DEF b
<1>4. Anchored(b.cycle)
  <2>1. CASE b = a
    BY <1>2, <2>1
  <2>2. CASE b # a
    <3>1. PICK k \in Extension(a.cycle) :
              b.cycle = [a.cycle EXCEPT !.impulse = points[k+2], !.structure = SubSeq(points, k, k + 2)]
      BY <1>3, <2>2
    <3>2. k \in 1..(Len(points) - 2) /\ points \in Seq(Pivots) /\ a.cycle \in CycleShape
      BY <1>3, <2>2 DEF Extension, Typed, CycleType
    <3>3. b.cycle.impulse = points[k+2] /\ b.cycle.structure = SubSeq(points, k, k + 2)
      BY <3>1, <3>2 DEF CycleShape
    <3>4. b.cycle.structure[3] = points[k+2] /\ points[k+2].index \in Int
      BY <3>2, <3>3, ThreePoints DEF Pivots
    <3>5. b.cycle.impulse.index <= b.cycle.structure[3].index
      <4>1. PICK v \in Pivots : v = points[k+2]
        BY <3>2, PathTyped, PlaceTyped
      <4>2. b.cycle.impulse = v /\ b.cycle.structure[3] = v /\ v.index \in Int
        BY <3>3, <3>4, <4>1
      <4> QED
        BY <4>2
    <3> QED
      BY <3>5 DEF Anchored
  <2> QED
    BY <2>1, <2>2
<1>5. c \in DayType /\ ((c = b /\ Standing(b.cycle)) \/ c.cycle = NoCycle)
  BY <1>3, CheckEvidenceDoes DEF Standing
<1> HIDE DEF c
<1>6. Standing(c.cycle) /\ Anchored(c.cycle)
  BY <1>4, <1>5 DEF Standing, Anchored
<1>7. d \in DayType /\ d.cycle = c.cycle /\ Seeded(d.recovery)
  BY <1>5, CheckSeedDoes DEF Seeded
<1> HIDE DEF d
<1>8. d \in DrawnDays
  BY <1>6, <1>7 DEF DrawnDays
<1> QED
  BY <1>8 DEF Checked, a, b, c, d

\* What a new fact makes of it.
LEMMA TakeDrawn ==
  ASSUME Typed, NEW s \in DrawnDays, NEW f \in facts
  PROVE  Taken(TRUE, s, f) \in DrawnDays
<1> DEFINE r == Taken(TRUE, s, f)
           c == s.cycle
           e == r.cycle
<1>0. f \in FactType /\ f.point.index \in Int
  BY DEF Typed, FactType, Pivots
<1>1. s \in DayType /\ Standing(c) /\ Anchored(c) /\ Seeded(s.recovery)
  BY DEF DrawnDays
<1>2. /\ r \in DayType
      /\ \/ r.recovery = s.recovery
         \/ r.recovery = NoRecovery
         \/ r.recovery = [NoRecovery EXCEPT !.seed = f]
      /\ (c = e /\ r.events = s.events) \/ Consumed(s, r, f)
  BY <1>0, <1>1, TakeDoes
<1> HIDE DEF r
<1>3. Seeded(r.recovery)
  BY <1>1, <1>2 DEF Seeded, NoRecovery
<1>4. SUFFICES Standing(e) /\ Anchored(e)
  BY <1>2, <1>3 DEF DrawnDays, e, r
<1>5. CASE e = c
  BY <1>1, <1>5
<1>6. CASE FlipStarts(s, r, f, Rises(f))
  <2>1. e = NewCycle(Rises(f), f.origin, f.point, {f})
    BY <1>6 DEF FlipStarts
  <2> HIDE DEF e
  <2>2. e.structure = <<>> /\ e.evidence = {f} /\ e.recovery = FALSE
    BY <2>1 DEF NewCycle
  <2>3. ToSet(e.structure) = {}
    <3>1. DOMAIN e.structure = {}
      BY <2>2
    <3> QED
      BY <3>1 DEF ToSet
  <2> QED
    BY <2>2, <2>3 DEF Standing, Stands, Anchored
<1>7. CASE FlipMoves(s, r, f, Rises(f))
  <2>1. c \in CycleType /\ c \in CycleShape /\ c # NoCycle
        /\ e = [c EXCEPT !.impulse = f.point, !.evidence = c.evidence \cup {f}]
    BY <1>7, CycleIsOne DEF FlipMoves, CycleType, CycleOrNone
  <2> HIDE DEF e, c
  <2>2. /\ e.structure = c.structure /\ e.impulse = f.point /\ e.recovery = c.recovery
        /\ e.evidence = c.evidence \cup {f}
    BY <2>1 DEF CycleShape
  <2> QED
    BY <1>0, <1>1, <2>1, <2>2 DEF Standing, Stands, Anchored
<1>8. CASE Alternates(s, r, f, Rises(f))
  <2>1. /\ c \in CycleType /\ c \in CycleShape /\ c # NoCycle /\ f.point.index > f.impulse.index
        /\ e = [c EXCEPT !.state = AlternationState(Rises(f)), !.impulse = f.impulse,
                         !.counter = f.point, !.alternated = now, !.evidence = c.evidence \cup {f},
                         !.gap = NoGap, !.source = {}, !.closed = Never]
    BY <1>8, CycleIsOne DEF Alternates, Accepts, CycleType, CycleOrNone
  <2>2. f.impulse.index \in Int
    BY <1>0 DEF FactType, Pivots
  <2> HIDE DEF e, c
  <2>3. /\ e.structure = c.structure /\ e.impulse = f.impulse /\ e.recovery = c.recovery
        /\ e.evidence = c.evidence \cup {f}
    BY <2>1 DEF CycleShape
  <2> QED
    BY <1>0, <1>1, <2>1, <2>2, <2>3 DEF Standing, Stands, Anchored
<1> QED
  BY <1>2, <1>5, <1>6, <1>7, <1>8 DEF Consumed

\* The recovery's structure lies on the path, and its seed is known.
LEMMA RecoveryDrawn ==
  ASSUME Typed, Vertices, now >= 0, NEW s \in DrawnDays, Sound(s.recovery)
  PROVE  AdvanceRecovery(s) \in DrawnDays
<1> DEFINE r == AdvanceRecovery(s)
<1>1. s \in DayType /\ Standing(s.cycle) /\ Anchored(s.cycle) /\ Seeded(s.recovery)
  BY DEF DrawnDays
<1>2. r \in DayType /\ (Waits(s, r) \/ Falls(s, r) \/ Rebounds(s, r))
  BY <1>1, AdvanceRecoveryDoes
<1> HIDE DEF r
<1>3. CASE Waits(s, r)
  <2>1. /\ r.cycle = s.cycle
        /\ \/ r.recovery = NoRecovery
           \/ s.recovery # NoRecovery /\ r.recovery.seed = s.recovery.seed
    BY <1>3 DEF Waits
  <2>2. Seeded(r.recovery)
    BY <1>1, <2>1 DEF Seeded
  <2> QED
    BY <1>1, <1>2, <2>1, <2>2 DEF DrawnDays, r
<1>4. CASE Falls(s, r)
  <2>1. /\ r.cycle = s.cycle \/ r.cycle = NoCycle
        /\ s.recovery # NoRecovery /\ r.recovery.seed = s.recovery.seed
    BY <1>4 DEF Falls
  <2>2. Seeded(r.recovery)
    BY <1>1, <2>1 DEF Seeded
  <2>3. Standing(r.cycle) /\ Anchored(r.cycle)
    BY <1>1, <2>1 DEF Standing, Anchored
  <2> QED
    BY <1>2, <2>2, <2>3 DEF DrawnDays, r
<1>5. CASE Rebounds(s, r)
  <2>1. s.recovery # NoRecovery /\ r.recovery = NoRecovery
    BY <1>5 DEF Rebounds, NoRecovery
  <2>2. PICK q \in RecoveryType : \E k \in 1..(Len(points) - 2) :
              r.cycle = SpecialCycle(q, k) /\ q.seed = s.recovery.seed
    BY <1>5 DEF Rebounds
  <2>3. PICK k \in 1..(Len(points) - 2) : r.cycle = SpecialCycle(q, k)
    BY <2>2
  <2> DEFINE e == r.cycle
             p == e.structure
  <2>4. /\ p = SubSeq(points, k, k + 2) /\ e.impulse = points[k+2] /\ e.evidence = {q.seed}
        /\ points \in Seq(Pivots)
    <3>1. /\ SpecialCycle(q, k).structure = SubSeq(points, k, k + 2)
          /\ SpecialCycle(q, k).impulse = points[k+2] /\ SpecialCycle(q, k).evidence = {q.seed}
      BY SpecialTyped
    <3>2. points \in Seq(Pivots)
      BY DEF Typed
    <3> QED
      BY <2>3, <3>1, <3>2
  <2> HIDE DEF e
  <2>5. /\ p \in Seq(Pivots) /\ Len(p) = 3 /\ p[1] = points[k] /\ p[2] = points[k+1]
        /\ p[3] = points[k+2] /\ points[k+2].index \in Int
    BY <2>4, ThreePoints DEF Pivots
  <2>6. k \in 1..Len(points) /\ k + 1 \in 1..Len(points) /\ k + 2 \in 1..Len(points)
    BY PathTyped
  <2>7. p[1] \in ToSet(points) /\ p[2] \in ToSet(points) /\ p[3] \in ToSet(points)
    BY <2>5, <2>6, PlaceTyped
  <2> HIDE DEF p
  <2>8. DOMAIN p = 1..3 /\ \A i \in 1..3 : i = 1 \/ i = 2 \/ i = 3
    BY <2>5
  <2>9. ToSet(p) \subseteq ToSet(points)
    <3>1. \A i \in DOMAIN p : p[i] \in ToSet(points)
      BY <2>7, <2>8
    <3>2. ToSet(p) = {p[i] : i \in DOMAIN p}
      BY DEF ToSet
    <3> QED
      BY <3>1, <3>2
  <2>10. q.seed \in facts
    BY <1>1, <2>1, <2>2 DEF Seeded
  <2>11. Standing(e)
    BY <2>4, <2>9, <2>10 DEF Standing, Stands, p
  <2>12. Anchored(e)
    BY <2>4, <2>5 DEF Anchored, p
  <2> QED
    BY <1>2, <2>1, <2>11, <2>12 DEF DrawnDays, Seeded, e, r
<1> QED
  BY <1>2, <1>3, <1>4, <1>5

\* So does that of a proof.
LEMMA AlternationDrawn ==
  ASSUME Typed, Vertices, NEW s \in DrawnDays, NEW r \in AdvanceAlternation(s)
  PROVE  r \in DrawnDays
<1> DEFINE c == s.cycle
           e == r.cycle
<1>1. s \in DayType /\ Standing(c) /\ Anchored(c) /\ Seeded(s.recovery)
  BY DEF DrawnDays
<1>2. r \in DayType /\ r.recovery = s.recovery /\ (r = s \/ e = NoCycle \/ Proves(s, r))
  BY <1>1, AdvanceAlternationDoes
<1>3. CASE r = s \/ e = NoCycle
  BY <1>1, <1>2, <1>3 DEF DrawnDays, Standing, Anchored
<1>4. CASE Proves(s, r)
  <2>1. /\ c \in CycleType /\ IsUp(c) /\ c # NoCycle /\ KeyOf(c) \in ToSet(points)
        /\ c.origin \in ToSet(points) /\ c.impulse \in ToSet(points)
        /\ \E p : Proof(c, p) /\ e = Proven(c, p)
    BY <1>4 DEF Proves, NeedsConfirmation
  <2> HIDE DEF c, e
  <2>2. PICK p : Proof(c, p) /\ e = Proven(c, p)
    BY <2>1
  <2>3. /\ e \in CycleShape /\ e.structure[1] = KeyOf(c) /\ e.structure[2] = c.origin
        /\ e.structure[3] = c.impulse /\ e.evidence = c.evidence /\ e.impulse = c.impulse
        /\ \A i \in 1..Len(e.structure) : i > 3 => e.structure[i] \in ToSet(points)
    BY <2>1, <2>2, ProvenTyped
  <2>4. e.structure \in Seq(Pivots) /\ Len(e.structure) \in Nat /\ DOMAIN e.structure = 1..Len(e.structure)
    BY <2>3 DEF CycleShape
  <2>5. \A i \in 1..Len(e.structure) : i > 3 \/ i = 1 \/ i = 2 \/ i = 3
    BY <2>4
  <2>6. \A i \in DOMAIN e.structure : e.structure[i] \in ToSet(points)
    BY <2>1, <2>3, <2>4, <2>5
  <2>7. ToSet(e.structure) \subseteq ToSet(points)
    <3>1. ToSet(e.structure) = {e.structure[i] : i \in DOMAIN e.structure}
      BY DEF ToSet
    <3> QED
      BY <2>6, <3>1
  <2>8. Standing(e)
    BY <1>1, <2>1, <2>3, <2>7 DEF Standing, Stands
  <2>9. c.impulse.index \in Int
    BY <2>1 DEF CycleType, CycleShape, Pivots
  <2>10. Anchored(e)
    BY <2>3, <2>9 DEF Anchored
  <2> QED
    BY <1>1, <1>2, <2>8, <2>10 DEF DrawnDays, e
<1> QED
  BY <1>2, <1>3, <1>4

\* The price keeps the structure, or a part of it.
LEMMA PriceDrawn ==
  ASSUME Typed, NEW s \in DrawnDays
  PROVE  Price(s) \in DrawnDays
<1> DEFINE r == Price(s)
           c == s.cycle
           e == r.cycle
<1>1. s \in DayType /\ Standing(c) /\ Anchored(c) /\ Seeded(s.recovery)
  BY DEF DrawnDays
<1>2. /\ r \in DayType /\ r.recovery = s.recovery
      /\ r = s \/ PriceEnds(s, r) \/ PriceReturns(s, r) \/ PriceConfirms(s, r)
  BY <1>1, PriceDoes
<1> HIDE DEF r
<1>3. SUFFICES Standing(e) /\ Anchored(e)
  BY <1>1, <1>2 DEF DrawnDays, e, r
<1>4. CASE r = s
  BY <1>1, <1>4
<1>5. CASE PriceEnds(s, r)
  BY <1>5 DEF PriceEnds, Standing, Anchored
<1>6. CASE PriceReturns(s, r)
  <2>1. c \in CycleType /\ c # NoCycle /\ e = Again(c)
    BY <1>6, CycleIsOne DEF PriceReturns, CycleOrNone
  <2> HIDE DEF c, e
  <2>2. /\ e.structure = KeptStructure(c) /\ e.evidence \subseteq c.evidence /\ e.recovery = c.recovery
        /\ e.impulse = c.impulse /\ (c.recovery => e.evidence = c.evidence)
    BY <2>1, AgainTyped
  <2>3. Standing(e)
    BY <1>1, <2>1, <2>2, KeptPart DEF Standing, Stands
  <2>4. Anchored(e)
    BY <1>1, <2>1, <2>2, AnchoredKept
  <2> QED
    BY <2>3, <2>4
<1>7. CASE PriceConfirms(s, r)
  <2>1. /\ c \in CycleType /\ c \in CycleShape /\ c # NoCycle
        /\ e = [c EXCEPT !.state = ConfirmedState(IsUp(c))]
    BY <1>7, CycleIsOne DEF PriceConfirms, CycleType, CycleOrNone
  <2> HIDE DEF c, e
  <2>2. /\ e.structure = c.structure /\ e.evidence = c.evidence /\ e.recovery = c.recovery
        /\ e.impulse = c.impulse
    BY <2>1 DEF CycleShape
  <2>3. Standing(e)
    BY <1>1, <2>1, <2>2 DEF Standing, Stands
  <2>4. Anchored(e)
    BY <1>1, <2>1, <2>2, AnchoredKept
  <2> QED
    BY <2>3, <2>4
<1> QED
  BY <1>2, <1>4, <1>5, <1>6, <1>7

\* At the end of the day the cycle stands.
LEMMA AdvancedDrawn ==
  ASSUME Base, Anchored(cycle), now >= 0, NEW revised \in BOOLEAN, NEW s \in Advanced(revised)
  PROVE  s \in DayType /\ Standing(s.cycle) /\ Anchored(s.cycle)
<1>0. Typed /\ Vertices /\ Sound(recovery)
  BY DEF Base
<1> DEFINE k == Checked(revised)
<1>1. k \in DrawnDays /\ k \in SoundDays
  BY <1>0, CheckedDrawn, CheckedSound
<1>2. PICK new \in NewFacts : \E w \in AdvanceAlternation(AdvanceRecovery(ConsumeFacts(k, new))) :
            s = SpendSeed(BreakStructure(Price(w)))
  BY AdvancedStages
<1> DEFINE u == ConsumeFacts(k, new)
<1> HIDE DEF k
<1>3. u \in DrawnDays
  <2>1. \A b \in DrawnDays : \A f \in facts \ seen : Taken(TRUE, b, f) \in DrawnDays
    BY <1>0, TakeDrawn
  <2> HIDE DEF DrawnDays
  <2> QED
    BY <1>0, <1>1, <2>1, FactsStay
<1>4. u \in SoundDays
  BY <1>0, <1>1, ConsumedSound
<1>5. PICK w \in AdvanceAlternation(AdvanceRecovery(u)) : s = SpendSeed(BreakStructure(Price(w)))
  BY <1>2
<1> HIDE DEF u
<1> DEFINE v == AdvanceRecovery(u)
           x == Price(w)
           y == BreakStructure(x)
<1>6. Sound(u.recovery)
  BY <1>4 DEF SoundDays
<1>7. v \in DrawnDays
  BY <1>0, <1>3, <1>6, RecoveryDrawn
<1>8. w \in DrawnDays
  <2> HIDE DEF v
  <2>1. w \in AdvanceAlternation(v)
    BY <1>5 DEF v
  <2> QED
    BY <1>0, <1>7, <2>1, AlternationDrawn
<1>9. x \in DrawnDays
  BY <1>0, <1>8, PriceDrawn
<1> HIDE DEF x
<1>10. x \in DayType /\ Standing(x.cycle) /\ Anchored(x.cycle)
  BY <1>9 DEF DrawnDays
<1>11. y \in DayType /\ y.cycle = x.cycle
  BY <1>0, <1>10, BreakStructureDoes
<1> HIDE DEF y
<1>12. SpendSeed(y) \in DayType /\ SpendSeed(y).cycle = y.cycle
  BY <1>11, SpendSeedDoes
<1>13. s = SpendSeed(y)
  BY <1>5 DEF x, y
<1> QED
  BY <1>10, <1>11, <1>12, <1>13

\* What a cycle rests on in every state (TLC: Loose): once the path is redrawn for the last
\* time of the day it may have lost a vertex, but then no fact that is left is as late.
LooseOn(c) ==
  c # NoCycle =>
    /\ Anchored(c)
    /\ phase # "close" => Stands(c)
    /\ \A p \in ToSet(c.structure) :
         p \in ToSet(points) \/ \A f \in c.evidence \cap facts : f.point.index < p.index

Loose == LooseOn(cycle)

\* The path keeps all of its vertices, or all but the last.
Regrows(q) ==
  \E n \in 0..Len(points) :
    n >= Len(points) - 1 /\ n <= Len(q) /\ \A k \in 1..n : q[k] = points[k]

\* Every redrawing is such a regrowth.
LEMMA RedrawRegrows ==
  ASSUME Typed, Vertices, Redraw
  PROVE  Regrows(points')
<1>1. points \in Seq(Pivots) /\ Len(points) \in Nat /\ now \in Int
  BY Clock DEF Typed
<1>2. CASE Redraws(points)
  <2>1. PICK v : NewVertex(points, v) /\ points' = Append(points, v)
    BY <1>2 DEF Redraws
  <2>2. v \in Pivots
    BY <2>1 DEF NewVertex
  <2>3. /\ Len(points') = Len(points) + 1
        /\ \A k \in 1..Len(points) : points'[k] = points[k]
    BY <1>1, <2>1, <2>2, Appended
  <2>4. Len(points) \in 0..Len(points) /\ Len(points) >= Len(points) - 1 /\ Len(points) <= Len(points')
    BY <1>1, <2>3
  <2> QED
    BY <2>3, <2>4 DEF Regrows
<1>3. CASE points # <<>> /\ Redraws(Front(points))
  <2>1. PICK v : NewVertex(Front(points), v) /\ points' = Append(Front(points), v)
    BY <1>3 DEF Redraws
  <2>2. v \in Pivots
    BY <2>1 DEF NewVertex
  <2>3. /\ Front(points) \in Seq(Pivots) /\ Len(Front(points)) = Len(points) - 1
        /\ \A i \in 1..(Len(points) - 1) : Front(points)[i] = points[i]
        /\ Len(points) \in 1..Len(points)
    BY <1>1, <1>3, FrontOf
  <2> DEFINE q == Front(points)
  <2> HIDE DEF q
  <2>4. Len(points') = Len(q) + 1 /\ \A k \in 1..Len(q) : points'[k] = q[k]
    BY <2>1, <2>2, <2>3, Appended DEF q
  <2>5. PICK n \in 0..Len(points) : n = Len(points) - 1
    BY <2>3
  <2>6. n <= Len(points') /\ n >= Len(points) - 1 /\ \A k \in 1..n : points'[k] = points[k]
    BY <2>3, <2>4, <2>5 DEF q
  <2> QED
    BY <2>6 DEF Regrows
<1>4. CASE Withdraws
  <2>1. /\ Len(points') = Len(points) - 1
        /\ \A i \in 1..(Len(points) - 1) : points'[i] = points[i]
        /\ Len(points) \in 1..Len(points)
    BY <1>1, <1>4, FrontOf DEF Withdraws
  <2>2. PICK n \in 0..Len(points) : n = Len(points) - 1
    <3>1. PICK l \in Nat : l = Len(points) /\ l \in 1..l
      BY <1>1, <2>1, PathTyped
    <3>2. l - 1 \in 0..l
      BY <3>1
    <3> QED
      BY <3>1, <3>2
  <2>3. n <= Len(points') /\ n >= Len(points) - 1 /\ \A k \in 1..n : points'[k] = points[k]
    BY <2>1, <2>2
  <2> QED
    BY <2>3 DEF Regrows
<1>5. CASE Forgets
  <2>1. points' = points /\ Len(points) \in 0..Len(points) /\ Len(points) >= Len(points) - 1
        /\ Len(points) <= Len(points')
    BY <1>1, <1>5 DEF Forgets
  <2>2. \A k \in 1..Len(points) : points'[k] = points[k]
    BY <2>1
  <2> QED
    BY <2>1, <2>2 DEF Regrows
<1> QED
  BY <1>2, <1>3, <1>4, <1>5, RedrawDoes

\* A vertex that is lost comes after every one that is left.
LEMMA LostIsLast ==
  ASSUME Typed, Vertices, points' \in Seq(Pivots), Regrows(points'),
         NEW p \in ToSet(points), p \notin ToSet(points'), NEW o \in ToSet(points), o \in ToSet(points')
  PROVE  o.index < p.index
<1>1. PICK n \in 0..Len(points) :
        n >= Len(points) - 1 /\ n <= Len(points') /\ \A k \in 1..n : points'[k] = points[k]
  BY DEF Regrows
<1>2. PICK l \in Nat, m \in Nat : l = Len(points) /\ m = Len(points') /\ DOMAIN points' = 1..m
  <2>1. Len(points') \in Nat /\ DOMAIN points' = 1..Len(points')
    OBVIOUS
  <2> QED
    BY <2>1, PathTyped
<1>3. PICK i \in 1..Len(points) : p = points[i]
  BY PointTyped
<1>4. PICK j \in 1..Len(points) : o = points[j]
  BY PointTyped
<1>5. i \notin 1..n
  <2>1. SUFFICES ASSUME i \in 1..n PROVE FALSE
    OBVIOUS
  <2>2. i \in 1..m /\ points'[i] = p
    BY <1>1, <1>2, <1>3, <2>1
  <2> QED
    BY <1>2, <2>2 DEF ToSet
<1>6. i = l /\ i \in 1..l /\ j \in 1..l
  <2>1. i \in 1..l /\ j \in 1..l /\ n \in 0..l /\ n >= l - 1
    BY <1>1, <1>2
  <2> QED
    BY <1>5, <2>1
<1>7. i # j
  BY <1>3, <1>4
<1>8. j < i
  BY <1>6, <1>7
<1> QED
  BY <1>3, <1>4, <1>8 DEF Vertices

\* Before the last redrawing of the day the path only grows.
LEMMA RedrawGrows ==
  ASSUME Typed, Facts, Redraw, phase' # "close"
  PROVE  ToSet(points) \subseteq ToSet(points') /\ facts \subseteq facts'
<1>1. ConfirmVertex
  BY DEF Redraw
<1>2. PICK v : Draw(points, v)
  BY <1>1 DEF ConfirmVertex
<1>3. /\ points' = Append(points, v)
      /\ {g \in facts : g.point \in ToSet(points)} \subseteq facts'
  BY <1>2 DEF Draw
<1> DEFINE S == Pivots \cup {v}
<1>4. points \in Seq(S) /\ v \in S
  BY DEF Typed
<1> HIDE DEF S
<1>5. /\ points' \in Seq(S) /\ Len(points) \in Nat /\ Len(points') = Len(points) + 1
      /\ \A i \in 1..Len(points) : points'[i] = points[i]
  BY <1>3, <1>4, Appended
<1>6. DOMAIN points = 1..Len(points) /\ \A i \in 1..Len(points) : i \in DOMAIN points'
  BY <1>4, <1>5
<1>7. ToSet(points) \subseteq ToSet(points')
  BY <1>5, <1>6 DEF ToSet
<1>8. \A f \in facts : f.point \in ToSet(points)
  BY <1>6 DEF Facts, FactOK, ToSet
<1> QED
  BY <1>3, <1>7, <1>8

\* Every step keeps the cycle so.
LEMMA LooseNext ==
  ASSUME Base, Facts, Facts', Loose, [Next]_vars
  PROVE  Loose'
<1>1. Typed /\ Vertices /\ cycle \in CycleOrNone
  BY DEF Base, Typed
<1>2. CASE MarketDay /\ Quiet
  <2>1. phase = "night" /\ points' = points /\ facts' = facts /\ cycle' = cycle
    BY <1>1, <1>2, MarketDayDoes, QuietKeeps
  <2> QED
    BY <2>1 DEF Loose, LooseOn, Anchored, Stands
<1>3. CASE Redraw /\ Quiet
  <2>1. phase = "geometry" /\ phase' \in {"geometry", "close"} /\ cycle' = cycle
    BY <1>1, <1>3, RedrawDoes, QuietKeeps
  <2>2. SUFFICES ASSUME cycle # NoCycle
                 PROVE  /\ phase' # "close" => Stands(cycle)'
                        /\ \A p \in ToSet(cycle.structure) :
                             \/ p \in ToSet(points')
                             \/ \A f \in cycle.evidence \cap facts' : f.point.index < p.index
    BY <2>1 DEF Loose, LooseOn, Anchored
  <2>3. cycle.evidence \subseteq facts /\ ToSet(cycle.structure) \subseteq ToSet(points)
    BY <2>1, <2>2 DEF Loose, LooseOn, Stands
  <2>4. phase' # "close" => Stands(cycle)'
    BY <1>1, <1>3, <2>1, <2>3, RedrawGrows DEF Stands
  <2>5. ASSUME NEW p \in ToSet(cycle.structure), p \notin ToSet(points'),
               NEW f \in cycle.evidence \cap facts'
        PROVE  f.point.index < p.index
    <3>1. p \in ToSet(points) /\ f \in facts
      BY <2>3, <2>5
    <3>2. Regrows(points') /\ points' \in Seq(Pivots)
      BY <1>1, <1>3, RedrawRegrows, RedrawGeometry
    <3>3. FactOK(points, f) /\ FactOK(points', f)
      BY <3>1, <2>5 DEF Facts, FactOK, FlipOK, AlternationOK
    <3>4. f.point \in ToSet(points) /\ f.point \in ToSet(points')
      <4>1. DOMAIN points = 1..Len(points) /\ DOMAIN points' = 1..Len(points')
        BY <1>1, <3>2, PathTyped
      <4> QED
        BY <3>3, <4>1 DEF FactOK, ToSet
    <3> QED
      BY <1>1, <2>5, <3>1, <3>2, <3>4, LostIsLast
  <2> QED
    BY <2>4, <2>5
<1>4. CASE AdvanceLifecycle
  <2>1. PICK revised \in BOOLEAN, completed \in BOOLEAN, bear \in {<<>>, <<SourceBear>>} :
        \E s \in Advanced(revised) :
          Advances(s, Settled(Gate(Book, Keys(completed)), s.events \o bear))
    BY <1>4, AdvanceDoes
  <2>2. PICK s \in Advanced(revised) :
          Advances(s, Settled(Gate(Book, Keys(completed)), s.events \o bear))
    BY <2>1
  <2> DEFINE b == Settled(Gate(Book, Keys(completed)), s.events \o bear)
  <2> HIDE DEF b
  <2>3. Advances(s, b)
    BY <2>2 DEF b
  <2>4. /\ now >= 0 /\ points' = points /\ facts' = facts
        /\ cycle' = s.cycle \/ cycle' = ResumeSearch(s.cycle)
    BY <2>3 DEF Advances
  <2>5. Anchored(cycle)
    BY DEF Loose, LooseOn, Anchored
  <2>6. s \in DayType /\ Standing(s.cycle) /\ Anchored(s.cycle)
    BY <2>4, <2>5, AdvancedDrawn
  <2>7. PICK c \in CycleOrNone : c = s.cycle
    BY <2>6 DEF DayType
  <2>8. Standing(ResumeSearch(c)) /\ Anchored(ResumeSearch(c))
    <3>1. CASE ResumeSearch(c) = c
      BY <2>6, <2>7, <3>1
    <3>2. CASE c \in CycleType /\ ResumeSearch(c) = [c EXCEPT !.closed = now]
      <4> DEFINE e == ResumeSearch(c)
      <4>1. /\ e.structure = c.structure /\ e.evidence = c.evidence /\ e.impulse = c.impulse
            /\ e.recovery = c.recovery /\ c # NoCycle
        BY <3>2, CycleIsOne DEF CycleType, CycleShape, CycleOrNone
      <4> HIDE DEF e
      <4>2. Standing(e)
        BY <2>6, <2>7, <4>1 DEF Standing, Stands
      <4>3. Anchored(e)
        BY <2>6, <2>7, <3>2, <4>1, AnchoredKept
      <4> QED
        BY <4>2, <4>3 DEF e
    <3> QED
      BY <1>1, <3>1, <3>2, ResumeTyped
  <2>9. Standing(cycle') /\ Anchored(cycle')
    BY <2>4, <2>6, <2>7, <2>8
  <2> QED
    BY <2>4, <2>9 DEF Standing, Anchored, Stands, Loose, LooseOn
<1>5. CASE ClosePath
  BY <1>5, ClosePathDoes DEF Loose, LooseOn
<1>6. CASE UNCHANGED vars
  BY <1>6 DEF vars, marketVars, lifecycleVars, Loose, LooseOn, Anchored, Stands
<1> QED
  BY <1>2, <1>3, <1>4, <1>5, <1>6 DEF Next

\* It holds in every state.
LEMMA LooseHolds == Spec => []Loose
<1>1. Init => Loose
  BY DEF Init, Loose, LooseOn
<1>2. Base /\ Facts /\ Facts' /\ Loose /\ [Next]_vars => Loose'
  BY LooseNext
<1> QED
  BY <1>1, <1>2, BaseHolds, FactsHold, PTL DEF Spec

-----------------------------------------------------------------------------
(* The windows: none reopens a rise on what was known before it closed.       *)

\* What a window brings that reopens the rise of the one before it.
Anew(last, new) ==
  new.started < last.start =>
    \/ new.known > last.end
    \/ last.reason = "gap_filled" /\ new.start = last.end /\ new.gap # last.gap

Afresh(ws) == \A k \in 2..Len(ws) : Anew(ws[k-1], ws[k])

Tidy(ws) == Afresh(ws) /\ (ws # <<>> => Last(ws).end \in Never..now /\ Last(ws).start \in 0..now)

\* What an opening event must bring after a closed window.
Lawful(b, e) ==
  (/\ ~IsOpen(b.windows) /\ b.windows # <<>> /\ Opening(e) /\ Permits(b, e)
   /\ e.cycle.started < Last(b.windows).start)
  => \/ e.known > Last(b.windows).end
     \/ /\ Last(b.windows).reason = "gap_filled" /\ Last(b.windows).end = now
        /\ e.cycle.gap # Last(b.windows).gap

\* Closing today keeps the windows tidy.
LEMMA ShutTidy ==
  ASSUME Typed, now >= 0, NEW ws \in Seq(WindowType), ws # <<>>, Tidy(ws), NEW reason \in Closings
  PROVE  Tidy(Shut(ws, reason))
<1> DEFINE n == Len(ws)
           xs == Shut(ws, reason)
<1>1. /\ xs \in Seq(WindowType) /\ Len(xs) = n /\ n \in Nat /\ n > 0
      /\ \A k \in 1..n : k # n => xs[k] = ws[k]
      /\ xs[n] = [ws[n] EXCEPT !.end = now, !.reason = reason]
      /\ Last(xs) = [ws[n] EXCEPT !.end = now, !.reason = reason] /\ ws[n] \in WindowType
      /\ Last(ws) = ws[n]
  BY ShutTyped, LastWindow
<1> HIDE DEF xs
<1>2. /\ xs[n].known = ws[n].known /\ xs[n].start = ws[n].start /\ xs[n].started = ws[n].started
      /\ xs[n].gap = ws[n].gap /\ Last(xs).end = now /\ Last(xs).start = Last(ws).start
  BY <1>1 DEF WindowType
<1>3. ASSUME NEW k \in 2..n PROVE Anew(xs[k-1], xs[k])
  <2>1. k \in 1..n /\ k - 1 \in 1..n /\ k - 1 # n
    BY <1>1
  <2>2. /\ xs[k-1] = ws[k-1] /\ xs[k].known = ws[k].known /\ xs[k].start = ws[k].start
        /\ xs[k].started = ws[k].started /\ xs[k].gap = ws[k].gap
    BY <1>1, <1>2, <2>1
  <2>3. Anew(ws[k-1], ws[k])
    BY DEF Tidy, Afresh
  <2> QED
    BY <2>2, <2>3 DEF Anew
<1>4. now \in Never..now /\ Last(ws).start \in 0..now
  BY Clock DEF Tidy
<1>5. Tidy(xs)
  BY <1>1, <1>2, <1>3, <1>4 DEF Tidy, Afresh
<1> QED
  BY <1>5 DEF xs

\* Replacing the gap of the last window does too.
LEMMA ReflipTidy ==
  ASSUME NEW ws \in Seq(WindowType), ws # <<>>, Tidy(ws)
  PROVE  Tidy(Reflip(ws))
<1> DEFINE n == Len(ws)
           xs == Reflip(ws)
<1>1. /\ xs \in Seq(WindowType) /\ Len(xs) = n /\ n \in Nat /\ n > 0 /\ Last(ws) = ws[n]
      /\ \A k \in 1..n : k # n => xs[k] = ws[k]
      /\ xs[n] = [ws[n] EXCEPT !.replaced = TRUE]
      /\ Last(xs) = [ws[n] EXCEPT !.replaced = TRUE] /\ ws[n] \in WindowType
  BY ReflipTyped, LastWindow
<1> HIDE DEF xs
<1>2. /\ xs[n].known = ws[n].known /\ xs[n].start = ws[n].start /\ xs[n].started = ws[n].started
      /\ xs[n].gap = ws[n].gap /\ Last(xs).end = Last(ws).end /\ Last(xs).start = Last(ws).start
  BY <1>1 DEF WindowType
<1>3. ASSUME NEW k \in 2..n PROVE Anew(xs[k-1], xs[k])
  <2>1. k \in 1..n /\ k - 1 \in 1..n /\ k - 1 # n
    BY <1>1
  <2>2. /\ xs[k-1] = ws[k-1] /\ xs[k].known = ws[k].known /\ xs[k].start = ws[k].start
        /\ xs[k].started = ws[k].started /\ xs[k].gap = ws[k].gap
    BY <1>1, <1>2, <2>1
  <2>3. Anew(ws[k-1], ws[k])
    BY DEF Tidy, Afresh
  <2> QED
    BY <2>2, <2>3 DEF Anew
<1>4. Last(xs).end \in Never..now /\ Last(xs).start <= now
  BY <1>2 DEF Tidy
<1>5. Tidy(xs)
  BY <1>1, <1>3, <1>4 DEF Tidy, Afresh
<1> QED
  BY <1>5 DEF xs

\* So does opening a window lawfully.
LEMMA AppendTidy ==
  ASSUME Typed, now >= 0, NEW b \in BookType, NEW e \in EventType, e.cycle \in CycleType,
         Tidy(b.windows),
         ~IsOpen(b.windows), Opening(e), Permits(b, e), Lawful(b, e)
  PROVE  Tidy(Append(b.windows, NewWindow(e)))
<1> DEFINE ws == b.windows
           n == Len(ws)
           w == NewWindow(e)
           xs == Append(ws, w)
<1>1. /\ ws \in Seq(WindowType) /\ w \in WindowType /\ w.start = now /\ w.known = e.known /\ w.end = Never
      /\ w.started = e.cycle.started /\ w.gap = e.cycle.gap
  BY NewWindowTyped DEF BookType, NewWindow
<1>2. Lawful(b, e)
  OBVIOUS
<1>3. (ws # <<>> => Last(ws) = ws[n]) /\ (ws = <<>> => n = 0)
  BY <1>1, LastWindow
<1> HIDE DEF ws, w
<1>4. /\ Len(xs) = n + 1 /\ n \in Nat /\ xs[n + 1] = w /\ \A k \in 1..n : xs[k] = ws[k]
      /\ xs \in Seq(WindowType) /\ xs # <<>>
  BY <1>1
<1> HIDE DEF xs
<1>5. Last(xs) = w
  BY <1>4, LastWindow
<1>6. ASSUME NEW k \in 2..(n + 1) PROVE Anew(xs[k-1], xs[k])
  <2>1. CASE k = n + 1
    <3>1. k - 1 = n /\ n \in 1..n /\ ws # <<>>
      BY <1>3, <1>4, <2>1
    <3>2. xs[k] = w /\ xs[k-1] = Last(ws)
      BY <1>3, <1>4, <2>1, <3>1
    <3>3. Anew(Last(ws), w)
      BY <1>1, <1>2, <3>1 DEF Lawful, Anew, ws
    <3> QED
      BY <3>2, <3>3
  <2>2. CASE k # n + 1
    <3>1. k \in 2..n /\ k \in 1..n /\ k - 1 \in 1..n
      BY <1>4, <2>2
    <3>2. Anew(ws[k-1], ws[k])
      BY <3>1 DEF Tidy, Afresh, ws
    <3> QED
      BY <1>4, <3>1, <3>2
  <2> QED
    BY <2>1, <2>2
<1>7. Last(xs).end \in Never..now /\ Last(xs).start \in 0..now
  <2>1. Never \in Never..now /\ now \in 0..now
    BY Clock DEF Never
  <2> QED
    BY <1>1, <1>5, <2>1
<1>8. Tidy(xs)
  BY <1>4, <1>6, <1>7 DEF Tidy, Afresh
<1> QED
  BY <1>8 DEF xs, ws, w

\* A lawful event keeps the windows tidy.
LEMMA ObserveTidy ==
  ASSUME Typed, now >= 0, NEW b \in BookType, NEW e \in EventType, Tidy(b.windows), Lawful(b, e)
  PROVE  Tidy(Observe(b, e).windows)
<1> DEFINE r == Observe(b, e)
<1>1. ObserveOpens(b, e, r) \/ ObservePasses(b, e, r) \/ ObserveEnds(b, e, r) \/ ObserveKeeps(b, e, r)
  BY ObserveDoes
<1>2. b.windows \in Seq(WindowType)
  BY DEF BookType
<1> HIDE DEF r
<1>3. CASE ObserveOpens(b, e, r)
  BY <1>3, AppendTidy DEF ObserveOpens, r
<1>4. CASE ObservePasses(b, e, r)
  BY <1>4 DEF ObservePasses, r
<1>5. CASE ObserveEnds(b, e, r)
  <2>1. b.windows # <<>> /\ r.windows = Shut(b.windows, EndReason(e, Last(b.windows)))
    BY <1>5 DEF ObserveEnds, IsOpen
  <2>2. EndReason(e, Last(b.windows)) \in Closings
    BY <1>2, <2>1, LastWindow, EndReasonTyped
  <2>3. Tidy(r.windows)
    BY <1>2, <2>1, <2>2, ShutTidy
  <2> QED
    BY <2>3 DEF r
<1>6. CASE ObserveKeeps(b, e, r)
  <2>1. b.windows # <<>> /\ (r.windows = b.windows \/ r.windows = Reflip(b.windows))
    BY <1>6 DEF ObserveKeeps, IsOpen
  <2>2. Tidy(r.windows)
    BY <1>2, <2>1, ReflipTidy
  <2> QED
    BY <2>2 DEF r
<1> QED
  BY <1>1, <1>3, <1>4, <1>5, <1>6

\* The gate has not been opened since an open window's flip, nor between the flip and the end
\* of a closed one.
GateApart(b) ==
  b.windows # <<>> /\ b.released # Never =>
    \/ b.released <= Last(b.windows).flip
    \/ Last(b.windows).end # Never /\ b.released >= Last(b.windows).end

\* Closing a window keeps it so, ...
LEMMA ShutApart ==
  ASSUME Typed, now >= 0, NEW b \in BookType, NEW x, IsOpen(b.windows), GateApart(b),
         NEW reason \in Closings, x.windows = Shut(b.windows, reason),
         x.released \in {b.released, Never}
  PROVE  GateApart(x)
<1>1. b.windows \in Seq(WindowType) /\ b.windows # <<>> /\ Last(b.windows).end = Never
  BY DEF BookType, IsOpen
<1>2. /\ Last(b.windows) \in WindowType /\ Last(b.windows) = b.windows[Len(b.windows)]
      /\ Last(x.windows) = [b.windows[Len(b.windows)] EXCEPT !.end = now, !.reason = reason]
  <2> DEFINE ws == b.windows
  <2>1. ws \in Seq(WindowType) /\ ws # <<>> /\ x.windows = Shut(ws, reason)
    BY <1>1
  <2> HIDE DEF ws
  <2>2. /\ Last(ws) \in WindowType /\ Last(ws) = ws[Len(ws)]
        /\ Last(Shut(ws, reason)) = [ws[Len(ws)] EXCEPT !.end = now, !.reason = reason]
    BY <2>1, ShutTyped, LastWindow
  <2> QED
    BY <2>1, <2>2 DEF ws
<1>3. Last(x.windows).flip = Last(b.windows).flip
  BY <1>2 DEF WindowType
<1> QED
  BY <1>1, <1>3 DEF GateApart

\* ... and so does any event.
LEMMA ObserveApart ==
  ASSUME Typed, now >= 0, NEW b \in BookType, NEW e \in EventType, GateApart(b)
  PROVE  GateApart(Observe(b, e))
<1> DEFINE r == Observe(b, e)
<1>1. ObserveOpens(b, e, r) \/ ObservePasses(b, e, r) \/ ObserveEnds(b, e, r) \/ ObserveKeeps(b, e, r)
  BY ObserveDoes
<1>2. b.windows \in Seq(WindowType) /\ b.released \in Int
  BY DEF BookType
<1> HIDE DEF r
<1>3. CASE ObserveOpens(b, e, r)
  <2> DEFINE w == NewWindow(e)
             xs == Append(b.windows, w)
  <2>1. /\ r.windows = xs /\ r.released = b.released /\ Permits(b, e) /\ e.cycle \in CycleType
        /\ w \in WindowType /\ w.flip = e.cycle.impulse.index
    BY <1>3, NewWindowTyped DEF ObserveOpens, NewWindow
  <2> HIDE DEF w
  <2>2. xs \in Seq(WindowType) /\ xs # <<>> /\ xs[Len(xs)] = w
    BY <1>2, <2>1
  <2> HIDE DEF xs
  <2>3. Last(xs) = w
    BY <2>2, LastWindow
  <2>4. e.cycle.impulse.index \in Int
    BY <2>1 DEF CycleType, CycleShape, Pivots
  <2>5. b.released # Never => b.released <= w.flip
    BY <1>2, <2>1, <2>4 DEF Permits
  <2> QED
    BY <2>1, <2>3, <2>5 DEF GateApart, r
<1>4. CASE ObservePasses(b, e, r)
  BY <1>4 DEF ObservePasses, KeepsGate, GateApart, r
<1>5. CASE ObserveEnds(b, e, r)
  <2>1. /\ IsOpen(b.windows) /\ b.windows # <<>> /\ r.released \in {b.released, Never}
        /\ r.windows = Shut(b.windows, EndReason(e, Last(b.windows)))
    BY <1>5 DEF ObserveEnds, IsOpen, KeepsGate
  <2>2. EndReason(e, Last(b.windows)) \in Closings
    BY <1>2, <2>1, LastWindow, EndReasonTyped
  <2> QED
    BY <2>1, <2>2, ShutApart DEF r
<1>6. CASE ObserveKeeps(b, e, r)
  <2>1. /\ b.windows # <<>> /\ (r.windows = b.windows \/ r.windows = Reflip(b.windows))
        /\ r.released = b.released
    BY <1>6 DEF ObserveKeeps, IsOpen
  <2>2. /\ Last(Reflip(b.windows)) = [b.windows[Len(b.windows)] EXCEPT !.replaced = TRUE]
        /\ b.windows[Len(b.windows)] \in WindowType /\ Last(b.windows) = b.windows[Len(b.windows)]
    BY <1>2, <2>1, ReflipTyped, LastWindow
  <2>3. Last(r.windows).flip = Last(b.windows).flip /\ Last(r.windows).end = Last(b.windows).end
    BY <2>1, <2>2 DEF WindowType
  <2> QED
    BY <2>1, <2>3 DEF GateApart, r
<1> QED
  BY <1>1, <1>3, <1>4, <1>5, <1>6

\* Taking one more event.
LEMMA FoldAppend ==
  ASSUME NEW base, NEW q \in Seq(EventType), NEW e \in EventType
  PROVE  FoldLeft(Observe, base, Append(q, e)) = Observe(FoldLeft(Observe, base, q), e)
<1> DEFINE p == Append(q, e)
<1>1. PICK n \in Nat : n = Len(q) /\ DOMAIN q = 1..n
  OBVIOUS
<1>2. DOMAIN p = 1..(n + 1) /\ p[n + 1] = e /\ \A k \in 1..n : p[k] = q[k]
  BY <1>1
<1>3. n + 1 \in Nat
  BY <1>1
<1> HIDE DEF p
<1>4. Runs(base, n, q) /\ Runs(base, n + 1, p)
  BY <1>1, <1>2, <1>3, EventsRun
<1>5. PICK g : /\ g[0] = base /\ g[n] = Folded(FALSE, base, q)
               /\ \A k \in 1..n : g[k] = Taken(FALSE, g[k-1], q[k])
  BY <1>4 DEF Runs
<1>6. PICK h : /\ h[0] = base /\ h[n + 1] = Folded(FALSE, base, p)
               /\ \A k \in 1..(n + 1) : h[k] = Taken(FALSE, h[k-1], p[k])
  BY <1>4 DEF Runs
<1> DEFINE F == {k \in 0..n : g[k] = h[k]}
<1>7. 0 \in F
  BY <1>5, <1>6
<1>8. \A k \in 0..n-1 : k \in F => k+1 \in F
  <2> SUFFICES ASSUME NEW k \in 0..n-1, k \in F PROVE k + 1 \in F
    OBVIOUS
  <2>1. k + 1 \in 1..n /\ k + 1 \in 1..(n + 1) /\ k + 1 \in 0..n /\ (k + 1) - 1 = k
    BY <1>1
  <2>2. g[k + 1] = Taken(FALSE, g[k], q[k + 1]) /\ h[k + 1] = Taken(FALSE, h[k], p[k + 1])
    BY <1>5, <1>6, <2>1
  <2> QED
    BY <1>2, <2>1, <2>2
<1> HIDE DEF F
<1>9. n \in F
  <2>1. \A k \in 0..n : k \in F
    BY <1>7, <1>8, PrefixInduction
  <2> QED
    BY <1>1, <2>1
<1>10. h[n + 1] = Taken(FALSE, h[n], p[n + 1])
  <2>1. n + 1 \in 1..(n + 1) /\ (n + 1) - 1 = n
    BY <1>1
  <2> QED
    BY <1>6, <2>1
<1>11. Folded(FALSE, base, p) = Taken(FALSE, Folded(FALSE, base, q), e)
  BY <1>2, <1>5, <1>6, <1>9, <1>10 DEF F
<1> QED
  BY <1>11 DEF Folded, Taken, p

-----------------------------------------------------------------------------
(* A rise of which a window closed: what it needs to trade again.             *)

\* The book after the events of a day so far.
After(g, t) == FoldLeft(Observe, g, t.events)

\* The cycle rises and began before the last window.
Older(b, c) == b.windows # <<>> /\ c # NoCycle /\ IsUp(c) /\ c.started < Last(b.windows).start

\* Such a rise has climbed no less than when the window opened.
Grown(b, c) == Older(b, c) => c.impulse.index >= Last(b.windows).flip

\* The window has closed: another one may reopen the rise.
Waiting(b, c) == ~IsOpen(b.windows) /\ Older(b, c)

\* The search began no earlier than a window ended.
Fresh(c, end) == c.closed >= end

\* The gate is closed, or was opened no earlier.
Blocked(b, end) == b.barrier # NoBarrier \/ b.released >= end

Prepared(b, c) ==
  /\ Grown(b, c)
  /\ Waiting(b, c) => Fresh(c, Last(b.windows).end) \/ Blocked(b, Last(b.windows).end)

\* Or a gap was filled today, that of the day the window opened.
GapFilled(b) ==
  /\ b.closed /\ Last(b.windows).reason = "gap_filled" /\ Last(b.windows).end = now
  /\ Last(b.windows).start < now /\ Last(b.windows).gap.index = Last(b.windows).start

Ready(b, c) ==
  /\ Grown(b, c)
  /\ Waiting(b, c) => \/ Fresh(c, Last(b.windows).end) \/ Blocked(b, Last(b.windows).end)
                      \/ GapFilled(b)

\* Or, once nothing more can open, any window closed today.
Settling(b, c) ==
  /\ Grown(b, c)
  /\ Waiting(b, c) => \/ Fresh(c, Last(b.windows).end) \/ Blocked(b, Last(b.windows).end)
                      \/ b.closed

\* A day and its book.
Coupled(g, t) ==
  After(g, t) \in BookType /\ Tidy(After(g, t).windows) /\ GateApart(After(g, t))

ReadyDays(g) == {t \in SoundDays : Coupled(g, t) /\ Ready(After(g, t), t.cycle)}
SettlingDays(g) == {t \in SoundDays : Coupled(g, t) /\ Settling(After(g, t), t.cycle)}

\* A cycle that rises only as the other went on rising, ...
Continues(c, d) ==
  d # NoCycle /\ IsUp(d) =>
    /\ c # NoCycle /\ IsUp(c) /\ d.started = c.started
    /\ d.impulse.index >= c.impulse.index

\* ... and in the same search.
Alike(c, d) == Continues(c, d) /\ (d # NoCycle /\ IsUp(d) => d.closed = c.closed)

\* The windows keep their last one, but for how it ends.
SameWindow(ws, xs) ==
  /\ ws # <<>> /\ xs # <<>>
  /\ Last(xs).start = Last(ws).start /\ Last(xs).flip = Last(ws).flip /\ Last(xs).gap = Last(ws).gap

\* A cycle is like itself.
LEMMA AlikeItself ==
  ASSUME NEW c \in CycleOrNone
  PROVE  Alike(c, c)
<1>1. ASSUME c # NoCycle PROVE c.impulse.index \in Int
  BY <1>1, CycleIsOne DEF CycleShape, Pivots
<1> QED
  BY <1>1 DEF Alike, Continues

\* Closing the last window keeps it, ...
LEMMA ShutSame ==
  ASSUME Typed, now >= 0, NEW ws \in Seq(WindowType), ws # <<>>, NEW reason \in Closings
  PROVE  /\ SameWindow(ws, Shut(ws, reason))
         /\ Last(Shut(ws, reason)).end = now /\ Last(Shut(ws, reason)).reason = reason
<1>1. /\ Last(Shut(ws, reason)) = [ws[Len(ws)] EXCEPT !.end = now, !.reason = reason]
      /\ Shut(ws, reason) # <<>> /\ ws[Len(ws)] \in WindowType /\ Last(ws) = ws[Len(ws)]
  BY ShutTyped, LastWindow
<1> QED
  BY <1>1 DEF SameWindow, WindowType

\* ... as does replacing its gap.
LEMMA ReflipSame ==
  ASSUME NEW ws \in Seq(WindowType), ws # <<>>
  PROVE  SameWindow(ws, Reflip(ws)) /\ Last(Reflip(ws)).end = Last(ws).end
<1>1. /\ Last(Reflip(ws)) = [ws[Len(ws)] EXCEPT !.replaced = TRUE]
      /\ Reflip(ws) # <<>> /\ ws[Len(ws)] \in WindowType /\ Last(ws) = ws[Len(ws)]
  BY ReflipTyped, LastWindow
<1> QED
  BY <1>1 DEF SameWindow, WindowType

\* A rise that goes on has climbed as well.
LEMMA GrownOn ==
  ASSUME NEW b, NEW r, b.windows \in Seq(WindowType),
         r.windows = b.windows \/ SameWindow(b.windows, r.windows),
         NEW c \in CycleOrNone, NEW d \in CycleOrNone, Grown(b, c), Continues(c, d)
  PROVE  Grown(r, d)
<1>1. SUFFICES ASSUME Older(r, d) PROVE d.impulse.index >= Last(r.windows).flip
  BY DEF Grown
<1>2. /\ d # NoCycle /\ IsUp(d) /\ c # NoCycle /\ IsUp(c) /\ d.started = c.started
      /\ d.impulse.index >= c.impulse.index
  BY <1>1 DEF Older, Continues
<1>3. /\ b.windows # <<>> /\ Last(r.windows).start = Last(b.windows).start
      /\ Last(r.windows).flip = Last(b.windows).flip
  BY <1>1 DEF Older, SameWindow
<1>4. c.impulse.index >= Last(b.windows).flip
  BY <1>1, <1>2, <1>3 DEF Older, Grown
<1>5. c.impulse.index \in Int /\ d.impulse.index \in Int
  BY <1>2, CycleIsOne DEF CycleShape, Pivots
<1>6. Last(b.windows).flip \in Int
  BY <1>3, LastWindow DEF WindowType
<1> QED
  BY <1>2, <1>3, <1>4, <1>5, <1>6

\* A rise that begins today is not older than a window.
LEMMA YoungGrown ==
  ASSUME Typed, NEW b, b.windows \in Seq(WindowType), Tidy(b.windows), NEW d, d.started = now \/ NotUp(d)
  PROVE  ~Older(b, d) /\ Grown(b, d) /\ Ready(b, d)
<1>1. now \in Int
  BY Clock
<1>2. b.windows # <<>> => Last(b.windows).start \in Int /\ Last(b.windows).start <= now
  BY LastWindow DEF Tidy, WindowType
<1>3. ~Older(b, d)
  BY <1>1, <1>2 DEF Older, NotUp
<1> QED
  BY <1>3 DEF Grown, Ready, Waiting

\* A day that is ready settles.
LEMMA ReadySettles ==
  ASSUME NEW g, NEW t \in ReadyDays(g)
  PROVE  t \in SettlingDays(g)
  BY DEF ReadyDays, SettlingDays, Ready, Settling, GapFilled

\* What an event does that neither opens a window nor ends the path.
LEMMA ObserveStill ==
  ASSUME Typed, now >= 0, NEW b \in BookType, NEW e \in EventType, ~Opening(e), ~Ends(e)
  PROVE  /\ Observe(b, e) \in BookType
         /\ Observe(b, e).barrier = b.barrier /\ Observe(b, e).released = b.released
         /\ \/ Observe(b, e).windows = b.windows /\ Observe(b, e).closed = b.closed
            \/ /\ IsOpen(b.windows) /\ IsOpen(Observe(b, e).windows)
               /\ SameWindow(b.windows, Observe(b, e).windows)
            \/ /\ IsOpen(b.windows) /\ Last(b.windows) \in WindowType
               /\ EndReason(e, Last(b.windows)) # "none"
               /\ ~IsOpen(Observe(b, e).windows) /\ Observe(b, e).closed
               /\ SameWindow(b.windows, Observe(b, e).windows)
               /\ Last(Observe(b, e).windows).end = now
               /\ Last(Observe(b, e).windows).reason = EndReason(e, Last(b.windows))
<1> DEFINE r == Observe(b, e)
<1>1. /\ r \in BookType
      /\ ObserveOpens(b, e, r) \/ ObservePasses(b, e, r) \/ ObserveEnds(b, e, r) \/ ObserveKeeps(b, e, r)
  BY ObserveDoes
<1>2. b.windows \in Seq(WindowType)
  BY DEF BookType
<1> HIDE DEF r
<1>3. CASE ObserveOpens(b, e, r)
  BY <1>3 DEF ObserveOpens
<1>4. CASE ObservePasses(b, e, r)
  BY <1>1, <1>4 DEF ObservePasses, KeepsGate, r
<1>5. CASE ObserveEnds(b, e, r)
  <2>1. /\ b.windows # <<>> /\ IsOpen(b.windows) /\ EndReason(e, Last(b.windows)) # "none"
        /\ r.windows = Shut(b.windows, EndReason(e, Last(b.windows))) /\ r.closed /\ ~IsOpen(r.windows)
        /\ r.barrier = b.barrier /\ r.released = b.released
    BY <1>5 DEF ObserveEnds, IsOpen, KeepsGate
  <2>2. Last(b.windows) \in WindowType
    BY <1>2, <2>1, LastWindow
  <2> DEFINE reason == EndReason(e, Last(b.windows))
  <2>3. reason \in Closings
    BY <2>2, EndReasonTyped
  <2> HIDE DEF reason
  <2>4. /\ SameWindow(b.windows, Shut(b.windows, reason))
        /\ Last(Shut(b.windows, reason)).end = now /\ Last(Shut(b.windows, reason)).reason = reason
    BY <1>2, <2>1, <2>3, ShutSame
  <2> QED
    BY <1>1, <2>1, <2>2, <2>4 DEF r, reason
<1>6. CASE ObserveKeeps(b, e, r)
  <2>1. /\ b.windows # <<>> /\ IsOpen(b.windows) /\ (r.windows = b.windows \/ r.windows = Reflip(b.windows))
        /\ r.closed = b.closed /\ r.barrier = b.barrier /\ r.released = b.released
    BY <1>6 DEF ObserveKeeps, IsOpen
  <2>2. SameWindow(b.windows, Reflip(b.windows)) /\ IsOpen(Reflip(b.windows))
    BY <1>2, <2>1, ReflipSame DEF IsOpen, SameWindow
  <2> QED
    BY <1>1, <2>1, <2>2 DEF r
<1> QED
  BY <1>1, <1>3, <1>4, <1>5, <1>6

\* The windows after such an event: a rise that begins today, or one as before of which at
\* most a gap was filled, is ready.
LEMMA StillReady ==
  ASSUME Typed, now >= 0, NEW b \in BookType, NEW e \in EventType, ~Opening(e), ~Ends(e),
         Tidy(Observe(b, e).windows), NEW c \in CycleOrNone, NEW d \in CycleOrNone, Ready(b, c),
         \/ NotUp(d)
         \/ d.started = now
         \/ Alike(c, d) /\ \A w \in WindowType : EndReason(e, w) \in {"none", "gap_filled"}
  PROVE  Ready(Observe(b, e), d)
<1> DEFINE r == Observe(b, e)
<1>1. /\ r \in BookType /\ r.barrier = b.barrier /\ r.released = b.released
      /\ \/ r.windows = b.windows /\ r.closed = b.closed
         \/ IsOpen(b.windows) /\ IsOpen(r.windows) /\ SameWindow(b.windows, r.windows)
         \/ /\ IsOpen(b.windows) /\ Last(b.windows) \in WindowType
            /\ EndReason(e, Last(b.windows)) # "none"
            /\ ~IsOpen(r.windows) /\ r.closed
            /\ SameWindow(b.windows, r.windows)
            /\ Last(r.windows).end = now /\ Last(r.windows).reason = EndReason(e, Last(b.windows))
  BY ObserveStill
<1>2. Tidy(r.windows) /\ now \in Int /\ b.windows \in Seq(WindowType) /\ r.windows \in Seq(WindowType)
  BY <1>1, Clock DEF BookType
<1> HIDE DEF r
<1>3. CASE NotUp(d) \/ d.started = now
  <2>1. Ready(r, d)
    BY <1>2, <1>3, YoungGrown
  <2> QED
    BY <2>1 DEF r
<1>4. CASE Alike(c, d) /\ \A w \in WindowType : EndReason(e, w) \in {"none", "gap_filled"}
  <2>1. Grown(r, d)
    BY <1>1, <1>2, <1>4, GrownOn DEF Alike, Ready
  <2>2. ASSUME Waiting(r, d)
        PROVE  \/ Fresh(d, Last(r.windows).end) \/ Blocked(r, Last(r.windows).end)
               \/ GapFilled(r)
    <3>1. c # NoCycle /\ IsUp(c) /\ d.started = c.started /\ d.closed = c.closed /\ ~IsOpen(r.windows)
      BY <1>4, <2>2 DEF Alike, Continues, Waiting, Older
    <3>2. CASE r.windows = b.windows /\ r.closed = b.closed
      BY <1>1, <2>2, <3>1, <3>2 DEF Ready, Waiting, Older, Fresh, Blocked, GapFilled
    <3>3. CASE /\ IsOpen(b.windows) /\ Last(b.windows) \in WindowType
               /\ EndReason(e, Last(b.windows)) # "none"
               /\ ~IsOpen(r.windows) /\ r.closed
               /\ SameWindow(b.windows, r.windows)
               /\ Last(r.windows).end = now /\ Last(r.windows).reason = EndReason(e, Last(b.windows))
      <4>1. EndReason(e, Last(b.windows)) = "gap_filled"
        BY <1>4, <3>3
      <4>2. now > Last(b.windows).start /\ Last(b.windows).gap.index = Last(b.windows).start
        BY <4>1 DEF EndReason, Ending
      <4>3. Last(b.windows).start \in Int
        BY <3>3 DEF WindowType
      <4> QED
        BY <1>2, <3>3, <4>1, <4>2, <4>3 DEF GapFilled, SameWindow
    <3> QED
      BY <1>1, <3>1, <3>2, <3>3
  <2> QED
    BY <2>1, <2>2 DEF Ready, r
<1> QED
  BY <1>3, <1>4

\* Of a day on which nothing more opens, likewise.
LEMMA StillSettling ==
  ASSUME Typed, now >= 0, NEW b \in BookType, NEW e \in EventType, ~Opening(e), ~Ends(e),
         NEW c \in CycleOrNone, NEW d \in CycleOrNone, Settling(b, c), Alike(c, d)
  PROVE  Settling(Observe(b, e), d)
<1> DEFINE r == Observe(b, e)
<1>1. /\ r \in BookType /\ r.barrier = b.barrier /\ r.released = b.released
      /\ \/ r.windows = b.windows /\ r.closed = b.closed
         \/ IsOpen(r.windows) /\ SameWindow(b.windows, r.windows)
         \/ r.closed /\ SameWindow(b.windows, r.windows)
  BY ObserveStill
<1>2. b.windows \in Seq(WindowType)
  BY DEF BookType
<1> HIDE DEF r
<1>3. Grown(r, d)
  BY <1>1, <1>2, GrownOn DEF Alike, Settling
<1>4. ASSUME Waiting(r, d)
      PROVE  \/ Fresh(d, Last(r.windows).end) \/ Blocked(r, Last(r.windows).end)
             \/ r.closed
  <2>1. c # NoCycle /\ IsUp(c) /\ d.started = c.started /\ d.closed = c.closed /\ ~IsOpen(r.windows)
    BY <1>4 DEF Alike, Continues, Waiting, Older
  <2>2. CASE r.windows = b.windows /\ r.closed = b.closed
    BY <1>1, <1>4, <2>1, <2>2 DEF Settling, Waiting, Older, Fresh, Blocked
  <2> QED
    BY <1>1, <2>1, <2>2
<1> QED
  BY <1>3, <1>4 DEF Settling, r

\* An opening event opens the window, leaves it open, or is kept out by the gate.
LEMMA OpeningReady ==
  ASSUME Typed, now >= 0, NEW b \in BookType, NEW e \in EventType, Opening(e), GateApart(b),
         Grown(b, e.cycle)
  PROVE  Ready(Observe(b, e), e.cycle)
<1> DEFINE r == Observe(b, e)
           c == e.cycle
<1>1. /\ r \in BookType
      /\ ObserveOpens(b, e, r) \/ ObservePasses(b, e, r) \/ ObserveEnds(b, e, r) \/ ObserveKeeps(b, e, r)
  BY ObserveDoes
<1>2. b.windows \in Seq(WindowType) /\ ~Ends(e) /\ c \in CycleOrNone /\ b.released \in Int
  BY DEF BookType, Opening, Ends, EventType
<1> HIDE DEF r
<1>3. CASE ObserveOpens(b, e, r)
  <2> DEFINE w == NewWindow(e)
             xs == Append(b.windows, w)
  <2>1. r.windows = xs /\ w \in WindowType /\ w.end = Never /\ w.flip = c.impulse.index /\ c \in CycleType
    BY <1>3, NewWindowTyped DEF ObserveOpens, NewWindow
  <2> HIDE DEF w
  <2>2. xs \in Seq(WindowType) /\ xs # <<>> /\ xs[Len(xs)] = w
    BY <1>2, <2>1
  <2> HIDE DEF xs
  <2>3. Last(xs) = w
    BY <2>2, LastWindow
  <2>4. c.impulse.index \in Int
    BY <2>1 DEF CycleType, CycleShape, Pivots
  <2>5. IsOpen(r.windows) /\ Grown(r, c)
    BY <2>1, <2>2, <2>3, <2>4 DEF IsOpen, Grown
  <2> QED
    BY <2>5 DEF Ready, Waiting, r
<1>4. CASE ObservePasses(b, e, r)
  <2>1. /\ ~Permits(b, e) /\ r.barrier = b.barrier /\ r.released = b.released
        /\ r.windows = b.windows
    BY <1>2, <1>4 DEF ObservePasses, KeepsGate
  <2>2. Grown(r, c)
    BY <2>1 DEF Grown, Older
  <2>3. ASSUME Waiting(r, c), r.barrier = NoBarrier PROVE r.released >= Last(r.windows).end
    <3>1. b.released # Never /\ ~(c.impulse.index >= b.released)
      BY <2>1, <2>3 DEF Permits
    <3>2. b.windows # <<>> /\ c # NoCycle /\ c.impulse.index >= Last(b.windows).flip
      BY <2>1, <2>2, <2>3 DEF Waiting, Older, Grown
    <3>3. c.impulse.index \in Int /\ Last(b.windows).flip \in Int
      BY <1>2, <3>2, CycleIsOne, LastWindow DEF CycleShape, Pivots, WindowType
    <3>4. \/ b.released <= Last(b.windows).flip
          \/ b.released >= Last(b.windows).end
      BY <3>1, <3>2 DEF GateApart
    <3> QED
      BY <1>2, <2>1, <3>1, <3>2, <3>3, <3>4
  <2> QED
    BY <2>2, <2>3 DEF Ready, Blocked, r
<1>5. CASE ObserveEnds(b, e, r)
  <2>1. EndReason(e, Last(b.windows)) = "none"
    BY DEF Opening, EndReason
  <2> QED
    BY <1>5, <2>1 DEF ObserveEnds
<1>6. CASE ObserveKeeps(b, e, r)
  <2>1. b.windows # <<>> /\ IsOpen(b.windows) /\ (r.windows = b.windows \/ r.windows = Reflip(b.windows))
    BY <1>6 DEF ObserveKeeps, IsOpen
  <2>2. SameWindow(b.windows, Reflip(b.windows)) /\ IsOpen(Reflip(b.windows))
    BY <1>2, <2>1, ReflipSame DEF IsOpen, SameWindow
  <2>3. IsOpen(r.windows)
    BY <2>1, <2>2
  <2>4. Continues(c, c)
    BY <1>2, AlikeItself DEF Alike
  <2>5. Grown(r, c)
    BY <1>2, <2>1, <2>2, <2>4, GrownOn
  <2> QED
    BY <2>3, <2>5 DEF Ready, Waiting, r
<1> QED
  BY <1>1, <1>3, <1>4, <1>5, <1>6

\* One more event of a day, and its book.
LEMMA AfterEvent ==
  ASSUME NEW g, NEW s \in DayType, NEW r \in DayType, NEW e \in EventType,
         r.events = Append(s.events, e)
  PROVE  After(g, r) = Observe(After(g, s), e)
<1>1. s.events \in Seq(EventType)
  BY DEF DayType
<1> QED
  BY <1>1, FoldAppend DEF After

\* A day without a new event.
LEMMA SameCoupled ==
  ASSUME NEW g, NEW s \in DayType, NEW r \in DayType, r.events = s.events, Coupled(g, s)
  PROVE  Coupled(g, r) /\ After(g, r) = After(g, s)
  BY DEF Coupled, After

\* A day with one more event that opens nothing.
LEMMA StillCoupled ==
  ASSUME Typed, now >= 0, NEW g, NEW s \in DayType, NEW r \in DayType, NEW e \in EventType,
         r.events = Append(s.events, e), ~Opening(e), Coupled(g, s)
  PROVE  Coupled(g, r) /\ Tidy(Observe(After(g, s), e).windows)
<1> DEFINE b == After(g, s)
           x == Observe(b, e)
<1>1. b \in BookType /\ Tidy(b.windows) /\ GateApart(b)
  BY DEF Coupled
<1>2. After(g, r) = x
  BY AfterEvent
<1> HIDE DEF b
<1>3. Lawful(b, e)
  BY DEF Lawful
<1>4. x \in BookType /\ Tidy(x.windows) /\ GateApart(x)
  BY <1>1, <1>3, ObserveTidy, ObserveDoes, ObserveApart
<1> HIDE DEF x
<1> QED
  BY <1>2, <1>4 DEF Coupled, b, x

\* A day with a lawful opening event of its own cycle.
LEMMA OpeningCoupled ==
  ASSUME Typed, now >= 0, NEW g, NEW s \in DayType, NEW r \in DayType, NEW e \in EventType,
         r.events = Append(s.events, e), Opening(e), Coupled(g, s), Lawful(After(g, s), e),
         Ready(After(g, s), s.cycle), Continues(s.cycle, e.cycle), r.cycle = e.cycle
  PROVE  Coupled(g, r) /\ Ready(After(g, r), r.cycle)
<1> DEFINE b == After(g, s)
           x == Observe(b, e)
<1>1. b \in BookType /\ Tidy(b.windows) /\ GateApart(b) /\ Lawful(b, e) /\ Grown(b, s.cycle)
  BY DEF Coupled, Ready
<1>2. After(g, r) = x
  BY AfterEvent
<1>3. s.cycle \in CycleOrNone /\ e.cycle \in CycleOrNone
  BY DEF DayType, EventType
<1> HIDE DEF b
<1>4. Grown(b, e.cycle)
  <2>1. b.windows \in Seq(WindowType)
    BY <1>1 DEF BookType
  <2> QED
    BY <1>1, <1>3, <2>1, GrownOn
<1>5. x \in BookType /\ Tidy(x.windows) /\ GateApart(x) /\ Ready(x, e.cycle)
  BY <1>1, <1>4, ObserveTidy, ObserveDoes, ObserveApart, OpeningReady
<1> HIDE DEF x
<1> QED
  BY <1>2, <1>5 DEF Coupled

\* A day goes on with one more event that opens nothing, or with none.
LEMMA StillDay ==
  ASSUME Typed, now >= 0, NEW g, NEW s \in ReadyDays(g), NEW r \in SoundDays, NEW e \in EventType,
         r.events = Append(s.events, e), ~Opening(e), ~Ends(e),
         \/ NotUp(r.cycle)
         \/ r.cycle.started = now
         \/ Alike(s.cycle, r.cycle) /\ \A w \in WindowType : EndReason(e, w) \in {"none", "gap_filled"}
  PROVE  r \in ReadyDays(g)
<1>1. s \in DayType /\ r \in DayType /\ Coupled(g, s) /\ Ready(After(g, s), s.cycle)
      /\ s.cycle \in CycleOrNone /\ r.cycle \in CycleOrNone
  BY DEF ReadyDays, SoundDays, DayType
<1>2. Coupled(g, r) /\ Tidy(Observe(After(g, s), e).windows)
  BY <1>1, StillCoupled
<1>3. After(g, s) \in BookType
  BY <1>1 DEF Coupled
<1>4. Ready(Observe(After(g, s), e), r.cycle)
  BY <1>1, <1>2, <1>3, StillReady
<1>5. After(g, r) = Observe(After(g, s), e)
  BY <1>1, AfterEvent
<1> QED
  BY <1>2, <1>4, <1>5 DEF ReadyDays

\* Without an event nothing changes.
LEMMA SameDay ==
  ASSUME NEW g, NEW s \in ReadyDays(g), NEW r \in SoundDays, r.events = s.events, r.cycle = s.cycle
  PROVE  r \in ReadyDays(g)
<1>1. s \in DayType /\ r \in DayType /\ Coupled(g, s) /\ Ready(After(g, s), s.cycle)
  BY DEF ReadyDays, SoundDays
<1>2. Coupled(g, r) /\ After(g, r) = After(g, s)
  BY <1>1, SameCoupled
<1> QED
  BY <1>1, <1>2 DEF ReadyDays

\* The same once nothing more can open.
LEMMA LateDay ==
  ASSUME Typed, now >= 0, NEW g, NEW s \in SettlingDays(g), NEW r \in SoundDays,
         NEW e \in EventType,
         r.events = Append(s.events, e), ~Opening(e), ~Ends(e), Alike(s.cycle, r.cycle)
  PROVE  r \in SettlingDays(g)
<1>1. s \in DayType /\ r \in DayType /\ Coupled(g, s) /\ Settling(After(g, s), s.cycle)
      /\ s.cycle \in CycleOrNone /\ r.cycle \in CycleOrNone
  BY DEF SettlingDays, SoundDays, DayType
<1>2. Coupled(g, r)
  BY <1>1, StillCoupled
<1>3. After(g, s) \in BookType
  BY <1>1 DEF Coupled
<1>4. Settling(Observe(After(g, s), e), r.cycle)
  BY <1>1, <1>3, StillSettling
<1>5. After(g, r) = Observe(After(g, s), e)
  BY <1>1, AfterEvent
<1> QED
  BY <1>2, <1>4, <1>5 DEF SettlingDays

\* And without an event.
LEMMA LateSameDay ==
  ASSUME NEW g, NEW s \in SettlingDays(g), NEW r \in SoundDays, r.events = s.events,
         r.cycle = s.cycle
  PROVE  r \in SettlingDays(g)
<1>1. s \in DayType /\ r \in DayType /\ Coupled(g, s) /\ Settling(After(g, s), s.cycle)
  BY DEF SettlingDays, SoundDays
<1>2. Coupled(g, r) /\ After(g, r) = After(g, s)
  BY <1>1, SameCoupled
<1> QED
  BY <1>1, <1>2 DEF SettlingDays

\* What the windows of the past leave for a new day (TLC: Reopening).
Reopening == Tidy(windows) /\ GateApart(Book) /\ Prepared(Book, cycle)

\* A day begins with the gate.
LEMMA NoEvents ==
  ASSUME NEW base
  PROVE  FoldLeft(Observe, base, <<>>) = base
<1> DEFINE q == <<>>
           n == 0
<1>1. n \in Nat /\ DOMAIN q = 1..n
  OBVIOUS
<1> HIDE DEF q
<1>2. Runs(base, n, q)
  BY <1>1, EventsRun
<1>3. Folded(FALSE, base, q) = base
  BY <1>2 DEF Runs
<1> QED
  BY <1>3 DEF Folded, q

\* The gate leaves the day ready: if it closes the window it stays closed, if it opens it
\* does so today.
LEMMA StartReady ==
  ASSUME Base, GateStands, Reopening, now >= 0, NEW completed \in BOOLEAN
  PROVE  Start \in ReadyDays(Gate(Book, Keys(completed)))
<1>0. Typed /\ Vertices /\ Sound(recovery)
  BY DEF Base
<1> DEFINE g == Gate(Book, Keys(completed))
           x == Closed(Book, "last_rise_low_broken")
<1>1. /\ Book \in BookType /\ Book.windows = windows /\ Book.barrier = barrier
      /\ Book.released = released /\ ~Book.closed
  BY <1>0, BookTyped
<1>2. /\ g \in BookType
      /\ g = Book \/ GateClears(Book, g) \/ GateShuts(Book, g)
  BY <1>0, <1>1, GateDoes
<1>3. Start \in DayType /\ Start.cycle = cycle /\ Start.recovery = recovery /\ Start.events = <<>>
  BY <1>0, StartTyped
<1>4. After(g, Start) = g
  BY <1>3, NoEvents DEF After
<1>5. Start \in SoundDays
  BY <1>0, <1>3 DEF SoundDays
<1>6. "last_rise_low_broken" \in Closings
  BY DEF Closings
<1>7. /\ ~IsOpen(windows) => x = Book
      /\ IsOpen(windows) => x.windows = Shut(windows, "last_rise_low_broken")
  BY <1>0, <1>1, <1>6, ClosedDoes
<1>8. windows \in Seq(WindowType) /\ Tidy(windows) /\ GateApart(Book) /\ Prepared(Book, cycle)
      /\ now \in Int /\ cycle \in CycleOrNone
  BY <1>0, Clock DEF Reopening, Typed
<1> HIDE DEF g, x
<1>9. SUFFICES Tidy(g.windows) /\ GateApart(g) /\ Ready(g, cycle)
  BY <1>2, <1>3, <1>4, <1>5 DEF ReadyDays, Coupled, g
<1>10. CASE g = Book
  BY <1>1, <1>8, <1>10 DEF Prepared, Ready
<1>11. CASE GateClears(Book, g)
  <2>1. g.windows = windows /\ g.released = now /\ barrier # NoBarrier
    BY <1>1, <1>11 DEF GateClears
  <2>2. ~IsOpen(windows)
    BY <2>1 DEF GateStands, Open
  <2>3. windows # <<>> => Last(windows).end # Never /\ now >= Last(windows).end
    BY <1>8, <2>2 DEF Tidy, IsOpen
  <2>4. GateApart(g)
    BY <2>1, <2>3 DEF GateApart
  <2>5. Grown(g, cycle)
    BY <1>1, <1>8, <2>1 DEF Prepared, Grown, Older
  <2>6. Waiting(g, cycle) => Blocked(g, Last(g.windows).end)
    BY <2>1, <2>3 DEF Waiting, Older, Blocked
  <2> QED
    BY <1>8, <2>1, <2>4, <2>5, <2>6 DEF Ready
<1>12. CASE GateShuts(Book, g)
  <2>1. g.windows = x.windows /\ g.barrier # NoBarrier /\ g.released = Never
    BY <1>12 DEF GateShuts, x
  <2>2. Tidy(g.windows) /\ (g.windows = windows \/ SameWindow(windows, g.windows))
    <3>1. CASE IsOpen(windows)
      <4>1. windows # <<>> /\ g.windows = Shut(windows, "last_rise_low_broken")
        BY <1>7, <2>1, <3>1 DEF IsOpen
      <4> QED
        BY <1>0, <1>6, <1>8, <4>1, ShutTidy, ShutSame
    <3>2. CASE ~IsOpen(windows)
      BY <1>1, <1>7, <1>8, <2>1, <3>2
    <3> QED
      BY <3>1, <3>2
  <2>3. Grown(g, cycle)
    <3>1. Grown(Book, cycle) /\ Continues(cycle, cycle)
      BY <1>8, AlikeItself DEF Prepared, Alike
    <3> QED
      BY <1>1, <1>8, <2>2, <3>1, GrownOn
  <2> QED
    BY <2>1, <2>2, <2>3 DEF GateApart, Ready, Blocked
<1> QED
  BY <1>2, <1>10, <1>11, <1>12

-----------------------------------------------------------------------------
(* The stages of a day keep it ready. *)

\* An event that is not of a state opens nothing, one that does not end the path keeps the gate.
LEMMA Unopening ==
  ASSUME NEW kind \in Kinds, NEW c \in CycleOrNone, NEW f \in FactType, NEW reason \in Reasons,
         kind # "state", reason # "source_path_ended"
  PROVE  /\ Event(kind, c, f, reason) \in EventType
         /\ ~Opening(Event(kind, c, f, reason)) /\ ~Ends(Event(kind, c, f, reason))
         /\ Event(kind, c, f, reason).kind = kind /\ Event(kind, c, f, reason).cycle = c
<1>1. /\ Event(kind, c, f, reason).kind = kind /\ Event(kind, c, f, reason).reason = reason
      /\ Event(kind, c, f, reason).cycle = c
  BY DEF Event
<1> QED
  BY <1>1, EventTyped DEF Opening, Ends

\* A moved impulse ends no window of a rise.
LEMMA AnchorEndsNone ==
  ASSUME NEW e, e.kind = "anchor", IsUp(e.cycle), NEW w
  PROVE  EndReason(e, w) = "none"
  BY DEF EndReason, IsUp

\* A rise that keeps its beginning, its impulse and its search is the same.
LEMMA AlikeOn ==
  ASSUME NEW c \in CycleType, NEW d, IsUp(d) = IsUp(c), d.started = c.started,
         d.closed = c.closed,
         d.impulse.index = c.impulse.index \/ d.impulse.index >= c.impulse.index
  PROVE  Alike(c, d)
<1>1. c # NoCycle /\ c.impulse.index \in Int
  BY CycleIsOne DEF CycleOrNone, CycleType, CycleShape, Pivots
<1> QED
  BY <1>1 DEF Alike, Continues

\* A confirmation that came after the search began, on an impulse known before it, reopens
\* a rise lawfully.
LEMMA WaitingLawful ==
  ASSUME Typed, NEW b \in BookType, Tidy(b.windows), NEW c \in CycleType, IsUp(c), Ready(b, c),
         NEW e, e.cycle.started = c.started, e.known \in Int, e.known > c.closed,
         e.cycle.impulse.index \in Int, e.cycle.impulse.index < e.known,
         e.cycle.gap = NoGap \/ e.cycle.gap.index = now
  PROVE  Lawful(b, e)
<1> DEFINE last == Last(b.windows)
<1>1. SUFFICES ASSUME ~IsOpen(b.windows), b.windows # <<>>, Permits(b, e), c.started < last.start
               PROVE  \/ e.known > last.end
                      \/ last.reason = "gap_filled" /\ last.end = now /\ e.cycle.gap # last.gap
  BY DEF Lawful
<1>2. c # NoCycle /\ c.closed \in Int
  BY CycleIsOne DEF CycleOrNone, CycleType, CycleShape
<1>3. now \in Int /\ b.released \in Int
  BY Clock DEF BookType
<1>4. last.end \in Int /\ last.end >= 0 /\ last.start \in 0..now
  BY <1>1, <1>3 DEF Tidy, IsOpen, Never
<1>5. Waiting(b, c)
  BY <1>1, <1>2 DEF Waiting, Older
<1>6. Fresh(c, last.end) \/ Blocked(b, last.end) \/ GapFilled(b)
  BY <1>5 DEF Ready
<1> HIDE DEF last
<1>7. CASE Fresh(c, last.end)
  BY <1>2, <1>4, <1>7 DEF Fresh
<1>8. CASE Blocked(b, last.end)
  <2>1. b.barrier = NoBarrier /\ (b.released # Never => e.cycle.impulse.index >= b.released)
    BY <1>1 DEF Permits
  <2>2. b.released >= last.end
    BY <1>8, <2>1 DEF Blocked
  <2>3. b.released # Never
    BY <1>3, <1>4, <2>2 DEF Never
  <2> QED
    BY <1>3, <1>4, <2>1, <2>2, <2>3
<1>9. CASE GapFilled(b)
  <2>1. /\ last.reason = "gap_filled" /\ last.end = now /\ last.start < now
        /\ last.gap.index = last.start
    BY <1>9 DEF GapFilled, last
  <2>2. NoGap.index # last.start
    BY <1>4 DEF NoGap, Never
  <2>3. e.cycle.gap # last.gap
    BY <1>3, <1>4, <2>1, <2>2
  <2> QED
    BY <2>1, <2>3
<1> QED
  BY <1>6, <1>7, <1>8, <1>9

\* A gap that is filled may reopen the window on an older pullback.
LEMMA FillReady ==
  ASSUME Typed, now >= 0, NEW g, NEW s \in ReadyDays(g)
  PROVE  ExpireGap(s) \in ReadyDays(g)
<1> DEFINE r == ExpireGap(s)
<1>1. s \in DayType /\ Sound(s.recovery)
  BY DEF ReadyDays, SoundDays
<1>2. /\ r \in DayType /\ r.recovery = s.recovery
      /\ \/ r = s
         \/ /\ s.cycle \in CycleType /\ s.cycle.gap # NoGap
            /\ r.cycle = [s.cycle EXCEPT !.state = "BULL_FLIP", !.counter = NoPivot, !.alternated = Never,
                                         !.source = {}, !.gap = NoGap, !.structure = KeptStructure(s.cycle)]
            /\ r.events = Append(s.events, Event("revoked", s.cycle, NoFact, "confirmation_gap_filled"))
  BY <1>1, ExpireGapDoes
<1> HIDE DEF r
<1>3. r \in SoundDays
  BY <1>1, <1>2 DEF SoundDays
<1>4. CASE r # s
  <2>1. s.cycle \in CycleType /\ s.cycle # NoCycle /\ IsUp(s.cycle) /\ s.cycle \in CycleShape
    BY <1>2, <1>4, CycleIsOne DEF CycleOrNone, CycleType
  <2>2. Alike(s.cycle, r.cycle)
    <3>1. PICK c \in CycleShape : c = s.cycle
      BY <2>1
    <3>2. r.cycle = [c EXCEPT !.state = "BULL_FLIP", !.counter = NoPivot, !.alternated = Never,
                              !.source = {}, !.gap = NoGap, !.structure = KeptStructure(c)]
      BY <1>2, <1>4, <3>1
    <3>3. /\ r.cycle.impulse = c.impulse /\ r.cycle.closed = c.closed /\ r.cycle.started = c.started
          /\ r.cycle.state = "BULL_FLIP"
      BY <3>2 DEF CycleShape
    <3>4. IsUp(r.cycle)
      BY <3>3 DEF IsUp
    <3> QED
      BY <2>1, <3>1, <3>3, <3>4, AlikeOn
  <2>3. "revoked" \in Kinds /\ "confirmation_gap_filled" \in Reasons /\ s.cycle \in CycleOrNone
    BY <2>1 DEF Kinds, Reasons, CycleOrNone
  <2>4. PICK e \in EventType : e = Event("revoked", s.cycle, NoFact, "confirmation_gap_filled")
    BY <2>3, EventTyped, Blanks
  <2>5. ~Opening(e) /\ ~Ends(e) /\ e.kind = "revoked"
    BY <2>3, <2>4, Unopening, Blanks
  <2>6. \A w \in WindowType : EndReason(e, w) \in {"none", "gap_filled"}
    BY <2>5 DEF EndReason
  <2>7. r.events = Append(s.events, e)
    BY <1>2, <1>4, <2>4
  <2>8. r \in ReadyDays(g)
    BY <1>3, <2>2, <2>5, <2>6, <2>7, StillDay
  <2> QED
    BY <2>8 DEF r
<1> QED
  BY <1>4 DEF r

\* A recovered rise that lost the high of its structure goes on with one as late.
LEMMA ContinuedReady ==
  ASSUME Typed, now >= 0, NEW g, NEW s \in ReadyDays(g), LooseOn(s.cycle)
  PROVE  ContinueImpulse(s) \in ReadyDays(g)
<1> DEFINE r == ContinueImpulse(s)
           c == s.cycle
<1>1. s \in DayType /\ Sound(s.recovery)
  BY DEF ReadyDays, SoundDays
<1>2. /\ r \in DayType /\ r.recovery = s.recovery
      /\ \/ r = s
         \/ /\ c \in CycleType /\ c.recovery /\ c.evidence \subseteq facts
            /\ ~ (ToSet(c.structure) \subseteq ToSet(points)) /\ Len(c.structure) = 3
            /\ \E k \in Extension(c) : r.cycle = [c EXCEPT !.impulse = points[k+2],
                                                           !.structure = SubSeq(points, k, k + 2)]
            /\ r.cycle \in CycleType
            /\ r.events = Append(s.events, Event("anchor", r.cycle, NoFact, "none"))
  BY <1>1, ContinueImpulseDoes
<1>3. LooseOn(c)
  OBVIOUS
<1> HIDE DEF r
<1>4. r \in SoundDays
  BY <1>1, <1>2 DEF SoundDays
<1>5. CASE r # s
  <2>1. c \in CycleType /\ c.recovery /\ c # NoCycle /\ IsUp(c) /\ c \in CycleShape /\ Len(c.structure) = 3
    BY <1>2, <1>5, CycleIsOne DEF CycleOrNone, CycleType
  <2>2. PICK k \in Extension(c) : r.cycle = [c EXCEPT !.impulse = points[k+2],
                                                      !.structure = SubSeq(points, k, k + 2)]
    BY <1>2, <1>5
  <2> HIDE DEF c
  <2>3. /\ k \in 1..(Len(points) - 2) /\ points[k] = c.structure[1] /\ points[k+1] = c.structure[2]
        /\ points[k+2].index >= c.structure[3].index
    BY DEF Extension
  <2>4. Len(points) \in Nat /\ k \in 1..Len(points) /\ k + 1 \in 1..Len(points) /\ k + 2 \in 1..Len(points)
    BY <2>3, PathTyped
  <2>5. points[k] \in ToSet(points) /\ points[k+1] \in ToSet(points) /\ points[k+2].index \in Int
    BY <2>4, PlaceTyped
  <2>6. c.structure[3] \in ToSet(c.structure) /\ c.structure[3] \notin ToSet(points)
        /\ c.structure[3].index \in Int
    <3>1. c.structure \in Seq(Pivots)
      BY <2>1 DEF CycleShape
    <3>2. DOMAIN c.structure = 1..3 /\ c.structure[3] \in Pivots
      BY <2>1, <3>1
    <3>3. ToSet(c.structure) = {c.structure[i] : i \in 1..3}
      BY <3>2 DEF ToSet
    <3>4. \A i \in 1..3 : i = 1 \/ i = 2 \/ i = 3
      OBVIOUS
    <3>5. ~(\A i \in 1..3 : c.structure[i] \in ToSet(points))
      <4>1. SUFFICES ASSUME \A i \in 1..3 : c.structure[i] \in ToSet(points)
                     PROVE  ToSet(c.structure) \subseteq ToSet(points)
        BY <1>2, <1>5 DEF c
      <4> SUFFICES ASSUME NEW x \in ToSet(c.structure) PROVE x \in ToSet(points)
        OBVIOUS
      <4>2. PICK i \in 1..3 : x = c.structure[i]
        BY <3>3
      <4> QED
        BY <4>1, <4>2
    <3> QED
      BY <2>3, <2>5, <3>2, <3>3, <3>4, <3>5 DEF Pivots
  <2>7. c.impulse.index <= c.structure[3].index
    <3>1. \A f \in c.evidence : f.point.index < c.structure[3].index
      <4>1. \A f \in c.evidence \cap facts : f.point.index < c.structure[3].index
        BY <1>3, <2>1, <2>6 DEF LooseOn, c
      <4>2. c.evidence \subseteq facts
        BY <1>2, <1>5 DEF c
      <4> QED
        BY <4>1, <4>2
    <3>2. \/ c.impulse.index <= c.structure[3].index
          \/ \E f \in c.evidence : c.impulse.index <= f.point.index
      BY <1>3, <2>1 DEF LooseOn, Anchored, c
    <3>3. ASSUME NEW f \in c.evidence, c.impulse.index <= f.point.index
          PROVE  c.impulse.index <= c.structure[3].index
      <4>1. f \in FactType /\ c.impulse.index \in Int
        BY <2>1 DEF CycleShape, Pivots
      <4>2. f.point.index \in Int
        BY <4>1 DEF FactType, Pivots
      <4> QED
        BY <2>6, <3>1, <3>3, <4>1, <4>2
    <3> QED
      BY <3>2, <3>3
  <2>8. Alike(c, r.cycle) /\ IsUp(r.cycle)
    <3>1. /\ r.cycle.impulse = points[k+2] /\ r.cycle.closed = c.closed /\ r.cycle.started = c.started
          /\ r.cycle.state = c.state
      BY <2>1, <2>2 DEF CycleShape
    <3>2. IsUp(r.cycle) = IsUp(c)
      BY <3>1 DEF IsUp
    <3>3. c.impulse.index \in Int
      BY <2>1 DEF CycleShape, Pivots
    <3>4. r.cycle.impulse.index >= c.impulse.index
      BY <2>3, <2>5, <2>6, <2>7, <3>1, <3>3
    <3> QED
      BY <2>1, <3>1, <3>2, <3>4, AlikeOn
  <2>9. "anchor" \in Kinds /\ "none" \in Reasons /\ r.cycle \in CycleOrNone
    BY <1>2, <1>5 DEF Kinds, Reasons, CycleOrNone
  <2>10. PICK e \in EventType : e = Event("anchor", r.cycle, NoFact, "none")
    BY <2>9, EventTyped, Blanks
  <2>11. ~Opening(e) /\ ~Ends(e) /\ e.kind = "anchor" /\ e.cycle = r.cycle
    BY <2>9, <2>10, Unopening, Blanks
  <2>12. \A w \in WindowType : EndReason(e, w) \in {"none", "gap_filled"}
    BY <2>8, <2>11, AnchorEndsNone
  <2>13. r.events = Append(s.events, e)
    BY <1>2, <1>5, <2>10
  <2>14. r \in ReadyDays(g)
    BY <1>4, <2>8, <2>11, <2>12, <2>13, StillDay DEF c
  <2> QED
    BY <2>14 DEF r
<1> QED
  BY <1>5 DEF r

\* A cycle that no longer stands is gone.
LEMMA EvidenceReady ==
  ASSUME Typed, now >= 0, NEW g, NEW s \in ReadyDays(g), NEW revised \in BOOLEAN
  PROVE  CheckEvidence(s, revised) \in ReadyDays(g)
<1> DEFINE r == CheckEvidence(s, revised)
<1>1. s \in DayType /\ Sound(s.recovery) /\ s.cycle \in CycleOrNone
  BY DEF ReadyDays, SoundDays, DayType
<1>2. /\ r \in DayType /\ r.recovery = s.recovery
      /\ \/ r = s
         \/ /\ r.cycle = NoCycle
            /\ r.events = Append(s.events, Event("invalidated", s.cycle, NoFact, "source_evidence_revised"))
  BY <1>1, CheckEvidenceDoes
<1> HIDE DEF r
<1>3. r \in SoundDays
  BY <1>1, <1>2 DEF SoundDays
<1>4. CASE r # s
  <2>1. "invalidated" \in Kinds /\ "source_evidence_revised" \in Reasons
    BY DEF Kinds, Reasons
  <2>2. PICK e \in EventType : e = Event("invalidated", s.cycle, NoFact, "source_evidence_revised")
    BY <1>1, <2>1, EventTyped, Blanks
  <2>3. ~Opening(e) /\ ~Ends(e)
    BY <1>1, <2>1, <2>2, Unopening, Blanks
  <2>4. r.events = Append(s.events, e) /\ NotUp(r.cycle)
    BY <1>2, <1>4, <2>2 DEF NotUp
  <2>5. r \in ReadyDays(g)
    BY <1>3, <2>3, <2>4, StillDay
  <2> QED
    BY <2>5 DEF r
<1> QED
  BY <1>4 DEF r

\* A day before its facts.
LEMMA CheckedReady ==
  ASSUME Base, Loose, GateStands, Reopening, now >= 0, NEW completed \in BOOLEAN,
         NEW revised \in BOOLEAN
  PROVE  Checked(revised) \in ReadyDays(Gate(Book, Keys(completed)))
<1>0. Typed /\ Vertices /\ Sound(recovery)
  BY DEF Base
<1> DEFINE g == Gate(Book, Keys(completed))
           a == ExpireGap(Start)
           b == ContinueImpulse(a)
           c == CheckEvidence(b, revised)
           d == CheckSeed(c)
<1>1. Start \in ReadyDays(g)
  BY StartReady
<1> HIDE DEF g
<1>2. a \in ReadyDays(g)
  BY <1>0, <1>1, FillReady
<1>3. LooseOn(a.cycle)
  <2>1. Start \in DayType /\ Start.cycle = cycle
    BY <1>0, StartTyped
  <2>2. \/ a = Start
        \/ /\ Start.cycle \in CycleType
           /\ a.cycle = [Start.cycle EXCEPT !.state = "BULL_FLIP", !.counter = NoPivot, !.alternated = Never,
                                   !.source = {}, !.gap = NoGap, !.structure = KeptStructure(Start.cycle)]
    BY <2>1, ExpireGapDoes
  <2> HIDE DEF a
  <2>3. CASE a = Start
    BY <2>1, <2>3 DEF Loose
  <2>4. CASE a # Start
    <3>1. PICK x \in CycleType : x = cycle
      BY <2>1, <2>2, <2>4
    <3>2. x \in CycleShape /\ a.cycle = [x EXCEPT !.state = "BULL_FLIP", !.counter = NoPivot, !.alternated = Never,
                                   !.source = {}, !.gap = NoGap, !.structure = KeptStructure(x)]
      BY <2>1, <2>2, <2>4, <3>1 DEF CycleType
    <3>3. /\ a.cycle.structure = KeptStructure(x) /\ a.cycle.recovery = x.recovery
          /\ a.cycle.impulse = x.impulse /\ a.cycle.evidence = x.evidence
      BY <3>2 DEF CycleShape
    <3>4. LooseOn(x) /\ x # NoCycle
      BY <3>1, CycleIsOne DEF Loose, CycleOrNone
    <3>5. Anchored(a.cycle)
      BY <3>3, <3>4, AnchoredKept DEF LooseOn
    <3> QED
      BY <3>3, <3>4, <3>5, KeptPart DEF LooseOn, Stands
  <2> QED
    BY <2>3, <2>4
<1> HIDE DEF a
<1>4. b \in ReadyDays(g)
  BY <1>0, <1>2, <1>3, ContinuedReady
<1> HIDE DEF b
<1>5. c \in ReadyDays(g)
  BY <1>0, <1>4, EvidenceReady
<1> HIDE DEF c
<1>6. c \in SoundDays /\ c \in DayType
  BY <1>5 DEF ReadyDays, SoundDays
<1>7. /\ d \in DayType /\ d.cycle = c.cycle /\ d.events = c.events
      /\ d.recovery = c.recovery \/ d.recovery = NoRecovery
  BY <1>6, CheckSeedDoes
<1> HIDE DEF d
<1>8. d \in SoundDays
  BY <1>0, <1>6, <1>7, BlankSound DEF SoundDays
<1>9. d \in ReadyDays(g)
  BY <1>5, <1>7, <1>8, SameDay
<1> QED
  BY <1>9 DEF Checked, a, b, c, d, g

\* A new fact begins a rise today, or moves on or confirms the one there is.
LEMMA TakeReady ==
  ASSUME Base, Facts, now >= 0, NEW g, NEW s \in ReadyDays(g), NEW f \in facts
  PROVE  Taken(TRUE, s, f) \in ReadyDays(g)
<1>0. Typed /\ Vertices /\ f \in FactType /\ f.known \in Int /\ f.point.index \in Int /\ f.impulse.index \in Int
  BY DEF Base, Typed, FactType, Pivots
<1> DEFINE r == Taken(TRUE, s, f)
           c == s.cycle
           d == r.cycle
           up == Rises(f)
<1>1. s \in DayType /\ Sound(s.recovery) /\ Coupled(g, s) /\ Ready(After(g, s), c)
  BY DEF ReadyDays, SoundDays
<1>2. /\ r \in DayType
      /\ \/ r.recovery = s.recovery
         \/ r.recovery = NoRecovery
         \/ r.recovery = [NoRecovery EXCEPT !.seed = f]
      /\ (d = c /\ r.events = s.events) \/ Consumed(s, r, f)
  BY <1>0, <1>1, TakeDoes
<1>3. up \in BOOLEAN
  BY DEF Rises
<1> HIDE DEF r
<1>4. r \in SoundDays
  BY <1>0, <1>1, <1>2, BlankSound DEF SoundDays
<1>5. d \in CycleOrNone
  BY <1>2 DEF DayType
<1>6. CASE d = c /\ r.events = s.events
  <2>1. r \in ReadyDays(g)
    BY <1>4, <1>6, SameDay
  <2> QED
    BY <2>1 DEF r
<1>7. "state" \in Kinds /\ "anchor" \in Kinds /\ "none" \in Reasons
  BY DEF Kinds, Reasons
<1>8. CASE FlipStarts(s, r, f, up)
  <2>1. /\ d = NewCycle(up, f.origin, f.point, {f})
        /\ r.events = Append(s.events, Event("state", d, f, "none"))
    BY <1>8 DEF FlipStarts
  <2> HIDE DEF d, up
  <2>2. d.started = now /\ d.state = FlipState(up)
    BY <2>1 DEF NewCycle
  <2>3. PICK e \in EventType : e = Event("state", d, f, "none")
    BY <1>0, <1>5, <1>7, EventTyped
  <2>4. e.kind = "state" /\ e.cycle = d
    BY <2>3 DEF Event
  <2>5. ~Opening(e) /\ ~Ends(e)
    BY <1>3, <2>2, <2>4 DEF Opening, Ends, FlipState
  <2>6. r.events = Append(s.events, e) /\ r.cycle.started = now
    BY <2>1, <2>2, <2>3 DEF d
  <2>7. r \in ReadyDays(g)
    BY <1>0, <1>4, <2>5, <2>6, StillDay
  <2> QED
    BY <2>7 DEF r
<1>9. CASE FlipMoves(s, r, f, up)
  <2>1. /\ c \in CycleType /\ c \in CycleShape /\ IsUp(c) = up /\ f.point.index > c.impulse.index
        /\ d = [c EXCEPT !.impulse = f.point, !.evidence = c.evidence \cup {f}]
        /\ r.events = Append(s.events, Event("anchor", d, f, "none"))
    BY <1>9 DEF FlipMoves, CycleType
  <2> HIDE DEF c, d, up
  <2>2. /\ d.impulse = f.point /\ d.state = c.state /\ d.started = c.started /\ d.closed = c.closed
    BY <2>1 DEF CycleShape
  <2>3. IsUp(d) = IsUp(c)
    BY <2>2 DEF IsUp
  <2>4. Alike(c, d)
    <3>1. c.impulse.index \in Int
      BY <2>1 DEF CycleShape, Pivots
    <3>2. d.impulse.index >= c.impulse.index
      BY <1>0, <2>1, <2>2, <3>1
    <3> QED
      BY <2>1, <2>2, <2>3, <3>2, AlikeOn
  <2>5. PICK e \in EventType : e = Event("anchor", d, f, "none")
    BY <1>0, <1>5, <1>7, EventTyped
  <2>6. ~Opening(e) /\ ~Ends(e) /\ e.kind = "anchor" /\ e.cycle = d
    BY <1>0, <1>5, <1>7, <2>5, Unopening
  <2>7. CASE IsUp(d)
    <3>1. \A w \in WindowType : EndReason(e, w) \in {"none", "gap_filled"}
      BY <2>6, <2>7, AnchorEndsNone
    <3>2. r.events = Append(s.events, e) /\ Alike(s.cycle, r.cycle)
      BY <2>1, <2>4, <2>5 DEF c, d
    <3>3. r \in ReadyDays(g)
      BY <1>0, <1>4, <2>6, <3>1, <3>2, StillDay
    <3> QED
      BY <3>3 DEF r
  <2>8. CASE ~IsUp(d)
    <3>1. r.events = Append(s.events, e) /\ NotUp(r.cycle)
      BY <2>1, <2>5, <2>8 DEF NotUp, d
    <3>2. r \in ReadyDays(g)
      BY <1>0, <1>4, <2>6, <3>1, StillDay
    <3> QED
      BY <3>2 DEF r
  <2> QED
    BY <2>7, <2>8
<1>10. CASE Alternates(s, r, f, up)
  <2>1. /\ c \in CycleType /\ c \in CycleShape /\ IsUp(c) = up /\ FlipConfirmed(c)
        /\ f.impulse.index = c.impulse.index \/ f.impulse.index > c.impulse.index
        /\ f.point.index > f.impulse.index /\ f.known > c.closed
        /\ d = [c EXCEPT !.state = AlternationState(up), !.impulse = f.impulse,
                         !.counter = f.point, !.alternated = now, !.evidence = c.evidence \cup {f},
                         !.gap = NoGap, !.source = {}, !.closed = Never]
        /\ r.events = Append(s.events, [Event("state", d, f, "none") EXCEPT !.replaces = c.gap.index])
    BY <1>10 DEF Alternates, Accepts, CycleType, Same
  <2> HIDE DEF c, d, up
  <2>2. /\ d.state = AlternationState(up) /\ d.recovery = c.recovery /\ d.evidence = c.evidence \cup {f}
        /\ d.impulse = f.impulse /\ d.started = c.started /\ d.gap = NoGap
    BY <2>1 DEF CycleShape
  <2>3. PICK x \in EventType : x = Event("state", d, f, "none")
    BY <1>0, <1>5, <1>7, EventTyped
  <2>4. x.known = f.known /\ x.kind = "state" /\ x.cycle = d
    BY <2>3 DEF Event
  <2>5. c.gap.index \in Int
    BY <2>1 DEF CycleShape, Gaps
  <2>6. PICK e \in EventType : e = [x EXCEPT !.replaces = c.gap.index]
    <3>1. [x EXCEPT !.replaces = c.gap.index] \in EventType
      BY <2>5 DEF EventType
    <3> QED
      BY <3>1
  <2>7. e.known = f.known /\ e.kind = "state" /\ e.cycle = d /\ r.events = Append(s.events, e)
    BY <2>1, <2>3, <2>4, <2>6 DEF EventType
  <2>8. CASE up
    <3>1. IsUp(d) /\ d.state = "BULL_ALTERNATION"
      BY <2>2, <2>8 DEF AlternationState, IsUp
    <3>2. FlipConfirmed(d)
      BY <2>1, <2>2, <2>8, <3>1 DEF FlipConfirmed
    <3>3. Opening(e)
      BY <2>7, <3>1, <3>2 DEF Opening
    <3>4. f.impulse.index < f.known
      <4>1. PICK j \in 1..Len(points) : f.point = points[j] /\ f.known = points[j].known
        BY DEF Facts, FactOK
      <4>2. points[j].index < points[j].known
        BY <1>0 DEF Vertices
      <4> QED
        BY <1>0, <2>1, <4>1, <4>2
    <3>5. Lawful(After(g, s), e)
      <4>1. After(g, s) \in BookType /\ Tidy(After(g, s).windows) /\ Ready(After(g, s), c)
        BY <1>1 DEF Coupled, c
      <4>2. /\ e.cycle.started = c.started /\ e.known \in Int /\ e.known > c.closed
            /\ e.cycle.impulse.index \in Int /\ e.cycle.impulse.index < e.known /\ e.cycle.gap = NoGap
        BY <1>0, <2>1, <2>2, <2>7, <3>4
      <4> QED
        BY <1>0, <2>1, <2>8, <4>1, <4>2, WaitingLawful
    <3>6. Continues(s.cycle, e.cycle) /\ r.cycle = e.cycle
      <4>1. c # NoCycle /\ c.impulse.index \in Int
        BY <2>1, CycleIsOne DEF CycleOrNone, CycleShape, Pivots
      <4> QED
        BY <1>0, <2>1, <2>2, <2>7, <2>8, <4>1 DEF Continues, c, d
    <3>7. Coupled(g, r) /\ Ready(After(g, r), r.cycle)
      BY <1>0, <1>1, <1>2, <2>7, <3>3, <3>5, <3>6, OpeningCoupled DEF c
    <3>8. r \in ReadyDays(g)
      BY <1>4, <3>7 DEF ReadyDays
    <3> QED
      BY <3>8 DEF r
  <2>9. CASE ~up
    <3>1. ~IsUp(d) /\ d.state # "BULL_ALTERNATION"
      BY <2>2, <2>9 DEF AlternationState, IsUp
    <3>2. ~Opening(e) /\ ~Ends(e)
      BY <2>7, <3>1 DEF Opening, Ends
    <3>3. NotUp(r.cycle)
      BY <3>1 DEF NotUp, d
    <3>4. r \in ReadyDays(g)
      BY <1>0, <1>4, <2>7, <3>2, <3>3, StillDay
    <3> QED
      BY <3>4 DEF r
  <2> QED
    BY <1>3, <2>8, <2>9 DEF up
<1> QED
  BY <1>2, <1>6, <1>8, <1>9, <1>10 DEF Consumed

\* A fall ends the rise; a recovered one begins today.
LEMMA RecoveryReady ==
  ASSUME Typed, Vertices, now >= 0, NEW g, NEW s \in ReadyDays(g)
  PROVE  AdvanceRecovery(s) \in ReadyDays(g)
<1> DEFINE r == AdvanceRecovery(s)
<1>1. s \in DayType /\ Sound(s.recovery) /\ s.cycle \in CycleOrNone
  BY DEF ReadyDays, SoundDays, DayType
<1>2. r \in DayType /\ Sound(r.recovery) /\ (Waits(s, r) \/ Falls(s, r) \/ Rebounds(s, r))
  BY <1>1, AdvanceRecoveryDoes
<1> HIDE DEF r
<1>3. r \in SoundDays /\ r.cycle \in CycleOrNone
  BY <1>2 DEF SoundDays, DayType
<1>4. "invalidated" \in Kinds /\ "bull_recovery_pending" \in Reasons /\ NoCycle \in CycleOrNone
      /\ "state" \in Kinds /\ "none" \in Reasons
  BY DEF Kinds, Reasons, CycleOrNone
<1>5. CASE Waits(s, r)
  <2>1. r \in ReadyDays(g)
    BY <1>3, <1>5, SameDay DEF Waits
  <2> QED
    BY <2>1 DEF r
<1>6. CASE Falls(s, r)
  <2>1. NotUp(r.cycle) /\ r.events = Append(s.events, Pending)
    BY <1>6 DEF Falls, NotUp
  <2>2. PICK e \in EventType : e = Pending
    BY <1>4, EventTyped, Blanks DEF Pending
  <2>3. ~Opening(e) /\ ~Ends(e)
    BY <1>4, <2>2, Unopening, Blanks DEF Pending
  <2>4. r.events = Append(s.events, e)
    BY <2>1, <2>2
  <2>5. r \in ReadyDays(g)
    BY <1>3, <2>1, <2>3, <2>4, StillDay
  <2> QED
    BY <2>5 DEF r
<1>7. CASE Rebounds(s, r)
  <2>1. r.events = Append(s.events, Event("state", r.cycle, NoFact, "none"))
    BY <1>7 DEF Rebounds
  <2>2. PICK q \in RecoveryType : \E k \in 1..(Len(points) - 2) : r.cycle = SpecialCycle(q, k)
    BY <1>7 DEF Rebounds
  <2>3. PICK k \in 1..(Len(points) - 2) : r.cycle = SpecialCycle(q, k)
    BY <2>2
  <2>4. r.cycle.started = now /\ r.cycle.state = "BULL_FLIP"
    BY <2>3, SpecialTyped
  <2>5. PICK e \in EventType : e = Event("state", r.cycle, NoFact, "none")
    BY <1>3, <1>4, EventTyped, Blanks
  <2>6. e.kind = "state" /\ e.cycle = r.cycle
    BY <2>5 DEF Event
  <2>7. ~Opening(e) /\ ~Ends(e)
    BY <2>4, <2>6 DEF Opening, Ends
  <2>8. r.events = Append(s.events, e)
    BY <2>1, <2>5
  <2>9. r \in ReadyDays(g)
    BY <1>3, <2>4, <2>7, <2>8, StillDay
  <2> QED
    BY <2>9 DEF r
<1> QED
  BY <1>2, <1>5, <1>6, <1>7

\* A proven alternation, or the end of the rise.
LEMMA AlternationReady ==
  ASSUME Typed, Vertices, now >= 0, NEW g, NEW s \in ReadyDays(g), NEW r \in AdvanceAlternation(s)
  PROVE  r \in ReadyDays(g)
<1> DEFINE c == s.cycle
           d == r.cycle
<1>1. s \in DayType /\ Sound(s.recovery) /\ Coupled(g, s) /\ c \in CycleOrNone /\ Ready(After(g, s), c)
  BY DEF ReadyDays, SoundDays, DayType
<1>2. /\ r \in DayType /\ r.recovery = s.recovery
      /\ \/ r = s
         \/ /\ d = NoCycle
            /\ r.events = Append(s.events, Event("invalidated", c, NoFact, "special_bull_origin_broken"))
         \/ Proves(s, r)
  BY <1>1, AdvanceAlternationDoes
<1>3. r \in SoundDays /\ d \in CycleOrNone
  BY <1>1, <1>2 DEF SoundDays, DayType
<1>4. "invalidated" \in Kinds /\ "special_bull_origin_broken" \in Reasons
      /\ "state" \in Kinds /\ "none" \in Reasons
  BY DEF Kinds, Reasons
<1>5. CASE /\ d = NoCycle
           /\ r.events = Append(s.events, Event("invalidated", c, NoFact, "special_bull_origin_broken"))
  <2>1. PICK e \in EventType : e = Event("invalidated", c, NoFact, "special_bull_origin_broken")
    BY <1>1, <1>4, EventTyped, Blanks
  <2>2. ~Opening(e) /\ ~Ends(e)
    BY <1>1, <1>4, <2>1, Unopening, Blanks
  <2>3. r.events = Append(s.events, e) /\ NotUp(r.cycle)
    BY <1>5, <2>1 DEF NotUp
  <2> QED
    BY <1>3, <2>2, <2>3, StillDay
<1>6. CASE Proves(s, r)
  <2>1. /\ c \in CycleType /\ IsUp(c) /\ c # NoCycle /\ FlipConfirmed(c) /\ KeyOf(c) \in ToSet(points)
        /\ c.impulse \in ToSet(points)
        /\ \E p : /\ Proof(c, p) /\ d = Proven(c, p)
                  /\ r.events = Append(s.events, [Event("state", d, NoFact, "none") EXCEPT
                                                    !.known = p.known, !.replaces = c.gap.index])
    BY <1>6 DEF Proves, NeedsConfirmation
  <2> HIDE DEF c, d
  <2>2. PICK p : /\ Proof(c, p) /\ d = Proven(c, p)
                 /\ r.events = Append(s.events, [Event("state", d, NoFact, "none") EXCEPT
                                                   !.known = p.known, !.replaces = c.gap.index])
    BY <2>1
  <2>3. /\ IsUp(d) /\ d.state = "BULL_ALTERNATION" /\ d.impulse = c.impulse /\ d.started = c.started
        /\ d.evidence = c.evidence /\ d.recovery = c.recovery /\ d.gap = p.gap
    BY <2>1, <2>2, ProvenTyped
  <2>4. c \in CycleShape /\ p.known \in Int
    BY <2>1, <2>2 DEF CycleType, Proof, ProofType
  <2>5. c.gap.index \in Int /\ c.impulse.index \in Int /\ c.impulse.known \in Int /\ c.closed \in Int
    BY <2>4 DEF CycleShape, Gaps, Pivots
  <2>6. PICK x \in EventType : x = Event("state", d, NoFact, "none")
    BY <1>3, <1>4, EventTyped, Blanks
  <2>7. x.kind = "state" /\ x.cycle = d
    BY <2>6 DEF Event
  <2>8. PICK e \in EventType : e = [x EXCEPT !.known = p.known, !.replaces = c.gap.index]
    <3>1. [x EXCEPT !.known = p.known, !.replaces = c.gap.index] \in EventType
      BY <2>4, <2>5 DEF EventType
    <3> QED
      BY <3>1
  <2>9. e.known = p.known /\ e.kind = "state" /\ e.cycle = d /\ r.events = Append(s.events, e)
    BY <2>2, <2>6, <2>7, <2>8 DEF EventType
  <2>10. FlipConfirmed(d)
    BY <2>1, <2>3 DEF FlipConfirmed
  <2>11. Opening(e)
    BY <2>3, <2>9, <2>10 DEF Opening
  <2>12. c.impulse.index < c.impulse.known
    <3>1. PICK i \in 1..Len(points) : c.impulse = points[i]
      BY <2>1, PointTyped
    <3> QED
      BY <3>1 DEF Vertices
  <2>13. Lawful(After(g, s), e)
    <3>1. After(g, s) \in BookType /\ Tidy(After(g, s).windows) /\ Ready(After(g, s), c)
      BY <1>1 DEF Coupled, c
    <3>2. p.known > c.closed /\ p.known >= c.impulse.known /\ (p.gap = NoGap \/ p.gap.index = now)
      BY <2>2 DEF Proof
    <3>3. /\ e.cycle.started = c.started /\ e.known \in Int /\ e.known > c.closed
          /\ e.cycle.impulse.index \in Int /\ e.cycle.impulse.index < e.known
          /\ e.cycle.gap = NoGap \/ e.cycle.gap.index = now
      BY <2>3, <2>4, <2>5, <2>9, <2>12, <3>2
    <3> QED
      BY <2>1, <3>1, <3>3, WaitingLawful
  <2>14. Continues(s.cycle, e.cycle) /\ r.cycle = e.cycle
    BY <2>1, <2>3, <2>5, <2>9 DEF Continues, c, d
  <2>15. Coupled(g, r) /\ Ready(After(g, r), r.cycle)
    BY <1>1, <1>2, <2>9, <2>11, <2>13, <2>14, OpeningCoupled DEF c
  <2> QED
    BY <1>3, <2>15 DEF ReadyDays
<1> QED
  BY <1>2, <1>5, <1>6
-----------------------------------------------------------------------------
(* The end of a day: what closes from here on keeps it settling. *)

\* The price ends the rise, takes it back to its flip, or confirms it; it opens nothing.
LEMMA PriceSettles ==
  ASSUME Typed, now >= 0, NEW g, NEW s \in SettlingDays(g)
  PROVE  Price(s) \in SettlingDays(g)
<1> DEFINE c == s.cycle
           r == Price(s)
<1>1. s \in DayType /\ s \in SoundDays /\ Sound(s.recovery) /\ c \in CycleOrNone
  BY DEF SettlingDays, SoundDays, DayType
<1>2. /\ r \in DayType /\ r.recovery = s.recovery
      /\ r = s \/ PriceEnds(s, r) \/ PriceReturns(s, r) \/ PriceConfirms(s, r)
  BY <1>1, PriceDoes
<1> HIDE DEF r, c
<1>3. r \in SoundDays /\ r.cycle \in CycleOrNone
  BY <1>1, <1>2 DEF SoundDays, DayType
<1>4. "invalidated" \in Kinds /\ "anchor" \in Kinds /\ "state" \in Kinds
      /\ "none" \in Reasons /\ "defense_broken" \in Reasons
  BY DEF Kinds, Reasons
<1>5. PICK e \in EventType : e = Lost(c)
  BY <1>1, <1>4, Unopening, Blanks DEF Lost
<1>6. ~Opening(e) /\ ~Ends(e)
  BY <1>1, <1>4, <1>5, Unopening, Blanks DEF Lost
<1>7. CASE PriceEnds(s, r)
  <2>1. r.events = Append(s.events, e) /\ Alike(s.cycle, r.cycle)
    BY <1>5, <1>7 DEF PriceEnds, Alike, Continues, c
  <2>2. r \in SettlingDays(g)
    BY <1>3, <1>6, <2>1, LateDay
  <2> QED
    BY <2>2 DEF r
<1>8. CASE PriceReturns(s, r)
  <2>1. /\ c \in CycleType /\ r.cycle = Again(c)
        /\ r.events = Append(Append(s.events, e), Event("anchor", r.cycle, NoFact, "none"))
    BY <1>5, <1>8 DEF PriceReturns, c
  <2> DEFINE m == Emit(s, e)
  <2>2. /\ m \in DayType /\ m.cycle = s.cycle /\ m.recovery = s.recovery /\ m.events = Append(s.events, e)
    BY <1>1, EmitTyped
  <2> HIDE DEF m
  <2>3. m \in SoundDays /\ Alike(s.cycle, m.cycle)
    BY <1>1, <2>2, AlikeItself DEF SoundDays, c
  <2>4. m \in SettlingDays(g)
    BY <1>6, <2>2, <2>3, LateDay
  <2>5. PICK x \in EventType : x = Event("anchor", r.cycle, NoFact, "none")
    BY <1>3, <1>4, Unopening, Blanks
  <2>6. ~Opening(x) /\ ~Ends(x)
    BY <1>3, <1>4, <2>5, Unopening, Blanks
  <2>7. /\ Again(c).impulse = c.impulse /\ Again(c).started = c.started
        /\ Again(c).closed = c.closed /\ IsUp(Again(c)) = IsUp(c)
    BY <2>1, AgainTyped
  <2>8. Alike(c, Again(c))
    BY <2>1, <2>7, AlikeOn
  <2>9. Alike(m.cycle, r.cycle)
    BY <2>1, <2>2, <2>8 DEF c
  <2>10. r.events = Append(m.events, x)
    BY <2>1, <2>2, <2>5
  <2>11. r \in SettlingDays(g)
    BY <1>3, <2>4, <2>6, <2>9, <2>10, LateDay
  <2> QED
    BY <2>11 DEF r
<1>9. CASE PriceConfirms(s, r)
  <2>1. /\ c \in CycleType /\ r.cycle = [c EXCEPT !.state = ConfirmedState(IsUp(c))]
        /\ r.events = Append(s.events, Event("state", r.cycle, NoFact, "none"))
    BY <1>9 DEF PriceConfirms, c
  <2>2. c \in CycleShape /\ c # NoCycle
    BY <1>1, <2>1, CycleIsOne DEF c
  <2>3. /\ r.cycle.state = ConfirmedState(IsUp(c)) /\ r.cycle.impulse = c.impulse
        /\ r.cycle.started = c.started /\ r.cycle.closed = c.closed
    BY <2>1, <2>2 DEF CycleShape
  <2>4. Alike(s.cycle, r.cycle)
    <3>1. IsUp(r.cycle) = IsUp(c)
      BY <2>3 DEF IsUp, ConfirmedState
    <3>2. Alike(c, r.cycle)
      BY <2>1, <2>3, <3>1, AlikeOn
    <3> QED
      BY <3>2 DEF c
  <2>5. PICK x \in EventType : x = Event("state", r.cycle, NoFact, "none")
    BY <1>3, <1>4, EventTyped, Blanks
  <2>6. x.kind = "state" /\ x.cycle = r.cycle
    BY <2>5 DEF Event
  <2>7. ~Opening(x) /\ ~Ends(x)
    BY <2>3, <2>6 DEF Opening, Ends, ConfirmedState
  <2>8. r.events = Append(s.events, x)
    BY <2>1, <2>5
  <2>9. r \in SettlingDays(g)
    BY <1>3, <2>4, <2>7, <2>8, LateDay
  <2> QED
    BY <2>9 DEF r
<1> QED
  BY <1>2, <1>7, <1>8, <1>9 DEF r

\* A broken bear structure and a spent seed open nothing either.
LEMMA BreakSettles ==
  ASSUME Typed, now >= 0, NEW g, NEW s \in SettlingDays(g)
  PROVE  SpendSeed(BreakStructure(s)) \in SettlingDays(g)
<1> DEFINE y == BreakStructure(s)
           z == SpendSeed(y)
           e == Event("bear_break", NoCycle, NoFact, "none")
<1>1. s \in DayType /\ Sound(s.recovery)
  BY DEF SettlingDays, SoundDays
<1>2. /\ y \in DayType /\ y.cycle = s.cycle /\ y.recovery = s.recovery
      /\ y.events = s.events \/ y.events = Append(s.events, e)
  BY <1>1, BreakStructureDoes
<1> HIDE DEF y
<1>3. y \in SoundDays /\ Alike(s.cycle, y.cycle)
  BY <1>1, <1>2, AlikeItself DEF SoundDays, DayType
<1>4. e \in EventType /\ ~Opening(e) /\ ~Ends(e)
  <2>1. "bear_break" \in Kinds /\ "none" \in Reasons /\ NoCycle \in CycleOrNone
    BY DEF Kinds, Reasons, CycleOrNone
  <2> QED
    BY <2>1, Unopening, Blanks
<1> HIDE DEF e
<1>5. y \in SettlingDays(g)
  BY <1>2, <1>3, <1>4, LateDay, LateSameDay
<1>6. /\ z \in DayType /\ z.cycle = y.cycle /\ z.events = y.events
      /\ z.recovery = y.recovery \/ z.recovery = NoRecovery
  BY <1>2, SpendSeedDoes
<1> HIDE DEF z
<1>7. z \in SoundDays
  BY <1>3, <1>6, BlankSound DEF SoundDays
<1>8. z \in SettlingDays(g)
  BY <1>5, <1>6, <1>7, LateSameDay
<1> QED
  BY <1>8 DEF z, y

\* A day that ends settles its book.
LEMMA AdvancedSettles ==
  ASSUME Base, Facts, Loose, GateStands, Reopening, now >= 0,
         NEW completed \in BOOLEAN, NEW revised \in BOOLEAN, NEW s \in Advanced(revised)
  PROVE  s \in SettlingDays(Gate(Book, Keys(completed)))
<1>0. Typed /\ Vertices
  BY DEF Base
<1> DEFINE g == Gate(Book, Keys(completed))
           k == Checked(revised)
<1>1. k \in ReadyDays(g)
  BY CheckedReady
<1> HIDE DEF g
<1>2. PICK new \in NewFacts : \E w \in AdvanceAlternation(AdvanceRecovery(ConsumeFacts(k, new))) :
            s = SpendSeed(BreakStructure(Price(w)))
  BY AdvancedStages
<1> DEFINE u == ConsumeFacts(k, new)
           G == ReadyDays(g)
<1> HIDE DEF k
<1>3. u \in ReadyDays(g)
  <2>1. \A b \in G : \A f \in facts \ seen : Taken(TRUE, b, f) \in G
    BY TakeReady
  <2> HIDE DEF G
  <2>2. k \in G
    BY <1>1 DEF G
  <2>3. u \in G
    BY <1>0, <2>1, <2>2, FactsStay
  <2> QED
    BY <2>3 DEF G
<1>4. PICK w \in AdvanceAlternation(AdvanceRecovery(u)) : s = SpendSeed(BreakStructure(Price(w)))
  BY <1>2
<1> HIDE DEF u, G
<1> DEFINE v == AdvanceRecovery(u)
           x == Price(w)
<1>5. v \in ReadyDays(g)
  BY <1>0, <1>3, RecoveryReady
<1>6. w \in ReadyDays(g)
  <2> HIDE DEF v
  <2>1. w \in AdvanceAlternation(v)
    BY <1>4 DEF v
  <2> QED
    BY <1>0, <1>5, <2>1, AlternationReady
<1>7. x \in SettlingDays(g)
  BY <1>0, <1>6, ReadySettles, PriceSettles
<1> HIDE DEF x
<1>8. SpendSeed(BreakStructure(x)) \in SettlingDays(g)
  BY <1>0, <1>7, BreakSettles
<1> QED
  BY <1>4, <1>8 DEF x, g

\* The closings of the end of the day leave it settled.
LEMMA LateSettles ==
  ASSUME Typed, now >= 0, NEW b \in BookType, NEW x \in BookType, Late(b, x), NEW c \in CycleOrNone,
         Tidy(b.windows), GateApart(b), Settling(b, c)
  PROVE  Tidy(x.windows) /\ GateApart(x) /\ Settling(x, c)
<1>1. CASE x = b
  BY <1>1
<1>2. CASE /\ IsOpen(b.windows) /\ ~IsOpen(x.windows) /\ x.closed
           /\ x.barrier = b.barrier /\ x.released = b.released
           /\ \E reason \in {"gap_filled", "reversal_low_broken"} : x.windows = Shut(b.windows, reason)
  <2>1. PICK reason \in {"gap_filled", "reversal_low_broken"} : x.windows = Shut(b.windows, reason)
    BY <1>2
  <2>2. reason \in Closings
    BY DEF Closings
  <2>3. b.windows \in Seq(WindowType) /\ b.windows # <<>>
    BY <1>2 DEF BookType, IsOpen
  <2>4. Tidy(x.windows) /\ SameWindow(b.windows, x.windows)
    BY <2>1, <2>2, <2>3, ShutTidy, ShutSame
  <2>5. GateApart(x)
    BY <1>2, <2>1, <2>2, ShutApart
  <2>6. Grown(b, c) /\ Continues(c, c)
    BY AlikeItself DEF Alike, Settling
  <2>7. Grown(x, c)
    BY <2>3, <2>4, <2>6, GrownOn
  <2> QED
    BY <1>2, <2>4, <2>5, <2>7 DEF Settling
<1> QED
  BY <1>1, <1>2 DEF Late

\* At its end the book of the day is settled.
LEMMA BookSettles ==
  ASSUME Typed, now >= 0, NEW g, NEW t \in SettlingDays(g)
  PROVE  /\ Settled(g, t.events) \in BookType /\ Tidy(Settled(g, t.events).windows)
         /\ GateApart(Settled(g, t.events)) /\ Settling(Settled(g, t.events), t.cycle)
<1> DEFINE u == After(g, t)
           v == FillGap(u)
           w == BreakReversal(v)
           c == t.cycle
<1>1. /\ u \in BookType /\ Tidy(u.windows) /\ GateApart(u) /\ Settling(u, c)
      /\ c \in CycleOrNone
  BY DEF SettlingDays, SoundDays, DayType, Coupled
<1>2. w = Settled(g, t.events)
  BY DEF Settled, After
<1> HIDE DEF u, c
<1>3. v \in BookType /\ Late(u, v)
  BY <1>1, FillGapDoes
<1> HIDE DEF v
<1>4. Tidy(v.windows) /\ GateApart(v) /\ Settling(v, c)
  BY <1>1, <1>3, LateSettles
<1>5. w \in BookType /\ Late(v, w)
  BY <1>3, BreakReversalDoes
<1> HIDE DEF w
<1>6. Tidy(w.windows) /\ GateApart(w) /\ Settling(w, c)
  BY <1>1, <1>3, <1>4, <1>5, LateSettles
<1> QED
  BY <1>2, <1>5, <1>6 DEF c

\* The confirmation of a fall on another path settles too.
LEMMA BearSettles ==
  ASSUME Typed, now >= 0, NEW g, NEW s \in SettlingDays(g), NEW bear \in {<<>>, <<SourceBear>>}
  PROVE  \E t \in SettlingDays(g) : t.events = s.events \o bear /\ t.cycle = s.cycle
<1>1. s \in DayType /\ s.events \in Seq(EventType) /\ s.cycle \in CycleOrNone /\ Sound(s.recovery)
  BY DEF SettlingDays, SoundDays, DayType
<1>2. CASE bear = <<>>
  <2>1. s.events \o <<>> = s.events
    BY <1>1
  <2> QED
    BY <1>2, <2>1
<1>3. CASE bear = <<SourceBear>>
  <2>1. PICK e \in EventType : e = SourceBear
    BY BearTyped, <1>1
  <2>2. ~Opening(e) /\ ~Ends(e)
    <3>1. "source_bear" \in Kinds /\ "none" \in Reasons /\ NoCycle \in CycleOrNone
      BY DEF Kinds, Reasons, CycleOrNone
    <3> QED
      BY <2>1, <3>1, Unopening, Blanks DEF SourceBear
  <2> DEFINE t == Emit(s, e)
  <2>3. t \in DayType /\ t.cycle = s.cycle /\ t.recovery = s.recovery /\ t.events = Append(s.events, e)
    BY <1>1, EmitTyped
  <2> HIDE DEF t
  <2>4. t \in SoundDays /\ Alike(s.cycle, t.cycle)
    BY <1>1, <2>3, AlikeItself DEF SoundDays
  <2>5. t \in SettlingDays(g)
    BY <2>2, <2>3, <2>4, LateDay
  <2>6. Append(s.events, e) = s.events \o <<e>>
    BY <1>1
  <2> QED
    BY <1>3, <2>1, <2>3, <2>5, <2>6
<1> QED
  BY <1>2, <1>3

\* A book that settles leaves the next day prepared: where a window closed the search of
\* a rise begins again today, for today did not fall below its origin.
LEMMA SettlesPrepared ==
  ASSUME Typed, now >= 0, NEW b \in BookType, NEW c \in CycleOrNone, Tidy(b.windows),
         Settling(b, c),
         RisesTo(c, now), NEW d, d = IF b.closed /\ ~IsOpen(b.windows) THEN ResumeSearch(c) ELSE c
  PROVE  Prepared(b, d)
<1>1. b.windows \in Seq(WindowType) /\ now \in Int /\ Grown(b, c) /\ Alike(c, c)
  BY Clock, AlikeItself DEF BookType, Settling
<1>2. CASE d = c /\ (b.closed => IsOpen(b.windows))
  BY <1>1, <1>2 DEF Settling, Prepared, Waiting
<1>3. CASE d # c \/ (b.closed /\ ~IsOpen(b.windows))
  <2>1. b.closed /\ ~IsOpen(b.windows) /\ d = ResumeSearch(c)
    BY <1>3
  <2>2. CASE c = NoCycle \/ ~IsUp(c)
    BY <2>1, <2>2 DEF ResumeSearch, Prepared, Grown, Waiting, Older
  <2>3. CASE c # NoCycle /\ IsUp(c)
    <3>1. c \in CycleType /\ c \in CycleShape /\ Rising(c, now)
      BY <2>3, CycleIsOne DEF RisesTo, CycleOrNone
    <3>2. now >= c.started /\ now \in 0..now
      BY <1>1, <3>1 DEF Rising
    <3>3. Bar(now).low >= c.origin.price
      BY <3>1, <3>2 DEF Rising, Above
    <3>4. d = [c EXCEPT !.closed = now]
      BY <2>1, <2>3, <3>3 DEF ResumeSearch, Today
    <3>5. /\ d.closed = now /\ d.started = c.started /\ d.impulse = c.impulse
          /\ d.state = c.state /\ d \in CycleOrNone
      <4>1. d \in CycleOrNone
        BY <2>1, ResumeTyped
      <4> QED
        BY <3>1, <3>4, <4>1 DEF CycleShape
    <3>6. Continues(c, d)
      BY <1>1, <2>3, <3>5 DEF Alike, Continues
    <3>7. Grown(b, d)
      BY <1>1, <3>5, <3>6, GrownOn
    <3>8. b.windows # <<>> => now >= Last(b.windows).end
      BY <1>1 DEF Tidy
    <3> QED
      BY <3>5, <3>7, <3>8 DEF Prepared, Waiting, Older, Fresh
  <2> QED
    BY <2>2, <2>3
<1> QED
  BY <1>2, <1>3

\* An advance of the life cycle leaves the windows prepared.
LEMMA AdvanceReopening ==
  ASSUME Base, Facts, Loose, GateStands, RiseStands, Reopening, AdvanceLifecycle
  PROVE  Reopening'
<1>0. Typed
  BY DEF Base
<1>1. PICK revised \in BOOLEAN, completed \in BOOLEAN, bear \in {<<>>, <<SourceBear>>} :
      \E s \in Advanced(revised) :
        Advances(s, Settled(Gate(Book, Keys(completed)), s.events \o bear))
  BY AdvanceDoes
<1>2. PICK s \in Advanced(revised) :
        Advances(s, Settled(Gate(Book, Keys(completed)), s.events \o bear))
  BY <1>1
<1> DEFINE g == Gate(Book, Keys(completed))
           b == Settled(g, s.events \o bear)
<1>3. /\ now >= 0 /\ present /\ phase = "close" /\ now' = now
      /\ windows' = b.windows /\ barrier' = b.barrier /\ released' = b.released /\ recovery' = s.recovery
      /\ cycle' = IF b.closed /\ ~IsOpen(b.windows) THEN ResumeSearch(s.cycle) ELSE s.cycle
  BY <1>2, Zenon DEF Advances
<1>4. s \in SettlingDays(g)
  BY <1>3, AdvancedSettles
<1> HIDE DEF g
<1>5. PICK t \in SettlingDays(g) : t.events = s.events \o bear /\ t.cycle = s.cycle
  BY <1>0, <1>3, <1>4, BearSettles
<1>6. b = Settled(g, t.events)
  BY <1>5
<1> HIDE DEF b
<1>7. b \in BookType /\ Tidy(b.windows) /\ GateApart(b) /\ Settling(b, s.cycle)
  BY <1>0, <1>3, <1>5, <1>6, BookSettles
<1>8. RisesTo(s.cycle, now)
  <2>1. Done = now - 1
    BY <1>3 DEF Done
  <2> QED
    BY <1>3, <2>1, AdvancedRises DEF RiseStands
<1>9. s.cycle \in CycleOrNone
  BY <1>4 DEF SettlingDays, SoundDays, DayType
<1>10. Prepared(b, cycle')
  <2> DEFINE d == IF b.closed /\ ~IsOpen(b.windows) THEN ResumeSearch(s.cycle) ELSE s.cycle
  <2>1. PICK e : e = d
    OBVIOUS
  <2> HIDE DEF d
  <2>2. e = IF b.closed /\ ~IsOpen(b.windows) THEN ResumeSearch(s.cycle) ELSE s.cycle
    BY <2>1 DEF d
  <2>3. Prepared(b, e)
    BY <1>0, <1>3, <1>7, <1>8, <1>9, <2>2, SettlesPrepared
  <2> QED
    BY <1>3, <2>2, <2>3
<1>11. Tidy(windows)'
  BY <1>3, <1>7 DEF Tidy, Afresh
<1>12. Prepared(Book, cycle)'
  BY <1>3, <1>10 DEF Prepared, Grown, Older, Waiting, Fresh, Blocked, IsOpen, IsUp, Book
<1>13. GateApart(Book)'
  BY <1>3, <1>7 DEF GateApart, Book
<1> QED
  BY <1>11, <1>12, <1>13 DEF Reopening

\* A path that ends closes its window and leaves nothing behind.
LEMMA ClosePathReopening ==
  ASSUME Base, Reopening, ClosePath
  PROVE  Reopening'
<1>0. Typed
  BY DEF Base
<1> DEFINE b == Settled(Book, <<PathEnded>>)
           u == FoldLeft(Observe, Book, <<PathEnded>>)
           v == FillGap(u)
<1>1. now >= 0 /\ b \in BookType /\ windows' = b.windows /\ released' = b.released
      /\ cycle' = NoCycle /\ now' = now
  BY ClosePathDoes
<1>2. Book \in BookType /\ Tidy(Book.windows) /\ GateApart(Book)
  BY <1>0, BookTyped DEF Reopening
<1>3. PICK e \in EventType : e = PathEnded
  <2>1. "invalidated" \in Kinds /\ "source_path_ended" \in Reasons /\ NoCycle \in CycleOrNone
    BY DEF Kinds, Reasons, CycleOrNone
  <2> QED
    BY <2>1, Blanks, EventTyped DEF PathEnded
<1>4. u = Observe(Book, e)
  <2> DEFINE q == <<>>
             x == Book
  <2>1. q \in Seq(EventType) /\ FoldLeft(Observe, x, q) = x
    BY NoEvents
  <2> HIDE DEF x
  <2>2. FoldLeft(Observe, x, Append(q, e)) = Observe(FoldLeft(Observe, x, q), e)
    BY <2>1, FoldAppend
  <2>3. Append(q, e) = <<e>>
    OBVIOUS
  <2> QED
    BY <1>3, <2>1, <2>2, <2>3 DEF x
<1>5. Lawful(Book, e)
  <2>1. e.kind = "invalidated"
    BY <1>3 DEF PathEnded, Event
  <2> QED
    BY <2>1 DEF Lawful, Opening
<1>6. u \in BookType /\ Tidy(u.windows) /\ GateApart(u)
  BY <1>0, <1>1, <1>2, <1>4, <1>5, ObserveTidy, ObserveDoes, ObserveApart
<1>7. b = BreakReversal(v)
  BY DEF Settled
<1> HIDE DEF u, b
<1>8. Settling(u, NoCycle) /\ NoCycle \in CycleOrNone
  BY DEF Settling, Grown, Waiting, Older, CycleOrNone
<1>9. v \in BookType /\ Late(u, v)
  BY <1>0, <1>1, <1>6, FillGapDoes
<1> HIDE DEF v
<1>10. Tidy(v.windows) /\ GateApart(v) /\ Settling(v, NoCycle)
  BY <1>0, <1>1, <1>6, <1>8, <1>9, LateSettles
<1>11. Late(v, b)
  BY <1>0, <1>1, <1>7, <1>9, BreakReversalDoes
<1>12. Tidy(b.windows) /\ GateApart(b)
  BY <1>0, <1>1, <1>8, <1>9, <1>10, <1>11, LateSettles
<1>13. Tidy(windows)'
  BY <1>1, <1>12 DEF Tidy, Afresh
<1>14. Prepared(Book, cycle)' /\ GateApart(Book)'
  BY <1>1, <1>12 DEF Prepared, Grown, Waiting, Older, GateApart, Book
<1> QED
  BY <1>13, <1>14 DEF Reopening

\* Every step does.
LEMMA ReopeningNext ==
  ASSUME Base, Facts, Loose, GateStands, RiseStands, Reopening, [Next]_vars
  PROVE  Reopening'
<1>1. Typed /\ Vertices
  BY DEF Base
<1>2. CASE (MarketDay \/ Redraw) /\ Quiet
  <2>1. /\ cycle' = cycle /\ windows' = windows
        /\ barrier' = barrier /\ released' = released
    BY <1>2, QuietKeeps
  <2>2. now \in Int /\ now' \in Int /\ now <= now'
    BY <1>1, <1>2, MarketDayDoes, RedrawDoes, Clock
  <2>3. Tidy(windows)'
    BY <2>1, <2>2 DEF Tidy, Afresh, Reopening, Never
  <2>4. Prepared(Book, cycle)' /\ GateApart(Book)'
    BY <2>1 DEF Reopening, Prepared, Grown, Older, Waiting, Fresh, Blocked, IsOpen, IsUp, Book,
       GateApart
  <2> QED
    BY <2>3, <2>4 DEF Reopening
<1>3. CASE AdvanceLifecycle
  BY <1>3, AdvanceReopening
<1>4. CASE ClosePath
  BY <1>4, ClosePathReopening
<1>5. CASE UNCHANGED vars
  BY <1>5 DEF vars, marketVars, lifecycleVars, Reopening, Tidy, Afresh, Prepared, Grown,
     Older, Waiting, Fresh, Blocked, IsOpen, IsUp, Book, GateApart
<1> QED
  BY <1>2, <1>3, <1>4, <1>5 DEF Next

\* The past of the windows leaves every state so.
LEMMA ReopeningHolds == Spec => []Reopening
<1>1. Init => Reopening
  BY DEF Init, Reopening, Tidy, Afresh, Prepared, Grown, Older, Waiting, GateApart, Book, IsUp
<1>2. Base /\ Facts /\ Loose /\ GateStands /\ RiseStands /\ Reopening /\ [Next]_vars => Reopening'
  BY ReopeningNext
<1> QED
  BY <1>1, <1>2, BaseHolds, FactsHold, LooseHolds, GateStandsHolds, RiseHolds, PTL DEF Spec

\* A window of a rise that is older than the last window opens on a confirmation that became
\* known after that one closed, whatever day the geometry gives the vertices and facts it draws
\* anew; but for the day a gap is filled, when it may take another pullback at once
\* (market_calculations.py:280, resume_qualification_search).
THEOREM ReopensAfreshHolds == Spec => []ReopensAfresh
<1>1. Reopening => ReopensAfresh
  BY DEF Reopening, Tidy, Afresh, Anew, ReopensAfresh
<1> QED
  BY <1>1, ReopeningHolds, PTL
=============================================================================
