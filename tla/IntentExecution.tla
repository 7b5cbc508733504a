-------------------------- MODULE IntentExecution --------------------------
(***************************************************************************)
(* From bars to orders: StrategyRuntime (stream_runtime.py) stores daily   *)
(* bars and the intents the strategy emits for them, PaperIntentExecutor   *)
(* (intent_execution.py) turns each intent into at most one order of the   *)
(* account, all in the journal the order service uses.                     *)
(*                                                                         *)
(* Neither runs in one transaction.  on_bar() commits the bar, then        *)
(* computes, then commits the intents; execute() reads the account, then   *)
(* submits, then acknowledges, or records a refusal and then acknowledges  *)
(* it.  Each transaction is an action; the process may stop between any    *)
(* two of them, and fills, cancellations, halts and quotes of other actors *)
(* fall between them.  The reads at the start of execute() are one step.   *)
(*                                                                         *)
(* Abstractions.  One stream of bars.  The strategy is the constant Emits. *)
(* An intent and its order share one identity ('paper:' + intent id).      *)
(* Adjusted prices are multiples of the factor, rates are percentages.     *)
(***************************************************************************)
EXTENDS OrderService

CONSTANTS
  Intents,    \* [id, symbol, side, timestamp, reference, invalidation, target, minimum]
  BarTimes,   \* timestamps of the bars that are delivered
  Emits,      \* the intents the strategy gives for a prefix of the bars
  Openings,   \* [raw_open, factor, fee_budget, slippage_bps, max_entry_gap, expires_on]
  MaxCrashes  \* bound: number of times the process is stopped

ASSUME IntentAssumption ==
  /\ BarTimes \subseteq Times
  /\ \A i, k \in Intents : i.id = k.id => i = k
  /\ \A i \in Intents, r \in Requests : r.order_id # i.id   \* the prefix 'paper:' is the executor's
  /\ \A i \in Intents : /\ i.id \in OrderIds /\ i.symbol \in Symbols
                        /\ i.side \in {"LONG", "EXIT"} /\ i.timestamp \in BarTimes
  /\ Emits \in [SUBSET BarTimes -> SUBSET Intents]

VARIABLES
  bars,       \* timestamps of the BAR events
  evaluated,  \* STRATEGY_EVALUATED events: bar -> the intents stored for it
  refusals,   \* INTENT_REJECTED events
  acks,       \* INTENT_ACK events: intent id -> disposition
  call,       \* the execute() call in progress, if any: a set
  opening,    \* the opening of the latest call: callers observe them in order
  crashes

intentVars == <<bars, evaluated, refusals, acks, call, opening, crashes>>
allVars    == <<vars, intentVars>>

-----------------------------------------------------------------------------
(* on_bar *)

\* Fault: a bar older than the stored ones is taken.
InAnyOrder(t) == TRUE

InOrder(t) == \A b \in bars : b < t

StoreBar(t) ==
  /\ t \notin bars /\ InOrder(t)
  /\ bars' = bars \cup {t}
  /\ UNCHANGED <<vars, evaluated, refusals, acks, call, opening, crashes>>

\* The signals of the bar itself among those of its prefix.
SignalsAt(t) == {i \in Emits[{b \in bars : b <= t}] : i.timestamp = t}

\* The rest of on_bar(), of the first delivery or of a later one.  A second
\* evaluation appends nothing if it agrees with the first and raises if not.
EvaluateBar(t) ==
  /\ t \in bars /\ t \notin DOMAIN evaluated
  /\ evaluated' = [b \in DOMAIN evaluated \cup {t} |->
                     IF b = t THEN SignalsAt(t) ELSE evaluated[b]]
  /\ UNCHANGED <<vars, bars, refusals, acks, call, opening, crashes>>

Known          == UNION {evaluated[t] : t \in DOMAIN evaluated}
PendingIntents == {i \in Known : i.id \notin DOMAIN acks}

-----------------------------------------------------------------------------
(* execute *)

CeilDiv(a, b) == -((-a) \div b)

\* The opening with slippage against the account, rounded to the tick.
LimitPrice(i, c, tick) ==
  IF i.side = "LONG" THEN CeilDiv(c.raw_open * (10000 + c.slippage_bps), 10000 * tick) * tick
  ELSE ((c.raw_open * (10000 - c.slippage_bps)) \div (10000 * tick)) * tick

Raw(price, c) == price \div c.factor

\* Shares allowed by the risk budget, the unreserved cash and the symbol weight.
EntrySize(i, c, price, lot) ==
  LET risk == Max({0, Equity * Limits.max_order_risk - 100 * c.fee_budget})
      free == Max({0, Unreserved({}) - c.fee_budget})
      room == Max({0, Equity * Limits.max_symbol_weight
                        - 100 * positions[i.symbol] * c.raw_open})
  IN  (Min({risk \div (100 * (price - Raw(i.invalidation, c))),
            free \div price, room \div (100 * price)}) \div lot) * lot

\* Gap, health, size and reward checks of an entry.
EntryAccepted(i, c, price, lot, when) ==
  LET q     == EntrySize(i, c, price, lot)
      stop  == Raw(i.invalidation, c)
      gap   == c.raw_open * c.factor - i.reference
      gain  == (Raw(i.target, c) - price) * q - 2 * c.fee_budget
      loss  == (price - stop) * q + 2 * c.fee_budget
  IN  /\ Max({gap, -gap}) * 100 <= c.max_entry_gap * i.reference
      /\ price > stop
      /\ Healthy(when)
      /\ q > 0
      /\ i.minimum > 0 => gain >= i.minimum * loss

\* Fault: only an order that is still active is found.
HasOpenOrder(i) == i.id \in Pending

HasOrder(i)   == i.id \in DOMAIN orders
WasRefused(i) == \E r \in refusals : r.intent = i.id

\* Fault: an earlier refusal is forgotten.
SpentUnlessExpired(i, c, when) ==
  IF SessionOf[when] > c.expires_on THEN {"EXPIRED"} ELSE {}

\* How an entry opportunity has ended already, if it has.
Spent(i, c, when) ==
  IF WasRefused(i) THEN {"FILTERED"}
  ELSE IF SessionOf[when] > c.expires_on THEN {"EXPIRED"} ELSE {}

\* What execute() does once its reads are done: acknowledge, submit or refuse.
Decision(i, c, when) ==
  LET fact  == Facts[i.symbol][when]
      price == LimitPrice(i, c, fact.tick_size)
      submit(q) == [intent |-> i, when |-> when, step |-> "SUBMIT",
                    request |-> [order_id |-> i.id, symbol |-> i.symbol,
                                 side |-> IF i.side = "LONG" THEN "BUY" ELSE "SELL",
                                 quantity |-> q, limit_price |-> price,
                                 stop_price |-> Raw(i.invalidation, c),
                                 fee_budget |-> c.fee_budget, signal_at |-> i.timestamp]]
      next(s) == [intent |-> i, when |-> when, step |-> s]
      spent == IF i.side = "LONG" THEN Spent(i, c, when) ELSE {}
  IN  IF HasOrder(i) THEN next("ORDERED")
      ELSE IF spent # {} THEN next(CHOOSE d \in spent : TRUE)
      ELSE IF fact = NoFact THEN next("REFUSED")
      ELSE IF i.side = "EXIT"
      THEN IF positions[i.symbol] = 0 THEN next("RISK_EXIT_OBSERVED")
           ELSE submit(positions[i.symbol])
      ELSE IF EntryAccepted(i, c, price, fact.buy_lot, when)
           THEN submit(EntrySize(i, c, price, fact.buy_lot)) ELSE next("REFUSED")

\* Whether the call gets past its argument checks: the last one is skipped when
\* the intent has its outcome already.
Callable(i, c, when) ==
  /\ when > i.timestamp
  /\ \/ HasOrder(i)
     \/ i.side = "LONG" /\ Spent(i, c, when) # {}
     \/ SessionOf[when] > SessionOf[i.timestamp]

Execute(i, c, when) ==
  /\ call = {} /\ when >= opening
  /\ i \in PendingIntents
  /\ Callable(i, c, when)
  /\ call' = {Decision(i, c, when)}
  /\ opening' = when
  /\ UNCHANGED <<vars, bars, evaluated, refusals, acks, crashes>>

Advance(e, s) == call' = {[intent |-> e.intent, when |-> e.when, step |-> s]}

Submittable(r, when) == ENABLED Submit(r, when)

\* oms.submit() checks everything again in its own transaction.
SubmitOrder ==
  \E e \in call :
    /\ e.step = "SUBMIT"
    /\ \/ Submit(e.request, e.when) /\ Advance(e, "ORDERED")
       \/ /\ ~Submittable(e.request, e.when)
          /\ Advance(e, "REFUSED")
          /\ UNCHANGED vars
    /\ UNCHANGED <<bars, evaluated, refusals, acks, opening, crashes>>

\* An entry is filtered next; a refused exit stays pending.
RecordRefusal ==
  \E e \in call :
    /\ e.step = "REFUSED"
    /\ refusals' = refusals \cup {[intent |-> e.intent.id, time |-> e.when]}
    /\ IF e.intent.side = "LONG" THEN Advance(e, "FILTERED") ELSE call' = {}
    /\ UNCHANGED <<vars, bars, evaluated, acks, opening, crashes>>

Dispositions == {"ORDERED", "FILTERED", "EXPIRED", "RISK_EXIT_OBSERVED"}

Acknowledge ==
  \E e \in call :
    /\ e.step \in Dispositions
    /\ IF e.step = "ORDERED" => HasOrder(e.intent) /\ orders[e.intent.id].accepted_at <= e.when
       THEN acks' = [a \in DOMAIN acks \cup {e.intent.id} |->
                       IF a = e.intent.id THEN [disposition |-> e.step, time |-> e.when]
                       ELSE acks[a]]
       ELSE UNCHANGED acks
    /\ call' = {}
    /\ UNCHANGED <<vars, bars, evaluated, refusals, opening, crashes>>

\* The process is stopped: only what was committed remains.
Crash ==
  /\ call # {} /\ crashes < MaxCrashes
  /\ call' = {} /\ crashes' = crashes + 1
  /\ UNCHANGED <<vars, bars, evaluated, refusals, acks, opening>>

-----------------------------------------------------------------------------

IntentInit ==
  /\ Init
  /\ bars = {}
  /\ evaluated = [t \in {} |-> {}]
  /\ refusals = {}
  /\ acks = [a \in {} |-> {}]
  /\ call = {}
  /\ opening = 0
  /\ crashes = 0

Stream   == \E t \in BarTimes : StoreBar(t) \/ EvaluateBar(t)
Opened(i) == \E c \in Openings, when \in Times : Execute(i, c, when)
Finish   == SubmitOrder \/ RecordRefusal \/ Acknowledge
Others   == Next /\ UNCHANGED intentVars

IntentNext == Stream \/ (\E i \in Intents : Opened(i)) \/ Finish \/ Crash \/ Others

\* A call that is not stopped ends, and the caller goes through
\* pending_intents() again and again.
IntentFairness ==
  /\ WF_allVars(Finish)
  /\ \A i \in Intents : SF_allVars(Opened(i))

IntentSpec == IntentInit /\ [][IntentNext]_allVars /\ IntentFairness

-----------------------------------------------------------------------------
(* Properties. *)

\* The type invariant of the stream and the executor.
IntentTypeOK ==
  /\ TypeOK
  /\ bars \subseteq BarTimes /\ DOMAIN evaluated \subseteq bars
  /\ \A t \in DOMAIN evaluated : evaluated[t] \subseteq Intents
  /\ refusals \subseteq [intent : OrderIds, time : Times]
  /\ \A a \in DOMAIN acks : acks[a] \in [disposition : Dispositions, time : Times]
  /\ Cardinality(call) <= 1
  /\ \A e \in call : e.step \in Dispositions \cup {"SUBMIT", "REFUSED"}

\* A bar delivered again, at any later time, is evaluated on the prefix it was
\* first evaluated on: redelivery after a crash can only repeat the stored
\* intents, never raise over them or add others (stream_runtime.py:35-54).
PrefixIsStable == \A t \in DOMAIN evaluated : evaluated[t] = SignalsAt(t)

\* An entry is one opportunity: once it was refused, filtered or expired, the
\* intent has no order, whenever the process was stopped in between and
\* whatever openings follow (intent_execution.py:35-42, 80-85).
EntryHasOneChance ==
  \A i \in Known :
    (i.side = "LONG" /\ i.id \in DOMAIN orders) =>
       /\ ~WasRefused(i)
       /\ i.id \in DOMAIN acks => acks[i.id].disposition = "ORDERED"

\* A crash between the accepted order and its acknowledgement loses nothing:
\* every order of an intent is claimed by it in the end
\* (intent_execution.py:31-34, 87).
OrdersAreClaimed ==
  \A i \in Intents :
    i.id \in DOMAIN orders ~> (i.id \in DOMAIN acks /\ acks[i.id].disposition = "ORDERED")
=============================================================================
