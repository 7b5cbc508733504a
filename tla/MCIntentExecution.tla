------------------------- MODULE MCIntentExecution -------------------------
(* Constants for the model-checking runs of IntentExecution: an entry, the *)
(* exit of its position, and the entry another prefix would have given.    *)
EXTENDS IntentExecution, TLC

CONSTANTS s1, entry, exit, other

Intent(id, side, at) ==
  [id |-> id, symbol |-> s1, side |-> side, timestamp |-> at, reference |-> 4,
   invalidation |-> 2, target |-> 20, minimum |-> 1]

MCIntents == { Intent(entry, "LONG", 1), Intent(exit, "EXIT", 3), Intent(other, "LONG", 3) }
MCEmits   == [prefix \in SUBSET BarTimes |->
                CASE prefix = {1}    -> { Intent(entry, "LONG", 1) }
                  [] prefix = {1, 3} -> { Intent(entry, "LONG", 1), Intent(exit, "EXIT", 3) }
                  [] prefix = {3}    -> { Intent(other, "LONG", 3) }
                  [] OTHER           -> {}]
MCOpenings == { [raw_open |-> 2, factor |-> 2, fee_budget |-> 2, slippage_bps |-> 0,
                 max_entry_gap |-> 5, expires_on |-> 3] }

MCTimes   == 1..5
MCSession == [t \in Times |-> CASE t = 1 -> 1 [] t \in {2, 3} -> 2 [] t = 4 -> 3 [] t = 5 -> 4]
MCFacts   == [s \in Symbols |-> [t \in Times |->
                [tradable |-> TRUE, st |-> FALSE, buy_lot |-> 1, tick_size |-> 1,
                 sector |-> "a", settlement_days |-> 1]]]
MCLimits  == [max_positions |-> 1, max_symbol_weight |-> 40, max_sector_weight |-> 100,
              max_gross_weight |-> 100, max_order_risk |-> 50, max_drawdown |-> 50,
              max_quote_age |-> 0]
MCQuotes  == { [symbol |-> s1, price |-> 2, time |-> t] : t \in {2, 4, 5} }
=============================================================================
