--------------------------- MODULE MCOrderService ---------------------------
(* Constants for the model-checking runs of OrderService. *)
EXTENDS OrderService, TLC

CONSTANTS s1, s2, b1, b2, x1

Request(id, s, side, q, limit, stop, budget) ==
  [order_id |-> id, symbol |-> s, side |-> side, quantity |-> q, limit_price |-> limit,
   stop_price |-> stop, fee_budget |-> budget, signal_at |-> 0]

Fact(settlement) ==
  [tradable |-> TRUE, st |-> FALSE, buy_lot |-> 1, tick_size |-> 1, sector |-> "a",
   settlement_days |-> settlement]

\* Ledger run: a BUY filled in parts, the SELL of both lots, a BUY on another symbol.
LedgerRequests  == { Request(b1, s1, "BUY",  2, 2, 1, 2),
                     Request(x1, s1, "SELL", 2, 1, 1, 3),
                     Request(b2, s2, "BUY",  1, 2, 1, 1) }
MCTimes    == 1..3
MCQuotes   == { [symbol |-> s, price |-> 2, time |-> t] : s \in Symbols, t \in {1, 3} \cap Times }
MCFillSymmetry == Permutations(FillIds)
MCSession  == [t \in Times |-> IF t = 3 THEN 2 ELSE 1]
MCFacts    == [s \in Symbols |-> [t \in Times |-> Fact(1)]]
MCLimits   == [max_positions |-> 2, max_symbol_weight |-> 80, max_sector_weight |-> 100,
               max_gross_weight |-> 100, max_order_risk |-> 50, max_drawdown |-> 50,
               max_quote_age |-> 1]
MCEntitlements == { [symbol |-> s1, num |-> 2, den |-> 1, net |-> 1] }
=============================================================================
