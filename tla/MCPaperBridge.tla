--------------------------- MODULE MCPaperBridge ---------------------------
(* Constants for the model-checking runs of PaperBridge. *)
EXTENDS PaperBridge

CONSTANTS s1, s2, b1, b2, x1

Request(id, s, side, q, limit, stop, budget) ==
  [order_id |-> id, symbol |-> s, side |-> side, quantity |-> q, limit_price |-> limit,
   stop_price |-> stop, fee_budget |-> budget, signal_at |-> 0]

\* One position opened in parts and closed, the next day.
RoundTrip == { Request(b1, s1, "BUY", 2, 3, 1, 2), Request(x1, s1, "SELL", 2, 1, 1, 2) }

\* Two orders on two symbols: a bridge that is stuck on the first blocks the second.
TwoSymbols == { Request(b1, s1, "BUY", 2, 3, 1, 2), Request(b2, s2, "BUY", 1, 3, 1, 2) }

OneBuy     == { Request(b1, s1, "BUY", 1, 3, 1, 2) }

MCTimes   == 1..3
MCSession == [t \in Times |-> IF t = 3 THEN 2 ELSE 1]
MCFacts   == [s \in Symbols |-> [t \in Times |->
                [tradable |-> TRUE, st |-> FALSE, buy_lot |-> 1, tick_size |-> 1,
                 sector |-> "a", settlement_days |-> 1]]]
MCLimits  == [max_positions |-> 2, max_symbol_weight |-> 80, max_sector_weight |-> 100,
              max_gross_weight |-> 100, max_order_risk |-> 50, max_drawdown |-> 50,
              max_quote_age |-> 1]
MCQuotes  == { [symbol |-> s, price |-> 2, time |-> t] : s \in Symbols, t \in {1, 3} \cap Times }
MCTicks   == { [symbol |-> s, time |-> t, price |-> 2, volume |-> v, buyable |-> TRUE, sellable |-> TRUE] :
               s \in Symbols, t \in Times, v \in {1, 3} }
\* One-share ticks for the runs that follow reports to their end.
SlowTicks == {tick \in MCTicks : tick.volume = 1}
MCEntitlements == { [symbol |-> s1, num |-> 2, den |-> 1, net |-> 1] }

MCFillIds   == {"VENUE_FILL"} \X OrderIds \X Times
MCReportIds == MCFillIds \cup ({"VENUE_CANCELED", "VENUE_REJECTED"} \X OrderIds \X {0})
=============================================================================
