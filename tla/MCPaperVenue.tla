---------------------------- MODULE MCPaperVenue ----------------------------
(* Constants for the model-checking run of PaperVenue on its own. *)
EXTENDS PaperVenue

CONSTANTS s1, b1, b2, x1

Offer(o, side, q, limit, accepted, signal) ==
  [id |-> o,
   order |-> [symbol |-> s1, side |-> side, quantity |-> q, limit_price |-> limit,
              signal_at |-> signal, tick_size |-> 1, accepted_at |-> accepted,
              filled |-> 0, status |-> "ACCEPTED"]]

\* Two buyers who compete for a tick, the second signalled later, and a seller.
MCOffers == { Offer(b1, "BUY", 2, 3, 1, 0), Offer(b2, "BUY", 2, 4, 1, 1),
              Offer(x1, "SELL", 2, 1, 2, 1) }
\* [time, price, volume]: a price of 2 suits everybody, 3 only the second buyer.
MCTicks == { [symbol |-> s1, time |-> k[1], price |-> k[2], volume |-> k[3],
              buyable |-> k[1] # 3, sellable |-> k[1] # 1] :
             k \in {<<1, 2, 1>>, <<2, 2, 3>>, <<2, 3, 1>>, <<3, 2, 1>>} }
MCEntitlements == { [symbol |-> s1, num |-> 3, den |-> 2, net |-> 1] }
=============================================================================
