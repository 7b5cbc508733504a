--------------------------- MODULE OrderLifecycle ---------------------------
(***************************************************************************)
(* What both sides of the paper account promise about an order, whoever    *)
(* keeps it: an identity is used once and keeps its quantity, executed     *)
(* quantity only grows and never exceeds the order, an order closes once   *)
(* and a closed order never changes again.  The order service and the      *)
(* venue keep independent books; each is shown to implement this module.   *)
(* Orders are independent: one step may move several of them, as a tick    *)
(* does at the venue.                                                      *)
(***************************************************************************)
EXTENDS Naturals

CONSTANTS OrderIds, Quantities

VARIABLE life   \* order id -> [quantity, filled, phase]

Phases == {"unused", "open", "closing", "closed"}
Unused == [quantity |-> 0, filled |-> 0, phase |-> "unused"]

Init == life = [o \in OrderIds |-> Unused]

Alive(o) == life[o].phase \in {"open", "closing"}

Open(o) ==
  /\ life[o] = Unused
  /\ \E q \in Quantities : life'[o] = [quantity |-> q, filled |-> 0, phase |-> "open"]

\* An execution; the one that completes the order closes it, and one that
\* crosses a pending cancellation leaves it pending.
Trade(o) ==
  /\ Alive(o)
  /\ \E n \in Quantities :
       /\ life[o].filled + n <= life[o].quantity
       /\ life'[o] = [life[o] EXCEPT
                        !.filled = @ + n,
                        !.phase  = IF life[o].filled + n = life[o].quantity
                                   THEN "closed" ELSE @]

AskCancel(o) == Alive(o) /\ life'[o] = [life[o] EXCEPT !.phase = "closing"]

Close(o) == Alive(o) /\ life'[o] = [life[o] EXCEPT !.phase = "closed"]

Next ==
  /\ DOMAIN life' = OrderIds
  /\ \A o \in OrderIds :
        life'[o] = life[o] \/ Open(o) \/ Trade(o) \/ AskCancel(o) \/ Close(o)

Spec == Init /\ [][Next]_life
=============================================================================
