----------------------- MODULE MCTradingEligibility -----------------------
(* Constants for the model-checking run of the trading windows. *)
EXTENDS TradingEligibility

Day(low, high, close) == [low |-> low, high |-> high, close |-> close]
Rest  == Day(4, 6, 5)
Rise  == Day(6, 8, 8)
Fall  == Day(1, 6, 4)
Slump == Day(0, 2, 0)

\* A rise from 2 to 7 that breaks an earlier high of 5.
Flipped == << Day(3, 5, 3), Day(2, 3, 3), Day(4, 7, 6) >>

MCCourses ==
  \* What may follow it.
  {Flipped \o rest : rest \in {Rise} \X {Rest, Fall} \X {Rest, Rise} \X {Fall}}
  \cup
  \* The last rise of several is undercut, and its high is exceeded.
  {Flipped \o << Rest, Rise, Day(3, 6, 5), Day(7, 9, 9) >>}
  \cup
  \* A rise whose origin is broken and recovered.
  {<< Day(2, 3, 3), Day(4, 7, 6), Rest, Fall, Rise >> \o rest : rest \in {Rest, Fall} \X {Rise, Slump}}
=============================================================================
