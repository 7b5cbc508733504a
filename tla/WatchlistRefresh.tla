-------------------------- MODULE WatchlistRefresh --------------------------
(***************************************************************************)
(* The background thread that calculates every stock of the saved          *)
(* watchlists (class WatchlistRefresh of watchlist_refresh.py), over the   *)
(* registry it shares with the requests of people, and the table of its    *)
(* attempts (watchlist_runs of watchlists.py).                             *)
(*                                                                         *)
(* One tick of the thread takes several steps: it settles the calculation  *)
(* it started, reads the watchlists and the table and takes over what the  *)
(* registry already knows, looks whether the registry is idle, and starts  *)
(* the next calculation.  Requests and workers run between any two of      *)
(* them.                                                                   *)
(* A member with the version, data and parameters that apply to it is a    *)
(* signature here, as it is the key of a run in the code.                  *)
(***************************************************************************)
EXTENDS BacktestJobs

CONSTANTS
  Members,     \* signatures the saved watchlists ask for at first
  ByHand,      \* signatures that people calculate by hand
  ManualIds,   \* identities of the requests of people
  MaxAttempts, \* attempts of a run, 3 in the code
  Backoff,     \* delay before the next attempt
  MaxAsked     \* bound: edits, pauses, retries, failing ticks and restarts

ASSUME RefreshBounds ==
  /\ Members \cup ByHand \subseteq Signatures /\ ManualIds \subseteq Ids
  /\ MaxAttempts \in Nat \ {0} /\ Backoff \in Nat /\ MaxAsked \in Nat

VARIABLES
  wanted,    \* the signatures the watchlists ask for now
  enabled,   \* not paused
  runs,      \* watchlist_runs: signature -> [attempts, retry_at, completed]
  tick,      \* the thread: where it is, its calculation, and what it has read
  asked,     \* how much the outside has done so far
  outcome    \* calculation -> how it ended: "valid", "mismatched" or "failed"

refreshVars == <<wanted, enabled, runs, tick, asked, outcome>>
allVars == <<jobVars, refreshVars>>

Never == [attempts |-> 0, retry_at |-> 0, completed |-> FALSE]
StateOf(table, s) == IF s \in DOMAIN table THEN table[s] ELSE Never
With(table, s, row) == [x \in DOMAIN table \cup {s} |-> IF x = s THEN row ELSE table[x]]

\* The thread of a new process. None stands for a watchlist not read yet.
None == Signatures \cup {"none"}
NewThread == [at |-> "start", job |-> 0, attempts |-> 0, desired |-> None, known |-> Empty]

RefreshInit ==
  /\ JobInit
  /\ wanted = Members /\ enabled = TRUE
  /\ runs = Empty /\ tick = NewThread /\ asked = 0 /\ outcome = Empty

-----------------------------------------------------------------------------
(* The thread. *)

\* The tick is over and forgets what it read.
Ended == [tick EXCEPT !.at = "start", !.known = Empty]

\* What the registry takes for a result (result_valid): a complete one of a stock, be it of
\* the stock and day asked for or not, as when the data ends before that day.
ResultValid == {"valid", "mismatched"}

\* Fault: any result that the registry takes for one completes the thread's run.
OutcomeTrusting(table, job, attempts) ==
  With(table, calculations[job].signature,
       [attempts |-> attempts + 1, retry_at |-> now + Backoff,
        completed |-> job \in DOMAIN outcome /\ outcome[job] \in ResultValid])

\* The outcome of the thread's calculation: a completion by a result of the very stock and
\* day it asked for, or one more attempt.
Outcome(table, job, attempts) ==
  With(table, calculations[job].signature,
       [attempts |-> attempts + 1, retry_at |-> now + Backoff,
        completed |-> job \in DOMAIN outcome /\ outcome[job] = "valid"])

Done(job) == calculations[job].phase = "done"
\* Fault: only a calculation that gave a result is settled.
ReadyOnResult ==
  /\ tick.at = "start" /\ tick.job # 0 /\ Done(tick.job)
  /\ outcome[tick.job] = "valid"

\* The tick ends while its calculation still runs.
Ready == tick.at = "start" /\ tick.job # 0 /\ Done(tick.job)

Settle ==
  /\ Ready
  /\ runs' = Outcome(runs, tick.job, tick.attempts)
  /\ tick' = [tick EXCEPT !.job = 0, !.attempts = 0]
  /\ UNCHANGED <<jobVars, wanted, enabled, asked, outcome>>

\* prune_runs: rows nobody asks for are dropped when the watchlists changed.
WantedRuns ==
  IF wanted # tick.desired THEN [s \in DOMAIN runs \cap wanted |-> runs[s]] ELSE runs

\* The runs completed by a calculation among the summaries h, whoever asked for it. The
\* registry's word for a result is taken: one that Outcome refuses is taken over here.
Importable(table, h) ==
  {s \in wanted \cap DOMAIN h :
     ~StateOf(table, s).completed /\ outcome[h[s].job] \in ResultValid}

\* The watchlists and the table are read, and runs that the registry knows to be completed
\* are taken over. The registry is read last, so nothing that happens in between matters.
Read ==
  /\ tick.at = "start" /\ tick.job = 0 /\ enabled
  /\ Look
  /\ LET known == WantedRuns
         taken == Importable(known, history')
         row(s) == IF s \in taken THEN [attempts |-> 1, retry_at |-> 0, completed |-> TRUE]
                                 ELSE StateOf(known, s)
     IN  /\ runs' = [s \in DOMAIN known \cup taken |-> row(s)]
         /\ tick' = [tick EXCEPT !.at = "choose", !.desired = wanted,
                                 !.known = [s \in wanted |-> row(s)]]
  /\ UNCHANGED <<wanted, enabled, asked, outcome>>

\* A tick stops here while its calculation runs, and when it is paused.
Rest ==
  /\ tick.at = "start"
  /\ IF tick.job = 0 THEN ~enabled ELSE ~Ready
  /\ UNCHANGED allVars

Due == {s \in DOMAIN tick.known : /\ ~tick.known[s].completed
                                  /\ tick.known[s].attempts < MaxAttempts
                                  /\ tick.known[s].retry_at <= now}

\* The thread waits for the next tick unless the registry is idle and a run is due.
Choose ==
  /\ tick.at = "choose"
  /\ Look
  /\ tick' = IF active = 0 /\ Due # {} THEN [tick EXCEPT !.at = "submit"] ELSE Ended
  /\ UNCHANGED <<wanted, enabled, runs, asked, outcome>>

\* Fault: the attempt is counted when it starts.
StartedCounted(s) == With(runs, s, [tick.known[s] EXCEPT !.attempts = @ + 1])
Started(s) == runs

\* The calculations people asked for.
Manual == {k \in Calculations : calculations[k].id \in ManualIds}

\* The thread makes up an identity for each of its jobs.
FreshIds == Ids \ (ManualIds \cup {calculations[k].id : k \in Calculations})

\* A job with an identity of its own, or none if a person was faster.
Submit ==
  /\ tick.at = "submit"
  /\ \/ \E s \in Due :
          /\ FreshIds # {} /\ Start(CHOOSE id \in FreshIds : TRUE, s)
          /\ runs' = Started(s)
          /\ tick' = [Ended EXCEPT !.job = Len(calculations) + 1,
                                   !.attempts = tick.known[s].attempts]
     \/ /\ ~SlotFree \/ \E s \in Due : SymbolOf[s] \in DOMAIN symbols
        /\ Look
        /\ tick' = Ended
        /\ UNCHANGED runs
  /\ UNCHANGED <<wanted, enabled, asked, outcome>>

Thread == Settle \/ Rest \/ Read \/ Choose \/ Submit

-----------------------------------------------------------------------------
(* The outside. *)

Ask(action) == asked < MaxAsked /\ asked' = asked + 1 /\ action

\* Members, data, version or parameters change.
Edit(members) == members # wanted /\ wanted' = members /\ UNCHANGED <<jobVars, enabled, runs, tick, outcome>>

Pause == enabled' = ~enabled /\ UNCHANGED <<jobVars, wanted, runs, tick, outcome>>

\* retry: failed runs are forgotten.
Retry ==
  /\ runs' = [s \in {s \in DOMAIN runs : runs[s].completed} |-> runs[s]]
  /\ UNCHANGED <<jobVars, wanted, enabled, tick, outcome>>

\* A step of the tick raises: the next tick starts over.
Fail ==
  /\ tick.at # "start"
  /\ tick' = Ended
  /\ UNCHANGED <<jobVars, wanted, enabled, runs, outcome>>

Reboot == Restart /\ tick' = NewThread /\ UNCHANGED <<wanted, enabled, runs, outcome>>

Outside ==
  \/ \E members \in SUBSET Signatures : Ask(Edit(members))
  \/ Ask(Pause) \/ Ask(Retry) \/ Ask(Fail) \/ Ask(Reboot)

Person ==
  /\ Cardinality(Manual) < MaxStarts
  /\ \E id \in ManualIds, s \in ByHand : Start(id, s)
  /\ UNCHANGED refreshVars

\* A calculation ends, with a result of its own stock and day, with another or without.
Ends(k) ==
  /\ \E o \in Outcomes : Complete(k, o) /\ outcome' = With(outcome, k, o)
  /\ UNCHANGED <<wanted, enabled, runs, tick, asked>>

TimePasses == Tick /\ UNCHANGED refreshVars

RefreshNext ==
  \/ Thread
  \/ Outside
  \/ Person
  \/ \E k \in Calculations : Ends(k)
  \/ TimePasses

RefreshSpec == RefreshInit /\ [][RefreshNext]_allVars

\* The thread goes on, a calculation ends, and time passes.
FairRefreshSpec ==
  /\ RefreshSpec
  /\ WF_allVars(Thread)
  /\ WF_allVars(\E k \in Calculations : Ends(k))
  /\ WF_allVars(TimePasses)

-----------------------------------------------------------------------------
(* Properties. *)

\* The calculations of signature s that ended in one of these ways.
EndedIn(s, how) ==
  {k \in Calculations \cap DOMAIN outcome : calculations[k].signature = s /\ outcome[k] \in how}

\* A run is completed only by a calculation of exactly that signature that gave a result,
\* whoever asked for it; and once the thread's own attempts have failed, only by a result of
\* the stock and day that one of them asked for (_tick: the tests of symbol and asof). A run
\* taken over from the summaries is as good as result_valid is: it may be of another day.
CompletedIsEarned ==
  \A s \in DOMAIN runs : runs[s].completed =>
    /\ EndedIn(s, ResultValid) # {}
    /\ runs[s].attempts > 1 => EndedIn(s, {"valid"}) \ Manual # {}

\* A run is given up after as many failures of its own calculations and not before, whatever
\* is retried or restarted meanwhile (_tick: attempts + 1, attempts >= 3).
GivenUpOnFailures ==
  \A s \in DOMAIN runs : ~runs[s].completed =>
    /\ runs[s].attempts <= MaxAttempts
    /\ runs[s].attempts <=
         Cardinality({k \in DOMAIN outcome \ Manual :
                        calculations[k].signature = s /\ outcome[k] # "valid"})

\* Nothing more is owed to s: it is completed, given up, or due beyond the end of time.
Resolved(s) ==
  LET state == StateOf(runs, s)
  IN  state.completed \/ state.attempts >= MaxAttempts \/ state.retry_at > MaxTime

\* Once the outside is quiet, every stock of the watchlists is completed or given up, unless
\* the refresh is paused.
RefreshSettles == <>[](enabled => \A s \in wanted : Resolved(s))
=============================================================================
