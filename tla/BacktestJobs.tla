---------------------------- MODULE BacktestJobs ----------------------------
(***************************************************************************)
(* The registry of backtest calculations of the API server (class          *)
(* BacktestJobs of backtest_jobs.py): a bounded number of worker threads,  *)
(* at most one per stock, a short recovery window for finished jobs, and a *)
(* summary of the latest outcome per signature that survives the process.  *)
(*                                                                         *)
(* Request handlers and workers are threads of one process and every       *)
(* access is under one lock, so an action is one section under that lock   *)
(* or one step of a worker outside of it.  calculations is the sequence    *)
(* of all BacktestJob objects ever made: a job identity may be used again  *)
(* once its job was dropped, the object may not.                           *)
(***************************************************************************)
EXTENDS Naturals, Sequences, FiniteSets

CONSTANTS
  Ids,            \* job identities, chosen by the clients
  Signatures,     \* everything a calculation depends on
  SymbolOf,       \* the stock a signature is about
  MaxActive,      \* worker threads
  MaxCompleted,   \* finished jobs kept
  CompletedTtl,   \* how long they are kept
  MaxHistory,     \* summaries kept
  HistoryTtl,     \* how long they are kept
  Outcomes,       \* how work ends: "completed" or "failed"
  Saves,          \* whether writing a summary succeeds: a subset of BOOLEAN
  MaxStarts,      \* bound: calculations the clients ask for
  MaxRestarts,    \* bound: restarts of the process
  MaxTime         \* bound: instants

ASSUME JobLimits ==
  /\ MaxActive \in Nat \ {0} /\ MaxCompleted \in Nat \ {0} /\ CompletedTtl \in Nat \ {0}
  /\ MaxHistory \in Nat \ {0} /\ HistoryTtl \in Nat \ {0}
  /\ Saves \subseteq BOOLEAN
ASSUME JobBounds ==
  /\ MaxStarts \in Nat /\ MaxRestarts \in Nat /\ MaxTime \in Nat

VARIABLES
  calculations,  \* sequence of the job objects
  jobs,          \* _jobs: identity -> index in calculations
  symbols,       \* _active_symbols: stock -> identity
  active,        \* _active
  history,       \* _history: signature -> [at, job]
  stored,        \* the table backtest_history, which survives the process
  process,       \* restarts so far
  now            \* both clocks

registry == <<jobs, symbols, active, history>>
jobVars == <<calculations, jobs, symbols, active, history, stored, process, now>>

Calculations == DOMAIN calculations
Unfinished == {k \in Calculations : calculations[k].phase = "working"}
Finished == {k \in Calculations : calculations[k].phase = "done"}
Archived == {k \in Calculations : calculations[k].phase = "archived"}
Empty == [x \in {} |-> x]

\* The sets of at most n members of S that leave out no newer one than they keep.
\* Equal instants are ordered by insertion in memory and by nothing on disk; either
\* order is allowed.
Newest(S, at, n) ==
  {kept \in SUBSET S :
     /\ Cardinality(kept) = IF Cardinality(S) < n THEN Cardinality(S) ELSE n
     /\ \A x \in kept, y \in S \ kept : at[y] <= at[x]}

\* Fault: the limit of finished jobs is taken from the wrong end.
PrunedNewest(js, c) ==
  LET finished == {i \in DOMAIN js : c[js[i]].phase = "done"}
      fresh == {i \in finished : now - c[js[i]].completed < CompletedTtl}
      age == [i \in fresh |-> now - c[js[i]].completed]
  IN  {[i \in (DOMAIN js \ finished) \cup kept |-> js[i]] :
         kept \in Newest(fresh, age, MaxCompleted)}

\* What _prune leaves of js: every running job, and of the finished ones the newest
\* MaxCompleted within their window.
PrunedJobs(js, c) ==
  LET finished == {i \in DOMAIN js : c[js[i]].phase = "done"}
      fresh == {i \in finished : now - c[js[i]].completed < CompletedTtl}
      completed == [i \in fresh |-> c[js[i]].completed]
  IN  {[i \in (DOMAIN js \ finished) \cup kept |-> js[i]] :
         kept \in Newest(fresh, completed, MaxCompleted)}

\* What _prune, _save_history and _load_history leave of the summaries h.
PrunedHistory(h) ==
  LET fresh == {s \in DOMAIN h : now - h[s].at < HistoryTtl}
      at == [s \in fresh |-> h[s].at]
  IN  {[s \in kept |-> h[s]] : kept \in Newest(fresh, at, MaxHistory)}

JobInit ==
  /\ calculations = <<>>
  /\ jobs = Empty /\ symbols = Empty /\ active = 0
  /\ history = Empty /\ stored = Empty
  /\ process = 0 /\ now = 0

-----------------------------------------------------------------------------
(* Request handlers. *)

\* get, snapshot, and a start that finds its job, a conflict, a busy stock or no
\* capacity, or whose thread cannot be started: all they change is what _prune drops.
Look ==
  /\ jobs' \in PrunedJobs(jobs, calculations)
  /\ history' \in PrunedHistory(history)
  /\ UNCHANGED <<calculations, symbols, active, stored, process, now>>

SlotFree == active < MaxActive

\* start of a new job.
Start(id, s) ==
  /\ \E kept \in PrunedJobs(jobs, calculations) :
       /\ id \notin DOMAIN kept
       /\ jobs' = [i \in DOMAIN kept \cup {id} |->
                     IF i = id THEN Len(calculations) + 1 ELSE kept[i]]
  /\ SymbolOf[s] \notin DOMAIN symbols
  /\ SlotFree
  /\ calculations' = Append(calculations,
       [id |-> id, signature |-> s, phase |-> "working",
        started |-> now, completed |-> 0, saved |-> FALSE])
  /\ symbols' = [x \in DOMAIN symbols \cup {SymbolOf[s]} |->
                   IF x = SymbolOf[s] THEN id ELSE symbols[x]]
  /\ active' = active + 1
  /\ history' \in PrunedHistory(history)
  /\ UNCHANGED <<stored, process, now>>

-----------------------------------------------------------------------------
(* The worker of job k.  Its progress reports (update_progress, update_pipeline,
   update_preview) change what a poller reads and nothing else, so they are left out; they
   find their job by its identity, and SlotsAreRunning says that it is the worker's own. *)

\* Fault: the summary of a signature is not replaced by a later outcome.
RecordedFirst(h, k) ==
  [s \in DOMAIN h \cup {calculations[k].signature} |->
     IF s \in DOMAIN h THEN h[s] ELSE [at |-> now, job |-> k]]

\* The summaries h with the outcome of job k.
Recorded(h, k) ==
  [s \in DOMAIN h \cup {calculations[k].signature} |->
     IF s = calculations[k].signature THEN [at |-> now, job |-> k] ELSE h[s]]

\* Fault: a calculation that raised does not give its slot back.
ReleasedOnSuccess(k, outcome) ==
  /\ active' = IF outcome = "failed" THEN active ELSE active - 1
  /\ symbols' = [x \in {x \in DOMAIN symbols : symbols[x] # calculations[k].id} |-> symbols[x]]

\* The slot and the stock of job k are free again, whatever became of it.
Released(k, outcome) ==
  /\ active' = active - 1
  /\ symbols' = [x \in {x \in DOMAIN symbols : symbols[x] # calculations[k].id} |-> symbols[x]]

\* work() returns or raises and the last section of _run follows; what the worker does in
\* between concerns nobody else. The summary is written after the lists were pruned, and
\* a write that fails is logged and skipped.
Complete(k, outcome) ==
  /\ calculations[k].phase = "working"
  /\ \E saved \in Saves :
       /\ calculations' = [calculations EXCEPT ![k].phase = "done", ![k].completed = now,
                                               ![k].saved = saved]
       /\ IF saved THEN stored' \in PrunedHistory(Recorded(stored, k)) ELSE UNCHANGED stored
  /\ Released(k, outcome)
  /\ jobs' \in PrunedJobs(jobs, calculations')
  /\ history' \in PrunedHistory(Recorded(history, k))
  /\ UNCHANGED <<process, now>>

-----------------------------------------------------------------------------

\* What is left of a calculation when its process stops: its outcome if it was written.
Remains(c) == [c EXCEPT !.phase = IF c.saved THEN "archived" ELSE "lost",
                        !.started = 0, !.completed = 0]

\* The process stops, its threads with it, and __init__ loads what the table holds:
\* nothing after a change of the engine, and nothing when it cannot be read.
Restart ==
  /\ process < MaxRestarts
  /\ process' = process + 1
  /\ calculations' = [k \in Calculations |-> Remains(calculations[k])]
  /\ jobs' = Empty /\ symbols' = Empty /\ active' = 0
  /\ stored' \in {stored, Empty}
  /\ history' \in PrunedHistory(stored') \cup {Empty}
  /\ UNCHANGED now

Tick == now < MaxTime /\ now' = now + 1 /\ UNCHANGED <<calculations, registry, stored, process>>

Client == Len(calculations) < MaxStarts /\ \E id \in Ids, s \in Signatures : Start(id, s)

Worker(k) == \E outcome \in Outcomes : Complete(k, outcome)

JobNext == Look \/ Client \/ (\E k \in Calculations : Worker(k)) \/ Restart \/ Tick

JobSpec == JobInit /\ [][JobNext]_jobVars

-----------------------------------------------------------------------------
(* Properties. *)

\* The slots and the busy stocks are those of the workers that run, and the registry
\* still knows their jobs: whatever fails, expires or is asked for again, no slot is
\* lost and no running job is dropped (_active, _active_symbols, _prune, _run).
SlotsAreRunning ==
  /\ active = Cardinality(Unfinished)
  /\ \A k \in Unfinished :
       LET x == SymbolOf[calculations[k].signature]
       IN  x \in DOMAIN symbols /\ symbols[x] = calculations[k].id
  /\ Cardinality(DOMAIN symbols) = active
  /\ \A k \in Unfinished :
       calculations[k].id \in DOMAIN jobs /\ jobs[calculations[k].id] = k

\* Within the recovery window an identity is calculated once: a process calculates it
\* again only after the window of the earlier job has passed, or once as many jobs as are
\* kept finished after it ("a retry of the same ID retrieves exactly the original
\* calculation for a short recovery window", backtest_jobs.py:65).
OnceWithinWindow ==
  \A j, k \in Unfinished \cup Finished :
    LET first == calculations[j]
        again == calculations[k]
        later == {m \in Finished \ {j} :
                    calculations[m].completed \in first.completed..again.started}
    IN  (j < k /\ first.id = again.id) =>
          /\ j \in Finished
          /\ \/ again.started - first.completed >= CompletedTtl
             \/ Cardinality(later) >= MaxCompleted

\* What the registry says of a signature is the outcome of its last calculation, across
\* restarts too unless that outcome could not be written (_history, _save_history,
\* _load_history). It depends on there being one worker per stock.
HistoryIsLatest ==
  \A s \in DOMAIN history :
    LET outcomes == {k \in Finished \cup Archived : calculations[k].signature = s}
    IN  history[s].job \in outcomes /\ \A k \in outcomes : k <= history[s].job

\* Type correctness, with the identities and indexes the registry refers to.
JobsTypeOK ==
  /\ active \in 0..MaxActive
  /\ DOMAIN jobs \subseteq Ids
  /\ \A i \in DOMAIN jobs : jobs[i] \in Calculations /\ calculations[jobs[i]].id = i
  /\ \A i \in DOMAIN jobs : calculations[jobs[i]].phase \in {"working", "done"}
  /\ DOMAIN history \subseteq Signatures /\ DOMAIN stored \subseteq Signatures
  /\ \A k \in Calculations : calculations[k].completed \in 0..now
=============================================================================
