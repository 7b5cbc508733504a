------------------------- MODULE BacktestJobsProofs -------------------------
(***************************************************************************)
(* Theorems about BacktestJobs, for any limits, stocks and signatures: the *)
(* slots and the busy stocks are those of the workers that run, and what   *)
(* is shown for a signature is its last outcome.  And theorems about       *)
(* WatchlistRefresh, whose thread shares the registry: what its table      *)
(* records of a signature is what calculations of that signature gave.     *)
(***************************************************************************)
EXTENDS WatchlistRefresh, FiniteSetTheorems, TLAPS

Job == [id : Ids, signature : Signatures, phase : {"working", "done", "archived", "lost"},
        started : Nat, completed : Nat, saved : BOOLEAN]

JobShape ==
  /\ calculations \in Seq(Job)
  /\ now \in Nat /\ active \in Nat

\* The registry leads from an identity to a job of that identity, and to every running one.
Registered ==
  /\ \A i \in DOMAIN jobs : jobs[i] \in Calculations /\ calculations[jobs[i]].id = i
  /\ \A k \in Unfinished : calculations[k].id \in DOMAIN jobs /\ jobs[calculations[k].id] = k

\* The busy stocks are those of the running workers, under their identities.
Seated ==
  /\ \A k \in Unfinished :
       /\ SymbolOf[calculations[k].signature] \in DOMAIN symbols
       /\ symbols[SymbolOf[calculations[k].signature]] = calculations[k].id
  /\ \A x \in DOMAIN symbols : \E k \in Unfinished : SymbolOf[calculations[k].signature] = x

\* One slot for every running worker and every busy stock.
Counted ==
  /\ IsFiniteSet(Unfinished) /\ active = Cardinality(Unfinished)
  /\ IsFiniteSet(DOMAIN symbols) /\ active = Cardinality(DOMAIN symbols)

JobInv == JobShape /\ Registered /\ Seated /\ Counted

-----------------------------------------------------------------------------
(* Pruning. *)

\* _prune drops nothing but finished jobs.
LEMMA PruneKeepsRunning ==
  ASSUME NEW js, NEW c, NEW kept \in PrunedJobs(js, c)
  PROVE  /\ DOMAIN kept \subseteq DOMAIN js
         /\ \A i \in DOMAIN kept : kept[i] = js[i]
         /\ \A i \in DOMAIN js : c[js[i]].phase # "done" => i \in DOMAIN kept
<1> DEFINE finished == {i \in DOMAIN js : c[js[i]].phase = "done"}
           fresh == {i \in finished : now - c[js[i]].completed < CompletedTtl}
<1>1. PICK some \in SUBSET fresh : kept = [i \in (DOMAIN js \ finished) \cup some |-> js[i]]
  BY DEF PrunedJobs, Newest
<1>2. DOMAIN kept = (DOMAIN js \ finished) \cup some
  BY <1>1
<1> QED
  BY <1>1, <1>2

\* Pruning the registry disturbs no running worker.
LEMMA PruneKeepsRegistered ==
  ASSUME Registered, NEW kept \in PrunedJobs(jobs, calculations)
  PROVE  /\ \A i \in DOMAIN kept : kept[i] \in Calculations /\ calculations[kept[i]].id = i
         /\ \A k \in Unfinished : calculations[k].id \in DOMAIN kept /\ kept[calculations[k].id] = k
<1>1. /\ DOMAIN kept \subseteq DOMAIN jobs
      /\ \A i \in DOMAIN kept : kept[i] = jobs[i]
      /\ \A i \in DOMAIN jobs : calculations[jobs[i]].phase # "done" => i \in DOMAIN kept
  BY PruneKeepsRunning
<1>2. \A k \in Unfinished : calculations[k].phase # "done"
  BY DEF Unfinished
<1> QED
  BY <1>1, <1>2 DEF Registered

-----------------------------------------------------------------------------
(* The steps of the specification. *)

\* An empty registry.
LEMMA InitKeeps == JobInit => JobInv
<1> SUFFICES ASSUME JobInit PROVE JobInv
  OBVIOUS
<1>1. Unfinished = {} /\ DOMAIN symbols = {} /\ DOMAIN jobs = {}
  BY DEF JobInit, Unfinished, Calculations, Empty
<1>2. JobShape
  BY DEF JobInit, JobShape
<1>3. Counted
  BY <1>1, FS_EmptySet DEF JobInit, Counted
<1> QED
  BY <1>1, <1>2, <1>3 DEF JobInv, Registered, Seated

\* A request that starts nothing.
LEMMA LookKeeps ==
  ASSUME JobInv, Look
  PROVE  JobInv'
<1>1. /\ \A i \in DOMAIN jobs' : jobs'[i] \in Calculations /\ calculations[jobs'[i]].id = i
      /\ \A k \in Unfinished : calculations[k].id \in DOMAIN jobs' /\ jobs'[calculations[k].id] = k
  BY PruneKeepsRegistered DEF JobInv, Look
<1>2. Unfinished' = Unfinished /\ Calculations' = Calculations
  BY DEF Look, Unfinished, Calculations
<1>3. Registered'
  BY <1>1, <1>2 DEF Look, Registered
<1>4. JobShape' /\ Counted'
  BY <1>2 DEF JobInv, Look, JobShape, Counted
<1>5. Seated'
  BY <1>2 DEF JobInv, Look, Seated
<1> QED
  BY <1>3, <1>4, <1>5 DEF JobInv

\* A new calculation takes a free identity, a free stock and a slot.
LEMMA StartKeeps ==
  ASSUME JobInv, NEW id \in Ids, NEW s \in Signatures, Start(id, s)
  PROVE  JobInv'
<1> DEFINE n == Len(calculations) + 1
           x == SymbolOf[s]
           job == [id |-> id, signature |-> s, phase |-> "working",
                   started |-> now, completed |-> 0, saved |-> FALSE]
<1>1. PICK kept \in PrunedJobs(jobs, calculations) :
        /\ id \notin DOMAIN kept
        /\ jobs' = [i \in DOMAIN kept \cup {id} |-> IF i = id THEN n ELSE kept[i]]
  BY DEF Start
<1>2. /\ \A i \in DOMAIN kept : kept[i] \in Calculations /\ calculations[kept[i]].id = i
      /\ \A k \in Unfinished : calculations[k].id \in DOMAIN kept /\ kept[calculations[k].id] = k
  BY PruneKeepsRegistered DEF JobInv
<1>3. job \in Job
  BY DEF JobInv, JobShape, Job
<1>4. /\ calculations' \in Seq(Job) /\ Len(calculations) \in Nat
      /\ Calculations = 1..Len(calculations) /\ Calculations' = Calculations \cup {n}
      /\ \A k \in Calculations : calculations'[k] = calculations[k]
      /\ calculations'[n] = job /\ n \notin Calculations
  <2>1. calculations' = Append(calculations, job) /\ calculations \in Seq(Job)
    BY DEF JobInv, JobShape, Start
  <2> HIDE DEF job
  <2> QED
    BY <1>3, <2>1 DEF Calculations
<1>5. Unfinished' = Unfinished \cup {n} /\ n \notin Unfinished
  <2>1. calculations'[n].phase = "working"
    BY <1>4
  <2> HIDE DEF n
  <2> QED
    BY <1>4, <2>1 DEF Unfinished
<1>6. /\ calculations'[n].id = id /\ calculations'[n].signature = s
      /\ \A k \in Unfinished : k \in Calculations /\ calculations'[k] = calculations[k]
  BY <1>4 DEF Unfinished
<1>7. /\ DOMAIN symbols' = DOMAIN symbols \cup {x} /\ x \notin DOMAIN symbols
      /\ symbols'[x] = id /\ \A y \in DOMAIN symbols : symbols'[y] = symbols[y]
      /\ active' = active + 1
  BY DEF Start
<1> HIDE DEF n, x, job
<1>8. JobShape'
  BY <1>4, <1>7 DEF JobInv, JobShape, Start
<1>9. Registered'
  <2>1. \A i \in DOMAIN jobs' : jobs'[i] \in Calculations' /\ calculations'[jobs'[i]].id = i
    BY <1>1, <1>2, <1>4, <1>6
  <2>2. \A k \in Unfinished' :
          calculations'[k].id \in DOMAIN jobs' /\ jobs'[calculations'[k].id] = k
    BY <1>1, <1>2, <1>5, <1>6
  <2> QED
    BY <2>1, <2>2 DEF Registered
<1>10. Seated'
  <2>1. ASSUME NEW k \in Unfinished'
        PROVE  /\ SymbolOf[calculations'[k].signature] \in DOMAIN symbols'
               /\ symbols'[SymbolOf[calculations'[k].signature]] = calculations'[k].id
    <3>1. CASE k = n
      BY <1>6, <1>7, <3>1 DEF x
    <3>2. CASE k \in Unfinished
      BY <1>6, <1>7, <3>2 DEF JobInv, Seated
    <3> QED
      BY <1>5, <3>1, <3>2
  <2>2. ASSUME NEW y \in DOMAIN symbols'
        PROVE  \E k \in Unfinished' : SymbolOf[calculations'[k].signature] = y
    <3>1. CASE y = x
      BY <1>5, <1>6, <3>1 DEF x
    <3>2. CASE y \in DOMAIN symbols
      BY <1>5, <1>6, <3>2 DEF JobInv, Seated
    <3> QED
      BY <1>7, <3>1, <3>2
  <2> QED
    BY <2>1, <2>2 DEF Seated
<1>11. Counted'
  BY <1>5, <1>7, FS_AddElement DEF JobInv, Counted
<1> QED
  BY <1>8, <1>9, <1>10, <1>11 DEF JobInv

\* A worker that ends gives back its slot and its stock, and nobody else's.
LEMMA CompleteKeeps ==
  ASSUME JobInv, NEW k \in Calculations, NEW ending, Complete(k, ending)
  PROVE  JobInv'
<1> DEFINE x == SymbolOf[calculations[k].signature]
           busy == {y \in DOMAIN symbols : symbols[y] # calculations[k].id}
<1>1. PICK saved \in Saves :
        calculations' = [calculations EXCEPT ![k].phase = "done", ![k].completed = now,
                                             ![k].saved = saved]
  BY DEF Complete
<1>2. /\ calculations' \in Seq(Job) /\ Calculations' = Calculations
      /\ calculations'[k].phase = "done"
      /\ calculations'[k].id = calculations[k].id
      /\ \A j \in Calculations : j # k => calculations'[j] = calculations[j]
  <2>1. calculations \in Seq(Job) /\ now \in Nat /\ calculations[k] \in Job
    BY DEF JobInv, JobShape, Calculations
  <2> DEFINE c == [calculations[k] EXCEPT !.phase = "done", !.completed = now, !.saved = saved]
  <2>2. calculations' = [calculations EXCEPT ![k] = c]
    BY <1>1, <2>1 DEF Calculations
  <2>3. c \in Job /\ c.phase = "done" /\ c.id = calculations[k].id
    BY <2>1, JobLimits DEF Job
  <2> HIDE DEF c
  <2> QED
    BY <2>1, <2>2, <2>3 DEF Calculations
<1>3. k \in Unfinished /\ Unfinished' = Unfinished \ {k}
  BY <1>2 DEF Complete, Unfinished
<1>4. \A j \in Unfinished' : /\ j \in Unfinished /\ j # k /\ j \in Calculations
                             /\ calculations'[j] = calculations[j]
  BY <1>2, <1>3 DEF Unfinished
<1>5. /\ DOMAIN symbols' = busy /\ \A y \in busy : symbols'[y] = symbols[y]
      /\ active' = active - 1
  BY DEF Complete, Released
<1>6. \A j \in Unfinished : calculations[j].id = calculations[k].id => j = k
  BY <1>3 DEF JobInv, Registered
<1>7. busy = DOMAIN symbols \ {x} /\ x \in DOMAIN symbols
  <2>1. x \in DOMAIN symbols /\ symbols[x] = calculations[k].id
    BY <1>3 DEF JobInv, Seated
  <2>2. \A y \in DOMAIN symbols : symbols[y] = calculations[k].id => y = x
    <3> SUFFICES ASSUME NEW y \in DOMAIN symbols, symbols[y] = calculations[k].id PROVE y = x
      OBVIOUS
    <3>1. PICK j \in Unfinished : SymbolOf[calculations[j].signature] = y
      BY DEF JobInv, Seated
    <3> QED
      BY <1>6, <3>1 DEF JobInv, Seated
  <2> QED
    BY <2>1, <2>2
<1>8. Counted'
  <2>1. active - 1 = Cardinality(Unfinished \ {k}) /\ IsFiniteSet(Unfinished \ {k})
    BY <1>3, FS_RemoveElement DEF JobInv, Counted
  <2>2. active - 1 = Cardinality(DOMAIN symbols \ {x}) /\ IsFiniteSet(DOMAIN symbols \ {x})
    BY <1>7, FS_RemoveElement DEF JobInv, Counted
  <2> QED
    BY <1>3, <1>5, <1>7, <2>1, <2>2 DEF Counted
<1>9. JobShape'
  <2>1. active - 1 \in Nat
    <3>1. Cardinality(Unfinished \ {k}) \in Nat
      BY <1>3, FS_RemoveElement, FS_CardinalityType DEF JobInv, Counted
    <3> QED
      BY <1>3, <3>1, FS_RemoveElement DEF JobInv, Counted
  <2> QED
    BY <1>2, <1>5, <2>1 DEF JobInv, JobShape, Complete
<1>10. Registered'
  <2>1. /\ DOMAIN jobs' \subseteq DOMAIN jobs
        /\ \A i \in DOMAIN jobs' : jobs'[i] = jobs[i]
        /\ \A i \in DOMAIN jobs : calculations'[jobs[i]].phase # "done" => i \in DOMAIN jobs'
    BY PruneKeepsRunning DEF Complete
  <2>2. \A i \in DOMAIN jobs : jobs[i] \in Calculations /\ calculations[jobs[i]].id = i
    BY DEF JobInv, Registered
  <2>3. \A j \in Calculations : calculations'[j].id = calculations[j].id
    BY <1>2
  <2>4. ASSUME NEW j \in Unfinished'
        PROVE  calculations'[j].id \in DOMAIN jobs' /\ jobs'[calculations'[j].id] = j
    <3>1. calculations[j].id \in DOMAIN jobs /\ jobs[calculations[j].id] = j
      BY <1>4 DEF JobInv, Registered
    <3>2. calculations'[j].phase # "done"
      BY DEF Unfinished
    <3> QED
      BY <1>4, <2>1, <3>1, <3>2
  <2> QED
    BY <1>2, <2>1, <2>2, <2>3, <2>4 DEF Registered
<1>11. Seated'
  <2>1. ASSUME NEW j \in Unfinished'
        PROVE  /\ SymbolOf[calculations'[j].signature] \in DOMAIN symbols'
               /\ symbols'[SymbolOf[calculations'[j].signature]] = calculations'[j].id
    BY <1>4, <1>5, <1>6 DEF JobInv, Seated
  <2>2. ASSUME NEW y \in DOMAIN symbols'
        PROVE  \E j \in Unfinished' : SymbolOf[calculations'[j].signature] = y
    <3>1. y \in DOMAIN symbols /\ y # x
      BY <1>5, <1>7
    <3>2. PICK j \in Unfinished : SymbolOf[calculations[j].signature] = y
      BY <3>1 DEF JobInv, Seated
    <3> QED
      BY <1>3, <1>4, <3>1, <3>2
  <2> QED
    BY <2>1, <2>2 DEF Seated
<1> QED
  BY <1>8, <1>9, <1>10, <1>11 DEF JobInv

\* A new process has no workers.
LEMMA RestartKeeps ==
  ASSUME JobInv, Restart
  PROVE  JobInv'
<1>1. /\ DOMAIN calculations' = Calculations
      /\ \A k \in Calculations : calculations'[k] = Remains(calculations[k])
  BY DEF Restart
<1>2. \A k \in Calculations : Remains(calculations[k]) \in Job
                              /\ Remains(calculations[k]).phase # "working"
  <2> SUFFICES ASSUME NEW c \in Job
               PROVE  Remains(c) \in Job /\ Remains(c).phase # "working"
    BY DEF JobInv, JobShape, Calculations
  <2>1. PICK phase \in {"archived", "lost"} :
          Remains(c) = [c EXCEPT !.phase = phase, !.started = 0, !.completed = 0]
    BY Zenon DEF Remains
  <2> DEFINE d == [c EXCEPT !.phase = phase, !.started = 0, !.completed = 0]
  <2>2. d \in [id : Ids, signature : Signatures, phase : {"archived", "lost"},
               started : Nat, completed : Nat, saved : BOOLEAN]
    BY DEF Job
  <2>3. d \in Job /\ d.phase # "working"
    BY <2>2 DEF Job
  <2> QED
    BY <2>1, <2>3
<1>3. calculations' \in Seq(Job)
  BY <1>2 DEF JobInv, JobShape, Restart, Calculations
<1>4. Unfinished' = {} /\ DOMAIN symbols' = {} /\ DOMAIN jobs' = {} /\ active' = 0
  BY <1>1, <1>2 DEF Unfinished, Calculations, Restart, Empty
<1>5. JobShape'
  BY <1>3, <1>4 DEF JobInv, JobShape, Restart
<1>6. Counted'
  BY <1>4, FS_EmptySet DEF Counted
<1> QED
  BY <1>4, <1>5, <1>6 DEF JobInv, Registered, Seated

\* Time passes.
LEMMA TickKeeps ==
  ASSUME JobInv, Tick \/ UNCHANGED jobVars
  PROVE  JobInv'
<1>1. UNCHANGED <<calculations, jobs, symbols, active>> /\ now' \in Nat
  BY DEF JobInv, JobShape, Tick, jobVars, registry
<1>2. Unfinished' = Unfinished /\ Calculations' = Calculations
  BY <1>1 DEF Unfinished, Calculations
<1> QED
  BY <1>1, <1>2 DEF JobInv, JobShape, Registered, Seated, Counted

\* Every step keeps the invariant.
LEMMA NextKeeps == JobInv /\ [JobNext]_jobVars => JobInv'
<1> SUFFICES ASSUME JobInv, [JobNext]_jobVars PROVE JobInv'
  OBVIOUS
<1>1. CASE Client
  BY <1>1, StartKeeps DEF Client
<1>2. CASE \E k \in Calculations : Worker(k)
  BY <1>2, CompleteKeeps DEF Worker
<1> QED
  BY <1>1, <1>2, LookKeeps, RestartKeeps, TickKeeps DEF JobNext

-----------------------------------------------------------------------------
(* The summaries. *)

\* A running worker's job is the last one of its stock: there is one worker per stock.
LastOfStock ==
  \A k \in Unfinished : \A j \in Calculations :
    SymbolOf[calculations[j].signature] = SymbolOf[calculations[k].signature] => j <= k

\* What was saved has ended, and of former processes only what was saved is left.
SavedHasEnded ==
  \A k \in Calculations :
    /\ calculations[k].saved = TRUE => calculations[k].phase \in {"done", "archived"}
    /\ calculations[k].phase = "archived" => calculations[k].saved = TRUE

\* The summaries h show the last of the jobs in S.
Shows(h, S) ==
  \A s \in DOMAIN h :
    /\ h[s].job \in S /\ calculations[h[s].job].signature = s
    /\ \A j \in S : calculations[j].signature = s => j <= h[s].job

Saved == {k \in Calculations : calculations[k].saved = TRUE}
Over == Finished \cup Archived

HistoryInv ==
  /\ JobInv
  /\ LastOfStock
  /\ SavedHasEnded
  /\ Shows(stored, Saved)
  /\ Shows(history, Over)

\* Pruning the summaries changes none of those it keeps.
LEMMA PruneKeepsSummaries ==
  ASSUME NEW h, NEW kept \in PrunedHistory(h)
  PROVE  /\ DOMAIN kept \subseteq DOMAIN h
         /\ \A s \in DOMAIN kept : kept[s] = h[s]
<1> DEFINE fresh == {s \in DOMAIN h : now - h[s].at < HistoryTtl}
<1>1. PICK some \in SUBSET fresh : kept = [s \in some |-> h[s]]
  BY DEF PrunedHistory, Newest
<1>2. DOMAIN kept = some
  BY <1>1
<1> QED
  BY <1>1, <1>2

\* Summaries that stay, of jobs whose signatures stay, still show the last of them.
LEMMA ShowsStill ==
  ASSUME NEW h, NEW S, Shows(h, S), NEW g,
         DOMAIN g \subseteq DOMAIN h, \A s \in DOMAIN g : g[s] = h[s],
         \A j \in S : calculations'[j].signature = calculations[j].signature
  PROVE  \A s \in DOMAIN g :
           /\ g[s].job \in S /\ calculations'[g[s].job].signature = s
           /\ \A j \in S : calculations'[j].signature = s => j <= g[s].job
<1> SUFFICES ASSUME NEW s \in DOMAIN g
             PROVE  /\ g[s].job \in S /\ calculations'[g[s].job].signature = s
                    /\ \A j \in S : calculations'[j].signature = s => j <= g[s].job
  OBVIOUS
<1> DEFINE job == h[s].job
<1>1. /\ job \in S /\ calculations[job].signature = s
      /\ \A j \in S : calculations[j].signature = s => j <= job
  BY Zenon DEF Shows
<1>2. g[s].job = job
  BY Zenon
<1> HIDE DEF job
<1> QED
  BY <1>1, <1>2, Zenon

\* At the start there are no summaries.
LEMMA InitShows == JobInit => HistoryInv
<1> SUFFICES ASSUME JobInit PROVE HistoryInv
  OBVIOUS
<1>1. Calculations = {} /\ Unfinished = {} /\ DOMAIN stored = {} /\ DOMAIN history = {}
  BY DEF JobInit, Unfinished, Calculations, Empty
<1> QED
  BY <1>1, InitKeeps DEF HistoryInv, LastOfStock, SavedHasEnded, Shows

\* Looking only drops summaries.
LEMMA LookShows ==
  ASSUME HistoryInv, Look
  PROVE  HistoryInv'
<1>1. JobInv'
  BY LookKeeps DEF HistoryInv
<1>2. /\ Unfinished' = Unfinished /\ Calculations' = Calculations
      /\ Saved' = Saved /\ Over' = Over
  BY DEF Look, Unfinished, Calculations, Saved, Over, Finished, Archived
<1>3. DOMAIN history' \subseteq DOMAIN history /\ \A s \in DOMAIN history' : history'[s] = history[s]
  BY PruneKeepsSummaries DEF Look
<1>4. Shows(history, Over)'
  BY <1>2, <1>3 DEF HistoryInv, Shows, Look
<1>5. Shows(stored, Saved)'
  BY <1>2 DEF HistoryInv, Shows, Look
<1>6. LastOfStock' /\ SavedHasEnded'
  BY <1>2 DEF HistoryInv, LastOfStock, SavedHasEnded, Look
<1> QED
  BY <1>1, <1>4, <1>5, <1>6 DEF HistoryInv

\* A new job is the last of its stock, as no other worker has it.
LEMMA StartShows ==
  ASSUME HistoryInv, NEW id \in Ids, NEW s \in Signatures, Start(id, s)
  PROVE  HistoryInv'
<1> DEFINE n == Len(calculations) + 1
           job == [id |-> id, signature |-> s, phase |-> "working",
                   started |-> now, completed |-> 0, saved |-> FALSE]
<1>1. JobInv'
  BY StartKeeps DEF HistoryInv
<1>2. job \in Job
  BY DEF HistoryInv, JobInv, JobShape, Job
<1>3. /\ Len(calculations) \in Nat
      /\ Calculations = 1..Len(calculations) /\ Calculations' = Calculations \cup {n}
      /\ \A k \in Calculations : calculations'[k] = calculations[k]
      /\ calculations'[n] = job /\ n \notin Calculations
  <2>1. calculations' = Append(calculations, job) /\ calculations \in Seq(Job)
    BY DEF HistoryInv, JobInv, JobShape, Start
  <2> HIDE DEF job
  <2> QED
    BY <1>2, <2>1 DEF Calculations
<1>4. \A k \in Calculations : k \in Nat /\ k <= n
  BY <1>3
<1>5. /\ calculations'[n].phase = "working" /\ calculations'[n].saved = FALSE
      /\ calculations'[n].signature = s
  BY <1>3
<1> HIDE DEF n, job
<1>6. Unfinished' = Unfinished \cup {n} /\ Saved' = Saved /\ Over' = Over
  BY <1>3, <1>5 DEF Unfinished, Saved, Over, Finished, Archived
<1>7. LastOfStock'
  <2>1. ASSUME NEW k \in Unfinished', NEW j \in Calculations',
               SymbolOf[calculations'[j].signature] = SymbolOf[calculations'[k].signature]
        PROVE  j <= k
    <3>1. CASE k = n
      BY <1>3, <1>4, <3>1 DEF n
    <3>2. CASE k \in Unfinished /\ j \in Calculations
      BY <1>3, <2>1, <3>2 DEF HistoryInv, LastOfStock, Unfinished
    <3>3. CASE k \in Unfinished /\ j = n
      <4>1. SymbolOf[calculations[k].signature] \in DOMAIN symbols
        BY <3>3 DEF HistoryInv, JobInv, Seated
      <4>2. SymbolOf[calculations[k].signature] = SymbolOf[s]
        BY <1>3, <1>5, <2>1, <3>3 DEF Unfinished
      <4> QED
        BY <4>1, <4>2 DEF Start
    <3> QED
      BY <1>3, <1>6, <3>1, <3>2, <3>3
  <2> QED
    BY <2>1 DEF LastOfStock
<1>8. SavedHasEnded'
  BY <1>3, <1>5 DEF HistoryInv, SavedHasEnded
<1>9. Shows(stored, Saved)'
  <2>1. \A j \in Saved : calculations'[j].signature = calculations[j].signature
    BY <1>3 DEF Saved
  <2>2. stored' = stored
    BY DEF Start
  <2> QED
    BY <1>6, <2>1, <2>2, ShowsStill DEF HistoryInv, Shows
<1>10. Shows(history, Over)'
  <2>1. DOMAIN history' \subseteq DOMAIN history /\ \A t \in DOMAIN history' : history'[t] = history[t]
    BY PruneKeepsSummaries DEF Start
  <2>2. \A j \in Over : calculations'[j].signature = calculations[j].signature
    BY <1>3 DEF Over, Finished, Archived
  <2> QED
    BY <1>6, <2>1, <2>2, ShowsStill DEF HistoryInv, Shows
<1> QED
  BY <1>1, <1>7, <1>8, <1>9, <1>10 DEF HistoryInv

\* Recording the job k, the last of its stock, among the jobs S.
LEMMA RecordingShows ==
  ASSUME HistoryInv, NEW k \in Unfinished, NEW h, NEW S \in SUBSET Calculations,
         Shows(h, S), NEW kept \in PrunedHistory(Recorded(h, k))
  PROVE  Shows(kept, S \cup {k})
<1>1. /\ \A s \in DOMAIN kept : kept[s] = Recorded(h, k)[s]
      /\ DOMAIN kept \subseteq DOMAIN h \cup {calculations[k].signature}
  <2>1. DOMAIN Recorded(h, k) = DOMAIN h \cup {calculations[k].signature}
    BY DEF Recorded
  <2> QED
    BY <2>1, PruneKeepsSummaries
<1>2. ASSUME NEW s \in DOMAIN kept, s = calculations[k].signature
      PROVE  kept[s].job = k /\ \A j \in S \cup {k} : calculations[j].signature = s => j <= k
  <2>1. kept[s] = [at |-> now, job |-> k]
    BY <1>1, <1>2 DEF Recorded
  <2>2. k \in Calculations
    BY DEF Unfinished
  <2> QED
    BY <1>2, <2>1, <2>2 DEF HistoryInv, LastOfStock
<1>3. ASSUME NEW s \in DOMAIN kept, s # calculations[k].signature
      PROVE  s \in DOMAIN h /\ kept[s] = h[s]
  BY <1>1, <1>3 DEF Recorded
<1> QED
  BY <1>2, <1>3 DEF Shows

\* An outcome replaces the summary of its signature.
LEMMA CompleteShows ==
  ASSUME HistoryInv, NEW k \in Calculations, NEW ending, Complete(k, ending)
  PROVE  HistoryInv'
<1>1. JobInv'
  BY CompleteKeeps DEF HistoryInv
<1>2. PICK saved \in Saves :
        /\ calculations' = [calculations EXCEPT ![k].phase = "done", ![k].completed = now,
                                                ![k].saved = saved]
        /\ IF saved THEN stored' \in PrunedHistory(Recorded(stored, k)) ELSE UNCHANGED stored
  BY DEF Complete
<1>3. /\ Calculations' = Calculations
      /\ calculations'[k].phase = "done" /\ calculations'[k].saved = saved
      /\ calculations'[k].signature = calculations[k].signature
      /\ \A j \in Calculations : j # k => calculations'[j] = calculations[j]
  <2>1. calculations \in Seq(Job) /\ calculations[k] \in Job
    BY DEF HistoryInv, JobInv, JobShape, Calculations
  <2> DEFINE c == [calculations[k] EXCEPT !.phase = "done", !.completed = now, !.saved = saved]
  <2>2. calculations' = [calculations EXCEPT ![k] = c]
    BY <1>2, <2>1 DEF Calculations
  <2>3. c.phase = "done" /\ c.saved = saved /\ c.signature = calculations[k].signature
    BY <2>1 DEF Job
  <2> HIDE DEF c
  <2> QED
    BY <2>1, <2>2, <2>3 DEF Calculations
<1>4. saved \in BOOLEAN
  BY JobLimits
<1>5. k \in Unfinished /\ k \notin Saved /\ k \notin Over
  <2>1. calculations[k].phase = "working"
    BY DEF Complete
  <2> QED
    BY <2>1 DEF HistoryInv, SavedHasEnded, Unfinished, Saved, Over, Finished, Archived
<1>6. /\ Unfinished' = Unfinished \ {k} /\ Over' = Over \cup {k}
      /\ Saved' = IF saved THEN Saved \cup {k} ELSE Saved
  <2>1. Unfinished' = Unfinished \ {k} /\ Over' = Over \cup {k}
    BY <1>3, <1>5 DEF Unfinished, Over, Finished, Archived
  <2>2. CASE saved = TRUE
    BY <1>3, <2>1, <2>2 DEF Saved
  <2>3. CASE saved = FALSE
    BY <1>3, <1>5, <2>1, <2>3 DEF Saved
  <2> QED
    BY <1>4, <2>2, <2>3
<1>7. \A j \in Calculations : calculations'[j].signature = calculations[j].signature
  BY <1>3
<1>8. Saved \subseteq Calculations /\ Over \subseteq Calculations
  BY DEF Saved, Over, Finished, Archived
<1>9. LastOfStock'
  BY <1>3, <1>6, <1>7 DEF HistoryInv, LastOfStock, Unfinished
<1>10. SavedHasEnded'
  BY <1>3 DEF HistoryInv, SavedHasEnded
<1>11. Shows(history, Over)'
  <2>1. history' \in PrunedHistory(Recorded(history, k))
    BY DEF Complete
  <2>2. Shows(history', Over \cup {k})
    BY <1>5, <1>8, <2>1, RecordingShows DEF HistoryInv
  <2> QED
    BY <1>6, <1>7, <1>8, <2>2 DEF Shows
<1>12. Shows(stored, Saved)'
  <2>1. CASE saved = TRUE
    <3>1. Shows(stored', Saved \cup {k})
      BY <1>2, <1>5, <1>8, <2>1, RecordingShows DEF HistoryInv
    <3> QED
      BY <1>6, <1>7, <1>8, <2>1, <3>1 DEF Shows
  <2>2. CASE saved = FALSE
    BY <1>2, <1>6, <1>7, <1>8, <2>2, ZenonT(60) DEF HistoryInv, Shows
  <2> QED
    BY <1>4, <2>1, <2>2
<1> QED
  BY <1>1, <1>9, <1>10, <1>11, <1>12 DEF HistoryInv

\* A new process shows at most what was saved, which is all that is left.
LEMMA RestartShows ==
  ASSUME HistoryInv, Restart
  PROVE  HistoryInv'
<1>1. JobInv'
  BY RestartKeeps DEF HistoryInv
<1>2. /\ Calculations' = Calculations
      /\ \A k \in Calculations : calculations'[k] = Remains(calculations[k])
  BY DEF Restart, Calculations
<1>3. \A k \in Calculations :
        /\ calculations'[k].saved = calculations[k].saved
        /\ calculations'[k].signature = calculations[k].signature
        /\ calculations'[k].phase = IF calculations[k].saved THEN "archived" ELSE "lost"
  <2>1. \A k \in Calculations : calculations[k] \in Job
    BY DEF HistoryInv, JobInv, JobShape, Calculations
  <2>2. ASSUME NEW c \in Job
        PROVE  /\ Remains(c).saved = c.saved /\ Remains(c).signature = c.signature
               /\ Remains(c).phase = IF c.saved THEN "archived" ELSE "lost"
    BY DEF Remains, Job
  <2> QED
    BY <1>2, <2>1, <2>2
<1>4. \A k \in Calculations : calculations[k].saved \in BOOLEAN
  <2>1. \A k \in Calculations : calculations[k] \in Job
    BY DEF HistoryInv, JobInv, JobShape, Calculations
  <2>2. \A c \in Job : c.saved \in BOOLEAN
    BY Zenon DEF Job
  <2> QED
    BY <2>1, <2>2
<1>5. \A k \in Calculations :
        /\ calculations[k].saved = TRUE => calculations'[k].phase = "archived"
        /\ calculations[k].saved # TRUE => calculations'[k].phase = "lost"
  BY <1>3, <1>4
<1>6. Unfinished' = {} /\ Saved' = Saved /\ Over' = Saved
  BY <1>2, <1>3, <1>5 DEF Unfinished, Saved, Over, Finished, Archived
<1>7. LastOfStock' /\ SavedHasEnded'
  BY <1>2, <1>3, <1>5, <1>6 DEF LastOfStock, SavedHasEnded
<1>8. \A j \in Saved : calculations'[j].signature = calculations[j].signature
  BY <1>3 DEF Saved
<1>9. /\ DOMAIN stored' \subseteq DOMAIN stored
      /\ \A s \in DOMAIN stored' : stored'[s] = stored[s]
  BY DEF Restart, Empty
<1>10. Shows(stored, Saved)'
  BY <1>6, <1>8, <1>9, ShowsStill DEF HistoryInv, Shows
<1>11. /\ DOMAIN history' \subseteq DOMAIN stored
       /\ \A s \in DOMAIN history' : history'[s] = stored[s]
  <2>1. CASE history' = Empty
    BY <2>1 DEF Empty
  <2>2. CASE history' \in PrunedHistory(stored')
    BY <1>9, <2>2, PruneKeepsSummaries
  <2> QED
    BY <2>1, <2>2 DEF Restart
<1>12. Shows(history, Over)'
  BY <1>6, <1>8, <1>11, ShowsStill DEF HistoryInv, Shows
<1> QED
  BY <1>1, <1>7, <1>10, <1>12 DEF HistoryInv

\* Time passes.
LEMMA TickShows ==
  ASSUME HistoryInv, Tick \/ UNCHANGED jobVars
  PROVE  HistoryInv'
<1>1. UNCHANGED <<calculations, history, stored>>
  BY DEF Tick, jobVars, registry
<1>2. /\ Unfinished' = Unfinished /\ Calculations' = Calculations
      /\ Saved' = Saved /\ Over' = Over
  BY <1>1 DEF Unfinished, Calculations, Saved, Over, Finished, Archived
<1> QED
  BY <1>1, <1>2, TickKeeps DEF HistoryInv, LastOfStock, SavedHasEnded, Shows

\* Every step keeps the summaries true.
LEMMA NextShows == HistoryInv /\ [JobNext]_jobVars => HistoryInv'
<1> SUFFICES ASSUME HistoryInv, [JobNext]_jobVars PROVE HistoryInv'
  OBVIOUS
<1>1. CASE Client
  BY <1>1, StartShows DEF Client
<1>2. CASE \E k \in Calculations : Worker(k)
  BY <1>2, CompleteShows DEF Worker
<1> QED
  BY <1>1, <1>2, LookShows, RestartShows, TickShows DEF JobNext

-----------------------------------------------------------------------------
(* The recovery window. *)

\* Of the calculations c, those that ended between the end of j and t.
Later(c, j, t) ==
  {m \in DOMAIN c \ {j} : c[m].phase = "done" /\ c[m].completed \in c[j].completed..t}

\* At t the window of j has passed, or as many jobs as are kept ended after it.
Gone(c, j, t) ==
  t - c[j].completed >= CompletedTtl \/ Cardinality(Later(c, j, t)) >= MaxCompleted

\* The registry js leads to j.
Leads(js, c, j) == c[j].id \in DOMAIN js /\ js[c[j].id] = j

\* A finished job that the registry has dropped is one whose window is over.
DroppedIsGone == \A j \in Finished : Leads(jobs, calculations, j) \/ Gone(calculations, j, now)

EndedBefore == \A j \in Finished : calculations[j].completed <= now

\* An identity is calculated again only after that.
AgainWhenGone ==
  \A j, k \in Unfinished \cup Finished :
    j < k /\ calculations[j].id = calculations[k].id =>
      j \in Finished /\ Gone(calculations, j, calculations[k].started)

WindowInv == JobInv /\ EndedBefore /\ DroppedIsGone /\ AgainWhenGone

LEMMA JobFields ==
  ASSUME NEW c \in Seq(Job), NEW m \in DOMAIN c
  PROVE  c[m].completed \in Nat /\ c[m].started \in Nat
<1>1. c[m] \in Job
  OBVIOUS
<1> QED
  BY <1>1 DEF Job

\* What _prune drops of the registry js is a finished job whose window is over: if it was
\* within the window, the jobs kept in its place ended after it.
LEMMA PruneDropsGone ==
  ASSUME NEW js, NEW c, c \in Seq(Job), now \in Nat,
         \A i \in DOMAIN js : js[i] \in DOMAIN c /\ c[js[i]].id = i,
         \A m \in DOMAIN c : c[m].phase = "done" => c[m].completed <= now,
         NEW kept \in PrunedJobs(js, c), NEW j \in DOMAIN c, Leads(js, c, j)
  PROVE  Leads(kept, c, j) \/ (c[j].phase = "done" /\ Gone(c, j, now))
<1> DEFINE finished == {i \in DOMAIN js : c[js[i]].phase = "done"}
           fresh == {i \in finished : now - c[js[i]].completed < CompletedTtl}
           completed == [i \in fresh |-> c[js[i]].completed]
           i0 == c[j].id
<1>1. PICK some \in Newest(fresh, completed, MaxCompleted) :
        kept = [i \in (DOMAIN js \ finished) \cup some |-> js[i]]
  BY DEF PrunedJobs
<1>2. /\ some \subseteq fresh
      /\ Cardinality(some) = IF Cardinality(fresh) < MaxCompleted THEN Cardinality(fresh) ELSE MaxCompleted
      /\ \A x \in some, y \in fresh \ some : completed[y] <= completed[x]
  BY <1>1 DEF Newest
<1>3. i0 \in DOMAIN js /\ js[i0] = j
  BY DEF Leads
<1>4. DOMAIN kept = (DOMAIN js \ finished) \cup some /\ \A i \in DOMAIN kept : kept[i] = js[i]
  BY <1>1
<1>5. CASE i0 \in DOMAIN kept
  <2>1. kept[i0] = j
    BY <1>3, <1>4, <1>5
  <2> QED
    BY <1>5, <2>1, Zenon DEF Leads
<1>6. \A m \in DOMAIN c : c[m].completed \in Nat
  BY JobFields
<1>7. CASE i0 \notin DOMAIN kept
  <2>1. i0 \in finished /\ i0 \notin some /\ c[j].phase = "done"
    BY <1>3, <1>4, <1>7
  <2>2. CASE i0 \notin fresh
    <3>1. ~(now - c[j].completed < CompletedTtl)
      BY <1>3, <2>1, <2>2
    <3> QED
      BY <1>6, <2>1, <3>1, JobLimits DEF Gone
  <2>3. CASE i0 \in fresh
    <3> DEFINE L == Later(c, j, now)
               f == [x \in fresh |-> js[x]]
               g == [x \in some |-> js[x]]
    <3>1. IsFiniteSet(DOMAIN c)
      <4>1. DOMAIN c = 1..Len(c) /\ Len(c) \in Nat
        OBVIOUS
      <4> QED
        BY <4>1, FS_Interval
    <3>2. \A x, y \in DOMAIN js : js[x] = js[y] => x = y
      OBVIOUS
    <3>3. f \in Injection(fresh, DOMAIN c)
      BY <3>2 DEF Injection, IsInjective
    <3>4. IsFiniteSet(fresh)
      BY <3>1, <3>3, FS_Injection
    <3>5. ASSUME NEW x \in some
          PROVE  js[x] \in L
      <4>1. x \in DOMAIN js /\ js[x] \in DOMAIN c /\ c[js[x]].phase = "done"
        BY <1>2
      <4>2. js[x] # j
        BY <1>3, <2>1, <3>2, <4>1
      <4>3. completed[i0] <= completed[x] /\ x \in fresh
        BY <1>2, <2>1, <2>3
      <4>4. c[j].completed <= c[js[x]].completed
        BY <1>3, <2>3, <4>3
      <4>5. c[js[x]].completed <= now
        BY <4>1
      <4> QED
        BY <1>6, <4>1, <4>2, <4>4, <4>5 DEF Later
    <3>6. g \in Injection(some, L)
      <4>1. some \subseteq DOMAIN js
        BY <1>2
      <4> HIDE DEF L
      <4> QED
        BY <3>2, <3>5, <4>1 DEF Injection, IsInjective
    <3>7. IsFiniteSet(L)
      BY <3>1, FS_Subset DEF Later
    <3>8. Cardinality(some) <= Cardinality(L) /\ Cardinality(L) \in Nat
      BY <3>6, <3>7, FS_Injection, FS_CardinalityType
    <3> HIDE DEF fresh, completed, L
    <3>9. Cardinality(some) = MaxCompleted
      <4>1. some # fresh
        BY <2>1, <2>3
      <4>2. Cardinality(some) # Cardinality(fresh)
        BY <1>2, <3>4, <4>1, FS_Subset
      <4> QED
        BY <1>2, <4>2
    <3>10. Cardinality(L) >= MaxCompleted
      BY <3>8, <3>9, JobLimits
    <3> QED
      BY <2>1, <3>10 DEF Gone, L
  <2> QED
    BY <2>2, <2>3
<1> QED
  BY <1>5, <1>7

\* Once gone, gone for good, while the calculations go on.
LEMMA GoneStays ==
  ASSUME NEW c \in Seq(Job), NEW d \in Seq(Job), NEW t \in Nat, NEW u \in Nat, t <= u,
         NEW j \in DOMAIN c, DOMAIN c \subseteq DOMAIN d,
         \A m \in DOMAIN c : c[m].phase = "done" =>
           d[m].phase = "done" /\ d[m].completed = c[m].completed,
         c[j].phase = "done", Gone(c, j, t)
  PROVE  Gone(d, j, u)
<1>1. d[j].completed = c[j].completed /\ c[j].completed \in Nat
  BY JobFields
<1>2. CASE t - c[j].completed >= CompletedTtl
  BY <1>1, <1>2, JobLimits DEF Gone
<1>3. CASE Cardinality(Later(c, j, t)) >= MaxCompleted
  <2>1. \A m \in DOMAIN c : c[m].completed \in Nat
    BY JobFields
  <2>2. Later(c, j, t) \subseteq Later(d, j, u)
    BY <1>1, <2>1 DEF Later
  <2>3. DOMAIN d = 1..Len(d) /\ Len(d) \in Nat
    OBVIOUS
  <2>4. IsFiniteSet(Later(d, j, u))
    <3>1. IsFiniteSet(DOMAIN d)
      BY <2>3, FS_Interval
    <3> QED
      BY <3>1, FS_Subset DEF Later
  <2>5. Cardinality(Later(c, j, t)) <= Cardinality(Later(d, j, u))
    BY <2>2, <2>4, FS_Subset
  <2>6. Cardinality(Later(c, j, t)) \in Nat /\ Cardinality(Later(d, j, u)) \in Nat
    <3>1. IsFiniteSet(Later(c, j, t))
      BY <2>2, <2>4, FS_Subset
    <3> QED
      BY <2>4, <3>1, FS_CardinalityType
  <2>7. Cardinality(Later(d, j, u)) >= MaxCompleted
    BY <1>3, <2>5, <2>6, JobLimits
  <2> QED
    BY <2>7 DEF Gone
<1> QED
  BY <1>2, <1>3 DEF Gone

\* The registry is pruned and nothing else of it changes: what it drops is gone.
LEMMA PruningDropsGone ==
  ASSUME JobInv, EndedBefore, DroppedIsGone, NEW kept \in PrunedJobs(jobs, calculations),
         NEW j \in Finished
  PROVE  Leads(kept, calculations, j) \/ Gone(calculations, j, now)
<1>1. j \in DOMAIN calculations /\ calculations[j].phase = "done"
  BY DEF Finished, Calculations
<1>2. /\ calculations \in Seq(Job) /\ now \in Nat
      /\ \A i \in DOMAIN jobs : jobs[i] \in DOMAIN calculations /\ calculations[jobs[i]].id = i
      /\ \A m \in DOMAIN calculations : calculations[m].phase = "done" => calculations[m].completed <= now
  BY DEF JobInv, JobShape, Registered, EndedBefore, Finished, Calculations
<1>3. CASE Leads(jobs, calculations, j)
  BY <1>1, <1>2, <1>3, PruneDropsGone
<1> QED
  BY <1>3 DEF DroppedIsGone

LEMMA InitWindow == JobInit => WindowInv
<1> SUFFICES ASSUME JobInit PROVE WindowInv
  OBVIOUS
<1>1. Unfinished = {} /\ Finished = {}
  BY DEF JobInit, Unfinished, Finished, Calculations
<1> QED
  BY <1>1, InitKeeps DEF WindowInv, EndedBefore, DroppedIsGone, AgainWhenGone

\* A request that starts nothing.
LEMMA LookWindow ==
  ASSUME WindowInv, Look
  PROVE  WindowInv'
<1>1. UNCHANGED <<calculations, now>> /\ jobs' \in PrunedJobs(jobs, calculations)
  BY DEF Look
<1>2. Finished' = Finished /\ Unfinished' = Unfinished
  BY <1>1 DEF Finished, Unfinished, Calculations
<1>3. DroppedIsGone'
  BY <1>1, <1>2, PruningDropsGone DEF WindowInv, DroppedIsGone
<1> QED
  BY <1>1, <1>2, <1>3, LookKeeps DEF WindowInv, EndedBefore, AgainWhenGone

\* Time passes.
LEMMA TickWindow ==
  ASSUME WindowInv, Tick \/ UNCHANGED jobVars
  PROVE  WindowInv'
<1>1. UNCHANGED <<calculations, jobs>> /\ now \in Nat /\ now' \in Nat /\ now <= now'
  BY DEF Tick, jobVars, registry, WindowInv, JobInv, JobShape
<1>2. /\ Finished' = Finished /\ Unfinished' = Unfinished /\ calculations \in Seq(Job)
      /\ \A j \in Finished : /\ j \in DOMAIN calculations /\ calculations[j].phase = "done"
                             /\ calculations[j].completed \in Nat
  BY <1>1, JobFields DEF Finished, Unfinished, Calculations, WindowInv, JobInv, JobShape
<1>3. EndedBefore'
  BY <1>1, <1>2 DEF WindowInv, EndedBefore
<1>4. DroppedIsGone'
  <2>1. ASSUME NEW j \in Finished, Gone(calculations, j, now)
        PROVE  Gone(calculations, j, now')
    BY <1>1, <1>2, <2>1, GoneStays
  <2> QED
    BY <1>1, <1>2, <2>1 DEF WindowInv, DroppedIsGone
<1> QED
  BY <1>1, <1>2, <1>3, <1>4, TickKeeps DEF WindowInv, AgainWhenGone

\* A new job has its identity for itself: an earlier one of that identity is gone by now.
LEMMA StartWindow ==
  ASSUME WindowInv, NEW id \in Ids, NEW s \in Signatures, Start(id, s)
  PROVE  WindowInv'
<1> DEFINE n == Len(calculations) + 1
           job == [id |-> id, signature |-> s, phase |-> "working",
                   started |-> now, completed |-> 0, saved |-> FALSE]
<1>1. PICK kept \in PrunedJobs(jobs, calculations) :
        /\ id \notin DOMAIN kept
        /\ jobs' = [i \in DOMAIN kept \cup {id} |-> IF i = id THEN n ELSE kept[i]]
  BY DEF Start
<1>2. job \in Job /\ now \in Nat /\ calculations \in Seq(Job)
  BY DEF WindowInv, JobInv, JobShape, Job
<1>3. /\ Len(calculations) \in Nat /\ calculations' \in Seq(Job)
      /\ Calculations = 1..Len(calculations) /\ Calculations' = Calculations \cup {n}
      /\ \A k \in Calculations : calculations'[k] = calculations[k]
      /\ calculations'[n] = job /\ n \notin Calculations
  <2>1. calculations' = Append(calculations, job)
    BY DEF Start
  <2> HIDE DEF job
  <2> QED
    BY <1>2, <2>1 DEF Calculations
<1>4. \A k \in Calculations : k \in Nat /\ k < n
  BY <1>3
<1>5. /\ calculations'[n].phase = "working" /\ calculations'[n].id = id
      /\ calculations'[n].started = now
  BY <1>3
<1>6. now' = now
  BY DEF Start
<1> HIDE DEF n, job
<1>7. /\ Unfinished' = Unfinished \cup {n} /\ Finished' = Finished
      /\ Unfinished \subseteq Calculations /\ Finished \subseteq Calculations
  BY <1>3, <1>5 DEF Unfinished, Finished
<1>8. EndedBefore'
  BY <1>3, <1>6, <1>7 DEF WindowInv, EndedBefore
<1>9. ASSUME NEW j \in Finished, NEW t \in Nat, Gone(calculations, j, t)
      PROVE  Gone(calculations', j, t)
  <2>1. \A m \in DOMAIN calculations : calculations[m].phase = "done" =>
          calculations'[m].phase = "done" /\ calculations'[m].completed = calculations[m].completed
    BY <1>3 DEF Calculations
  <2>2. /\ j \in DOMAIN calculations /\ calculations[j].phase = "done"
        /\ DOMAIN calculations \subseteq DOMAIN calculations'
    BY <1>3 DEF Finished, Calculations
  <2> QED
    BY <1>2, <1>3, <1>9, <2>1, <2>2, GoneStays
<1>10. \A j \in Finished : Leads(kept, calculations, j) \/ Gone(calculations, j, now)
  BY PruningDropsGone DEF WindowInv
<1>11. DroppedIsGone'
  <2>1. ASSUME NEW j \in Finished, Leads(kept, calculations, j)
        PROVE  Leads(jobs', calculations', j)
    <3>1. calculations[j].id \in DOMAIN kept /\ kept[calculations[j].id] = j
      BY <2>1 DEF Leads
    <3>2. calculations'[j].id = calculations[j].id
      BY <1>3, <1>7
    <3>3. calculations[j].id # id
      BY <1>1, <3>1
    <3> QED
      BY <1>1, <3>1, <3>2, <3>3 DEF Leads
  <2> QED
    BY <1>2, <1>6, <1>7, <1>9, <1>10, <2>1 DEF DroppedIsGone
<1>12. AgainWhenGone'
  <2> SUFFICES ASSUME NEW j \in Unfinished' \cup Finished', NEW k \in Unfinished' \cup Finished',
                      j < k, calculations'[j].id = calculations'[k].id
               PROVE  j \in Finished' /\ Gone(calculations', j, calculations'[k].started)
    BY DEF AgainWhenGone
  <2>1. j \in Calculations
    BY <1>3, <1>4, <1>7 DEF n
  <2>2. j \in Unfinished \cup Finished /\ calculations'[j] = calculations[j]
    BY <1>3, <1>7, <2>1
  <2>3. CASE k = n
    <3>1. calculations[j].id = id
      BY <1>5, <2>2, <2>3
    <3>2. ~Leads(kept, calculations, j)
      BY <1>1, <3>1 DEF Leads
    <3>3. j \notin Unfinished
      <4>1. \A m \in Unfinished : calculations[m].id \in DOMAIN kept
        BY PruneKeepsRegistered DEF WindowInv, JobInv
      <4> QED
        BY <1>1, <3>1, <4>1
    <3>4. j \in Finished /\ Gone(calculations, j, now)
      BY <1>10, <2>2, <3>2, <3>3
    <3> QED
      BY <1>2, <1>5, <1>7, <1>9, <2>3, <3>4
  <2>4. CASE k # n
    <3>1. k \in Unfinished \cup Finished /\ calculations'[k] = calculations[k]
      BY <1>3, <1>7, <2>4
    <3>2. j \in Finished /\ Gone(calculations, j, calculations[k].started)
      BY <2>2, <3>1 DEF WindowInv, AgainWhenGone
    <3>3. calculations[k].started \in Nat
      BY <1>2, <1>7, <3>1, JobFields DEF Calculations
    <3> QED
      BY <1>7, <1>9, <3>1, <3>2, <3>3
  <2> QED
    BY <2>3, <2>4
<1> QED
  BY <1>8, <1>11, <1>12, StartKeeps DEF WindowInv

\* A job that ends leaves the window of those that ended before it as it was, and may push
\* one of them out of the registry.
LEMMA CompleteWindow ==
  ASSUME WindowInv, NEW k \in Calculations, NEW o, Complete(k, o)
  PROVE  WindowInv'
<1>1. PICK saved \in Saves :
        calculations' = [calculations EXCEPT ![k].phase = "done", ![k].completed = now,
                                             ![k].saved = saved]
  BY DEF Complete
<1>2. calculations \in Seq(Job) /\ now \in Nat
  BY DEF WindowInv, JobInv, JobShape
<1>3. /\ Calculations' = Calculations
      /\ calculations'[k].phase = "done" /\ calculations'[k].completed = now
      /\ calculations'[k].id = calculations[k].id
      /\ calculations'[k].started = calculations[k].started
      /\ \A j \in Calculations : j # k => calculations'[j] = calculations[j]
      /\ calculations' \in Seq(Job)
  <2>1. calculations[k] \in Job
    BY <1>2 DEF Calculations
  <2> DEFINE c == [calculations[k] EXCEPT !.phase = "done", !.completed = now, !.saved = saved]
  <2>2. calculations' = [calculations EXCEPT ![k] = c]
    BY <1>1, <1>2 DEF Calculations
  <2>3. /\ c.phase = "done" /\ c.completed = now /\ c.id = calculations[k].id
        /\ c.started = calculations[k].started /\ c \in Job
    BY <1>2, <2>1, JobLimits DEF Job
  <2> HIDE DEF c
  <2> QED
    BY <1>2, <2>2, <2>3 DEF Calculations
<1>4. /\ calculations[k].phase = "working" /\ now' = now
      /\ jobs' \in PrunedJobs(jobs, calculations')
  BY DEF Complete
<1>5. /\ Finished' = Finished \cup {k} /\ Unfinished' = Unfinished \ {k}
      /\ k \in Unfinished /\ k \notin Finished
      /\ Unfinished \subseteq Calculations /\ Finished \subseteq Calculations
  BY <1>3, <1>4 DEF Finished, Unfinished
<1>6. EndedBefore'
  BY <1>2, <1>3, <1>4, <1>5 DEF WindowInv, EndedBefore
<1>7. ASSUME NEW j \in Finished, NEW t \in Nat, Gone(calculations, j, t)
      PROVE  Gone(calculations', j, t)
  <2>1. \A m \in DOMAIN calculations : calculations[m].phase = "done" =>
          calculations'[m].phase = "done" /\ calculations'[m].completed = calculations[m].completed
    BY <1>3, <1>4 DEF Calculations
  <2>2. /\ j \in DOMAIN calculations /\ calculations[j].phase = "done"
        /\ DOMAIN calculations \subseteq DOMAIN calculations'
    BY <1>3 DEF Finished, Calculations
  <2> QED
    BY <1>2, <1>3, <1>7, <2>1, <2>2, GoneStays
<1>8. DroppedIsGone'
  <2>1. ASSUME NEW j \in Finished', Leads(jobs, calculations', j)
        PROVE  Leads(jobs', calculations', j) \/ Gone(calculations', j, now)
    <3>1. \A i \in DOMAIN jobs : jobs[i] \in DOMAIN calculations' /\ calculations'[jobs[i]].id = i
      BY <1>3 DEF WindowInv, JobInv, Registered, Calculations
    <3>2. \A m \in DOMAIN calculations' : calculations'[m].phase = "done" => calculations'[m].completed <= now
      BY <1>4, <1>6 DEF EndedBefore, Finished, Calculations
    <3>3. j \in DOMAIN calculations'
      BY DEF Finished, Calculations
    <3> QED
      BY <1>2, <1>3, <1>4, <2>1, <3>1, <3>2, <3>3, PruneDropsGone
  <2>2. ASSUME NEW j \in Finished', ~Leads(jobs, calculations', j)
        PROVE  Gone(calculations', j, now)
    <3>1. calculations'[j].id = calculations[j].id
      BY <1>3, <1>5
    <3>2. ~Leads(jobs, calculations, j)
      BY <2>2, <3>1 DEF Leads
    <3>3. j # k
      BY <1>5, <3>2 DEF WindowInv, JobInv, Registered, Leads
    <3> QED
      BY <1>2, <1>5, <1>7, <3>2, <3>3 DEF WindowInv, DroppedIsGone
  <2> QED
    BY <1>4, <2>1, <2>2 DEF DroppedIsGone
<1>9. AgainWhenGone'
  <2> SUFFICES ASSUME NEW i \in Unfinished' \cup Finished', NEW j \in Unfinished' \cup Finished',
                      i < j, calculations'[i].id = calculations'[j].id
               PROVE  i \in Finished' /\ Gone(calculations', i, calculations'[j].started)
    BY DEF AgainWhenGone
  <2>1. /\ i \in Unfinished \cup Finished /\ j \in Unfinished \cup Finished
        /\ calculations'[i].id = calculations[i].id /\ calculations'[j].id = calculations[j].id
        /\ calculations'[j].started = calculations[j].started
    BY <1>3, <1>5
  <2>2. i \in Finished /\ Gone(calculations, i, calculations[j].started)
    BY <2>1 DEF WindowInv, AgainWhenGone
  <2>3. calculations[j].started \in Nat
    BY <1>2, <1>5, <2>1, JobFields DEF Calculations
  <2> QED
    BY <1>5, <1>7, <2>1, <2>2, <2>3
<1> QED
  BY <1>6, <1>8, <1>9, CompleteKeeps DEF WindowInv

\* A new process has nothing of the window.
LEMMA RestartWindow ==
  ASSUME WindowInv, Restart
  PROVE  WindowInv'
<1>1. \A k \in DOMAIN calculations' : calculations'[k].phase \in {"archived", "lost"}
  <2>1. /\ DOMAIN calculations' = DOMAIN calculations
        /\ \A k \in DOMAIN calculations : calculations'[k] = Remains(calculations[k])
    BY DEF Restart, Calculations
  <2>2. \A k \in DOMAIN calculations : calculations[k] \in Job
    BY DEF WindowInv, JobInv, JobShape
  <2>3. \A c \in Job : Remains(c).phase \in {"archived", "lost"}
    BY DEF Remains, Job
  <2> QED
    BY <2>1, <2>2, <2>3
<1>2. Unfinished' = {} /\ Finished' = {}
  BY <1>1 DEF Unfinished, Finished, Calculations
<1> QED
  BY <1>2, RestartKeeps DEF WindowInv, EndedBefore, DroppedIsGone, AgainWhenGone

\* Every step keeps the window.
LEMMA NextWindow == WindowInv /\ [JobNext]_jobVars => WindowInv'
<1> SUFFICES ASSUME WindowInv, [JobNext]_jobVars PROVE WindowInv'
  OBVIOUS
<1>1. CASE Client
  BY <1>1, StartWindow DEF Client
<1>2. CASE \E k \in Calculations : Worker(k)
  BY <1>2, CompleteWindow DEF Worker
<1> QED
  BY <1>1, <1>2, LookWindow, RestartWindow, TickWindow DEF JobNext

-----------------------------------------------------------------------------
(* The theorems of the registry. *)

\* The registry, the busy stocks and the slots fit the running workers.
THEOREM RegistryInvariant == JobSpec => []JobInv
<1>1. JobInit => JobInv
  BY InitKeeps
<1>2. JobInv /\ [JobNext]_jobVars => JobInv'
  BY NextKeeps
<1> QED
  BY <1>1, <1>2, PTL DEF JobSpec

\* No slot is lost and no running job is dropped (_active, _active_symbols, _prune, _run).
THEOREM NoSlotLost == JobSpec => []SlotsAreRunning
<1>1. JobInv => SlotsAreRunning
  BY DEF JobInv, Registered, Seated, Counted, SlotsAreRunning
<1> QED
  BY <1>1, RegistryInvariant, PTL

\* What is shown for a signature is its last outcome, across restarts too, unless that
\* outcome could not be written (_history, _save_history, _load_history).
THEOREM LatestIsShown == JobSpec => []HistoryIsLatest
<1>1. JobInit => HistoryInv
  BY InitShows
<1>2. HistoryInv /\ [JobNext]_jobVars => HistoryInv'
  BY NextShows
<1>3. HistoryInv => HistoryIsLatest
  BY DEF HistoryInv, Shows, Over, HistoryIsLatest
<1> QED
  BY <1>1, <1>2, <1>3, PTL DEF JobSpec

\* Within the recovery window an identity is calculated once ("a retry of the same ID
\* retrieves exactly the original calculation for a short recovery window",
\* backtest_jobs.py:65): a process calculates it again only when the window of the earlier job
\* has passed, or as many jobs as are kept finished after it.
THEOREM OneCalculationInWindow == JobSpec => []OnceWithinWindow
<1>1. ASSUME NEW j \in Unfinished \cup Finished, NEW k \in Unfinished \cup Finished
      PROVE  Later(calculations, j, calculations[k].started) =
               {m \in Finished \ {j} :
                  calculations[m].completed \in calculations[j].completed..calculations[k].started}
  BY DEF Later, Finished, Calculations
<1>2. WindowInv => OnceWithinWindow
  BY <1>1 DEF WindowInv, AgainWhenGone, Gone, OnceWithinWindow
<1>3. JobInit => WindowInv
  BY InitWindow
<1>4. WindowInv /\ [JobNext]_jobVars => WindowInv'
  BY NextWindow
<1> QED
  BY <1>2, <1>3, <1>4, PTL DEF JobSpec

-----------------------------------------------------------------------------
(* The watchlist refresh. *)

\* By the calculations c and their outcomes o, one of signature s gave a result.
Earned(c, o, s) ==
  \E k \in DOMAIN c : k \in DOMAIN o /\ c[k].signature = s /\ o[k] \in ResultValid

\* One that nobody asked for by hand gave the result it was asked for.
EarnedAlone(c, o, s) ==
  \E k \in DOMAIN c :
    k \in DOMAIN o /\ c[k].signature = s /\ c[k].id \notin ManualIds /\ o[k] = "valid"

\* The calculations of signature s that nobody asked for by hand and that gave none.
Failures(c, o, s) ==
  {k \in DOMAIN o \ {j \in DOMAIN c : c[j].id \in ManualIds} : c[k].signature = s /\ o[k] # "valid"}

\* What the rows of table say of their signatures is true.
TrueRow(c, o, s, row) ==
  /\ row.attempts \in Nat /\ row.completed \in BOOLEAN
  /\ row.completed => Earned(c, o, s) /\ (row.attempts > 1 => EarnedAlone(c, o, s))
  /\ ~row.completed => row.attempts <= MaxAttempts /\ row.attempts <= Cardinality(Failures(c, o, s))

TrueRows(c, o, table) == \A s \in DOMAIN table : TrueRow(c, o, s, table[s])

\* Outcomes are those of calculations that ended, and of all that the registry shows.
Known(c, o) == DOMAIN o \subseteq DOMAIN c /\ IsFiniteSet(DOMAIN o)

OutcomesKnown ==
  /\ Known(calculations, outcome)
  /\ Over \subseteq DOMAIN outcome
  /\ \A k \in DOMAIN outcome : calculations[k].phase # "working"

TickShape ==
  tick = [at |-> tick.at, job |-> tick.job, attempts |-> tick.attempts,
          desired |-> tick.desired, known |-> tick.known]

\* The thread's calculation j is its own, with the failures that came before it.
OwnJob(c, o, j, attempts) ==
  j # 0 =>
    /\ j \in DOMAIN c /\ c[j].id \notin ManualIds
    /\ attempts \in Nat /\ attempts < MaxAttempts
    /\ attempts <= Cardinality(Failures(c, o, c[j].signature) \ {j})

RefreshInv ==
  /\ HistoryInv /\ OutcomesKnown
  /\ TickShape /\ OwnJob(calculations, outcome, tick.job, tick.attempts)
  /\ wanted \subseteq Signatures /\ DOMAIN tick.known \subseteq Signatures
  /\ TrueRows(calculations, outcome, runs) /\ TrueRows(calculations, outcome, tick.known)

\* Calculations keep what they are for, and outcomes stay.
Continued(c, o, d, q) ==
  /\ DOMAIN c \subseteq DOMAIN d
  /\ \A k \in DOMAIN c : d[k].signature = c[k].signature /\ d[k].id = c[k].id
  /\ DOMAIN o \subseteq DOMAIN q
  /\ \A k \in DOMAIN o : q[k] = o[k]
  /\ Known(c, o) /\ Known(d, q)

LEMMA FailuresFinite ==
  ASSUME NEW c, NEW o, Known(c, o), NEW s, NEW k
  PROVE  /\ IsFiniteSet(Failures(c, o, s)) /\ IsFiniteSet(Failures(c, o, s) \ {k})
         /\ Cardinality(Failures(c, o, s)) \in Nat /\ Cardinality(Failures(c, o, s) \ {k}) \in Nat
<1>1. IsFiniteSet(Failures(c, o, s)) /\ IsFiniteSet(Failures(c, o, s) \ {k})
  BY FS_Subset DEF Known, Failures
<1> QED
  BY <1>1, FS_CardinalityType

\* What was earned stays earned, and failures are only added.
LEMMA FailuresGrow ==
  ASSUME NEW c, NEW o, NEW d, NEW q, Continued(c, o, d, q), NEW s, NEW j
  PROVE  /\ Earned(c, o, s) => Earned(d, q, s)
         /\ EarnedAlone(c, o, s) => EarnedAlone(d, q, s)
         /\ Cardinality(Failures(c, o, s)) <= Cardinality(Failures(d, q, s))
         /\ Cardinality(Failures(c, o, s) \ {j}) <= Cardinality(Failures(d, q, s) \ {j})
<1>1. /\ Earned(c, o, s) => Earned(d, q, s)
      /\ EarnedAlone(c, o, s) => EarnedAlone(d, q, s)
  BY DEF Continued, Earned, EarnedAlone
<1>2. Failures(c, o, s) \subseteq Failures(d, q, s)
  BY DEF Continued, Failures, Known
<1>3. IsFiniteSet(Failures(d, q, s)) /\ IsFiniteSet(Failures(d, q, s) \ {j})
  BY FailuresFinite DEF Continued
<1>4. Failures(c, o, s) \ {j} \subseteq Failures(d, q, s) \ {j}
  BY <1>2
<1> QED
  BY <1>1, <1>2, <1>3, <1>4, FS_Subset

\* True rows stay true.
LEMMA RowStaysTrue ==
  ASSUME NEW c, NEW o, NEW d, NEW q, Continued(c, o, d, q), NEW s, NEW row, TrueRow(c, o, s, row)
  PROVE  TrueRow(d, q, s, row)
<1>1. /\ Earned(c, o, s) => Earned(d, q, s)
      /\ EarnedAlone(c, o, s) => EarnedAlone(d, q, s)
      /\ Cardinality(Failures(c, o, s)) <= Cardinality(Failures(d, q, s))
  BY FailuresGrow
<1>2. Cardinality(Failures(c, o, s)) \in Nat /\ Cardinality(Failures(d, q, s)) \in Nat
  BY FailuresFinite DEF Continued
<1> QED
  BY <1>1, <1>2 DEF TrueRow

\* The thread's calculation is still its own.
LEMMA OwnJobStays ==
  ASSUME NEW c, NEW o, NEW d, NEW q, Continued(c, o, d, q), NEW j, NEW n, OwnJob(c, o, j, n)
  PROVE  OwnJob(d, q, j, n)
<1> SUFFICES ASSUME j # 0 PROVE OwnJob(d, q, j, n)
  BY DEF OwnJob
<1>1. /\ j \in DOMAIN c /\ c[j].id \notin ManualIds /\ n \in Nat /\ n < MaxAttempts
      /\ n <= Cardinality(Failures(c, o, c[j].signature) \ {j})
  BY DEF OwnJob
<1>2. j \in DOMAIN d /\ d[j].signature = c[j].signature /\ d[j].id = c[j].id
  BY <1>1 DEF Continued
<1>3. Cardinality(Failures(c, o, c[j].signature) \ {j}) <= Cardinality(Failures(d, q, c[j].signature) \ {j})
  BY FailuresGrow
<1>4. /\ Cardinality(Failures(c, o, c[j].signature) \ {j}) \in Nat
      /\ Cardinality(Failures(d, q, c[j].signature) \ {j}) \in Nat
  BY FailuresFinite DEF Continued
<1>5. n <= Cardinality(Failures(d, q, d[j].signature) \ {j})
  BY <1>1, <1>2, <1>3, <1>4
<1> QED
  BY <1>1, <1>2, <1>5 DEF OwnJob

LEMMA Carried ==
  ASSUME RefreshInv, Continued(calculations, outcome, calculations', outcome')
  PROVE  /\ TrueRows(calculations', outcome', runs) /\ TrueRows(calculations', outcome', tick.known)
         /\ OwnJob(calculations', outcome', tick.job, tick.attempts)
<1>1. ASSUME NEW table, TrueRows(calculations, outcome, table)
      PROVE  TrueRows(calculations', outcome', table)
  BY <1>1, RowStaysTrue DEF TrueRows
<1> QED
  BY <1>1, OwnJobStays DEF RefreshInv

\* A step that starts and ends no calculation.
LEMMA NothingEnds ==
  ASSUME RefreshInv, UNCHANGED <<calculations, outcome>>
  PROVE  /\ OutcomesKnown' /\ Continued(calculations, outcome, calculations', outcome')
<1>1. Over' = Over
  BY DEF Over, Finished, Archived, Calculations
<1> QED
  BY <1>1 DEF RefreshInv, OutcomesKnown, Continued, Known

\* A step of the registry that the thread takes no part in.
LEMMA ThreadStays ==
  ASSUME RefreshInv, HistoryInv', OutcomesKnown',
         Continued(calculations, outcome, calculations', outcome'), UNCHANGED <<wanted, runs, tick>>
  PROVE  RefreshInv'
BY Carried DEF RefreshInv, TickShape

\* One field of a record of the thread's shape changes.
LEMMA TickFields ==
  ASSUME NEW a, NEW j, NEW n, NEW d, NEW k, NEW x, NEW t,
         t = [at |-> a, job |-> j, attempts |-> n, desired |-> d, known |-> k]
  PROVE  /\ [t EXCEPT !.at = x] = [at |-> x, job |-> j, attempts |-> n, desired |-> d, known |-> k]
         /\ [t EXCEPT !.job = x] = [at |-> a, job |-> x, attempts |-> n, desired |-> d, known |-> k]
         /\ [t EXCEPT !.attempts = x] = [at |-> a, job |-> j, attempts |-> x, desired |-> d, known |-> k]
         /\ [t EXCEPT !.known = x] = [at |-> a, job |-> j, attempts |-> n, desired |-> d, known |-> x]
OBVIOUS

\* The tick forgets what it read.
LEMMA EndedTick ==
  ASSUME RefreshInv
  PROVE  /\ Ended = [at |-> "start", job |-> tick.job, attempts |-> tick.attempts,
                     desired |-> tick.desired, known |-> Empty]
         /\ DOMAIN Empty = {}
<1> DEFINE started == [tick EXCEPT !.at = "start"]
<1>1. started = [at |-> "start", job |-> tick.job, attempts |-> tick.attempts,
                 desired |-> tick.desired, known |-> tick.known]
  BY TickFields DEF RefreshInv, TickShape
<1>2. Ended = [started EXCEPT !.known = Empty]
  BY DEF Ended
<1> HIDE DEF started
<1>3. Ended = [at |-> "start", job |-> tick.job, attempts |-> tick.attempts,
               desired |-> tick.desired, known |-> Empty]
  BY <1>1, <1>2, TickFields
<1>4. DOMAIN Empty = {}
  BY DEF Empty
<1> QED
  BY <1>3, <1>4

\* The outcome of the thread's own calculation is recorded: its failure is one more than
\* those the attempts before it were counted by.
LEMMA SettleRefreshes ==
  ASSUME RefreshInv, Settle
  PROVE  RefreshInv'
<1> DEFINE j == tick.job
           s == calculations[j].signature
           row == [attempts |-> tick.attempts + 1, retry_at |-> now + Backoff,
                   completed |-> j \in DOMAIN outcome /\ outcome[j] = "valid"]
           F == Failures(calculations, outcome, s)
<1>1. UNCHANGED <<jobVars, wanted, outcome>> /\ j # 0 /\ calculations[j].phase = "done"
  BY DEF Settle, Ready, Done
<1>2. HistoryInv'
  BY <1>1, TickShows DEF RefreshInv
<1>3. calculations' = calculations /\ OutcomesKnown'
  BY <1>1, NothingEnds DEF jobVars
<1>4. /\ j \in Calculations /\ calculations[j].id \notin ManualIds /\ tick.attempts \in Nat
      /\ tick.attempts < MaxAttempts /\ tick.attempts <= Cardinality(F \ {j})
  BY <1>1 DEF RefreshInv, OwnJob, Calculations
<1>5. j \in DOMAIN outcome
  BY <1>1, <1>4 DEF RefreshInv, OutcomesKnown, Over, Finished
<1>6. /\ row.attempts = tick.attempts + 1 /\ row.completed \in BOOLEAN
      /\ row.completed <=> outcome[j] = "valid"
  BY <1>5
<1>7. TrueRow(calculations, outcome, s, row)
  <2>1. CASE outcome[j] = "valid"
    <3>1. Earned(calculations, outcome, s) /\ EarnedAlone(calculations, outcome, s)
      BY <1>4, <1>5, <2>1 DEF Earned, EarnedAlone, ResultValid, Calculations
    <3> HIDE DEF row
    <3> QED BY <1>4, <1>6, <2>1, <3>1 DEF TrueRow
  <2>2. CASE outcome[j] # "valid"
    <3>1. j \in F
      BY <1>4, <1>5, <2>2 DEF Failures, Calculations
    <3>2. IsFiniteSet(F) /\ Cardinality(F) \in Nat /\ Cardinality(F \ {j}) \in Nat
      BY FailuresFinite DEF RefreshInv, OutcomesKnown
    <3> HIDE DEF F, row
    <3>3. Cardinality(F \ {j}) = Cardinality(F) - 1
      BY <3>1, <3>2, FS_RemoveElement
    <3>4. tick.attempts + 1 <= Cardinality(F) /\ tick.attempts + 1 <= MaxAttempts
      BY <1>4, <3>2, <3>3, RefreshBounds
    <3> QED BY <1>4, <1>6, <2>2, <3>4 DEF TrueRow, F
  <2> QED BY <2>1, <2>2
<1>8. runs' = With(runs, s, row)
  BY <1>1 DEF Settle, Outcome
<1> HIDE DEF row, s, F
<1>9. TrueRows(calculations, outcome, runs')
  BY <1>7, <1>8 DEF RefreshInv, TrueRows, With
<1>10. /\ TickShape' /\ tick'.job = 0 /\ tick'.known = tick.known
  <2>1. tick' = [tick EXCEPT !.job = 0, !.attempts = 0]
    BY DEF Settle
  <2> QED BY <2>1 DEF RefreshInv, TickShape
<1> QED
  BY <1>1, <1>2, <1>3, <1>9, <1>10 DEF RefreshInv, OwnJob

\* The rows read from the table, and those completed by others.
LEMMA ReadRefreshes ==
  ASSUME RefreshInv, Read
  PROVE  RefreshInv'
<1> DEFINE known == WantedRuns
           taken == Importable(known, history')
           row(s) == IF s \in taken THEN [attempts |-> 1, retry_at |-> 0, completed |-> TRUE]
                                    ELSE StateOf(known, s)
<1>1. /\ Look /\ UNCHANGED <<wanted, outcome>> /\ tick.job = 0
      /\ runs' = [s \in DOMAIN known \cup taken |-> row(s)]
      /\ tick' = [tick EXCEPT !.at = "choose", !.desired = wanted,
                               !.known = [s \in wanted |-> row(s)]]
  BY DEF Read
<1>2. HistoryInv' /\ calculations' = calculations
  BY <1>1, LookShows DEF RefreshInv, Look
<1>3. OutcomesKnown'
  BY <1>1, <1>2, NothingEnds
<1>4. \A s \in DOMAIN known : s \in DOMAIN runs /\ known[s] = runs[s]
  BY DEF WantedRuns
<1>5. ASSUME NEW s
      PROVE  TrueRow(calculations, outcome, s, row(s))
  <2>1. CASE s \in taken
    <3>1. s \in DOMAIN history' /\ outcome[history'[s].job] \in ResultValid
      BY <2>1 DEF Importable
    <3>2. history'[s].job \in Over' /\ calculations'[history'[s].job].signature = s
      BY <1>2, <3>1 DEF HistoryInv, Shows
    <3>3. history'[s].job \in Calculations /\ history'[s].job \in DOMAIN outcome
      BY <1>1, <1>2, <1>3, <3>2 DEF OutcomesKnown, Known, Calculations
    <3>4. Earned(calculations, outcome, s)
      BY <1>2, <3>1, <3>2, <3>3 DEF Earned, Calculations
    <3>5. row(s) = [attempts |-> 1, retry_at |-> 0, completed |-> TRUE]
      BY <2>1
    <3> HIDE DEF row
    <3> QED BY <3>4, <3>5 DEF TrueRow
  <2>2. CASE s \notin taken /\ s \in DOMAIN known
    BY <1>4, <2>2 DEF RefreshInv, TrueRows, StateOf
  <2>3. CASE s \notin taken /\ s \notin DOMAIN known
    <3>1. row(s) = Never
      BY <2>3 DEF StateOf
    <3>2. Cardinality(Failures(calculations, outcome, s)) \in Nat
      BY FailuresFinite DEF RefreshInv, OutcomesKnown
    <3> HIDE DEF row
    <3> QED BY <3>1, <3>2, RefreshBounds DEF TrueRow, Never
  <2> QED BY <2>1, <2>2, <2>3
<1> HIDE DEF row, taken, known
<1>6. TrueRows(calculations, outcome, runs')
  BY <1>1, <1>5 DEF TrueRows
<1>7. /\ tick'.job = 0 /\ TickShape'
      /\ tick'.known = [s \in wanted |-> row(s)]
  BY <1>1 DEF RefreshInv, TickShape
<1>8. TrueRows(calculations, outcome, tick'.known) /\ DOMAIN tick'.known = wanted
  BY <1>5, <1>7 DEF TrueRows
<1> QED
  BY <1>1, <1>2, <1>3, <1>6, <1>7, <1>8 DEF RefreshInv, OwnJob
\* A step after which the tick has forgotten what it read, its calculation unchanged.
LEMMA EndsRefreshes ==
  ASSUME RefreshInv, HistoryInv', OutcomesKnown',
         Continued(calculations, outcome, calculations', outcome'),
         UNCHANGED <<wanted, runs>>, tick' = Ended
  PROVE  RefreshInv'
<1>1. /\ tick' = [at |-> "start", job |-> tick.job, attempts |-> tick.attempts,
                  desired |-> tick.desired, known |-> Empty]
      /\ DOMAIN Empty = {}
  BY EndedTick
<1>2. /\ tick'.job = tick.job /\ tick'.attempts = tick.attempts /\ tick'.known = Empty
      /\ TickShape'
  BY <1>1 DEF TickShape
<1>3. TrueRows(calculations', outcome', tick'.known)
  BY <1>1, <1>2 DEF TrueRows
<1> QED
  BY <1>1, <1>2, <1>3, Carried DEF RefreshInv

\* A look at the registry ends no calculation and starts none.
LEMMA LookContinues ==
  ASSUME RefreshInv, Look, UNCHANGED outcome
  PROVE  /\ HistoryInv' /\ OutcomesKnown'
         /\ Continued(calculations, outcome, calculations', outcome')
<1>1. HistoryInv' /\ calculations' = calculations
  BY LookShows DEF RefreshInv, Look
<1> QED
  BY <1>1, NothingEnds

\* The tick goes on to start a calculation, or ends.
LEMMA ChooseRefreshes ==
  ASSUME RefreshInv, Choose
  PROVE  RefreshInv'
<1>1. /\ Look /\ UNCHANGED <<wanted, runs, outcome>>
      /\ tick' = [tick EXCEPT !.at = "submit"] \/ tick' = Ended
  BY DEF Choose
<1>2. /\ HistoryInv' /\ OutcomesKnown'
      /\ Continued(calculations, outcome, calculations', outcome')
  BY <1>1, LookContinues
<1>3. CASE tick' = Ended
  BY <1>1, <1>2, <1>3, EndsRefreshes
<1>4. CASE tick' = [tick EXCEPT !.at = "submit"]
  <2>1. /\ tick'.job = tick.job /\ tick'.attempts = tick.attempts /\ tick'.known = tick.known
        /\ TickShape'
    BY <1>4 DEF RefreshInv, TickShape
  <2> QED
    BY <1>1, <1>2, <2>1, Carried DEF RefreshInv
<1> QED
  BY <1>1, <1>3, <1>4

\* A new calculation has no outcome yet, and the others keep theirs.
LEMMA StartContinues ==
  ASSUME RefreshInv, NEW id \in Ids, NEW s \in Signatures, Start(id, s), UNCHANGED outcome,
         NEW n, n = Len(calculations) + 1
  PROVE  /\ HistoryInv' /\ OutcomesKnown'
         /\ Continued(calculations, outcome, calculations', outcome')
         /\ n # 0 /\ n \in DOMAIN calculations' /\ n \notin DOMAIN outcome
         /\ calculations'[n].id = id /\ calculations'[n].signature = s
<1> DEFINE job == [id |-> id, signature |-> s, phase |-> "working",
                   started |-> now, completed |-> 0, saved |-> FALSE]
<1>1. HistoryInv'
  BY StartShows DEF RefreshInv
<1>2. job \in Job
  BY DEF RefreshInv, HistoryInv, JobInv, JobShape, Job
<1>3. /\ DOMAIN calculations' = DOMAIN calculations \cup {n}
      /\ \A k \in DOMAIN calculations : calculations'[k] = calculations[k]
      /\ calculations'[n] = job /\ n \notin DOMAIN calculations /\ n # 0
  <2>1. calculations' = Append(calculations, job) /\ calculations \in Seq(Job)
    BY DEF RefreshInv, HistoryInv, JobInv, JobShape, Start
  <2> HIDE DEF job
  <2> QED
    BY <1>2, <2>1
<1>4. /\ calculations'[n].phase = "working" /\ calculations'[n].id = id
      /\ calculations'[n].signature = s
  BY <1>3
<1> HIDE DEF job
<1>5. Over' = Over
  BY <1>3, <1>4 DEF Over, Finished, Archived, Calculations
<1>6. Known(calculations, outcome) /\ Known(calculations', outcome')
  BY <1>3 DEF RefreshInv, OutcomesKnown, Known
<1>7. \A k \in DOMAIN outcome : k \in DOMAIN calculations
  BY <1>6 DEF Known
<1>8. OutcomesKnown'
  BY <1>3, <1>5, <1>6, <1>7 DEF RefreshInv, OutcomesKnown
<1>9. Continued(calculations, outcome, calculations', outcome')
  BY <1>3, <1>6 DEF Continued
<1> QED
  BY <1>1, <1>3, <1>4, <1>7, <1>8, <1>9

\* The thread starts the calculation of a run that is due, of which it knows the attempts.
LEMMA OwnStartRefreshes ==
  ASSUME RefreshInv, NEW s \in Due, NEW id \in FreshIds, Start(id, s),
         UNCHANGED <<wanted, runs, outcome>>,
         tick' = [at |-> "start", job |-> Len(calculations) + 1,
                  attempts |-> tick.known[s].attempts,
                  desired |-> tick.desired, known |-> Empty]
  PROVE  RefreshInv'
<1> DEFINE n == Len(calculations) + 1
           m == tick.known[s].attempts
           F == Failures(calculations, outcome, s)
           G == Failures(calculations', outcome', s)
<1>1. id \in Ids /\ id \notin ManualIds
  BY DEF FreshIds
<1>2. s \in DOMAIN tick.known /\ ~tick.known[s].completed /\ m < MaxAttempts
  BY DEF Due
<1>3. s \in Signatures
  BY <1>2 DEF RefreshInv
<1>4. /\ HistoryInv' /\ OutcomesKnown'
      /\ Continued(calculations, outcome, calculations', outcome')
      /\ n # 0 /\ n \in DOMAIN calculations' /\ n \notin DOMAIN outcome
      /\ calculations'[n].id = id /\ calculations'[n].signature = s
  BY <1>1, <1>3, StartContinues
<1>5. m \in Nat /\ m <= Cardinality(F)
  BY <1>2 DEF RefreshInv, TrueRows, TrueRow
<1>6. Cardinality(F) <= Cardinality(G) /\ Cardinality(F) \in Nat /\ Cardinality(G) \in Nat
  BY <1>4, FailuresGrow, FailuresFinite DEF Continued
<1>7. m <= Cardinality(G \ {n})
  <2>1. G \ {n} = G
    BY <1>4 DEF Failures
  <2>2. Cardinality(G \ {n}) = Cardinality(G)
    BY <2>1
  <2>3. \A a, b, c \in Nat : a <= b /\ b <= c => a <= c
    OBVIOUS
  <2> HIDE DEF m, F, G, n
  <2> QED
    BY <1>5, <1>6, <2>2, <2>3
<1>8. DOMAIN Empty = {}
  BY DEF Empty
<1>9. /\ tick'.job = n /\ tick'.attempts = m /\ tick'.known = Empty /\ TickShape'
  BY DEF TickShape
<1> HIDE DEF n, m, F
<1>10. OwnJob(calculations', outcome', n, m)
  <2> HIDE DEF G
  <2>1. calculations'[n].signature = s
    BY <1>4
  <2> QED
    BY <1>1, <1>2, <1>4, <1>5, <1>7, <2>1 DEF OwnJob, G
<1>11. TrueRows(calculations', outcome', tick'.known)
  BY <1>8, <1>9 DEF TrueRows
<1> QED
  BY <1>4, <1>8, <1>9, <1>10, <1>11, Carried DEF RefreshInv

\* A start by the thread, or none as a person was faster.
LEMMA SubmitRefreshes ==
  ASSUME RefreshInv, Submit
  PROVE  RefreshInv'
<1>1. UNCHANGED <<wanted, outcome>>
  BY DEF Submit
<1>2. CASE Look /\ tick' = Ended /\ UNCHANGED runs
  BY <1>1, <1>2, LookContinues, EndsRefreshes
<1>3. CASE \E s \in Due :
             /\ FreshIds # {} /\ Start(CHOOSE id \in FreshIds : TRUE, s)
             /\ runs' = Started(s)
             /\ tick' = [Ended EXCEPT !.job = Len(calculations) + 1,
                                      !.attempts = tick.known[s].attempts]
  <2>1. PICK s \in Due :
          /\ FreshIds # {} /\ Start(CHOOSE id \in FreshIds : TRUE, s)
          /\ runs' = Started(s)
          /\ tick' = [Ended EXCEPT !.job = Len(calculations) + 1,
                                   !.attempts = tick.known[s].attempts]
    BY <1>3
  <2> DEFINE id == CHOOSE id \in FreshIds : TRUE
  <2>2. id \in FreshIds
    BY <2>1
  <2> HIDE DEF id
  <2>3. Start(id, s)
    BY <2>1 DEF id
  <2>4. tick' = [at |-> "start", job |-> Len(calculations) + 1,
                 attempts |-> tick.known[s].attempts,
                 desired |-> tick.desired, known |-> Empty]
    <3> DEFINE n == Len(calculations) + 1
               m == tick.known[s].attempts
               its == [Ended EXCEPT !.job = n]
    <3>1. its = [at |-> "start", job |-> n, attempts |-> tick.attempts,
                 desired |-> tick.desired, known |-> Empty]
      BY EndedTick, TickFields
    <3>2. tick' = [its EXCEPT !.attempts = m]
      BY <2>1
    <3> HIDE DEF n, m, its
    <3>3. tick' = [at |-> "start", job |-> n, attempts |-> m,
                   desired |-> tick.desired, known |-> Empty]
      BY <3>1, <3>2, TickFields
    <3> QED
      BY <3>3 DEF n, m
  <2> QED
    BY <1>1, <2>1, <2>2, <2>3, <2>4, OwnStartRefreshes DEF Started
<1> QED
  BY <1>2, <1>3 DEF Submit

\* Every step of the thread.
LEMMA ThreadRefreshes ==
  ASSUME RefreshInv, Thread
  PROVE  RefreshInv'
<1>1. CASE Rest
  <2>1. UNCHANGED <<jobVars, wanted, runs, tick, outcome>>
    BY <1>1 DEF Rest, allVars, refreshVars
  <2> QED
    BY <2>1, TickShows, NothingEnds, ThreadStays DEF RefreshInv, jobVars
<1> QED
  BY <1>1, SettleRefreshes, ReadRefreshes, ChooseRefreshes, SubmitRefreshes DEF Thread

-----------------------------------------------------------------------------
(* The steps around the thread. *)

\* The watchlists and the switch change, failed runs are forgotten, or a tick breaks off.
LEMMA AskedRefreshes ==
  ASSUME RefreshInv,
         \/ \E members \in SUBSET Signatures : Edit(members)
         \/ Pause \/ Retry \/ Fail
  PROVE  RefreshInv'
<1>1. UNCHANGED <<jobVars, outcome>>
  BY DEF Edit, Pause, Retry, Fail
<1>2. /\ HistoryInv' /\ OutcomesKnown' /\ calculations' = calculations
      /\ Continued(calculations, outcome, calculations', outcome')
  BY <1>1, TickShows, NothingEnds DEF RefreshInv, jobVars
<1>3. CASE \E members \in SUBSET Signatures : Edit(members)
  <2>1. wanted' \subseteq Signatures /\ UNCHANGED <<runs, tick>>
    BY <1>3 DEF Edit
  <2> QED
    BY <1>2, <2>1, Carried DEF RefreshInv, TickShape
<1>4. CASE Pause
  BY <1>2, <1>4, ThreadStays DEF Pause
<1>5. CASE Retry
  <2>1. /\ runs' = [s \in {s \in DOMAIN runs : runs[s].completed} |-> runs[s]]
        /\ UNCHANGED <<wanted, tick>>
    BY <1>5 DEF Retry
  <2>2. \A s \in DOMAIN runs' : s \in DOMAIN runs /\ runs'[s] = runs[s]
    BY <2>1
  <2>3. TrueRows(calculations', outcome', runs')
    BY <1>2, <2>2, Carried DEF TrueRows
  <2> QED
    BY <1>2, <2>1, <2>3, Carried DEF RefreshInv, TickShape
<1>6. CASE Fail
  <2>1. tick' = Ended /\ UNCHANGED <<wanted, runs>>
    BY <1>6 DEF Fail
  <2> QED
    BY <1>2, <2>1, EndsRefreshes
<1> QED
  BY <1>3, <1>4, <1>5, <1>6

\* A new process: the table stays, the thread starts over and owns no calculation.
LEMMA RebootRefreshes ==
  ASSUME RefreshInv, Reboot
  PROVE  RefreshInv'
<1>1. Restart /\ tick' = NewThread /\ UNCHANGED <<wanted, runs, outcome>>
  BY DEF Reboot
<1>2. HistoryInv'
  BY <1>1, RestartShows DEF RefreshInv
<1>3. /\ DOMAIN calculations' = DOMAIN calculations
      /\ \A k \in DOMAIN calculations : calculations'[k] = Remains(calculations[k])
  BY <1>1 DEF Restart, Calculations
<1>4. \A k \in DOMAIN calculations :
        /\ calculations'[k].id = calculations[k].id
        /\ calculations'[k].signature = calculations[k].signature
        /\ calculations'[k].phase \in {"archived", "lost"}
        /\ calculations'[k].phase = "archived" => k \in Saved
  <2>1. \A k \in DOMAIN calculations : calculations[k] \in Job
    BY DEF RefreshInv, HistoryInv, JobInv, JobShape
  <2>2. ASSUME NEW c \in Job
        PROVE  /\ Remains(c).id = c.id /\ Remains(c).signature = c.signature
               /\ Remains(c).phase = IF c.saved THEN "archived" ELSE "lost"
               /\ c.saved \in BOOLEAN
    BY DEF Remains, Job
  <2> QED
    BY <1>3, <2>1, <2>2 DEF Saved, Calculations
<1>5. Over' \subseteq Over
  <2>1. Over' \subseteq Saved
    BY <1>3, <1>4 DEF Over, Finished, Archived, Calculations
  <2>2. Saved \subseteq Over
    BY DEF RefreshInv, HistoryInv, SavedHasEnded, Saved, Over, Finished, Archived
  <2> QED
    BY <2>1, <2>2
<1>6. Known(calculations, outcome) /\ Known(calculations', outcome')
  BY <1>1, <1>3 DEF RefreshInv, OutcomesKnown, Known
<1>7. OutcomesKnown'
  <2>1. \A k \in DOMAIN outcome : calculations'[k].phase # "working"
    BY <1>4, <1>6 DEF Known
  <2> QED
    BY <1>1, <1>5, <1>6, <2>1 DEF RefreshInv, OutcomesKnown
<1>8. Continued(calculations, outcome, calculations', outcome')
  BY <1>1, <1>3, <1>4, <1>6 DEF Continued
<1>9. TrueRows(calculations', outcome', runs)
  BY <1>8, Carried
<1>10. /\ tick'.job = 0 /\ TickShape' /\ DOMAIN tick'.known = {}
  BY <1>1 DEF TickShape, NewThread, Empty
<1> QED
  BY <1>1, <1>2, <1>7, <1>9, <1>10 DEF RefreshInv, OwnJob, TrueRows

\* A person calculates.
LEMMA PersonRefreshes ==
  ASSUME RefreshInv, Person
  PROVE  RefreshInv'
<1>1. PICK id \in ManualIds, s \in ByHand : Start(id, s)
  BY DEF Person
<1>2. UNCHANGED <<wanted, runs, tick, outcome>>
  BY DEF Person, refreshVars
<1>3. id \in Ids /\ s \in Signatures
  BY RefreshBounds
<1> QED
  BY <1>1, <1>2, <1>3, StartContinues, ThreadStays

\* A calculation ends, once.
LEMMA EndRefreshes ==
  ASSUME RefreshInv, NEW k \in Calculations, Ends(k)
  PROVE  RefreshInv'
<1>1. PICK o \in Outcomes : Complete(k, o) /\ outcome' = With(outcome, k, o)
  BY DEF Ends
<1>2. UNCHANGED <<wanted, runs, tick>>
  BY DEF Ends
<1>3. HistoryInv'
  BY <1>1, CompleteShows DEF RefreshInv
<1>4. PICK saved \in Saves :
        calculations' = [calculations EXCEPT ![k].phase = "done", ![k].completed = now,
                                             ![k].saved = saved]
  BY <1>1 DEF Complete
<1>5. /\ DOMAIN calculations' = DOMAIN calculations
      /\ calculations'[k].phase = "done"
      /\ calculations'[k].id = calculations[k].id
      /\ calculations'[k].signature = calculations[k].signature
      /\ \A j \in DOMAIN calculations : j # k => calculations'[j] = calculations[j]
  <2>1. calculations \in Seq(Job) /\ calculations[k] \in Job /\ k \in DOMAIN calculations
    BY DEF RefreshInv, HistoryInv, JobInv, JobShape, Calculations
  <2> DEFINE c == [calculations[k] EXCEPT !.phase = "done", !.completed = now, !.saved = saved]
  <2>2. calculations' = [calculations EXCEPT ![k] = c]
    BY <1>4, <2>1
  <2>3. c.phase = "done" /\ c.id = calculations[k].id /\ c.signature = calculations[k].signature
    BY <2>1 DEF Job
  <2> HIDE DEF c
  <2> QED
    BY <2>1, <2>2, <2>3
<1>6. calculations[k].phase = "working" /\ k \notin DOMAIN outcome
  <2>1. calculations[k].phase = "working"
    BY <1>1 DEF Complete
  <2> QED
    BY <2>1 DEF RefreshInv, OutcomesKnown
<1>7. /\ DOMAIN outcome' = DOMAIN outcome \cup {k}
      /\ \A j \in DOMAIN outcome : outcome'[j] = outcome[j]
  BY <1>1, <1>6 DEF With
<1>8. Known(calculations, outcome) /\ Known(calculations', outcome')
  <2>1. Known(calculations, outcome)
    BY DEF RefreshInv, OutcomesKnown
  <2>2. IsFiniteSet(DOMAIN outcome \cup {k})
    BY <2>1, FS_AddElement DEF Known
  <2> QED
    BY <1>5, <1>7, <2>1, <2>2 DEF Known, Calculations
<1>9. OutcomesKnown'
  <2>1. Over' \subseteq Over \cup {k}
    BY <1>5 DEF Over, Finished, Archived, Calculations
  <2>2. \A j \in DOMAIN outcome' : calculations'[j].phase # "working"
    BY <1>5, <1>7, <1>8 DEF RefreshInv, OutcomesKnown, Known
  <2> QED
    BY <1>7, <1>8, <2>1, <2>2 DEF RefreshInv, OutcomesKnown
<1>10. Continued(calculations, outcome, calculations', outcome')
  BY <1>5, <1>7, <1>8 DEF Continued
<1> QED
  BY <1>2, <1>3, <1>9, <1>10, ThreadStays

\* At the start nothing is recorded.
LEMMA InitRefreshes == RefreshInit => RefreshInv
<1> SUFFICES ASSUME RefreshInit PROVE RefreshInv
  OBVIOUS
<1>1. /\ JobInit /\ wanted = Members /\ runs = Empty /\ tick = NewThread /\ outcome = Empty
  BY DEF RefreshInit
<1>2. HistoryInv /\ calculations = <<>>
  BY <1>1, InitShows DEF JobInit
<1>3. DOMAIN runs = {} /\ DOMAIN outcome = {} /\ Over = {}
  BY <1>1, <1>2 DEF Empty, Over, Finished, Archived, Calculations
<1>4. OutcomesKnown
  BY <1>3, FS_EmptySet DEF OutcomesKnown, Known
<1>5. tick.job = 0 /\ TickShape /\ DOMAIN tick.known = {}
  BY <1>1 DEF TickShape, NewThread, Empty
<1> QED
  BY <1>1, <1>2, <1>3, <1>4, <1>5, RefreshBounds DEF RefreshInv, OwnJob, TrueRows

\* Every step keeps the invariant.
LEMMA RefreshNextRefreshes == RefreshInv /\ [RefreshNext]_allVars => RefreshInv'
<1> SUFFICES ASSUME RefreshInv, [RefreshNext]_allVars PROVE RefreshInv'
  OBVIOUS
<1>1. CASE Outside
  BY <1>1, AskedRefreshes, RebootRefreshes DEF Outside, Ask
<1>2. CASE TimePasses \/ UNCHANGED allVars
  <2>1. /\ Tick \/ UNCHANGED jobVars
        /\ UNCHANGED <<wanted, runs, tick, outcome>>
    BY <1>2 DEF TimePasses, allVars, refreshVars
  <2>2. calculations' = calculations
    BY <2>1 DEF Tick, jobVars
  <2> QED
    BY <2>1, <2>2, TickShows, NothingEnds, ThreadStays DEF RefreshInv
<1> QED
  BY <1>1, <1>2, ThreadRefreshes, PersonRefreshes, EndRefreshes DEF RefreshNext

-----------------------------------------------------------------------------
(* The theorems of the watchlist refresh. *)

\* The table, what the thread has read of it and the calculation it waits for say the truth
\* about the outcomes of calculations (_tick, record_result, import_completed).
THEOREM RefreshInvariant == RefreshSpec => []RefreshInv
<1> QED
  BY InitRefreshes, RefreshNextRefreshes, PTL DEF RefreshSpec

\* A run is completed only by a calculation of exactly that signature that gave a result,
\* whoever asked for it, and once the thread's own attempts have failed only by one of them
\* with the result of the stock and day it asked for (_tick: the tests of symbol and asof).
THEOREM CompletionIsEarned == RefreshSpec => []CompletedIsEarned
<1>1. RefreshInv => CompletedIsEarned
  <2>1. ASSUME NEW s, Earned(calculations, outcome, s)
        PROVE  EndedIn(s, ResultValid) # {}
    BY <2>1 DEF Earned, EndedIn, Calculations
  <2>2. ASSUME NEW s, EarnedAlone(calculations, outcome, s)
        PROVE  EndedIn(s, {"valid"}) \ Manual # {}
    BY <2>2 DEF EarnedAlone, EndedIn, Manual, Calculations
  <2> QED
    BY <2>1, <2>2 DEF RefreshInv, TrueRows, TrueRow, CompletedIsEarned
<1> QED
  BY <1>1, RefreshInvariant, PTL

\* A run is given up only after as many failures of the thread's own calculations of it,
\* whatever is retried, edited or restarted in between (_tick: attempts + 1, attempts >= 3).
THEOREM GivingUpIsEarned == RefreshSpec => []GivenUpOnFailures
<1>1. ASSUME RefreshInv, NEW s \in DOMAIN runs
      PROVE  Failures(calculations, outcome, s) =
               {k \in DOMAIN outcome \ Manual : calculations[k].signature = s /\ outcome[k] # "valid"}
  BY DEF Failures, Manual, Calculations
<1>2. RefreshInv => GivenUpOnFailures
  BY <1>1 DEF RefreshInv, TrueRows, TrueRow, GivenUpOnFailures
<1> QED
  BY <1>2, RefreshInvariant, PTL

\* With the thread and people sharing it, the registry still shows the last outcome.
THEOREM SharedRegistryShowsLatest == RefreshSpec => [](SlotsAreRunning /\ HistoryIsLatest)
<1>1. RefreshInv => SlotsAreRunning /\ HistoryIsLatest
  BY DEF RefreshInv, HistoryInv, Shows, Over, HistoryIsLatest,
         JobInv, Registered, Seated, Counted, SlotsAreRunning
<1> QED
  BY <1>1, RefreshInvariant, PTL
=============================================================================
