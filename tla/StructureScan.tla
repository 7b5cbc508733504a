--------------------------- MODULE StructureScan ---------------------------
(* The full-market structure scan and the durable snapshot it feeds:          *)
(* structure_scanner.py keeps the jobs of one process and a daemon thread for *)
(* each, structure_snapshots.py waits for a job and publishes its result.     *)
(* The day files change under the scan, the drawing code on disk changes      *)
(* under the process, callers start and cancel, and the process dies.         *)
(*                                                                            *)
(* A result is the pair of file versions its two inputs were read at: the     *)
(* bars give the sessions, the theory (read again) the landmarks.  What a     *)
(* landmark is does not matter here.                                          *)
EXTENDS Integers, Sequences, FiniteSets, SequencesExt, FiniteSetsExt

CONSTANTS
  Symbols,        \* the catalogue, in its order: 1..n
  MaxWrites,      \* bound: writes of the day files
  MaxCode,        \* bound: changes of the drawing code
  Corrupt,        \* stocks whose file never yields bars for the day asked
  JobLimit,       \* jobs the scanner remembers (4 in the code)
  MaxEvents       \* bound: starts and cancels of other callers, deaths of the process

ASSUME ScanAssumption ==
  /\ Symbols \subseteq Nat /\ IsFiniteSet(Symbols)
  /\ Corrupt \subseteq Symbols
  /\ MaxWrites \in Nat /\ MaxCode \in Nat
  /\ JobLimit \in Nat \ {0} /\ MaxEvents \in Nat

VARIABLES
  ver,      \* [Symbols -> version of its day file], 0: not downloaded
  disk,     \* version of the drawing code on disk
  loaded,   \* version this process was started with
  jobs,     \* self.jobs, oldest first, each with its thread's position
  call,     \* the callers of start that froze the sources and wait for the lock
  refresh,  \* the refresh of the snapshot service
  stored,   \* structure_signal_snapshots: a set of rows, at stands for updated_at
  budget    \* writes, foreign calls and deaths left

vars == <<ver, disk, loaded, jobs, call, refresh, stored, budget>>

Callers == {"refresh", "client"}
Active == {"running", "cancelling"}
Params == {"market", "filtered"}   \* the refresh always asks for "market"
NoJob == 0
Ids == 1 .. JobLimit + 2           \* uuid4: fresh for jobs and their readers
Unused == << >>                    \* no frozen versions

(* describe_tdx: the downloaded files and the versions they have now.         *)
Describe == [s \in {x \in Symbols : ver[x] > 0} |-> ver[s]]

JobRecord(i, params, frozen) ==
  [id |-> i, params |-> params, status |-> "running", frozen |-> frozen,
   pc |-> "loop", left |-> DOMAIN frozen, seen |-> 0, results |-> {},
   failed |-> {}]

Running(js) == SelectSeq(js, LAMBDA j : j.status \in Active)
Find(js, i) == {j \in ToSet(js) : j.id = i}

-----------------------------------------------------------------------------
(* The scanner. *)

(* A search is refused while any other is running or winding down.            *)
Startable(js, params) == Running(js) = << >>

Joinable(js, params) ==
  {j \in ToSet(js) : j.status = "running" /\ j.params = params}

(* At most JobLimit jobs are remembered: the oldest leave.                    *)
Evicted(js) ==
  IF Len(js) < JobLimit THEN js ELSE SubSeq(js, Len(js) - JobLimit + 2, Len(js))

FreshId == Min(Ids \ ({j.id : j \in ToSet(jobs)} \union {refresh.job}))

(* start, before the lock: refused on changed code, otherwise the versions    *)
(* are frozen.                                                                *)
Freeze(c, params) ==
  /\ call[c].params = "none" /\ disk = loaded
  /\ call' = [call EXCEPT ![c] = [params |-> params, frozen |-> Describe]]

(* start, under the lock: got is the job the caller is handed, NoJob when the *)
(* call is refused.                                                           *)
Admit(c, got) ==
  LET p == call[c].params
      joined == Joinable(jobs, p) IN
  /\ p # "none"
  /\ call' = [call EXCEPT ![c] = [params |-> "none", frozen |-> Unused]]
  /\ \/ /\ Startable(jobs, p)
        /\ got = FreshId
        /\ jobs' = Append(Evicted(jobs), JobRecord(got, p, call[c].frozen))
     \/ /\ ~Startable(jobs, p)
        /\ got = IF joined = {} THEN NoJob ELSE (CHOOSE j \in joined : TRUE).id
        /\ UNCHANGED jobs

(* cancel: only a running job starts to cancel; its thread sees the stop.     *)
Cancel ==
  /\ budget.events > 0
  /\ \E k \in DOMAIN jobs :
       /\ jobs[k].status = "running"
       /\ jobs' = [jobs EXCEPT ![k].status = "cancelling"]
  /\ budget' = [budget EXCEPT !.events = @ - 1]
  /\ UNCHANGED <<ver, disk, loaded, call, refresh, stored>>

(* Any exception of _work that is not of one stock voids the whole result.    *)
Failed(j) ==
  [j EXCEPT !.status = "failed", !.results = {}, !.pc = "dead", !.left = {}, !.seen = 0]

(* One stock that could not be read is counted and passed over.               *)
Skipped(j, s) == [j EXCEPT !.failed = @ \union {s}, !.left = @ \ {s}, !.pc = "loop", !.seen = 0]

(* The stock whose turn it is: the catalogue has a fixed order.               *)
Turn(j) == CHOOSE s \in j.left : TRUE

(* The head of the loop: stop, code, and the version of the next file.        *)
Look(j) ==
  IF j.status = "cancelling" \/ j.left = {}
  THEN [j EXCEPT !.pc = "final", !.left = DOMAIN j.frozen]
  ELSE IF disk # loaded \/ ver[Turn(j)] # j.frozen[Turn(j)] THEN Failed(j)
  ELSE [j EXCEPT !.pc = "read"]

(* tdx.bars, then tdx.theory, which reads the file again: each is consistent  *)
(* in itself (fingerprinted before and after) or raises ValueError, because   *)
(* the file is being written, has no bar for the day, or the code changed.    *)
Unsettled(j, s) == s \in Corrupt \/ ver[s] # j.frozen[s]

ReadBars(j) ==
  LET s == Turn(j) IN
  {x \in {[j EXCEPT !.pc = "derive", !.seen = ver[s]]} : s \notin Corrupt}
    \union {x \in {Skipped(j, s)} : Unsettled(j, s)}

ReadTheory(j) ==
  LET s == Turn(j) IN
  {x \in {[j EXCEPT !.pc = "loop", !.left = @ \ {s}, !.seen = 0,
                    !.results = @ \union {<<s, j.seen, ver[s]>>}]} : disk = loaded}
    \union {x \in {Skipped(j, s)} : Unsettled(j, s) \/ disk # loaded}

(* After the loop, also after a stop, every file is compared once more.       *)
RecheckNothing(j) == [j EXCEPT !.left = {}]  \* Fault: the first look is trusted
Recheck(j) ==
  LET s == Turn(j) IN
  IF ver[s] # j.frozen[s] THEN Failed(j) ELSE [j EXCEPT !.left = @ \ {s}]

(* The verdict reads the stop under the lock.                                 *)
FinishUnlessStopped(j) ==  \* Fault: a stopped job never leaves "cancelling"
  [j EXCEPT !.status = IF @ = "cancelling" THEN @ ELSE "completed", !.pc = "dead"]
Finish(j) ==
  [j EXCEPT !.status = IF @ = "cancelling" THEN "cancelled" ELSE "completed",
            !.pc = "dead"]

Outcomes(j) ==
  CASE j.pc = "loop" -> {Look(j)}
    [] j.pc = "read" -> ReadBars(j)
    [] j.pc = "derive" -> ReadTheory(j)
    [] j.pc = "final" /\ j.left # {} -> {Recheck(j)}
    [] j.pc = "final" /\ j.left = {} -> {Finish(j)}
    [] OTHER -> {}

Work ==
  /\ \E k \in DOMAIN jobs : \E j \in Outcomes(jobs[k]) : jobs' = [jobs EXCEPT ![k] = j]
  /\ UNCHANGED <<ver, disk, loaded, call, refresh, stored, budget>>

-----------------------------------------------------------------------------
(* Other callers of the scanner. *)

ClientAsks ==
  /\ budget.events > 0
  /\ \E p \in Params : Freeze("client", p)
  /\ budget' = [budget EXCEPT !.events = @ - 1]
  /\ UNCHANGED <<ver, disk, loaded, jobs, refresh, stored>>

ClientEnters ==
  /\ \E got \in Ids \union {NoJob} : Admit("client", got)
  /\ UNCHANGED <<ver, disk, loaded, refresh, stored, budget>>

-----------------------------------------------------------------------------
(* The refresh of the snapshot service. *)

Idle == [pc |-> "idle", job |-> NoJob, asked |-> Unused, found |-> {}]

(* find_structure_snapshot(..., data_version): this very content is published. *)
PublishedAnything(v) == \E x \in stored : x.code = loaded  \* Fault: any content will do
Published(v) == \E x \in stored : x.code = loaded /\ x.version = v

(* refresh: nothing to do when the described content is published.            *)
RefreshBegins ==
  /\ refresh.pc = "idle" /\ Describe # Unused
  /\ ~Published(Describe)
  /\ refresh' = [Idle EXCEPT !.pc = "asking", !.asked = Describe]
  /\ UNCHANGED <<ver, disk, loaded, jobs, call, stored, budget>>

RefreshAsks ==
  /\ refresh.pc = "asking"
  /\ Freeze("refresh", "market")
  /\ refresh' = [refresh EXCEPT !.pc = "entering"]
  /\ UNCHANGED <<ver, disk, loaded, jobs, stored, budget>>

RefreshEnters ==
  /\ refresh.pc = "entering"
  /\ \E got \in Ids \union {NoJob} :
       /\ Admit("refresh", got)
       /\ refresh' = IF got = NoJob THEN Idle
                     ELSE [refresh EXCEPT !.pc = "polling", !.job = got]
  /\ UNCHANGED <<ver, disk, loaded, stored, budget>>

(* The result is taken only from a completed job of the content asked for.    *)
UsableWhenCompleted(j) == j.status = "completed"  \* Fault: the versions are not compared
Usable(j) == j.status = "completed" /\ j.frozen = refresh.asked

Snapshot(j) ==
  [version |-> refresh.asked, results |-> j.results, failed |-> j.failed, code |-> loaded]

(* The poll returns a copy of a finished job, or raises when it is forgotten. *)
RefreshPolls ==
  /\ refresh.pc = "polling"
  /\ LET found == Find(jobs, refresh.job) IN
       \/ /\ found = {} \/ \E j \in found : j.status \notin Active /\ ~Usable(j)
          /\ refresh' = Idle
       \/ \E j \in found :
            /\ j.status \notin Active /\ Usable(j)
            /\ refresh' = [Idle EXCEPT !.pc = "saving", !.found = {Snapshot(j)}]
  /\ UNCHANGED <<ver, disk, loaded, jobs, call, stored, budget>>

Row(x, at) ==
  [version |-> x.version, results |-> x.results, failed |-> x.failed, code |-> x.code, at |-> at]

(* save_structure_snapshot: one transaction; the identity is the content.     *)
RefreshSaves ==
  /\ refresh.pc = "saving"
  /\ \E x \in refresh.found :
       stored' = {y \in stored : y.version # x.version \/ y.code # x.code}
                   \union {Row(x, Max({0} \union {y.at : y \in stored}) + 1)}
  /\ refresh' = Idle
  /\ UNCHANGED <<ver, disk, loaded, jobs, call, budget>>

(* start or algorithm_version refuse on changed code: the refresh raises.     *)
RefreshRefused ==
  /\ refresh.pc = "asking" /\ disk # loaded
  /\ refresh' = Idle
  /\ UNCHANGED <<ver, disk, loaded, jobs, call, stored, budget>>

(* find_structure_snapshot of the query: the last saved for the reader's code. *)
Readable(code) == {x \in stored : x.code = code}
Served(code) == {x \in Readable(code) : \A y \in Readable(code) : y.at <= x.at}

-----------------------------------------------------------------------------
(* The world around the process. *)

(* The market-data program writes a day file.                                 *)
FileWritten(s) ==
  /\ budget.writes > 0
  /\ ver' = [ver EXCEPT ![s] = @ + 1]
  /\ budget' = [budget EXCEPT !.writes = @ - 1]
  /\ UNCHANGED <<disk, loaded, jobs, call, refresh, stored>>

CodeChanges ==
  /\ disk < MaxCode
  /\ disk' = disk + 1
  /\ UNCHANGED <<ver, loaded, jobs, call, refresh, stored, budget>>

NobodyCalls == [c \in Callers |-> [params |-> "none", frozen |-> Unused]]

Restarted ==
  /\ loaded' = disk /\ jobs' = << >> /\ call' = NobodyCalls /\ refresh' = Idle
  /\ UNCHANGED <<ver, disk, stored>>

(* The process dies at any point; only the database survives.                 *)
Crash ==
  /\ budget.events > 0
  /\ budget' = [budget EXCEPT !.events = @ - 1]
  /\ Restarted

(* The process manager restarts a worker whose code changed.                  *)
Redeploy ==
  /\ disk # loaded
  /\ Restarted /\ UNCHANGED budget

Init ==
  /\ ver \in [Symbols -> {0, 1}] /\ disk = 0 /\ loaded = 0
  /\ jobs = << >> /\ call = NobodyCalls /\ refresh = Idle /\ stored = {}
  /\ budget = [events |-> MaxEvents, writes |-> MaxWrites]

Refresh == RefreshBegins \/ RefreshAsks \/ RefreshEnters \/ RefreshPolls
             \/ RefreshSaves \/ RefreshRefused

Next ==
  \/ Work \/ Cancel \/ ClientAsks \/ ClientEnters
  \/ RefreshBegins \/ RefreshAsks \/ RefreshEnters \/ RefreshPolls
  \/ RefreshSaves \/ RefreshRefused
  \/ \E s \in Symbols : FileWritten(s)
  \/ CodeChanges \/ Crash \/ Redeploy

(* The thread runs, the resident worker refreshes again and again, and the    *)
(* process manager restarts it after a change of code.                        *)
Fairness == WF_vars(Work) /\ WF_vars(Refresh) /\ WF_vars(Redeploy)
Spec == Init /\ [][Next]_vars /\ Fairness

-----------------------------------------------------------------------------
(* Every variable keeps the shape the scanner, the service and the table give *)
(* it; no more than JobLimit jobs are remembered and no two have one id.      *)
ScanTypeOK ==
  /\ ver \in [Symbols -> 0 .. MaxWrites + 1]
  /\ loaded <= disk /\ disk <= MaxCode
  /\ Len(jobs) <= JobLimit
  /\ \A k, l \in DOMAIN jobs : jobs[k].id = jobs[l].id => k = l
  /\ \A j \in ToSet(jobs) :
       /\ j.status \in Active \union {"completed", "cancelled", "failed"}
       /\ j.pc \in {"loop", "read", "derive", "final", "dead"}
       /\ j.left \union j.failed \subseteq DOMAIN j.frozen
       /\ (j.pc = "dead") = (j.status \notin Active)
  /\ refresh.pc \in {"idle", "asking", "entering", "polling", "saving"}

(* A completed job is one market state: every stock was scanned or counted    *)
(* as failed, and both inputs of every result were read at the version frozen *)
(* when the job was started, whatever was written meanwhile (_work).          *)
CompletedIsUnmixed ==
  \A j \in ToSet(jobs) : j.status = "completed" =>
    /\ {r[1] : r \in j.results} \union j.failed = DOMAIN j.frozen
    /\ \A r \in j.results : r[2] = j.frozen[r[1]] /\ r[3] = j.frozen[r[1]]

(* A published snapshot holds the results of the content that is its identity *)
(* and of nothing else, although the scan froze its own versions later and    *)
(* may be a search somebody else started (structure_snapshots.py refresh).    *)
PublishedIsPure ==
  \A x \in stored :
    \A r \in x.results :
       r[1] \in DOMAIN x.version /\ r[2] = x.version[r[1]] /\ r[3] = x.version[r[1]]

(* Once the files and the code rest and nobody interferes, the table serves   *)
(* the content of the files as they are, through refused, failed, cancelled   *)
(* and interrupted attempts.                                                  *)
FreshSnapshotServed ==
  <>[](Describe = Unused \/ \E x \in Served(disk) : x.version = Describe)

=============================================================================
