--------------------------- MODULE OperationsRun ---------------------------
(* The offline operations pipeline (operations.py run_operations) with its    *)
(* workspace lock, its run journal and its alert inbox                        *)
(* (operational_store.py).  Commands of several processes meet at the lock;   *)
(* every process may die between two transactions; the checkout and the       *)
(* input files change while a run is using them.                              *)
(*                                                                            *)
(* The journal is kept as the two states it is folded into, run_states and    *)
(* alert_states.  What a stage computes is left out except what later steps   *)
(* compare: the revision that was frozen and the one that was tested.         *)
EXTENDS Integers, Sequences, FiniteSets, SequencesExt

CONSTANTS
  Procs,        \* processes issuing operations commands
  RunIds,       \* run identities operators choose
  MaxEdits,     \* bound: edits of the checkout and of the input
  MaxAlerts,    \* bound: alerts in the inbox at which no new run is started
  None

Terminal == {"COMPLETED", "FAILED", "INTERRUPTED"}
Status == Terminal \union {None, "RUNNING"}

ASSUME OperationsAssumption ==
  /\ None \notin Procs /\ None \notin RunIds
  /\ None \notin Terminal \union {"RUNNING"}
  /\ MaxEdits \in Nat /\ MaxAlerts \in Nat

VARIABLES
  lock,     \* owner of .operations.lock
  work,     \* what each process is doing
  runs,     \* run_states: status of every run identity
  dirs,     \* run directories that exist
  evidence, \* what the directory of a run holds
  alerts,   \* alert_states, in the order they were opened
  source,   \* revision of the checkout
  input     \* revision of the input files

vars == <<lock, work, runs, dirs, evidence, alerts, source, input>>

Idle == [pc |-> "idle", run |-> None]
NoEvidence == [source |-> None, tested |-> None, input |-> None]

(* The steps of a registered run, in their order.                             *)
Steps == <<"freeze source", "test", "freeze input", "audit", "readiness",
           "worker", "compare source", "compare input", "seal">>

(* Health observations drawn from the frozen input: one condition always      *)
(* holds, staleness holds for every other revision.                           *)
Observations(revision) ==
  {"calendar"} \union {code \in {"stale"} : revision % 2 = 0}

-----------------------------------------------------------------------------
(* The lock. *)

AcquireAnyway(p) == TRUE   \* Fault: a leftover lock file is removed
Acquire(p) == lock = None

At(p, pc) == lock = p /\ work[p].pc = pc
GoTo(p, pc) == work' = [work EXCEPT ![p].pc = pc]

(* The command returns or raises; the lock goes with it.                      *)
Leave(p) == lock' = None /\ work' = [work EXCEPT ![p] = Idle]

Begin(p, r) ==
  /\ work[p] = Idle /\ Acquire(p)
  /\ Len(alerts) < MaxAlerts
  /\ lock' = p
  /\ work' = [work EXCEPT ![p] = [pc |-> "look", run |-> r]]
  /\ UNCHANGED <<runs, dirs, evidence, alerts, source, input>>

-----------------------------------------------------------------------------
(* Before the run is registered. *)

(* A known identity is never run again: a completed one is verified and       *)
(* returned, another configuration or any other status is refused.            *)
Known(r) == runs[r] # None

Reuse(p) ==
  /\ At(p, "look") /\ Known(work[p].run)
  /\ Leave(p)
  /\ UNCHANGED <<runs, dirs, evidence, alerts, source, input>>

(* The lock proves that no other worker lives: what still runs was            *)
(* interrupted.  One transaction each, so a death leaves some of them.        *)
OrphansSameRun(p) == {r \in RunIds : runs[r] = "RUNNING" /\ r = work[p].run}  \* Fault: only its own earlier attempt
Orphans(p) == {r \in RunIds : runs[r] = "RUNNING"}

CloseOrphan(p) ==
  /\ At(p, "look") /\ ~Known(work[p].run)
  /\ \E r \in Orphans(p) : runs' = [runs EXCEPT ![r] = "INTERRUPTED"]
  /\ UNCHANGED <<lock, work, dirs, evidence, alerts, source, input>>

(* A directory nobody registered is never written over.                       *)
RefuseDirectory(p) ==
  /\ At(p, "look") /\ ~Known(work[p].run) /\ Orphans(p) = {}
  /\ work[p].run \in dirs
  /\ Leave(p)
  /\ UNCHANGED <<runs, dirs, evidence, alerts, source, input>>

MakeDirectory(p) ==
  /\ At(p, "look") /\ ~Known(work[p].run) /\ Orphans(p) = {}
  /\ work[p].run \notin dirs
  /\ dirs' = dirs \union {work[p].run}
  /\ evidence' = [evidence EXCEPT ![work[p].run] = NoEvidence]
  /\ GoTo(p, "register")
  /\ UNCHANGED <<lock, runs, alerts, source, input>>

Register(p) ==
  /\ At(p, "register")
  /\ runs' = [runs EXCEPT ![work[p].run] = "RUNNING"]
  /\ GoTo(p, Steps[1])
  /\ UNCHANGED <<lock, dirs, evidence, alerts, source, input>>

-----------------------------------------------------------------------------
(* The alert inbox. *)

(* synchronize_alerts: active alerts of the scope whose condition is gone are *)
(* resolved, conditions without an active alert open a new one.               *)
Resolved(inbox, scope, wanted) ==
  [k \in DOMAIN inbox |->
     IF inbox[k].scope = scope /\ inbox[k].code \notin wanted
     THEN [inbox[k] EXCEPT !.active = FALSE] ELSE inbox[k]]

EverOpened(inbox, scope) ==   \* Fault: an alert resolved long ago hides the condition
  {a.code : a \in {x \in ToSet(inbox) : x.scope = scope}}
Open(inbox, scope) ==
  {a.code : a \in {x \in ToSet(inbox) : x.scope = scope /\ x.active}}

Synchronized(inbox, scope, wanted) ==
  Resolved(inbox, scope, wanted) \o
    SetToSeq({[scope |-> scope, code |-> c, active |-> TRUE, acknowledged |-> FALSE] :
                c \in wanted \ Open(inbox, scope)})

(* acknowledge_alert, under the same lock: the fault stays.                   *)
Acknowledge(p) ==
  /\ work[p] = Idle /\ lock = None
  /\ \E k \in DOMAIN alerts :
       /\ ~alerts[k].acknowledged
       /\ alerts' = [alerts EXCEPT ![k].acknowledged = TRUE]
  /\ UNCHANGED <<lock, work, runs, dirs, evidence, source, input>>

-----------------------------------------------------------------------------
(* The registered run. *)

(* The comparisons before the seal: the checkout and the inputs are still     *)
(* what was frozen.                                                           *)
PassesAlways(p, step) == TRUE    \* Fault: nothing is compared before the seal
Passes(p, step) ==
  LET e == evidence[work[p].run] IN
  /\ step = "compare source" => source = e.source
  /\ step = "compare input" => input = e.input

(* What a step leaves in the directory of the run.  The tests run on the      *)
(* checkout itself, the later stages on the frozen copy.                      *)
Kept(e, step) ==
  [source |-> IF step = "freeze source" THEN source ELSE e.source,
   tested |-> IF step = "test" THEN source ELSE e.tested,
   input |-> IF step = "freeze input" THEN input ELSE e.input]

(* What it makes of the inbox.                                                *)
Reported(e, step) ==
  CASE step = "readiness" -> Synchronized(alerts, "readiness", Observations(e.input))
    [] step = "worker" -> Synchronized(alerts, "worker", {})
    [] OTHER -> alerts

Advance(p) ==
  /\ lock = p
  /\ \E k \in 1 .. Len(Steps) - 1 :
       /\ work[p].pc = Steps[k] /\ Passes(p, Steps[k])
       /\ LET r == work[p].run IN
            /\ evidence' = [evidence EXCEPT ![r] = Kept(@, Steps[k])]
            /\ alerts' = Reported(evidence[r], Steps[k])
       /\ GoTo(p, Steps[k + 1])
  /\ UNCHANGED <<lock, runs, dirs, source, input>>

Complete(p) ==
  /\ At(p, "seal")
  /\ runs' = [runs EXCEPT ![work[p].run] = "COMPLETED"]
  /\ Leave(p)
  /\ UNCHANGED <<dirs, evidence, alerts, source, input>>

(* Anything raised inside the run, the comparisons included: the failure is   *)
(* recorded in one transaction and announced in the next.                     *)
Fail(p) ==
  /\ lock = p /\ work[p].pc \in ToSet(Steps)
  /\ runs' = [runs EXCEPT ![work[p].run] = "FAILED"]
  /\ GoTo(p, "announce")
  /\ UNCHANGED <<lock, dirs, evidence, alerts, source, input>>

(* The message names the run, so a second failure is another condition and    *)
(* takes the place of the first.                                              *)
Announced(inbox, r) == Synchronized(inbox, "worker", {r})

Announce(p) ==
  /\ At(p, "announce")
  /\ alerts' = Announced(alerts, work[p].run)
  /\ Leave(p)
  /\ UNCHANGED <<runs, dirs, evidence, source, input>>

-----------------------------------------------------------------------------
(* The world. *)

(* The operating system releases the lock of a dead process.                  *)
Crash(p) ==
  /\ work[p] # Idle
  /\ work' = [work EXCEPT ![p] = Idle]
  /\ lock' = IF lock = p THEN None ELSE lock
  /\ UNCHANGED <<runs, dirs, evidence, alerts, source, input>>

EditSource ==
  /\ source + input < MaxEdits
  /\ source' = source + 1
  /\ UNCHANGED <<lock, work, runs, dirs, evidence, alerts, input>>

EditInput ==
  /\ source + input < MaxEdits
  /\ input' = input + 1
  /\ UNCHANGED <<lock, work, runs, dirs, evidence, alerts, source>>

Init ==
  /\ lock = None /\ work = [p \in Procs |-> Idle]
  /\ runs = [r \in RunIds |-> None] /\ dirs = {}
  /\ evidence = [r \in RunIds |-> NoEvidence]
  /\ alerts = << >> /\ source = 0 /\ input = 0

Next ==
  \/ \E p \in Procs :
       \/ \E r \in RunIds : Begin(p, r)
       \/ Reuse(p) \/ CloseOrphan(p) \/ RefuseDirectory(p) \/ MakeDirectory(p)
       \/ Register(p) \/ Advance(p) \/ Complete(p) \/ Fail(p) \/ Announce(p)
       \/ Acknowledge(p) \/ Crash(p)
  \/ EditSource \/ EditInput

Spec == Init /\ [][Next]_vars

-----------------------------------------------------------------------------
(* Runs, directories and alerts keep their shape, a registered run has its    *)
(* directory, and no two active alerts are about one condition of one scope.  *)
OperationsTypeOK ==
  /\ lock \in Procs \union {None}
  /\ runs \in [RunIds -> Status]
  /\ \A r \in RunIds : runs[r] # None => r \in dirs
  /\ source + input <= MaxEdits
  /\ \A k, l \in DOMAIN alerts :
       alerts[k].active /\ alerts[l].active /\ alerts[k].scope = alerts[l].scope
         /\ alerts[k].code = alerts[l].code => k = l

(* While a worker executes its run, no other record says RUNNING: the         *)
(* leftovers of dead workers were closed first (run_operations).              *)
OnlyOwnRunRuns ==
  \A p \in Procs : work[p].pc \in ToSet(Steps) =>
    \A r \in RunIds : runs[r] = "RUNNING" => r = work[p].run

(* A completed run was sealed from one revision: what was tested, in the live *)
(* checkout, is what was frozen before the tests and compared after the last  *)
(* stage (operations.py: running code must remain the tested revision).       *)
CompletedIsOneRevision ==
  \A r \in RunIds : runs[r] = "COMPLETED" => evidence[r].tested = evidence[r].source

(* The readiness alerts that stand are those of one input: a condition that   *)
(* came back is open again, one that went is not, whatever happened between.  *)
ReadinessStands ==
  \A r \in RunIds :
    (\E p \in Procs : work[p].pc = "worker" /\ work[p].run = r) =>
      Open(alerts, "readiness") = Observations(evidence[r].input)

(* An identity is run once: a terminal status is never replaced, and only a   *)
(* run without a living worker is declared interrupted.                       *)
RunOnce ==
  [][\A r \in RunIds :
       /\ runs[r] \in Terminal => runs'[r] = runs[r]
       /\ runs[r] = "RUNNING" /\ runs'[r] = "INTERRUPTED" =>
            \A p \in Procs : work[p].pc \in ToSet(Steps) => work[p].run # r]_vars

=============================================================================
