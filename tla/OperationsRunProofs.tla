------------------------ MODULE OperationsRunProofs ------------------------
(* Theorems about OperationsRun, for any number of processes, run identities, *)
(* edits and alerts.  RunInv says what the holder of the lock knows of the    *)
(* journal and of the directory of its run; the properties follow from it.    *)
EXTENDS OperationsRun, FiniteSetTheorems, TLAPS

StepSet == {"freeze source", "test", "freeze input", "audit", "readiness",
            "worker", "compare source", "compare input", "seal"}
Revision == Nat \union {None}

RunShape ==
  /\ lock \in Procs \union {None}
  /\ work \in [Procs -> [pc : {"idle", "look", "register", "announce"} \union StepSet,
                         run : RunIds \union {None}]]
  /\ runs \in [RunIds -> Status]
  /\ evidence \in [RunIds -> [source : Revision, tested : Revision, input : Revision]]
  /\ source \in Nat /\ input \in Nat

(* Who works holds the lock.                                                  *)
HoldsLock(p) == work[p] # Idle => lock = p /\ work[p].run \in RunIds

(* Who is about to register found no run alive; who executes one left no      *)
(* other, and its own is recorded.                                            *)
Alone(p) ==
  /\ work[p].pc = "register" =>
       runs[work[p].run] = None /\ \A r \in RunIds : runs[r] # "RUNNING"
  /\ work[p].pc \in StepSet =>
       /\ runs[work[p].run] = "RUNNING"
       /\ \A r \in RunIds : runs[r] = "RUNNING" => r = work[p].run

(* What the revisions in a run's directory are to each other at a step: the   *)
(* tested one lies between the frozen one and the present one, and once the   *)
(* checkout was compared the frozen one was the tested one.                   *)
Traced(frozen, tested, step, now) ==
  /\ step \in StepSet /\ step # "freeze source" => frozen \in Nat /\ frozen <= now
  /\ step \in StepSet /\ step # "freeze source" /\ step # "test" =>
       tested \in Nat /\ frozen <= tested /\ tested <= now
  /\ step = "compare input" \/ step = "seal" => tested = frozen

Ordered(p) ==
  LET e == evidence[work[p].run] IN Traced(e.source, e.tested, work[p].pc, source)

Informed(p) == HoldsLock(p) /\ Alone(p) /\ Ordered(p)

RunInv ==
  /\ RunShape
  /\ \A p \in Procs : Informed(p)
  /\ CompletedIsOneRevision

(* What RunOnce says of one step.                                             *)
RunOnceStep ==
  \A r \in RunIds :
    /\ runs[r] \in Terminal => runs'[r] = runs[r]
    /\ runs[r] = "RUNNING" /\ runs'[r] = "INTERRUPTED" =>
         \A p \in Procs : work[p].pc \in ToSet(Steps) => work[p].run # r

-----------------------------------------------------------------------------
(* The sequence of steps. *)

\* The steps one by one.
LEMMA StepList ==
  /\ DOMAIN Steps = 1..9 /\ Len(Steps) - 1 = 8
  /\ Steps[1] = "freeze source" /\ Steps[2] = "test" /\ Steps[3] = "freeze input"
  /\ Steps[4] = "audit" /\ Steps[5] = "readiness" /\ Steps[6] = "worker"
  /\ Steps[7] = "compare source" /\ Steps[8] = "compare input" /\ Steps[9] = "seal"
BY DEF Steps

\* The names of the steps.
LEMMA StepNames == ToSet(Steps) \subseteq StepSet
<1>1. ToSet(Steps) = {Steps[i] : i \in 1..9}
  BY StepList DEF ToSet
<1>2. \A i \in 1..9 : i = 1 \/ i = 2 \/ i = 3 \/ i = 4 \/ i = 5 \/ i = 6 \/ i = 7 \/ i = 8 \/ i = 9
  OBVIOUS
<1>3. \A i \in 1..9 : Steps[i] \in StepSet
  BY <1>2, StepList DEF StepSet
<1> QED
  BY <1>1, <1>3

\* One step follows another.
Follows(s, t) ==
  \/ s = "freeze source"  /\ t = "test"
  \/ s = "test"           /\ t = "freeze input"
  \/ s = "freeze input"   /\ t = "audit"
  \/ s = "audit"          /\ t = "readiness"
  \/ s = "readiness"      /\ t = "worker"
  \/ s = "worker"         /\ t = "compare source"
  \/ s = "compare source" /\ t = "compare input"
  \/ s = "compare input"  /\ t = "seal"

\* Each step leads to the one that follows it.
LEMMA StepOrder == \A k \in 1 .. Len(Steps) - 1 : Follows(Steps[k], Steps[k+1])
<1>1. \A k \in 1..8 : Follows(Steps[k], Steps[k+1])
  <2> SUFFICES ASSUME NEW k \in 1..8 PROVE Follows(Steps[k], Steps[k+1])
    OBVIOUS
  <2>1. \/ k = 1 /\ k + 1 = 2
        \/ k = 2 /\ k + 1 = 3
        \/ k = 3 /\ k + 1 = 4
        \/ k = 4 /\ k + 1 = 5
        \/ k = 5 /\ k + 1 = 6
        \/ k = 6 /\ k + 1 = 7
        \/ k = 7 /\ k + 1 = 8
        \/ k = 8 /\ k + 1 = 9
    OBVIOUS
  <2> QED
    BY <2>1, StepList DEF Follows
<1> QED
  BY <1>1, StepList

-----------------------------------------------------------------------------
(* What the directory shows. *)

\* It stays true while the checkout moves on.
LEMMA TracedLater ==
  ASSUME NEW f, NEW g, NEW s, NEW m \in Nat, NEW n \in Nat, m <= n, Traced(f, g, s, m)
  PROVE  Traced(f, g, s, n)
<1>1. ASSUME s \in StepSet, s # "freeze source"
      PROVE  f \in Nat /\ f <= n
  <2>1. f \in Nat /\ f <= m
    BY <1>1, Zenon DEF Traced
  <2> QED
    BY <2>1
<1>2. ASSUME s \in StepSet, s # "freeze source", s # "test"
      PROVE  g \in Nat /\ f <= g /\ g <= n
  <2>1. g \in Nat /\ g <= m /\ f <= g
    BY <1>2, Zenon DEF Traced
  <2> QED
    BY <2>1
<1>3. s = "compare input" \/ s = "seal" => g = f
  BY Zenon DEF Traced
<1> QED
  BY <1>1, <1>2, <1>3, Zenon DEF Traced

\* Naturals are ordered.
LEMMA NatOrder == \A m, n \in Nat : m <= m /\ (m <= n /\ n <= m => m = n)
OBVIOUS

\* What the steps after the test rely on.
LEMMA TracedTested ==
  ASSUME NEW f, NEW g, NEW s, NEW now, Traced(f, g, s, now),
         s \in StepSet, s # "freeze source", s # "test"
  PROVE  f \in Nat /\ g \in Nat /\ f <= g /\ g <= now /\ f <= now
BY Zenon DEF Traced

\* Each step leaves what the one after it relies on.
LEMMA KeptTraced ==
  ASSUME NEW f, NEW g, NEW s, NEW t, Follows(s, t), NEW now \in Nat,
         Traced(f, g, s, now), s = "compare source" => now = f
  PROVE  Traced(IF s = "freeze source" THEN now ELSE f,
                IF s = "test" THEN now ELSE g, t, now)
<1>0. now <= now
  BY NatOrder, Zenon
<1>1. CASE s = "freeze source" /\ t = "test"
  <2>1. Traced(now, g, "test", now)
    BY <1>0, Zenon DEF Traced
  <2> QED
    BY <1>1, <2>1
<1>2. CASE s = "test" /\ t = "freeze input"
  <2>1. s \in StepSet /\ s # "freeze source"
    BY <1>2 DEF StepSet
  <2>2. f \in Nat /\ f <= now
    BY <2>1, Zenon DEF Traced
  <2>3. Traced(f, now, "freeze input", now)
    BY <1>0, <2>2, Zenon DEF Traced
  <2> QED
    BY <1>2, <2>3
<1>3. CASE s \in {"freeze input", "audit", "readiness", "worker", "compare source", "compare input"}
  <2>1. s \in StepSet /\ s # "freeze source" /\ s # "test"
    BY <1>3 DEF StepSet
  <2>2. f \in Nat /\ g \in Nat /\ f <= g /\ g <= now /\ f <= now
    BY <2>1, TracedTested, Zenon
  <2>3. s = "compare source" => g = f
    BY <2>2, NatOrder, Zenon
  <2>4. s = "compare input" => g = f
    BY Zenon DEF Traced
  <2>5. t = "compare input" \/ t = "seal" => g = f
    BY <1>3, <2>3, <2>4 DEF Follows
  <2>6. Traced(f, g, t, now)
    BY <2>2, <2>5, Zenon DEF Traced
  <2> QED
    BY <2>1, <2>6
<1> QED
  BY <1>1, <1>2, <1>3 DEF Follows

-----------------------------------------------------------------------------
(* The steps of the specification. *)

\* The process with the lock is the only one that works.
LEMMA OthersIdle ==
  ASSUME RunInv, NEW p \in Procs, lock = p \/ lock = None
  PROVE  \A q \in Procs : q # p => work[q] = Idle
BY OperationsAssumption DEF RunInv, Informed, HoldsLock

\* Who executes a step has the lock and is registered.
LEMMA AtWork ==
  ASSUME RunInv, NEW p \in Procs, work[p].pc \in StepSet
  PROVE  /\ lock = p /\ work[p].run \in RunIds /\ runs[work[p].run] = "RUNNING"
         /\ \A r \in RunIds : runs[r] = "RUNNING" => r = work[p].run
<1>1. "idle" \notin StepSet
  BY DEF StepSet
<1>2. work[p] # Idle
  BY <1>1 DEF Idle
<1> QED
  BY <1>2 DEF RunInv, Informed, HoldsLock, Alone

\* A process outside a run has nothing to know.
LEMMA AtRest ==
  ASSUME NEW p \in Procs, HoldsLock(p)', work'[p].pc \in {"idle", "look", "announce"}
  PROVE  Informed(p)'
<1>1. work'[p].pc # "register" /\ work'[p].pc \notin StepSet
  BY DEF StepSet
<1>2. work'[p].pc # "compare input" /\ work'[p].pc # "seal"
  OBVIOUS
<1> QED
  BY <1>1, <1>2 DEF Informed, Alone, Ordered, Traced

\* An idle process knows nothing that could become false.
LEMMA OneInformed ==
  ASSUME NEW p \in Procs, Informed(p)', \A q \in Procs : q # p => work'[q] = Idle
  PROVE  \A q \in Procs : Informed(q)'
<1> SUFFICES ASSUME NEW q \in Procs, q # p PROVE Informed(q)'
  OBVIOUS
<1>1. work'[q] = Idle /\ work'[q].pc = "idle"
  BY DEF Idle
<1> QED
  BY <1>1, AtRest DEF HoldsLock

\* Nothing has run yet.
LEMMA InitKeeps == Init => RunInv
<1> SUFFICES ASSUME Init PROVE RunInv
  OBVIOUS
<1>1. RunShape
  BY OperationsAssumption DEF Init, RunShape, Idle, NoEvidence, Revision, Status
<1>2. \A p \in Procs : Informed(p)
  BY DEF Init, Informed, HoldsLock, Alone, Ordered, Traced, Idle, StepSet
<1>3. CompletedIsOneRevision
  BY OperationsAssumption DEF Init, CompletedIsOneRevision, Terminal
<1> QED
  BY <1>1, <1>2, <1>3 DEF RunInv

\* The holder's bookkeeping moves on while the journal and the directories stay.
LEMMA MovingKeeps ==
  ASSUME RunInv, NEW p \in Procs, lock = p \/ lock = None, RunShape',
         NEW w, work' = [work EXCEPT ![p] = w],
         Informed(p)', UNCHANGED <<runs, evidence>>
  PROVE  RunInv' /\ RunOnceStep
<1>1. \A q \in Procs : q # p => work'[q] = Idle
  BY OthersIdle DEF RunInv, RunShape
<1>2. \A q \in Procs : Informed(q)'
  BY <1>1, OneInformed
<1>3. CompletedIsOneRevision' /\ RunOnceStep
  BY OperationsAssumption DEF RunInv, CompletedIsOneRevision, RunOnceStep, Terminal
<1> QED
  BY <1>2, <1>3 DEF RunInv

\* Taking the lock.
LEMMA BeginKeeps ==
  ASSUME RunInv, NEW p \in Procs, NEW r \in RunIds, Begin(p, r)
  PROVE  RunInv' /\ RunOnceStep
<1> DEFINE w == [pc |-> "look", run |-> r]
<1>1. RunShape'
  BY DEF RunInv, RunShape, Begin
<1>2. work' = [work EXCEPT ![p] = w] /\ work'[p] = w
  BY DEF RunInv, RunShape, Begin
<1>3. Informed(p)'
  BY <1>2, AtRest DEF Begin, HoldsLock
<1> QED
  BY <1>1, <1>2, <1>3, MovingKeeps DEF Begin, Acquire

\* Letting it go without touching the journal.
LEMMA LeaveKeeps ==
  ASSUME RunInv, NEW p \in Procs, lock = p, Leave(p),
         UNCHANGED <<runs, evidence, source, input>>
  PROVE  RunInv' /\ RunOnceStep
<1>1. RunShape'
  BY DEF RunInv, RunShape, Leave, Idle
<1>2. work' = [work EXCEPT ![p] = Idle] /\ work'[p] = Idle
  BY DEF RunInv, RunShape, Leave
<1>3. Informed(p)'
  BY <1>2, AtRest DEF HoldsLock, Idle
<1> QED
  BY <1>1, <1>2, <1>3, MovingKeeps

\* A process that dies takes nothing with it but the lock.
LEMMA CrashKeeps ==
  ASSUME RunInv, NEW p \in Procs, Crash(p)
  PROVE  RunInv' /\ RunOnceStep
<1>1. lock = p
  BY DEF RunInv, Informed, HoldsLock, Crash
<1> QED
  BY <1>1, LeaveKeeps DEF Crash, Leave

\* The orphans are closed while no worker lives.
LEMMA CloseOrphanKeeps ==
  ASSUME RunInv, NEW p \in Procs, CloseOrphan(p)
  PROVE  RunInv' /\ RunOnceStep
<1> PICK r \in Orphans(p) : runs' = [runs EXCEPT ![r] = "INTERRUPTED"]
  BY DEF CloseOrphan
<1>1. r \in RunIds /\ runs[r] = "RUNNING"
  BY DEF Orphans
<1>2. RunShape'
  BY <1>1 DEF RunInv, RunShape, CloseOrphan, Status, Terminal
<1>3. \A q \in Procs : work[q].pc \in {"idle", "look"}
  BY OthersIdle DEF CloseOrphan, At, Idle
<1>4. \A q \in Procs : Informed(q)'
  BY <1>3, AtRest DEF RunInv, Informed, HoldsLock, CloseOrphan
<1>5. CompletedIsOneRevision'
  BY <1>1 DEF RunInv, RunShape, CompletedIsOneRevision, CloseOrphan
<1>6. RunOnceStep
  <2>1. \A q \in Procs : work[q].pc \notin ToSet(Steps)
    BY <1>3, StepNames DEF StepSet
  <2> QED
    BY <1>1, <2>1 DEF RunInv, RunShape, RunOnceStep, Terminal
<1> QED
  BY <1>2, <1>4, <1>5 , <1>6 DEF RunInv

\* A directory is made for an identity that has no record.
LEMMA MakeDirectoryKeeps ==
  ASSUME RunInv, NEW p \in Procs, MakeDirectory(p)
  PROVE  RunInv' /\ RunOnceStep
<1> DEFINE r == work[p].run
<1>1. r \in RunIds /\ lock = p /\ work[p].pc = "look" /\ runs[r] = None
  BY DEF RunInv, Informed, HoldsLock, MakeDirectory, At, Idle, Known
<1>2. /\ work'[p].pc = "register" /\ work'[p].run = r
      /\ \A q \in Procs : q # p => work'[q] = work[q]
  BY DEF RunInv, RunShape, MakeDirectory, GoTo
<1>3. RunShape'
  BY <1>1 DEF RunInv, RunShape, MakeDirectory, GoTo, NoEvidence, Revision
<1>4. Informed(p)'
  <2>1. \A s \in RunIds : runs[s] # "RUNNING"
    BY DEF MakeDirectory, Orphans
  <2> QED
    BY <1>1, <1>2, <2>1 DEF MakeDirectory, Informed, HoldsLock, Alone, Ordered, Traced, StepSet
<1>5. \A q \in Procs : Informed(q)'
  BY <1>1, <1>2, <1>4, OneInformed, OthersIdle
<1>6. CompletedIsOneRevision'
  BY <1>1, OperationsAssumption
     DEF RunInv, RunShape, CompletedIsOneRevision, MakeDirectory, Terminal
<1>7. RunOnceStep
  BY DEF RunOnceStep, MakeDirectory, Terminal
<1> QED
  BY <1>3, <1>5, <1>6, <1>7 DEF RunInv

\* Registering the run makes it the only one that runs.
LEMMA RegisterKeeps ==
  ASSUME RunInv, NEW p \in Procs, Register(p)
  PROVE  RunInv' /\ RunOnceStep
<1> DEFINE r == work[p].run
<1>1. /\ r \in RunIds /\ lock = p /\ work[p].pc = "register" /\ runs[r] = None
      /\ \A s \in RunIds : runs[s] # "RUNNING"
  BY DEF RunInv, Informed, HoldsLock, Alone, Register, At, Idle
<1>2. /\ work'[p].pc = "freeze source" /\ work'[p].run = r
      /\ \A q \in Procs : q # p => work'[q] = work[q]
  BY StepList DEF RunInv, RunShape, Register, GoTo
<1>3. runs'[r] = "RUNNING" /\ \A s \in RunIds : s # r => runs'[s] = runs[s]
  BY <1>1 DEF RunInv, RunShape, Register
<1>4. RunShape'
  <2>1. work' = [work EXCEPT ![p].pc = "freeze source"] /\ "freeze source" \in StepSet
    BY StepList DEF Register, GoTo, StepSet
  <2>2. work' \in [Procs -> [pc : {"idle", "look", "register", "announce"} \union StepSet,
                             run : RunIds \union {None}]]
    BY <2>1 DEF RunInv, RunShape
  <2> QED
    BY <1>1, <2>2 DEF RunInv, RunShape, Register, Status
<1>5. Informed(p)'
  BY <1>1, <1>2, <1>3 DEF Register, Informed, HoldsLock, Alone, Ordered, Traced, StepSet
<1>6. \A q \in Procs : Informed(q)'
  BY <1>1, <1>2, <1>5, OneInformed, OthersIdle
<1>7. CompletedIsOneRevision'
  BY <1>3 DEF RunInv, CompletedIsOneRevision, Register
<1>8. RunOnceStep
  BY <1>1, <1>3, OperationsAssumption DEF RunOnceStep, Terminal
<1> QED
  BY <1>4, <1>6, <1>7, <1>8 DEF RunInv

\* A step of the run in progress leaves in its directory what the later ones rely on.
LEMMA AdvanceKeeps ==
  ASSUME RunInv, NEW p \in Procs, Advance(p)
  PROVE  RunInv' /\ RunOnceStep
<1>1. PICK k \in 1 .. Len(Steps) - 1 :
        /\ work[p].pc = Steps[k] /\ Passes(p, Steps[k])
        /\ evidence' = [evidence EXCEPT ![work[p].run] = Kept(@, Steps[k])]
        /\ GoTo(p, Steps[k+1])
  BY DEF Advance
<1> DEFINE s == Steps[k]
           t == Steps[k+1]
           r == work[p].run
           e == evidence[r]
<1>2. Follows(s, t)
  BY StepOrder
<1>3. s \in StepSet /\ t \in StepSet \ {"freeze source"}
  BY <1>2 DEF Follows, StepSet
<1> HIDE DEF s, t
<1>4. work[p].pc = s /\ Passes(p, s) /\ GoTo(p, t)
      /\ evidence' = [evidence EXCEPT ![r] = Kept(@, s)]
  BY <1>1 DEF s, t
<1>5. /\ r \in RunIds /\ lock = p /\ runs[r] = "RUNNING"
      /\ \A q \in RunIds : runs[q] = "RUNNING" => q = r
  BY <1>3, <1>4, AtWork
<1>6. /\ work'[p].pc = t /\ work'[p].run = r
      /\ \A q \in Procs : q # p => work'[q] = work[q]
      /\ UNCHANGED <<lock, runs, source, input>>
  BY <1>4 DEF RunInv, RunShape, GoTo, Advance
<1>7. /\ evidence' = [evidence EXCEPT ![r] = Kept(e, s)]
      /\ e \in [source : Revision, tested : Revision, input : Revision]
      /\ source \in Nat /\ input \in Nat
  BY <1>4, <1>5 DEF RunInv, RunShape
<1>8. RunShape' /\ evidence'[r] = Kept(e, s) /\ \A q \in RunIds : q # r => evidence'[q] = evidence[q]
  <2>1. Kept(e, s) \in [source : Revision, tested : Revision, input : Revision]
    BY <1>7 DEF Kept, Revision
  <2>2. evidence' \in [RunIds -> [source : Revision, tested : Revision, input : Revision]]
    BY <1>5, <1>7, <2>1 DEF RunInv, RunShape
  <2>3. work' \in [Procs -> [pc : {"idle", "look", "register", "announce"} \union StepSet,
                             run : RunIds \union {None}]]
    BY <1>3, <1>4 DEF RunInv, RunShape, GoTo
  <2> QED
    BY <1>5, <1>6, <1>7, <2>2, <2>3 DEF RunInv, RunShape
<1>9. Ordered(p)'
  <2>1. Traced(e.source, e.tested, s, source)
    BY <1>4 DEF RunInv, Informed, Ordered
  <2>2. s = "compare source" => source = e.source
    BY <1>4 DEF Passes
  <2>3. Traced(IF s = "freeze source" THEN source ELSE e.source,
               IF s = "test" THEN source ELSE e.tested, t, source)
    BY <1>2, <1>7, <2>1, <2>2, KeptTraced
  <2>4. /\ evidence'[r].source = IF s = "freeze source" THEN source ELSE e.source
        /\ evidence'[r].tested = IF s = "test" THEN source ELSE e.tested
    <3>1. /\ Kept(e, s).source = IF s = "freeze source" THEN source ELSE e.source
          /\ Kept(e, s).tested = IF s = "test" THEN source ELSE e.tested
      BY DEF Kept
    <3> QED
      BY <1>8, <3>1, Zenon
  <2> QED
    BY <1>6, <2>3, <2>4 DEF Ordered
<1>10. HoldsLock(p)' /\ Alone(p)'
  <2>1. t # "register"
    BY <1>3 DEF StepSet
  <2> QED
    BY <1>5, <1>6, <2>1 DEF HoldsLock, Alone
<1>11. \A q \in Procs : Informed(q)'
  BY <1>5, <1>6, <1>9, <1>10, OneInformed, OthersIdle DEF Informed
<1>12. CompletedIsOneRevision'
  BY <1>5, <1>6, <1>8 DEF RunInv, CompletedIsOneRevision
<1>13. RunOnceStep
  BY <1>6 DEF RunOnceStep, Terminal
<1> QED
  BY <1>8, <1>11, <1>12, <1>13 DEF RunInv

\* Only what was compared is sealed.
LEMMA CompleteKeeps ==
  ASSUME RunInv, NEW p \in Procs, Complete(p)
  PROVE  RunInv' /\ RunOnceStep
<1> DEFINE r == work[p].run
<1>1. /\ work[p].pc = "seal" /\ r \in RunIds /\ lock = p /\ runs[r] = "RUNNING"
      /\ evidence[r].tested = evidence[r].source
  <2>1. work[p].pc = "seal" /\ "seal" \in StepSet
    BY DEF Complete, At, StepSet
  <2>2. Traced(evidence[r].source, evidence[r].tested, "seal", source)
    BY <2>1 DEF RunInv, Informed, Ordered
  <2> QED
    BY <2>1, <2>2, AtWork DEF Traced
<1>2. runs'[r] = "COMPLETED" /\ \A q \in RunIds : q # r => runs'[q] = runs[q]
  BY <1>1 DEF RunInv, RunShape, Complete
<1>3. work'[p] = Idle /\ \A q \in Procs : q # p => work'[q] = work[q]
  BY DEF RunInv, RunShape, Complete, Leave
<1>4. RunShape'
  BY <1>1 DEF RunInv, RunShape, Complete, Leave, Idle, Status, Terminal
<1>5. Informed(p)'
  BY <1>3, AtRest DEF HoldsLock, Idle
<1>6. \A q \in Procs : Informed(q)'
  BY <1>1, <1>3, <1>5, OneInformed, OthersIdle
<1>7. CompletedIsOneRevision'
  BY <1>1, <1>2 DEF RunInv, CompletedIsOneRevision, Complete
<1>8. RunOnceStep
  BY <1>1, <1>2 DEF RunOnceStep, Terminal
<1> QED
  BY <1>4, <1>6, <1>7, <1>8 DEF RunInv

\* A failure ends the run that failed.
LEMMA FailKeeps ==
  ASSUME RunInv, NEW p \in Procs, Fail(p)
  PROVE  RunInv' /\ RunOnceStep
<1> DEFINE r == work[p].run
<1>1. work[p].pc \in StepSet
  BY StepNames DEF Fail
<1>2. r \in RunIds /\ lock = p /\ runs[r] = "RUNNING"
  BY <1>1, AtWork
<1>3. runs'[r] = "FAILED" /\ \A q \in RunIds : q # r => runs'[q] = runs[q]
  BY <1>2 DEF RunInv, RunShape, Fail
<1>4. /\ work'[p].pc = "announce" /\ work'[p].run = r
      /\ \A q \in Procs : q # p => work'[q] = work[q]
  BY DEF RunInv, RunShape, Fail, GoTo
<1>5. RunShape'
  BY <1>2 DEF RunInv, RunShape, Fail, GoTo, Status, Terminal
<1>6. Informed(p)'
  BY <1>2, <1>4, AtRest DEF HoldsLock, Fail
<1>7. \A q \in Procs : Informed(q)'
  BY <1>2, <1>4, <1>6, OneInformed, OthersIdle
<1>8. CompletedIsOneRevision'
  BY <1>3 DEF RunInv, CompletedIsOneRevision, Fail
<1>9. RunOnceStep
  BY <1>2, <1>3 DEF RunOnceStep, Terminal
<1> QED
  BY <1>5, <1>7, <1>8, <1>9 DEF RunInv

\* Editing the checkout or an input disturbs no one: revisions only grow.
LEMMA WorldKeeps ==
  ASSUME RunInv, UNCHANGED <<lock, work, runs, evidence>>,
         source' = source \/ source' = source + 1, input' = input \/ input' = input + 1
  PROVE  RunInv' /\ RunOnceStep
<1>1. RunShape'
  BY DEF RunInv, RunShape
<1>2. ASSUME NEW p \in Procs
      PROVE  Informed(p)'
  <2>1. HoldsLock(p)' /\ Alone(p)'
    BY DEF RunInv, Informed, HoldsLock, Alone
  <2>2. Ordered(p) /\ source \in Nat
    BY DEF RunInv, Informed, RunShape
  <2>3. Ordered(p)'
    BY <2>2, TracedLater DEF Ordered
  <2> QED
    BY <2>1, <2>3 DEF Informed
<1>3. CompletedIsOneRevision' /\ RunOnceStep
  BY OperationsAssumption DEF RunInv, CompletedIsOneRevision, RunOnceStep, Terminal
<1> QED
  BY <1>1, <1>2, <1>3 DEF RunInv

\* Every step keeps the invariant, and runs an identity once.
LEMMA NextKeeps == RunInv /\ [Next]_vars => RunInv' /\ (RunOnceStep \/ UNCHANGED vars)
<1> SUFFICES ASSUME RunInv, [Next]_vars PROVE RunInv' /\ (RunOnceStep \/ UNCHANGED vars)
  OBVIOUS
<1>1. CASE UNCHANGED vars
  BY <1>1, WorldKeeps DEF vars
<1>2. ASSUME NEW p \in Procs, NEW r \in RunIds, Begin(p, r)
      PROVE  RunInv' /\ RunOnceStep
  BY <1>2, BeginKeeps
<1>3. ASSUME NEW p \in Procs, Reuse(p) \/ RefuseDirectory(p) \/ Announce(p)
      PROVE  RunInv' /\ RunOnceStep
  BY <1>3, LeaveKeeps DEF Reuse, RefuseDirectory, Announce, At
<1>4. ASSUME NEW p \in Procs,
             CloseOrphan(p) \/ MakeDirectory(p) \/ Register(p) \/ Advance(p)
               \/ Complete(p) \/ Fail(p) \/ Crash(p)
      PROVE  RunInv' /\ RunOnceStep
  BY <1>4, CloseOrphanKeeps, MakeDirectoryKeeps, RegisterKeeps, AdvanceKeeps,
     CompleteKeeps, FailKeeps, CrashKeeps
<1>5. ASSUME NEW p \in Procs, Acknowledge(p)
      PROVE  RunInv' /\ RunOnceStep
  BY <1>5, WorldKeeps DEF Acknowledge
<1>6. CASE EditSource \/ EditInput
  BY <1>6, WorldKeeps DEF EditSource, EditInput
<1> QED
  BY <1>1, <1>2, <1>3, <1>4, <1>5, <1>6 DEF Next

-----------------------------------------------------------------------------
(* The inbox. *)

Scopes == {"readiness", "worker"}
Codes == {"calendar", "stale"} \union RunIds
Alert == [scope : Scopes, code : Codes, active : BOOLEAN, acknowledged : BOOLEAN]

(* No two active alerts are about one condition of one scope.                 *)
OneActiveEach(inbox) ==
  \A k, l \in DOMAIN inbox :
    inbox[k].active /\ inbox[l].active /\ inbox[k].scope = inbox[l].scope
      /\ inbox[k].code = inbox[l].code => k = l

InboxInv ==
  /\ alerts \in Seq(Alert)
  /\ OneActiveEach(alerts)
  /\ ReadinessStands

\* A finite set has a sequence of its elements, each once.
LEMMA SequenceOfSet ==
  ASSUME NEW S, IsFiniteSet(S)
  PROVE  /\ SetToSeq(S) \in Seq(S)
         /\ \A x \in S : \E i \in DOMAIN SetToSeq(S) : SetToSeq(S)[i] = x
         /\ \A i, j \in DOMAIN SetToSeq(S) : SetToSeq(S)[i] = SetToSeq(S)[j] => i = j
<1> DEFINE n == Cardinality(S)
           q == SetToSeq(S)
<1>1. n \in Nat /\ ExistsBijection(1..n, S)
  BY FS_CardinalityType
<1>2. \E f \in [1..n -> S] : IsInjective(f)
  BY <1>1 DEF ExistsBijection, Bijection, Injection
<1>3. q \in [1..n -> S] /\ IsInjective(q)
  BY <1>2, Zenon DEF SetToSeq
<1> HIDE DEF q
<1>4. IsFiniteSet(1..n) /\ Cardinality(1..n) = n
  BY <1>1, FS_Interval
<1>5. q \in Injection(1..n, S)
  BY <1>3 DEF Injection
<1>6. q \in Surjection(1..n, S)
  BY <1>4, <1>5, FS_Injection
<1>7. \A x \in S : \E i \in 1..n : q[i] = x
  BY <1>6 DEF Surjection
<1>8. q \in Seq(S) /\ DOMAIN q = 1..n
  BY <1>1, <1>3
<1> QED
  BY <1>3, <1>7, <1>8 DEF q, IsInjective

\* After a synchronization the active alerts of its scope are the wanted ones, each once,
\* and those of another scope are what they were.
LEMMA SynchronizedStands ==
  ASSUME NEW inbox \in Seq(Alert), NEW scope \in Scopes, NEW wanted \in SUBSET Codes,
         IsFiniteSet(wanted), OneActiveEach(inbox)
  PROVE  /\ Synchronized(inbox, scope, wanted) \in Seq(Alert)
         /\ OneActiveEach(Synchronized(inbox, scope, wanted))
         /\ Open(Synchronized(inbox, scope, wanted), scope) = wanted
         /\ \A other \in Scopes \ {scope} :
              Open(Synchronized(inbox, scope, wanted), other) = Open(inbox, other)
<1> DEFINE kept == Resolved(inbox, scope, wanted)
           missing == wanted \ Open(inbox, scope)
           alert(c) == [scope |-> scope, code |-> c, active |-> TRUE, acknowledged |-> FALSE]
           fresh == {alert(c) : c \in missing}
           opened == SetToSeq(fresh)
           inbox2 == Synchronized(inbox, scope, wanted)
<1>1. /\ kept \in Seq(Alert) /\ DOMAIN kept = DOMAIN inbox /\ Len(kept) = Len(inbox)
      /\ \A k \in DOMAIN inbox :
           /\ inbox[k] \in Alert
           /\ kept[k].scope = inbox[k].scope /\ kept[k].code = inbox[k].code
           /\ kept[k].active <=> inbox[k].active /\ (inbox[k].scope = scope => inbox[k].code \in wanted)
  <2>1. \A k \in DOMAIN inbox : inbox[k] \in Alert
    OBVIOUS
  <2>2. ASSUME NEW a \in Alert
        PROVE  /\ [a EXCEPT !.active = FALSE] \in Alert
               /\ [a EXCEPT !.active = FALSE].scope = a.scope
               /\ [a EXCEPT !.active = FALSE].code = a.code
               /\ [a EXCEPT !.active = FALSE].active = FALSE
    BY DEF Alert
  <2>3. /\ DOMAIN kept = DOMAIN inbox
        /\ \A k \in DOMAIN inbox :
             kept[k] = IF inbox[k].scope = scope /\ inbox[k].code \notin wanted
                       THEN [inbox[k] EXCEPT !.active = FALSE] ELSE inbox[k]
    BY DEF Resolved
  <2> HIDE DEF kept
  <2>4. \A k \in DOMAIN inbox :
           /\ kept[k] \in Alert
           /\ kept[k].scope = inbox[k].scope /\ kept[k].code = inbox[k].code
           /\ kept[k].active <=> inbox[k].active /\ (inbox[k].scope = scope => inbox[k].code \in wanted)
    <3> SUFFICES ASSUME NEW k \in DOMAIN inbox
                 PROVE  /\ kept[k] \in Alert
                        /\ kept[k].scope = inbox[k].scope /\ kept[k].code = inbox[k].code
                        /\ kept[k].active <=> inbox[k].active /\ (inbox[k].scope = scope => inbox[k].code \in wanted)
      OBVIOUS
    <3>1. CASE inbox[k].scope = scope /\ inbox[k].code \notin wanted
      <4>1. kept[k] = [inbox[k] EXCEPT !.active = FALSE]
        BY <2>3, <3>1
      <4> QED
        BY <2>1, <2>2, <3>1, <4>1
    <3>2. CASE ~(inbox[k].scope = scope /\ inbox[k].code \notin wanted)
      BY <2>1, <2>3, <3>2
    <3> QED
      BY <3>1, <3>2
  <2>5. kept = [k \in 1..Len(inbox) |-> kept[k]] /\ Len(inbox) \in Nat
    BY <2>3 DEF Resolved, kept
  <2>6. kept \in Seq(Alert) /\ Len(kept) = Len(inbox)
    <3>1. DOMAIN inbox = 1..Len(inbox) /\ \A k \in 1..Len(inbox) : kept[k] \in Alert
      BY <2>4
    <3>2. kept \in [1..Len(inbox) -> Alert]
      BY <2>5, <3>1
    <3>3. \A n \in Nat : \A f \in [1..n -> Alert] : f \in Seq(Alert) /\ Len(f) = n
      OBVIOUS
    <3> QED
      BY <2>5, <3>2, <3>3
  <2> QED
    BY <2>1, <2>3, <2>4, <2>6
<1>2. /\ opened \in Seq(Alert)
      /\ \A i \in DOMAIN opened : \E c \in missing : opened[i] = alert(c)
      /\ \A c \in missing : \E i \in DOMAIN opened : opened[i] = alert(c)
      /\ \A i, j \in DOMAIN opened : opened[i].code = opened[j].code => i = j
  <2>1. missing \subseteq wanted /\ IsFiniteSet(missing)
    BY FS_Subset
  <2>2. IsFiniteSet(fresh)
    <3> DEFINE f == [c \in missing |-> alert(c)]
    <3>1. f \in Surjection(missing, fresh)
      BY DEF Surjection
    <3> QED
      BY <2>1, <3>1, FS_Surjection
  <2>3. fresh \subseteq Alert
    <3> SUFFICES ASSUME NEW c \in missing PROVE alert(c) \in Alert
      OBVIOUS
    <3>1. c \in Codes
      BY <2>1
    <3> QED
      BY <3>1 DEF Alert
  <2> HIDE DEF opened
  <2>4. /\ opened \in Seq(fresh)
        /\ \A x \in fresh : \E i \in DOMAIN opened : opened[i] = x
        /\ \A i, j \in DOMAIN opened : opened[i] = opened[j] => i = j
    BY <2>2, SequenceOfSet DEF opened
  <2>5. \A i \in DOMAIN opened : opened[i] \in fresh
    BY <2>4
  <2>6. \A x \in fresh : x = alert(x.code)
    OBVIOUS
  <2>7. \A i, j \in DOMAIN opened : opened[i].code = opened[j].code => i = j
    BY <2>4, <2>5, <2>6, ZenonT(60)
  <2>8. opened \in Seq(Alert)
    BY <2>3, <2>4
  <2>9. \A i \in DOMAIN opened : \E c \in missing : opened[i] = alert(c)
    BY <2>5
  <2>10. \A c \in missing : \E i \in DOMAIN opened : opened[i] = alert(c)
    <3>1. \A c \in missing : alert(c) \in fresh
      OBVIOUS
    <3> HIDE DEF fresh
    <3> QED
      BY <2>4, <3>1
  <2> QED
    BY <2>7, <2>8, <2>9, <2>10
<1>3. inbox2 = kept \o opened
  BY DEF Synchronized
<1> HIDE DEF kept, opened, inbox2
<1>4. /\ inbox2 \in Seq(Alert) /\ DOMAIN inbox2 = 1..(Len(inbox) + Len(opened))
      /\ Len(inbox) \in Nat /\ Len(opened) \in Nat
      /\ DOMAIN inbox = 1..Len(inbox) /\ DOMAIN opened = 1..Len(opened)
      /\ \A k \in DOMAIN inbox : inbox2[k] = kept[k]
      /\ \A i \in DOMAIN opened : inbox2[Len(inbox) + i] = opened[i]
  <2>1. \A a, b \in Seq(Alert) :
          /\ a \o b \in Seq(Alert) /\ Len(a) \in Nat /\ Len(b) \in Nat
          /\ DOMAIN a = 1..Len(a) /\ DOMAIN b = 1..Len(b)
          /\ DOMAIN (a \o b) = 1..(Len(a) + Len(b))
          /\ \A k \in DOMAIN a : (a \o b)[k] = a[k]
          /\ \A i \in DOMAIN b : (a \o b)[Len(a) + i] = b[i]
    OBVIOUS
  <2>2. kept \in Seq(Alert) /\ opened \in Seq(Alert) /\ DOMAIN kept = DOMAIN inbox /\ Len(kept) = Len(inbox)
    BY <1>1, <1>2
  <2>3. /\ inbox2 \in Seq(Alert) /\ Len(kept) \in Nat /\ Len(opened) \in Nat
        /\ DOMAIN kept = 1..Len(kept) /\ DOMAIN opened = 1..Len(opened)
        /\ DOMAIN inbox2 = 1..(Len(kept) + Len(opened))
        /\ \A k \in DOMAIN kept : inbox2[k] = kept[k]
        /\ \A i \in DOMAIN opened : inbox2[Len(kept) + i] = opened[i]
    BY <1>3, <2>1, <2>2, Zenon
  <2> QED
    BY <2>2, <2>3, Zenon
<1>5. ASSUME NEW k \in DOMAIN inbox2
      PROVE  \/ k \in DOMAIN inbox /\ inbox2[k] = kept[k]
             \/ /\ k - Len(inbox) \in DOMAIN opened /\ inbox2[k] = opened[k - Len(inbox)]
                /\ k = Len(inbox) + (k - Len(inbox))
  <2>1. CASE k <= Len(inbox)
    BY <1>4, <2>1
  <2>2. CASE k > Len(inbox)
    <3> DEFINE i == k - Len(inbox)
    <3>1. i \in 1..Len(opened) /\ k = Len(inbox) + i
      BY <1>4, <2>2
    <3> QED
      BY <1>4, <3>1
  <2> QED
    BY <1>4, <2>1, <2>2
<1>6. \A i \in DOMAIN opened : opened[i].scope = scope /\ opened[i].active = TRUE /\ opened[i].code \in missing
  BY <1>2
<1>7. \A s : Open(inbox2, s) = (IF s = scope THEN wanted ELSE Open(inbox, s))
  <2> SUFFICES ASSUME NEW s PROVE Open(inbox2, s) = (IF s = scope THEN wanted ELSE Open(inbox, s))
    OBVIOUS
  <2>1. \A c, b : c \in Open(b, s) <=> \E k \in DOMAIN b : b[k].scope = s /\ b[k].active /\ b[k].code = c
    BY DEF Open, ToSet
  <2>2. \A c : c \in Open(inbox2, s) <=>
           \/ \E k \in DOMAIN inbox : kept[k].scope = s /\ kept[k].active /\ kept[k].code = c
           \/ \E i \in DOMAIN opened : opened[i].scope = s /\ opened[i].active /\ opened[i].code = c
    <3> SUFFICES ASSUME NEW c
                 PROVE  c \in Open(inbox2, s) <=>
           \/ \E k \in DOMAIN inbox : kept[k].scope = s /\ kept[k].active /\ kept[k].code = c
           \/ \E i \in DOMAIN opened : opened[i].scope = s /\ opened[i].active /\ opened[i].code = c
      OBVIOUS
    <3>1. ASSUME c \in Open(inbox2, s)
          PROVE  \/ \E k \in DOMAIN inbox : kept[k].scope = s /\ kept[k].active /\ kept[k].code = c
                 \/ \E i \in DOMAIN opened : opened[i].scope = s /\ opened[i].active /\ opened[i].code = c
      BY <1>5, <2>1, <3>1
    <3>2. ASSUME NEW k \in DOMAIN inbox, kept[k].scope = s /\ kept[k].active /\ kept[k].code = c
          PROVE  c \in Open(inbox2, s)
      <4>1. k \in DOMAIN inbox2
        BY <1>4
      <4> QED
        BY <1>4, <2>1, <3>2, <4>1
    <3>3. ASSUME NEW i \in DOMAIN opened, opened[i].scope = s /\ opened[i].active /\ opened[i].code = c
          PROVE  c \in Open(inbox2, s)
      <4>1. Len(inbox) + i \in DOMAIN inbox2
        BY <1>4
      <4> QED
        BY <1>4, <2>1, <3>3, <4>1
    <3> QED
      BY <3>1, <3>2, <3>3
  <2>3. CASE s = scope
    <3>1. \A c \in missing : \E i \in DOMAIN opened : opened[i].scope = s /\ opened[i].active /\ opened[i].code = c
      BY <1>2, <2>3
    <3>2. \A c : c \in Open(inbox2, s) <=> c \in wanted
      BY <1>1, <1>6, <2>1, <2>2, <2>3, <3>1
    <3> QED
      BY <2>3, <3>2
  <2>4. CASE s # scope
    <3>1. \A c : c \in Open(inbox2, s) <=> c \in Open(inbox, s)
      BY <1>1, <1>6, <2>1, <2>2, <2>4
    <3>2. Open(inbox2, s) = Open(inbox, s)
      <4>1. Open(inbox2, s) \subseteq Open(inbox, s) /\ Open(inbox, s) \subseteq Open(inbox2, s)
        BY <3>1
      <4> QED
        BY <4>1
    <3> QED
      BY <2>4, <3>2
  <2> QED
    BY <2>3, <2>4
<1>8. OneActiveEach(inbox2)
  <2> SUFFICES ASSUME NEW k \in DOMAIN inbox2, NEW l \in DOMAIN inbox2,
                      inbox2[k].active, inbox2[l].active, inbox2[k].scope = inbox2[l].scope,
                      inbox2[k].code = inbox2[l].code
               PROVE  k = l
    BY DEF OneActiveEach
  <2>1. ASSUME NEW m \in DOMAIN inbox, kept[m].active, kept[m].scope = scope
        PROVE  kept[m].code \notin missing
    BY <1>1, <2>1 DEF Open, ToSet
  <2>2. CASE k \in DOMAIN inbox /\ l \in DOMAIN inbox /\ inbox2[k] = kept[k] /\ inbox2[l] = kept[l]
    BY <1>1, <2>2 DEF OneActiveEach
  <2>3. ASSUME NEW m \in DOMAIN inbox, NEW i \in DOMAIN opened,
               kept[m].active, kept[m].scope = opened[i].scope, kept[m].code = opened[i].code
        PROVE  FALSE
    BY <1>6, <2>1, <2>3
  <2>4. CASE /\ k - Len(inbox) \in DOMAIN opened /\ inbox2[k] = opened[k - Len(inbox)]
             /\ k = Len(inbox) + (k - Len(inbox))
             /\ l - Len(inbox) \in DOMAIN opened /\ inbox2[l] = opened[l - Len(inbox)]
             /\ l = Len(inbox) + (l - Len(inbox))
    <3>1. k - Len(inbox) = l - Len(inbox)
      BY <1>2, <2>4
    <3> QED
      BY <2>4, <3>1
  <2> QED
    BY <1>5, <2>2, <2>3, <2>4
<1> QED
  BY <1>4, <1>7, <1>8 DEF inbox2

\* The conditions an input is reported for.
LEMMA ObservationsKnown ==
  ASSUME NEW revision
  PROVE  Observations(revision) \in SUBSET Codes /\ IsFiniteSet(Observations(revision))
<1>1. Observations(revision) \subseteq {"calendar", "stale"}
  BY DEF Observations
<1>2. IsFiniteSet({"calendar", "stale"})
  <2>1. IsFiniteSet({"calendar"}) /\ {"calendar", "stale"} = {"calendar"} \union {"stale"}
    BY FS_Singleton
  <2> QED
    BY <2>1, FS_AddElement, Zenon
<1> QED
  BY <1>1, <1>2, FS_Subset DEF Codes

\* The alerts of an inbox after a synchronization, without the conditions that stand.
LEMMA SynchronizedKeeps ==
  ASSUME NEW inbox \in Seq(Alert), NEW scope \in Scopes, NEW wanted \in SUBSET Codes,
         IsFiniteSet(wanted), OneActiveEach(inbox)
  PROVE  /\ Synchronized(inbox, scope, wanted) \in Seq(Alert)
         /\ OneActiveEach(Synchronized(inbox, scope, wanted))
BY SynchronizedStands, Zenon

\* An acknowledged alert stays what it was about, and active if it was.
LEMMA AcknowledgedStands ==
  ASSUME NEW inbox \in Seq(Alert), OneActiveEach(inbox), NEW k \in DOMAIN inbox, NEW after,
         after = [inbox EXCEPT ![k].acknowledged = TRUE]
  PROVE  after \in Seq(Alert) /\ OneActiveEach(after)
<1> DEFINE a == inbox[k]
           b == [a EXCEPT !.acknowledged = TRUE]
<1>1. a \in Alert
  OBVIOUS
<1>2. b \in Alert /\ b.scope = a.scope /\ b.code = a.code /\ b.active = a.active
  BY <1>1 DEF Alert
<1>3. after = [inbox EXCEPT ![k] = b]
  OBVIOUS
<1> HIDE DEF b
<1>4. after \in Seq(Alert) /\ DOMAIN after = DOMAIN inbox
  <2>1. inbox \in [1..Len(inbox) -> Alert] /\ Len(inbox) \in Nat /\ DOMAIN inbox = 1..Len(inbox)
    OBVIOUS
  <2>2. after \in [1..Len(inbox) -> Alert]
    BY <1>2, <1>3, <2>1
  <2> QED
    BY <2>1, <2>2
<1>5. \A m \in DOMAIN inbox :
        /\ after[m].scope = inbox[m].scope /\ after[m].code = inbox[m].code
        /\ after[m].active = inbox[m].active
  <2>1. \A m \in DOMAIN inbox : after[m] = IF m = k THEN b ELSE inbox[m]
    BY <1>3
  <2> QED
    BY <1>2, <2>1
<1>6. OneActiveEach(after)
  BY <1>4, <1>5 DEF OneActiveEach
<1> QED
  BY <1>4, <1>6

\* While no process is between its readiness check and its worker stage, there is no
\* claim to keep; the holder of the lock is the only one that could be.
LEMMA NotBetween ==
  ASSUME RunInv, NEW p \in Procs, lock = p \/ lock = None,
         \A q \in Procs : q # p => work'[q] = work[q], work'[p].pc # "worker"
  PROVE  ReadinessStands'
<1>1. \A q \in Procs : q # p => work'[q].pc = "idle"
  BY OthersIdle DEF Idle
<1> QED
  BY <1>1 DEF ReadinessStands

\* A step of a process, the reporting ones aside, leaves the inbox alone.
LEMMA QuietKeeps ==
  ASSUME RunInv, InboxInv, NEW p \in Procs, alerts' = alerts,
         \/ \E r \in RunIds : Begin(p, r)
         \/ Reuse(p) \/ CloseOrphan(p) \/ RefuseDirectory(p) \/ MakeDirectory(p)
         \/ Register(p) \/ Complete(p) \/ Fail(p) \/ Crash(p)
  PROVE  InboxInv'
<1>1. \A q \in Procs : q # p => work'[q] = work[q]
  BY DEF RunInv, RunShape, Begin, Reuse, CloseOrphan, RefuseDirectory, MakeDirectory,
         Register, Complete, Fail, Crash, Leave, GoTo
<1>2. lock = p \/ lock = None
  BY DEF RunInv, Informed, HoldsLock, Begin, Acquire, Reuse, CloseOrphan, RefuseDirectory,
         MakeDirectory, Register, Complete, Fail, Crash, At
<1>3. work'[p].pc # "worker"
  <2>1. ASSUME NEW r \in RunIds, Begin(p, r) PROVE work'[p].pc = "look"
    BY <2>1 DEF RunInv, RunShape, Begin
  <2>2. CASE Reuse(p) \/ RefuseDirectory(p) \/ Complete(p) \/ Crash(p)
    <3>1. work'[p] = Idle
      BY <2>2 DEF RunInv, RunShape, Reuse, RefuseDirectory, Complete, Crash, Leave
    <3> QED
      BY <3>1 DEF Idle
  <2>3. CloseOrphan(p) => work'[p].pc = "look"
    BY DEF CloseOrphan, At
  <2>4. MakeDirectory(p) => work'[p].pc = "register"
    BY DEF RunInv, RunShape, MakeDirectory, GoTo
  <2>5. Register(p) => work'[p].pc = "freeze source"
    <3>1. Register(p) => work' = [work EXCEPT ![p].pc = "freeze source"]
      BY StepList DEF Register, GoTo
    <3> QED
      BY <3>1 DEF RunInv, RunShape
  <2>6. Fail(p) => work'[p].pc = "announce"
    BY DEF RunInv, RunShape, Fail, GoTo
  <2> QED
    BY <2>1, <2>2, <2>3, <2>4, <2>5, <2>6
<1>4. ReadinessStands'
  BY <1>1, <1>2, <1>3, NotBetween
<1> QED
  BY <1>4 DEF InboxInv

\* The readiness step leaves the alerts of the input it read; the worker step clears
\* its own scope, and no other step touches the inbox.
LEMMA AdvanceReports ==
  ASSUME RunInv, InboxInv, NEW p \in Procs, Advance(p)
  PROVE  InboxInv'
<1>1. PICK k \in 1 .. Len(Steps) - 1 :
        /\ work[p].pc = Steps[k] /\ Passes(p, Steps[k])
        /\ evidence' = [evidence EXCEPT ![work[p].run] = Kept(@, Steps[k])]
        /\ alerts' = Reported(evidence[work[p].run], Steps[k])
        /\ GoTo(p, Steps[k+1])
  BY DEF Advance
<1> DEFINE s == Steps[k]
           t == Steps[k+1]
           r == work[p].run
           e == evidence[r]
<1>2. Follows(s, t)
  BY StepOrder
<1>3. s \in StepSet
  BY <1>2 DEF Follows, StepSet
<1> HIDE DEF s, t
<1>4. work[p].pc = s /\ GoTo(p, t) /\ alerts' = Reported(e, s)
      /\ evidence' = [evidence EXCEPT ![r] = Kept(@, s)]
  BY <1>1 DEF s, t
<1>5. r \in RunIds /\ lock = p
  BY <1>3, <1>4, AtWork
<1>6. /\ work'[p].pc = t /\ work'[p].run = r
      /\ \A q \in Procs : q # p => work'[q] = work[q]
  BY <1>4 DEF RunInv, RunShape, GoTo
<1>7. "readiness" \in Scopes /\ "worker" \in Scopes /\ {} \in SUBSET Codes /\ IsFiniteSet({})
  BY FS_EmptySet DEF Scopes
<1>8. alerts \in Seq(Alert) /\ OneActiveEach(alerts)
  BY DEF InboxInv
<1>9. CASE s = "readiness"
  <2> DEFINE seen == Observations(e.input)
  <2>1. seen \in SUBSET Codes /\ IsFiniteSet(seen)
    BY ObservationsKnown
  <2>2. alerts' = Synchronized(alerts, "readiness", seen)
    BY <1>4, <1>9 DEF Reported
  <2>3. evidence'[r].input = e.input
    <3>1. evidence'[r] = Kept(e, s)
      BY <1>4, <1>5 DEF RunInv, RunShape
    <3>2. Kept(e, s).input = e.input
      BY <1>9 DEF Kept
    <3> QED
      BY <3>1, <3>2
  <2> HIDE DEF seen
  <2>4. alerts' \in Seq(Alert) /\ OneActiveEach(alerts)' /\ Open(alerts', "readiness") = seen
    <3>1. /\ Synchronized(alerts, "readiness", seen) \in Seq(Alert)
          /\ OneActiveEach(Synchronized(alerts, "readiness", seen))
          /\ Open(Synchronized(alerts, "readiness", seen), "readiness") = seen
      BY <1>7, <1>8, <2>1, SynchronizedStands, ZenonT(60)
    <3> QED
      BY <2>2, <3>1
  <2>5. ReadinessStands'
    <3>1. \A q \in Procs : q # p => work'[q].pc = "idle"
      BY <1>5, <1>6, OthersIdle DEF Idle
    <3>2. \A q \in Procs, x \in RunIds : work'[q].pc = "worker" /\ work'[q].run = x => x = r
      BY <1>6, <3>1
    <3>3. Open(alerts', "readiness") = Observations(evidence'[r].input)
      BY <2>3, <2>4 DEF seen
    <3> QED
      BY <3>2, <3>3 DEF ReadinessStands
  <2> QED
    BY <2>4, <2>5 DEF InboxInv
<1>10. CASE s # "readiness"
  <2>1. t # "worker"
    BY <1>2, <1>10 DEF Follows
  <2>2. ReadinessStands'
    BY <1>5, <1>6, <2>1, NotBetween
  <2>3. alerts' \in Seq(Alert) /\ OneActiveEach(alerts)'
    <3>1. alerts' = alerts \/ alerts' = Synchronized(alerts, "worker", {})
      BY <1>4, <1>10 DEF Reported
    <3>2. Synchronized(alerts, "worker", {}) \in Seq(Alert) /\ OneActiveEach(Synchronized(alerts, "worker", {}))
      BY <1>7, <1>8, SynchronizedKeeps, Zenon
    <3> QED
      BY <1>8, <3>1, <3>2
  <2> QED
    BY <2>2, <2>3 DEF InboxInv
<1> QED
  BY <1>9, <1>10

\* A failure is announced under its own scope.
LEMMA AnnounceReports ==
  ASSUME RunInv, InboxInv, NEW p \in Procs, Announce(p)
  PROVE  InboxInv'
<1> DEFINE r == work[p].run
<1>1. r \in RunIds /\ lock = p
  BY DEF RunInv, Informed, HoldsLock, Announce, At, Idle
<1>2. work'[p].pc # "worker" /\ \A q \in Procs : q # p => work'[q] = work[q]
  BY DEF RunInv, RunShape, Announce, Leave, Idle
<1>3. {r} \in SUBSET Codes /\ IsFiniteSet({r}) /\ "worker" \in Scopes
  BY <1>1, FS_Singleton DEF Codes, Scopes
<1>4. alerts \in Seq(Alert) /\ OneActiveEach(alerts)
  BY DEF InboxInv
<1>5. Synchronized(alerts, "worker", {r}) \in Seq(Alert) /\ OneActiveEach(Synchronized(alerts, "worker", {r}))
  BY <1>3, <1>4, SynchronizedKeeps, Zenon
<1>6. alerts' \in Seq(Alert) /\ OneActiveEach(alerts)'
  BY <1>5 DEF Announce, Announced
<1>7. ReadinessStands'
  BY <1>1, <1>2, NotBetween
<1> QED
  BY <1>6, <1>7 DEF InboxInv

\* Acknowledging waits for the lock, so no run is between its steps.
LEMMA AcknowledgeReports ==
  ASSUME RunInv, InboxInv, NEW p \in Procs, Acknowledge(p)
  PROVE  InboxInv'
<1>1. PICK k \in DOMAIN alerts : alerts' = [alerts EXCEPT ![k].acknowledged = TRUE]
  BY DEF Acknowledge
<1>2. alerts \in Seq(Alert) /\ OneActiveEach(alerts)
  BY DEF InboxInv
<1>3. alerts' \in Seq(Alert) /\ OneActiveEach(alerts)'
  BY <1>1, <1>2, AcknowledgedStands
<1>4. ReadinessStands'
  BY NotBetween DEF Acknowledge, Idle
<1> QED
  BY <1>3, <1>4 DEF InboxInv

\* Every step keeps the inbox right.
LEMMA InboxKeeps == RunInv /\ InboxInv /\ [Next]_vars => InboxInv'
<1> SUFFICES ASSUME RunInv, InboxInv, [Next]_vars PROVE InboxInv'
  OBVIOUS
<1>1. CASE UNCHANGED <<work, evidence, alerts>>
  BY <1>1 DEF InboxInv, OneActiveEach, ReadinessStands
<1>2. ASSUME NEW p \in Procs,
             \/ \E r \in RunIds : Begin(p, r)
             \/ Reuse(p) \/ CloseOrphan(p) \/ RefuseDirectory(p) \/ MakeDirectory(p)
             \/ Register(p) \/ Complete(p) \/ Fail(p) \/ Crash(p)
      PROVE  InboxInv'
  <2>1. alerts' = alerts
    BY <1>2 DEF Begin, Reuse, CloseOrphan, RefuseDirectory, MakeDirectory,
                Register, Complete, Fail, Crash
  <2> QED
    BY <1>2, <2>1, QuietKeeps
<1>3. ASSUME NEW p \in Procs, Advance(p) \/ Announce(p) \/ Acknowledge(p)
      PROVE  InboxInv'
  BY <1>3, AdvanceReports, AnnounceReports, AcknowledgeReports
<1>4. EditSource \/ EditInput \/ UNCHANGED vars => UNCHANGED <<work, evidence, alerts>>
  BY DEF EditSource, EditInput, vars
<1> QED
  BY <1>1, <1>2, <1>3, <1>4 DEF Next

-----------------------------------------------------------------------------
(* Theorems. *)

\* The holder of the lock is right about the journal and its directory
\* (operations.py: the OS lock proves no other operations worker is still running).
THEOREM RunsInvariant == Spec => []RunInv
<1>1. Init => RunInv
  BY InitKeeps
<1>2. RunInv /\ [Next]_vars => RunInv'
  BY NextKeeps
<1> QED
  BY <1>1, <1>2, PTL DEF Spec

\* While a worker executes its run, no other record says RUNNING.
THEOREM OneRunAtATime == Spec => []OnlyOwnRunRuns
<1>1. RunInv => OnlyOwnRunRuns
  BY StepNames DEF RunInv, Informed, Alone, OnlyOwnRunRuns
<1> QED
  BY <1>1, RunsInvariant, PTL

\* A completed run was sealed from the revision that was tested.
THEOREM SealedIsTested == Spec => []CompletedIsOneRevision
<1>1. RunInv => CompletedIsOneRevision
  BY DEF RunInv
<1> QED
  BY <1>1, RunsInvariant, PTL

\* An identity is run once, and only what no living worker executes is interrupted.
THEOREM EachRunOnce == Spec => RunOnce
<1>1. RunInv /\ [Next]_vars => [RunOnceStep]_vars
  BY NextKeeps
<1>2. Spec => [][RunOnceStep]_vars
  BY <1>1, RunsInvariant, PTL DEF Spec
<1> QED
  BY <1>2 DEF RunOnce, RunOnceStep

\* The inbox keeps its shape, and no two active alerts are about one condition of one
\* scope (operational_store.py synchronize_alerts).
THEOREM InboxInvariant == Spec => []InboxInv
<1>1. Init => InboxInv
  BY DEF Init, InboxInv, OneActiveEach, ReadinessStands, Idle
<1>2. RunInv /\ InboxInv /\ [Next]_vars => InboxInv'
  BY InboxKeeps
<1> QED
  BY <1>1, <1>2, RunsInvariant, PTL DEF Spec

\* Between the readiness check of a run and its worker stage the readiness alerts that
\* stand are those of the input the run froze.
THEOREM ReadinessIsCurrent == Spec => []ReadinessStands
<1>1. InboxInv => ReadinessStands
  BY DEF InboxInv
<1> QED
  BY <1>1, InboxInvariant, PTL

=============================================================================
