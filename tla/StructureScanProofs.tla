------------------------ MODULE StructureScanProofs ------------------------
(* Theorems about StructureScan, for any catalogue, any number of writes,     *)
(* changes of the code, callers' events and remembered jobs.  What makes a    *)
(* scan unmixed is that versions only grow: a stock whose file has the frozen *)
(* version at the last comparison had it at both reads before.                *)
EXTENDS StructureScan, SequenceTheorems, TLAPS

Files   == UNION {[S -> Nat] : S \in SUBSET Symbols}
Readings == Symbols \X Nat \X Nat
Ended   == {"completed", "cancelled", "failed"}

JobSet == [id : Nat, params : Params \union {"none"}, status : Active \union Ended,
           frozen : Files, pc : {"loop", "read", "derive", "final", "dead"},
           left : SUBSET Symbols, seen : Nat, results : SUBSET Readings,
           failed : SUBSET Symbols]

(* These versions were on disk not later than those of v.                     *)
Past(f, v) == f \in Files /\ \A s \in DOMAIN f : f[s] <= v[s]

(* Version n of stock s was read since the versions of f were frozen.         *)
Read(f, s, n, v) == s \in DOMAIN f /\ f[s] <= n /\ n <= v[s]

(* Each stock of f has a result, failed, or is left.                          *)
Covered(f, results, failed, left) ==
  {r[1] : r \in results} \union failed \union left = DOMAIN f

(* Both readings of a result have the version of f.                           *)
Exact(f, r) == r[1] \in DOMAIN f /\ r[2] = f[r[1]] /\ r[3] = f[r[1]]

(* What a job has done when its thread is at its pc, v being on disk.         *)
Sound(j, v) ==
  /\ Past(j.frozen, v) /\ j.left \subseteq DOMAIN j.frozen
  /\ \A r \in j.results : Read(j.frozen, r[1], r[2], v) /\ Read(j.frozen, r[1], r[3], v)
  /\ (j.pc = "dead") = (j.status \in Ended)
  /\ j.pc \in {"read", "derive"} => j.left # {}
  /\ j.pc = "derive" => Read(j.frozen, Turn(j), j.seen, v)
  /\ j.pc \in {"loop", "read", "derive"} => Covered(j.frozen, j.results, j.failed, j.left)
  /\ j.pc = "final" =>
       /\ j.status = "running" => Covered(j.frozen, j.results, j.failed, {})
       /\ \A r \in j.results : r[1] \in j.left \/ Exact(j.frozen, r)
  /\ j.status = "completed" =>
       /\ Covered(j.frozen, j.results, j.failed, {})
       /\ \A r \in j.results : Exact(j.frozen, r)

SoundJobs(v) == {j \in JobSet : Sound(j, v)}

Snapshots == [version : Files, results : SUBSET Readings, failed : SUBSET Symbols, code : Nat]
Pure(x) == \A r \in x.results : Exact(x.version, r)

RefreshShape ==
  refresh \in [pc : {"idle", "asking", "entering", "polling", "saving"}, job : Nat,
               asked : Files, found : SUBSET Snapshots]

ScanInv ==
  /\ ver \in [Symbols -> Nat] /\ disk \in Nat /\ loaded \in Nat
  /\ jobs \in Seq(SoundJobs(ver))
  /\ call \in [Callers -> [params : Params \union {"none"}, frozen : Files]]
  /\ \A c \in Callers : Past(call[c].frozen, ver)
  /\ RefreshShape
  /\ \A x \in refresh.found \union stored : Pure(x)

-----------------------------------------------------------------------------
(* Versions. *)

\* Nothing is frozen by nobody.
LEMMA NothingFrozen == Unused \in Files /\ DOMAIN Unused = {}
<1>1. DOMAIN Unused = {}
  BY DEF Unused
<1>2. Unused \in [{} -> Nat]
  BY <1>1 DEF Unused
<1> QED
  BY <1>1, <1>2 DEF Files

\* What is described is on disk.
LEMMA DescribePast ==
  ASSUME ver \in [Symbols -> Nat]
  PROVE  Past(Describe, ver)
<1> DEFINE D == {x \in Symbols : ver[x] > 0}
<1>1. Describe \in [D -> Nat] /\ \A s \in D : Describe[s] = ver[s]
  BY DEF Describe
<1>2. Describe \in Files
  BY <1>1 DEF Files
<1>3. DOMAIN Describe = D
  BY <1>1
<1>4. \A s \in D : ver[s] \in Nat
  OBVIOUS
<1>5. \A s \in D : Describe[s] <= ver[s]
  BY <1>1, <1>4
<1> HIDE DEF D
<1> QED
  BY <1>2, <1>3, <1>5 DEF Past

\* A frozen version is a number of a stock of the catalogue.
LEMMA FrozenVersion ==
  ASSUME NEW f \in Files, NEW s \in DOMAIN f
  PROVE  s \in Symbols /\ f[s] \in Nat
BY DEF Files

\* The versions on disk only grow.
LEMMA PastLater ==
  ASSUME NEW v \in [Symbols -> Nat], NEW w \in [Symbols -> Nat],
         \A s \in Symbols : v[s] <= w[s]
  PROVE  /\ \A f : Past(f, v) => Past(f, w)
         /\ \A f \in Files, n \in Nat : \A s : Read(f, s, n, v) => Read(f, s, n, w)
<1>1. ASSUME NEW f, Past(f, v) PROVE Past(f, w)
  BY <1>1, FrozenVersion DEF Past
<1>2. ASSUME NEW f \in Files, NEW s, NEW n \in Nat, Read(f, s, n, v) PROVE Read(f, s, n, w)
  <2>1. s \in Symbols
    BY <1>2, FrozenVersion DEF Read
  <2> QED
    BY <1>2, <2>1 DEF Read
<1> QED
  BY <1>1, <1>2

\* A sound job stays sound while files are written.
LEMMA SoundLater ==
  ASSUME NEW v \in [Symbols -> Nat], NEW w \in [Symbols -> Nat],
         \A s \in Symbols : v[s] <= w[s]
  PROVE  SoundJobs(v) \subseteq SoundJobs(w)
<1> SUFFICES ASSUME NEW j \in SoundJobs(v) PROVE Sound(j, w)
  BY DEF SoundJobs
<1>1. j \in JobSet /\ Sound(j, v)
  BY DEF SoundJobs
<1>2. j.frozen \in Files /\ j.seen \in Nat
  BY <1>1 DEF JobSet
<1>3. \A r \in j.results : r[2] \in Nat /\ r[3] \in Nat
  BY <1>1 DEF JobSet, Readings
<1>4. Past(j.frozen, w)
  BY <1>1, PastLater DEF Sound
<1>5. \A r \in j.results : Read(j.frozen, r[1], r[2], w) /\ Read(j.frozen, r[1], r[3], w)
  BY <1>1, <1>2, <1>3, PastLater DEF Sound
<1>6. j.pc = "derive" => Read(j.frozen, Turn(j), j.seen, w)
  BY <1>1, <1>2, PastLater DEF Sound
<1> QED
  BY <1>1, <1>4, <1>5, <1>6 DEF Sound

-----------------------------------------------------------------------------
(* The steps of a job's thread. *)

\* What is known of a sound job.
LEMMA SoundJob ==
  ASSUME NEW v, NEW j \in SoundJobs(v)
  PROVE  /\ j \in JobSet /\ Sound(j, v)
         /\ j.frozen \in Files /\ DOMAIN j.frozen \subseteq Symbols
         /\ j.left \subseteq DOMAIN j.frozen
<1>1. j \in JobSet /\ Sound(j, v)
  BY DEF SoundJobs
<1>2. j.frozen \in Files
  BY <1>1 DEF JobSet
<1> QED
  BY <1>1, <1>2, FrozenVersion DEF Sound

\* Whose turn it is, is left.
LEMMA TurnIsLeft ==
  ASSUME NEW v \in [Symbols -> Nat], NEW j \in SoundJobs(v), j.left # {}
  PROVE  /\ Turn(j) \in j.left /\ Turn(j) \in DOMAIN j.frozen /\ Turn(j) \in Symbols
         /\ v[Turn(j)] \in Nat /\ j.frozen[Turn(j)] \in Nat
         /\ j.frozen[Turn(j)] <= v[Turn(j)]
<1>1. Turn(j) \in j.left
  BY DEF Turn
<1>2. Turn(j) \in DOMAIN j.frozen /\ Turn(j) \in Symbols
  BY <1>1, SoundJob
<1>3. j.frozen[Turn(j)] \in Nat
  BY <1>2, SoundJob, FrozenVersion
<1>4. j.frozen[Turn(j)] <= v[Turn(j)]
  BY <1>2, SoundJob DEF Sound, Past
<1> QED
  BY <1>1, <1>2, <1>3, <1>4

\* A new job has everything before it.
LEMMA JobStarts ==
  ASSUME NEW v, NEW f, Past(f, v), NEW p \in Params, NEW i \in Nat
  PROVE  JobRecord(i, p, f) \in SoundJobs(v)
<1> DEFINE j == JobRecord(i, p, f)
<1>1. f \in Files /\ DOMAIN f \subseteq Symbols
  BY FrozenVersion DEF Past
<1>2. j \in JobSet
  BY <1>1 DEF JobSet, JobRecord, Active, Ended
<1>3. /\ j.frozen = f /\ j.left = DOMAIN f /\ j.results = {} /\ j.failed = {}
      /\ j.pc = "loop" /\ j.status = "running"
  BY DEF JobRecord
<1>4. Covered(f, {}, {}, DOMAIN f)
  BY DEF Covered
<1>5. Sound(j, v)
  BY <1>3, <1>4 DEF Sound, Ended
<1> QED
  BY <1>2, <1>5 DEF SoundJobs

\* A job that failed promises nothing.
LEMMA JobFails ==
  ASSUME NEW v, NEW j \in SoundJobs(v)
  PROVE  Failed(j) \in SoundJobs(v)
<1> DEFINE k == Failed(j)
<1>1. /\ k.frozen = j.frozen /\ k.left = {} /\ k.results = {} /\ k.pc = "dead"
      /\ k.status = "failed"
  BY SoundJob DEF Failed, JobSet
<1>2. k \in JobSet
  <2>1. {} \in SUBSET Symbols /\ {} \in SUBSET Readings /\ "failed" \in Active \union Ended
    BY DEF Ended
  <2>2. j \in JobSet
    BY SoundJob
  <2> QED
    BY <2>1, <2>2 DEF Failed, JobSet
<1>3. Past(j.frozen, v)
  BY SoundJob DEF Sound
<1>4. Sound(k, v)
  BY <1>1, <1>3 DEF Sound, Ended
<1> QED
  BY <1>2, <1>4 DEF SoundJobs

\* A stock passed over is covered by the failures.
LEMMA JobSkips ==
  ASSUME NEW v \in [Symbols -> Nat], NEW j \in SoundJobs(v), j.pc \in {"read", "derive"}
  PROVE  Skipped(j, Turn(j)) \in SoundJobs(v)
<1> DEFINE s == Turn(j)
           k == Skipped(j, s)
<1>1. j.left # {}
  BY SoundJob DEF Sound
<1>2. s \in j.left /\ s \in Symbols
  BY <1>1, TurnIsLeft
<1>3. /\ k.frozen = j.frozen /\ k.left = j.left \ {s} /\ k.results = j.results
      /\ k.failed = j.failed \union {s} /\ k.pc = "loop" /\ k.status = j.status
  BY SoundJob DEF Skipped, JobSet
<1>4. k \in JobSet
  <2>1. j \in JobSet
    BY SoundJob
  <2>2. j.failed \union {s} \in SUBSET Symbols /\ j.left \ {s} \in SUBSET Symbols
    BY <1>2, <2>1 DEF JobSet
  <2> HIDE DEF s
  <2> QED
    BY <2>1, <2>2 DEF Skipped, JobSet
<1>5. Covered(j.frozen, j.results, j.failed \union {s}, j.left \ {s})
  <2>1. Covered(j.frozen, j.results, j.failed, j.left)
    BY SoundJob DEF Sound
  <2> QED
    BY <1>2, <2>1 DEF Covered
<1>6. j.status # "completed" /\ j.status \notin Ended
  BY SoundJob DEF Sound, Ended
<1>7. Sound(k, v)
  <2> HIDE DEF k, s
  <2> QED
    BY <1>3, <1>5, <1>6, SoundJob DEF Sound
<1> QED
  BY <1>4, <1>7 DEF SoundJobs

\* The head of the loop.
LEMMA JobLooks ==
  ASSUME NEW v \in [Symbols -> Nat], v = ver, NEW j \in SoundJobs(v), j.pc = "loop"
  PROVE  Look(j) \in SoundJobs(v)
<1>0. j.status \notin Ended /\ j.status \in Active /\ j.status # "completed"
  BY SoundJob DEF Sound, JobSet, Ended, Active
<1>1. CASE j.status = "cancelling" \/ j.left = {}
  <2> DEFINE k == [j EXCEPT !.pc = "final", !.left = DOMAIN j.frozen]
  <2>1. Look(j) = k
    BY <1>1, Zenon DEF Look
  <2>2. k \in JobSet
    <3>1. DOMAIN j.frozen \in SUBSET Symbols /\ j \in JobSet
      BY SoundJob
    <3> QED
      BY <3>1 DEF JobSet
  <2>3. /\ k.frozen = j.frozen /\ k.left = DOMAIN j.frozen /\ k.results = j.results
        /\ k.failed = j.failed /\ k.pc = "final" /\ k.status = j.status
    BY SoundJob DEF JobSet
  <2>4. j.status = "running" => Covered(j.frozen, j.results, j.failed, {})
    <3>1. Covered(j.frozen, j.results, j.failed, j.left)
      BY SoundJob DEF Sound
    <3> QED
      BY <1>1, <3>1
  <2>5. \A r \in j.results : r[1] \in DOMAIN j.frozen
    BY SoundJob DEF Sound, Read
  <2>6. Sound(k, v)
    <3> HIDE DEF k
    <3> QED
      BY <1>0, <2>3, <2>4, <2>5, SoundJob DEF Sound
  <2> QED
    BY <2>1, <2>2, <2>6 DEF SoundJobs
<1>2. CASE /\ ~(j.status = "cancelling" \/ j.left = {})
           /\ disk # loaded \/ ver[Turn(j)] # j.frozen[Turn(j)]
  <2>1. Look(j) = Failed(j)
    BY <1>2 DEF Look
  <2> QED
    BY <2>1, JobFails
<1>3. CASE /\ ~(j.status = "cancelling" \/ j.left = {})
           /\ ~(disk # loaded \/ ver[Turn(j)] # j.frozen[Turn(j)])
  <2> DEFINE k == [j EXCEPT !.pc = "read"]
  <2>1. Look(j) = k
    BY <1>3 DEF Look
  <2>2. k \in JobSet
    BY SoundJob DEF JobSet
  <2>3. /\ k.frozen = j.frozen /\ k.left = j.left /\ k.results = j.results
        /\ k.failed = j.failed /\ k.pc = "read" /\ k.status = j.status
    BY SoundJob DEF JobSet
  <2>4. Sound(k, v)
    <3> HIDE DEF k
    <3> QED
      BY <1>0, <1>3, <2>3, SoundJob DEF Sound
  <2> QED
    BY <2>1, <2>2, <2>4 DEF SoundJobs
<1> QED
  BY <1>1, <1>2, <1>3

\* The bars are read at what is on disk, or the stock is passed over.
LEMMA JobReadsBars ==
  ASSUME NEW v \in [Symbols -> Nat], v = ver, NEW j \in SoundJobs(v), j.pc = "read",
         NEW k \in ReadBars(j)
  PROVE  k \in SoundJobs(v)
<1>1. k = [j EXCEPT !.pc = "derive", !.seen = v[Turn(j)]] \/ k = Skipped(j, Turn(j))
  BY DEF ReadBars
<1>2. CASE k = Skipped(j, Turn(j))
  BY <1>2, JobSkips
<1>3. CASE k = [j EXCEPT !.pc = "derive", !.seen = v[Turn(j)]]
  <2>0. j.left # {} /\ j.status \notin Ended /\ j.status # "completed"
    BY SoundJob DEF Sound, Ended
  <2>1. v[Turn(j)] \in Nat /\ Turn(j) \in DOMAIN j.frozen /\ j.frozen[Turn(j)] <= v[Turn(j)]
    BY <2>0, TurnIsLeft
  <2>2. k \in JobSet
    <3>1. j \in JobSet
      BY SoundJob
    <3>2. \A n \in Nat : [j EXCEPT !.pc = "derive", !.seen = n] \in JobSet
      BY <3>1 DEF JobSet
    <3> QED
      BY <1>3, <2>1, <3>2
  <2>3. /\ k.frozen = j.frozen /\ k.left = j.left /\ k.results = j.results
        /\ k.failed = j.failed /\ k.pc = "derive" /\ k.status = j.status
        /\ k.seen = v[Turn(j)]
    BY <1>3, SoundJob DEF JobSet
  <2>4. Turn(k) = Turn(j)
    BY <2>3 DEF Turn
  <2>5. Read(k.frozen, Turn(k), k.seen, v)
    BY <2>1, <2>3, <2>4 DEF Read
  <2>6. Covered(j.frozen, j.results, j.failed, j.left)
    BY SoundJob DEF Sound
  <2>7. /\ Past(j.frozen, v) /\ j.left \subseteq DOMAIN j.frozen
        /\ \A r \in j.results : Read(j.frozen, r[1], r[2], v) /\ Read(j.frozen, r[1], r[3], v)
    BY SoundJob DEF Sound
  <2>8. Sound(k, v)
    BY <2>0, <2>3, <2>5, <2>6, <2>7 DEF Sound
  <2> QED
    BY <2>2, <2>8 DEF SoundJobs
<1> QED
  BY <1>1, <1>2, <1>3

\* The theory is read at what is on disk, or the stock is passed over.
LEMMA JobReadsTheory ==
  ASSUME NEW v \in [Symbols -> Nat], v = ver, NEW j \in SoundJobs(v), j.pc = "derive",
         NEW k \in ReadTheory(j)
  PROVE  k \in SoundJobs(v)
<1> DEFINE s == Turn(j)
           t == <<s, j.seen, v[s]>>
           done == [j EXCEPT !.pc = "loop", !.left = @ \ {s}, !.seen = 0,
                             !.results = @ \union {t}]
<1>1. k = done \/ k = Skipped(j, s)
  BY DEF ReadTheory
<1>2. CASE k = Skipped(j, s)
  BY <1>2, JobSkips
<1>3. CASE k = done
  <2>0. j.left # {} /\ j.status \notin Ended /\ j.status # "completed"
    BY SoundJob DEF Sound, Ended
  <2>1. /\ v[s] \in Nat /\ s \in DOMAIN j.frozen /\ j.frozen[s] <= v[s]
        /\ s \in Symbols /\ s \in j.left
    BY <2>0, TurnIsLeft
  <2>2. j \in JobSet /\ j.seen \in Nat /\ j.results \subseteq Readings
    BY SoundJob DEF JobSet
  <2>3. t \in Readings /\ t[1] = s /\ t[2] = j.seen /\ t[3] = v[s]
    BY <2>1, <2>2 DEF Readings
  <2>4. Read(j.frozen, t[1], t[2], v) /\ Read(j.frozen, t[1], t[3], v)
    <3>1. Read(j.frozen, s, j.seen, v)
      BY SoundJob DEF Sound
    <3> QED
      BY <2>1, <2>3, <3>1 DEF Read
  <2>5. Covered(j.frozen, j.results \union {t}, j.failed, j.left \ {s})
    <3>1. Covered(j.frozen, j.results, j.failed, j.left)
      BY SoundJob DEF Sound
    <3>2. {r[1] : r \in j.results \union {t}} = {r[1] : r \in j.results} \union {s}
      BY <2>3
    <3> HIDE DEF t, s
    <3> QED
      BY <2>1, <3>1, <3>2 DEF Covered
  <2> HIDE DEF t, s
  <2>6. /\ k.frozen = j.frozen /\ k.left = j.left \ {s} /\ k.results = j.results \union {t}
        /\ k.failed = j.failed /\ k.pc = "loop" /\ k.status = j.status
    BY <1>3, <2>2 DEF JobSet
  <2>7. k \in JobSet
    <3>1. j.left \ {s} \in SUBSET Symbols /\ j.results \union {t} \in SUBSET Readings
      BY <2>2, <2>3 DEF JobSet
    <3> QED
      BY <1>3, <2>2, <3>1 DEF JobSet
  <2>8. Sound(k, v)
    <3> HIDE DEF done
    <3> QED
      BY <2>0, <2>4, <2>5, <2>6, SoundJob DEF Sound
  <2> QED
    BY <2>7, <2>8 DEF SoundJobs
<1> QED
  BY <1>1, <1>2, <1>3

\* A reading between the frozen version and an equal one is exact.
LEMMA BetweenEquals ==
  ASSUME NEW f \in Files, NEW v \in [Symbols -> Nat], NEW r \in Readings,
         Read(f, r[1], r[2], v), Read(f, r[1], r[3], v), v[r[1]] = f[r[1]]
  PROVE  Exact(f, r)
<1>1. r[2] \in Nat /\ r[3] \in Nat /\ r[1] \in DOMAIN f
  BY DEF Readings, Read
<1>2. f[r[1]] \in Nat
  BY <1>1, FrozenVersion
<1> QED
  BY <1>1, <1>2 DEF Read, Exact

\* Once more compared, the readings of a stock are exact.
LEMMA JobRechecks ==
  ASSUME NEW v \in [Symbols -> Nat], v = ver, NEW j \in SoundJobs(v), j.pc = "final",
         j.left # {}
  PROVE  Recheck(j) \in SoundJobs(v)
<1> DEFINE s == Turn(j)
           k == [j EXCEPT !.left = @ \ {s}]
<1>1. CASE v[s] # j.frozen[s]
  <2>1. Recheck(j) = Failed(j)
    BY <1>1 DEF Recheck
  <2> QED
    BY <2>1, JobFails
<1>2. CASE v[s] = j.frozen[s]
  <2>1. Recheck(j) = k
    BY <1>2 DEF Recheck
  <2>2. j \in JobSet /\ j.frozen \in Files /\ j.results \subseteq Readings /\ s \in j.left
    BY SoundJob, TurnIsLeft DEF JobSet
  <2>3. \A r \in j.results : r[1] \in j.left \ {s} \/ Exact(j.frozen, r)
    <3> SUFFICES ASSUME NEW r \in j.results, r[1] \notin j.left \ {s}
                 PROVE  Exact(j.frozen, r)
      OBVIOUS
    <3>1. CASE r[1] = s
      <4>1. Read(j.frozen, r[1], r[2], v) /\ Read(j.frozen, r[1], r[3], v)
        BY SoundJob DEF Sound
      <4> QED
        BY <1>2, <2>2, <3>1, <4>1, BetweenEquals
    <3>2. CASE r[1] \notin j.left
      BY <3>2, SoundJob DEF Sound
    <3> QED
      BY <3>1, <3>2
  <2> HIDE DEF s
  <2>4. /\ k.frozen = j.frozen /\ k.left = j.left \ {s} /\ k.results = j.results
        /\ k.failed = j.failed /\ k.pc = "final" /\ k.status = j.status
    BY <2>2 DEF JobSet
  <2>5. k \in JobSet
    <3>1. j.left \ {s} \in SUBSET Symbols
      BY <2>2 DEF JobSet
    <3> QED
      BY <2>2, <3>1 DEF JobSet
  <2>6. j.status \notin Ended /\ j.status # "completed"
    BY SoundJob DEF Sound, Ended
  <2>7. Sound(k, v)
    <3> HIDE DEF k
    <3> QED
      BY <2>3, <2>4, <2>6, SoundJob DEF Sound
  <2> QED
    BY <2>1, <2>5, <2>7 DEF SoundJobs
<1> QED
  BY <1>1, <1>2

\* The verdict.
LEMMA JobFinishes ==
  ASSUME NEW v, NEW j \in SoundJobs(v), j.pc = "final", j.left = {}
  PROVE  Finish(j) \in SoundJobs(v)
<1> DEFINE k == Finish(j)
<1>1. j.status \in Active /\ j \in JobSet
  BY SoundJob DEF Sound, JobSet
<1>2. /\ k.frozen = j.frozen /\ k.left = j.left /\ k.results = j.results
      /\ k.failed = j.failed /\ k.pc = "dead"
      /\ k.status = IF j.status = "cancelling" THEN "cancelled" ELSE "completed"
  BY <1>1 DEF Finish, JobSet
<1>3. k \in JobSet
  BY <1>1 DEF Finish, JobSet, Ended
<1>4. k.status = "completed" => j.status = "running"
  BY <1>1, <1>2 DEF Active
<1>5. k.status \in Ended
  BY <1>2 DEF Ended
<1>6. Sound(k, v)
  <2> HIDE DEF k
  <2> QED
    BY <1>2, <1>4, <1>5, SoundJob DEF Sound
<1> QED
  BY <1>3, <1>6 DEF SoundJobs

\* Whatever a thread does next keeps its job sound.
LEMMA JobSteps ==
  ASSUME ver \in [Symbols -> Nat], NEW j \in SoundJobs(ver), NEW k \in Outcomes(j)
  PROVE  k \in SoundJobs(ver)
<1>1. CASE j.pc = "loop"
  <2>1. Outcomes(j) = {Look(j)}
    BY <1>1 DEF Outcomes
  <2> QED
    BY <1>1, <2>1, JobLooks
<1>2. CASE j.pc = "read"
  <2>1. Outcomes(j) = ReadBars(j)
    BY <1>2 DEF Outcomes
  <2> QED
    BY <1>2, <2>1, JobReadsBars
<1>3. CASE j.pc = "derive"
  <2>1. Outcomes(j) = ReadTheory(j)
    BY <1>3 DEF Outcomes
  <2> QED
    BY <1>3, <2>1, JobReadsTheory
<1>4. CASE j.pc = "final" /\ j.left # {}
  <2>1. Outcomes(j) = {Recheck(j)}
    BY <1>4 DEF Outcomes
  <2> QED
    BY <1>4, <2>1, JobRechecks
<1>5. CASE j.pc = "final" /\ j.left = {}
  <2>1. Outcomes(j) = {Finish(j)}
    BY <1>5 DEF Outcomes
  <2> QED
    BY <1>5, <2>1, JobFinishes
<1>6. CASE j.pc = "dead"
  <2>1. Outcomes(j) = {}
    BY <1>6 DEF Outcomes
  <2> QED
    BY <2>1
<1>7. j.pc \in {"loop", "read", "derive", "final", "dead"}
  BY SoundJob DEF JobSet
<1> QED
  BY <1>1, <1>2, <1>3, <1>4, <1>5, <1>6, <1>7

-----------------------------------------------------------------------------
(* The steps of the specification. *)

\* The remembered jobs of a scanner.
Scanner == ver \in [Symbols -> Nat] /\ jobs \in Seq(SoundJobs(ver))

\* The callers of start.
Calls ==
  /\ call \in [Callers -> [params : Params \union {"none"}, frozen : Files]]
  /\ \A c \in Callers : Past(call[c].frozen, ver)

\* What the refresh holds and what it published.
Publishing == RefreshShape /\ \A x \in refresh.found \union stored : Pure(x)

\* The invariant by what its parts speak of.
LEMMA Parts == ScanInv <=> Scanner /\ Calls /\ Publishing /\ disk \in Nat /\ loaded \in Nat
BY DEF ScanInv, Scanner, Calls, Publishing

\* An untouched part stays.
LEMMA Untouched ==
  /\ Scanner /\ UNCHANGED <<ver, jobs>> => Scanner'
  /\ Calls /\ UNCHANGED <<ver, call>> => Calls'
  /\ Publishing /\ UNCHANGED <<refresh, stored>> => Publishing'
  /\ disk \in Nat /\ UNCHANGED disk => disk' \in Nat
  /\ loaded \in Nat /\ UNCHANGED loaded => loaded' \in Nat
<1>1. Scanner /\ UNCHANGED <<ver, jobs>> => Scanner'
  BY DEF Scanner, SoundJobs, Sound, Past, Read
<1>2. Calls /\ UNCHANGED <<ver, call>> => Calls'
  BY DEF Calls, Past
<1>3. Publishing /\ UNCHANGED <<refresh, stored>> => Publishing'
  BY DEF Publishing, RefreshShape
<1> QED
  BY <1>1, <1>2, <1>3

\* A job of the scanner.
LEMMA RememberedJob ==
  ASSUME Scanner, NEW k \in DOMAIN jobs
  PROVE  jobs[k] \in SoundJobs(ver)
<1>1. jobs \in Seq(SoundJobs(ver)) /\ k \in 1 .. Len(jobs)
  BY DEF Scanner
<1> QED
  BY <1>1, ElementOfSeq

\* Exchanging one job for a sound one.
LEMMA JobExchanged ==
  ASSUME Scanner, NEW k \in DOMAIN jobs, NEW j \in SoundJobs(ver), UNCHANGED ver,
         jobs' = [jobs EXCEPT ![k] = j]
  PROVE  Scanner'
<1>1. jobs \in Seq(SoundJobs(ver)) /\ k \in 1 .. Len(jobs)
  BY DEF Scanner
<1>2. jobs' \in Seq(SoundJobs(ver))
  BY <1>1, ExceptSeq
<1>3. SoundJobs(ver)' = SoundJobs(ver)
  BY DEF SoundJobs, Sound, Past, Read
<1> QED
  BY <1>2, <1>3 DEF Scanner

\* The oldest jobs leave, the others stay as they are.
LEMMA OthersRemembered ==
  ASSUME NEW S, NEW js \in Seq(S)
  PROVE  Evicted(js) \in Seq(S)
<1>1. CASE Len(js) < JobLimit
  BY <1>1 DEF Evicted
<1>2. CASE ~(Len(js) < JobLimit)
  <2> DEFINE m == Len(js) - JobLimit + 2
  <2>1. m \in Int /\ Len(js) \in Int /\ m >= 1
    BY <1>2, ScanAssumption
  <2>2. \A i \in m .. Len(js) : js[i] \in S
    BY <2>1
  <2>3. SubSeq(js, m, Len(js)) \in Seq(S)
    BY <2>1, <2>2, SubSeqProperties
  <2> QED
    BY <1>2, <2>3 DEF Evicted
<1> QED
  BY <1>1, <1>2

\* Freezing keeps the calls.
LEMMA FreezeCalls ==
  ASSUME Scanner, Calls, UNCHANGED ver, NEW c \in Callers, NEW p \in Params, Freeze(c, p)
  PROVE  Calls'
<1>1. Past(Describe, ver)
  BY DescribePast DEF Scanner
<1>2. Describe \in Files
  BY <1>1 DEF Past
<1> DEFINE e == [params |-> p, frozen |-> Describe]
<1>3. call' = [call EXCEPT ![c] = e]
  BY DEF Freeze
<1>4. e \in [params : Params \union {"none"}, frozen : Files]
  BY <1>2
<1>5. e.frozen = Describe
  OBVIOUS
<1> HIDE DEF e
<1>6. call' \in [Callers -> [params : Params \union {"none"}, frozen : Files]]
  BY <1>3, <1>4 DEF Calls
<1>7. \A d \in Callers : call'[d] = IF d = c THEN e ELSE call[d]
  BY <1>3 DEF Calls
<1>8. \A d \in Callers : Past(call'[d].frozen, ver)
  BY <1>1, <1>5, <1>7 DEF Calls
<1>9. \A d \in Callers : Past(call'[d].frozen, ver')
  BY <1>8
<1> QED
  BY <1>6, <1>9 DEF Calls

\* Admission keeps the calls and the jobs.
LEMMA AdmitKeeps ==
  ASSUME Scanner, Calls, UNCHANGED ver, NEW c \in Callers, NEW got \in Nat, Admit(c, got)
  PROVE  Scanner' /\ Calls'
<1>1. Calls'
  <2> DEFINE e == [params |-> "none", frozen |-> Unused]
  <2>1. call' = [call EXCEPT ![c] = e]
    BY DEF Admit
  <2>2. e \in [params : Params \union {"none"}, frozen : Files]
    BY NothingFrozen
  <2>3. Past(e.frozen, ver)
    BY NothingFrozen DEF Past
  <2> HIDE DEF e
  <2>4. call' \in [Callers -> [params : Params \union {"none"}, frozen : Files]]
    BY <2>1, <2>2 DEF Calls
  <2>5. \A d \in Callers : call'[d] = IF d = c THEN e ELSE call[d]
    BY <2>1 DEF Calls
  <2>6. \A d \in Callers : Past(call'[d].frozen, ver)
    BY <2>3, <2>5 DEF Calls
  <2>7. \A d \in Callers : Past(call'[d].frozen, ver')
    BY <2>6
  <2> QED
    BY <2>4, <2>7 DEF Calls
<1>2. Scanner'
  <2> DEFINE p == call[c].params
             j == JobRecord(got, p, call[c].frozen)
  <2>1. jobs' = jobs \/ jobs' = Append(Evicted(jobs), j)
    BY DEF Admit
  <2>2. CASE jobs' = jobs
    BY <2>2, Untouched
  <2>3. CASE jobs' = Append(Evicted(jobs), j)
    <3>1. p \in Params /\ Past(call[c].frozen, ver)
      BY DEF Admit, Calls
    <3>2. j \in SoundJobs(ver)
      BY <3>1, JobStarts
    <3>3. Evicted(jobs) \in Seq(SoundJobs(ver))
      BY OthersRemembered DEF Scanner
    <3> HIDE DEF j
    <3>4. jobs' \in Seq(SoundJobs(ver))
      BY <2>3, <3>2, <3>3, AppendProperties
    <3>5. SoundJobs(ver)' = SoundJobs(ver)
      BY DEF SoundJobs, Sound, Past, Read
    <3> QED
      BY <3>4, <3>5 DEF Scanner
  <2> QED
    BY <2>1, <2>2, <2>3
<1> QED
  BY <1>1, <1>2

\* A refresh at rest holds nothing.
LEMMA IdleShape ==
  /\ Idle \in [pc : {"idle", "asking", "entering", "polling", "saving"}, job : Nat,
               asked : Files, found : SUBSET Snapshots]
  /\ Idle.found = {}
BY NothingFrozen DEF Idle, NoJob

\* The refresh goes on to ask, to wait or to rest.
LEMMA RefreshMoves ==
  ASSUME Publishing, UNCHANGED stored, NEW n \in Nat,
         \/ refresh' = Idle
         \/ Past(Describe, ver) /\ refresh' = [Idle EXCEPT !.pc = "asking", !.asked = Describe]
         \/ refresh' = [refresh EXCEPT !.pc = "entering"]
         \/ refresh' = [refresh EXCEPT !.pc = "polling", !.job = n]
  PROVE  Publishing'
<1>1. RefreshShape' /\ refresh'.found \subseteq refresh.found
  <2>1. CASE refresh' = Idle
    BY <2>1, IdleShape DEF RefreshShape
  <2>2. CASE Past(Describe, ver) /\ refresh' = [Idle EXCEPT !.pc = "asking", !.asked = Describe]
    <3>1. Describe \in Files
      BY <2>2 DEF Past
    <3> QED
      BY <2>2, <3>1, IdleShape DEF RefreshShape
  <2>3. CASE refresh' = [refresh EXCEPT !.pc = "entering"]
    BY <2>3 DEF Publishing, RefreshShape
  <2>4. CASE refresh' = [refresh EXCEPT !.pc = "polling", !.job = n]
    BY <2>4 DEF Publishing, RefreshShape
  <2> QED
    BY <2>1, <2>2, <2>3, <2>4
<1> QED
  BY <1>1 DEF Publishing

\* A usable job makes a pure snapshot: it was exact for what it froze, and what
\* it froze is what was asked for.
LEMMA UsableIsPure ==
  ASSUME RefreshShape, loaded \in Nat, NEW j \in SoundJobs(ver), Usable(j)
  PROVE  Snapshot(j) \in Snapshots /\ Pure(Snapshot(j))
<1>1. j \in JobSet /\ j.results \in SUBSET Readings /\ j.failed \in SUBSET Symbols
  BY SoundJob DEF JobSet
<1>2. refresh.asked \in Files
  BY DEF RefreshShape
<1>3. Snapshot(j) \in Snapshots
  BY <1>1, <1>2 DEF Snapshot, Snapshots
<1>4. \A r \in j.results : Exact(j.frozen, r)
  BY SoundJob DEF Sound, Usable
<1>5. Pure(Snapshot(j))
  BY <1>4 DEF Pure, Snapshot, Usable
<1> QED
  BY <1>3, <1>5

\* The refresh takes a result.
LEMMA PollKeeps ==
  ASSUME Scanner, Publishing, loaded \in Nat, RefreshPolls
  PROVE  Publishing'
<1>1. UNCHANGED stored
  BY DEF RefreshPolls
<1>2. CASE refresh' = Idle
  BY <1>1, <1>2, RefreshMoves
<1>3. ASSUME NEW j \in Find(jobs, refresh.job), Usable(j),
             refresh' = [Idle EXCEPT !.pc = "saving", !.found = {Snapshot(j)}]
      PROVE  Publishing'
  <2>1. j \in SoundJobs(ver)
    BY <1>3, RememberedJob DEF Find, ToSet
  <2>2. Snapshot(j) \in Snapshots /\ Pure(Snapshot(j))
    BY <1>3, <2>1, UsableIsPure DEF Publishing
  <2>3. RefreshShape' /\ refresh'.found = {Snapshot(j)}
    BY <1>3, <2>2, IdleShape DEF RefreshShape
  <2> QED
    BY <1>1, <2>2, <2>3 DEF Publishing
<1> QED
  BY <1>2, <1>3, Zenon DEF RefreshPolls

\* What is saved is what was taken.
LEMMA SaveKeeps ==
  ASSUME Publishing, RefreshSaves
  PROVE  Publishing'
<1> DEFINE n == Max({0} \union {y.at : y \in stored}) + 1
<1>1. PICK x \in refresh.found : stored' \subseteq stored \union {Row(x, n)}
  BY DEF RefreshSaves
<1>2. Pure(x)
  BY DEF Publishing
<1> HIDE DEF n
<1>3. Pure(Row(x, n))
  BY <1>2 DEF Pure, Row
<1>4. refresh' = Idle
  BY DEF RefreshSaves
<1>5. RefreshShape' /\ refresh'.found = {}
  BY <1>4, IdleShape DEF RefreshShape
<1> QED
  BY <1>1, <1>3, <1>5 DEF Publishing

\* A new process starts with nothing remembered.
LEMMA RestartKeeps ==
  ASSUME ScanInv, Restarted
  PROVE  ScanInv'
<1>1. /\ ver' = ver /\ disk' = disk /\ stored' = stored /\ loaded' = disk
      /\ jobs' = << >> /\ call' = NobodyCalls /\ refresh' = Idle
  BY DEF Restarted
<1>2. Scanner'
  BY <1>1, Parts DEF Scanner
<1>3. Calls'
  <2>1. NobodyCalls \in [Callers -> [params : Params \union {"none"}, frozen : Files]]
    BY NothingFrozen DEF NobodyCalls
  <2>2. \A c \in Callers : NobodyCalls[c].frozen = Unused
    BY DEF NobodyCalls
  <2>3. Past(Unused, ver')
    BY NothingFrozen DEF Past
  <2> QED
    BY <1>1, <2>1, <2>2, <2>3 DEF Calls
<1>4. Publishing'
  BY <1>1, Parts, RefreshMoves
<1> QED
  BY <1>1, <1>2, <1>3, <1>4, Parts DEF ScanInv, Scanner, Calls, Publishing

\* A file that is written gets a later version.
LEMMA WriteKeeps ==
  ASSUME ScanInv, NEW s \in Symbols, FileWritten(s)
  PROVE  ScanInv'
<1>1. /\ ver' = [ver EXCEPT ![s] = @ + 1]
      /\ UNCHANGED <<disk, loaded, jobs, call, refresh, stored>>
  BY DEF FileWritten
<1>2. ver \in [Symbols -> Nat] /\ ver' \in [Symbols -> Nat]
  BY <1>1 DEF ScanInv
<1>3. \A x \in Symbols : ver[x] <= ver'[x]
  BY <1>1, <1>2
<1>4. SoundJobs(ver) \subseteq SoundJobs(ver')
  BY <1>2, <1>3, SoundLater
<1>5. jobs' \in Seq(SoundJobs(ver'))
  BY <1>1, <1>4, SeqMonotonic DEF ScanInv
<1>6. \A c \in Callers : Past(call'[c].frozen, ver')
  BY <1>1, <1>2, <1>3, PastLater DEF ScanInv
<1> QED
  BY <1>1, <1>2, <1>5, <1>6 DEF ScanInv, RefreshShape

\* The parts together.
LEMMA Joined ==
  ASSUME Scanner', Calls', Publishing', disk' \in Nat, loaded' \in Nat
  PROVE  ScanInv'
BY DEF ScanInv, Scanner, Calls, Publishing

\* A cancelled job is as sound as the running one.
LEMMA CancelledIsSound ==
  ASSUME NEW v, NEW j \in SoundJobs(v), j.status = "running"
  PROVE  [j EXCEPT !.status = "cancelling"] \in SoundJobs(v)
<1> DEFINE k == [j EXCEPT !.status = "cancelling"]
<1>1. /\ k.frozen = j.frozen /\ k.left = j.left /\ k.results = j.results
      /\ k.failed = j.failed /\ k.pc = j.pc /\ k.seen = j.seen /\ k.status = "cancelling"
  BY SoundJob DEF JobSet
<1>2. k \in JobSet
  BY SoundJob DEF JobSet, Active
<1>3. Turn(k) = Turn(j)
  BY <1>1 DEF Turn
<1>4. j.status \notin Ended /\ k.status \notin Ended
  BY <1>1 DEF Ended
<1>5. Sound(k, v)
  <2> HIDE DEF k
  <2> QED
    BY <1>1, <1>3, <1>4, SoundJob DEF Sound
<1> QED
  BY <1>2, <1>5 DEF SoundJobs

\* Every step keeps the invariant.
LEMMA NextKeeps == ScanInv /\ [Next]_vars => ScanInv'
<1> SUFFICES ASSUME ScanInv, [Next]_vars PROVE ScanInv'
  OBVIOUS
<1>0. Scanner /\ Calls /\ Publishing /\ disk \in Nat /\ loaded \in Nat
  BY Parts
<1>1. CASE Work
  <2>1. PICK k \in DOMAIN jobs : \E j \in Outcomes(jobs[k]) : jobs' = [jobs EXCEPT ![k] = j]
    BY <1>1 DEF Work
  <2>5. PICK j \in Outcomes(jobs[k]) : jobs' = [jobs EXCEPT ![k] = j]
    BY <2>1
  <2>2. UNCHANGED <<ver, disk, loaded, call, refresh, stored>>
    BY <1>1 DEF Work
  <2>3. j \in SoundJobs(ver)
    BY <1>0, RememberedJob, JobSteps DEF Scanner
  <2>4. Scanner'
    BY <1>0, <2>2, <2>3, <2>5, JobExchanged
  <2> QED
    BY <1>0, <2>2, <2>4, Untouched, Joined
<1>2. CASE Cancel
  <2>1. PICK k \in DOMAIN jobs :
          /\ jobs[k].status = "running"
          /\ jobs' = [jobs EXCEPT ![k].status = "cancelling"]
    BY <1>2 DEF Cancel
  <2>2. UNCHANGED <<ver, disk, loaded, call, refresh, stored>>
    BY <1>2 DEF Cancel
  <2>3. [jobs[k] EXCEPT !.status = "cancelling"] \in SoundJobs(ver)
    BY <1>0, <2>1, RememberedJob, CancelledIsSound
  <2>4. Scanner'
    BY <1>0, <2>1, <2>2, <2>3, JobExchanged
  <2> QED
    BY <1>0, <2>2, <2>4, Untouched, Joined
<1>3. CASE ClientAsks
  <2>1. UNCHANGED <<ver, disk, loaded, jobs, refresh, stored>>
    BY <1>3 DEF ClientAsks
  <2>2. "client" \in Callers
    BY DEF Callers
  <2>3. Calls'
    BY <1>0, <1>3, <2>1, <2>2, FreezeCalls DEF ClientAsks
  <2> QED
    BY <1>0, <2>1, <2>3, Untouched, Joined
<1>4. Ids \union {NoJob} \subseteq Nat
  BY ScanAssumption DEF Ids, NoJob
<1>5. CASE ClientEnters
  <2>1. UNCHANGED <<ver, disk, loaded, refresh, stored>>
    BY <1>5 DEF ClientEnters
  <2>2. "client" \in Callers
    BY DEF Callers
  <2>3. Scanner' /\ Calls'
    BY <1>0, <1>4, <1>5, <2>1, <2>2, AdmitKeeps DEF ClientEnters
  <2> QED
    BY <1>0, <2>1, <2>3, Untouched, Joined
<1>6. CASE RefreshBegins
  <2>1. UNCHANGED <<ver, disk, loaded, jobs, call, stored>>
    BY <1>6 DEF RefreshBegins
  <2>2. Past(Describe, ver)
    BY <1>0, DescribePast DEF Scanner
  <2>3. Publishing'
    BY <1>0, <1>6, <2>1, <2>2, RefreshMoves DEF RefreshBegins
  <2> QED
    BY <1>0, <2>1, <2>3, Untouched, Joined
<1>7. CASE RefreshAsks
  <2>1. UNCHANGED <<ver, disk, loaded, jobs, stored>>
    BY <1>7 DEF RefreshAsks
  <2>2. "refresh" \in Callers /\ "market" \in Params
    BY DEF Callers, Params
  <2>3. Calls'
    BY <1>0, <1>7, <2>1, <2>2, FreezeCalls DEF RefreshAsks
  <2>4. Publishing'
    BY <1>0, <1>7, <2>1, RefreshMoves DEF RefreshAsks
  <2> QED
    BY <1>0, <2>1, <2>3, <2>4, Untouched, Joined
<1>8. CASE RefreshEnters
  <2>1. UNCHANGED <<ver, disk, loaded, stored>>
    BY <1>8 DEF RefreshEnters
  <2>2. PICK got \in Nat :
          /\ Admit("refresh", got)
          /\ refresh' = IF got = NoJob THEN Idle
                        ELSE [refresh EXCEPT !.pc = "polling", !.job = got]
    BY <1>4, <1>8 DEF RefreshEnters
  <2>3. "refresh" \in Callers
    BY DEF Callers
  <2>4. Scanner' /\ Calls'
    BY <1>0, <2>1, <2>2, <2>3, AdmitKeeps
  <2>5. Publishing'
    BY <1>0, <2>1, <2>2, RefreshMoves
  <2> QED
    BY <1>0, <2>1, <2>4, <2>5, Untouched, Joined
<1>9. CASE RefreshPolls
  <2>1. UNCHANGED <<ver, disk, loaded, jobs, call>>
    BY <1>9 DEF RefreshPolls
  <2>2. Publishing'
    BY <1>0, <1>9, PollKeeps
  <2> QED
    BY <1>0, <2>1, <2>2, Untouched, Joined
<1>10. CASE RefreshSaves
  <2>1. UNCHANGED <<ver, disk, loaded, jobs, call>>
    BY <1>10 DEF RefreshSaves
  <2>2. Publishing'
    BY <1>0, <1>10, SaveKeeps
  <2> QED
    BY <1>0, <2>1, <2>2, Untouched, Joined
<1>11. CASE RefreshRefused
  <2>1. UNCHANGED <<ver, disk, loaded, jobs, call, stored>> /\ refresh' = Idle
    BY <1>11 DEF RefreshRefused
  <2>2. Publishing'
    BY <1>0, <2>1, RefreshMoves
  <2> QED
    BY <1>0, <2>1, <2>2, Untouched, Joined
<1>12. CASE \E s \in Symbols : FileWritten(s)
  BY <1>12, WriteKeeps
<1>13. CASE CodeChanges
  <2>1. UNCHANGED <<ver, loaded, jobs, call, refresh, stored>> /\ disk' = disk + 1
    BY <1>13 DEF CodeChanges
  <2>2. disk' \in Nat
    BY <1>0, <2>1
  <2> QED
    BY <1>0, <2>1, <2>2, Untouched, Joined
<1>14. CASE Crash \/ Redeploy
  BY <1>14, RestartKeeps DEF Crash, Redeploy
<1>15. CASE UNCHANGED vars
  <2>1. UNCHANGED <<ver, disk, loaded, jobs, call, refresh, stored>>
    BY <1>15 DEF vars
  <2> QED
    BY <1>0, <2>1, Untouched, Joined
<1> QED
  BY <1>1, <1>2, <1>3, <1>5, <1>6, <1>7, <1>8, <1>9, <1>10, <1>11, <1>12, <1>13, <1>14,
     <1>15 DEF Next

\* It holds at first.
LEMMA InitKeeps == Init => ScanInv
<1> SUFFICES ASSUME Init PROVE ScanInv
  OBVIOUS
<1>1. ver \in [Symbols -> Nat] /\ disk \in Nat /\ loaded \in Nat
  BY DEF Init
<1>2. jobs \in Seq(SoundJobs(ver))
  BY DEF Init
<1>3. Calls
  <2>1. NobodyCalls \in [Callers -> [params : Params \union {"none"}, frozen : Files]]
    BY NothingFrozen DEF NobodyCalls
  <2>2. \A c \in Callers : NobodyCalls[c].frozen = Unused
    BY DEF NobodyCalls
  <2>3. Past(Unused, ver)
    BY NothingFrozen DEF Past
  <2> QED
    BY <2>1, <2>2, <2>3 DEF Calls, Init
<1>4. Publishing
  BY IdleShape DEF Publishing, RefreshShape, Init
<1> QED
  BY <1>1, <1>2, <1>3, <1>4, Parts DEF Scanner

-----------------------------------------------------------------------------
(* The theorems. *)

\* What the jobs, the callers and the refresh know of the versions on disk is
\* kept by every step.
THEOREM ScanInvariant == Spec => []ScanInv
<1>1. Init => ScanInv
  BY InitKeeps
<1>2. ScanInv /\ [Next]_vars => ScanInv'
  BY NextKeeps
<1> QED
  BY <1>1, <1>2, PTL DEF Spec

\* A completed job is one market state, whatever is written while it reads.
THEOREM ScanIsOneState == Spec => []CompletedIsUnmixed
<1>1. ScanInv => CompletedIsUnmixed
  <2> SUFFICES ASSUME ScanInv, NEW j \in ToSet(jobs), j.status = "completed"
               PROVE  /\ {r[1] : r \in j.results} \union j.failed = DOMAIN j.frozen
                      /\ \A r \in j.results : r[2] = j.frozen[r[1]] /\ r[3] = j.frozen[r[1]]
    BY DEF CompletedIsUnmixed
  <2>1. j \in SoundJobs(ver)
    BY Parts, RememberedJob DEF ToSet
  <2>2. Covered(j.frozen, j.results, j.failed, {}) /\ \A r \in j.results : Exact(j.frozen, r)
    BY <2>1, SoundJob DEF Sound
  <2> QED
    BY <2>2 DEF Covered, Exact
<1> QED
  BY <1>1, ScanInvariant, PTL

\* A published snapshot is the content it is named for.
THEOREM SnapshotIsItsVersion == Spec => []PublishedIsPure
<1>1. ScanInv => PublishedIsPure
  BY DEF ScanInv, PublishedIsPure, Pure, Exact
<1> QED
  BY <1>1, ScanInvariant, PTL
=============================================================================
