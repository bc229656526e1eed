---------------------------- MODULE RouteProofs ----------------------------
(***************************************************************************)
(* Theorems about routes: the garbage collection of old ones, for any      *)
(* number of workers and rows; the arbitrage scanner, for any graph; and   *)
(* the quotes and the search they are made of, for any finite set of       *)
(* chains and assets, any prices, depths, fees and amounts.                *)
(*                                                                         *)
(* The provers have no induction rule for the recursive functions of the   *)
(* models.  Each is unfolded once (IterationExists) and what holds of its  *)
(* steps is shown for a least counterexample (UpFromZero).                 *)
(***************************************************************************)
EXTENDS RouteArchive, RoutePlanner, FiniteSetTheorems, TLAPS

\* The states of a worker, by type.
Phases  == {"Start", "Batch", "Delete", "Pause", "Sleep"}
Workers == [phase : Phases, stale : SUBSET Rows, picked : SUBSET Rows,
            alone : BOOLEAN, slept : Nat]

ArchiveTypes ==
  /\ age \in [Rows -> Int \cup {Absent}]
  /\ worker \in [Engines -> Workers]
  /\ failures \in Nat

\* What a worker is about to delete was past the retention when its pass
\* started, and has not become younger.
StaleIsExpired ==
  \A n \in Engines :
    /\ worker[n].picked \subseteq worker[n].stale
    /\ \A r \in worker[n].stale : age[r] # Absent => age[r] > Retention

\* The rows of a batch are there until they are deleted, unless another worker
\* deletes some; and a short batch is all that is left.
BatchIsThere(w) ==
  w.phase = "Delete" /\ w.alone =>
    /\ w.picked \subseteq Present(w.stale)
    /\ Cardinality(w.picked) < BatchSize => w.picked = Present(w.stale)

BatchesAreThere == \A n \in Engines : BatchIsThere(worker[n])

\* The invariant of the collector.
ArchiveInv == ArchiveTypes /\ StaleIsExpired /\ BatchesAreThere

-----------------------------------------------------------------------------
\* The initial states satisfy the invariant.
LEMMA InitArchiveInv == ArchiveInit => ArchiveInv
<1> SUFFICES ASSUME ArchiveInit PROVE ArchiveInv
  OBVIOUS
<1>1. Begin \in Workers /\ Begin.phase = "Start" /\ Begin.stale = {} /\ Begin.picked = {}
  BY DEF Begin, Worker, Workers, Phases
<1>2. ArchiveTypes
  BY <1>1, ArchiveAssumption DEF ArchiveInit, ArchiveTypes
<1> QED BY <1>1, <1>2 DEF ArchiveInit, ArchiveInv, StaleIsExpired, BatchesAreThere, BatchIsThere

\* One worker moves on, and the table stays as it is.
LEMMA WorkerStep ==
  ASSUME ArchiveInv, NEW n \in Engines, NEW w \in Workers,
         w.picked \subseteq w.stale,
         w.stale \subseteq worker[n].stale \cup Expired,
         BatchIsThere(w),
         worker' = [worker EXCEPT ![n] = w], age' = age, failures' \in Nat
  PROVE  ArchiveInv'
<1>1. worker' \in [Engines -> Workers] /\ \A m \in Engines : worker'[m] = IF m = n THEN w ELSE worker[m]
  BY DEF ArchiveInv, ArchiveTypes
<1>2. ArchiveTypes'
  BY <1>1 DEF ArchiveInv, ArchiveTypes
<1>3. StaleIsExpired'
  BY <1>1 DEF ArchiveInv, StaleIsExpired, Expired
<1>4. \A rows : Present(rows)' = Present(rows)
  BY DEF Present
<1>5. BatchesAreThere'
  BY <1>1, <1>4 DEF ArchiveInv, BatchesAreThere, BatchIsThere
<1> QED BY <1>2, <1>3, <1>5 DEF ArchiveInv

\* The workers of a pass that ends, pauses, resumes or starts anew.
LEMMA QuietWorkers ==
  ASSUME ArchiveTypes, NEW n \in Engines
  PROVE  /\ Begin \in Workers /\ Begin.phase = "Start"
         /\ Begin.stale = {} /\ Begin.picked = {}
         /\ Asleep(n) \in Workers /\ Asleep(n).phase = "Sleep"
         /\ Asleep(n).stale = worker[n].stale /\ Asleep(n).picked = {}
  BY DEF Begin, Asleep, Worker, Workers, Phases, ArchiveTypes

\* Every step keeps the invariant.
LEMMA StepArchiveInv == ArchiveInv /\ [ArchiveNext]_archive => ArchiveInv'
<1> SUFFICES ASSUME ArchiveInv, [ArchiveNext]_archive PROVE ArchiveInv'
  OBVIOUS
<1> USE DEF Phases
<1>0. ArchiveTypes /\ failures \in Nat /\ \A n \in Engines : worker[n] \in Workers
  BY DEF ArchiveInv, ArchiveTypes
<1>1. CASE UNCHANGED archive
  BY <1>1 DEF archive, ArchiveInv, ArchiveTypes, StaleIsExpired, BatchesAreThere, BatchIsThere, Present
<1>2. ASSUME NEW n \in Engines, StartPass(n) PROVE ArchiveInv'
  <2> DEFINE w == Worker("Batch", Expired, {}, TRUE, 0)
  <2>1. w \in Workers /\ w.phase = "Batch" /\ w.stale = Expired /\ w.picked = {}
    BY DEF Worker, Workers, Expired, Present
  <2>2. worker' = [worker EXCEPT ![n] = w] /\ age' = age /\ failures' \in Nat
    BY <1>0, <1>2 DEF StartPass
  <2> HIDE DEF w
  <2> QED BY <2>1, <2>2, WorkerStep DEF BatchIsThere
<1>3. ASSUME NEW n \in Engines, Pick(n) PROVE ArchiveInv'
  <2> DEFINE there == Present(worker[n].stale)
  <2>1. PICK rows \in SUBSET there :
          /\ Cardinality(rows) = IF Cardinality(there) < BatchSize THEN Cardinality(there)
                                 ELSE BatchSize
          /\ worker' = [worker EXCEPT ![n].phase = "Delete", ![n].picked = rows]
    BY <1>3 DEF Pick
  <2>2. there \subseteq worker[n].stale /\ worker[n].stale \subseteq Rows
    BY <1>0 DEF Present, Workers
  <2> DEFINE w == [worker[n] EXCEPT !.phase = "Delete", !.picked = rows]
  <2>3. /\ w.phase = "Delete" /\ w.picked = rows /\ w.stale = worker[n].stale
        /\ w.alone = worker[n].alone
    BY <1>0 DEF Workers
  <2>4. w \in Workers
    <3>1. rows \in SUBSET Rows
      BY <2>2
    <3>2. w = [[worker[n] EXCEPT !.phase = "Delete"] EXCEPT !.picked = rows]
      BY <1>0 DEF Workers
    <3>3. [worker[n] EXCEPT !.phase = "Delete"] \in Workers
      BY <1>0 DEF Workers
    <3>4. \A v \in Workers : [v EXCEPT !.picked = rows] \in Workers
      BY <3>1 DEF Workers
    <3> HIDE DEF w
    <3> QED BY <3>2, <3>3, <3>4
  <2>5. worker' = [worker EXCEPT ![n] = w]
    BY <1>0, <2>1 DEF ArchiveInv, ArchiveTypes
  <2>6. Cardinality(rows) < BatchSize => rows = there
    <3>1. IsFiniteSet(there) /\ IsFiniteSet(Rows)
      BY <2>2, ArchiveAssumption, FS_Subset
    <3>2. Cardinality(there) \in Nat
      BY <3>1, FS_CardinalityType
    <3>3. Cardinality(rows) < BatchSize => Cardinality(rows) = Cardinality(there)
      BY <2>1, <3>2, ArchiveAssumption
    <3> HIDE DEF there
    <3> QED BY <3>1, <3>3, FS_Subset
  <2> HIDE DEF w
  <2>7. BatchIsThere(w)
    BY <2>3, <2>6 DEF BatchIsThere
  <2>8. w.picked \subseteq w.stale /\ age' = age /\ failures' \in Nat
    BY <1>0, <1>3, <2>2, <2>3 DEF Pick
  <2> QED BY <2>3, <2>4, <2>5, <2>7, <2>8, WorkerStep
<1>4. ASSUME NEW n \in Engines, Resume(n) PROVE ArchiveInv'
  <2> DEFINE w == [worker[n] EXCEPT !.phase = "Batch"]
  <2>1. w \in Workers /\ w.phase = "Batch" /\ w.stale = worker[n].stale /\ w.picked = worker[n].picked
    BY <1>0 DEF Workers
  <2>2. worker' = [worker EXCEPT ![n] = w] /\ age' = age /\ failures' \in Nat
    BY <1>0, <1>4 DEF Resume
  <2> HIDE DEF w
  <2>3. w.picked \subseteq w.stale
    BY <2>1 DEF ArchiveInv, StaleIsExpired
  <2> QED BY <2>1, <2>2, <2>3, WorkerStep DEF BatchIsThere
<1>5. ASSUME NEW n \in Engines, Fail(n) PROVE ArchiveInv'
  <2>1. worker' = [worker EXCEPT ![n] = Asleep(n)] /\ age' = age /\ failures' \in Nat
    BY <1>0, <1>5 DEF Fail
  <2> QED BY <1>0, <2>1, QuietWorkers, WorkerStep DEF BatchIsThere
<1>6. ASSUME NEW n \in Engines, Wake(n) \/ Crash(n) PROVE ArchiveInv'
  <2>1. worker' = [worker EXCEPT ![n] = Begin] /\ age' = age /\ failures' \in Nat
    BY <1>0, <1>6 DEF Wake, Crash
  <2> QED BY <1>0, <2>1, QuietWorkers, WorkerStep DEF BatchIsThere
<1>7. CASE Day
  <2>1. ASSUME NEW m \in Engines
        PROVE  /\ worker'[m] \in Workers /\ worker'[m].phase = worker[m].phase
               /\ worker'[m].stale = worker[m].stale /\ worker'[m].picked = worker[m].picked
               /\ worker'[m].alone = worker[m].alone
    BY <1>0, <1>7 DEF Day, Workers
  <2>2. ASSUME NEW r \in Rows
        PROVE  /\ age'[r] \in Int \cup {Absent} /\ (age'[r] = Absent <=> age[r] = Absent)
               /\ age[r] # Absent /\ age[r] > Retention => age'[r] > Retention
    BY <1>0, <1>7, ArchiveAssumption DEF Day, ArchiveTypes
  <2>3. ArchiveTypes'
    BY <1>0, <1>7, <2>1, <2>2 DEF Day, ArchiveTypes
  <2>4. StaleIsExpired'
    BY <1>0, <2>1, <2>2 DEF ArchiveInv, StaleIsExpired, Workers
  <2>5. \A rows \in SUBSET Rows : Present(rows)' = Present(rows)
    BY <2>2 DEF Present
  <2>6. BatchesAreThere'
    BY <1>0, <2>1, <2>5 DEF ArchiveInv, BatchesAreThere, BatchIsThere, Workers
  <2> QED BY <2>3, <2>4, <2>6 DEF ArchiveInv
<1>8. ASSUME NEW n \in Engines, Delete(n) PROVE ArchiveInv'
  <2> DEFINE gone  == Present(worker[n].picked)
             phase == NextPhase(Cardinality(gone))
  <2>1. /\ age' = [r \in Rows |-> IF r \in gone THEN Absent ELSE age[r]]
        /\ failures' \in Nat
        /\ worker' = [m \in Engines |->
             IF m = n THEN [worker[n] EXCEPT !.phase = phase, !.picked = {}, !.slept = 0]
             ELSE [worker[m] EXCEPT !.alone = @ /\ gone \cap worker[m].stale = {}]]
    BY <1>0, <1>8 DEF Delete
  <2>2. phase \in {"Sleep", "Pause"}
    BY DEF NextPhase
  <2> HIDE DEF gone, phase
  <2>3. /\ worker'[n] \in Workers /\ worker'[n].phase = phase
        /\ worker'[n].stale = worker[n].stale /\ worker'[n].picked = {}
    <3>1. worker'[n] = [worker[n] EXCEPT !.phase = phase, !.picked = {}, !.slept = 0]
      BY <2>1
    <3>2. worker'[n] = [[[worker[n] EXCEPT !.phase = phase] EXCEPT !.picked = {}] EXCEPT !.slept = 0]
      BY <1>0, <3>1 DEF Workers
    <3>3. [worker[n] EXCEPT !.phase = phase] \in Workers
      BY <1>0, <2>2 DEF Workers
    <3>4. \A v \in Workers : [v EXCEPT !.picked = {}] \in Workers
      BY DEF Workers
    <3>5. \A v \in Workers : [v EXCEPT !.slept = 0] \in Workers
      BY DEF Workers
    <3>6. worker'[n] \in Workers
      BY <3>2, <3>3, <3>4, <3>5
    <3>7. /\ worker'[n].phase = phase
          /\ worker'[n].stale = worker[n].stale /\ worker'[n].picked = {}
      BY <1>0, <3>1 DEF Workers
    <3> QED BY <3>6, <3>7
  <2>4. ASSUME NEW m \in Engines, m # n
        PROVE  /\ worker'[m] \in Workers /\ worker'[m].phase = worker[m].phase
               /\ worker'[m].stale = worker[m].stale /\ worker'[m].picked = worker[m].picked
               /\ worker'[m].alone => worker[m].alone /\ gone \cap worker[m].stale = {}
    <3>1. worker'[m] = [worker[m] EXCEPT !.alone = worker[m].alone /\ gone \cap worker[m].stale = {}]
      BY <1>0, <2>1, <2>4 DEF Workers
    <3>2. worker[m] \in Workers
      BY <1>0
    <3> QED BY <3>1, <3>2 DEF Workers
  <2>5. ArchiveTypes'
    BY <1>0, <2>1, <2>3, <2>4 DEF ArchiveTypes
  <2>6. StaleIsExpired'
    BY <1>0, <2>1, <2>3, <2>4 DEF ArchiveInv, StaleIsExpired, Workers
  <2>7. ASSUME NEW m \in Engines, m # n, worker'[m].alone
        PROVE  Present(worker[m].stale)' = Present(worker[m].stale)
    <3>1. worker[m].stale \subseteq Rows /\ gone \cap worker[m].stale = {}
      BY <1>0, <2>4, <2>7 DEF Workers
    <3>2. \A r \in worker[m].stale : age'[r] = age[r]
      BY <2>1, <3>1
    <3> QED BY <2>4, <2>7, <3>2 DEF Present
  <2>8. BatchesAreThere'
    <3> SUFFICES ASSUME NEW m \in Engines PROVE BatchIsThere(worker[m])'
      BY DEF BatchesAreThere
    <3>1. CASE m = n
      BY <2>2, <2>3, <3>1 DEF BatchIsThere
    <3>2. CASE m # n
      BY <2>4, <2>7, <3>2 DEF ArchiveInv, BatchesAreThere, BatchIsThere
    <3> QED BY <3>1, <3>2
  <2> QED BY <2>5, <2>6, <2>8 DEF ArchiveInv
<1> QED BY <1>1, <1>2, <1>3, <1>4, <1>5, <1>6, <1>7, <1>8 DEF ArchiveNext

\* The invariant holds in every behaviour.
LEMMA ArchiveInvariance == ArchiveSpec => []ArchiveInv
  BY InitArchiveInv, StepArchiveInv, PTL DEF ArchiveSpec

-----------------------------------------------------------------------------
\* A step that removes rows is a DELETE, and removes what it picked.
LEMMA OnlyDeleteRemoves ==
  ASSUME ArchiveInv, [ArchiveNext]_archive, NEW r \in Rows, age[r] # Absent, age'[r] = Absent
  PROVE  \E n \in Engines : Delete(n) /\ r \in Present(worker[n].picked)
<1>1. CASE Day
  BY <1>1, ArchiveAssumption DEF Day, ArchiveInv, ArchiveTypes
<1>2. ASSUME NEW n \in Engines, Delete(n) PROVE r \in Present(worker[n].picked)
  BY <1>2 DEF Delete
<1> QED BY <1>1, <1>2 DEF ArchiveNext, archive, StartPass, Pick, Resume, Fail, Wake, Crash

\* A pass ends with a DELETE of its own.
LEMMA OnlyDeleteEnds ==
  ASSUME ArchiveInv, [ArchiveNext]_archive, NEW n \in Engines, EndsPass(n)
  PROVE  Delete(n)
<1>0. failures \in Nat /\ worker[n] \in Workers /\ \A m \in Engines : worker[m] \in Workers
  BY DEF ArchiveInv, ArchiveTypes
<1>1. ASSUME NEW m \in Engines, m # n, Delete(m) PROVE FALSE
  <2>1. worker'[n] = [worker[n] EXCEPT !.alone = worker[n].alone
                        /\ Present(worker[m].picked) \cap worker[n].stale = {}]
    BY <1>1 DEF Delete
  <2>2. worker'[n].phase = worker[n].phase
    BY <1>0, <2>1 DEF Workers
  <2> QED BY <2>2 DEF EndsPass
<1>2. CASE Day
  <2>1. worker'[n].phase = worker[n].phase
    BY <1>0, <1>2 DEF Day, Workers
  <2> QED BY <2>1 DEF EndsPass
<1>3. ASSUME NEW m \in Engines, Fail(m) \/ Crash(m) PROVE FALSE
  BY <1>0, <1>3 DEF Fail, Crash, EndsPass
<1>4. ASSUME NEW m \in Engines, StartPass(m) \/ Pick(m) \/ Resume(m) \/ Wake(m) PROVE FALSE
  <2>1. CASE StartPass(m)
    BY <1>0, <2>1 DEF StartPass, EndsPass, Worker
  <2>2. CASE Pick(m)
    <3>1. worker[m].phase = "Batch"
          /\ \E rows : worker' = [worker EXCEPT ![m].phase = "Delete", ![m].picked = rows]
      BY <2>2 DEF Pick
    <3>2. m # n
      BY <3>1 DEF EndsPass
    <3> QED BY <3>1, <3>2 DEF EndsPass, ArchiveInv, ArchiveTypes
  <2>3. CASE Resume(m) \/ Wake(m)
    BY <1>0, <2>3 DEF Resume, Wake, EndsPass, Begin, Worker, ArchiveInv, ArchiveTypes
  <2> QED BY <1>4, <2>1, <2>2, <2>3
<1> QED BY <1>1, <1>2, <1>3, <1>4 DEF ArchiveNext, archive, EndsPass

\* gc.rs:14, "older than this are eligible for deletion": whatever overlaps
\* with a pass, no row is deleted before its time.
OnlyExpiredGo ==
  [][\A r \in Rows : age[r] # Absent /\ age'[r] = Absent => age[r] > Retention]_archive

\* No row is deleted before it is past the retention (gc.rs:14), however many
\* workers share the table and whenever they crash.
THEOREM YoungRowsStay == ArchiveSpec => OnlyExpiredGo
<1>1. ArchiveInv /\ [ArchiveNext]_archive =>
        [\A r \in Rows : age[r] # Absent /\ age'[r] = Absent => age[r] > Retention]_archive
  <2> SUFFICES ASSUME ArchiveInv, [ArchiveNext]_archive, NEW r \in Rows, age[r] # Absent, age'[r] = Absent
               PROVE  age[r] > Retention
    OBVIOUS
  <2>1. PICK n \in Engines : r \in Present(worker[n].picked)
    BY OnlyDeleteRemoves
  <2> QED BY <2>1 DEF ArchiveInv, StaleIsExpired, Present
<1> QED BY <1>1, ArchiveInvariance, PTL DEF ArchiveSpec, OnlyExpiredGo

\* When a short batch ends a pass whose rows no other worker removed, none of
\* the rows that were stale when it started is left (gc.rs:93).
THEOREM ShortBatchesCatchUp == ArchiveSpec => CaughtUpAlone
<1>1. ArchiveInv /\ [ArchiveNext]_archive =>
        [\A n \in Engines : EndsPass(n) /\ worker[n].alone
           => worker[n].stale \subseteq {r \in Rows : age'[r] = Absent}]_archive
  <2> SUFFICES ASSUME ArchiveInv, [ArchiveNext]_archive, NEW n \in Engines, EndsPass(n), worker[n].alone
               PROVE  worker[n].stale \subseteq {r \in Rows : age'[r] = Absent}
    OBVIOUS
  <2> DEFINE gone == Present(worker[n].picked)
  <2>0. worker[n] \in Workers
    BY DEF ArchiveInv, ArchiveTypes
  <2>1. Delete(n) /\ worker[n].phase = "Delete"
    BY OnlyDeleteEnds DEF Delete
  <2>2. /\ worker[n].picked \subseteq Present(worker[n].stale)
        /\ Cardinality(worker[n].picked) < BatchSize => worker[n].picked = Present(worker[n].stale)
    BY <2>1 DEF ArchiveInv, BatchesAreThere, BatchIsThere
  <2>3. gone = worker[n].picked
    BY <2>2 DEF Present
  <2>4. Cardinality(gone) < BatchSize
    <3>1. worker'[n] = [worker[n] EXCEPT !.phase = NextPhase(Cardinality(gone)),
                                         !.picked = {}, !.slept = 0]
      BY <2>1 DEF Delete
    <3>2. worker'[n].phase = NextPhase(Cardinality(gone))
      BY <2>0, <3>1 DEF Workers
    <3> QED BY <3>2 DEF EndsPass, NextPhase
  <2>5. gone = Present(worker[n].stale)
    BY <2>2, <2>3, <2>4
  <2>6. age' = [r \in Rows |-> IF r \in gone THEN Absent ELSE age[r]]
    BY <2>1 DEF Delete
  <2> HIDE DEF gone
  <2> QED BY <2>0, <2>5, <2>6 DEF Present, Workers
<1> QED BY <1>1, ArchiveInvariance, PTL DEF ArchiveSpec, CaughtUpAlone

-----------------------------------------------------------------------------
(* Induction and iteration.                                                *)

\* The least counterexample, which stands in for induction below.
LEMMA LessThanDescends ==
  ASSUME NEW T, T \subseteq Nat, T # {}
  PROVE  \E x \in T : \A y \in T : ~(y < x)
<1>1. \E x \in T : \A y \in T : ~(<<y, x>> \in OpToRel(<, Nat))
  BY WFMin, NatLessThanWellFounded
<1> QED BY <1>1 DEF OpToRel

\* Induction over the natural numbers, for a set.
LEMMA UpFromZero ==
  ASSUME NEW Good, 0 \in Good, \A i \in Nat : i \in Good => i + 1 \in Good
  PROVE  Nat \subseteq Good
<1> DEFINE Bad == Nat \ Good
<1> SUFFICES ASSUME Bad # {} PROVE FALSE
  OBVIOUS
<1>1. PICK n \in Bad : \A m \in Bad : ~(m < n)
  BY LessThanDescends
<1>2. n # 0
  BY <1>1
<1>3. n - 1 \in Nat /\ n - 1 < n /\ (n - 1) + 1 = n
  BY <1>1, <1>2
<1>4. n - 1 \in Good
  BY <1>1, <1>3
<1> QED BY <1>1, <1>3, <1>4

\* h is F iterated from base, over the numbers in D.
Iterates(h, D, base, F) == h = [i \in D |-> IF i = 0 THEN base ELSE F[<<h[i - 1], i>>]]

\* One step of an iteration.
LEMMA IterationSteps ==
  ASSUME NEW h, NEW D, NEW base, NEW F, Iterates(h, D, base, F), NEW i \in D
  PROVE  h[i] = IF i = 0 THEN base ELSE F[<<h[i - 1], i>>]
<1>1. [j \in D |-> IF j = 0 THEN base ELSE F[<<h[j - 1], j>>]][i]
        = IF i = 0 THEN base ELSE F[<<h[i - 1], i>>]
  OBVIOUS
<1> QED BY <1>1 DEF Iterates

\* The first n steps of an iteration.
LEMMA IterationStarts ==
  ASSUME NEW A, NEW base \in A, NEW F \in [A \X Nat -> A], NEW n \in Nat
  PROVE  \E h \in [0..n -> A] : Iterates(h, 0..n, base, F)
<1> DEFINE Good == {k \in Nat : \E h \in [0..k -> A] : Iterates(h, 0..k, base, F)}
<1>1. 0 \in Good
  <2> DEFINE h == [i \in 0..0 |-> base]
  <2>1. h \in [0..0 -> A] /\ Iterates(h, 0..0, base, F)
    BY DEF Iterates
  <2> QED BY <2>1
<1>2. ASSUME NEW k \in Nat, k \in Good PROVE k + 1 \in Good
  <2>1. PICK g \in [0..k -> A] : Iterates(g, 0..k, base, F)
    BY <1>2
  <2> DEFINE h == [i \in 0..(k + 1) |-> IF i = k + 1 THEN F[<<g[k], k + 1>>] ELSE g[i]]
  <2>2. F[<<g[k], k + 1>>] \in A
    OBVIOUS
  <2>3. h \in [0..(k + 1) -> A]
    BY <2>2
  <2>4. ASSUME NEW i \in 0..(k + 1) PROVE h[i] = IF i = 0 THEN base ELSE F[<<h[i - 1], i>>]
    <3>1. CASE i = k + 1
      <4>1. k \in 0..(k + 1) /\ k # k + 1 /\ k + 1 # 0 /\ (k + 1) - 1 = k
        OBVIOUS
      <4>2. h[k + 1] = F[<<g[k], k + 1>>] /\ h[k] = g[k]
        BY <4>1
      <4> HIDE DEF h
      <4> QED BY <3>1, <4>1, <4>2
    <3>2. CASE i # k + 1
      <4>1. i \in 0..k /\ (i # 0 => i - 1 \in 0..k /\ i - 1 # k + 1)
        BY <3>2
      <4>2. g[i] = IF i = 0 THEN base ELSE F[<<g[i - 1], i>>]
        BY <2>1, <4>1 DEF Iterates
      <4>3. h[i] = g[i]
        BY <3>2
      <4>4. i # 0 => h[i - 1] = g[i - 1]
        BY <4>1
      <4> HIDE DEF h
      <4> QED BY <4>2, <4>3, <4>4
    <3> QED BY <3>1, <3>2
  <2>5. Iterates(h, 0..(k + 1), base, F)
    <3> HIDE DEF h
    <3> QED BY <2>3, <2>4 DEF Iterates
  <2> HIDE DEF h
  <2> QED BY <2>3, <2>5
<1> HIDE DEF Good
<1>3. Nat \subseteq Good
  BY <1>1, <1>2, UpFromZero
<1> QED BY <1>3 DEF Good

\* The recursions of the detector have solutions, and stay among the states A.
LEMMA IterationExists ==
  ASSUME NEW A, NEW base \in A, NEW F \in [A \X Nat -> A],
         NEW D \in SUBSET Nat, \A i \in D : i # 0 => i - 1 \in D
  PROVE  \E h \in [D -> A] : Iterates(h, D, base, F)
<1> DEFINE It(n) == CHOOSE h \in [0..n -> A] : Iterates(h, 0..n, base, F)
<1>1. ASSUME NEW n \in Nat PROVE It(n) \in [0..n -> A] /\ Iterates(It(n), 0..n, base, F)
  <2>1. \E h \in [0..n -> A] : Iterates(h, 0..n, base, F)
    BY IterationStarts
  <2> QED BY <2>1
<1>a. ASSUME NEW n \in Nat, NEW i \in 0..n
      PROVE  It(n)[i] = IF i = 0 THEN base ELSE F[<<It(n)[i - 1], i>>]
  BY <1>1, IterationSteps
<1> HIDE DEF It
<1> DEFINE Good == {i \in Nat : \A n \in Nat : i <= n => It(n)[i] = It(i)[i]}
<1>2. 0 \in Good
  <2>1. \A n \in Nat : It(n)[0] = base
    <3> TAKE n \in Nat
    <3>1. 0 \in 0..n
      OBVIOUS
    <3> QED BY <1>a, <3>1
  <2> QED BY <2>1
<1>3. ASSUME NEW i \in Nat, i \in Good PROVE i + 1 \in Good
  <2> SUFFICES ASSUME NEW n \in Nat, i + 1 <= n PROVE It(n)[i + 1] = It(i + 1)[i + 1]
    OBVIOUS
  <2>1. It(n)[i + 1] = F[<<It(n)[i], i + 1>>]
    BY <1>a
  <2>2. It(i + 1)[i + 1] = F[<<It(i + 1)[i], i + 1>>]
    BY <1>a
  <2>3. It(n)[i] = It(i + 1)[i]
    BY <1>3
  <2> QED BY <2>1, <2>2, <2>3
<1>4. Nat \subseteq Good
  <2> HIDE DEF Good
  <2> QED BY <1>2, <1>3, UpFromZero
<1> DEFINE h == [i \in D |-> It(i)[i]]
<1>5. h \in [D -> A]
  BY <1>1
<1>6. ASSUME NEW i \in D PROVE h[i] = IF i = 0 THEN base ELSE F[<<h[i - 1], i>>]
  <2>1. CASE i = 0
    <3>1. i \in Nat /\ i \in 0..i
      BY <2>1
    <3> QED BY <1>a, <2>1, <3>1
  <2>2. CASE i # 0
    <3>1. i - 1 \in D /\ i - 1 \in Nat /\ i - 1 <= i
      BY <2>2
    <3>2. It(i)[i - 1] = It(i - 1)[i - 1]
      BY <1>4, <3>1
    <3>3. It(i)[i] = F[<<It(i)[i - 1], i>>]
      BY <1>a, <2>2
    <3> QED BY <2>2, <3>1, <3>2, <3>3
  <2> QED BY <2>1, <2>2
<1>7. Iterates(h, D, base, F)
  <2> HIDE DEF h
  <2> QED BY <1>5, <1>6 DEF Iterates
<1> HIDE DEF h
<1> QED BY <1>5, <1>7
\* What a recursion starts in and does not leave, it stays in.
LEMMA StaysInside ==
  ASSUME NEW A, NEW C, NEW D \in SUBSET Nat, \A i \in D : i # 0 => i - 1 \in D,
         \A i \in D : i = 0 => C[i] \in A,
         \A i \in D : i # 0 /\ C[i - 1] \in A => C[i] \in A
  PROVE  \A i \in D : C[i] \in A
<1> DEFINE Good == {k \in Nat : k \in D => C[k] \in A}
<1>1. 0 \in Good
  OBVIOUS
<1>2. ASSUME NEW k \in Nat, k \in Good PROVE k + 1 \in Good
  <2> SUFFICES ASSUME k + 1 \in D PROVE C[k + 1] \in A
    OBVIOUS
  <2>1. k + 1 # 0 /\ (k + 1) - 1 = k
    OBVIOUS
  <2>2. k \in D
    BY <2>1
  <2> QED BY <1>2, <2>1, <2>2
<1>3. Nat \subseteq Good
  <2> HIDE DEF Good
  <2> QED BY <1>1, <1>2, UpFromZero
<1> QED BY <1>3

-----------------------------------------------------------------------------
(* The recursions of the detector, unfolded step by step.                   *)
Exchange == [from : Nodes, to : Nodes, weight : Int \cup {NoRate}]

\* What the detector keeps, by type.
Tables(g) ==
  [dist : [Vertices(g) -> Int], pred : [Vertices(g) -> 0..Len(g)],
   last : Vertices(g) \cup {NoNode}]

\* An edge is between nodes of the graph, and one that is kept has a weight.
LEMMA EdgesAreTyped ==
  ASSUME NEW g \in Seq(Exchange), NEW i \in 1..Len(g)
  PROVE  /\ g[i].from \in Vertices(g) /\ g[i].to \in Vertices(g)
         /\ g[i].from # NoNode /\ g[i].to # NoNode
         /\ i \in Weighted(g) => g[i].weight \in Int
<1>1. g[i] \in Exchange /\ DOMAIN g = 1..Len(g)
  OBVIOUS
<1>2. g[i].from \in Nodes /\ g[i].to \in Nodes /\ g[i].weight \in Int \cup {NoRate}
  BY <1>1 DEF Exchange
<1> QED BY <1>1, <1>2, PlannerAssumption DEF Vertices, Weighted

\* The new distance of a node, and what else a relaxation changes.
LEMMA RelaxIsTyped ==
  ASSUME NEW g \in Seq(Exchange), NEW acc \in Tables(g), NEW i \in Nat
  PROVE  Relax(g, acc, i) \in Tables(g)
<1>1. CASE ~Improves(g, acc, i)
  BY <1>1 DEF Relax
<1>2. CASE Improves(g, acc, i)
  <2> DEFINE d == acc.dist[g[i].from] + g[i].weight
             t == g[i].to
  <2>1. i \in Weighted(g) /\ i \in 1..Len(g)
    BY <1>2 DEF Improves, Weighted
  <2>2. /\ acc.dist \in [Vertices(g) -> Int] /\ acc.pred \in [Vertices(g) -> 0..Len(g)]
    BY DEF Tables
  <2>3. d \in Int
    BY <2>1, <2>2, EdgesAreTyped
  <2>4. t \in Vertices(g)
    BY <2>1, EdgesAreTyped
  <2>5. Relax(g, acc, i) = [dist |-> [acc.dist EXCEPT ![t] = d],
                            pred |-> [acc.pred EXCEPT ![t] = i], last |-> t]
    BY <1>2 DEF Relax
  <2> HIDE DEF d, t
  <2>6. [acc.dist EXCEPT ![t] = d] \in [Vertices(g) -> Int]
    BY <2>2, <2>3
  <2>7. i \in 0..Len(g)
    BY <2>1
  <2>8. [acc.pred EXCEPT ![t] = i] \in [Vertices(g) -> 0..Len(g)]
    BY <2>2, <2>7
  <2> QED BY <2>4, <2>5, <2>6, <2>8 DEF Tables
<1> QED BY <1>1, <1>2

\* A pass, edge by edge.
LEMMA PassUnfolds ==
  ASSUME NEW g \in Seq(Exchange), NEW acc \in Tables(g)
  PROVE  \E h \in [0..Len(g) -> Tables(g)] :
           /\ h[0] = [acc EXCEPT !.last = NoNode]
           /\ \A i \in 1..Len(g) : h[i] = Relax(g, h[i - 1], i)
           /\ Pass(g, acc) = h[Len(g)]
<1> DEFINE D == 0..Len(g)
           base == [acc EXCEPT !.last = NoNode]
           F == [x \in Tables(g) \X Nat |-> Relax(g, x[1], x[2])]
           Runs(f) == f = [i \in D |-> IF i = 0 THEN base ELSE Relax(g, f[i - 1], i)]
           C == CHOOSE f : Runs(f)
<1>0. Len(g) \in Nat
  OBVIOUS
<1>1. base \in Tables(g)
  BY DEF Tables
<1>2. F \in [Tables(g) \X Nat -> Tables(g)]
  BY RelaxIsTyped
<1>3. D \in SUBSET Nat /\ \A i \in D : i # 0 => i - 1 \in D
  BY <1>0
<1>4. PICK h \in [D -> Tables(g)] : Iterates(h, D, base, F)
  <2> HIDE DEF D, base, F
  <2> QED BY <1>1, <1>2, <1>3, IterationExists
<1>5. Runs(h)
  <2>1. ASSUME NEW i \in D PROVE h[i] = IF i = 0 THEN base ELSE Relax(g, h[i - 1], i)
    <3>1. h[i] = IF i = 0 THEN base ELSE F[<<h[i - 1], i>>]
      <4> HIDE DEF D, base, F
      <4> QED BY <1>4, IterationSteps
    <3>2. i # 0 => h[i - 1] \in Tables(g) /\ i \in Nat
      BY <1>3
    <3>3. i # 0 => F[<<h[i - 1], i>>] = Relax(g, h[i - 1], i)
      BY <3>2
    <3> HIDE DEF F, base
    <3> QED BY <3>1, <3>3
  <2> HIDE DEF D, base
  <2> QED BY <2>1
<1>6. Runs(C)
  <2> HIDE DEF Runs
  <2> QED BY <1>5
<1>7. Pass(g, acc) = C[Len(g)]
  BY Zenon DEF Pass
<1> HIDE DEF C
<1>8. ASSUME NEW i \in D PROVE C[i] = IF i = 0 THEN base ELSE Relax(g, C[i - 1], i)
  <2> HIDE DEF D, base
  <2>1. [j \in D |-> IF j = 0 THEN base ELSE Relax(g, C[j - 1], j)][i]
          = IF i = 0 THEN base ELSE Relax(g, C[i - 1], i)
    OBVIOUS
  <2> QED BY <1>6, <2>1
<1>9. \A i \in D : C[i] \in Tables(g)
  <2>1. \A i \in D : i = 0 => C[i] \in Tables(g)
    BY <1>1, <1>8
  <2>2. \A i \in D : i # 0 /\ C[i - 1] \in Tables(g) => C[i] \in Tables(g)
    <3> HIDE DEF base
    <3> QED BY <1>8, <1>3, RelaxIsTyped
  <2> HIDE DEF D
  <2> QED BY <1>3, <2>1, <2>2, StaysInside
<1>10. C \in [D -> Tables(g)]
  <2> HIDE DEF D, base
  <2> QED BY <1>6, <1>9
<1>11. C[0] = base /\ \A i \in 1..Len(g) : C[i] = Relax(g, C[i - 1], i)
  BY <1>8, <1>0
<1> QED BY <1>7, <1>10, <1>11

\* The passes, one by one.
LEMMA PassesUnfold ==
  ASSUME NEW g \in Seq(Exchange), NEW n \in Nat
  PROVE  \E h \in [0..n -> Tables(g)] :
           /\ h[0] = Untouched(g)
           /\ \A p \in 1..n : h[p] = Pass(g, h[p - 1])
           /\ Passes(g, n) = h[n]
<1> DEFINE D == 0..n
           base == Untouched(g)
           F == [x \in Tables(g) \X Nat |-> Pass(g, x[1])]
           Runs(f) == f = [p \in D |-> IF p = 0 THEN base ELSE Pass(g, f[p - 1])]
           C == CHOOSE f : Runs(f)
<1>0. \A acc \in Tables(g) : Pass(g, acc) \in Tables(g)
  <2> TAKE acc \in Tables(g)
  <2>1. PICK h \in [0..Len(g) -> Tables(g)] : Pass(g, acc) = h[Len(g)]
    BY PassUnfolds
  <2>2. Len(g) \in 0..Len(g)
    OBVIOUS
  <2> QED BY <2>1, <2>2
<1>1. base \in Tables(g)
  <2>1. 0 \in 0..Len(g)
    OBVIOUS
  <2> QED BY <2>1 DEF Tables, Untouched
<1>2. F \in [Tables(g) \X Nat -> Tables(g)]
  BY <1>0
<1>3. D \in SUBSET Nat /\ \A p \in D : p # 0 => p - 1 \in D
  OBVIOUS
<1>4. PICK h \in [D -> Tables(g)] : Iterates(h, D, base, F)
  <2> HIDE DEF D, base, F
  <2> QED BY <1>1, <1>2, <1>3, IterationExists
<1>5. Runs(h)
  <2>1. ASSUME NEW p \in D PROVE h[p] = IF p = 0 THEN base ELSE Pass(g, h[p - 1])
    <3>1. h[p] = IF p = 0 THEN base ELSE F[<<h[p - 1], p>>]
      <4> HIDE DEF D, base, F
      <4> QED BY <1>4, IterationSteps
    <3>2. p # 0 => h[p - 1] \in Tables(g) /\ p \in Nat
      BY <1>3
    <3>3. p # 0 => F[<<h[p - 1], p>>] = Pass(g, h[p - 1])
      BY <3>2
    <3> HIDE DEF F, base
    <3> QED BY <3>1, <3>3
  <2> HIDE DEF D, base
  <2> QED BY <2>1
<1>6. Runs(C)
  <2> HIDE DEF Runs
  <2> QED BY <1>5
<1>7. Passes(g, n) = C[n]
  BY Zenon DEF Passes
<1> HIDE DEF C
<1>8. ASSUME NEW p \in D PROVE C[p] = IF p = 0 THEN base ELSE Pass(g, C[p - 1])
  <2> HIDE DEF D, base
  <2>1. [q \in D |-> IF q = 0 THEN base ELSE Pass(g, C[q - 1])][p]
          = IF p = 0 THEN base ELSE Pass(g, C[p - 1])
    OBVIOUS
  <2> QED BY <1>6, <2>1
<1>9. \A p \in D : C[p] \in Tables(g)
  <2>1. \A p \in D : p = 0 => C[p] \in Tables(g)
    BY <1>1, <1>8
  <2>2. \A p \in D : p # 0 /\ C[p - 1] \in Tables(g) => C[p] \in Tables(g)
    <3> HIDE DEF base
    <3> QED BY <1>8, <1>0
  <2> HIDE DEF D
  <2> QED BY <1>3, <2>1, <2>2, StaysInside
<1>10. C \in [D -> Tables(g)]
  <2> HIDE DEF D, base
  <2> QED BY <1>6, <1>9
<1>11. C[0] = base /\ \A p \in 1..n : C[p] = Pass(g, C[p - 1])
  BY <1>8
<1> QED BY <1>7, <1>10, <1>11

\* The way back, node by node.
LEMMA BackUnfolds ==
  ASSUME NEW g \in Seq(Exchange), NEW pred \in [Vertices(g) -> 0..Len(g)],
         NEW v \in Vertices(g) \cup {NoNode}
  PROVE  /\ Back(g, pred, v, 0) = v
         /\ \A k \in Nat : /\ Back(g, pred, v, k) \in Vertices(g) \cup {NoNode}
                           /\ Back(g, pred, v, k + 1) = Previous(g, pred, Back(g, pred, v, k))
<1> DEFINE Places == Vertices(g) \cup {NoNode}
           F == [x \in Places \X Nat |-> Previous(g, pred, x[1])]
           Runs(f) == f = [i \in Nat |-> IF i = 0 THEN v ELSE Previous(g, pred, f[i - 1])]
           C == CHOOSE f : Runs(f)
<1>0. \A u \in Places : Previous(g, pred, u) \in Places
  <2> SUFFICES ASSUME NEW u \in Vertices(g), pred[u] # 0
               PROVE  g[pred[u]].from \in Vertices(g)
    BY DEF Previous
  <2>1. pred[u] \in 1..Len(g)
    OBVIOUS
  <2> QED BY <2>1, EdgesAreTyped
<1>2. F \in [Places \X Nat -> Places]
  BY <1>0
<1>3. Nat \in SUBSET Nat /\ \A i \in Nat : i # 0 => i - 1 \in Nat
  OBVIOUS
<1>4. PICK h \in [Nat -> Places] : Iterates(h, Nat, v, F)
  <2> HIDE DEF F
  <2> QED BY <1>2, <1>3, IterationExists
<1>5. Runs(h)
  <2>1. ASSUME NEW i \in Nat PROVE h[i] = IF i = 0 THEN v ELSE Previous(g, pred, h[i - 1])
    <3>1. h[i] = IF i = 0 THEN v ELSE F[<<h[i - 1], i>>]
      <4> HIDE DEF F
      <4> QED BY <1>4, IterationSteps
    <3>2. i # 0 => h[i - 1] \in Places
      BY <1>3
    <3>3. i # 0 => F[<<h[i - 1], i>>] = Previous(g, pred, h[i - 1])
      BY <3>2
    <3> HIDE DEF F
    <3> QED BY <3>1, <3>3
  <2> QED BY <2>1
<1>6. Runs(C)
  <2> HIDE DEF Runs
  <2> QED BY <1>5
<1>7. \A k : Back(g, pred, v, k) = C[k]
  BY Zenon DEF Back
<1> HIDE DEF C
<1>8. ASSUME NEW i \in Nat PROVE C[i] = IF i = 0 THEN v ELSE Previous(g, pred, C[i - 1])
  <2>1. [j \in Nat |-> IF j = 0 THEN v ELSE Previous(g, pred, C[j - 1])][i]
          = IF i = 0 THEN v ELSE Previous(g, pred, C[i - 1])
    OBVIOUS
  <2> QED BY <1>6, <2>1
<1>9. \A i \in Nat : C[i] \in Places
  <2>1. \A i \in Nat : i = 0 => C[i] \in Places
    BY <1>8
  <2>2. \A i \in Nat : i # 0 /\ C[i - 1] \in Places => C[i] \in Places
    BY <1>8, <1>0
  <2> HIDE DEF Places
  <2> QED BY <1>3, <2>1, <2>2, StaysInside
<1>10. \A k \in Nat : C[k + 1] = Previous(g, pred, C[k])
  <2> TAKE k \in Nat
  <2>1. k + 1 \in Nat /\ k + 1 # 0 /\ (k + 1) - 1 = k
    OBVIOUS
  <2> QED BY <1>8, <2>1
<1> QED BY <1>7, <1>8, <1>9, <1>10

\* A sum of weights, edge by edge.
LEMMA SumUnfolds ==
  ASSUME NEW c, NEW n \in Nat, Len(c) = n, \A i \in 1..n : c[i].weight \in Int
  PROVE  \E h \in [0..n -> Int] :
           /\ h[0] = 0
           /\ \A k \in 1..n : h[k] = h[k - 1] + c[k].weight
           /\ SumOfWeights(c) = h[n]
<1> DEFINE D == 0..n
           F == [x \in Int \X Nat |-> IF x[2] \in 1..n THEN x[1] + c[x[2]].weight ELSE 0]
           Runs(f) == f = [k \in D |-> IF k = 0 THEN 0 ELSE f[k - 1] + c[k].weight]
           C == CHOOSE f : Runs(f)
<1>2. F \in [Int \X Nat -> Int]
  OBVIOUS
<1>3. D \in SUBSET Nat /\ \A k \in D : k # 0 => k - 1 \in D
  OBVIOUS
<1>4. PICK h \in [D -> Int] : Iterates(h, D, 0, F)
  <2>1. 0 \in Int
    OBVIOUS
  <2> HIDE DEF D, F
  <2> QED BY <1>2, <1>3, <2>1, IterationExists
<1>5. Runs(h)
  <2>1. ASSUME NEW k \in D PROVE h[k] = IF k = 0 THEN 0 ELSE h[k - 1] + c[k].weight
    <3>1. h[k] = IF k = 0 THEN 0 ELSE F[<<h[k - 1], k>>]
      <4> HIDE DEF D, F
      <4> QED BY <1>4, IterationSteps
    <3>2. k # 0 => h[k - 1] \in Int /\ k \in Nat /\ k \in 1..n
      BY <1>3
    <3>3. k # 0 => F[<<h[k - 1], k>>] = h[k - 1] + c[k].weight
      BY <3>2
    <3> HIDE DEF F
    <3> QED BY <3>1, <3>3
  <2> HIDE DEF D
  <2> QED BY <2>1
<1>6. Runs(C)
  <2> HIDE DEF Runs
  <2> QED BY <1>5
<1>7. SumOfWeights(c) = C[n]
  BY Zenon DEF SumOfWeights
<1> HIDE DEF C
<1>8. ASSUME NEW k \in D PROVE C[k] = IF k = 0 THEN 0 ELSE C[k - 1] + c[k].weight
  <2> HIDE DEF D
  <2>1. [j \in D |-> IF j = 0 THEN 0 ELSE C[j - 1] + c[j].weight][k]
          = IF k = 0 THEN 0 ELSE C[k - 1] + c[k].weight
    OBVIOUS
  <2> QED BY <1>6, <2>1
<1>9. \A k \in D : C[k] \in Int
  <2>1. \A k \in D : k = 0 => C[k] \in Int
    BY <1>8
  <2>2. \A k \in D : k # 0 /\ C[k - 1] \in Int => C[k] \in Int
    <3> SUFFICES ASSUME NEW k \in D, k # 0, C[k - 1] \in Int PROVE C[k] \in Int
      OBVIOUS
    <3>1. k \in 1..n
      OBVIOUS
    <3>2. C[k] = C[k - 1] + c[k].weight
      <4> HIDE DEF D
      <4> QED BY <1>8
    <3>3. c[k].weight \in Int
      BY <3>1
    <3> QED BY <3>2, <3>3
  <2> HIDE DEF D
  <2> QED BY <1>3, <2>1, <2>2, StaysInside
<1>10. C \in [D -> Int]
  <2> HIDE DEF D
  <2> QED BY <1>6, <1>9
<1>11. C[0] = 0 /\ \A k \in 1..n : C[k] = C[k - 1] + c[k].weight
  BY <1>8
<1> QED BY <1>7, <1>10, <1>11

-----------------------------------------------------------------------------
(* Sums over loops: round a loop, what the distances change by cancels out. *)

\* The edges of a loop have weights, and lead from node to node.
LEMMA LoopsAreTyped ==
  ASSUME NEW g \in Seq(Exchange), NEW c, IsLoop(c, g)
  PROVE  /\ Len(c) \in Nat \ {0} /\ DOMAIN c = 1..Len(c)
         /\ \A k \in 1..Len(c) : /\ c[k].weight \in Int
                                 /\ c[k].from \in Vertices(g) /\ c[k].to \in Vertices(g)
                                 /\ \E i \in Weighted(g) : c[k] = g[i]
         /\ c[1].from = c[Len(c)].to
         /\ \A k \in 2..Len(c) : c[k].from = c[k - 1].to
<1> DEFINE E == {g[i] : i \in Weighted(g)}
<1>1. c \in Seq(E) /\ c # <<>>
  BY DEF IsLoop
<1>2. Len(c) \in Nat \ {0} /\ DOMAIN c = 1..Len(c) /\ \A k \in 1..Len(c) : c[k] \in E
  <2> HIDE DEF E
  <2> QED BY <1>1
<1>3. \A i \in Weighted(g) : i \in 1..Len(g)
  BY DEF Weighted
<1>4. ASSUME NEW k \in 1..Len(c)
      PROVE  /\ c[k].weight \in Int
             /\ c[k].from \in Vertices(g) /\ c[k].to \in Vertices(g)
             /\ \E i \in Weighted(g) : c[k] = g[i]
  <2>1. PICK i \in Weighted(g) : c[k] = g[i]
    BY <1>2
  <2> QED BY <2>1, <1>3, EdgesAreTyped
<1>5. \A k \in 1..Len(c) : c[k].from = c[IF k = 1 THEN Len(c) ELSE k - 1].to
  BY <1>2 DEF IsLoop
<1>6. c[1].from = c[Len(c)].to
  BY <1>2, <1>5
<1>7. \A k \in 2..Len(c) : c[k].from = c[k - 1].to
  BY <1>2, <1>5
<1> QED BY <1>2, <1>4, <1>6, <1>7

\* A loop none of whose edges could improve a distance loses.
LEMMA SettledLoopsLose ==
  ASSUME NEW g \in Seq(Exchange), NEW c, IsLoop(c, g), NEW d \in [Vertices(g) -> Int],
         \A k \in 1..Len(c) : d[c[k].to] <= d[c[k].from] + c[k].weight
  PROVE  SumOfWeights(c) >= 0
<1> DEFINE n == Len(c)
<1>1. /\ n \in Nat \ {0}
      /\ \A k \in 1..n : c[k].weight \in Int /\ d[c[k].from] \in Int /\ d[c[k].to] \in Int
      /\ c[1].from = c[n].to /\ \A k \in 2..n : c[k].from = c[k - 1].to
  BY LoopsAreTyped
<1>2. PICK h \in [0..n -> Int] : /\ h[0] = 0
                                 /\ \A k \in 1..n : h[k] = h[k - 1] + c[k].weight
                                 /\ SumOfWeights(c) = h[n]
  BY <1>1, SumUnfolds
<1> HIDE DEF n
<1> DEFINE Good == {k \in Nat : k + 1 \in 1..n => h[k + 1] >= d[c[k + 1].to] - d[c[1].from]}
<1>3. 0 \in Good
  <2>1. 1 \in 1..n
    BY <1>1
  <2>2. h[1] = c[1].weight
    BY <1>1, <1>2, <2>1
  <2>3. d[c[1].to] <= d[c[1].from] + c[1].weight
    BY <2>1 DEF n
  <2> QED BY <1>1, <2>1, <2>2, <2>3
<1>4. ASSUME NEW k \in Nat, k \in Good PROVE k + 1 \in Good
  <2> SUFFICES ASSUME (k + 1) + 1 \in 1..n
               PROVE  h[(k + 1) + 1] >= d[c[(k + 1) + 1].to] - d[c[1].from]
    OBVIOUS
  <2> DEFINE m == (k + 1) + 1
  <2>1. k + 1 \in 1..n /\ m \in 2..n /\ m - 1 = k + 1 /\ 1 \in 1..n /\ m \in 1..n
    BY <1>1
  <2>2. h[m] = h[k + 1] + c[m].weight
    BY <1>2, <2>1
  <2>3. c[m].from = c[k + 1].to
    BY <1>1, <2>1
  <2>4. d[c[m].to] <= d[c[m].from] + c[m].weight
    BY <2>1 DEF n
  <2>5. h[k + 1] >= d[c[k + 1].to] - d[c[1].from]
    BY <1>4, <2>1
  <2>6. h[k + 1] \in Int /\ c[m].weight \in Int /\ d[c[m].to] \in Int
        /\ d[c[m].from] \in Int /\ d[c[1].from] \in Int
    BY <1>1, <2>1
  <2> HIDE DEF m
  <2>7. h[m] >= d[c[m].to] - d[c[1].from]
    BY <2>2, <2>3, <2>4, <2>5, <2>6
  <2> QED BY <2>7 DEF m
<1>5. Nat \subseteq Good
  <2> HIDE DEF Good
  <2> QED BY <1>3, <1>4, UpFromZero
<1>6. n - 1 \in Nat /\ (n - 1) + 1 = n /\ n \in 1..n
  BY <1>1
<1>7. h[n] >= d[c[n].to] - d[c[1].from]
  <2>1. n - 1 \in Good
    BY <1>5, <1>6
  <2> QED BY <1>6, <2>1
<1> QED BY <1>1, <1>2, <1>6, <1>7

\* A loop that predecessors close gains, if one of its edges still improved.
LEMMA ImprovingLoopsGain ==
  ASSUME NEW g \in Seq(Exchange), NEW c, IsLoop(c, g), NEW d \in [Vertices(g) -> Int],
         \A k \in 1..Len(c) : d[c[k].to] >= d[c[k].from] + c[k].weight,
         NEW q \in 1..Len(c), d[c[q].to] > d[c[q].from] + c[q].weight
  PROVE  SumOfWeights(c) < 0
<1> DEFINE n == Len(c)
           Less(k) == IF k < q THEN 0 ELSE 1
<1>1. /\ n \in Nat \ {0}
      /\ \A k \in 1..n : c[k].weight \in Int /\ d[c[k].from] \in Int /\ d[c[k].to] \in Int
      /\ c[1].from = c[n].to /\ \A k \in 2..n : c[k].from = c[k - 1].to
  BY LoopsAreTyped
<1>2. PICK h \in [0..n -> Int] : /\ h[0] = 0
                                 /\ \A k \in 1..n : h[k] = h[k - 1] + c[k].weight
                                 /\ SumOfWeights(c) = h[n]
  BY <1>1, SumUnfolds
<1>a. q \in 1..n
  OBVIOUS
<1>b. \A k \in 1..n : d[c[k].to] >= d[c[k].from] + c[k].weight
  OBVIOUS
<1> HIDE DEF n
<1> DEFINE Good == {k \in Nat : k + 1 \in 1..n =>
                      h[k + 1] + Less(k + 1) <= d[c[k + 1].to] - d[c[1].from]}
<1>3. 0 \in Good
  <2>1. 1 \in 1..n
    BY <1>1
  <2>2. h[1] = c[1].weight
    BY <1>1, <1>2, <2>1
  <2>3. d[c[1].to] >= d[c[1].from] + c[1].weight
    BY <1>b, <2>1
  <2>4. q = 1 => d[c[1].to] > d[c[1].from] + c[1].weight
    OBVIOUS
  <2>5. c[1].weight \in Int /\ d[c[1].from] \in Int /\ d[c[1].to] \in Int
    BY <1>1, <2>1
  <2>6. Less(1) = IF q = 1 THEN 1 ELSE 0
    BY <1>a
  <2> HIDE DEF Less
  <2>7. h[1] + Less(1) <= d[c[1].to] - d[c[1].from]
    BY <2>2, <2>3, <2>4, <2>5, <2>6
  <2> QED BY <2>7
<1>4. ASSUME NEW k \in Nat, k \in Good PROVE k + 1 \in Good
  <2> SUFFICES ASSUME (k + 1) + 1 \in 1..n
               PROVE  h[(k + 1) + 1] + Less((k + 1) + 1) <= d[c[(k + 1) + 1].to] - d[c[1].from]
    OBVIOUS
  <2> DEFINE m == (k + 1) + 1
  <2>1. k + 1 \in 1..n /\ m \in 2..n /\ m - 1 = k + 1 /\ 1 \in 1..n /\ m \in 1..n
    BY <1>1
  <2>2. h[m] = h[k + 1] + c[m].weight
    BY <1>2, <2>1
  <2>3. c[m].from = c[k + 1].to
    BY <1>1, <2>1
  <2>4. /\ d[c[m].to] >= d[c[m].from] + c[m].weight
        /\ q = m => d[c[m].to] > d[c[m].from] + c[m].weight
    BY <1>b, <2>1
  <2>5. h[k + 1] + Less(k + 1) <= d[c[k + 1].to] - d[c[1].from]
    BY <1>4, <2>1
  <2>6. h[k + 1] \in Int /\ c[m].weight \in Int /\ d[c[m].to] \in Int
        /\ d[c[m].from] \in Int /\ d[c[1].from] \in Int
    BY <1>1, <2>1
  <2>8. /\ Less(k + 1) \in {0, 1}
        /\ Less(m) = IF q = m THEN 1 ELSE Less(k + 1)
        /\ q = m => Less(k + 1) = 0
    BY <1>a, <2>1
  <2> HIDE DEF m, Less
  <2>7. h[m] + Less(m) <= d[c[m].to] - d[c[1].from]
    <3>1. Less(m) \in Int /\ Less(k + 1) \in Int
      BY <2>8
    <3>2. d[c[m].to] >= d[c[m].from] + c[m].weight + (Less(m) - Less(k + 1))
      <4>1. CASE q = m
        <5>1. Less(m) - Less(k + 1) = 1
          BY <2>8, <4>1
        <5>2. d[c[m].to] >= d[c[m].from] + c[m].weight + 1
          BY <2>4, <2>6, <4>1
        <5> QED BY <5>1, <5>2
      <4>2. CASE q # m
        <5>1. Less(m) - Less(k + 1) = 0
          BY <2>8, <4>2
        <5>2. d[c[m].to] >= d[c[m].from] + c[m].weight + 0
          BY <2>4, <2>6
        <5> QED BY <5>1, <5>2
      <4> QED BY <4>1, <4>2
    <3>3. h[k + 1] + Less(k + 1) <= d[c[m].from] - d[c[1].from]
      BY <2>3, <2>5
    <3>4. h[m] \in Int
      BY <2>2, <2>6
    <3>5. PICK a \in Int, b \in Int, w \in Int, x \in Int, y \in Int, z \in Int,
               l \in Int, e \in Int :
            /\ a = h[k + 1] /\ b = h[m] /\ w = c[m].weight /\ x = d[c[m].from]
            /\ y = d[c[m].to] /\ z = d[c[1].from] /\ l = Less(k + 1) /\ e = Less(m)
      BY <2>6, <3>1, <3>4
    <3>6. b = a + w /\ y >= x + w + (e - l) /\ a + l <= x - z
      BY <2>2, <3>2, <3>3, <3>5
    <3>7. b + e <= y - z
      BY <3>6
    <3> QED BY <3>5, <3>7
  <2> QED BY <2>7 DEF m
<1>5. Nat \subseteq Good
  <2> HIDE DEF Good
  <2> QED BY <1>3, <1>4, UpFromZero
<1>6. n - 1 \in Nat /\ (n - 1) + 1 = n /\ n \in 1..n
  BY <1>1
<1>7. h[n] + Less(n) <= d[c[n].to] - d[c[1].from]
  <2>1. n - 1 \in Good
    BY <1>5, <1>6
  <2> QED BY <1>6, <2>1
<1>8. Less(n) = 1
  BY <1>1, <1>a
<1>9. h[n] \in Int
  BY <1>2, <1>6
<1>10. d[c[n].to] = d[c[1].from] /\ d[c[n].to] \in Int
  BY <1>1, <1>6
<1> HIDE DEF Less
<1> QED BY <1>2, <1>7, <1>8, <1>9, <1>10

-----------------------------------------------------------------------------
(* What the passes establish.  `when` gives the pass that relaxed a node    *)
(* last, 0 if none did; the code does not keep it.                          *)

\* A loop that follows the predecessors.
PredLoop(g, pred, c) ==
  IsLoop(c, g) /\ \A k \in DOMAIN c : pred[c[k].to] # 0 /\ c[k] = g[pred[c[k].to]]

\* A node relaxed has a predecessor, which is at most one pass behind, and has
\* not become farther since.
Behind(g, acc, when, v) ==
  LET e == g[acc.pred[v]] IN
  /\ acc.pred[v] \in Weighted(g) /\ e.to = v
  /\ acc.dist[v] >= acc.dist[e.from] + e.weight
  /\ when[e.from] >= when[v] - 1

\* An edge that improves nothing.
Settled(g, dist, j) == dist[g[j].to] <= dist[g[j].from] + g[j].weight

\* In pass p, with i edges done: an edge improves nothing if the node it comes
\* from was not relaxed since the edge's last turn.
Settling(g, acc, when, p, i) ==
  \A j \in Weighted(g) :
    when[g[j].from] < (IF j <= i THEN p ELSE p - 1) => Settled(g, acc.dist, j)

\* All that holds in pass p, with i edges done; a loop of predecessors gains.
Known(g, acc, when, p, i) ==
  /\ when \in [Vertices(g) -> 0..p]
  /\ \A v \in Vertices(g) : when[v] # 0 => acc.pred[v] # 0
  /\ \A v \in Vertices(g) : acc.pred[v] # 0 => Behind(g, acc, when, v)
  /\ Settling(g, acc, when, p, i)
  /\ acc.last # NoNode => when[acc.last] = p
  /\ acc.last = NoNode => \A v \in Vertices(g) : when[v] < p
  /\ \A c : PredLoop(g, acc.pred, c) => SumOfWeights(c) < 0

\* An edge without effect.
LEMMA IdleKeepsKnown ==
  ASSUME NEW g \in Seq(Exchange), NEW acc \in Tables(g), NEW p \in Nat \ {0},
         NEW i \in 1..Len(g), NEW when, Known(g, acc, when, p, i - 1), ~Improves(g, acc, i)
  PROVE  Known(g, acc, when, p, i)
<1>1. ASSUME NEW j \in Weighted(g), when[g[j].from] < (IF j <= i THEN p ELSE p - 1)
      PROVE  Settled(g, acc.dist, j)
  <2>1. j \in 1..Len(g)
    BY DEF Weighted
  <2>2. CASE j = i
    <3>1. /\ g[i].from \in Vertices(g) /\ g[i].to \in Vertices(g) /\ g[i].weight \in Int
      BY <1>1, <2>2, EdgesAreTyped
    <3>2. acc.dist \in [Vertices(g) -> Int]
      BY DEF Tables
    <3>3. acc.dist[g[i].from] \in Int /\ acc.dist[g[i].to] \in Int
      BY <3>1, <3>2
    <3> QED BY <1>1, <2>2, <3>1, <3>3 DEF Improves, Settled
  <2>3. CASE j # i
    <3>1. j <= i <=> j <= i - 1
      BY <2>1, <2>3
    <3>2. Settling(g, acc, when, p, i - 1)
      BY DEF Known
    <3> QED BY <1>1, <3>1, <3>2 DEF Settling
  <2> QED BY <2>2, <2>3
<1> QED BY <1>1 DEF Known, Settling

\* An edge that improves: its own end, with a node before it that was relaxed
\* in this pass or the last; and a loop that it closes gains.
LEMMA RelaxKeepsKnown ==
  ASSUME NEW g \in Seq(Exchange), NEW acc \in Tables(g), NEW p \in Nat \ {0},
         NEW i \in 1..Len(g), NEW when, Known(g, acc, when, p, i - 1), Improves(g, acc, i)
  PROVE  Known(g, Relax(g, acc, i), [when EXCEPT ![g[i].to] = p], p, i)
<1> DEFINE new == Relax(g, acc, i)
           u == g[i].from
           w == g[i].to
           then == [when EXCEPT ![w] = p]
           V == Vertices(g)
<1>1. /\ i \in Weighted(g) /\ g[i].weight \in Int /\ u \in V /\ w \in V /\ w # NoNode
      /\ acc.dist[u] + g[i].weight < acc.dist[w]
  BY EdgesAreTyped DEF Improves
<1>2. acc.dist \in [V -> Int] /\ acc.pred \in [V -> 0..Len(g)]
  BY DEF Tables
<1>3. /\ new.dist = [acc.dist EXCEPT ![w] = acc.dist[u] + g[i].weight]
      /\ new.pred = [acc.pred EXCEPT ![w] = i] /\ new.last = w
  BY DEF Relax
<1>4. when \in [V -> 0..p]
  BY DEF Known
<1>5. when[u] >= p - 1
  <2>1. Settling(g, acc, when, p, i - 1)
    BY DEF Known
  <2>2. ~(i <= i - 1)
    OBVIOUS
  <2>3. ~Settled(g, acc.dist, i)
    BY <1>1, <1>2 DEF Settled
  <2>4. ~(when[u] < p - 1)
    BY <1>1, <2>1, <2>2, <2>3 DEF Settling
  <2>5. when[u] \in Int /\ p - 1 \in Int
    BY <1>1, <1>4
  <2> QED BY <2>4, <2>5
<1>a. \A j \in Weighted(g) : j \in 1..Len(g) /\ g[j].from \in V /\ g[j].to \in V /\ g[j].weight \in Int
  <2> TAKE j \in Weighted(g)
  <2>1. j \in 1..Len(g)
    BY DEF Weighted
  <2> QED BY <2>1, EdgesAreTyped
<1> HIDE DEF new, u, w, V
<1>6. then \in [V -> 0..p]
  <2>1. p \in 0..p
    OBVIOUS
  <2> QED BY <1>4, <2>1
<1>7. then[w] = p /\ \A v \in V : /\ v # w => then[v] = when[v]
                                  /\ then[v] >= when[v] /\ when[v] \in Int /\ when[v] <= p
                                  /\ then[v] \in Int
  BY <1>1, <1>4, <1>6
<1>8. \A v \in V : /\ new.dist[v] = IF v = w THEN acc.dist[u] + g[i].weight ELSE acc.dist[v]
                   /\ new.dist[v] <= acc.dist[v] /\ acc.dist[v] \in Int /\ new.dist[v] \in Int
                   /\ new.pred[v] = IF v = w THEN i ELSE acc.pred[v]
  BY <1>1, <1>2, <1>3
<1> HIDE DEF then
<1>9. ASSUME NEW v \in V, then[v] # 0 PROVE new.pred[v] # 0
  <2>1. i # 0
    OBVIOUS
  <2> QED BY <1>7, <1>8, <1>9, <2>1 DEF Known, V
<1>10. ASSUME NEW v \in V, new.pred[v] # 0 PROVE Behind(g, new, then, v)
  <2>1. CASE v = w
    <3>1. new.pred[v] = i
      BY <1>8, <2>1
    <3>2. new.dist[v] >= new.dist[u] + g[i].weight
      BY <1>1, <1>8, <2>1
    <3>3. then[u] >= then[v] - 1
      BY <1>1, <1>5, <1>7, <2>1
    <3> QED BY <1>1, <2>1, <3>1, <3>2, <3>3 DEF Behind, u, w
  <2>2. CASE v # w
    <3> DEFINE e == g[acc.pred[v]]
    <3>1. new.pred[v] = acc.pred[v]
      BY <1>8, <2>2
    <3>2. /\ acc.pred[v] \in Weighted(g) /\ e.to = v
          /\ acc.dist[v] >= acc.dist[e.from] + e.weight /\ when[e.from] >= when[v] - 1
      BY <1>10, <3>1 DEF Known, Behind, V
    <3>3. e.from \in V /\ e.weight \in Int
      BY <1>a, <3>2
    <3> HIDE DEF e
    <3>4. new.dist[v] >= new.dist[e.from] + e.weight
      BY <1>8, <2>2, <3>2, <3>3
    <3>5. then[e.from] >= then[v] - 1
      BY <1>7, <2>2, <3>2, <3>3
    <3> QED BY <3>1, <3>2, <3>4, <3>5 DEF Behind, e
  <2> QED BY <2>1, <2>2
<1>11. Settling(g, new, then, p, i)
  <2> SUFFICES ASSUME NEW j \in Weighted(g),
                      then[g[j].from] < (IF j <= i THEN p ELSE p - 1)
               PROVE  Settled(g, new.dist, j)
    BY DEF Settling
  <2>1. g[j].from # w
    BY <1>7
  <2>2. new.dist[g[j].from] = acc.dist[g[j].from] /\ then[g[j].from] = when[g[j].from]
    BY <1>7, <1>8, <1>a, <2>1
  <2>3. CASE j = i
    BY <1>1, <1>8, <2>2, <2>3 DEF Settled, u, w
  <2>4. CASE j # i
    <3>1. j <= i <=> j <= i - 1
      BY <1>a, <2>4
    <3>2. Settled(g, acc.dist, j)
      BY <2>2, <3>1 DEF Known, Settling
    <3>3. new.dist[g[j].to] <= acc.dist[g[j].to]
      BY <1>8, <1>a
    <3> QED BY <1>8, <1>a, <2>2, <3>2, <3>3 DEF Settled
  <2> QED BY <2>3, <2>4
<1>12. ASSUME NEW c, PredLoop(g, new.pred, c) PROVE SumOfWeights(c) < 0
  <2>1. IsLoop(c, g)
    BY <1>12 DEF PredLoop
  <2>2. /\ DOMAIN c = 1..Len(c)
        /\ \A k \in 1..Len(c) : c[k].from \in V /\ c[k].to \in V /\ c[k].weight \in Int
    BY <2>1, LoopsAreTyped DEF V
  <2>3. \A k \in 1..Len(c) : new.pred[c[k].to] # 0 /\ c[k] = g[new.pred[c[k].to]]
    BY <1>12, <2>2 DEF PredLoop
  <2>4. ASSUME NEW k \in 1..Len(c)
        PROVE  /\ acc.dist[c[k].to] >= acc.dist[c[k].from] + c[k].weight
               /\ c[k].to = w => acc.dist[c[k].to] > acc.dist[c[k].from] + c[k].weight
               /\ c[k].to # w => acc.pred[c[k].to] # 0 /\ c[k] = g[acc.pred[c[k].to]]
    <3>1. CASE c[k].to = w
      <4>1. c[k] = g[i]
        BY <1>8, <2>2, <2>3, <3>1
      <4> QED BY <1>1, <1>2, <3>1, <4>1 DEF u, w, V
    <3>2. CASE c[k].to # w
      <4>1. acc.pred[c[k].to] # 0 /\ c[k] = g[acc.pred[c[k].to]]
        BY <1>8, <2>2, <2>3, <3>2
      <4>2. Behind(g, acc, when, c[k].to)
        BY <2>2, <4>1 DEF Known, V
      <4> QED BY <3>2, <4>1, <4>2 DEF Behind
    <3> QED BY <3>1, <3>2
  <2>5. CASE \E q \in 1..Len(c) : c[q].to = w
    <3>1. acc.dist \in [Vertices(g) -> Int]
      BY <1>2 DEF V
    <3> QED BY <2>1, <2>4, <2>5, <3>1, ImprovingLoopsGain
  <2>6. CASE \A q \in 1..Len(c) : c[q].to # w
    <3>1. PredLoop(g, acc.pred, c)
      BY <2>1, <2>2, <2>4, <2>6 DEF PredLoop
    <3> QED BY <3>1 DEF Known
  <2> QED BY <2>5, <2>6
<1>13. Known(g, new, then, p, i)
  BY <1>1, <1>3, <1>6, <1>7, <1>9, <1>10, <1>11, <1>12 DEF Known, V
<1> QED BY <1>13 DEF new, then, w
\* All nodes at distance 0, before the first edge.
LEMMA NothingKnown ==
  ASSUME NEW g \in Seq(Exchange)
  PROVE  Known(g, [Untouched(g) EXCEPT !.last = NoNode], [v \in Vertices(g) |-> 0], 1, 0)
<1> DEFINE acc == [Untouched(g) EXCEPT !.last = NoNode]
           when == [v \in Vertices(g) |-> 0]
<1>1. acc.pred = [v \in Vertices(g) |-> 0] /\ acc.last = NoNode
  BY DEF Untouched
<1>2. \A j \in Weighted(g) : j \in 1..Len(g) /\ g[j].from \in Vertices(g)
  <2> TAKE j \in Weighted(g)
  <2>1. j \in 1..Len(g)
    BY DEF Weighted
  <2> QED BY <2>1, EdgesAreTyped
<1>3. Settling(g, acc, when, 1, 0)
  <2> SUFFICES ASSUME NEW j \in Weighted(g), when[g[j].from] < (IF j <= 0 THEN 1 ELSE 1 - 1)
               PROVE  FALSE
    BY DEF Settling
  <2>1. ~(j <= 0) /\ when[g[j].from] = 0
    BY <1>2
  <2> HIDE DEF when
  <2> QED BY <2>1
<1>4. ASSUME NEW c PROVE ~PredLoop(g, acc.pred, c)
  <2> SUFFICES ASSUME PredLoop(g, acc.pred, c) PROVE FALSE
    OBVIOUS
  <2>1. 1 \in DOMAIN c /\ c[1].to \in Vertices(g)
    BY LoopsAreTyped DEF PredLoop
  <2> QED BY <1>1, <2>1 DEF PredLoop
<1>5. when \in [Vertices(g) -> 0..1] /\ \A v \in Vertices(g) : when[v] = 0 /\ acc.pred[v] = 0
  BY <1>1
<1> HIDE DEF when, acc
<1>6. Known(g, acc, when, 1, 0)
  BY <1>1, <1>3, <1>4, <1>5 DEF Known
<1> QED BY <1>6 DEF when, acc

\* What a pass ends with, the next one begins with.
LEMMA PassBegins ==
  ASSUME NEW g \in Seq(Exchange), NEW acc \in Tables(g), NEW p \in Nat \ {0},
         NEW when, Known(g, acc, when, p, Len(g))
  PROVE  Known(g, [acc EXCEPT !.last = NoNode], when, p + 1, 0)
<1> DEFINE new == [acc EXCEPT !.last = NoNode]
<1>1. new.dist = acc.dist /\ new.pred = acc.pred /\ new.last = NoNode
  BY DEF Tables
<1>2. when \in [Vertices(g) -> 0..p]
  BY DEF Known
<1>3. when \in [Vertices(g) -> 0..(p + 1)] /\ \A v \in Vertices(g) : when[v] < p + 1
  BY <1>2
<1>4. Settling(g, new, when, p + 1, 0)
  <2> SUFFICES ASSUME NEW j \in Weighted(g),
                      when[g[j].from] < (IF j <= 0 THEN p + 1 ELSE (p + 1) - 1)
               PROVE  Settled(g, acc.dist, j)
    BY <1>1 DEF Settling
  <2>1. j \in 1..Len(g) /\ Len(g) \in Nat
    BY DEF Weighted
  <2>2. ~(j <= 0) /\ j <= Len(g)
    BY <2>1
  <2>3. when[g[j].from] < p
    BY <2>2
  <2> QED BY <2>2, <2>3 DEF Known, Settling
<1> HIDE DEF new
<1>5. Known(g, new, when, p + 1, 0)
  BY <1>1, <1>3, <1>4 DEF Known, Behind
<1> QED BY <1>5 DEF new

\* A whole pass.
LEMMA PassKnows ==
  ASSUME NEW g \in Seq(Exchange), NEW acc \in Tables(g), NEW p \in Nat \ {0},
         \E when : Known(g, [acc EXCEPT !.last = NoNode], when, p, 0)
  PROVE  \E when : Known(g, Pass(g, acc), when, p, Len(g))
<1>1. PICK h \in [0..Len(g) -> Tables(g)] :
        /\ h[0] = [acc EXCEPT !.last = NoNode]
        /\ \A i \in 1..Len(g) : h[i] = Relax(g, h[i - 1], i)
        /\ Pass(g, acc) = h[Len(g)]
  BY PassUnfolds
<1> DEFINE Good == {i \in Nat : i \in 0..Len(g) => \E when : Known(g, h[i], when, p, i)}
<1>2. 0 \in Good
  BY <1>1
<1>3. ASSUME NEW i \in Nat, i \in Good PROVE i + 1 \in Good
  <2> SUFFICES ASSUME i + 1 \in 0..Len(g) PROVE \E when : Known(g, h[i + 1], when, p, i + 1)
    OBVIOUS
  <2>1. i \in 0..Len(g) /\ i + 1 \in 1..Len(g) /\ (i + 1) - 1 = i
    OBVIOUS
  <2>2. h[i + 1] = Relax(g, h[i], i + 1) /\ h[i] \in Tables(g)
    BY <1>1, <2>1
  <2>3. PICK when : Known(g, h[i], when, p, i)
    BY <1>3, <2>1
  <2>4. CASE Improves(g, h[i], i + 1)
    BY <2>1, <2>2, <2>3, <2>4, RelaxKeepsKnown
  <2>5. CASE ~Improves(g, h[i], i + 1)
    <3>1. h[i + 1] = h[i]
      BY <2>2, <2>5 DEF Relax
    <3> QED BY <2>1, <2>2, <2>3, <2>5, <3>1, IdleKeepsKnown
  <2> QED BY <2>4, <2>5
<1>4. Nat \subseteq Good
  <2> HIDE DEF Good
  <2> QED BY <1>2, <1>3, UpFromZero
<1>5. Len(g) \in 0..Len(g) /\ Len(g) \in Nat
  OBVIOUS
<1> QED BY <1>1, <1>4, <1>5

\* All passes.
LEMMA PassesKnow ==
  ASSUME NEW g \in Seq(Exchange), NEW n \in Nat \ {0}
  PROVE  /\ Passes(g, n) \in Tables(g)
         /\ \E when : Known(g, Passes(g, n), when, n, Len(g))
<1>1. PICK h \in [0..n -> Tables(g)] :
        /\ h[0] = Untouched(g)
        /\ \A p \in 1..n : h[p] = Pass(g, h[p - 1])
        /\ Passes(g, n) = h[n]
  BY PassesUnfold
<1> DEFINE Good == {p \in Nat : p + 1 \in 1..n =>
                      \E when : Known(g, h[p + 1], when, p + 1, Len(g))}
<1>2. 0 \in Good
  <2>1. 1 \in 1..n /\ 0 \in 0..n
    OBVIOUS
  <2>2. h[1] = Pass(g, Untouched(g)) /\ Untouched(g) \in Tables(g)
    BY <1>1, <2>1
  <2>3. \E when : Known(g, [Untouched(g) EXCEPT !.last = NoNode], when, 1, 0)
    BY NothingKnown
  <2>4. \E when : Known(g, Pass(g, Untouched(g)), when, 1, Len(g))
    BY <2>2, <2>3, PassKnows
  <2> QED BY <2>2, <2>4
<1>3. ASSUME NEW p \in Nat, p \in Good PROVE p + 1 \in Good
  <2> SUFFICES ASSUME (p + 1) + 1 \in 1..n
               PROVE  \E when : Known(g, h[(p + 1) + 1], when, (p + 1) + 1, Len(g))
    OBVIOUS
  <2>1. p + 1 \in 1..n /\ p + 1 \in 0..n /\ p + 1 \in Nat \ {0} /\ (p + 1) + 1 \in Nat \ {0}
        /\ ((p + 1) + 1) - 1 = p + 1
    OBVIOUS
  <2>2. h[(p + 1) + 1] = Pass(g, h[p + 1]) /\ h[p + 1] \in Tables(g)
    BY <1>1, <2>1
  <2>3. PICK when : Known(g, h[p + 1], when, p + 1, Len(g))
    BY <1>3, <2>1
  <2>4. Known(g, [h[p + 1] EXCEPT !.last = NoNode], when, (p + 1) + 1, 0)
    BY <2>1, <2>2, <2>3, PassBegins
  <2> QED BY <2>1, <2>2, <2>4, PassKnows
<1>4. Nat \subseteq Good
  <2> HIDE DEF Good
  <2> QED BY <1>2, <1>3, UpFromZero
<1>5. n - 1 \in Nat /\ (n - 1) + 1 = n /\ n \in 1..n /\ n \in 0..n
  OBVIOUS
<1>6. \E when : Known(g, h[n], when, n, Len(g))
  <2>1. n - 1 \in Good
    BY <1>4, <1>5
  <2> QED BY <1>5, <2>1
<1> QED BY <1>1, <1>5, <1>6

-----------------------------------------------------------------------------
(* The walk back.                                                           *)

\* The walk back from v, one predecessor at a time.
Walks(g, pred, v) ==
  \A k \in Nat : Back(g, pred, v, k + 1) = Previous(g, pred, Back(g, pred, v, k))

\* Two walks that meet stay together.
LEMMA WalksJoin ==
  ASSUME NEW g, NEW pred, NEW u, NEW v, Walks(g, pred, u), Walks(g, pred, v),
         NEW a \in Nat, NEW b \in Nat, Back(g, pred, u, a) = Back(g, pred, v, b), NEW n \in Nat
  PROVE  Back(g, pred, u, a + n) = Back(g, pred, v, b + n)
<1> DEFINE Good == {k \in Nat : Back(g, pred, u, a + k) = Back(g, pred, v, b + k)}
<1>1. 0 \in Good
  <2>1. a + 0 = a /\ b + 0 = b
    OBVIOUS
  <2> QED BY <2>1
<1>2. ASSUME NEW k \in Nat, k \in Good PROVE k + 1 \in Good
  <2>1. a + (k + 1) = (a + k) + 1 /\ b + (k + 1) = (b + k) + 1 /\ a + k \in Nat /\ b + k \in Nat
    OBVIOUS
  <2>2. Back(g, pred, u, (a + k) + 1) = Previous(g, pred, Back(g, pred, u, a + k))
    BY <2>1 DEF Walks
  <2>3. Back(g, pred, v, (b + k) + 1) = Previous(g, pred, Back(g, pred, v, b + k))
    BY <2>1 DEF Walks
  <2> QED BY <1>2, <2>1, <2>2, <2>3
<1>3. Nat \subseteq Good
  <2> HIDE DEF Good
  <2> QED BY <1>1, <1>2, UpFromZero
<1> QED BY <1>3

\* From a node relaxed in pass n + 1, n steps back do not reach a node that
\* was never relaxed.
LEMMA WalkIsLong ==
  ASSUME NEW g \in Seq(Exchange), NEW acc \in Tables(g), NEW n \in Nat, NEW when,
         Known(g, acc, when, n + 1, Len(g)), acc.last # NoNode
  PROVE  \A k \in 0..n : Back(g, acc.pred, acc.last, k) \in Vertices(g)
<1> DEFINE B(k) == Back(g, acc.pred, acc.last, k)
           V == Vertices(g)
           Good == {k \in Nat : k <= n => B(k) \in V /\ when[B(k)] >= (n + 1) - k}
<1>1. acc.pred \in [V -> 0..Len(g)] /\ acc.last \in V
  BY DEF Tables
<1>2. B(0) = acc.last /\ \A k \in Nat : B(k + 1) = Previous(g, acc.pred, B(k))
  BY <1>1, BackUnfolds
<1>3. when \in [V -> 0..(n + 1)] /\ when[acc.last] = n + 1
  BY DEF Known
<1>4. NoNode \notin V
  BY EdgesAreTyped DEF Vertices
<1> HIDE DEF B
<1>5. 0 \in Good
  <2>1. B(0) \in V /\ when[B(0)] = n + 1
    BY <1>1, <1>2, <1>3
  <2>2. (n + 1) - 0 = n + 1 /\ n + 1 >= n + 1
    OBVIOUS
  <2> HIDE DEF V
  <2> QED BY <2>1, <2>2
<1>6. ASSUME NEW k \in Nat, k \in Good PROVE k + 1 \in Good
  <2> SUFFICES ASSUME k + 1 <= n PROVE B(k + 1) \in V /\ when[B(k + 1)] >= (n + 1) - (k + 1)
    OBVIOUS
  <2>1. B(k) \in V /\ when[B(k)] >= (n + 1) - k /\ when[B(k)] \in Int
    BY <1>3, <1>6
  <2>2. when[B(k)] # 0
    BY <2>1
  <2>3. acc.pred[B(k)] # 0 /\ Behind(g, acc, when, B(k))
    BY <2>1, <2>2 DEF Known
  <2> DEFINE e == g[acc.pred[B(k)]]
  <2>4. B(k + 1) = e.from
    BY <1>2, <1>4, <2>1, <2>3 DEF Previous
  <2>5. acc.pred[B(k)] \in 1..Len(g)
    BY <2>3 DEF Behind, Weighted
  <2>6. e.from \in V
    BY <2>5, EdgesAreTyped
  <2>7. when[e.from] >= when[B(k)] - 1 /\ when[e.from] \in Int
    BY <1>3, <2>3, <2>6 DEF Behind
  <2> HIDE DEF e
  <2> QED BY <2>1, <2>4, <2>6, <2>7
<1>7. Nat \subseteq Good
  <2> HIDE DEF Good
  <2> QED BY <1>5, <1>6, UpFromZero
<1> QED BY <1>7 DEF B

\* So the walk comes to a node from which a walk of at most n steps returns.
LEMMA WalkReturns ==
  ASSUME NEW g \in Seq(Exchange), NEW acc \in Tables(g), NEW when,
         IsFiniteSet(Vertices(g)), NEW n, n = Cardinality(Vertices(g)),
         Known(g, acc, when, n + 1, Len(g)), acc.last # NoNode
  PROVE  LET on == Back(g, acc.pred, acc.last, n) IN
         /\ n \in Nat /\ on \in Vertices(g)
         /\ \E k \in 1..n : Back(g, acc.pred, on, k) = on
<1> DEFINE B(k) == Back(g, acc.pred, acc.last, k)
           V == Vertices(g)
           f == [k \in 0..n |-> B(k)]
<1>1. n \in Nat
  BY FS_CardinalityType
<1>2. acc.pred \in [V -> 0..Len(g)] /\ acc.last \in V
  BY DEF Tables
<1>3. \A k \in 0..n : B(k) \in V
  BY <1>1, WalkIsLong
<1>4. f \in [0..n -> V]
  <2> HIDE DEF B
  <2> QED BY <1>3
<1>5. PICK x \in 0..n, y \in 0..n : x # y /\ f[x] = f[y]
  <2>1. IsFiniteSet(0..n) /\ Cardinality(0..n) = n + 1
    <3>1. 0 \in Int /\ n \in Int /\ ~(0 > n) /\ n - 0 + 1 = n + 1
      BY <1>1
    <3> QED BY <3>1, FS_Interval
  <2>2. IsFiniteSet(V) /\ Cardinality(V) < Cardinality(0..n)
    BY <1>1, <2>1
  <2> HIDE DEF f, B, V
  <2>3. \E x, y \in 0..n : x # y /\ f[x] = f[y]
    BY ONLY <1>4, <2>1, <2>2, FS_PigeonHole
  <2> QED BY <2>3
<1>6. PICK a \in 0..n, b \in 0..n : a < b /\ B(a) = B(b)
  <2>1. B(x) = B(y)
    BY <1>5
  <2>2. x < y \/ y < x
    BY <1>1, <1>5
  <2> HIDE DEF B, f
  <2> QED BY <2>1, <2>2
<1>7. a \in Nat /\ b \in Nat /\ n - a \in Nat /\ b - a \in 1..n /\ b - a \in Nat
      /\ a + (n - a) = n /\ b + (n - a) = n + (b - a)
  BY <1>1, <1>6
<1>8. B(a + (n - a)) = B(b + (n - a))
  <2>1. Walks(g, acc.pred, acc.last) /\ a \in Nat /\ b \in Nat
    <3>1. acc.last \in Vertices(g) \cup {NoNode}
      BY <1>2
    <3>2. \A k \in Nat : Back(g, acc.pred, acc.last, k + 1)
                           = Previous(g, acc.pred, Back(g, acc.pred, acc.last, k))
      BY <1>2, <3>1, BackUnfolds
    <3>3. a \in Nat /\ b \in Nat
      BY <1>7
    <3> QED BY <3>2, <3>3 DEF Walks
  <2>2. Back(g, acc.pred, acc.last, a) = Back(g, acc.pred, acc.last, b)
    BY <1>6
  <2>3. ASSUME NEW k \in Nat
        PROVE  Back(g, acc.pred, acc.last, a + k) = Back(g, acc.pred, acc.last, b + k)
    BY <2>1, <2>2, WalksJoin
  <2> QED BY <1>7, <2>3
<1>9. B(n) \in V /\ B(n) = B(n + (b - a))
  <2>1. n \in 0..n
    BY <1>1
  <2> HIDE DEF B
  <2> QED BY <1>3, <1>7, <1>8, <2>1
<1>10. Back(g, acc.pred, B(n), b - a) = B(n + (b - a))
  <2>1. Back(g, acc.pred, B(n), 0) = B(n)
    BY <1>2, <1>9, BackUnfolds
  <2>2. \A k \in Nat : Back(g, acc.pred, B(n), 0 + k) = B(n + k)
    <3> DEFINE on == B(n)
    <3>1. Walks(g, acc.pred, acc.last) /\ Walks(g, acc.pred, on)
      <4>1. Walks(g, acc.pred, acc.last)
        BY <1>2, BackUnfolds DEF Walks
      <4>2. on \in Vertices(g) \cup {NoNode}
        BY <1>9
      <4> HIDE DEF on
      <4>3. Walks(g, acc.pred, on)
        BY <1>2, <4>2, BackUnfolds DEF Walks
      <4> QED BY <4>1, <4>3
    <3>2. Back(g, acc.pred, on, 0) = Back(g, acc.pred, acc.last, n)
      BY <2>1
    <3> HIDE DEF on
    <3>3. ASSUME NEW k \in Nat
          PROVE  Back(g, acc.pred, on, 0 + k) = Back(g, acc.pred, acc.last, n + k)
      BY <1>1, <3>1, <3>2, WalksJoin
    <3> QED BY <3>3 DEF on
  <2>3. 0 + (b - a) = b - a
    BY <1>7
  <2> QED BY <1>7, <2>2, <2>3
<1> QED BY <1>1, <1>7, <1>9, <1>10

\* The shortest walk that returns is a loop, edge for edge along predecessors.
LEMMA TraceIsLoop ==
  ASSUME NEW g \in Seq(Exchange), NEW acc \in Tables(g), NEW when, NEW p, NEW i,
         Known(g, acc, when, p, i), NEW on \in Vertices(g), NEW length \in Nat \ {0},
         Back(g, acc.pred, on, length) = on,
         \A k \in 1..length : Back(g, acc.pred, on, k) = on => length <= k
  PROVE  PredLoop(g, acc.pred,
                  [j \in 1..length |-> g[acc.pred[Back(g, acc.pred, on, length - j)]]])
<1> DEFINE B(k) == Back(g, acc.pred, on, k)
           V == Vertices(g)
           c == [j \in 1..length |-> g[acc.pred[B(length - j)]]]
<1>1. acc.pred \in [V -> 0..Len(g)]
  BY DEF Tables
<1>2. /\ B(0) = on /\ B(length) = on
      /\ \A k \in Nat : B(k) \in V \cup {NoNode} /\ B(k + 1) = Previous(g, acc.pred, B(k))
  <2>1. on \in Vertices(g) \cup {NoNode}
    OBVIOUS
  <2>2. Back(g, acc.pred, on, 0) = on
    BY <1>1, <2>1, BackUnfolds
  <2>3. \A k \in Nat : /\ Back(g, acc.pred, on, k) \in Vertices(g) \cup {NoNode}
                      /\ Back(g, acc.pred, on, k + 1)
                           = Previous(g, acc.pred, Back(g, acc.pred, on, k))
    BY <1>1, <2>1, BackUnfolds
  <2> QED BY <2>2, <2>3
<1>3. NoNode \notin V
  BY EdgesAreTyped DEF Vertices
<1>4. \A k \in 0..length : B(k) # NoNode
  <2> DEFINE Good == {k \in Nat : k <= length => B(length - k) # NoNode}
  <2> HIDE DEF B
  <2>1. 0 \in Good
    <3>1. length - 0 = length
      OBVIOUS
    <3> QED BY <1>2, <1>3, <3>1
  <2>2. ASSUME NEW k \in Nat, k \in Good PROVE k + 1 \in Good
    <3> SUFFICES ASSUME k + 1 <= length, B(length - (k + 1)) = NoNode PROVE FALSE
      OBVIOUS
    <3>1. length - (k + 1) \in Nat /\ (length - (k + 1)) + 1 = length - k /\ k <= length
      OBVIOUS
    <3>2. B(length - k) = Previous(g, acc.pred, B(length - (k + 1)))
      BY <1>2, <3>1
    <3>3. B(length - k) = NoNode
      BY <3>2 DEF Previous
    <3> QED BY <2>2, <3>1, <3>3
  <2>3. Nat \subseteq Good
    <3> HIDE DEF Good
    <3> QED BY <2>1, <2>2, UpFromZero
  <2>4. ASSUME NEW k \in 0..length PROVE B(k) # NoNode
    <3>1. length - k \in Nat /\ length - k <= length /\ length - (length - k) = k
      OBVIOUS
    <3>2. length - k \in Good
      BY <2>3, <3>1
    <3> QED BY <3>1, <3>2
  <2> QED BY <2>4
<1> HIDE DEF B
<1>5. ASSUME NEW k \in 0..(length - 1)
      PROVE  /\ B(k) \in V /\ acc.pred[B(k)] # 0 /\ acc.pred[B(k)] \in Weighted(g)
             /\ g[acc.pred[B(k)]].to = B(k) /\ g[acc.pred[B(k)]].from = B(k + 1)
  <2>1. k \in Nat /\ k \in 0..length /\ k + 1 \in 0..length
    OBVIOUS
  <2>2. B(k) \in V /\ B(k + 1) # NoNode /\ B(k + 1) = Previous(g, acc.pred, B(k))
    BY <1>2, <1>4, <2>1
  <2>3. acc.pred[B(k)] # 0 /\ B(k + 1) = g[acc.pred[B(k)]].from
    BY <2>2 DEF Previous
  <2>4. Behind(g, acc, when, B(k))
    BY <2>2, <2>3 DEF Known
  <2> QED BY <2>2, <2>3, <2>4 DEF Behind
<1>6. ASSUME NEW j \in 1..length
      PROVE  /\ c[j] \in {g[m] : m \in Weighted(g)}
             /\ c[j].to = B(length - j) /\ c[j].from = B((length - j) + 1)
             /\ acc.pred[c[j].to] # 0 /\ c[j] = g[acc.pred[c[j].to]]
  <2>1. length - j \in 0..(length - 1)
    OBVIOUS
  <2>2. c[j] = g[acc.pred[B(length - j)]]
    OBVIOUS
  <2> HIDE DEF c
  <2>3. c[j].to = B(length - j) /\ c[j].from = B((length - j) + 1)
    BY <1>5, <2>1, <2>2
  <2> QED BY <1>5, <2>1, <2>2, <2>3
<1>7. DOMAIN c = 1..length /\ Len(c) = length
  OBVIOUS
<1>8. c \in Seq({g[m] : m \in Weighted(g)}) /\ c # <<>>
  <2> DEFINE E == {g[m] : m \in Weighted(g)}
  <2>1. c \in [1..length -> E]
    <3>1. \A j \in 1..length : c[j] \in E
      BY <1>6
    <3> HIDE DEF E
    <3> QED BY <3>1
  <2> HIDE DEF c, E
  <2>2. c \in Seq(E)
    BY <2>1
  <2>3. c # <<>>
    BY <1>7
  <2> QED BY <2>2, <2>3 DEF E
<1> HIDE DEF c
<1>9. ASSUME NEW j \in 1..length
      PROVE  c[j].from = c[IF j = 1 THEN length ELSE j - 1].to
  <2>1. CASE j = 1
    <3>1. (length - 1) + 1 = length /\ length - length = 0 /\ length \in 1..length
      OBVIOUS
    <3>2. c[1].from = on /\ c[length].to = on
      BY <1>2, <1>6, <2>1, <3>1
    <3> QED BY <2>1, <3>2
  <2>2. CASE j # 1
    <3>1. j - 1 \in 1..length /\ length - (j - 1) = (length - j) + 1
      BY <2>2
    <3>2. c[j - 1].to = B(length - (j - 1))
      BY <1>6, <3>1
    <3>3. c[j].from = B((length - j) + 1)
      BY <1>6
    <3> QED BY <2>2, <3>1, <3>2, <3>3
  <2> QED BY <2>1, <2>2
<1>10. ASSUME NEW a \in 1..length, NEW b \in 1..length, a < b, B(a) = B(b) PROVE FALSE
  <2>1. a \in Nat /\ b \in Nat /\ length - b \in Nat
        /\ b + (length - b) = length /\ a + (length - b) \in 1..length
        /\ a + (length - b) < length
    BY <1>10
  <2>2. B(a + (length - b)) = B(b + (length - b))
    <3>1. Back(g, acc.pred, on, a) = Back(g, acc.pred, on, b)
      BY <1>10 DEF B
    <3>2. Walks(g, acc.pred, on)
      BY <1>1, BackUnfolds DEF Walks
    <3>3. ASSUME NEW k \in Nat
          PROVE  Back(g, acc.pred, on, a + k) = Back(g, acc.pred, on, b + k)
      BY <1>1, <2>1, <3>1, <3>2, WalksJoin
    <3> QED BY <2>1, <3>3 DEF B
  <2>3. B(a + (length - b)) = on
    BY <1>2, <2>1, <2>2
  <2>4. length <= a + (length - b)
    BY <2>1, <2>3 DEF B
  <2> QED BY <2>1, <2>4
<1>11. ASSUME NEW j \in 1..length, NEW k \in 1..length, c[j].from = c[k].from PROVE j = k
  <2>1. (length - j) + 1 \in 1..length /\ (length - k) + 1 \in 1..length
    OBVIOUS
  <2>2. B((length - j) + 1) = B((length - k) + 1)
    BY <1>6, <1>11
  <2>3. ~((length - j) + 1 < (length - k) + 1) /\ ~((length - k) + 1 < (length - j) + 1)
    BY <1>10, <2>1, <2>2
  <2> QED BY <2>3
<1>12. IsLoop(c, g)
  BY <1>7, <1>8, <1>9, <1>11 DEF IsLoop
<1>13. PredLoop(g, acc.pred, c)
  BY <1>6, <1>7, <1>12 DEF PredLoop
<1> QED BY <1>13 DEF c, B

-----------------------------------------------------------------------------
(* The detector.                                                            *)

\* For any graph: it ends, what it reports is a loop that gains, and it is
\* silent only if none does.
Judged(g, scanned, loop) ==
  /\ scanned \in {"Scanning", "None", "Loop"}
  /\ scanned = "Loop" => IsLoop(loop, g) /\ SumOfWeights(loop) < 0
  /\ scanned = "None" => \A c : IsLoop(c, g) => SumOfWeights(c) >= 0

\* A graph has finitely many nodes.
LEMMA VerticesAreFinite ==
  ASSUME NEW g \in Seq(Exchange)
  PROVE  IsFiniteSet(Vertices(g)) /\ Cardinality(Vertices(g)) \in Nat
<1> DEFINE n == Len(g)
           From == {g[i].from : i \in 1..n}
           To == {g[i].to : i \in 1..n}
<1>1. n \in Nat /\ DOMAIN g = 1..n
  OBVIOUS
<1>2. IsFiniteSet(1..n)
  BY <1>1, FS_Interval
<1>3. IsFiniteSet(From)
  <2> DEFINE f == [i \in 1..n |-> g[i].from]
  <2>1. f \in Surjection(1..n, From)
    BY DEF Surjection
  <2> HIDE DEF f, From
  <2> QED BY <1>2, <2>1, FS_Surjection
<1>4. IsFiniteSet(To)
  <2> DEFINE f == [i \in 1..n |-> g[i].to]
  <2>1. f \in Surjection(1..n, To)
    BY DEF Surjection
  <2> HIDE DEF f, To
  <2> QED BY <1>2, <2>1, FS_Surjection
<1>5. Vertices(g) = From \cup To
  BY <1>1 DEF Vertices
<1>6. IsFiniteSet(Vertices(g))
  BY <1>3, <1>4, <1>5, FS_Union
<1> QED BY <1>6, FS_CardinalityType

\* arbitrage.rs:70-170, for every graph.
LEMMA DetectorIsRight ==
  ASSUME NEW g \in Seq(Exchange), NEW n, n = Cardinality(Vertices(g))
  PROVE  Judged(g, DetectArbitrage(g, n).scan, DetectArbitrage(g, n).cycle)
<1> DEFINE acc == Passes(g, n + 1)
           V == Vertices(g)
           on == Back(g, acc.pred, acc.last, n)
<1>1. IsFiniteSet(V) /\ n \in Nat /\ n + 1 \in Nat \ {0}
  BY VerticesAreFinite
<1>2. PICK when : acc \in Tables(g) /\ Known(g, acc, when, n + 1, Len(g))
  BY <1>1, PassesKnow
<1>3. DetectArbitrage(g, n) = Report(g, acc, n)
  BY DEF DetectArbitrage
<1> HIDE DEF acc
<1>4. CASE acc.last = NoNode
  <2>1. DetectArbitrage(g, n) = None
    BY <1>3, <1>4 DEF Report
  <2>2. ASSUME NEW j \in Weighted(g) PROVE Settled(g, acc.dist, j)
    <3>1. j \in 1..Len(g)
      BY DEF Weighted
    <3>2. j <= Len(g) /\ when[g[j].from] < n + 1
      BY <1>2, <1>4, <3>1, EdgesAreTyped DEF Known
    <3> QED BY <1>2, <3>2 DEF Known, Settling
  <2>3. ASSUME NEW c, IsLoop(c, g) PROVE SumOfWeights(c) >= 0
    <3>1. acc.dist \in [V -> Int]
      BY <1>2 DEF Tables
    <3>2. \A k \in 1..Len(c) : acc.dist[c[k].to] <= acc.dist[c[k].from] + c[k].weight
      BY <2>2, <2>3, LoopsAreTyped DEF Settled
    <3> QED BY <2>3, <3>1, <3>2, SettledLoopsLose
  <2> QED BY <2>1, <2>3 DEF None, Judged
<1>5. CASE acc.last # NoNode
  <2> DEFINE lengths == {k \in 1..n : Back(g, acc.pred, on, k) = on}
             length == CHOOSE k \in lengths : \A j \in lengths : k <= j
             c == [i \in 1..length |-> g[acc.pred[Back(g, acc.pred, on, length - i)]]]
  <2>1. on \in V /\ lengths # {}
    BY <1>1, <1>2, <1>5, WalkReturns
  <2>2. length \in lengths /\ \A j \in lengths : length <= j
    <3>1. PICK x \in lengths : \A y \in lengths : ~(y < x)
      <4>1. lengths \subseteq Nat
        BY <1>1
      <4> HIDE DEF lengths
      <4> QED BY <2>1, <4>1, LessThanDescends
    <3>2. \A y \in lengths : x <= y
      <4>1. x \in Int /\ \A y \in lengths : y \in Int
        BY <1>1
      <4> HIDE DEF lengths
      <4> QED BY <3>1, <4>1
    <3> HIDE DEF lengths
    <3> QED BY <3>2
  <2>3. NoNode \notin V
    BY EdgesAreTyped DEF Vertices
  <2>4. DetectArbitrage(g, n) = Traced(g, acc.pred, on, n)
    BY <1>3, <1>5 DEF Report
  <2>5. Traced(g, acc.pred, on, n) = Loop(c)
    <3> HIDE DEF on
    <3> QED BY <2>1, <2>3, Zenon DEF Traced
  <2>6. /\ length \in Nat \ {0} /\ length <= n /\ Back(g, acc.pred, on, length) = on
        /\ \A k \in 1..length : Back(g, acc.pred, on, k) = on => length <= k
    <3> HIDE DEF on, length
    <3> QED BY <1>1, <2>2
  <2> HIDE DEF length, lengths
  <2>7. PredLoop(g, acc.pred, c)
    <3> HIDE DEF on, c
    <3> QED BY <1>2, <2>1, <2>6, TraceIsLoop DEF c
  <2>8. SumOfWeights(c) < 0
    <3> HIDE DEF c
    <3> QED BY <1>2, <2>7 DEF Known
  <2>9. IsLoop(c, g)
    <3> HIDE DEF c
    <3> QED BY <2>7 DEF PredLoop
  <2>10. DetectArbitrage(g, n).scan = "Loop" /\ DetectArbitrage(g, n).cycle = c
    <3> HIDE DEF c
    <3> QED BY <2>4, <2>5 DEF Loop
  <2> HIDE DEF c
  <2> QED BY <2>8, <2>9, <2>10 DEF Judged
<1> QED BY <1>4, <1>5

-----------------------------------------------------------------------------
(* The snapshot of the engine's quotes.                                     *)

\* There are finitely many nodes.
LEMMA NodesAreFinite == IsFiniteSet(Nodes)
<1> DEFINE f == [x \in Chains \X Assets |-> [chain |-> x[1], asset |-> x[2]]]
<1>1. IsFiniteSet(Chains \X Assets)
  BY PlannerAssumption, FS_Product
<1>2. f \in [Chains \X Assets -> Nodes]
  BY DEF Nodes
<1>3. ASSUME NEW n \in Nodes PROVE \E x \in Chains \X Assets : f[x] = n
  <2>1. <<n.chain, n.asset>> \in Chains \X Assets
    BY DEF Nodes
  <2>2. f[<<n.chain, n.asset>>] = n
    BY <2>1 DEF Nodes
  <2> HIDE DEF f
  <2> QED BY <2>1, <2>2
<1>4. f \in Surjection(Chains \X Assets, Nodes)
  <2> HIDE DEF f
  <2> QED BY <1>2, <1>3 DEF Surjection
<1> HIDE DEF f
<1> QED BY <1>1, <1>4, FS_Surjection

\* A bridge leads to the other chains, at most one leg to each.
LEMMA BridgesAreTyped ==
  ASSUME NEW how, NEW n \in Nodes, NEW amount, NEW quote
  PROVE  /\ IsFiniteSet(Bridges(how, n, amount, quote))
         /\ \A leg \in Bridges(how, n, amount, quote) :
              leg.from \in Nodes /\ leg.to \in Nodes
<1> DEFINE others == Chains \ {n.chain}
           f == [c \in others |->
                   Leg(how, n, [n EXCEPT !.chain = c], amount, quote.out, quote.fee)]
<1>1. IsFiniteSet(others)
  BY PlannerAssumption, FS_Subset
<1>2. f \in Surjection(others, Bridges(how, n, amount, quote))
  BY DEF Surjection, Bridges
<1>3. IsFiniteSet(Bridges(how, n, amount, quote))
  <2> HIDE DEF f, others
  <2> QED BY <1>1, <1>2, FS_Surjection
<1>4. \A leg \in Bridges(how, n, amount, quote) : leg.from \in Nodes /\ leg.to \in Nodes
  BY DEF Bridges, Leg, Nodes
<1> QED BY <1>3, <1>4

\* So does the pool of a chain, to its other assets.
LEMMA SwapLegsAreTyped ==
  ASSUME NEW n \in Nodes, NEW amount
  PROVE  /\ IsFiniteSet(SwapLegs(n, amount))
         /\ \A leg \in SwapLegs(n, amount) : leg.from \in Nodes /\ leg.to \in Nodes
<1> DEFINE others == Assets \ {n.asset}
           f == [a \in others |-> [to |-> [n EXCEPT !.asset = a],
                                   quote |-> SwapQuote(n.chain, n.asset, a, amount)]]
           offered == {s \in Swaps(n, amount) : s.quote.error = "None"}
           h == [s \in offered |-> Leg("Swap", n, s.to, amount, s.quote.out, s.quote.fee)]
<1>1. IsFiniteSet(others)
  BY PlannerAssumption, FS_Subset
<1>2. f \in Surjection(others, Swaps(n, amount))
  BY DEF Surjection, Swaps
<1>3. IsFiniteSet(Swaps(n, amount))
  <2> HIDE DEF f, others
  <2> QED BY <1>1, <1>2, FS_Surjection
<1>4. IsFiniteSet(offered)
  BY <1>3, FS_Subset
<1>5. h \in Surjection(offered, SwapLegs(n, amount))
  BY DEF Surjection, SwapLegs
<1>6. IsFiniteSet(SwapLegs(n, amount))
  <2> HIDE DEF h, offered
  <2> QED BY <1>4, <1>5, FS_Surjection
<1>7. \A leg \in SwapLegs(n, amount) : leg.from \in Nodes /\ leg.to \in Nodes
  <2>1. \A s \in Swaps(n, amount) : s.to \in Nodes
    BY DEF Swaps, Nodes
  <2>2. \A leg \in SwapLegs(n, amount) : \E s \in Swaps(n, amount) : leg.from = n /\ leg.to = s.to
    BY DEF SwapLegs, Leg
  <2> QED BY <2>1, <2>2
<1> QED BY <1>6, <1>7

\* All offers.
LEMMA LegsAreTyped ==
  ASSUME NEW n \in Nodes, NEW amount
  PROVE  /\ IsFiniteSet(Legs(n, amount))
         /\ \A leg \in Legs(n, amount) : leg.from \in Nodes /\ leg.to \in Nodes
<1>1. /\ IsFiniteSet(CctpLegs(n, amount))
      /\ \A leg \in CctpLegs(n, amount) : leg.from \in Nodes /\ leg.to \in Nodes
  <2>1. IsFiniteSet({})
    BY FS_EmptySet
  <2> QED BY <2>1, BridgesAreTyped DEF CctpLegs
<1>2. /\ IsFiniteSet(DeBridgeLegs(n, amount))
      /\ \A leg \in DeBridgeLegs(n, amount) : leg.from \in Nodes /\ leg.to \in Nodes
  BY BridgesAreTyped DEF DeBridgeLegs
<1>3. IsFiniteSet(SwapLegs(n, amount) \cup CctpLegs(n, amount))
  BY <1>1, SwapLegsAreTyped, FS_Union
<1>4. IsFiniteSet(Legs(n, amount))
  BY <1>2, <1>3, FS_Union DEF Legs
<1> QED BY <1>1, <1>2, <1>4, SwapLegsAreTyped DEF Legs

\* An offer is an edge between nodes.
LEMMA EdgesOfOffers ==
  ASSUME NEW n \in Nodes, NEW leg \in Legs(n, Reference)
  PROVE  Edge(leg) \in Exchange
<1>1. leg.from \in Nodes /\ leg.to \in Nodes
  BY LegsAreTyped
<1>2. \A x : Sign(x) \in Int
  BY DEF Sign
<1>3. Edge(leg).weight \in Int \cup {NoRate}
  <2>1. (IF leg.out = 0 THEN NoRate
         ELSE Sign(Value(leg.from.asset, leg.in) - Value(leg.to.asset, leg.out)))
          \in Int \cup {NoRate}
    BY <1>2
  <2> QED BY <2>1 DEF Edge
<1> QED BY <1>1, <1>3 DEF Edge, Exchange

\* A finite set has a sequence of its elements.
LEMMA SetToSeqIsTyped ==
  ASSUME NEW S, IsFiniteSet(S)
  PROVE  SetToSeq(S) \in Seq(S)
<1>1. Cardinality(S) \in Nat /\ ExistsBijection(1..Cardinality(S), S)
  BY FS_CardinalityType
<1>2. \E f \in [1..Cardinality(S) -> S] : IsInjective(f)
  BY <1>1 DEF ExistsBijection, Bijection, Injection
<1>3. SetToSeq(S) \in [1..Cardinality(S) -> S]
  <2> HIDE DEF IsInjective
  <2> QED BY <1>2 DEF SetToSeq
<1> QED BY <1>1, <1>3

\* What holds of every offer for `Reference` units holds of the snapshot.
LEMMA SnapshotHolds ==
  ASSUME NEW A, \A n \in Nodes : \A leg \in Legs(n, Reference) : Edge(leg) \in A
  PROVE  Snapshot \in Seq(A)
<1> DEFINE nodes == SetToSeq(Nodes)
           offered(n) == SetToSeq({Edge(leg) : leg \in Legs(n, Reference)})
           D == 0..Len(nodes)
           F == [x \in Seq(A) \X Nat |->
                   IF x[2] \in 1..Len(nodes) THEN x[1] \o offered(nodes[x[2]]) ELSE <<>>]
           Runs(f) == f = [k \in D |-> IF k = 0 THEN <<>> ELSE f[k - 1] \o offered(nodes[k])]
           C == CHOOSE f : Runs(f)
<1>1. nodes \in Seq(Nodes)
  BY NodesAreFinite, SetToSeqIsTyped
<1>2. ASSUME NEW n \in Nodes PROVE offered(n) \in Seq(A)
  <2> DEFINE L == Legs(n, Reference)
             E == {Edge(leg) : leg \in L}
             f == [leg \in L |-> Edge(leg)]
  <2>1. f \in Surjection(L, E)
    BY DEF Surjection
  <2>2. IsFiniteSet(L)
    BY LegsAreTyped
  <2>3. IsFiniteSet(E)
    <3> HIDE DEF f, L, E
    <3> QED BY <2>1, <2>2, FS_Surjection
  <2>4. E \subseteq A
    OBVIOUS
  <2>5. SetToSeq(E) \in Seq(E)
    <3> HIDE DEF E
    <3> QED BY <2>3, SetToSeqIsTyped
  <2>6. SetToSeq(E) \in Seq(A)
    <3> HIDE DEF E
    <3> QED BY <2>4, <2>5
  <2> QED BY <2>6
<1>3. Len(nodes) \in Nat /\ \A k \in 1..Len(nodes) : nodes[k] \in Nodes
  <2> HIDE DEF nodes
  <2> QED BY <1>1
<1> HIDE DEF nodes, offered
<1>4. \A k \in 1..Len(nodes) : offered(nodes[k]) \in Seq(A)
  BY <1>2, <1>3
<1>5. F \in [Seq(A) \X Nat -> Seq(A)]
  BY <1>4
<1>6. D \in SUBSET Nat /\ \A k \in D : k # 0 => k - 1 \in D
  BY <1>3
<1>7. PICK h \in [D -> Seq(A)] : Iterates(h, D, <<>>, F)
  <2>1. <<>> \in Seq(A)
    OBVIOUS
  <2> HIDE DEF D, F
  <2> QED BY <1>5, <1>6, <2>1, IterationExists
<1>8. Runs(h)
  <2>1. ASSUME NEW k \in D PROVE h[k] = IF k = 0 THEN <<>> ELSE h[k - 1] \o offered(nodes[k])
    <3>1. h[k] = IF k = 0 THEN <<>> ELSE F[<<h[k - 1], k>>]
      <4> HIDE DEF D, F
      <4> QED BY <1>7, IterationSteps
    <3>2. k # 0 => h[k - 1] \in Seq(A) /\ k \in Nat /\ k \in 1..Len(nodes)
      BY <1>3, <1>6
    <3>3. k # 0 => F[<<h[k - 1], k>>] = h[k - 1] \o offered(nodes[k])
      BY <3>2
    <3> HIDE DEF F
    <3> QED BY <3>1, <3>3
  <2> HIDE DEF D
  <2> QED BY <2>1
<1>9. Runs(C)
  <2> HIDE DEF Runs
  <2> QED BY <1>8
<1>10. Snapshot = C[Len(nodes)]
  BY Zenon DEF Snapshot, nodes, offered
<1> HIDE DEF C
<1>11. ASSUME NEW k \in D PROVE C[k] = IF k = 0 THEN <<>> ELSE C[k - 1] \o offered(nodes[k])
  <2> HIDE DEF D
  <2>1. [j \in D |-> IF j = 0 THEN <<>> ELSE C[j - 1] \o offered(nodes[j])][k]
          = IF k = 0 THEN <<>> ELSE C[k - 1] \o offered(nodes[k])
    OBVIOUS
  <2> QED BY <1>9, <2>1
<1>12. \A k \in D : C[k] \in Seq(A)
  <2>1. \A k \in D : k = 0 => C[k] \in Seq(A)
    <3>1. <<>> \in Seq(A)
      OBVIOUS
    <3> HIDE DEF D
    <3> QED BY <1>11, <3>1
  <2>2. \A k \in D : k # 0 /\ C[k - 1] \in Seq(A) => C[k] \in Seq(A)
    <3> SUFFICES ASSUME NEW k \in D, k # 0, C[k - 1] \in Seq(A) PROVE C[k] \in Seq(A)
      OBVIOUS
    <3>1. k \in 1..Len(nodes)
      BY <1>3
    <3>2. C[k] = C[k - 1] \o offered(nodes[k])
      <4> HIDE DEF D
      <4> QED BY <1>11
    <3> QED BY <1>4, <3>1, <3>2
  <2> HIDE DEF D
  <2> QED BY <1>6, <2>1, <2>2, StaysInside
<1> QED BY <1>3, <1>10, <1>12

-----------------------------------------------------------------------------
(* The behaviours.                                                          *)

\* The snapshot of a pass is a graph, and what the pass says of it is right.
ScannerInv ==
  /\ edges \in Seq(Exchange)
  /\ scan = "Idle" \/ Judged(edges, scan, cycle)

\* At the start nothing is said.
LEMMA InitScannerInv == PlannerInit => ScannerInv
<1>1. ScannerIdle => ScannerInv
  BY DEF ScannerIdle, ScannerInv
<1>2. ASSUME NEW g \in Seq(Exchange), ScannerInit(g) PROVE ScannerInv
  BY <1>2 DEF ScannerInit, ScannerInv, Judged
<1>3. Graphs \subseteq Seq(Exchange)
  BY PlannerAssumption DEF Exchange
<1>4. Snapshot \in Seq(Exchange)
  BY EdgesOfOffers, SnapshotHolds
<1> QED BY <1>1, <1>2, <1>3, <1>4 DEF PlannerInit

\* A pass says what the detector finds; a quote request leaves it alone.
LEMMA StepScannerInv ==
  ASSUME ScannerInv, [PlannerNext]_<<vars, scanner>> PROVE ScannerInv'
<1>1. CASE Scan
  <2> DEFINE result == DetectArbitrage(edges, Cardinality(Vertices(edges)))
  <2>1. scan' = result.scan /\ cycle' = result.cycle /\ edges' = edges
    BY <1>1 DEF Scan
  <2>2. edges \in Seq(Exchange)
    BY DEF ScannerInv
  <2>3. Judged(edges, result.scan, result.cycle)
    BY <2>2, DetectorIsRight
  <2>4. Judged(edges, scan', cycle')
    <3> HIDE DEF result
    <3> QED BY <2>1, <2>3
  <2>5. Judged(edges, scan, cycle)' <=> Judged(edges, scan', cycle')
    BY <2>1 DEF Judged
  <2> QED BY <2>1, <2>2, <2>4, <2>5 DEF ScannerInv
<1>2. CASE UNCHANGED scanner
  <2>1. edges' = edges /\ scan' = scan /\ cycle' = cycle
    BY <1>2 DEF scanner
  <2> QED BY <2>1 DEF ScannerInv, Judged
<1> QED BY <1>1, <1>2 DEF PlannerNext

\* The invariant.
LEMMA ScannerInvariance == PlannerSpec => []ScannerInv
BY InitScannerInv, StepScannerInv, PTL DEF PlannerSpec

\* arbitrage.rs:56: a loop the scanner reports is one of the graph, passes no
\* node twice, and its weights add up to less than zero, on any graph.
THEOREM FoundLoopsGain == PlannerSpec => []FoundIsGain
<1>1. ScannerInv => FoundIsGain
  BY DEF ScannerInv, Judged, FoundIsGain
<1> QED BY <1>1, ScannerInvariance, PTL

\* arbitrage.rs:70: the scanner reports no loop only where no loop gains, on
\* any graph.
THEOREM NoLoopIsMissed == PlannerSpec => []NoneIsMissed
<1>1. ScannerInv => NoneIsMissed
  BY DEF ScannerInv, Judged, NoneIsMissed, Loops
<1> QED BY <1>1, ScannerInvariance, PTL

-----------------------------------------------------------------------------
(* Arithmetic of the quotes.                                                *)

\* Division rounds down.
LEMMA Floor ==
  ASSUME NEW a \in Nat, NEW b \in Nat \ {0}
  PROVE  a \div b \in Nat /\ b * (a \div b) <= a /\ a < b * (a \div b) + b
OBVIOUS

\* Products of natural numbers are ordered as their factors.
LEMMA TimesMonotone ==
  ASSUME NEW a \in Nat, NEW b \in Nat, NEW c \in Nat, a <= b
  PROVE  a * c <= b * c /\ a * c \in Nat
OBVIOUS

\* A positive factor can be cancelled.
LEMMA TimesCancels ==
  ASSUME NEW a \in Int, NEW b \in Int, NEW c \in Nat \ {0}, a * c <= b * c
  PROVE  a <= b
OBVIOUS

\* Factors may change places.
LEMMA TimesCommutes ==
  ASSUME NEW a \in Int, NEW b \in Int, NEW c \in Int
  PROVE  a * b = b * a /\ (a * b) * c = a * (b * c) /\ (a * b) * c = (a * c) * b
OBVIOUS

\* A swap pays no more than its input is worth, at the prices at which the
\* reserves of its pool are worth the same.
LEMMA SwapBound ==
  ASSUME NEW in \in Nat, NEW X \in Nat \ {0}, NEW Y \in Nat, NEW pa \in Nat, NEW pb \in Nat,
         Y * pb <= (X + 1) * pa, NEW out \in Nat, out * (X + in) <= in * Y
  PROVE  out * pb <= in * pa /\ out <= Y
<1>1. out <= Y
  <2>1. in * Y <= Y * (X + in)
    OBVIOUS
  <2> QED BY <2>1, TimesCancels
<1>2. CASE in = 0
  <2>1. out * (X + in) <= 0 * (X + in)
    BY <1>2
  <2>2. out <= 0
    BY <2>1, TimesCancels
  <2> QED BY <1>1, <1>2, <2>2
<1>3. CASE in # 0
  <2>1. (out * pb) * (X + in) = (out * (X + in)) * pb
    BY TimesCommutes
  <2>2. (out * (X + in)) * pb <= (in * Y) * pb
    BY TimesMonotone
  <2>3. (in * Y) * pb = (Y * pb) * in
    BY TimesCommutes
  <2>4. (Y * pb) * in <= ((X + 1) * pa) * in
    BY TimesMonotone
  <2>5. (X + 1) * (pa * in) <= (X + in) * (pa * in)
    BY <1>3, TimesMonotone
  <2>6. ((X + 1) * pa) * in = (X + 1) * (pa * in) /\ (X + in) * (pa * in) = (in * pa) * (X + in)
    BY TimesCommutes
  <2>7. (out * pb) * (X + in) <= (in * pa) * (X + in)
    BY <2>1, <2>2, <2>3, <2>4, <2>5, <2>6
  <2>8. X + in \in Nat \ {0} /\ out * pb \in Int /\ in * pa \in Int
    OBVIOUS
  <2>9. out * pb <= in * pa
    BY <2>7, <2>8, TimesCancels
  <2> QED BY <1>1, <2>9
<1> QED BY <1>2, <1>3

-----------------------------------------------------------------------------
(* Quotes never gain.                                                       *)

\* pb and pa stand for the prices of what leaves the pool and what enters it:
\* what leaves is worth at most what is there to enter, but for one part.
Priced(pool, pa, pb) == pool.out * pb <= (pool.in + 1) * pa

\* Pools and estimates, by type.
Pools == [in : Nat, out : Nat]
Errors == {"None", "ZeroAmount", "NoLiquidity", "ExcessivePriceImpact"}
Estimates == [error : Errors, impact : Nat, out : Nat]

\* slippage.rs:81: what is left after the fee.
LEMMA AfterFeeIsLess ==
  ASSUME NEW dx \in Nat PROVE AfterFee(dx) \in Nat /\ AfterFee(dx) <= dx
<1>1. FeeBps \in 0..9999
  BY QuotesAssumption
<1>2. 10000 - FeeBps \in Nat /\ 10000 - FeeBps <= 10000
  BY <1>1
<1> DEFINE k == 10000 - FeeBps
<1>3. dx * k \in Nat /\ k * dx <= 10000 * dx /\ dx * k = k * dx
  <2>1. k \in Nat /\ k <= 10000 /\ 10000 \in Nat
    BY <1>2
  <2> HIDE DEF k
  <2> QED BY <2>1, TimesMonotone, TimesCommutes
<1> HIDE DEF k
<1>4. (dx * k) \div 10000 \in Nat /\ 10000 * ((dx * k) \div 10000) <= dx * k
  BY <1>3, Floor
<1> QED BY <1>3, <1>4 DEF AfterFee, k

\* slippage.rs:70: a simulated swap takes no more than the pool has.
LEMMA SwapIsTyped ==
  ASSUME NEW dx \in Nat, NEW pool \in Pools
  PROVE  /\ EstimateSwap(dx, pool) \in Estimates
         /\ EstimateSwap(dx, pool).out <= pool.out
<1> DEFINE in == AfterFee(dx)
<1>1. in \in Nat /\ pool.in \in Nat /\ pool.out \in Nat
  BY AfterFeeIsLess DEF Pools
<1>2. ASSUME NEW why \in Errors PROVE Refused(why) \in Estimates /\ Refused(why).out = 0
  BY DEF Refused, Estimates
<1> HIDE DEF in
<1>3. CASE dx <= 0 \/ pool.in <= 0 \/ pool.out <= 0
  BY <1>1, <1>2, <1>3 DEF EstimateSwap, Errors
<1>4. CASE ~(dx <= 0 \/ pool.in <= 0 \/ pool.out <= 0)
  <2> DEFINE impact == ImpactBps(in, pool)
             out == (in * pool.out) \div (pool.in + in)
  <2>1. EstimateSwap(dx, pool) = Estimate(in, pool, impact)
    BY <1>4 DEF EstimateSwap, in
  <2>2. pool.in + in \in Nat \ {0} /\ 2 * (pool.in + in) \in Nat \ {0}
        /\ 2 * 10000 * in + pool.in + in \in Nat /\ in * pool.out \in Nat
    BY <1>1, <1>4
  <2>3. impact \in Nat
    BY <2>2, Floor DEF ImpactBps
  <2>4. out \in Nat /\ (pool.in + in) * out <= in * pool.out
    BY <2>2, Floor
  <2>5. out <= pool.out
    <3>1. in * pool.out <= pool.out * (pool.in + in) /\ (pool.in + in) * out = out * (pool.in + in)
      BY <1>1, <2>4
    <3> HIDE DEF out
    <3> QED BY <1>1, <2>2, <2>4, <3>1, TimesCancels
  <2> HIDE DEF impact
  <2>6. Estimate(in, pool, impact)
          = IF impact > MaxImpact THEN Refused("ExcessivePriceImpact")
            ELSE [error |-> "None", impact |-> impact, out |-> out]
    BY DEF Estimate
  <2> HIDE DEF out
  <2> QED BY <1>1, <1>2, <2>1, <2>3, <2>4, <2>5, <2>6 DEF Estimates, Errors
<1> QED BY <1>3, <1>4

\* A swap is worth no more than what the fee leaves.
LEMMA SwapNeverGains ==
  ASSUME NEW dx \in Nat, NEW pool \in Pools, NEW pa \in Nat, NEW pb \in Nat,
         Priced(pool, pa, pb)
  PROVE  EstimateSwap(dx, pool).out * pb <= AfterFee(dx) * pa
<1> DEFINE in == AfterFee(dx)
           e == EstimateSwap(dx, pool)
           out == (in * pool.out) \div (pool.in + in)
<1>1. in \in Nat /\ pool.in \in Nat /\ pool.out \in Nat /\ in * pa \in Nat
  <2>1. in \in Nat
    BY AfterFeeIsLess
  <2> HIDE DEF in
  <2> QED BY <2>1, TimesMonotone DEF Pools
<1>2. e.out = 0 \/ (e.out = out /\ pool.in > 0)
  <2>1. \A why : Refused(why).out = 0
    BY DEF Refused
  <2>2. \A impact : LET est == Estimate(in, pool, impact) IN est.out = 0 \/ est.out = out
    <3> HIDE DEF in
    <3> QED BY <2>1 DEF Estimate
  <2>3. \/ \E why : e = Refused(why)
        \/ pool.in > 0 /\ \E impact : e = Estimate(in, pool, impact)
    <3> HIDE DEF in
    <3>1. e = IF dx <= 0 THEN Refused("ZeroAmount")
              ELSE IF pool.in <= 0 \/ pool.out <= 0 THEN Refused("NoLiquidity")
              ELSE Estimate(in, pool, ImpactBps(in, pool))
      BY Zenon DEF EstimateSwap, in
    <3> HIDE DEF e
    <3> QED BY <1>1, <3>1
  <2> HIDE DEF e, in, out
  <2> QED BY <2>1, <2>2, <2>3
<1> HIDE DEF e, in
<1>3. CASE e.out = 0
  <2>1. e.out * pb = 0
    BY <1>3
  <2> QED BY <1>1, <2>1 DEF e, in
<1>4. CASE e.out = out /\ pool.in > 0
  <2>1. pool.in + in \in Nat \ {0} /\ pool.in \in Nat \ {0} /\ in * pool.out \in Nat
    BY <1>1, <1>4
  <2>2. out \in Nat /\ (pool.in + in) * out <= in * pool.out
    BY <2>1, Floor
  <2> HIDE DEF out
  <2>3. out * (pool.in + in) <= in * pool.out
    BY <2>1, <2>2, TimesCommutes
  <2>4. pool.out * pb <= (pool.in + 1) * pa
    BY DEF Priced
  <2>5. out * pb <= in * pa
    BY <1>1, <2>1, <2>2, <2>3, <2>4, SwapBound
  <2> QED BY <1>4, <2>5 DEF e, in
<1> QED BY <1>2, <1>3, <1>4

\* The state of a split.
Splits == [error : Errors, pool : Pools, out : Nat, sum : Nat]

\* One leg of a split, refused or not, leaves a pool behind.
LEMMA TradeLegIsTyped ==
  ASSUME NEW acc \in Splits, NEW leg \in Nat
  PROVE  TradeLeg(acc, leg) \in Splits
<1> DEFINE e == EstimateSwap(leg, acc.pool)
<1>1. acc.pool \in Pools /\ acc.out \in Nat /\ acc.sum \in Nat
  BY DEF Splits
<1>2. e \in Estimates /\ e.out <= acc.pool.out
  BY <1>1, SwapIsTyped
<1> HIDE DEF e
<1>3. e.error \in Errors /\ e.out \in Nat /\ e.impact \in Nat
  BY <1>2 DEF Estimates
<1>4. [acc EXCEPT !.error = e.error] \in Splits
  BY <1>3 DEF Splits
<1>5. AfterLeg(acc.pool, leg, e.out) \in Pools
  BY <1>1, <1>2, <1>3, AfterFeeIsLess DEF AfterLeg, Pools
<1>6. [error |-> "None", pool |-> AfterLeg(acc.pool, leg, e.out),
       out |-> acc.out + e.out, sum |-> acc.sum + e.impact] \in Splits
  BY <1>1, <1>3, <1>5 DEF Splits, Errors
<1>7. Traded(acc, leg, e) \in Splits
  BY <1>4, <1>6 DEF Traded
<1> QED BY <1>7 DEF TradeLeg, e

\* The legs of a split, one by one.
LEMMA SplitUnfolds ==
  ASSUME NEW dx \in Nat, NEW pool \in Pools, NEW n \in Nat \ {0}
  PROVE  \E h \in [0..n -> Splits] :
           /\ h[0] = Untraded(pool)
           /\ \A i \in 1..n : h[i] = TradeLeg(h[i - 1], dx \div n)
           /\ EstimateSplitSwap(dx, pool, n) = Blended(h[n], n)
<1> DEFINE D == 0..n
           base == Untraded(pool)
           leg == dx \div n
           F == [x \in Splits \X Nat |-> TradeLeg(x[1], leg)]
           Runs(f) == f = [i \in D |-> IF i = 0 THEN base ELSE TradeLeg(f[i - 1], leg)]
           C == CHOOSE f : Runs(f)
<1>0. leg \in Nat
  BY Floor
<1>1. base \in Splits
  BY DEF Untraded, Splits, Errors
<1>7. EstimateSplitSwap(dx, pool, n) = Blended(C[n], n)
  BY Zenon DEF EstimateSplitSwap
<1> HIDE DEF leg
<1>2. F \in [Splits \X Nat -> Splits]
  BY <1>0, TradeLegIsTyped
<1>3. D \in SUBSET Nat /\ \A i \in D : i # 0 => i - 1 \in D
  OBVIOUS
<1>4. PICK h \in [D -> Splits] : Iterates(h, D, base, F)
  <2> HIDE DEF D, base, F
  <2> QED BY <1>1, <1>2, <1>3, IterationExists
<1>5. Runs(h)
  <2>1. ASSUME NEW i \in D PROVE h[i] = IF i = 0 THEN base ELSE TradeLeg(h[i - 1], leg)
    <3>1. h[i] = IF i = 0 THEN base ELSE F[<<h[i - 1], i>>]
      <4> HIDE DEF D, base, F
      <4> QED BY <1>4, IterationSteps
    <3>2. i # 0 => h[i - 1] \in Splits /\ i \in Nat
      BY <1>3
    <3>3. i # 0 => F[<<h[i - 1], i>>] = TradeLeg(h[i - 1], leg)
      BY <3>2
    <3> HIDE DEF F, base
    <3> QED BY <3>1, <3>3
  <2> HIDE DEF D, base
  <2> QED BY <2>1
<1>6. Runs(C)
  <2> HIDE DEF Runs
  <2> QED BY <1>5
<1> HIDE DEF C
<1>8. ASSUME NEW i \in D PROVE C[i] = IF i = 0 THEN base ELSE TradeLeg(C[i - 1], leg)
  <2> HIDE DEF D, base
  <2>1. [j \in D |-> IF j = 0 THEN base ELSE TradeLeg(C[j - 1], leg)][i]
          = IF i = 0 THEN base ELSE TradeLeg(C[i - 1], leg)
    OBVIOUS
  <2> QED BY <1>6, <2>1
<1>9. \A i \in D : C[i] \in Splits
  <2>1. \A i \in D : i = 0 => C[i] \in Splits
    BY <1>1, <1>8
  <2>2. \A i \in D : i # 0 /\ C[i - 1] \in Splits => C[i] \in Splits
    <3> HIDE DEF base
    <3> QED BY <1>8, <1>0, TradeLegIsTyped
  <2> HIDE DEF D
  <2> QED BY <1>3, <2>1, <2>2, StaysInside
<1>10. C \in [D -> Splits]
  <2> HIDE DEF D, base
  <2> QED BY <1>6, <1>9
<1>11. C[0] = base /\ \A i \in 1..n : C[i] = TradeLeg(C[i - 1], leg)
  BY <1>8
<1> QED BY <1>7, <1>10, <1>11 DEF leg

\* One more leg.
LEMMA TradeLegNeverGains ==
  ASSUME NEW acc \in Splits, NEW leg \in Nat, NEW pa \in Nat, NEW pb \in Nat, NEW spent \in Nat,
         Priced(acc.pool, pa, pb), acc.out * pb <= spent * pa
  PROVE  /\ Priced(TradeLeg(acc, leg).pool, pa, pb)
         /\ TradeLeg(acc, leg).out * pb <= (spent + leg) * pa
<1> DEFINE e == EstimateSwap(leg, acc.pool)
           in == AfterFee(leg)
<1>1. acc.pool \in Pools /\ acc.out \in Nat /\ acc.pool.in \in Nat /\ acc.pool.out \in Nat
  BY DEF Splits, Pools
<1>2. e.out \in Nat /\ e.out <= acc.pool.out /\ e.out * pb <= in * pa
  BY <1>1, SwapIsTyped, SwapNeverGains DEF Estimates
<1>3. in \in Nat /\ in <= leg
  BY AfterFeeIsLess
<1>4. spent * pa <= (spent + leg) * pa
  BY TimesMonotone
<1>a. (spent + leg) * pa = spent * pa + leg * pa
  OBVIOUS
<1> HIDE DEF e, in
<1>5. CASE acc.error # "None" \/ e.error # "None"
  <2>1. TradeLeg(acc, leg).pool = acc.pool /\ TradeLeg(acc, leg).out = acc.out
    BY <1>5 DEF TradeLeg, Traded, Splits, e
  <2>2. acc.out * pb \in Int /\ spent * pa \in Int /\ (spent + leg) * pa \in Int
    BY <1>1
  <2>3. acc.out * pb <= (spent + leg) * pa
    BY <1>4, <2>2
  <2> QED BY <2>1, <2>3
<1>6. CASE acc.error = "None" /\ e.error = "None"
  <2>1. /\ TradeLeg(acc, leg).pool = [in |-> acc.pool.in + in, out |-> acc.pool.out - e.out]
        /\ TradeLeg(acc, leg).out = acc.out + e.out
    BY <1>6 DEF TradeLeg, Traded, AfterLeg, e, in
  <2>2. Priced(TradeLeg(acc, leg).pool, pa, pb)
    <3>1. (acc.pool.out - e.out) * pb <= acc.pool.out * pb
      <4>1. acc.pool.out - e.out \in Nat /\ acc.pool.out - e.out <= acc.pool.out
        BY <1>1, <1>2
      <4> QED BY <1>1, <4>1, TimesMonotone
    <3>2. (acc.pool.in + 1) * pa <= ((acc.pool.in + in) + 1) * pa
      <4>1. acc.pool.in + 1 \in Nat /\ (acc.pool.in + in) + 1 \in Nat
            /\ acc.pool.in + 1 <= (acc.pool.in + in) + 1
        BY <1>1, <1>3
      <4> QED BY <4>1, TimesMonotone
    <3>3. acc.pool.out * pb <= (acc.pool.in + 1) * pa
      BY DEF Priced
    <3>4. /\ (acc.pool.out - e.out) * pb \in Int /\ acc.pool.out * pb \in Int
          /\ (acc.pool.in + 1) * pa \in Int /\ ((acc.pool.in + in) + 1) * pa \in Int
      BY <1>1, <1>2, <1>3
    <3>5. (acc.pool.out - e.out) * pb <= ((acc.pool.in + in) + 1) * pa
      BY <3>1, <3>2, <3>3, <3>4
    <3> QED BY <2>1, <3>5 DEF Priced
  <2>3. (acc.out + e.out) * pb = acc.out * pb + e.out * pb
    BY <1>1, <1>2
  <2>4. in * pa <= leg * pa
    BY <1>3, TimesMonotone
  <2>5. /\ acc.out * pb \in Int /\ e.out * pb \in Int /\ in * pa \in Int
        /\ spent * pa \in Int /\ leg * pa \in Int
    BY <1>1, <1>2, <1>3
  <2>6. (acc.out + e.out) * pb <= (spent + leg) * pa
    BY <1>2, <1>a, <2>3, <2>4, <2>5
  <2> QED BY <2>1, <2>2, <2>6
<1> QED BY <1>5, <1>6

\* A split delivers no more than its input is worth.
LEMMA SplitNeverGains ==
  ASSUME NEW dx \in Nat, NEW pool \in Pools, NEW n \in Nat \ {0},
         NEW pa \in Nat, NEW pb \in Nat, Priced(pool, pa, pb)
  PROVE  /\ EstimateSplitSwap(dx, pool, n).out \in Nat
         /\ EstimateSplitSwap(dx, pool, n).out * pb <= dx * pa
<1> DEFINE leg == dx \div n
<1>1. leg \in Nat /\ n * leg <= dx
  BY Floor
<1>2. PICK h \in [0..n -> Splits] :
        /\ h[0] = Untraded(pool)
        /\ \A i \in 1..n : h[i] = TradeLeg(h[i - 1], leg)
        /\ EstimateSplitSwap(dx, pool, n) = Blended(h[n], n)
  BY SplitUnfolds
<1> HIDE DEF leg
<1> DEFINE Good == {i \in Nat : i \in 0..n => /\ Priced(h[i].pool, pa, pb)
                                              /\ h[i].out * pb <= (i * leg) * pa}
<1>3. 0 \in Good
  <2>1. h[0].pool = pool /\ h[0].out = 0
    BY <1>2 DEF Untraded
  <2>2. 0 * pb = 0 /\ (0 * leg) * pa = 0
    BY <1>1
  <2> QED BY <2>1, <2>2
<1>4. ASSUME NEW i \in Nat, i \in Good PROVE i + 1 \in Good
  <2> SUFFICES ASSUME i + 1 \in 0..n
               PROVE  /\ Priced(h[i + 1].pool, pa, pb)
                      /\ h[i + 1].out * pb <= ((i + 1) * leg) * pa
    OBVIOUS
  <2>1. i \in 0..n /\ i + 1 \in 1..n /\ (i + 1) - 1 = i
    OBVIOUS
  <2>2. h[i + 1] = TradeLeg(h[i], leg) /\ h[i] \in Splits
    BY <1>2, <2>1
  <2>3. Priced(h[i].pool, pa, pb) /\ h[i].out * pb <= (i * leg) * pa
    BY <1>4, <2>1
  <2>4. i * leg \in Nat /\ (i + 1) * leg = i * leg + leg
    BY <1>1
  <2> QED BY <1>1, <2>2, <2>3, <2>4, TradeLegNeverGains
<1>5. Nat \subseteq Good
  <2> HIDE DEF Good
  <2> QED BY <1>3, <1>4, UpFromZero
<1>6. n \in 0..n
  OBVIOUS
<1>7. h[n].out * pb <= (n * leg) * pa /\ h[n].out \in Nat
  <2>1. n \in Good
    BY <1>5
  <2> QED BY <1>6, <2>1 DEF Splits
<1>8. (n * leg) * pa <= dx * pa
  <2>1. n * leg \in Nat
    BY <1>1
  <2> QED BY <1>1, <2>1, TimesMonotone
<1>9. h[n].out * pb <= dx * pa
  <2>1. h[n].out * pb \in Int /\ (n * leg) * pa \in Int /\ dx * pa \in Int
    BY <1>1, <1>7
  <2> QED BY <1>7, <1>8, <2>1
<1>10. Blended(h[n], n).out = h[n].out \/ Blended(h[n], n).out = 0
  BY DEF Blended, Refused
<1>11. 0 * pb <= dx * pa
  <2>1. 0 * pb = 0 /\ dx * pa \in Nat
    BY TimesMonotone
  <2> QED BY <2>1
<1> QED BY <1>2, <1>7, <1>9, <1>10, <1>11

\* dex.rs:137: one of the candidates is chosen.
LEMMA FirstGoodIsOne ==
  ASSUME NEW m \in Nat \ {0}, NEW splits, DOMAIN splits = 1..m, Len(splits) = m
  PROVE  \E i \in 1..m : FirstGood(splits) = splits[i]
<1> DEFINE good == {i \in DOMAIN splits : splits[i].impact <= SplitThreshold}
           first == CHOOSE i \in good : \A j \in good : i <= j
<1>1. FirstGood(splits) = splits[IF good = {} THEN Len(splits) ELSE first]
  BY Zenon DEF FirstGood
<1>2. good # {} => first \in good
  <2> SUFFICES ASSUME good # {} PROVE first \in good
    OBVIOUS
  <2>1. good \subseteq Nat
    OBVIOUS
  <2> HIDE DEF good
  <2>2. PICK x \in good : \A y \in good : ~(y < x)
    BY <2>1, LessThanDescends
  <2>3. \A y \in good : x <= y
    BY <2>1, <2>2
  <2> QED BY <2>3
<1>3. m \in 1..m
  OBVIOUS
<1> HIDE DEF first
<1> QED BY <1>1, <1>2, <1>3

\* dex.rs:57: both sides of a pool are worth the same.
LEMMA PoolsArePriced ==
  ASSUME NEW chain \in Chains, NEW from \in Assets, NEW to \in Assets
  PROVE  /\ Pool(chain, from, to) \in Pools
         /\ Price[from] \in Nat /\ Price[to] \in Nat
         /\ Priced(Pool(chain, from, to), Price[from], Price[to])
<1> DEFINE depth == PoolDepth(chain, from, to)
           K == depth * 1000 * Scale
           pa == Price[from]
           pb == Price[to]
<1>1. depth \in Nat
  <2>1. ChainDepth[chain] \in Nat
    BY QuotesAssumption
  <2>2. ChainDepth[chain] \div 10 \in Nat
    BY <2>1, Floor
  <2> QED BY <2>1, <2>2 DEF PoolDepth
<1>2. Scale \in Nat /\ pa \in Nat \ {0} /\ pb \in Nat \ {0}
  BY QuotesAssumption
<1> HIDE DEF depth
<1>3. K \in Nat
  <2>1. depth * 1000 \in Nat
    BY <1>1
  <2> HIDE DEF depth
  <2> QED BY <1>2, <2>1, TimesMonotone
<1>4. Pool(chain, from, to) = [in |-> K \div pa, out |-> K \div pb]
  BY Zenon DEF Pool, depth
<1> HIDE DEF K, pa, pb
<1>5. /\ K \div pa \in Nat /\ K < pa * (K \div pa) + pa
      /\ K \div pb \in Nat /\ pb * (K \div pb) <= K
  BY <1>2, <1>3, Floor
<1> DEFINE X == K \div pa
           Y == K \div pb
<1> HIDE DEF X, Y
<1>6. X \in Nat /\ Y \in Nat /\ K < pa * X + pa /\ pb * Y <= K
  BY <1>5 DEF X, Y
<1>7. pa * X + pa = (X + 1) * pa /\ pb * Y = Y * pb
  BY <1>2, <1>6
<1>8. Y * pb <= (X + 1) * pa
  <2>1. Y * pb \in Int /\ (X + 1) * pa \in Int
    BY <1>2, <1>6
  <2> QED BY <1>3, <1>6, <1>7, <2>1
<1> QED BY <1>2, <1>4, <1>6, <1>8 DEF Pools, Priced, X, Y, pa, pb

\* dex.rs:44: a swap delivers no more than its input is worth.
LEMMA SwapQuoteNeverGains ==
  ASSUME NEW chain \in Chains, NEW from \in Assets, NEW to \in Assets, NEW amount \in Nat
  PROVE  /\ SwapQuote(chain, from, to, amount).out \in Nat
         /\ SwapQuote(chain, from, to, amount).fee \in Nat
         /\ Value(to, SwapQuote(chain, from, to, amount).out) <= Value(from, amount)
<1> DEFINE dx == amount * Scale
           pool == Pool(chain, from, to)
           lump == EstimateSwap(dx, pool)
           e == SplitIfLarge(dx, pool, lump)
           pa == Price[from]
           pb == Price[to]
<1>1. Scale \in Nat \ {0} /\ dx \in Nat
  BY QuotesAssumption, TimesMonotone
<1>2. pool \in Pools /\ pa \in Nat /\ pb \in Nat /\ Priced(pool, pa, pb)
  BY PoolsArePriced
<1>3. SwapQuote(chain, from, to, amount) = Quote(from, to, amount, e)
  BY Zenon DEF SwapQuote
<1>a. pa = Price[from] /\ pb = Price[to] /\ dx = amount * Scale
  OBVIOUS
<1> HIDE DEF dx, pool, pa, pb
<1>4. lump.out \in Nat /\ lump.out * pb <= dx * pa
  <2>1. lump.out \in Nat /\ lump.out * pb <= AfterFee(dx) * pa
    BY <1>1, <1>2, SwapIsTyped, SwapNeverGains DEF Estimates
  <2>2. AfterFee(dx) * pa <= dx * pa /\ AfterFee(dx) \in Nat
    BY <1>1, <1>2, AfterFeeIsLess, TimesMonotone
  <2> HIDE DEF lump
  <2>3. lump.out * pb \in Int /\ AfterFee(dx) * pa \in Int /\ dx * pa \in Int
    BY <1>1, <1>2, <2>1, <2>2
  <2> QED BY <2>1, <2>2, <2>3
<1>5. BestSplit(dx, pool).out \in Nat /\ BestSplit(dx, pool).out * pb <= dx * pa
  <2> DEFINE splits == [i \in DOMAIN Tranches |-> EstimateSplitSwap(dx, pool, Tranches[i])]
             m == Len(Tranches)
  <2>1. m \in Nat \ {0} /\ DOMAIN Tranches = 1..m /\ \A i \in 1..m : Tranches[i] \in Nat \ {0}
    BY QuotesAssumption
  <2>2. DOMAIN splits = 1..m /\ Len(splits) = m
    BY <2>1
  <2>3. PICK i \in 1..m : FirstGood(splits) = splits[i]
    <3> HIDE DEF splits
    <3> QED BY <2>1, <2>2, FirstGoodIsOne
  <2>4. BestSplit(dx, pool) = EstimateSplitSwap(dx, pool, Tranches[i])
    BY <2>1, <2>3 DEF BestSplit
  <2> QED BY <1>1, <1>2, <2>1, <2>4, SplitNeverGains
<1>6. e.out \in Nat /\ e.out * pb <= dx * pa
  <2> HIDE DEF lump
  <2> QED BY <1>4, <1>5 DEF SplitIfLarge
<1>7. /\ SwapQuote(chain, from, to, amount).out = e.out \div Scale
      /\ SwapQuote(chain, from, to, amount).fee = Value(from, amount) - (e.out * Price[to]) \div Scale
  <2> HIDE DEF e
  <2> QED BY <1>3 DEF Quote
<1> HIDE DEF e
<1> DEFINE out == e.out \div Scale
<1>8. out \in Nat /\ Scale * out <= e.out
  BY <1>1, <1>6, Floor
<1> HIDE DEF out
<1>b. dx * pa = (pa * amount) * Scale
  <2>1. (amount * Scale) * pa = (amount * pa) * Scale /\ amount * pa = pa * amount
    BY <1>1, <1>2, TimesCommutes
  <2> QED BY <1>a, <2>1
<1>c. Value(from, amount) - (e.out * Price[to]) \div Scale \in Nat
  <2> DEFINE q == (e.out * pb) \div Scale
  <2>1. e.out * pb \in Nat
    BY <1>2, <1>6, TimesMonotone
  <2>2. q \in Nat /\ Scale * q <= e.out * pb
    BY <1>1, <2>1, Floor
  <2>4. q = (e.out * Price[to]) \div Scale
    BY <1>a
  <2> HIDE DEF q
  <2>3. pa * amount \in Int /\ q <= pa * amount
    <3>1. q * Scale <= (pa * amount) * Scale
      <4>1. Scale * q = q * Scale /\ (pa * amount) * Scale \in Int /\ q * Scale \in Int
        BY <1>1, <1>2, <2>2, TimesCommutes
      <4> QED BY <1>6, <1>b, <2>1, <2>2, <4>1
    <3>2. pa * amount \in Int
      BY <1>2
    <3> QED BY <1>1, <2>2, <3>1, <3>2, TimesCancels
  <2> QED BY <1>a, <2>2, <2>3, <2>4 DEF Value
<1>9. pb * out <= pa * amount
  <2>1. (Scale * out) * pb <= e.out * pb
    <3>1. Scale * out \in Nat
      BY <1>1, <1>8
    <3> QED BY <1>2, <1>6, <1>8, <3>1, TimesMonotone
  <2>2. (Scale * out) * pb = (pb * out) * Scale
    <3>1. (Scale * out) * pb = (Scale * pb) * out /\ Scale * pb = pb * Scale
          /\ (pb * Scale) * out = (pb * out) * Scale
      BY <1>1, <1>2, <1>8, TimesCommutes
    <3> QED BY <3>1
  <2>4. pb * out \in Int /\ pa * amount \in Int
    BY <1>2, <1>8
  <2>5. (pb * out) * Scale \in Int /\ e.out * pb \in Int /\ (pa * amount) * Scale \in Int
    BY <1>1, <1>2, <1>6, <2>4
  <2>6. (pb * out) * Scale <= (pa * amount) * Scale
    BY <1>6, <1>b, <2>1, <2>2, <2>5
  <2> QED BY <1>1, <2>4, <2>6, TimesCancels
<1> QED BY <1>7, <1>8, <1>9, <1>a, <1>c DEF Value, out

\* mod.rs:176: an offer delivers no more than it takes, at oracle prices.
LEMMA LegsNeverGain ==
  ASSUME NEW n \in Nodes, NEW amount \in Nat, NEW leg \in Legs(n, amount)
  PROVE  /\ leg.out \in Nat /\ leg.in = amount /\ leg.from = n /\ leg.to \in Nodes
         /\ Value(leg.to.asset, leg.out) <= Value(leg.from.asset, leg.in)
<1>1. n.chain \in Chains /\ n.asset \in Assets /\ leg.to \in Nodes
  BY LegsAreTyped DEF Nodes
<1>2. CASE leg \in SwapLegs(n, amount)
  <2>1. PICK s \in Swaps(n, amount) : leg = Leg("Swap", n, s.to, amount, s.quote.out, s.quote.fee)
    BY <1>2 DEF SwapLegs
  <2>2. PICK a \in Assets : s = [to |-> [n EXCEPT !.asset = a],
                                 quote |-> SwapQuote(n.chain, n.asset, a, amount)]
    BY DEF Swaps
  <2>3. leg.to.asset = a /\ leg.out = SwapQuote(n.chain, n.asset, a, amount).out
        /\ leg.in = amount /\ leg.from = n
    BY <2>1, <2>2 DEF Leg, Nodes
  <2> QED BY <1>1, <2>3, SwapQuoteNeverGains
<1>3. ASSUME NEW how, NEW quote, leg \in Bridges(how, n, amount, quote),
             quote.out \in Nat, quote.out <= amount
      PROVE  /\ leg.out \in Nat /\ leg.in = amount /\ leg.from = n
             /\ Value(leg.to.asset, leg.out) <= Value(leg.from.asset, leg.in)
  <2>1. leg.to.asset = n.asset /\ leg.out = quote.out /\ leg.in = amount /\ leg.from = n
    BY <1>3 DEF Bridges, Leg, Nodes
  <2>2. Price[n.asset] \in Nat
    BY <1>1, QuotesAssumption
  <2>3. quote.out * Price[n.asset] <= amount * Price[n.asset]
    BY <1>3, <2>2, TimesMonotone
  <2>4. /\ quote.out * Price[n.asset] = Price[n.asset] * quote.out
        /\ amount * Price[n.asset] = Price[n.asset] * amount
    BY <1>3, <2>2, TimesCommutes
  <2> QED BY <1>3, <2>1, <2>3, <2>4 DEF Value
<1>4. CASE leg \in CctpLegs(n, amount)
  <2>1. leg \in Bridges("CCTP", n, amount, CctpQuote(n.chain, amount))
    BY <1>4 DEF CctpLegs
  <2>2. CctpQuote(n.chain, amount).out = amount
    BY DEF CctpQuote
  <2> QED BY <1>1, <1>3, <2>1, <2>2
<1>5. CASE leg \in DeBridgeLegs(n, amount)
  <2>1. leg \in Bridges("deBridge", n, amount, DeBridgeQuote(n.chain, amount))
    BY <1>5 DEF DeBridgeLegs
  <2>2. ProtocolFee \in Nat \ {0}
    BY QuotesAssumption
  <2>3. amount \div ProtocolFee \in Nat /\ ProtocolFee * (amount \div ProtocolFee) <= amount
    BY <2>2, Floor
  <2>4. amount \div ProtocolFee <= amount
    <3> DEFINE f == amount \div ProtocolFee
    <3>1. 1 * f <= ProtocolFee * f
      <4>1. f \in Nat /\ 1 <= ProtocolFee
        BY <2>2, <2>3
      <4> HIDE DEF f
      <4> QED BY <2>2, <4>1, TimesMonotone
    <3>2. f \in Nat /\ ProtocolFee * f <= amount /\ ProtocolFee * f \in Int
      BY <2>2, <2>3
    <3> HIDE DEF f
    <3>3. f <= amount
      BY <3>1, <3>2
    <3> QED BY <3>3 DEF f
  <2>5. DeBridgeQuote(n.chain, amount).out \in Nat /\ DeBridgeQuote(n.chain, amount).out <= amount
    <3> DEFINE f == amount \div ProtocolFee
    <3>1. f \in Nat /\ f <= amount
      BY <2>3, <2>4
    <3>2. DeBridgeQuote(n.chain, amount).out = amount - f
      BY DEF DeBridgeQuote
    <3> HIDE DEF f
    <3> QED BY <3>1, <3>2
  <2> QED BY <1>1, <1>3, <2>1, <2>5
<1> QED BY <1>1, <1>2, <1>4, <1>5 DEF Legs

\* mod.rs:387: the edge of an offer has no negative weight.
Losses == [from : Nodes, to : Nodes, weight : Nat \cup {NoRate}]

\* router/mod.rs:387: the edge of an offer has a weight that is not negative,
\* or none.
LEMMA EdgesLose ==
  ASSUME NEW n \in Nodes, NEW leg \in Legs(n, Reference)
  PROVE  Edge(leg) \in Losses
<1> DEFINE lost == Value(leg.from.asset, leg.in) - Value(leg.to.asset, leg.out)
<1>1. /\ Reference \in Nat /\ leg.out \in Nat /\ leg.in = Reference /\ leg.from = n
      /\ leg.to \in Nodes /\ Value(leg.to.asset, leg.out) <= Value(leg.from.asset, leg.in)
  BY LegsNeverGain, PlannerAssumption
<1>2. lost >= 0 /\ lost \in Int
  <2>1. Price[n.asset] \in Int /\ Price[leg.to.asset] \in Int
    BY <1>1, QuotesAssumption DEF Nodes
  <2>2. Value(leg.from.asset, leg.in) \in Int /\ Value(leg.to.asset, leg.out) \in Int
    BY <1>1, <2>1 DEF Value
  <2> QED BY <1>1, <2>2
<1>3. Edge(leg) = [from |-> leg.from, to |-> leg.to,
                   weight |-> IF leg.out = 0 THEN NoRate ELSE Sign(lost)]
  BY DEF Edge
<1> HIDE DEF lost
<1>4. Sign(lost) \in Nat
  BY <1>2 DEF Sign
<1> QED BY <1>1, <1>3, <1>4 DEF Losses

\* So no loop of such edges gains: no distance would ever fall.
LEMMA LossesAddUp ==
  ASSUME NEW g \in Seq(Losses), NEW c, IsLoop(c, g)
  PROVE  SumOfWeights(c) >= 0
<1> DEFINE d == [v \in Vertices(g) |-> 0]
<1>1. Losses \subseteq Exchange
  BY DEF Losses, Exchange
<1>2. g \in Seq(Exchange)
  BY <1>1
<1>3. d \in [Vertices(g) -> Int] /\ \A v \in Vertices(g) : d[v] = 0
  OBVIOUS
<1>4. ASSUME NEW k \in 1..Len(c) PROVE d[c[k].to] <= d[c[k].from] + c[k].weight
  <2>1. PICK i \in Weighted(g) : c[k] = g[i] /\ c[k].from \in Vertices(g) /\ c[k].to \in Vertices(g)
    BY <1>2, LoopsAreTyped
  <2>2. g[i] \in Losses /\ g[i].weight # NoRate
    BY DEF Weighted
  <2>3. c[k].weight \in Nat
    BY <2>1, <2>2 DEF Losses
  <2> HIDE DEF d
  <2> QED BY <1>3, <2>1, <2>3
<1> HIDE DEF d
<1> QED BY <1>2, <1>3, <1>4, SettledLoopsLose

\* router/mod.rs:370, the scanner is silent on a snapshot of the engine's own
\* quotes: whatever the pools, prices and fees, no loop of them gains.
THEOREM NoQuotesAreArbitrage == PlannerSpec => []QuotesOfferNoGain
<1>1. ScannerInv => QuotesOfferNoGain
  <2> SUFFICES ASSUME ScannerInv, edges = Snapshot, scan = "Loop" PROVE FALSE
    BY DEF QuotesOfferNoGain
  <2>1. IsLoop(cycle, edges) /\ SumOfWeights(cycle) < 0
    BY DEF ScannerInv, Judged
  <2>2. edges \in Seq(Losses)
    BY EdgesLose, SnapshotHolds
  <2>3. SumOfWeights(cycle) >= 0
    BY <2>1, <2>2, LossesAddUp
  <2>4. SumOfWeights(cycle) \in Int
    <3>1. edges \in Seq(Exchange)
      BY DEF ScannerInv
    <3>2. Len(cycle) \in Nat /\ \A k \in 1..Len(cycle) : cycle[k].weight \in Int
      BY <2>1, <3>1, LoopsAreTyped
    <3>3. PICK h \in [0..Len(cycle) -> Int] : SumOfWeights(cycle) = h[Len(cycle)]
      BY <3>2, SumUnfolds
    <3> QED BY <3>2, <3>3
  <2> QED BY <2>1, <2>3, <2>4
<1> QED BY <1>1, ScannerInvariance, PTL

-----------------------------------------------------------------------------
(* The search.                                                              *)

\* The legs that some node offers for some amount.
Offer ==
  {leg \in [how : {"Swap", "CCTP", "deBridge"}, from : Nodes, to : Nodes,
            in : Nat, out : Nat, fee : Nat] : leg \in Legs(leg.from, leg.in)}

\* The states the search can come to: none is worth less than it is said to be.
Reached == {s \in [usd : Nat, amount : Nat, node : Nodes, legs : Seq(Offer)] :
              Len(s.legs) <= MaxHops /\ s.usd <= Value(s.node.asset, s.amount)}

\* mod.rs:176: what a leg is made of.
LEMMA LegsAreOffers ==
  ASSUME NEW n \in Nodes, NEW amount \in Nat, NEW leg \in Legs(n, amount)
  PROVE  leg \in Offer
<1>1. /\ n.chain \in Chains /\ n.asset \in Assets /\ leg.to \in Nodes /\ leg.out \in Nat
      /\ leg.from = n /\ leg.in = amount
  BY LegsNeverGain DEF Nodes
<1>2. CASE leg \in SwapLegs(n, amount)
  <2>1. PICK s \in Swaps(n, amount) : leg = Leg("Swap", n, s.to, amount, s.quote.out, s.quote.fee)
    BY <1>2 DEF SwapLegs
  <2>2. PICK a \in Assets : s.quote = SwapQuote(n.chain, n.asset, a, amount)
    BY DEF Swaps
  <2>3. s.quote.fee \in Nat
    BY <1>1, <2>2, SwapQuoteNeverGains
  <2> QED BY <1>1, <2>1, <2>3 DEF Leg, Offer
<1>3. ASSUME NEW how \in {"CCTP", "deBridge"}, NEW quote, leg \in Bridges(how, n, amount, quote),
             quote.fee \in Nat
      PROVE  leg \in Offer
  BY <1>1, <1>3 DEF Bridges, Leg, Offer
<1>4. GasFee[n.chain] \in Nat
  BY <1>1, QuotesAssumption
<1>5. CASE leg \in CctpLegs(n, amount)
  <2>1. leg \in Bridges("CCTP", n, amount, CctpQuote(n.chain, amount))
    BY <1>5 DEF CctpLegs
  <2> QED BY <1>3, <1>4, <2>1 DEF CctpQuote
<1>6. CASE leg \in DeBridgeLegs(n, amount)
  <2>1. leg \in Bridges("deBridge", n, amount, DeBridgeQuote(n.chain, amount))
    BY <1>6 DEF DeBridgeLegs
  <2> QED BY <1>3, <1>4, <2>1 DEF DeBridgeQuote
<1> QED BY <1>2, <1>5, <1>6 DEF Legs

\* SetToSeq lists every element.
LEMMA SetToSeqCovers ==
  ASSUME NEW S, IsFiniteSet(S), NEW x \in S
  PROVE  \E i \in 1..Len(SetToSeq(S)) : SetToSeq(S)[i] = x
<1> DEFINE n == Cardinality(S)
           f == SetToSeq(S)
<1>1. n \in Nat /\ ExistsBijection(1..n, S)
  BY FS_CardinalityType
<1>2. \E h \in [1..n -> S] : IsInjective(h)
  BY <1>1 DEF ExistsBijection, Bijection, Injection
<1>3. f \in [1..n -> S] /\ IsInjective(f)
  <2> HIDE DEF IsInjective
  <2> QED BY <1>2 DEF SetToSeq
<1>4. f \in Injection(1..n, S)
  BY <1>3 DEF Injection
<1>5. Cardinality(1..n) = n
  <2>1. 1 \in Int /\ n \in Int /\ (IF 1 > n THEN 0 ELSE n - 1 + 1) = n
    BY <1>1
  <2> HIDE DEF n
  <2> QED BY <2>1, FS_Interval
<1> HIDE DEF f
<1>6. f \in Surjection(1..n, S)
  BY <1>4, <1>5, FS_Injection
<1>7. \E i \in 1..n : f[i] = x
  BY <1>6 DEF Surjection
<1>8. Len(f) = n
  <2> HIDE DEF n
  <2> QED BY <1>1, <1>3
<1> QED BY <1>7, <1>8 DEF f

\* The offers of a state are its legs.
LEMMA OffersAreLegs ==
  ASSUME NEW s, s.node \in Nodes, s.amount \in Nat
  PROVE  /\ Offers(s) \in Seq(Legs(s.node, s.amount))
         /\ \A leg \in Legs(s.node, s.amount) :
              \E i \in 1..Len(Offers(s)) : Offers(s)[i] = leg
<1> DEFINE L == Legs(s.node, s.amount)
           A == SwapLegs(s.node, s.amount)
           B == CctpLegs(s.node, s.amount)
           C == DeBridgeLegs(s.node, s.amount)
           a == SetToSeq(A)
           b == SetToSeq(B)
           c == SetToSeq(C)
<1>1. IsFiniteSet(L) /\ L = A \cup B \cup C
  BY LegsAreTyped DEF Legs
<1>2. Offers(s) = (a \o b) \o c
  BY DEF Offers
<1> HIDE DEF L, A, B, C, a, b, c
<1>3. IsFiniteSet(A) /\ IsFiniteSet(B) /\ IsFiniteSet(C)
  BY <1>1, FS_Subset
<1>4. a \in Seq(L) /\ b \in Seq(L) /\ c \in Seq(L)
  <2>1. a \in Seq(A) /\ b \in Seq(B) /\ c \in Seq(C)
    BY <1>3, SetToSeqIsTyped DEF a, b, c
  <2> QED BY <1>1, <2>1
<1>5. Offers(s) \in Seq(L)
  BY <1>2, <1>4
<1>6. /\ \A i \in 1..Len(a) : i \in 1..Len(Offers(s)) /\ Offers(s)[i] = a[i]
      /\ \A i \in 1..Len(b) : Len(a) + i \in 1..Len(Offers(s)) /\ Offers(s)[Len(a) + i] = b[i]
      /\ \A i \in 1..Len(c) : /\ (Len(a) + Len(b)) + i \in 1..Len(Offers(s))
                              /\ Offers(s)[(Len(a) + Len(b)) + i] = c[i]
  BY <1>2, <1>4
<1>7. ASSUME NEW leg \in L PROVE \E i \in 1..Len(Offers(s)) : Offers(s)[i] = leg
  <2>1. CASE leg \in A
    <3>1. \E i \in 1..Len(a) : a[i] = leg
      BY <1>3, <2>1, SetToSeqCovers DEF a
    <3> QED BY <1>6, <3>1
  <2>2. CASE leg \in B
    <3>1. \E i \in 1..Len(b) : b[i] = leg
      BY <1>3, <2>2, SetToSeqCovers DEF b
    <3> QED BY <1>6, <3>1
  <2>3. CASE leg \in C
    <3>1. \E i \in 1..Len(c) : c[i] = leg
      BY <1>3, <2>3, SetToSeqCovers DEF c
    <3> QED BY <1>6, <3>1
  <2> QED BY <1>1, <2>1, <2>2, <2>3
<1> QED BY <1>5, <1>7 DEF L

\* Where a leg takes a state.
After(s, leg) == State(NetUsd(leg), leg.out, leg.to, Append(s.legs, leg))

\* What is kept while the offers of a state are considered.
Progress == [queue : SUBSET Reached, best : [Nodes -> Nat]]

\* router/mod.rs:232: where a leg takes a state is a state again.
LEMMA AfterIsReached ==
  ASSUME NEW s \in Reached, Len(s.legs) < MaxHops, NEW leg \in Legs(s.node, s.amount)
  PROVE  After(s, leg) \in Reached /\ NetUsd(leg) \in Nat
<1>1. s.node \in Nodes /\ s.amount \in Nat /\ s.legs \in Seq(Offer)
  BY DEF Reached
<1>2. leg \in Offer
  BY <1>1, LegsAreOffers
<1>3. NetUsd(leg) \in Nat /\ NetUsd(leg) <= Value(leg.to.asset, leg.out)
  <2>1. leg.fee \in Nat /\ leg.out \in Nat /\ leg.to.asset \in Assets
    BY <1>2 DEF Offer, Nodes
  <2>2. Price[leg.to.asset] \in Nat
    BY <2>1, QuotesAssumption
  <2> DEFINE net == Value(leg.to.asset, leg.out) - (IF leg.how = "Swap" THEN 0 ELSE leg.fee)
  <2>a. Value(leg.to.asset, leg.out) \in Nat
    BY <2>1, <2>2, TimesMonotone DEF Value
  <2>3. net \in Int /\ net <= Value(leg.to.asset, leg.out)
    <3> PICK v \in Nat : v = Value(leg.to.asset, leg.out)
      BY <2>a
    <3> QED BY <2>1
  <2>4. NetUsd(leg) = IF net > 0 THEN net ELSE 0
    BY Zenon DEF NetUsd
  <2> HIDE DEF net
  <2> QED BY <2>a, <2>3, <2>4
<1>4. Append(s.legs, leg) \in Seq(Offer) /\ Len(Append(s.legs, leg)) = Len(s.legs) + 1
  BY <1>1, <1>2
<1>5. Len(s.legs) + 1 <= MaxHops
  BY <1>1, RouteSearchAssumption
<1>6. leg.out \in Nat /\ leg.to \in Nodes
  BY <1>2 DEF Offer
<1> DEFINE t == After(s, leg)
           R == [usd : Nat, amount : Nat, node : Nodes, legs : Seq(Offer)]
<1>7. t = [usd |-> NetUsd(leg), amount |-> leg.out, node |-> leg.to, legs |-> Append(s.legs, leg)]
  BY Zenon DEF After, State
<1>8. t \in R
  BY <1>3, <1>4, <1>6, <1>7
<1>9. Len(t.legs) <= MaxHops /\ t.usd <= Value(t.node.asset, t.amount)
  BY <1>3, <1>4, <1>5, <1>7
<1> HIDE DEF t, R
<1> QED BY <1>3, <1>8, <1>9 DEF Reached, t, R

\* What a search keeps while it considers offers: nothing leaves the heap, no
\* best value falls, none is below an offer considered, and each that rose is
\* that of a state in the heap.  Without pruning every offer enters the heap.
Kept(s, a, b, offers) ==
  /\ a.queue \subseteq b.queue
  /\ b.queue \subseteq a.queue \cup {After(s, leg) : leg \in offers}
  /\ request.multi => b.queue = a.queue \cup {After(s, leg) : leg \in offers}
  /\ \A n \in Nodes : a.best[n] <= b.best[n]
  /\ \A leg \in offers : NetUsd(leg) <= b.best[leg.to]
  /\ \A n \in Nodes : \/ b.best[n] = a.best[n]
                      \/ \E t \in b.queue : t.node = n /\ t.usd = b.best[n]

\* One offer considered.
LEMMA ConsiderKeeps ==
  ASSUME NEW s \in Reached, Len(s.legs) < MaxHops, NEW acc \in Progress,
         NEW leg \in Legs(s.node, s.amount)
  PROVE  Consider(s, acc, leg) \in Progress /\ Kept(s, acc, Consider(s, acc, leg), {leg})
<1>1. After(s, leg) \in Reached /\ NetUsd(leg) \in Nat
  BY AfterIsReached
<1>2. leg.to \in Nodes
  BY LegsAreTyped DEF Reached
<1>3. acc.queue \in SUBSET Reached /\ acc.best \in [Nodes -> Nat]
  BY DEF Progress
<1> DEFINE b == Consider(s, acc, leg)
<1>4. b = [queue |-> IF request.multi \/ NetUsd(leg) > acc.best[leg.to]
                     THEN acc.queue \cup {After(s, leg)} ELSE acc.queue,
           best  |-> IF NetUsd(leg) > acc.best[leg.to]
                     THEN [acc.best EXCEPT ![leg.to] = NetUsd(leg)] ELSE acc.best]
  BY Zenon DEF Consider, After
<1>5. [acc.best EXCEPT ![leg.to] = NetUsd(leg)] \in [Nodes -> Nat]
  BY <1>1, <1>3
<1>6. acc.queue \cup {After(s, leg)} \in SUBSET Reached
  BY <1>1, <1>3
<1> HIDE DEF b
<1>7. b \in Progress
  BY <1>3, <1>4, <1>5, <1>6 DEF Progress
<1>8. After(s, leg).node = leg.to /\ After(s, leg).usd = NetUsd(leg)
  BY DEF After, State
<1>9. /\ acc.queue \subseteq b.queue /\ b.queue \subseteq acc.queue \cup {After(s, leg)}
      /\ request.multi => b.queue = acc.queue \cup {After(s, leg)}
  BY <1>4
<1>10. CASE NetUsd(leg) > acc.best[leg.to]
  <2>1. b.best = [acc.best EXCEPT ![leg.to] = NetUsd(leg)] /\ After(s, leg) \in b.queue
    BY <1>4, <1>10
  <2>2. \A n \in Nodes : n # leg.to => b.best[n] = acc.best[n]
    BY <1>3, <2>1
  <2>3. b.best[leg.to] = NetUsd(leg) /\ acc.best[leg.to] <= b.best[leg.to]
    BY <1>1, <1>2, <1>3, <1>10, <2>1
  <2>4. \A n \in Nodes : acc.best[n] <= b.best[n]
    BY <1>3, <2>2, <2>3
  <2> QED BY <1>1, <1>7, <1>8, <1>9, <2>1, <2>2, <2>3, <2>4 DEF Kept, b
<1>11. CASE ~(NetUsd(leg) > acc.best[leg.to])
  <2>1. b.best = acc.best
    BY <1>4, <1>11
  <2>2. NetUsd(leg) <= b.best[leg.to]
    BY <1>1, <1>2, <1>3, <1>11, <2>1
  <2> QED BY <1>3, <1>7, <1>9, <2>1, <2>2 DEF Kept, b
<1> QED BY <1>10, <1>11

\* One offer more.
LEMMA KeptByOneMore ==
  ASSUME NEW s, NEW a \in Progress, NEW b \in Progress, NEW c \in Progress,
         NEW offers, \A o \in offers : o.to \in Nodes /\ NetUsd(o) \in Nat, NEW leg,
         Kept(s, a, b, offers), Kept(s, b, c, {leg})
  PROVE  Kept(s, a, c, offers \cup {leg})
<1>1. /\ a.best \in [Nodes -> Nat] /\ b.best \in [Nodes -> Nat] /\ c.best \in [Nodes -> Nat]
  BY DEF Progress
<1>2. /\ a.queue \subseteq b.queue /\ b.queue \subseteq c.queue
      /\ b.queue \subseteq a.queue \cup {After(s, o) : o \in offers}
      /\ c.queue \subseteq b.queue \cup {After(s, leg)}
  BY DEF Kept
<1>3. {After(s, o) : o \in offers \cup {leg}} = {After(s, o) : o \in offers} \cup {After(s, leg)}
  OBVIOUS
<1>4. /\ a.queue \subseteq c.queue
      /\ c.queue \subseteq a.queue \cup {After(s, o) : o \in offers \cup {leg}}
  BY <1>2, <1>3
<1>5. request.multi => c.queue = a.queue \cup {After(s, o) : o \in offers \cup {leg}}
  <2>1. request.multi => /\ b.queue = a.queue \cup {After(s, o) : o \in offers}
                         /\ c.queue = b.queue \cup {After(s, leg)}
    BY DEF Kept
  <2> QED BY <1>3, <2>1
<1>6. \A n \in Nodes : a.best[n] <= b.best[n] /\ b.best[n] <= c.best[n]
  BY DEF Kept
<1>7. \A n \in Nodes : a.best[n] <= c.best[n]
  BY <1>1, <1>6
<1>8. ASSUME NEW o \in offers \cup {leg} PROVE NetUsd(o) <= c.best[o.to]
  <2>1. CASE o = leg
    BY <2>1 DEF Kept
  <2>2. CASE o \in offers
    <3>1. NetUsd(o) <= b.best[o.to] /\ b.best[o.to] <= c.best[o.to]
      BY <1>6, <2>2 DEF Kept
    <3>2. b.best[o.to] \in Nat /\ c.best[o.to] \in Nat /\ NetUsd(o) \in Nat
      BY <1>1, <2>2
    <3> QED BY <3>1, <3>2
  <2> QED BY <2>1, <2>2
<1>9. ASSUME NEW n \in Nodes, c.best[n] # a.best[n]
      PROVE  \E t \in c.queue : t.node = n /\ t.usd = c.best[n]
  <2>1. CASE c.best[n] # b.best[n]
    BY <2>1 DEF Kept
  <2>2. CASE c.best[n] = b.best[n]
    <3>1. \E t \in b.queue : t.node = n /\ t.usd = b.best[n]
      BY <1>9, <2>2 DEF Kept
    <3> QED BY <1>2, <2>2, <3>1
  <2> QED BY <2>1, <2>2
<1> QED BY <1>4, <1>5, <1>7, <1>8, <1>9 DEF Kept

\* All offers of a state considered.
LEMMA ConsideredAll ==
  ASSUME NEW s \in Reached, Len(s.legs) < MaxHops,
         queue \in SUBSET Reached, best \in [Nodes -> Nat]
  PROVE  /\ Considered(s) \in Progress
         /\ Kept(s, [queue |-> queue \ {s}, best |-> best], Considered(s),
                 Legs(s.node, s.amount))
<1> DEFINE offers == Offers(s)
           L == Legs(s.node, s.amount)
           m == Len(offers)
           D == 0..m
           base == [queue |-> queue \ {s}, best |-> best]
           F == [x \in Progress \X Nat |->
                   IF x[2] \in 1..m THEN Consider(s, x[1], offers[x[2]]) ELSE base]
           Runs(f) == f = [i \in D |-> IF i = 0 THEN base ELSE Consider(s, f[i - 1], offers[i])]
           C == CHOOSE f : Runs(f)
<1>a. s.node \in Nodes /\ s.amount \in Nat
  BY DEF Reached
<1>b. Considered(s) = C[m]
  BY Zenon DEF Considered
<1>c. offers \in Seq(L) /\ \A leg \in L : \E i \in 1..m : offers[i] = leg
  BY <1>a, OffersAreLegs
<1> HIDE DEF offers
<1>d. m \in Nat /\ \A i \in 1..m : offers[i] \in L
  <2> HIDE DEF L
  <2> QED BY <1>c
<1>1. base \in Progress
  BY DEF Progress
<1> HIDE DEF m
<1>e. ASSUME NEW acc \in Progress, NEW i \in 1..m
      PROVE  /\ Consider(s, acc, offers[i]) \in Progress
             /\ Kept(s, acc, Consider(s, acc, offers[i]), {offers[i]})
  BY <1>d, ConsiderKeeps
<1>2. F \in [Progress \X Nat -> Progress]
  <2> HIDE DEF base
  <2> QED BY <1>1, <1>e
<1>3. D \in SUBSET Nat /\ \A i \in D : i # 0 => i - 1 \in D /\ i \in 1..m
  BY <1>d
<1>4. PICK h \in [D -> Progress] : Iterates(h, D, base, F)
  <2> HIDE DEF D, base, F
  <2> QED BY <1>1, <1>2, <1>3, IterationExists
<1>5. Runs(h)
  <2>1. ASSUME NEW i \in D PROVE h[i] = IF i = 0 THEN base ELSE Consider(s, h[i - 1], offers[i])
    <3>1. h[i] = IF i = 0 THEN base ELSE F[<<h[i - 1], i>>]
      <4> HIDE DEF D, base, F
      <4> QED BY <1>4, IterationSteps
    <3>2. i # 0 => h[i - 1] \in Progress /\ i \in Nat /\ i \in 1..m
      <4> HIDE DEF base, F
      <4> QED BY <1>3
    <3>3. i # 0 => F[<<h[i - 1], i>>] = Consider(s, h[i - 1], offers[i])
      <4> HIDE DEF base, D
      <4> QED BY <3>2
    <3> HIDE DEF F, base
    <3> QED BY <3>1, <3>3
  <2> HIDE DEF D, base
  <2> QED BY <2>1
<1>6. Runs(C)
  <2> HIDE DEF Runs
  <2> QED BY <1>5
<1> HIDE DEF C
<1>8. ASSUME NEW i \in D PROVE C[i] = IF i = 0 THEN base ELSE Consider(s, C[i - 1], offers[i])
  <2> HIDE DEF D, base
  <2>1. [j \in D |-> IF j = 0 THEN base ELSE Consider(s, C[j - 1], offers[j])][i]
          = IF i = 0 THEN base ELSE Consider(s, C[i - 1], offers[i])
    OBVIOUS
  <2> QED BY <1>6, <2>1
<1>9. \A i \in D : C[i] \in Progress
  <2>1. \A i \in D : i = 0 => C[i] \in Progress
    <3> HIDE DEF base
    <3> QED BY <1>1, <1>8
  <2>2. \A i \in D : i # 0 /\ C[i - 1] \in Progress => C[i] \in Progress
    <3> HIDE DEF base, D
    <3> QED BY <1>8, <1>3, <1>e
  <2> HIDE DEF D
  <2> QED BY <1>3, <2>1, <2>2, StaysInside
<1>10. m \in D
  BY <1>d
<1>11. Kept(s, base, C[m], L)
  <2> DEFINE Upto(i) == {offers[j] : j \in 1..i}
             Good == {i \in Nat : i \in D => Kept(s, base, C[i], Upto(i))}
  <2>1. 0 \in Good
    <3>1. 0 \in D /\ Upto(0) = {}
      BY <1>d
    <3>2. C[0] = base
      <4> HIDE DEF Upto, base
      <4> QED BY <1>8, <3>1
    <3>3. base.best \in [Nodes -> Nat] /\ Kept(s, base, base, {})
      <4>1. base.best \in [Nodes -> Nat]
        BY <1>1 DEF Progress
      <4> HIDE DEF base
      <4> QED BY <4>1 DEF Kept
    <3> HIDE DEF Upto, base
    <3> QED BY <3>1, <3>2, <3>3
  <2>2. ASSUME NEW i \in Nat, i \in Good PROVE i + 1 \in Good
    <3> SUFFICES ASSUME i + 1 \in D PROVE Kept(s, base, C[i + 1], Upto(i + 1))
      OBVIOUS
    <3>1. i \in D /\ i + 1 \in 1..m /\ i + 1 # 0 /\ (i + 1) - 1 = i
      BY <1>d
    <3>2. C[i + 1] = Consider(s, C[i], offers[i + 1])
      <4> HIDE DEF D, base, Upto
      <4> QED BY <1>8, <3>1
    <3>3. C[i] \in Progress /\ C[i + 1] \in Progress /\ Kept(s, C[i], C[i + 1], {offers[i + 1]})
      <4> HIDE DEF D, base, Upto
      <4> QED BY <1>9, <1>e, <3>1, <3>2
    <3>4. Upto(i + 1) = Upto(i) \cup {offers[i + 1]}
      <4>1. 1..(i + 1) = 1..i \cup {i + 1}
        OBVIOUS
      <4> QED BY <4>1
    <3>5. Kept(s, base, C[i], Upto(i))
      BY <2>2, <3>1
    <3>6. \A leg \in Upto(i) : leg.to \in Nodes /\ NetUsd(leg) \in Nat
      <4>1. \A leg \in L : leg.to \in Nodes /\ NetUsd(leg) \in Nat
        BY <1>a, LegsAreTyped, AfterIsReached
      <4>2. \A j \in 1..i : j \in 1..m
        BY <1>d, <3>1
      <4> HIDE DEF L
      <4> QED BY <1>d, <4>1, <4>2
    <3> HIDE DEF Upto, base
    <3>7. Kept(s, base, C[i + 1], Upto(i) \cup {offers[i + 1]})
      <4>1. PICK b \in Progress : b = C[i]
        BY <3>3
      <4>2. PICK c \in Progress : c = C[i + 1]
        BY <3>3
      <4>3. PICK leg : leg = offers[i + 1]
        OBVIOUS
      <4>4. PICK some : some = Upto(i)
        OBVIOUS
      <4>5. PICK a \in Progress : a = base
        BY <1>1
      <4>6. Kept(s, a, b, some) /\ Kept(s, b, c, {leg})
        BY <3>3, <3>5, <4>1, <4>2, <4>3, <4>4, <4>5
      <4>7. \A o \in some : o.to \in Nodes /\ NetUsd(o) \in Nat
        BY <3>6, <4>4
      <4>8. Kept(s, a, c, some \cup {leg})
        BY <4>6, <4>7, KeptByOneMore
      <4> QED BY <4>2, <4>3, <4>4, <4>5, <4>8
    <3> QED BY <3>4, <3>7
  <2>3. Nat \subseteq Good
    <3> HIDE DEF Good
    <3> QED BY <2>1, <2>2, UpFromZero
  <2>4. Kept(s, base, C[m], Upto(m))
    <3>1. m \in Good
      BY <1>d, <2>3
    <3> HIDE DEF Upto, base
    <3> QED BY <1>10, <3>1
  <2>5. Upto(m) = L
    <3> HIDE DEF L
    <3> QED BY <1>c, <1>d
  <2> HIDE DEF Upto, base, L
  <2> QED BY <2>4, <2>5
<1>12. C[m] \in Progress
  BY <1>9, <1>10
<1> QED BY <1>b, <1>11, <1>12

\* What legs deliver, hop by hop.
Delivered(to, k, n, amount) ==
  IF n = to THEN {amount}
  ELSE IF k = 0 THEN {}
  ELSE UNION {Deliveries(to)[k - 1][leg.to][leg.out] : leg \in Legs(n, amount)}

\* What can be delivered with k legs, from what can with k - 1.
LEMMA DeliveriesUnfold ==
  ASSUME NEW to \in Nodes, NEW k \in 0..MaxHops, NEW n \in Nodes, NEW amount \in Nat
  PROVE  Deliveries(to)[k][n][amount] = Delivered(to, k, n, amount)
<1> DEFINE A == [Nodes -> [Nat -> SUBSET Nat]]
           Rule(hops, f) ==
             [v \in Nodes |-> [a \in Nat |->
                IF v = to THEN {a}
                ELSE IF hops = 0 THEN {}
                ELSE UNION {f[leg.to][leg.out] : leg \in Legs(v, a)}]]
           base == Rule(0, [v \in Nodes |-> [a \in Nat |-> {}]])
           F == [y \in A \X Nat |-> Rule(1, y[1])]
           D == 0..MaxHops
           Runs(f) == f = [hops \in D |-> Rule(hops, f[hops - 1])]
           C == CHOOSE f : Runs(f)
<1>0. MaxHops \in Nat
  BY RouteSearchAssumption
<1>a. Deliveries(to) = C
  BY Zenon DEF Deliveries
<1> HIDE DEF C
<1>1. ASSUME NEW f PROVE Rule(0, f) = base /\ base \in A
  OBVIOUS
<1>2. ASSUME NEW f \in A PROVE Rule(1, f) \in A
  <2> SUFFICES ASSUME NEW v \in Nodes, NEW a \in Nat
               PROVE  UNION {f[leg.to][leg.out] : leg \in Legs(v, a)} \in SUBSET Nat
    OBVIOUS
  <2>1. \A leg \in Legs(v, a) : leg.to \in Nodes /\ leg.out \in Nat
    BY LegsNeverGain
  <2>2. \A u \in Nodes, b \in Nat : f[u][b] \in SUBSET Nat
    OBVIOUS
  <2> QED BY <2>1, <2>2
<1>b. ASSUME NEW f, NEW hops, hops # 0 PROVE Rule(hops, f) = Rule(1, f)
  <2>1. (hops = 0) = (1 = 0)
    BY <1>b
  <2> QED BY <2>1
<1> HIDE DEF Rule, base, A
<1>3. F \in [A \X Nat -> A]
  BY <1>2
<1>4. D \in SUBSET Nat /\ \A i \in D : i # 0 => i - 1 \in D
  BY <1>0
<1>5. PICK h \in [D -> A] : Iterates(h, D, base, F)
  <2> HIDE DEF D, F
  <2> QED BY <1>1, <1>3, <1>4, IterationExists
<1>6. ASSUME NEW i \in D PROVE h[i] = Rule(i, h[i - 1])
  <2>1. h[i] = IF i = 0 THEN base ELSE F[<<h[i - 1], i>>]
    <3> HIDE DEF D, F
    <3> QED BY <1>5, IterationSteps
  <2>2. i # 0 => h[i - 1] \in A /\ i \in Nat
    BY <1>4
  <2>3. i # 0 => F[<<h[i - 1], i>>] = Rule(1, h[i - 1])
    BY <2>2
  <2> HIDE DEF F
  <2> QED BY <1>1, <1>b, <2>1, <2>3
<1>7. Runs(h)
  <2> HIDE DEF D
  <2> QED BY <1>6
<1>8. Runs(C)
  <2> HIDE DEF Runs
  <2> QED BY <1>7 DEF C
<1>9. C[k] = Rule(k, C[k - 1])
  <2>1. k \in D
    OBVIOUS
  <2> HIDE DEF D
  <2> QED BY <1>8, <2>1
<1>10. Rule(k, C[k - 1])[n][amount]
         = IF n = to THEN {amount}
           ELSE IF k = 0 THEN {}
           ELSE UNION {C[k - 1][leg.to][leg.out] : leg \in Legs(n, amount)}
  BY DEF Rule
<1> QED BY <1>a, <1>9, <1>10 DEF Delivered

\* The fees of a route add up to a natural number.
LEMMA FeesAreTyped ==
  ASSUME NEW legs \in Seq(Offer) PROVE SumOfFees(legs) \in Nat
<1> DEFINE n == Len(legs)
           D == 0..n
           F == [x \in Nat \X Nat |-> IF x[2] \in 1..n THEN x[1] + legs[x[2]].fee ELSE 0]
           Runs(f) == f = [k \in D |-> IF k = 0 THEN 0 ELSE f[k - 1] + legs[k].fee]
           C == CHOOSE f : Runs(f)
<1>0. SumOfFees(legs) = C[n]
  BY Zenon DEF SumOfFees
<1>1. n \in Nat /\ \A k \in 1..n : legs[k].fee \in Nat
  <2>1. n \in Nat /\ \A k \in 1..n : legs[k] \in Offer
    OBVIOUS
  <2> QED BY <2>1 DEF Offer
<1> HIDE DEF n, C
<1>2. F \in [Nat \X Nat -> Nat]
  BY <1>1
<1>3. D \in SUBSET Nat /\ \A k \in D : k # 0 => k - 1 \in D /\ k \in 1..n
  BY <1>1
<1>4. PICK h \in [D -> Nat] : Iterates(h, D, 0, F)
  <2>1. 0 \in Nat
    OBVIOUS
  <2> HIDE DEF D, F
  <2> QED BY <1>2, <1>3, <2>1, IterationExists
<1>5. Runs(h)
  <2>1. ASSUME NEW k \in D PROVE h[k] = IF k = 0 THEN 0 ELSE h[k - 1] + legs[k].fee
    <3>1. h[k] = IF k = 0 THEN 0 ELSE F[<<h[k - 1], k>>]
      <4> HIDE DEF D, F
      <4> QED BY <1>4, IterationSteps
    <3>2. k # 0 => h[k - 1] \in Nat /\ k \in Nat /\ k \in 1..n
      <4> HIDE DEF F
      <4> QED BY <1>3
    <3>3. k # 0 => F[<<h[k - 1], k>>] = h[k - 1] + legs[k].fee
      BY <3>2
    <3> HIDE DEF F
    <3> QED BY <3>1, <3>3
  <2> HIDE DEF D
  <2> QED BY <2>1
<1>6. Runs(C)
  <2> HIDE DEF Runs
  <2> QED BY <1>5 DEF C
<1>8. ASSUME NEW k \in D PROVE C[k] = IF k = 0 THEN 0 ELSE C[k - 1] + legs[k].fee
  <2> HIDE DEF D
  <2>1. [j \in D |-> IF j = 0 THEN 0 ELSE C[j - 1] + legs[j].fee][k]
          = IF k = 0 THEN 0 ELSE C[k - 1] + legs[k].fee
    OBVIOUS
  <2> QED BY <1>6, <2>1
<1>9. \A k \in D : C[k] \in Nat
  <2>1. \A k \in D : k = 0 => C[k] \in Nat
    BY <1>8
  <2>2. \A k \in D : k # 0 /\ C[k - 1] \in Nat => C[k] \in Nat
    <3> SUFFICES ASSUME NEW k \in D, k # 0, C[k - 1] \in Nat PROVE C[k] \in Nat
      OBVIOUS
    <3>1. k \in 1..n
      BY <1>3
    <3>2. C[k] = C[k - 1] + legs[k].fee /\ legs[k].fee \in Nat
      <4> HIDE DEF D
      <4> QED BY <1>1, <1>8, <3>1
    <3> QED BY <3>2
  <2> HIDE DEF D
  <2> QED BY <1>3, <2>1, <2>2, StaysInside
<1>10. n \in D
  BY <1>1
<1> QED BY <1>0, <1>9, <1>10

\* Among what was found, one route comes before all others.
LEMMA OneIsFirst ==
  ASSUME routes \in Seq(Reached), routes # <<>>
  PROVE  \E i \in DOMAIN routes : \A j \in DOMAIN routes : ~Before(j, i)
<1> DEFINE n == Len(routes)
           amount(k) == routes[k].amount
           cents(k) == SumOfFees(routes[k].legs) \div 10
           Good == {k \in Nat : k + 1 <= n =>
                      \E i \in 1..(k + 1) : \A j \in 1..(k + 1) : ~Before(j, i)}
<1>1. n \in Nat \ {0} /\ DOMAIN routes = 1..n
  OBVIOUS
<1>2. ASSUME NEW k \in 1..n PROVE amount(k) \in Nat /\ cents(k) \in Nat
  <2>1. amount(k) \in Nat /\ routes[k].legs \in Seq(Offer)
    BY DEF Reached
  <2>2. SumOfFees(routes[k].legs) \in Nat
    BY <2>1, FeesAreTyped
  <2> QED BY <2>1, <2>2, Floor
<1>3. \A i, j : Before(i, j) <=>
                  \/ amount(i) > amount(j)
                  \/ amount(i) = amount(j) /\ cents(i) < cents(j)
                  \/ amount(i) = amount(j) /\ cents(i) = cents(j) /\ i < j
  BY DEF Before
<1> HIDE DEF amount, cents, n
<1>4. 0 \in Good
  <2>1. 1 \in 1..n
    BY <1>1
  <2>2. ~Before(1, 1)
    BY <1>2, <1>3, <2>1
  <2> QED BY <2>2
<1>5. ASSUME NEW k \in Nat, k \in Good PROVE k + 1 \in Good
  <2> SUFFICES ASSUME (k + 1) + 1 <= n
               PROVE  \E i \in 1..((k + 1) + 1) : \A j \in 1..((k + 1) + 1) : ~Before(j, i)
    OBVIOUS
  <2> DEFINE m == (k + 1) + 1
  <2>1. m \in 1..n /\ 1..(k + 1) \subseteq 1..n /\ 1..m = 1..(k + 1) \cup {m}
    BY <1>1
  <2>2. PICK i \in 1..(k + 1) : \A j \in 1..(k + 1) : ~Before(j, i)
    <3>1. k + 1 <= n
      BY <1>1
    <3> QED BY <1>5, <3>1
  <2>3. /\ i \in Int /\ m \in Int /\ amount(i) \in Nat /\ cents(i) \in Nat
        /\ amount(m) \in Nat /\ cents(m) \in Nat
    BY <1>1, <1>2, <2>1
  <2>4. ~Before(m, m)
    BY <1>3, <2>3
  <2> HIDE DEF m
  <2>5. CASE Before(m, i)
    <3>1. ASSUME NEW j \in 1..(k + 1) PROVE ~Before(j, m)
      <4>1. j \in Int /\ amount(j) \in Nat /\ cents(j) \in Nat /\ ~Before(j, i)
        BY <1>2, <2>1, <2>2
      <4> QED BY <1>3, <2>3, <2>5, <4>1
    <3>2. \A j \in 1..m : ~Before(j, m)
      BY <2>1, <2>4, <3>1
    <3> QED BY <2>1, <3>2 DEF m
  <2>6. CASE ~Before(m, i)
    <3>1. \A j \in 1..m : ~Before(j, i)
      BY <2>1, <2>2, <2>6
    <3> QED BY <2>1, <3>1 DEF m
  <2> QED BY <2>5, <2>6
<1>6. Nat \subseteq Good
  <2> HIDE DEF Good
  <2> QED BY <1>4, <1>5, UpFromZero
<1>7. n - 1 \in Nat /\ (n - 1) + 1 = n
  BY <1>1
<1>8. \E i \in 1..((n - 1) + 1) : \A j \in 1..((n - 1) + 1) : ~Before(j, i)
  <2>1. n - 1 \in Good /\ (n - 1) + 1 <= n
    BY <1>6, <1>7
  <2> QED BY <2>1
<1> HIDE DEF Good
<1> QED BY <1>1, <1>7, <1>8

\* mod.rs:353: the first of the answer delivers most.
LEMMA FirstRanksHighest ==
  ASSUME routes \in Seq(Reached)
  PROVE  IF routes = <<>> THEN Ranked = <<>>
         ELSE \E i \in DOMAIN routes :
                /\ Ranked # <<>> /\ Ranked[1].amount = routes[i].amount
                /\ \A j \in DOMAIN routes : routes[j].amount <= routes[i].amount
<1> DEFINE n == Len(routes)
           m == IF n < MaxRoutes THEN n ELSE MaxRoutes
           earlier(i) == {j \in DOMAIN routes : Before(j, i)}
           rank(k) == CHOOSE i \in DOMAIN routes : Cardinality(earlier(i)) = k - 1
<1>1. n \in Nat /\ DOMAIN routes = 1..n /\ MaxRoutes \in Nat \ {0}
  BY RouteSearchAssumption
<1>2. Ranked = [k \in 1..m |-> routes[rank(k)]]
  BY Zenon DEF Ranked
<1>3. CASE routes = <<>>
  <2>1. n = 0 /\ m = 0
    BY <1>1, <1>3
  <2>2. 1..m = {}
    BY <2>1
  <2> HIDE DEF m, rank
  <2>3. Ranked = <<>>
    BY <1>2, <2>2
  <2> QED BY <1>3, <2>3
<1>4. CASE routes # <<>>
  <2>1. n # 0
    BY <1>1, <1>4
  <2>2. m \in Nat \ {0} /\ 1 \in 1..m
    BY <1>1, <2>1
  <2>3. \A i : IsFiniteSet(earlier(i))
    <3>1. IsFiniteSet(1..n)
      BY <1>1, FS_Interval
    <3>2. \A i : earlier(i) \in SUBSET (1..n)
      BY <1>1
    <3> HIDE DEF earlier, n
    <3> QED BY <3>1, <3>2, FS_Subset
  <2>4. PICK f \in DOMAIN routes : \A j \in DOMAIN routes : ~Before(j, f)
    BY <1>4, OneIsFirst
  <2>5. earlier(f) = {}
    BY <2>4
  <2> HIDE DEF earlier
  <2>6. Cardinality(earlier(f)) = 1 - 1
    BY <2>5, FS_EmptySet
  <2>7. rank(1) \in DOMAIN routes /\ Cardinality(earlier(rank(1))) = 1 - 1
    BY <2>6
  <2> HIDE DEF rank
  <2>8. earlier(rank(1)) = {}
    BY <2>3, <2>7, FS_EmptySet
  <2>9. ASSUME NEW j \in DOMAIN routes PROVE routes[j].amount <= routes[rank(1)].amount
    <3>1. ~Before(j, rank(1))
      BY <2>8 DEF earlier
    <3>2. routes[j].amount \in Nat /\ routes[rank(1)].amount \in Nat
      BY <2>7 DEF Reached
    <3> QED BY <3>1, <3>2 DEF Before
  <2> HIDE DEF m
  <2>10. Ranked[1] = routes[rank(1)] /\ DOMAIN Ranked = 1..m
    BY <1>2, <2>2
  <2>11. Ranked # <<>>
    <3>1. 1 \in DOMAIN Ranked
      BY <2>2, <2>10
    <3> QED BY <3>1
  <2> QED BY <1>4, <2>7, <2>9, <2>10, <2>11
<1> QED BY <1>3, <1>4

\* What a state of the heap can still deliver.
FromHere(s) == Deliveries(request.to)[MaxHops - Len(s.legs)][s.node][s.amount]

\* The routes found, and what they and the heap can still deliver.
Found == {routes[i] : i \in DOMAIN routes}
Promised == (UNION {FromHere(s) : s \in queue}) \cup {t.amount : t \in Found}

\* While the search goes on: it delivers nothing but what legs can, and all of
\* that if nothing is pruned; only the start has no legs, so that nothing found
\* is dropped as an empty route; no direct offer was worth more than the best at
\* the destination; and that best is the value of a state in the heap or found.
Searching ==
  /\ request \in [from : Nodes, to : Nodes, amount : Nat, multi : BOOLEAN]
  /\ best \in [Nodes -> Nat] /\ routes \in Seq(Reached)
  /\ request.from # request.to =>
       /\ Promised \subseteq Deliverable /\ (request.multi => Promised = Deliverable)
       /\ \A s \in queue : s.legs = <<>> => s = Start(request)
       /\ \/ Start(request) \in queue
          \/ \A leg \in Direct : NetUsd(leg) <= best[request.to]
       /\ \/ best[request.to] = 0
          \/ \E t \in queue \cup Found : t.node = request.to /\ t.usd >= best[request.to]

\* The invariant of the search.
SearchInv ==
  /\ answer \in {"Idle", "Searching", "Routes", "ExcessivePriceImpact"}
  /\ queue \in SUBSET Reached
  /\ answer = "Searching" => Searching
  /\ BestRouteFirst

\* What a state of the search can still deliver.
LEMMA FromHereUnfolds ==
  ASSUME request.to \in Nodes, NEW s \in Reached
  PROVE  FromHere(s)
           = IF s.node = request.to THEN {s.amount}
             ELSE IF Len(s.legs) = MaxHops THEN {}
             ELSE UNION {Deliveries(request.to)[MaxHops - (Len(s.legs) + 1)][leg.to][leg.out] :
                           leg \in Legs(s.node, s.amount)}
<1>1. PICK to \in Nodes : to = request.to
  OBVIOUS
<1>2. PICK k \in 0..MaxHops : k = MaxHops - Len(s.legs)
  BY RouteSearchAssumption DEF Reached
<1>a. (k = 0 <=> Len(s.legs) = MaxHops) /\ k - 1 = MaxHops - (Len(s.legs) + 1)
  BY <1>2, RouteSearchAssumption DEF Reached
<1>3. s.node \in Nodes /\ s.amount \in Nat
  BY DEF Reached
<1>4. Deliveries(to)[k][s.node][s.amount] = Delivered(to, k, s.node, s.amount)
  BY <1>3, DeliveriesUnfold
<1> QED BY <1>1, <1>2, <1>4, <1>a DEF FromHere, Delivered

\* A request as the search is given it, and the state it starts from.
LEMMA StartIsReached ==
  ASSUME NEW r \in [from : Nodes, to : Nodes, amount : Nat, multi : BOOLEAN]
  PROVE  /\ Start(r) \in Reached /\ Start(r).usd \in Nat
         /\ Start(r).node = r.from /\ Start(r).amount = r.amount /\ Start(r).legs = <<>>
<1>1. Price[r.from.asset] \in Nat /\ r.amount \in Nat
  BY QuotesAssumption DEF Nodes
<1>2. Value(r.from.asset, r.amount) \in Nat
  BY <1>1, TimesMonotone DEF Value
<1>3. Len(<<>>) = 0 /\ 0 <= MaxHops /\ <<>> \in Seq(Offer)
  BY RouteSearchAssumption
<1>4. Start(r) = [usd |-> Value(r.from.asset, r.amount), amount |-> r.amount,
                  node |-> r.from, legs |-> <<>>]
  BY Zenon DEF Start, State
<1> QED BY <1>1, <1>2, <1>3, <1>4 DEF Reached

\* The initial states satisfy the invariant of the search.
LEMMA InitSearchInv == PlannerInit => SearchInv
<1>1. CASE Init
  <2> PICK r \in Requests : InitFor(r)
    BY <1>1 DEF Init
  <2>1. r \in [from : Nodes, to : Nodes, amount : Nat, multi : BOOLEAN]
    BY RouteSearchAssumption DEF Requests
  <2>2. /\ request = r /\ queue = {Start(r)} /\ routes = <<>> /\ answer = "Searching"
        /\ best = [n \in Nodes |-> IF n = r.from THEN Start(r).usd ELSE 0]
    BY DEF InitFor
  <2>3. /\ Start(r) \in Reached /\ Start(r).usd \in Nat /\ Start(r).legs = <<>>
        /\ Start(r).node = r.from /\ Start(r).amount = r.amount
    BY <2>1, StartIsReached
  <2>4. best \in [Nodes -> Nat] /\ (r.from # r.to => best[r.to] = 0)
    BY <2>1, <2>2, <2>3
  <2>5. Found = {}
    BY <2>2 DEF Found
  <2>6. Promised = Deliverable
    <3>1. MaxHops - Len(<<>>) = MaxHops
      BY RouteSearchAssumption
    <3>2. FromHere(Start(r)) = Deliverable
      BY <2>2, <2>3, <3>1 DEF FromHere, Deliverable
    <3> QED BY <2>2, <2>5, <3>2 DEF Promised
  <2>7. Searching
    BY <2>1, <2>2, <2>3, <2>4, <2>6 DEF Searching
  <2>8. BestRouteFirst
    BY <2>2 DEF BestRouteFirst, Answered
  <2> QED BY <2>2, <2>3, <2>7, <2>8 DEF SearchInv
<1>2. CASE PlannerIdle
  BY <1>2 DEF PlannerIdle, SearchInv, BestRouteFirst, Answered
<1> QED BY <1>1, <1>2 DEF PlannerInit

\* What a route delivers is worth no less than what the route is said to be,
\* and no less than any smaller amount of the asset.
LEMMA WorthOfFound ==
  ASSUME NEW t \in Reached, NEW a \in Nat, t.amount <= a
  PROVE  t.usd <= Value(t.node.asset, a) /\ Value(t.node.asset, a) \in Nat
<1>1. /\ t.usd \in Nat /\ t.amount \in Nat /\ t.usd <= Value(t.node.asset, t.amount)
      /\ t.node.asset \in Assets
  BY DEF Reached, Nodes
<1>2. PICK p \in Nat : p = Price[t.node.asset]
  BY <1>1, QuotesAssumption
<1>3. p * t.amount <= p * a /\ p * t.amount \in Nat /\ p * a \in Nat
  BY <1>1, TimesMonotone
<1> QED BY <1>1, <1>2, <1>3 DEF Value

\* The heap runs empty: the first route is worth what the best one is.
LEMMA FinishKeepsSearchInv ==
  ASSUME SearchInv, Finish PROVE SearchInv'
<1>1. /\ answer = "Searching" /\ queue = {} /\ request' = request /\ routes' = Ranked
      /\ answer' = IF routes = <<>> /\ rejected THEN "ExcessivePriceImpact" ELSE "Routes"
      /\ queue' = queue
  BY DEF Finish
<1>2. Searching /\ routes \in Seq(Reached)
  BY <1>1 DEF SearchInv, Searching
<1>3. Deliverable' = Deliverable /\ Direct' = Direct
  BY <1>1 DEF Deliverable, Direct
<1>4. ASSUME request.from # request.to
      PROVE  IF routes' = <<>>
             THEN (\A leg \in Direct : NetUsd(leg) = 0) /\ (request.multi => Deliverable = {})
             ELSE /\ routes'[1].amount \in Deliverable
                  /\ \A leg \in Direct : Value(request.to.asset, routes'[1].amount) >= NetUsd(leg)
                  /\ request.multi => \A a \in Deliverable : a <= routes'[1].amount
  <2>1. /\ {t.amount : t \in Found} \subseteq Deliverable
        /\ request.multi => Deliverable = {t.amount : t \in Found}
    BY <1>1, <1>2, <1>4 DEF Searching, Promised
  <2>2. /\ request.to \in Nodes /\ request.from \in Nodes /\ request.amount \in Nat
        /\ best[request.to] \in Nat
    BY <1>2 DEF Searching
  <2>3. \A leg \in Direct : NetUsd(leg) <= best[request.to]
    BY <1>1, <1>2, <1>4 DEF Searching
  <2>4. \A leg \in Direct : NetUsd(leg) \in Nat
    <3>1. Start(request) \in Reached /\ Len(Start(request).legs) < MaxHops
      BY <1>2, StartIsReached, RouteSearchAssumption DEF Searching
    <3>2. /\ Start(request).node = request.from /\ Start(request).amount = request.amount
      BY <1>2, StartIsReached DEF Searching
    <3> QED BY <3>1, <3>2, AfterIsReached DEF Direct
  <2>5. best[request.to] = 0 \/ \E t \in Found : t.node = request.to /\ t.usd >= best[request.to]
    BY <1>1, <1>2, <1>4 DEF Searching
  <2>6. CASE routes = <<>>
    <3>1. Ranked = <<>> /\ Found = {}
      BY <1>2, <2>6, FirstRanksHighest DEF Found
    <3>2. best[request.to] = 0
      BY <2>5, <3>1
    <3>3. \A leg \in Direct : NetUsd(leg) = 0
      BY <2>3, <2>4, <3>2
    <3> QED BY <1>1, <2>1, <3>1, <3>3
  <2>7. CASE routes # <<>>
    <3>1. PICK i \in DOMAIN routes :
            /\ Ranked # <<>> /\ Ranked[1].amount = routes[i].amount
            /\ \A j \in DOMAIN routes : routes[j].amount <= routes[i].amount
      BY <1>2, <2>7, FirstRanksHighest
    <3> DEFINE a == routes'[1].amount
    <3>2. /\ routes' # <<>> /\ a = routes[i].amount /\ a \in Nat
          /\ \A t \in Found : t.amount <= a /\ t \in Reached
      BY <1>1, <1>2, <3>1 DEF Found, Reached
    <3>3. a \in Deliverable
      BY <2>1, <3>1, <3>2 DEF Found
    <3> HIDE DEF a
    <3>4. Value(request.to.asset, a) >= best[request.to] /\ Value(request.to.asset, a) \in Nat
      <4>1. Value(request.to.asset, a) \in Nat
        <5>1. PICK p \in Nat : p = Price[request.to.asset]
          BY <2>2, QuotesAssumption DEF Nodes
        <5>2. p * a \in Nat
          BY <3>2
        <5> QED BY <5>1, <5>2 DEF Value
      <4>2. CASE best[request.to] = 0
        BY <4>1, <4>2
      <4>3. ASSUME NEW t \in Found, t.node = request.to, t.usd >= best[request.to]
            PROVE  Value(request.to.asset, a) >= best[request.to]
        <5>1. t.usd <= Value(request.to.asset, a) /\ t.usd \in Nat
          BY <3>2, <4>3, WorthOfFound DEF Reached
        <5> QED BY <2>2, <4>1, <4>3, <5>1
      <4> QED BY <2>5, <4>1, <4>2, <4>3
    <3>5. \A leg \in Direct : Value(request.to.asset, a) >= NetUsd(leg)
      BY <2>2, <2>3, <2>4, <3>4
    <3>6. request.multi => \A b \in Deliverable : b <= a
      BY <2>1, <3>2
    <3> QED BY <3>2, <3>3, <3>5, <3>6 DEF a
  <2> QED BY <2>6, <2>7
<1>5. \A leg : NetUsd(leg)' = NetUsd(leg)
  BY DEF NetUsd
<1>6. BestRouteFirst'
  BY <1>1, <1>3, <1>4, <1>5 DEF BestRouteFirst, Answered
<1> QED BY <1>1, <1>6 DEF SearchInv

\* A state at its destination becomes a route.
LEMMA ReachKeepsSearchInv ==
  ASSUME SearchInv, NEW s, Reach(s) PROVE SearchInv'
<1>1. /\ answer = "Searching" /\ s \in queue /\ s.node = request.to
      /\ queue' = queue \ {s} /\ request' = request /\ best' = best /\ answer' = answer
      /\ routes' = IF s.legs = <<>> THEN routes ELSE Append(routes, s)
  BY DEF Reach, Popped
<1>2. Searching
  BY <1>1 DEF SearchInv
<1>3. s \in Reached /\ routes \in Seq(Reached)
  BY <1>1, <1>2 DEF Searching, SearchInv
<1>4. routes' \in Seq(Reached)
  BY <1>1, <1>3
<1>5. Deliverable' = Deliverable /\ Direct' = Direct
  BY <1>1 DEF Deliverable, Direct
<1>6. ASSUME request.from # request.to
      PROVE  Promised' = Promised /\ Found' = Found \cup {s} /\ s # Start(request)
  <2>1. s # Start(request) /\ s.legs # <<>>
    <3>1. Start(request).node = request.from
      BY <1>2, StartIsReached DEF Searching
    <3> QED BY <1>1, <1>2, <1>6, <3>1 DEF Searching
  <2>2. routes' = Append(routes, s)
    BY <1>1, <2>1
  <2>3. Found' = Found \cup {s}
    BY <1>3, <2>2 DEF Found
  <2>4. FromHere(s) = {s.amount}
    BY <1>1, <1>2, <1>3, FromHereUnfolds DEF Searching
  <2>5. \A t : FromHere(t)' = FromHere(t)
    BY <1>1 DEF FromHere
  <2>6. Promised' = (UNION {FromHere(t) : t \in queue \ {s}}) \cup {t.amount : t \in Found \cup {s}}
    BY <1>1, <2>3, <2>5 DEF Promised
  <2>7. UNION {FromHere(t) : t \in queue} = (UNION {FromHere(t) : t \in queue \ {s}}) \cup FromHere(s)
    BY <1>1
  <2> QED BY <2>1, <2>3, <2>4, <2>6, <2>7 DEF Promised
<1>7. \A leg : NetUsd(leg)' = NetUsd(leg)
  BY DEF NetUsd
<1>8. Start(request)' = Start(request)
  BY <1>1
<1>9. Searching'
  BY <1>1, <1>2, <1>4, <1>5, <1>6, <1>7, <1>8 DEF Searching
<1> QED BY <1>1, <1>3, <1>9 DEF SearchInv, BestRouteFirst, Answered

\* A state of MaxHops legs delivers nothing more.
LEMMA GiveUpKeepsSearchInv ==
  ASSUME SearchInv, NEW s, GiveUp(s) PROVE SearchInv'
<1>1. /\ answer = "Searching" /\ s \in queue /\ s.node # request.to /\ Len(s.legs) >= MaxHops
      /\ queue' = queue \ {s} /\ request' = request /\ best' = best /\ answer' = answer
      /\ routes' = routes
  BY DEF GiveUp, Popped
<1>2. Searching
  BY <1>1 DEF SearchInv
<1>3. s \in Reached
  BY <1>1, <1>2 DEF SearchInv
<1>4. s # Start(request)
  <2>1. Len(Start(request).legs) = 0
    BY <1>2, StartIsReached DEF Searching
  <2> QED BY <1>1, <2>1, RouteSearchAssumption
<1>5. Promised' = Promised /\ Found' = Found
  <2>a. Len(s.legs) = MaxHops
    <3>1. Len(s.legs) <= MaxHops /\ Len(s.legs) \in Nat
      BY <1>3 DEF Reached
    <3> QED BY <1>1, <3>1, RouteSearchAssumption
  <2>1. FromHere(s) = {}
    BY <1>1, <1>2, <1>3, <2>a, FromHereUnfolds DEF Searching
  <2>2. \A t : FromHere(t)' = FromHere(t)
    BY <1>1 DEF FromHere
  <2>3. Found' = Found
    BY <1>1 DEF Found
  <2>4. Promised' = (UNION {FromHere(t) : t \in queue \ {s}}) \cup {t.amount : t \in Found}
    BY <1>1, <2>2, <2>3 DEF Promised
  <2>5. UNION {FromHere(t) : t \in queue} = (UNION {FromHere(t) : t \in queue \ {s}}) \cup FromHere(s)
    BY <1>1
  <2> QED BY <2>1, <2>3, <2>4, <2>5 DEF Promised
<1>6. Deliverable' = Deliverable /\ Direct' = Direct /\ Start(request)' = Start(request)
  BY <1>1 DEF Deliverable, Direct
<1>7. \A leg : NetUsd(leg)' = NetUsd(leg)
  BY DEF NetUsd
<1>8. Searching'
  BY <1>1, <1>2, <1>4, <1>5, <1>6, <1>7 DEF Searching
<1> QED BY <1>1, <1>3, <1>8 DEF SearchInv, BestRouteFirst, Answered

\* A state that is expanded leaves behind where its legs take it.
LEMMA ExpandKeepsSearchInv ==
  ASSUME SearchInv, NEW s, Expand(s) PROVE SearchInv'
<1>1. /\ answer = "Searching" /\ s \in queue /\ s.node # request.to /\ Len(s.legs) < MaxHops
      /\ queue' = Considered(s).queue /\ best' = Considered(s).best
      /\ request' = request /\ answer' = answer /\ routes' = routes
  BY DEF Expand, Popped
<1>2. Searching
  BY <1>1 DEF SearchInv
<1>3. /\ s \in Reached /\ queue \in SUBSET Reached /\ best \in [Nodes -> Nat]
      /\ request.to \in Nodes
  BY <1>1, <1>2 DEF Searching, SearchInv
<1> DEFINE L == Legs(s.node, s.amount)
           next == {After(s, leg) : leg \in L}
<1>4. /\ Considered(s) \in Progress
      /\ Kept(s, [queue |-> queue \ {s}, best |-> best], Considered(s), L)
  BY <1>1, <1>3, ConsideredAll
<1>5. queue' \in SUBSET Reached /\ best' \in [Nodes -> Nat]
  BY <1>1, <1>4 DEF Progress
<1>6. \A leg \in L : /\ After(s, leg).legs # <<>> /\ After(s, leg).node = leg.to
                     /\ After(s, leg).amount = leg.out
                     /\ Len(After(s, leg).legs) = Len(s.legs) + 1
  <2>1. s.legs \in Seq(Offer)
    BY <1>3 DEF Reached
  <2>2. \A leg \in L : /\ Append(s.legs, leg) # <<>>
                       /\ Len(Append(s.legs, leg)) = Len(s.legs) + 1
    <3> TAKE leg \in L
    <3>1. leg \in Offer
      BY <1>3, LegsAreOffers DEF Reached
    <3> HIDE DEF L
    <3> QED BY <2>1, <3>1
  <2> HIDE DEF L
  <2> QED BY <2>2 DEF After, State
<1>7. \A leg \in L : NetUsd(leg) \in Nat /\ leg.to \in Nodes
  BY <1>1, <1>3, AfterIsReached, LegsAreTyped DEF Reached
<1> HIDE DEF L
<1>8. /\ queue \ {s} \subseteq queue' /\ queue' \subseteq (queue \ {s}) \cup next
      /\ request.multi => queue' = (queue \ {s}) \cup next
      /\ best[request.to] <= best'[request.to]
      /\ \A leg \in L : NetUsd(leg) <= best'[leg.to]
      /\ \/ best'[request.to] = best[request.to]
         \/ \E t \in queue' : t.node = request.to /\ t.usd = best'[request.to]
  BY <1>1, <1>3, <1>4 DEF Kept
<1> HIDE DEF next
<1>9. FromHere(s) = UNION {FromHere(t) : t \in next}
  <2> DEFINE later(leg) ==
               Deliveries(request.to)[MaxHops - (Len(s.legs) + 1)][leg.to][leg.out]
  <2>1. request.to \in Nodes /\ Len(s.legs) # MaxHops
    BY <1>1, <1>3, RouteSearchAssumption DEF Reached
  <2>2. FromHere(s) = UNION {later(leg) : leg \in L}
    BY <1>1, <1>3, <2>1, FromHereUnfolds DEF L
  <2>3. \A leg \in L : FromHere(After(s, leg)) = later(leg)
    BY <1>6 DEF FromHere
  <2> HIDE DEF later
  <2>4. {FromHere(t) : t \in next} = {later(leg) : leg \in L}
    BY <2>3 DEF next
  <2> QED BY <2>2, <2>4
<1>10. Promised' \subseteq Promised /\ (request.multi => Promised' = Promised) /\ Found' = Found
  <2>1. \A t : FromHere(t)' = FromHere(t)
    BY <1>1 DEF FromHere
  <2>2. Found' = Found
    BY <1>1 DEF Found
  <2>3. Promised' = (UNION {FromHere(t) : t \in queue'}) \cup {t.amount : t \in Found}
    BY <2>1, <2>2 DEF Promised
  <2>4. UNION {FromHere(t) : t \in queue} = (UNION {FromHere(t) : t \in queue \ {s}}) \cup FromHere(s)
    BY <1>1
  <2>5. UNION {FromHere(t) : t \in (queue \ {s}) \cup next}
          = (UNION {FromHere(t) : t \in queue \ {s}}) \cup UNION {FromHere(t) : t \in next}
    OBVIOUS
  <2>6. UNION {FromHere(t) : t \in (queue \ {s}) \cup next} = UNION {FromHere(t) : t \in queue}
    BY <1>9, <2>4, <2>5
  <2>7. UNION {FromHere(t) : t \in queue'} \subseteq UNION {FromHere(t) : t \in (queue \ {s}) \cup next}
    BY <1>8
  <2> QED BY <1>8, <2>2, <2>3, <2>6, <2>7 DEF Promised
<1>11. Deliverable' = Deliverable /\ Direct' = Direct /\ Start(request)' = Start(request)
  BY <1>1 DEF Deliverable, Direct
<1>12. \A leg : NetUsd(leg)' = NetUsd(leg)
  BY DEF NetUsd
<1>13. ASSUME request.from # request.to
       PROVE  /\ \A t \in queue' : t.legs = <<>> => t = Start(request)
              /\ \/ Start(request) \in queue'
                 \/ \A leg \in Direct : NetUsd(leg) <= best'[request.to]
              /\ \/ best'[request.to] = 0
                 \/ \E t \in queue' \cup Found : t.node = request.to /\ t.usd >= best'[request.to]
  <2>1. ASSUME NEW t \in queue', t.legs = <<>> PROVE t = Start(request)
    <3>1. t \in queue \/ t \in next
      BY <1>8
    <3> QED BY <1>2, <1>6, <1>13, <2>1, <3>1 DEF Searching, next
  <2>2. best[request.to] \in Nat /\ best'[request.to] \in Nat
    BY <1>3, <1>5
  <2>3. ASSUME s = Start(request)
        PROVE  \A leg \in Direct : NetUsd(leg) <= best'[request.to]
    <3>1. s.node = request.from /\ s.amount = request.amount
      BY <1>2, <2>3, StartIsReached DEF Searching
    <3>2. Direct = {leg \in L : leg.to = request.to}
      BY <3>1 DEF Direct, L
    <3> QED BY <1>8, <3>2
  <2>4. ASSUME \A leg \in Direct : NetUsd(leg) <= best[request.to]
        PROVE  \A leg \in Direct : NetUsd(leg) <= best'[request.to]
    <3>1. \A leg \in Direct : NetUsd(leg) \in Nat
      <4>1. /\ Start(request) \in Reached /\ Len(Start(request).legs) < MaxHops
            /\ Start(request).node = request.from /\ Start(request).amount = request.amount
        BY <1>2, StartIsReached, RouteSearchAssumption DEF Searching
      <4> QED BY <4>1, AfterIsReached DEF Direct
    <3> QED BY <1>8, <2>2, <2>4, <3>1
  <2>5. \/ Start(request) \in queue'
        \/ \A leg \in Direct : NetUsd(leg) <= best'[request.to]
    <3>1. \/ Start(request) \in queue
          \/ \A leg \in Direct : NetUsd(leg) <= best[request.to]
      BY <1>2, <1>13 DEF Searching
    <3>2. CASE s # Start(request) /\ Start(request) \in queue
      <4>1. Start(request) \in queue \ {s}
        BY <3>2
      <4> QED BY <1>8, <4>1
    <3> QED BY <2>3, <2>4, <3>1, <3>2
  <2>6. \/ best'[request.to] = 0
        \/ \E t \in queue' \cup Found : t.node = request.to /\ t.usd >= best'[request.to]
    <3>1. CASE best'[request.to] = best[request.to]
      <4>1. \/ best[request.to] = 0
            \/ \E t \in queue \cup Found : t.node = request.to /\ t.usd >= best[request.to]
        BY <1>2, <1>13 DEF Searching
      <4>2. \A t \in queue \cup Found : t.node = request.to => t \in queue' \cup Found
        BY <1>1, <1>8
      <4> QED BY <3>1, <4>1, <4>2
    <3>2. CASE \E t \in queue' : t.node = request.to /\ t.usd = best'[request.to]
      BY <2>2, <3>2
    <3> QED BY <1>8, <3>1, <3>2
  <2> QED BY <2>1, <2>5, <2>6
<1>14. Searching'
  BY <1>1, <1>2, <1>5, <1>10, <1>11, <1>12, <1>13 DEF Searching
<1> QED BY <1>1, <1>5, <1>14 DEF SearchInv, BestRouteFirst, Answered

\* Every step of a request or of the scanner keeps it.
LEMMA StepSearchInv ==
  ASSUME SearchInv, [PlannerNext]_<<vars, scanner>> PROVE SearchInv'
<1>1. CASE UNCHANGED vars
  BY <1>1 DEF vars, SearchInv, Searching, Promised, Found, FromHere, Deliverable, Direct,
              NetUsd, BestRouteFirst, Answered
<1>2. CASE Next
  BY <1>2, FinishKeepsSearchInv, ReachKeepsSearchInv, GiveUpKeepsSearchInv, ExpandKeepsSearchInv
  DEF Next
<1> QED BY <1>1, <1>2 DEF PlannerNext

\* router/mod.rs:189, whether or not alternatives are asked for, and in whatever
\* order the heap hands out states of equal value: the first route of an answer is
\* one that MaxHops legs can deliver, worth what any direct offer leaves after its
\* fee; and with alternatives it delivers the most they can.
THEOREM BestRouteComesFirst == PlannerSpec => []BestRouteFirst
<1>1. SearchInv => BestRouteFirst
  BY DEF SearchInv
<1> QED BY <1>1, InitSearchInv, StepSearchInv, PTL DEF PlannerSpec

-----------------------------------------------------------------------------
(* Splitting.  While the legs of a split trade, the product of the reserves *)
(* grows by at most one part of output for each of them.                    *)

\* After i legs that traded f each.
SplitSoFar(acc, pool, f, i) ==
  /\ acc.pool.in = pool.in + i * f /\ acc.pool.out = pool.out - acc.out
  /\ acc.pool.out * acc.pool.in <= pool.out * pool.in + i * acc.pool.in

\* One leg: what is left of the output, times the new input reserve.
LEMMA ProductGrowsByAPart ==
  ASSUME NEW X \in Nat, NEW Y \in Nat, NEW f \in Nat, X + f # 0
  PROVE  LET out == (f * Y) \div (X + f) IN (Y - out) * (X + f) <= Y * X + (X + f)
<1> DEFINE out == (f * Y) \div (X + f)
           Z == X + f
<1>1. Z \in Nat \ {0} /\ f * Y \in Nat
  OBVIOUS
<1>2. out \in Nat /\ f * Y < Z * out + Z
  <2> HIDE DEF Z
  <2>1. (f * Y) \div Z \in Nat /\ f * Y < Z * ((f * Y) \div Z) + Z
    BY <1>1, Floor
  <2> QED BY <2>1 DEF Z
<1> HIDE DEF out
<1>3. (Y - out) * Z = Y * X + f * Y - Z * out
  <2>1. (Y - out) * (X + f) = Y * X + f * Y - (X + f) * out
    BY <1>2
  <2> QED BY <2>1
<1>4. Y * X \in Int /\ Z * out \in Int
  BY <1>2
<1> HIDE DEF Z
<1>5. (Y - out) * Z <= Y * X + Z
  BY <1>1, <1>2, <1>3, <1>4
<1> QED BY <1>5 DEF out, Z

\* One leg of a split that is not refused: the reserves move by what was
\* traded, and their product grows by no more than the new input reserve.
LEMMA TradeLegKeepsSplit ==
  ASSUME NEW acc \in Splits, NEW leg \in Nat, NEW pool \in Pools, NEW i \in Nat,
         acc.error = "None" => SplitSoFar(acc, pool, AfterFee(leg), i),
         TradeLeg(acc, leg).error = "None"
  PROVE  SplitSoFar(TradeLeg(acc, leg), pool, AfterFee(leg), i + 1) /\ acc.pool.in # 0
<1> DEFINE e == EstimateSwap(leg, acc.pool)
           f == AfterFee(leg)
           X == acc.pool.in
           Y == acc.pool.out
           new == TradeLeg(acc, leg)
<1>1. X \in Nat /\ Y \in Nat /\ f \in Nat /\ acc.out \in Nat
      /\ pool.in \in Nat /\ pool.out \in Nat
  BY AfterFeeIsLess DEF Splits, Pools
<1>2. /\ acc.error = "None" /\ e.error = "None"
      /\ new.pool = [in |-> X + f, out |-> Y - e.out] /\ new.out = acc.out + e.out
  BY DEF TradeLeg, Traded, AfterLeg
<1>3. SplitSoFar(acc, pool, f, i)
  BY <1>2
<1>4. X # 0 /\ e.out = (f * Y) \div (X + f)
  <2>1. \A why \in {"ZeroAmount", "NoLiquidity", "ExcessivePriceImpact"} : Refused(why).error # "None"
    BY DEF Refused
  <2>2. e = IF leg <= 0 THEN Refused("ZeroAmount")
            ELSE IF X <= 0 \/ Y <= 0 THEN Refused("NoLiquidity")
            ELSE Estimate(f, acc.pool, ImpactBps(f, acc.pool))
    BY Zenon DEF EstimateSwap
  <2> HIDE DEF e, f
  <2>3. X # 0 /\ e = Estimate(f, acc.pool, ImpactBps(f, acc.pool))
    BY <1>1, <1>2, <2>1, <2>2
  <2> DEFINE impact == ImpactBps(f, acc.pool)
  <2> HIDE DEF impact
  <2>4. e = IF impact > MaxImpact THEN Refused("ExcessivePriceImpact")
            ELSE [error |-> "None", impact |-> impact, out |-> (f * Y) \div (X + f)]
    BY <2>3 DEF Estimate, impact
  <2> QED BY <1>2, <2>1, <2>3, <2>4
<1>a. e.out \in Nat
  <2>1. f * Y \in Nat /\ X + f \in Nat \ {0}
    <3> HIDE DEF f, X, Y, e
    <3> QED BY <1>1, <1>4, TimesMonotone
  <2> HIDE DEF f, X, Y, e
  <2> QED BY <1>4, <2>1, Floor
<1> HIDE DEF e, f, X, Y, new
<1>5. (Y - e.out) * (X + f) <= Y * X + (X + f)
  BY <1>1, <1>4, ProductGrowsByAPart
<1>6. X = pool.in + i * f /\ Y = pool.out - acc.out /\ Y * X <= pool.out * pool.in + i * X
  BY <1>3 DEF SplitSoFar, X, Y
<1>7. new.pool.in = pool.in + (i + 1) * f
  <2>1. (i + 1) * f = i * f + f /\ i * f \in Int
    BY <1>1
  <2> QED BY <1>1, <1>2, <1>6, <2>1
<1>8. new.pool.out = pool.out - new.out
  BY <1>1, <1>2, <1>6, <1>a
<1>9. new.pool.out * new.pool.in <= pool.out * pool.in + (i + 1) * new.pool.in
  <2>1. i * X <= i * (X + f) /\ (i + 1) * (X + f) = i * (X + f) + (X + f)
    BY <1>1
  <2>2. /\ (Y - e.out) * (X + f) \in Int /\ Y * X \in Int /\ i * X \in Int /\ X + f \in Int
        /\ i * (X + f) \in Int /\ pool.out * pool.in \in Int
    BY <1>1, <1>a
  <2>3. PICK a \in Int, b \in Int, c \in Int, d \in Int, k \in Int, l \in Int :
          /\ a = (Y - e.out) * (X + f) /\ b = Y * X /\ c = i * X /\ d = X + f
          /\ k = i * (X + f) /\ l = pool.out * pool.in
    BY <2>2
  <2>4. a <= b + d /\ b <= l + c /\ c <= k
    BY <1>5, <1>6, <2>1, <2>3
  <2>5. a <= l + (k + d)
    BY <2>4
  <2>6. (Y - e.out) * (X + f) <= pool.out * pool.in + (i + 1) * (X + f)
    BY <2>1, <2>3, <2>5
  <2> QED BY <1>2, <2>6
<1> QED BY <1>4, <1>7, <1>8, <1>9 DEF SplitSoFar, new, f, X

\* All legs of a split that is not refused.
LEMMA SplitsKeepTheProduct ==
  ASSUME NEW dx \in Nat, NEW pool \in Pools, NEW n \in Nat \ {0},
         EstimateSplitSwap(dx, pool, n).error = "None"
  PROVE  LET f == AfterFee(dx \div n)
             out == EstimateSplitSwap(dx, pool, n).out
         IN /\ pool.in # 0 /\ out \in Nat
            /\ (pool.out - out) * (pool.in + n * f) <= pool.out * pool.in + n * (pool.in + n * f)
<1> DEFINE leg == dx \div n
           f == AfterFee(leg)
<1>1. leg \in Nat
  BY Floor
<1>2. PICK h \in [0..n -> Splits] :
        /\ h[0] = Untraded(pool)
        /\ \A i \in 1..n : h[i] = TradeLeg(h[i - 1], leg)
        /\ EstimateSplitSwap(dx, pool, n) = Blended(h[n], n)
  BY SplitUnfolds
<1> HIDE DEF leg
<1>a. pool.in \in Nat /\ pool.out \in Nat /\ f \in Nat
  BY <1>1, AfterFeeIsLess DEF Pools
<1> HIDE DEF f
<1> DEFINE Good == {i \in Nat : i \in 0..n /\ h[i].error = "None" =>
                      SplitSoFar(h[i], pool, f, i) /\ (i # 0 => pool.in # 0)}
<1>3. 0 \in Good
  <2>1. h[0].pool = pool /\ h[0].out = 0
    BY <1>2 DEF Untraded
  <2>2. 0 * f = 0 /\ 0 * pool.in = 0 /\ pool.out * pool.in \in Int
    BY <1>a
  <2> QED BY <1>a, <2>1, <2>2 DEF SplitSoFar
<1>4. ASSUME NEW i \in Nat, i \in Good PROVE i + 1 \in Good
  <2> SUFFICES ASSUME i + 1 \in 0..n, h[i + 1].error = "None"
               PROVE  SplitSoFar(h[i + 1], pool, f, i + 1) /\ pool.in # 0
    OBVIOUS
  <2>1. i \in 0..n /\ i + 1 \in 1..n /\ (i + 1) - 1 = i
    OBVIOUS
  <2>2. h[i + 1] = TradeLeg(h[i], leg) /\ h[i] \in Splits
    BY <1>2, <2>1
  <2>3. h[i].error = "None" => SplitSoFar(h[i], pool, AfterFee(leg), i)
    BY <1>4, <2>1 DEF f
  <2>4. SplitSoFar(h[i + 1], pool, f, i + 1) /\ h[i].pool.in # 0
    BY <1>1, <2>2, <2>3, TradeLegKeepsSplit DEF f
  <2>5. i = 0 => h[i].pool = pool
    BY <1>2 DEF Untraded
  <2>6. h[i].error = "None"
    BY <2>2 DEF TradeLeg
  <2>7. pool.in # 0
    <3>1. CASE i = 0
      BY <2>4, <2>5, <3>1
    <3>2. CASE i # 0
      BY <1>4, <2>1, <2>6, <3>2
    <3> QED BY <3>1, <3>2
  <2> QED BY <2>4, <2>7
<1>5. Nat \subseteq Good
  <2> HIDE DEF Good
  <2> QED BY <1>3, <1>4, UpFromZero
<1>6. h[n].error = "None" /\ EstimateSplitSwap(dx, pool, n).out = h[n].out
  <2>1. CASE h[n].error = "None"
    BY <1>2, <2>1 DEF Blended
  <2>2. CASE h[n].error # "None"
    BY <1>2, <2>2 DEF Blended, Refused
  <2> QED BY <2>1, <2>2
<1>7. n \in Good /\ n \in 0..n /\ n # 0
  BY <1>5
<1>8. SplitSoFar(h[n], pool, f, n) /\ pool.in # 0
  BY <1>6, <1>7
<1>9. h[n].out \in Nat
  BY <1>7 DEF Splits
<1>10. (pool.out - h[n].out) * (pool.in + n * f) <= pool.out * pool.in + n * (pool.in + n * f)
  BY <1>8 DEF SplitSoFar
<1> QED BY <1>6, <1>8, <1>9, <1>10 DEF f, leg

\* What the division and the fee round away: less than two parts a leg.
LEMMA LegsRoundAway ==
  ASSUME NEW dx \in Nat, NEW n \in Nat \ {0}
  PROVE  LET lost == AfterFee(dx) - n * AfterFee(dx \div n) IN lost \in 0..(2 * n)
<1> DEFINE l == dx \div n
           F == AfterFee(dx)
           f == AfterFee(l)
           q == 10000 - FeeBps
<1>1. l \in Nat /\ n * l <= dx /\ dx < n * l + n
  BY Floor
<1>2. q \in Nat /\ q <= 10000
  BY QuotesAssumption
<1> HIDE DEF l
<1>3. F \in Nat /\ 10000 * F <= dx * q /\ dx * q < 10000 * F + 10000
  <2>1. dx * q \in Nat
    <3> HIDE DEF q
    <3> QED BY <1>2, TimesMonotone
  <2>2. F = (dx * q) \div 10000
    BY DEF AfterFee
  <2> HIDE DEF q, F
  <2> QED BY <2>1, <2>2, Floor
<1>4. f \in Nat /\ 10000 * f <= l * q /\ l * q < 10000 * f + 10000
  <2>1. l * q \in Nat
    <3> HIDE DEF q
    <3> QED BY <1>1, <1>2, TimesMonotone
  <2>2. f = (l * q) \div 10000
    BY DEF AfterFee
  <2> HIDE DEF q, f
  <2> QED BY <2>1, <2>2, Floor
<1> HIDE DEF F, f, q
<1>5. n * (l * q) <= dx * q /\ dx * q <= n * (l * q) + n * q /\ n * q <= 10000 * n
  <2>1. (n * l) * q <= dx * q
    <3>1. n * l \in Nat
      BY <1>1
    <3> QED BY <1>1, <1>2, <3>1, TimesMonotone
  <2>2. dx * q <= (n * l + n) * q
    <3>1. n * l + n \in Nat /\ dx <= n * l + n
      BY <1>1
    <3> QED BY <1>2, <3>1, TimesMonotone
  <2>3. (n * l) * q = n * (l * q) /\ (n * l + n) * q = (n * l) * q + n * q
    BY <1>1, <1>2
  <2>4. n * q <= 10000 * n
    BY <1>2, TimesMonotone
  <2> QED BY <2>1, <2>2, <2>3, <2>4
<1>6. n * (10000 * f) <= n * (l * q) /\ n * (l * q) <= n * (10000 * f) + n * 9999
  <2>1. l * q <= 10000 * f + 9999 /\ l * q \in Nat /\ 10000 * f \in Nat /\ 10000 * f + 9999 \in Nat
    BY <1>1, <1>2, <1>4
  <2>2. (10000 * f) * n <= (l * q) * n /\ (l * q) * n <= (10000 * f + 9999) * n
    BY <1>4, <2>1, TimesMonotone
  <2>3. (10000 * f) * n = n * (10000 * f) /\ (l * q) * n = n * (l * q)
        /\ (10000 * f + 9999) * n = n * (10000 * f) + n * 9999
    <3>1. PICK a \in Nat, b \in Nat : a = 10000 * f /\ b = l * q
      BY <2>1
    <3>2. a * n = n * a /\ b * n = n * b /\ (a + 9999) * n = n * a + n * 9999
      OBVIOUS
    <3> QED BY <3>1, <3>2
  <2> QED BY <2>2, <2>3
<1>7. n * (10000 * f) = 10000 * (n * f) /\ n * f \in Nat /\ dx * q \in Int /\ n * (l * q) \in Int /\ n * q \in Int
  BY <1>1, <1>2, <1>4
<1>8. PICK a \in Int, b \in Int, c \in Int, d \in Int :
        a = n * f /\ b = n * (l * q) /\ c = dx * q /\ d = n * q
  BY <1>7
<1>9. /\ b <= c /\ c <= b + d /\ d <= 10000 * n
      /\ 10000 * a <= b /\ b <= 10000 * a + n * 9999
      /\ 10000 * F <= c /\ c < 10000 * F + 10000
  BY <1>3, <1>5, <1>6, <1>7, <1>8
<1>10. F - a \in 0..(2 * n)
  <2>1. 10000 * a < 10000 * F + 10000 /\ 10000 * F <= 10000 * a + 19999 * n
    BY <1>3, <1>9
  <2>2. a <= F /\ F - a <= 2 * n
    BY <1>3, <2>1
  <2> QED BY <1>3, <2>2
<1> QED BY <1>8, <1>10 DEF F, f, l

\* The bound, from the product of the reserves.
LEMMA SplitBound ==
  ASSUME NEW X \in Nat \ {0}, NEW Y \in Nat, NEW Z \in Nat, NEW lost \in Nat, NEW n \in Nat,
         NEW c \in Nat, NEW S \in Nat, NEW L \in Nat,
         X <= Z, lost <= 2 * n, Y <= c * X,
         (Y - S) * Z <= Y * X + n * Z,
         Y * X <= (Y - L) * (Z + lost)
  PROVE  S >= L - n * (1 + 2 * c)
<1>1. (Y - S) * Z <= (Y - L) * (Z + lost) + n * Z
  BY SMT
<1>2. (Y - L) * (Z + lost) = Y * Z - L * Z + Y * lost - L * lost
  OBVIOUS
<1>3. (Y - S) * Z = Y * Z - S * Z
  OBVIOUS
<1>4. Y * lost <= (c * X) * lost /\ L * lost >= 0
  <2>1. c * X \in Nat
    OBVIOUS
  <2> QED BY <2>1, TimesMonotone
<1>5. (c * X) * lost = X * (c * lost) /\ X * (c * lost) <= Z * (c * lost)
  <2>1. c * lost \in Nat
    OBVIOUS
  <2>2. (c * X) * lost = X * (c * lost)
    OBVIOUS
  <2> QED BY <2>1, <2>2, TimesMonotone
<1>6. L * Z <= S * Z + n * Z + Z * (c * lost)
  <2>1. PICK yz \in Int, lz \in Int, yd \in Int, ld \in Int, sz \in Int, nz \in Int, zc \in Int,
             cxd \in Int :
          /\ yz = Y * Z /\ lz = L * Z /\ yd = Y * lost /\ ld = L * lost /\ sz = S * Z
          /\ nz = n * Z /\ zc = Z * (c * lost) /\ cxd = (c * X) * lost
    OBVIOUS
  <2>2. yz - sz <= yz - lz + yd - ld + nz /\ yd <= cxd /\ ld >= 0 /\ cxd <= zc
    BY <1>1, <1>2, <1>3, <1>4, <1>5, <2>1
  <2>3. lz <= sz + nz + zc
    BY <2>2
  <2> QED BY <2>1, <2>3
<1>7. S * Z + n * Z + Z * (c * lost) = (S + n + c * lost) * Z
  <2>1. PICK k \in Nat : k = c * lost
    OBVIOUS
  <2>2. S * Z + n * Z + Z * k = (S + n + k) * Z
    OBVIOUS
  <2> QED BY <2>1, <2>2
<1>8. L <= S + n + c * lost
  <2>1. S + n + c * lost \in Int /\ Z \in Nat \ {0}
    OBVIOUS
  <2> QED BY <1>6, <1>7, <2>1, TimesCancels
<1>9. c * lost <= c * (2 * n) /\ c * (2 * n) = n * (2 * c) /\ n * (1 + 2 * c) = n + n * (2 * c)
  <2>1. lost * c <= (2 * n) * c
    BY TimesMonotone
  <2> QED BY <2>1
<1>10. PICK cl \in Int, nc \in Int : cl = c * lost /\ nc = n * (2 * c)
  OBVIOUS
<1> QED BY <1>8, <1>9, <1>10

\* slippage.rs:121, for every pool, amount and number of legs.
LEMMA SplitsPay ==
  ASSUME NEW dx \in Nat, NEW pool \in Pools, NEW n \in Nat \ {0},
         EstimateSplitSwap(dx, pool, n).error = "None"
  PROVE  EstimateSplitSwap(dx, pool, n).out
           >= EstimateSwap(dx, pool).out
                - RoundedAway(pool, n)
<1> DEFINE X == pool.in
           Y == pool.out
           F == AfterFee(dx)
           f == AfterFee(dx \div n)
           S == EstimateSplitSwap(dx, pool, n).out
           L == EstimateSwap(dx, pool).out
           c == (Y + X - 1) \div X
           Z == X + n * f
           lost == F - n * f
<1>1. /\ X \in Nat \ {0} /\ Y \in Nat /\ S \in Nat
      /\ (Y - S) * Z <= Y * X + n * Z
  BY SplitsKeepTheProduct DEF Pools
<1>2. F \in Nat /\ f \in Nat
  <2>1. dx \div n \in Nat
    BY Floor
  <2> QED BY <2>1, AfterFeeIsLess
<1>3. lost \in 0..(2 * n)
  BY LegsRoundAway
<1>4. L \in Nat /\ L <= Y /\ (L = 0 \/ L = (F * Y) \div (X + F))
  <2>1. L \in Nat /\ L <= Y
    BY SwapIsTyped DEF Estimates
  <2>2. EstimateSwap(dx, pool)
          = IF dx <= 0 THEN Refused("ZeroAmount")
            ELSE IF X <= 0 \/ Y <= 0 THEN Refused("NoLiquidity")
            ELSE Estimate(F, pool, ImpactBps(F, pool))
    BY Zenon DEF EstimateSwap
  <2>3. \A impact : \/ Estimate(F, pool, impact).out = 0
                    \/ Estimate(F, pool, impact).out = (F * Y) \div (X + F)
    <3> HIDE DEF F
    <3> QED BY DEF Estimate, Refused
  <2>4. \A why : Refused(why).out = 0
    BY DEF Refused
  <2> HIDE DEF F, X, Y
  <2> QED BY <2>1, <2>2, <2>3, <2>4
<1>5. c \in Nat /\ Y <= c * X
  <2>1. Y + X - 1 \in Nat
    BY <1>1
  <2> HIDE DEF X, Y
  <2>2. (Y + X - 1) \div X \in Nat /\ Y + X - 1 < X * ((Y + X - 1) \div X) + X
    BY <1>1, <2>1, Floor
  <2> HIDE DEF c
  <2>3. c \in Nat /\ Y + X - 1 < X * c + X
    BY <2>2 DEF c
  <2>4. X * c = c * X /\ X * c \in Int
    BY <1>1, <2>3
  <2> QED BY <1>1, <2>3, <2>4
<1> HIDE DEF X, Y, F, f, S, L, c
<1>6. Z \in Nat /\ X <= Z /\ Z + lost = X + F /\ lost \in Nat /\ lost <= 2 * n
  <2>1. n * f \in Nat
    BY <1>2
  <2> QED BY <1>1, <1>2, <1>3, <2>1
<1> HIDE DEF Z, lost
<1>7. L * (X + F) <= F * Y
  <2>1. X + F \in Nat \ {0} /\ F * Y \in Nat
    BY <1>1, <1>2
  <2>2. CASE L = 0
    <3>1. L * (X + F) = 0
      BY <2>1, <2>2
    <3> QED BY <2>1, <3>1
  <2>3. CASE L = (F * Y) \div (X + F)
    <3>1. (X + F) * L <= F * Y
      BY <2>1, <2>3, Floor
    <3>2. (X + F) * L = L * (X + F)
      BY <1>4, <2>1
    <3> QED BY <3>1, <3>2
  <2> QED BY <1>4, <2>2, <2>3
<1>8. Y * X <= (Y - L) * (X + F)
  <2>1. (Y - L) * (X + F) = Y * X + F * Y - L * (X + F)
    BY <1>1, <1>2, <1>4
  <2>2. Y * X \in Int /\ F * Y \in Int /\ L * (X + F) \in Int
    BY <1>1, <1>2, <1>4
  <2> QED BY <1>7, <2>1, <2>2
<1>9. S >= L - n * (1 + 2 * c)
  BY <1>1, <1>4, <1>5, <1>6, <1>8, SplitBound
<1> QED BY <1>9 DEF S, L, c, X, Y, RoundedAway

-----------------------------------------------------------------------------
(* The swaps on offer.                                                     *)

\* A swap on offer is one of the swaps of its node, of an amount it takes.
LEMMA SwappedAreSwaps ==
  ASSUME queue \in SUBSET Reached, NEW leg \in Swapped
  PROVE  /\ leg \in Offer
         /\ leg \in SwapLegs(leg.from, leg.in)
<1>1. PICK s \in queue : s.legs # <<>> /\ leg = s.legs[Len(s.legs)]
  BY DEF Swapped, SwapOffers
<1>2. s.legs \in Seq(Offer)
  BY <1>1 DEF Reached
<1>3. leg \in Offer /\ leg.how = "Swap"
  BY <1>1, <1>2 DEF Swapped
<1>4. leg \in Legs(leg.from, leg.in)
  BY <1>3 DEF Offer
<1>5. ASSUME NEW how, NEW quote, leg \in Bridges(how, leg.from, leg.in, quote)
      PROVE  leg.how = how
  BY <1>5 DEF Bridges, Leg
<1>6. leg \notin CctpLegs(leg.from, leg.in)
  <2>1. leg \in CctpLegs(leg.from, leg.in)
          => leg \in Bridges("CCTP", leg.from, leg.in, CctpQuote(leg.from.chain, leg.in))
    BY DEF CctpLegs
  <2> QED BY <1>3, <1>5, <2>1
<1>7. leg \notin DeBridgeLegs(leg.from, leg.in)
  BY <1>3, <1>5 DEF DeBridgeLegs
<1> QED BY <1>3, <1>4, <1>6, <1>7 DEF Legs

\* router/mod.rs:215: a swap on offer carries a quote that was not refused.
LEMMA SwapsTrade ==
  ASSUME NEW n \in Nodes, NEW amount \in Nat, NEW leg \in SwapLegs(n, amount)
  PROVE  \E a \in Assets :
           /\ leg.to = [n EXCEPT !.asset = a] /\ leg.from = n /\ leg.in = amount
           /\ leg.out = SwapQuote(n.chain, n.asset, a, amount).out
           /\ SwapQuote(n.chain, n.asset, a, amount).error = "None"
<1>1. PICK s \in Swaps(n, amount) :
        /\ s.quote.error = "None"
        /\ leg = Leg("Swap", n, s.to, amount, s.quote.out, s.quote.fee)
  BY DEF SwapLegs
<1>2. PICK a \in Assets : s = [to |-> [n EXCEPT !.asset = a],
                               quote |-> SwapQuote(n.chain, n.asset, a, amount)]
  BY DEF Swaps
<1> QED BY <1>1, <1>2 DEF Leg

\* slippage.rs:121: splitting a swap on offer into any of the tranche counts
\* delivers no less than one lump swap, but for what is rounded away.
THEOREM SplittingPays == PlannerSpec => []SplitPays
<1>1. ASSUME SearchInv PROVE SplitPays
  <2> SUFFICES ASSUME NEW leg \in Swapped, NEW n \in Range(Tranches),
                      EstimateSplitSwap(leg.in * Scale,
                        Pool(leg.from.chain, leg.from.asset, leg.to.asset), n).error = "None"
               PROVE  EstimateSplitSwap(leg.in * Scale,
                        Pool(leg.from.chain, leg.from.asset, leg.to.asset), n).out
                        >= EstimateSwap(leg.in * Scale,
                             Pool(leg.from.chain, leg.from.asset, leg.to.asset)).out
                           - RoundedAway(Pool(leg.from.chain, leg.from.asset, leg.to.asset), n)
    BY DEF SplitPays
  <2>1. leg \in Offer
    BY <1>1, SwappedAreSwaps DEF SearchInv
  <2>2. leg.from \in Nodes /\ leg.to \in Nodes /\ leg.in \in Nat
    BY <2>1 DEF Offer
  <2>3. PICK chain \in Chains, from \in Assets, to \in Assets, amount \in Nat :
          /\ chain = leg.from.chain /\ from = leg.from.asset /\ to = leg.to.asset
          /\ amount = leg.in
    BY <2>2 DEF Nodes
  <2>4. Pool(chain, from, to) \in Pools
    BY PoolsArePriced
  <2>5. amount * Scale \in Nat
    BY QuotesAssumption
  <2>6. n \in Nat \ {0}
    BY QuotesAssumption DEF Range
  <2> QED BY <2>3, <2>4, <2>5, <2>6, SplitsPay
<1> QED BY <1>1, InitSearchInv, StepSearchInv, PTL DEF PlannerSpec

\* What a simulation that is not refused says of its impact and output.
LEMMA EstimatesWithinLimit ==
  ASSUME NEW dx \in Nat, NEW pool \in Pools, EstimateSwap(dx, pool).error = "None"
  PROVE  LET in == AfterFee(dx) IN
         /\ pool.in # 0 /\ ImpactBps(in, pool) <= MaxImpact
         /\ EstimateSwap(dx, pool).out = (in * pool.out) \div (pool.in + in)
<1> DEFINE in == AfterFee(dx)
           impact == ImpactBps(in, pool)
<1>1. in \in Nat /\ pool.in \in Nat /\ pool.out \in Nat
  BY AfterFeeIsLess DEF Pools
<1>2. \A why \in {"ZeroAmount", "NoLiquidity", "ExcessivePriceImpact"} :
        Refused(why).error # "None"
  BY DEF Refused
<1>3. EstimateSwap(dx, pool)
        = IF dx <= 0 THEN Refused("ZeroAmount")
          ELSE IF pool.in <= 0 \/ pool.out <= 0 THEN Refused("NoLiquidity")
          ELSE Estimate(in, pool, impact)
  BY Zenon DEF EstimateSwap
<1> HIDE DEF in, impact
<1>4. pool.in # 0 /\ EstimateSwap(dx, pool) = Estimate(in, pool, impact)
  BY <1>1, <1>2, <1>3
<1>5. Estimate(in, pool, impact)
        = IF impact > MaxImpact THEN Refused("ExcessivePriceImpact")
          ELSE [error |-> "None", impact |-> impact,
                out |-> (in * pool.out) \div (pool.in + in)]
  BY Zenon DEF Estimate
<1>6. ~(impact > MaxImpact)
  BY <1>2, <1>4, <1>5
<1>7. impact \in Nat
  <2>1. 2 * 10000 * in + pool.in + in \in Nat /\ 2 * (pool.in + in) \in Nat \ {0}
    BY <1>1, <1>4
  <2> QED BY <2>1, Floor DEF impact, ImpactBps
<1>8. impact <= MaxImpact
  BY <1>6, <1>7, QuotesAssumption
<1>9. EstimateSwap(dx, pool).out = (in * pool.out) \div (pool.in + in)
  BY <1>4, <1>5, <1>6
<1> QED BY <1>4, <1>8, <1>9 DEF in, impact

\* The reserves of a pool are worth the same, but for a part: either way round.
LEMMA PoolsArePricedBack ==
  ASSUME NEW chain \in Chains, NEW from \in Assets, NEW to \in Assets
  PROVE  LET pool == Pool(chain, from, to)
         IN pool.in * Price[from] <= (pool.out + 1) * Price[to]
<1>1. PoolDepth(chain, from, to) = PoolDepth(chain, to, from)
  <2>1. {from, to} = {to, from}
    OBVIOUS
  <2> QED BY <2>1 DEF PoolDepth
<1>2. /\ Pool(chain, to, from).in = Pool(chain, from, to).out
      /\ Pool(chain, to, from).out = Pool(chain, from, to).in
  BY <1>1 DEF Pool
<1>3. Priced(Pool(chain, to, from), Price[to], Price[from])
  BY PoolsArePriced
<1> QED BY <1>2, <1>3 DEF Priced

\* Parts, in whole units: less than one unit is lost.
LEMMA WholeUnits ==
  ASSUME NEW out \in Nat, NEW scale \in Nat \ {0}
  PROVE  out \div scale \in Nat /\ out + 1 <= ((out \div scale) + 1) * scale
<1> DEFINE q == out \div scale
<1>1. q \in Nat /\ out < scale * q + scale
  BY Floor
<1> HIDE DEF q
<1>2. (q + 1) * scale = scale * q + scale /\ scale * q \in Int
  BY <1>1
<1>3. q \in Nat /\ out + 1 <= (q + 1) * scale
  BY <1>1, <1>2
<1> QED BY <1>3 DEF q

\* An impact of M basis points, rounded, costs less than M and a half.
LEMMA ImpactBounds ==
  ASSUME NEW F \in Nat, NEW X \in Nat \ {0}, NEW Y \in Nat, NEW M \in Nat, M <= 9999,
         (2 * 10000 * F + X + F) \div (2 * (X + F)) <= M,
         NEW pa \in Nat, NEW pb \in Nat, X * pa <= (Y + 1) * pb
  PROVE  LET L == (F * Y) \div (X + F)
         IN (F * pa) * (20000 - (2 * M + 1)) <= 20000 * ((L + 2) * pb)
<1> DEFINE L == (F * Y) \div (X + F)
           K == 20000 - (2 * M + 1)
           Z == X + F
           i == (2 * 10000 * F + X + F) \div (2 * (X + F))
<1>1. Z \in Nat \ {0} /\ K \in Nat /\ F * Y \in Nat
  OBVIOUS
<1>2. L \in Nat /\ F * Y < Z * L + Z
  <2>1. L = (F * Y) \div Z
    OBVIOUS
  <2> HIDE DEF L, Z
  <2> QED BY <1>1, <2>1, Floor
<1>3. 20000 * F < (2 * M + 1) * Z
  <2>1. 2 * 10000 * F + X + F \in Nat /\ 2 * (X + F) \in Nat \ {0}
    OBVIOUS
  <2>2. i \in Nat /\ 2 * 10000 * F + X + F < (2 * (X + F)) * i + 2 * (X + F)
    <3> DEFINE a == 2 * 10000 * F + X + F
               b == 2 * (X + F)
    <3>1. a \in Nat /\ b \in Nat \ {0} /\ i = a \div b
      BY <2>1
    <3> HIDE DEF a, b, i
    <3>2. i \in Nat /\ a < b * i + b
      BY <3>1, Floor
    <3> QED BY <3>2 DEF a, b
  <2>3. i <= M
    OBVIOUS
  <2> HIDE DEF i
  <2>4. i * (2 * Z) <= M * (2 * Z)
    <3>1. 2 * Z \in Nat
      OBVIOUS
    <3> HIDE DEF Z
    <3> QED BY <2>2, <2>3, <3>1, TimesMonotone
  <2>5. (2 * Z) * i = i * (2 * Z) /\ M * (2 * Z) = 2 * (M * Z)
        /\ (2 * M + 1) * Z = 2 * (M * Z) + Z
    <3> HIDE DEF Z
    <3> QED BY <1>1, <2>2
  <2>6. PICK a \in Int, b \in Int, z \in Int : a = i * (2 * Z) /\ b = M * Z /\ z = Z
    <3> HIDE DEF Z
    <3> QED BY <1>1, <2>2
  <2>7. 20000 * F + z < a + 2 * z /\ a <= 2 * b
    BY <2>2, <2>4, <2>5, <2>6
  <2>8. 20000 * F < 2 * b + z
    BY <2>6, <2>7
  <2> QED BY <2>5, <2>6, <2>8
<1>4. K * Z <= 20000 * X
  <2>1. K * Z = 20000 * Z - (2 * M + 1) * Z
    <3> HIDE DEF Z
    <3> QED BY <1>1
  <2>2. PICK a \in Int, b \in Int : a = (2 * M + 1) * Z /\ b = K * Z
    <3> HIDE DEF Z, K
    <3> QED BY <1>1
  <2>3. b = 20000 * Z - a /\ 20000 * F < a /\ Z = X + F
    BY <1>3, <2>1, <2>2
  <2> HIDE DEF K, Z
  <2>4. b <= 20000 * X
    BY <1>1, <2>2, <2>3
  <2> QED BY <2>2, <2>4
<1>5. F <= Z
  OBVIOUS
<1> HIDE DEF L, K, Z
<1>6. (K * Z) * (F * pa) <= (20000 * X) * (F * pa)
  <2>1. K * Z \in Nat /\ 20000 * X \in Nat /\ F * pa \in Nat
    BY <1>1
  <2> QED BY <1>4, <2>1, TimesMonotone
<1>7. (X * pa) * (20000 * F) <= ((Y + 1) * pb) * (20000 * F)
  <2>1. X * pa \in Nat /\ (Y + 1) * pb \in Nat /\ 20000 * F \in Nat
    OBVIOUS
  <2> QED BY <2>1, TimesMonotone
<1>8. (F * (Y + 1)) * (20000 * pb) <= ((L + 2) * Z) * (20000 * pb)
  <2>1. F * (Y + 1) = F * Y + F /\ (L + 2) * Z = Z * L + Z + Z
    BY <1>1, <1>2
  <2>2. PICK a \in Int, b \in Int : a = F * Y /\ b = Z * L
    BY <1>1, <1>2
  <2>3. F * (Y + 1) <= (L + 2) * Z
    BY <1>1, <1>2, <1>5, <2>1, <2>2
  <2>4. F * (Y + 1) \in Nat /\ (L + 2) * Z \in Nat /\ 20000 * pb \in Nat
    BY <1>1, <1>2
  <2> QED BY <2>3, <2>4, TimesMonotone
<1>9. /\ (20000 * X) * (F * pa) = (X * pa) * (20000 * F)
      /\ ((Y + 1) * pb) * (20000 * F) = (F * (Y + 1)) * (20000 * pb)
      /\ (K * Z) * (F * pa) = ((F * pa) * K) * Z
      /\ ((L + 2) * Z) * (20000 * pb) = (20000 * ((L + 2) * pb)) * Z
  <2>1. (20000 * X) * (F * pa) = (X * pa) * (20000 * F)
    OBVIOUS
  <2>2. ((Y + 1) * pb) * (20000 * F) = (F * (Y + 1)) * (20000 * pb)
    <3>1. PICK y \in Nat : y = Y + 1
      OBVIOUS
    <3>2. (y * pb) * (20000 * F) = (F * y) * (20000 * pb)
      OBVIOUS
    <3> QED BY <3>1, <3>2
  <2>3. (K * Z) * (F * pa) = ((F * pa) * K) * Z
    BY <1>1
  <2>4. ((L + 2) * Z) * (20000 * pb) = (20000 * ((L + 2) * pb)) * Z
    <3>1. PICK l \in Nat : l = L + 2
      BY <1>2
    <3>2. (l * Z) * (20000 * pb) = (20000 * (l * pb)) * Z
      BY <1>1
    <3> QED BY <3>1, <3>2
  <2> QED BY <2>1, <2>2, <2>3, <2>4
<1>10. ((F * pa) * K) * Z <= (20000 * ((L + 2) * pb)) * Z
  <2>1. /\ (K * Z) * (F * pa) \in Int /\ (20000 * X) * (F * pa) \in Int
        /\ ((Y + 1) * pb) * (20000 * F) \in Int /\ ((L + 2) * Z) * (20000 * pb) \in Int
    BY <1>1, <1>2
  <2> QED BY <1>6, <1>7, <1>8, <1>9, <2>1
<1>11. (F * pa) * K <= 20000 * ((L + 2) * pb)
  <2>1. (F * pa) * K \in Int /\ 20000 * ((L + 2) * pb) \in Int
    BY <1>1, <1>2
  <2> QED BY <1>1, <1>10, <2>1, TimesCancels
<1> QED BY <1>11 DEF L, K

\* What a split rounds away is a number of parts.
LEMMA RoundedAwayIsTyped ==
  ASSUME NEW pool \in Pools, pool.in # 0, NEW n \in Nat \ {0}
  PROVE  RoundedAway(pool, n) \in Nat
<1> DEFINE c == (pool.out + pool.in - 1) \div pool.in
<1>1. pool.out + pool.in - 1 \in Nat /\ pool.in \in Nat \ {0}
  BY DEF Pools
<1>2. c \in Nat
  <2>1. PICK a \in Nat, b \in Nat \ {0} : a = pool.out + pool.in - 1 /\ b = pool.in
    BY <1>1
  <2> QED BY <2>1, Floor
<1> HIDE DEF c
<1>3. n * (1 + 2 * c) \in Nat
  BY <1>2
<1> QED BY <1>3 DEF RoundedAway, c

\* dex.rs: what is quoted, in one lump or split, is no less than the lump
\* delivers, but for what a split rounds away.
LEMMA QuotedIsNoLess ==
  ASSUME NEW dx \in Nat, NEW pool \in Pools,
         SplitIfLarge(dx, pool, EstimateSwap(dx, pool)).error = "None"
  PROVE  /\ EstimateSwap(dx, pool).error = "None"
         /\ SplitIfLarge(dx, pool, EstimateSwap(dx, pool)).out \in Nat
         /\ \E n \in Range(Tranches) :
              SplitIfLarge(dx, pool, EstimateSwap(dx, pool)).out
                >= EstimateSwap(dx, pool).out - RoundedAway(pool, n)
<1> DEFINE lump == EstimateSwap(dx, pool)
           e == SplitIfLarge(dx, pool, lump)
           splits == [i \in DOMAIN Tranches |-> EstimateSplitSwap(dx, pool, Tranches[i])]
<1>1. lump.error = "None"
  BY DEF SplitIfLarge
<1>2. lump.out \in Nat
  BY SwapIsTyped DEF Estimates
<1>3. Len(Tranches) \in Nat \ {0} /\ DOMAIN Tranches = 1..Len(Tranches)
      /\ \A i \in 1..Len(Tranches) : Tranches[i] \in Nat \ {0} /\ Tranches[i] \in Range(Tranches)
  BY QuotesAssumption DEF Range
<1>4. pool.in # 0
  BY <1>1, EstimatesWithinLimit
<1>5. CASE e = lump
  <2>1. Tranches[1] \in Range(Tranches) /\ RoundedAway(pool, Tranches[1]) \in Nat
    BY <1>3, <1>4, RoundedAwayIsTyped
  <2>2. lump.out >= lump.out - RoundedAway(pool, Tranches[1])
    <3> HIDE DEF lump
    <3> QED BY <1>2, <2>1
  <2> QED BY <1>1, <1>2, <1>5, <2>1, <2>2
<1>6. CASE e = BestSplit(dx, pool)
  <2>1. Len(splits) = Len(Tranches) /\ DOMAIN splits = 1..Len(Tranches)
    BY <1>3
  <2>2. PICK i \in 1..Len(Tranches) : FirstGood(splits) = splits[i]
    <3> HIDE DEF splits
    <3> QED BY <1>3, <2>1, FirstGoodIsOne
  <2>3. e = EstimateSplitSwap(dx, pool, Tranches[i])
    BY <1>3, <1>6, <2>2 DEF BestSplit
  <2>4. Tranches[i] \in Nat \ {0} /\ Tranches[i] \in Range(Tranches)
    BY <1>3
  <2>5. e.out >= lump.out - RoundedAway(pool, Tranches[i])
    BY <2>3, <2>4, SplitsPay
  <2>6. e.out \in Nat
    BY <2>3, <2>4, SplitsKeepTheProduct
  <2> QED BY <1>1, <2>4, <2>5, <2>6
<1>7. e = lump \/ e = BestSplit(dx, pool)
  BY Zenon DEF SplitIfLarge
<1> QED BY <1>5, <1>6, <1>7

\* slippage.rs:27, for the quote of any swap.
LEMMA QuotesLoseLittle ==
  ASSUME NEW chain \in Chains, NEW from \in Assets, NEW to \in Assets, NEW amount \in Nat,
         SwapQuote(chain, from, to, amount).error = "None"
  PROVE  \E n \in Range(Tranches) :
           LET traded == Value(from, AfterFee(amount * Scale))
               most   == (SwapQuote(chain, from, to, amount).out + 1) * Scale + 1
                           + RoundedAway(Pool(chain, from, to), n)
           IN Value(to, most) >= (traded \div 20000) * (20000 - (2 * MaxImpact + 1))
<1> DEFINE dx == amount * Scale
           pool == Pool(chain, from, to)
           lump == EstimateSwap(dx, pool)
           e == SplitIfLarge(dx, pool, lump)
           q == SwapQuote(chain, from, to, amount).out
           F == AfterFee(dx)
           pa == Price[from]
           pb == Price[to]
           K == 20000 - (2 * MaxImpact + 1)
<1>1. dx \in Nat /\ Scale \in Nat \ {0} /\ MaxImpact \in Nat /\ MaxImpact <= 9999
  BY QuotesAssumption
<1>2. pool \in Pools /\ pa \in Nat /\ pb \in Nat
  BY PoolsArePriced
<1>3. e.error = "None" /\ q = e.out \div Scale
  BY DEF SwapQuote, Quote
<1>a. F \in Nat
  BY <1>1, AfterFeeIsLess
<1> HIDE DEF dx, pool, e, q, F, pa, pb
<1>4. PICK n \in Range(Tranches) : e.out >= lump.out - RoundedAway(pool, n)
  BY <1>1, <1>2, <1>3, QuotedIsNoLess DEF e
<1>5. lump.error = "None" /\ e.out \in Nat
  BY <1>1, <1>2, <1>3, QuotedIsNoLess DEF e
<1>6. /\ pool.in \in Nat \ {0} /\ pool.out \in Nat /\ ImpactBps(F, pool) <= MaxImpact
      /\ lump.out = (F * pool.out) \div (pool.in + F) /\ lump.out \in Nat
  BY <1>1, <1>2, <1>5, EstimatesWithinLimit, SwapIsTyped DEF F, Pools, Estimates
<1>7. RoundedAway(pool, n) \in Nat
  <2>1. n \in Nat \ {0}
    BY QuotesAssumption DEF Range
  <2> QED BY <1>2, <1>6, <2>1, RoundedAwayIsTyped
<1> HIDE DEF lump
<1>8. (F * pa) * K <= 20000 * ((lump.out + 2) * pb)
  <2>1. pool.in * pa <= (pool.out + 1) * pb
    BY PoolsArePricedBack DEF pool, pa, pb
  <2>2. (2 * 10000 * F + pool.in + F) \div (2 * (pool.in + F)) <= MaxImpact
    BY <1>6 DEF ImpactBps
  <2>3. PICK X \in Nat \ {0}, Y \in Nat, f \in Nat, M \in Nat, a \in Nat, b \in Nat :
          /\ X = pool.in /\ Y = pool.out /\ f = F /\ M = MaxImpact /\ a = pa /\ b = pb
    BY <1>1, <1>2, <1>a, <1>6
  <2>4. (2 * 10000 * f + X + f) \div (2 * (X + f)) <= M /\ M <= 9999 /\ X * a <= (Y + 1) * b
    BY <1>1, <2>1, <2>2, <2>3
  <2>5. (f * a) * (20000 - (2 * M + 1)) <= 20000 * ((((f * Y) \div (X + f)) + 2) * b)
    BY <2>4, ImpactBounds
  <2> QED BY <1>6, <2>3, <2>5
<1> DEFINE most == (q + 1) * Scale + 1 + RoundedAway(pool, n)
<1>9. most \in Nat /\ lump.out + 2 <= most
  <2>1. q \in Nat /\ e.out + 1 <= (q + 1) * Scale
    <3>1. PICK out \in Nat, scale \in Nat \ {0} : out = e.out /\ scale = Scale
      BY <1>1, <1>5
    <3>2. out \div scale \in Nat /\ out + 1 <= ((out \div scale) + 1) * scale
      BY WholeUnits
    <3> QED BY <1>3, <3>1, <3>2
  <2>2. (q + 1) * Scale \in Nat
    BY <1>1, <2>1
  <2> QED BY <1>1, <1>4, <1>5, <1>6, <1>7, <2>1, <2>2
<1> HIDE DEF most, K
<1>10. (lump.out + 2) * pb <= most * pb
  BY <1>2, <1>6, <1>9, TimesMonotone
<1>11. K \in Nat
  BY <1>1 DEF K
<1> DEFINE t == (F * pa) \div 20000
<1>12. F * pa \in Nat /\ t \in Nat /\ 20000 * t <= F * pa
  <2>1. F * pa \in Nat
    BY <1>2, <1>a, TimesMonotone
  <2> QED BY <2>1, Floor
<1> HIDE DEF t
<1>13. (20000 * t) * K <= (F * pa) * K
  BY <1>11, <1>12, TimesMonotone
<1>14. t * K <= most * pb
  <2>1. (20000 * t) * K = 20000 * (t * K) /\ t * K \in Int
    BY <1>11, <1>12
  <2>2. most * pb \in Int /\ (lump.out + 2) * pb \in Int /\ (F * pa) * K \in Int
    BY <1>2, <1>6, <1>9, <1>11, <1>12
  <2> QED BY <1>8, <1>10, <1>13, <2>1, <2>2
<1>15. Value(from, F) = F * pa /\ Value(to, most) = most * pb
  BY <1>2, <1>a, <1>9 DEF Value, pa, pb
<1>16. Value(to, most) >= (Value(from, F) \div 20000) * K
  BY <1>14, <1>15 DEF t
<1> QED BY <1>16 DEF most, K, F, dx, pool, q

\* slippage.rs:27, the limit on the price impact: a swap on offer, split or
\* not, loses no more than the fee and the largest impact allowed, but for
\* what is rounded away.
THEOREM LossesAreBounded == PlannerSpec => []LossIsBounded
<1>1. ASSUME SearchInv PROVE LossIsBounded
  <2> SUFFICES ASSUME NEW leg \in Swapped
               PROVE  \E n \in Range(Tranches) :
                        LET pool   == Pool(leg.from.chain, leg.from.asset, leg.to.asset)
                            traded == Value(leg.from.asset, AfterFee(leg.in * Scale))
                            most   == (leg.out + 1) * Scale + 1 + RoundedAway(pool, n)
                        IN Value(leg.to.asset, most)
                             >= (traded \div 20000) * (20000 - (2 * MaxImpact + 1))
    BY DEF LossIsBounded
  <2>1. leg \in Offer /\ leg \in SwapLegs(leg.from, leg.in)
    BY <1>1, SwappedAreSwaps DEF SearchInv
  <2>2. leg.from \in Nodes /\ leg.in \in Nat
    BY <2>1 DEF Offer
  <2>3. PICK a \in Assets :
          /\ leg.to = [leg.from EXCEPT !.asset = a]
          /\ leg.out = SwapQuote(leg.from.chain, leg.from.asset, a, leg.in).out
          /\ SwapQuote(leg.from.chain, leg.from.asset, a, leg.in).error = "None"
    BY <2>1, <2>2, SwapsTrade
  <2>4. leg.to.asset = a
    BY <2>2, <2>3 DEF Nodes
  <2>5. PICK chain \in Chains, from \in Assets, amount \in Nat :
          chain = leg.from.chain /\ from = leg.from.asset /\ amount = leg.in
    BY <2>2 DEF Nodes
  <2> QED BY <2>3, <2>4, <2>5, QuotesLoseLittle
<1> QED BY <1>1, InitSearchInv, StepSearchInv, PTL DEF PlannerSpec
=============================================================================
