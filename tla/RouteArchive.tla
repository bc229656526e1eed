--------------------------- MODULE RouteArchive ---------------------------
(***************************************************************************)
(* The historical_routes table and its garbage collection,                 *)
(* wow-engine/src/db/gc.rs.  Every engine process with a database runs the *)
(* worker that main.rs spawns, all of them on the one table.               *)
(*                                                                         *)
(* Ages are in days.  A pass computes its cutoff once: its `stale` rows    *)
(* are those past the retention when it starts.  A DELETE picks its rows   *)
(* in a subquery and removes those of them no other DELETE has removed     *)
(* meanwhile.  Rows are archived from outside the engine: those a          *)
(* behaviour is about are there when it starts, of any age.                *)
(***************************************************************************)
EXTENDS Integers, FiniteSets

CONSTANTS Engines,       \* engine processes
          Rows,        \* of the table
          Retention,   \* RETENTION_DAYS
          BatchSize,   \* GC_BATCH_SIZE
          Interval,    \* GC_INTERVAL, in days
          MaxFailures, \* bound on statements that fail and on crashes
          Absent

ASSUME ArchiveAssumption ==
  /\ Retention \in Nat /\ BatchSize \in Nat \ {0} /\ Interval \in Nat \ {0}
  /\ MaxFailures \in Nat /\ Absent \notin Int /\ IsFiniteSet(Rows)

VARIABLES age,      \* of each row, capped when past the retention
          worker,   \* per node, the state of its worker
          failures

archive == <<age, worker, failures>>

\* "Start", "Batch" or "Delete" of a pass, "Pause" between two batches, or
\* "Sleep" until the next pass.  `stale` and `picked` as above; `alone`: no
\* other worker removed a row of this pass; `slept`: days asleep.
Worker(phase, stale, picked, alone, slept) ==
  [phase |-> phase, stale |-> stale, picked |-> picked, alone |-> alone, slept |-> slept]

Begin == Worker("Start", {}, {}, TRUE, 0)
Asleep(n) == [worker[n] EXCEPT !.phase = "Sleep", !.picked = {}, !.slept = 0]

ArchiveInit ==
  /\ age \in [Rows -> 0..(Retention + 1)]
  /\ worker = [n \in Engines |-> Begin]
  /\ failures = 0

Present(rows) == {r \in rows : age[r] # Absent}

Expired == {r \in Present(Rows) : age[r] > Retention}

-----------------------------------------------------------------------------
\* cutoff = now - RETENTION_DAYS, once per pass.
StartPass(n) ==
  /\ worker[n].phase = "Start"
  /\ worker' = [worker EXCEPT ![n] = Worker("Batch", Expired, {}, TRUE, 0)]
  /\ UNCHANGED <<age, failures>>

\* The subquery: any rows before the cutoff, at most a batch of them.
Pick(n) ==
  LET there == Present(worker[n].stale) IN
  /\ worker[n].phase = "Batch"
  /\ \E rows \in SUBSET there :
       /\ Cardinality(rows) = IF Cardinality(there) < BatchSize THEN Cardinality(there)
                              ELSE BatchSize
       /\ worker' = [worker EXCEPT ![n].phase = "Delete", ![n].picked = rows]
  /\ UNCHANGED <<age, failures>>

\* Mutant: a full batch ends the pass as well.
NextPhaseEarly(deleted) == IF deleted <= BatchSize THEN "Sleep" ELSE "Pause"

\* A short batch ends the pass.
NextPhase(deleted) == IF deleted < BatchSize THEN "Sleep" ELSE "Pause"

Delete(n) ==
  LET gone  == Present(worker[n].picked)
      phase == NextPhase(Cardinality(gone))
  IN /\ worker[n].phase = "Delete"
     /\ age' = [r \in Rows |-> IF r \in gone THEN Absent ELSE age[r]]
     /\ worker' = [m \in Engines |->
          IF m = n THEN [worker[n] EXCEPT !.phase = phase, !.picked = {}, !.slept = 0]
          ELSE [worker[m] EXCEPT !.alone = @ /\ gone \cap worker[m].stale = {}]]
     /\ UNCHANGED failures

\* GC_BATCH_PAUSE is over.
Resume(n) ==
  /\ worker[n].phase = "Pause"
  /\ worker' = [worker EXCEPT ![n].phase = "Batch"]
  /\ UNCHANGED <<age, failures>>

\* Mutant: an error ends the worker.
FailExits(n) ==
  /\ worker[n].phase = "Delete" /\ failures < MaxFailures
  /\ worker' = [worker EXCEPT ![n].phase = "Exited", ![n].picked = {}]
  /\ failures' = failures + 1
  /\ UNCHANGED age

\* The statement fails: the pass ends, the worker waits for the next one.
Fail(n) ==
  /\ worker[n].phase = "Delete" /\ failures < MaxFailures
  /\ worker' = [worker EXCEPT ![n] = Asleep(n)]
  /\ failures' = failures + 1
  /\ UNCHANGED age

Wake(n) ==
  /\ worker[n].phase = "Sleep" /\ worker[n].slept = Interval
  /\ worker' = [worker EXCEPT ![n] = Begin]
  /\ UNCHANGED <<age, failures>>

\* The process dies, at any point of a pass, and starts again.
Crash(n) ==
  /\ failures < MaxFailures /\ worker[n] # Begin
  /\ worker' = [worker EXCEPT ![n] = Begin]
  /\ failures' = failures + 1
  /\ UNCHANGED age

Day ==
  /\ age' = [r \in Rows |-> IF age[r] \in 0..Retention THEN age[r] + 1 ELSE age[r]]
  /\ worker' = [n \in Engines |->
       IF worker[n].phase = "Sleep" /\ worker[n].slept < Interval
       THEN [worker[n] EXCEPT !.slept = @ + 1] ELSE worker[n]]
  /\ UNCHANGED failures

Step(n) == StartPass(n) \/ Pick(n) \/ Delete(n) \/ Resume(n) \/ Wake(n)

ArchiveNext ==
  \/ Day
  \/ \E n \in Engines : \/ StartPass(n) \/ Pick(n) \/ Delete(n) \/ Resume(n)
                      \/ Fail(n) \/ Wake(n) \/ Crash(n)

ArchiveSpec == ArchiveInit /\ [][ArchiveNext]_archive

-----------------------------------------------------------------------------
EndsPass(n) ==
  /\ worker[n].phase = "Delete" /\ worker'[n].phase = "Sleep"
  /\ failures' = failures

\* gc.rs:93, "a short batch means we've caught up to the cutoff": so it is
\* for a pass of whose rows no other worker removed any.
CaughtUpAlone ==
  [][\A n \in Engines :
       EndsPass(n) /\ worker[n].alone
         => worker[n].stale \subseteq {r \in Rows : age'[r] = Absent}]_archive

\* gc.rs:32: whatever fails, and whatever two workers take from each other,
\* no row stays for ever once it is past the retention.
ExpiredAreDeleted ==
  \A r \in Rows : age[r] # Absent /\ age[r] > Retention ~> age[r] = Absent
=============================================================================
