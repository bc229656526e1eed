------------------------- MODULE CircuitBreaker -------------------------
(***************************************************************************)
(* The circuit breaker of wow-engine/src/resilience.rs, shared by          *)
(* concurrent callers.  `call` takes the mutex to decide on admission,     *)
(* releases it, awaits the wrapped future under a timer, and takes the     *)
(* mutex again to record the outcome: between the two steps any other call *)
(* may trip, rest or close the breaker.                                    *)
(*                                                                         *)
(* Time is kept as ages instead of instants, each capped at the only value *)
(* the code compares it with (open_cooldown, call_timeout), so no bound on *)
(* the clock is needed.                                                    *)
(***************************************************************************)
EXTENDS Naturals

CONSTANTS Callers,      \* tasks sharing the breaker through an Arc
          Threshold,    \* CircuitBreakerConfig.failure_threshold
          Cooldown,     \* CircuitBreakerConfig.open_cooldown, in ticks
          CallTimeout,  \* CircuitBreakerConfig.call_timeout, in ticks
          MaxCount,     \* u32::MAX, where saturating_add stops
          None          \* Option::None

ASSUME BreakerAssumption ==
  /\ Threshold \in Nat \ {0}
  /\ Cooldown \in Nat \ {0}
  /\ CallTimeout \in Nat \ {0}
  /\ MaxCount \in Nat /\ Threshold <= MaxCount
  /\ None \notin Nat

VARIABLES state,      \* Inner.state
          failures,   \* Inner.consecutive_failures
          openedFor,  \* age of Inner.opened_at, or None
          calls       \* per caller, the call in flight or the last result

vars == <<state, failures, openedFor, calls>>

States  == {"Closed", "Open", "HalfOpen"}
Results == {"None", "Ok", "Inner", "Timeout", "Open", "Dropped"}

\* Per caller: a call in flight and its age, or how the last one returned.
CallStates == [status : Results \cup {"InFlight"}, age : 0..CallTimeout]

InFlight    == [status |-> "InFlight", age |-> 0]
Returned(r) == [status |-> r, age |-> 0]

Running(c) == calls[c].status = "InFlight"

TypeOK ==
  /\ state \in States
  /\ failures \in 0..MaxCount
  /\ openedFor \in (0..Cooldown) \cup {None}
  /\ calls \in [Callers -> CallStates]

Init ==
  /\ state = "Closed"
  /\ failures = 0
  /\ openedFor = None
  /\ calls = [c \in Callers |-> Returned("None")]

-----------------------------------------------------------------------------
\* Mutant: the cooldown is not consulted.
RefreshedEarly == IF state = "Open" THEN "HalfOpen" ELSE state

\* refresh_state: the state every entry point computes under the lock.
Refreshed ==
  IF state = "Open" /\ openedFor # None /\ openedFor = Cooldown
  THEN "HalfOpen" ELSE state

\* state() and is_open() record the transition they observe.
Query ==
  /\ state' = Refreshed
  /\ UNCHANGED <<failures, openedFor, calls>>

\* call(), first critical section, when the breaker lets the call through.
Admit(c) ==
  /\ ~Running(c)
  /\ Refreshed # "Open"
  /\ state' = Refreshed
  /\ calls' = [calls EXCEPT ![c] = InFlight]
  /\ UNCHANGED <<failures, openedFor>>

\* Mutant: a rejected call counts as another sign of trouble.
RejectProlongs(c) ==
  /\ ~Running(c)
  /\ Refreshed = "Open"
  /\ calls' = [calls EXCEPT ![c] = Returned("Open")]
  /\ openedFor' = 0
  /\ UNCHANGED <<state, failures>>

\* call(), first critical section, early return of CircuitError::Open.
Reject(c) ==
  /\ ~Running(c)
  /\ Refreshed = "Open"
  /\ calls' = [calls EXCEPT ![c] = Returned("Open")]
  /\ UNCHANGED <<state, failures, openedFor>>

\* Mutant: closing forgets to clear the counter.
RecordSuccessKeepsCount ==
  /\ state' = "Closed"
  /\ openedFor' = None
  /\ UNCHANGED failures

\* Mutant: only a success of a closed breaker is believed.
RecordSuccessIfClosed ==
  /\ failures' = IF state = "Closed" THEN 0 ELSE failures
  /\ UNCHANGED <<state, openedFor>>

RecordSuccess ==
  /\ state' = "Closed"
  /\ failures' = 0
  /\ openedFor' = None

\* Mutant: an ordinary addition.
PlainInc(n) == n + 1

SaturatingInc(n) == IF n = MaxCount THEN n ELSE n + 1

\* Mutant: opened_at is set only where it is absent, so a failed probe keeps the
\* instant of the first trip.
RecordFailureKeepsClock ==
  LET n          == SaturatingInc(failures)
      shouldOpen == state = "HalfOpen" \/ n >= Threshold
  IN /\ failures' = n
     /\ state' = IF shouldOpen THEN "Open" ELSE state
     /\ openedFor' = IF shouldOpen /\ openedFor = None THEN 0 ELSE openedFor

RecordFailure ==
  LET n          == SaturatingInc(failures)
      shouldOpen == state = "HalfOpen" \/ n >= Threshold
  IN /\ failures' = n
     /\ state' = IF shouldOpen THEN "Open" ELSE state
     /\ openedFor' = IF shouldOpen THEN 0 ELSE openedFor

Return(c, r) ==
  /\ Running(c)
  /\ calls' = [calls EXCEPT ![c] = Returned(r)]

Succeed(c) == Return(c, "Ok") /\ RecordSuccess
Fail(c)    == Return(c, "Inner") /\ RecordFailure

\* Mutant: the timer comparison is strict.
TimeOutStrict(c) ==
  /\ calls[c].age > CallTimeout
  /\ Return(c, "Timeout")
  /\ RecordFailure

\* The timer may fire late, so an overdue future can still answer first.
TimeOut(c) ==
  /\ calls[c].age = CallTimeout
  /\ Return(c, "Timeout")
  /\ RecordFailure

\* The task is cancelled at the await point: nothing is recorded.
Abandon(c) == Return(c, "Dropped") /\ UNCHANGED <<state, failures, openedFor>>

Older(age, limit) == IF age = limit THEN limit ELSE age + 1

Tick ==
  /\ openedFor' = IF openedFor = None THEN None ELSE Older(openedFor, Cooldown)
  /\ calls' = [c \in Callers |->
                 IF Running(c)
                 THEN [calls[c] EXCEPT !.age = Older(@, CallTimeout)]
                 ELSE calls[c]]
  /\ UNCHANGED <<state, failures>>

Next ==
  \/ Query
  \/ Tick
  \/ \E c \in Callers :
       \/ Admit(c) \/ Reject(c)
       \/ Succeed(c) \/ Fail(c) \/ TimeOut(c) \/ Abandon(c)

Spec == Init /\ [][Next]_vars

\* The runtime polls expired timers and the clock advances; nothing is assumed
\* of the dependency, which may hang for ever.
TimerFairness == WF_vars(Tick) /\ \A c \in Callers : WF_vars(TimeOut(c))
FairSpec == Spec /\ TimerFairness

\* The callers keep trying, and a future that is ready is polled.
KeepTrying ==
  /\ WF_vars(\E c \in Callers : Admit(c))
  /\ \A c \in Callers : WF_vars(Succeed(c) \/ Fail(c) \/ TimeOut(c))

-----------------------------------------------------------------------------
\* The three fields of Inner are redundant encodings of one fact: the counter
\* is below the threshold exactly while the breaker is closed, and opened_at is
\* present exactly while it is not (an Open breaker without opened_at would
\* never be refreshed and would stay open for ever).
FieldsAgree ==
  /\ (state = "Closed") <=> (failures < Threshold)
  /\ (state = "Closed") <=> (openedFor = None)

\* A half-open breaker has rested for the whole cooldown since the last trip,
\* whatever late failures of earlier calls did to opened_at in between.
HalfOpenIsRested == state = "HalfOpen" => openedFor = Cooldown

\* "A single probe call is allowed through" (resilience.rs:35): while the
\* breaker is half-open, no more than one call is under way.  call() admits
\* every caller that finds it half-open.
SingleProbe ==
  state = "HalfOpen" => \A c, d \in Callers : Running(c) /\ Running(d) => c = d

\* A breaker that trips while no other call is under way: what is under way
\* later was admitted later.
TripsAlone == state = "Open" => \A c \in Callers : ~Running(c)
TripsAloneSpec == Init /\ [][Next /\ TripsAlone']_vars

\* What a caller has been told, in the words of the contract.
Verdict == [InFlight |-> "busy", Ok |-> "good", Inner |-> "bad", Timeout |-> "bad",
            Open |-> "refused", Dropped |-> "none", None |-> "none"]

\* The documented breaker.  The machine moves to half-open only when somebody
\* asks, keeps counting while it is open, and never tests whether a probe is
\* under way.
Contract == INSTANCE BreakerContract WITH
  mode    <- Refreshed,
  streak  <- IF state = "Closed" THEN failures ELSE 0,
  rested  <- IF openedFor = None THEN 0 ELSE openedFor,
  verdict <- [c \in Callers |-> Verdict[calls[c].status]]

\* The outcome of a call that was admitted before the trip, in the cooldown.
LateOutcome(c) == Refreshed = "Open" /\ (Succeed(c) \/ Fail(c) \/ TimeOut(c))

\* A call that is let through beside a probe, or beside an older call.
SecondProbe(c) ==
  Refreshed = "HalfOpen" /\ Admit(c) /\ \E d \in Callers : Running(d)

\* Two things and no other tell the machine from the documented breaker
\* (resilience.rs:30-37): it lets a late outcome end the cooldown or start it
\* anew, and it lets several calls through while half-open.  Every other step of
\* any callers is one that the documented breaker may take.
ContractOtherwise ==
  /\ Contract!Init
  /\ [][\/ \E c \in Callers : LateOutcome(c) \/ SecondProbe(c)
        \/ Contract!Next \/ UNCHANGED Contract!vars]_vars

\* Callers to whom neither happens.
OrderlySpec ==
  Init /\ [][Next /\ \A c \in Callers : ~LateOutcome(c) /\ ~SecondProbe(c)]_vars

\* An open breaker admits calls again after finitely many late failures of
\* calls it had admitted before; a rejection never prolongs the cooldown.
OpenPeriodEnds == (state = "Open") ~> (Refreshed # "Open")

\* Every admitted call comes back, even when its dependency hangs: no call
\* holds the mutex across its await, so none can wait for another.
CallsReturn == \A c \in Callers : Running(c) ~> ~Running(c)

\* When callers keep trying and the dependency answers every call again, the
\* breaker closes, with no manual intervention (tests/chaos_tests.rs,
\* recovers_cleanly_...).
HealthyRecovers ==
  KeepTrying =>
    \/ []<>(state = "Closed")
    \/ []<><<\E c \in Callers : Fail(c) \/ TimeOut(c) \/ Abandon(c)>>_vars
=============================================================================
