---------------------- MODULE CircuitBreakerProofs ----------------------
(* For every set of callers and every configuration: the fields of the     *)
(* breaker agree, and orderly callers find the breaker that is documented. *)
EXTENDS CircuitBreaker, TLAPS

\* The inductive invariant: the agreement of the fields is needed to see that
\* a recorded failure of a tripped breaker cannot leave opened_at unset.
IInv == TypeOK /\ FieldsAgree /\ HalfOpenIsRested

\* The breaker starts closed, with all its fields in agreement.
LEMMA InitIInv == Init => IInv
  BY BreakerAssumption
  DEF Init, IInv, TypeOK, FieldsAgree, HalfOpenIsRested, States, Results,
      CallStates, Returned

\* Every critical section of resilience.rs, and the passing of time, keeps the
\* types of the fields.
LEMMA StepType == TypeOK /\ [Next]_vars => TypeOK'
<1> SUFFICES ASSUME TypeOK, [Next]_vars PROVE TypeOK'
  OBVIOUS
<1> USE BreakerAssumption DEF TypeOK, States, Results, CallStates, Refreshed
<1>1. CASE Query
  BY <1>1 DEF Query
<1>2. CASE Tick
  <2>1. calls' \in [Callers -> CallStates]
    BY <1>2 DEF Tick, Older
  <2>2. openedFor' \in (0..Cooldown) \cup {None}
    BY <1>2 DEF Tick, Older
  <2> QED BY <1>2, <2>1, <2>2 DEF Tick
<1>3. ASSUME NEW c \in Callers, Admit(c) PROVE TypeOK'
  BY <1>3 DEF Admit, InFlight
<1>4. ASSUME NEW c \in Callers, Reject(c) PROVE TypeOK'
  BY <1>4 DEF Reject, Returned
<1>5. ASSUME NEW c \in Callers, Succeed(c) PROVE TypeOK'
  BY <1>5 DEF Succeed, Return, Returned, RecordSuccess
<1>6. ASSUME NEW c \in Callers, Fail(c) PROVE TypeOK'
  BY <1>6 DEF Fail, Return, Returned, RecordFailure, SaturatingInc
<1>7. ASSUME NEW c \in Callers, TimeOut(c) PROVE TypeOK'
  BY <1>7 DEF TimeOut, Return, Returned, RecordFailure, SaturatingInc
<1>8. ASSUME NEW c \in Callers, Abandon(c) PROVE TypeOK'
  BY <1>8 DEF Abandon, Return, Returned
<1>9. CASE UNCHANGED vars
  BY <1>9 DEF vars
<1> QED BY <1>1, <1>2, <1>3, <1>4, <1>5, <1>6, <1>7, <1>8, <1>9 DEF Next

\* ... and the agreement between them.
LEMMA StepAgree ==
  IInv /\ [Next]_vars => FieldsAgree' /\ HalfOpenIsRested'
<1> SUFFICES ASSUME IInv, [Next]_vars PROVE FieldsAgree' /\ HalfOpenIsRested'
  OBVIOUS
<1> USE BreakerAssumption
    DEF IInv, TypeOK, FieldsAgree, HalfOpenIsRested, States, Refreshed
<1>1. CASE Query
  BY <1>1 DEF Query
<1>2. CASE Tick
  BY <1>2 DEF Tick, Older
<1>3. ASSUME NEW c \in Callers, Admit(c) PROVE FieldsAgree' /\ HalfOpenIsRested'
  BY <1>3 DEF Admit
<1>4. ASSUME NEW c \in Callers, Reject(c) PROVE FieldsAgree' /\ HalfOpenIsRested'
  BY <1>4 DEF Reject
<1>5. ASSUME NEW c \in Callers, Succeed(c) PROVE FieldsAgree' /\ HalfOpenIsRested'
  BY <1>5 DEF Succeed, RecordSuccess
<1>6. ASSUME RecordFailure PROVE FieldsAgree' /\ HalfOpenIsRested'
  BY <1>6 DEF RecordFailure, SaturatingInc
<1>7. ASSUME NEW c \in Callers, Fail(c) \/ TimeOut(c)
      PROVE FieldsAgree' /\ HalfOpenIsRested'
  BY <1>6, <1>7 DEF Fail, TimeOut
<1>8. ASSUME NEW c \in Callers, Abandon(c) PROVE FieldsAgree' /\ HalfOpenIsRested'
  BY <1>8 DEF Abandon
<1>9. CASE UNCHANGED vars
  BY <1>9 DEF vars
<1> QED BY <1>1, <1>2, <1>3, <1>4, <1>5, <1>7, <1>8, <1>9 DEF Next

\* The invariant holds throughout.
LEMMA Invariance == Spec => []IInv
<1>1. IInv /\ [Next]_vars => IInv'
  BY StepType, StepAgree DEF IInv
<1> QED BY <1>1, InitIInv, PTL DEF Spec

\* The failure counter stays within the range of its integer (saturating_add)
\* and every caller is between two of its own steps.
THEOREM BreakerIsTyped == Spec => []TypeOK
<1>1. IInv => TypeOK
  BY DEF IInv
<1> QED BY <1>1, Invariance, PTL

\* Whatever the number of concurrent callers and the order in which their
\* outcomes are recorded: Closed, a counter below failure_threshold and an
\* absent opened_at are one and the same fact.
THEOREM FieldsAlwaysAgree == Spec => []FieldsAgree
<1>1. IInv => FieldsAgree
  BY DEF IInv
<1> QED BY <1>1, Invariance, PTL

\* Nobody sees HalfOpen before the cooldown has passed since the last failure,
\* although refresh_state runs only when somebody asks.
THEOREM HalfOpenHasRested == Spec => []HalfOpenIsRested
<1>1. IInv => HalfOpenIsRested
  BY DEF IInv
<1> QED BY <1>1, Invariance, PTL

-----------------------------------------------------------------------------
\* Steps of the machine, but for late outcomes and second probes, as steps of
\* the contract.
LEMMA StepContract ==
  ASSUME IInv, [Next]_vars, \A c \in Callers : ~LateOutcome(c) /\ ~SecondProbe(c)
  PROVE  Contract!Next \/ UNCHANGED Contract!vars
<1> USE BreakerAssumption
    DEF IInv, TypeOK, FieldsAgree, HalfOpenIsRested, States, Contract!vars
<1>a. ASSUME NEW c \in Callers, NEW call, calls' = [calls EXCEPT ![c] = call]
      PROVE Contract!Say(c, Verdict[call.status])
  BY <1>a DEF Contract!Say
<1>b. ASSUME NEW c \in Callers PROVE Running(c) <=> Contract!Busy(c)
  BY DEF Running, Verdict, CallStates, Results, Contract!Busy
<1>1. CASE Query
  BY <1>1 DEF Query, Refreshed
<1>2. CASE Tick
  <2>1. \A c \in Callers : calls'[c].status = calls[c].status
    BY <1>2 DEF Tick, CallStates
  <2>2. [c \in Callers |-> Verdict[calls[c].status]]'
          = [c \in Callers |-> Verdict[calls[c].status]]
    BY <2>1
  <2>3. CASE state = "Open" /\ openedFor < Cooldown
    BY <1>2, <2>2, <2>3 DEF Tick, Older, Refreshed, Contract!Next, Contract!Rest
  <2>4. CASE state # "Open" \/ openedFor = Cooldown
    BY <1>2, <2>2, <2>4 DEF Tick, Older, Refreshed
  <2>5. state = "Open" => openedFor < Cooldown \/ openedFor = Cooldown
    <3>1. state = "Open" => openedFor \in 0..Cooldown
      OBVIOUS
    <3> QED BY <3>1
  <2> QED BY <2>3, <2>4, <2>5
<1>3. ASSUME NEW c \in Callers, Admit(c) PROVE Contract!Next
  <2>1. Verdict[InFlight.status] = "busy"
    BY DEF Verdict, InFlight
  <2>2. Contract!Say(c, "busy") /\ ~Contract!Busy(c)
    BY <1>3, <1>a, <1>b, <2>1 DEF Admit
  <2>3. Refreshed = "HalfOpen" => \A d \in Callers : ~Running(d)
    BY <1>3 DEF SecondProbe
  <2>4. Contract!Admits
    BY <1>3, <1>b, <2>3 DEF Admit, Refreshed, Contract!Admits
  <2>5. Contract!Begin(c)
    BY <1>3, <2>2, <2>4 DEF Admit, Refreshed, Contract!Begin
  <2> QED BY <2>5 DEF Contract!Next
<1>4. ASSUME NEW c \in Callers, Reject(c) PROVE Contract!Next
  <2>1. Verdict[Returned("Open").status] = "refused"
    BY DEF Verdict, Returned
  <2>2. Contract!Say(c, "refused") /\ ~Contract!Busy(c)
    BY <1>4, <1>a, <1>b, <2>1 DEF Reject
  <2>3. Contract!Refuse(c)
    BY <1>4, <2>2 DEF Reject, Refreshed, Contract!Refuse, Contract!Admits
  <2> QED BY <2>3 DEF Contract!Next
<1>5. ASSUME NEW c \in Callers, NEW r, Return(c, r)
      PROVE Contract!Busy(c) /\ Contract!Say(c, Verdict[Returned(r).status])
  BY <1>5, <1>a, <1>b DEF Return
<1>6. ASSUME NEW c \in Callers, Succeed(c) PROVE Contract!Next
  <2>1. Verdict[Returned("Ok").status] = "good"
    BY DEF Verdict, Returned
  <2>2. Refreshed # "Open"
    BY <1>6 DEF LateOutcome
  <2>3. Contract!GoodOutcome(c)
    BY <1>5, <1>6, <2>1, <2>2
    DEF Succeed, RecordSuccess, Refreshed, Contract!GoodOutcome, Contract!Close
  <2> QED BY <2>3 DEF Contract!Next
<1>7. ASSUME NEW c \in Callers, Fail(c) \/ TimeOut(c) PROVE Contract!Next
  <2>1. Verdict[Returned("Inner").status] = "bad" /\ Verdict[Returned("Timeout").status] = "bad"
    BY DEF Verdict, Returned
  <2>2. /\ Contract!Busy(c) /\ Contract!Say(c, "bad") /\ RecordFailure
        /\ Refreshed # "Open"
    BY <1>5, <1>7, <2>1 DEF Fail, TimeOut, LateOutcome
  <2>3. CASE Refreshed = "HalfOpen"
    <3>1. state' = "Open" /\ openedFor' = 0
      BY <2>2, <2>3 DEF RecordFailure, SaturatingInc, Refreshed
    <3>2. Contract!Trip
      BY <3>1 DEF Refreshed, Contract!Trip
    <3> QED BY <2>2, <2>3, <3>2 DEF Contract!BadOutcome, Contract!Next
  <2>4. CASE state = "Closed" /\ failures + 1 = Threshold
    BY <2>2, <2>4
    DEF RecordFailure, SaturatingInc, Refreshed, Contract!BadOutcome, Contract!Trip, Contract!Next
  <2>5. CASE state = "Closed" /\ failures + 1 < Threshold
    BY <2>2, <2>5
    DEF RecordFailure, SaturatingInc, Refreshed, Contract!BadOutcome, Contract!Next
  <2>6. state = "Closed" => failures + 1 = Threshold \/ failures + 1 < Threshold
    OBVIOUS
  <2>7. state # "Closed" => Refreshed = "HalfOpen"
    BY <2>2 DEF Refreshed
  <2> QED BY <2>3, <2>4, <2>5, <2>6, <2>7
<1>8. ASSUME NEW c \in Callers, Abandon(c) PROVE Contract!Next
  <2>1. Verdict[Returned("Dropped").status] = "none"
    BY DEF Verdict, Returned
  <2>2. Contract!NoOutcome(c)
    BY <1>5, <1>8, <2>1 DEF Abandon, Refreshed, Contract!NoOutcome
  <2> QED BY <2>2 DEF Contract!Next
<1>9. CASE UNCHANGED vars
  BY <1>9 DEF vars, Refreshed
<1> QED BY <1>1, <1>2, <1>3, <1>4, <1>6, <1>7, <1>8, <1>9 DEF Next

\* The initial state is one of the contract.
LEMMA InitContract == Init => Contract!Init
<1> SUFFICES ASSUME Init PROVE Contract!Init
  OBVIOUS
<1>1. Verdict[Returned("None").status] = "none"
  BY DEF Verdict, Returned
<1>2. \A c \in Callers : Verdict[calls[c].status] = "none"
  BY <1>1 DEF Init
<1> QED BY <1>2, BreakerAssumption DEF Init, Refreshed, Contract!Init

\* However many callers overlap: but for late outcomes and second probes, every
\* step of the machine is one of the breaker that resilience.rs documents, also
\* after such an outcome or probe.
THEOREM TwoDeviationsOnly == Spec => ContractOtherwise
<1>1. IInv /\ [Next]_vars =>
        [\/ \E c \in Callers : LateOutcome(c) \/ SecondProbe(c)
         \/ Contract!Next \/ UNCHANGED Contract!vars]_vars
  BY StepContract
<1> QED BY <1>1, InitContract, Invariance, PTL DEF Spec, ContractOtherwise

\* Between callers to whom neither happens, the machine implements the
\* documented breaker.
THEOREM OrderlyCallsObeyContract == OrderlySpec => Contract!Spec
<1>1. Init /\ [][Next /\ \A c \in Callers : ~LateOutcome(c) /\ ~SecondProbe(c)]_vars
        => Init /\ [][Next]_vars
  BY PTL
<1>2. IInv /\ [Next /\ \A c \in Callers : ~LateOutcome(c) /\ ~SecondProbe(c)]_vars
        => [Contract!Next]_(Contract!vars)
  <2>1. UNCHANGED vars => UNCHANGED Contract!vars
    BY DEF vars, Contract!vars, Refreshed
  <2> QED BY <2>1, StepContract
<1> QED BY <1>1, <1>2, InitContract, Invariance, PTL DEF OrderlySpec, Spec, Contract!Spec
=============================================================================
