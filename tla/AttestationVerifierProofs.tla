------------------- MODULE AttestationVerifierProofs --------------------
(* A granted nonce is in the log and known to every verifier opened later,  *)
(* but for those the store failed for; where no verifier that requests share *)
(* has failing writes, there are no such exceptions.  What is granted was    *)
(* signed by a quorum.                                                       *)
EXTENDS AttestationVerifier, FiniteSetTheorems, TLAPS

\* What a store holds in memory is in the file or still in its buffer.
MemoryIsBacked == \A v \in open : mem[v] \subseteq log \cup pending[v]

\* Only failed writes leave lines in a buffer.
BuffersHaveFailed == \A v \in Verifiers : pending[v] \subseteq failed

\* A request in flight has a verifier.
FlightsHaveVerifiers == \A r \in Requests : InFlight(r) => VerifierOf[r] \in open

IInv == /\ TypeOK
        /\ OkIsDurable
        /\ GrantedIsKnown
        /\ MemoryIsBacked
        /\ BuffersHaveFailed
        /\ FlightsHaveVerifiers

\* The initial states satisfy the invariant.
LEMMA InitIInv == Init => IInv
  BY VerifierAssumption
  DEF Init, IInv, TypeOK, OkIsDurable, GrantedIsKnown, MemoryIsBacked,
      BuffersHaveFailed, FlightsHaveVerifiers, Calls, Call, Ended, InFlight, Statuses

\* Whatever the loop of verify_signatures does, it ends in Ok or in one of
\* the errors of AttestationError.
LEMMA CheckedIsStatus == \A r \in Requests : Checked(r) \in Errors \cup {"Ok"}
  BY DEF Checked, VerifySignatures, Errors

\* An ended call is a well-formed call that is not in flight.
LEMMA EndedIsCall ==
  ASSUME NEW res \in Errors \cup {"Idle", "Lost"}
  PROVE  Ended(res) \in Calls /\ Ended(res).status \notin {"Keys", "Check", "Ok"}
  BY DEF Ended, Call, Calls, Statuses, Errors, Malformed

\* Every step keeps the types.
LEMMA StepType == TypeOK /\ [Next]_vars => TypeOK'
<1> SUFFICES ASSUME TypeOK, [Next]_vars PROVE TypeOK'
  OBVIOUS
<1> USE VerifierAssumption DEF TypeOK, InFlight
<1>0. ASSUME NEW r \in Requests, NEW res \in Errors \cup {"Idle", "Lost"},
             req' = [req EXCEPT ![r] = Ended(res)]
      PROVE  /\ req' \in [Requests -> Calls]
             /\ \A q \in Requests : InFlight(q)' => req'[q].key \in Keys
             /\ \A q \in Requests : req'[q].status = "Check" => req'[q].set \in AttesterSets
  BY <1>0, EndedIsCall
<1>1. CASE Crash
  BY <1>1, EndedIsCall DEF Crash
<1>2. ASSUME NEW v \in Verifiers, Open(v) PROVE TypeOK'
  BY <1>2 DEF Open
<1>3. ASSUME NEW v \in Verifiers, Close(v) PROVE TypeOK'
  BY <1>3 DEF Close
<1>4. ASSUME NEW r \in Requests, NEW k \in Keys, NEW s \in Attestations, Precheck(r, k, s)
      PROVE TypeOK'
  <2>1. CASE k \in mem[VerifierOf[r]]
    BY <1>0, <1>4, <2>1 DEF Precheck, Errors
  <2>2. CASE k \notin mem[VerifierOf[r]]
    BY <1>4, <2>2 DEF Precheck, Call, Calls, Statuses
  <2> QED BY <2>1, <2>2
<1>5. ASSUME NEW r \in Requests, RejectInput(r) PROVE TypeOK'
  BY <1>0, <1>5 DEF RejectInput, Errors
<1>6. ASSUME NEW r \in Requests, ResolveKeys(r) PROVE TypeOK'
  <2>1. CASE req' = [req EXCEPT ![r] = Ended("KeySourceUnavailable")]
    BY <1>0, <1>6, <2>1 DEF ResolveKeys, Errors
  <2>2. ASSUME NEW set \in AttesterSets,
               req' = [req EXCEPT ![r] = Call("Check", @.key, @.sigs, set)]
        PROVE TypeOK'
    BY <1>6, <2>2 DEF ResolveKeys, Call, Calls, Statuses
  <2> QED BY <1>6, <2>1, <2>2 DEF ResolveKeys
<1>7. ASSUME NEW r \in Requests, Cancel(r) PROVE TypeOK'
  BY <1>0, <1>7 DEF Cancel
<1>8. ASSUME NEW r \in Requests, RejectSignatures(r) PROVE TypeOK'
  BY <1>0, <1>8, CheckedIsStatus DEF RejectSignatures
<1>9. ASSUME NEW r \in Requests, Grant(r), req[r].status = "Check"
      PROVE /\ accepted' \subseteq Keys
            /\ known' \in [Verifiers -> SUBSET Keys]
            /\ req' \in [Requests -> Calls]
            /\ \A q \in Requests : InFlight(q)' => req'[q].key \in Keys
            /\ \A q \in Requests : req'[q].status = "Check" => req'[q].set \in AttesterSets
  BY <1>9 DEF Grant, Calls, Statuses
<1>10. ASSUME NEW r \in Requests, Consume(r) PROVE TypeOK'
  BY <1>9, <1>10 DEF Consume
<1>11. ASSUME NEW r \in Requests, ConsumeAgain(r) PROVE TypeOK'
  BY <1>9, <1>11 DEF ConsumeAgain
<1>12. ASSUME NEW r \in Requests, ConsumeFails(r) PROVE TypeOK'
  BY <1>0, <1>12 DEF ConsumeFails, Errors
<1>13. CASE UNCHANGED vars
  BY <1>13 DEF vars
<1> QED
  BY <1>1, <1>2, <1>3, <1>4, <1>5, <1>6, <1>7, <1>8, <1>10, <1>11, <1>12, <1>13 DEF Next

\* The safety part of the invariant, without the types.
Safe == /\ OkIsDurable /\ GrantedIsKnown /\ MemoryIsBacked
        /\ BuffersHaveFailed /\ FlightsHaveVerifiers

\* Every step keeps the safety part.
LEMMA StepSafe == IInv /\ [Next]_vars => Safe'
<1> SUFFICES ASSUME IInv, [Next]_vars PROVE Safe'
  OBVIOUS
<1> USE VerifierAssumption
    DEF IInv, TypeOK, Safe, OkIsDurable, GrantedIsKnown, MemoryIsBacked,
        BuffersHaveFailed, FlightsHaveVerifiers, InFlight
<1>0. ASSUME NEW r \in Requests, NEW res \in Errors \cup {"Idle", "Lost"},
             req' = [req EXCEPT ![r] = Ended(res)]
      PROVE  \A q \in Requests : InFlight(q)' => InFlight(q)
  BY <1>0, EndedIsCall
<1>1. CASE Crash
  <2>1. \A q \in Requests : ~InFlight(q)'
    BY <1>1, EndedIsCall DEF Crash
  <2> QED BY <1>1, <2>1 DEF Crash
<1>2. ASSUME NEW v \in Verifiers, Open(v) PROVE Safe'
  BY <1>2 DEF Open
<1>3. ASSUME NEW v \in Verifiers, Close(v) PROVE Safe'
  <2>1. log \subseteq log' /\ (log' = log \/ log' = log \cup pending[v])
    BY <1>3 DEF Close
  <2> QED BY <1>3, <2>1 DEF Close
<1>4. ASSUME NEW r \in Requests, NEW k \in Keys, NEW s \in Attestations, Precheck(r, k, s)
      PROVE Safe'
  <2>1. \A q \in Requests : q # r => req'[q] = req[q]
    BY <1>4 DEF Precheck
  <2> QED BY <1>4, <2>1 DEF Precheck
<1>5. ASSUME NEW r \in Requests, RejectInput(r) PROVE Safe'
  BY <1>0, <1>5 DEF RejectInput, Errors
<1>6. ASSUME NEW r \in Requests, ResolveKeys(r) PROVE Safe'
  <2>1. \A q \in Requests : q # r => req'[q] = req[q]
    BY <1>6 DEF ResolveKeys
  <2> QED BY <1>6, <2>1 DEF ResolveKeys
<1>7. ASSUME NEW r \in Requests, Cancel(r) PROVE Safe'
  BY <1>0, <1>7 DEF Cancel
<1>8. ASSUME NEW r \in Requests, RejectSignatures(r) PROVE Safe'
  BY <1>0, <1>8, CheckedIsStatus DEF RejectSignatures
<1>9. ASSUME NEW r \in Requests, Grant(r), req[r].status = "Check"
      PROVE  \A q \in Requests : InFlight(q)' => InFlight(q)
  BY <1>9 DEF Grant, Calls
<1>10. ASSUME NEW r \in Requests, Consume(r) PROVE Safe'
  <2>1. \A q \in Requests : InFlight(q)' => InFlight(q)
    BY <1>9, <1>10 DEF Consume
  <2>2. OkIsDurable' /\ BuffersHaveFailed'
    BY <1>10 DEF Consume, Grant
  <2>3. GrantedIsKnown' /\ MemoryIsBacked'
    BY <1>10 DEF Consume, Grant
  <2>4. FlightsHaveVerifiers'
    BY <1>10, <2>1 DEF Consume
  <2> QED BY <2>2, <2>3, <2>4
<1>11. ASSUME NEW r \in Requests, ConsumeAgain(r) PROVE Safe'
  <2>1. \A q \in Requests : InFlight(q)' => InFlight(q)
    BY <1>9, <1>11 DEF ConsumeAgain
  <2>2. req[r].key \in log \cup failed
    BY <1>11 DEF ConsumeAgain
  <2> QED BY <1>11, <2>1, <2>2 DEF ConsumeAgain, Grant
<1>12. ASSUME NEW r \in Requests, ConsumeFails(r) PROVE Safe'
  <2>1. \A q \in Requests : InFlight(q)' => InFlight(q)
    BY <1>12, EndedIsCall DEF ConsumeFails, Errors
  <2> QED BY <1>12, <2>1 DEF ConsumeFails
<1>13. CASE UNCHANGED vars
  BY <1>13 DEF vars
<1> QED
  BY <1>1, <1>2, <1>3, <1>4, <1>5, <1>6, <1>7, <1>8, <1>10, <1>11, <1>12, <1>13 DEF Next

\* The invariant holds throughout.
LEMMA Invariance == Spec => []IInv
<1>1. IInv /\ [Next]_vars => IInv'
  BY StepType, StepSafe DEF IInv, Safe
<1> QED BY <1>1, InitIInv, PTL DEF Spec

\* Whichever verifiers requests share and whichever writes fail, a call of
\* verify keeps to its course: in flight it has a nonce, and at the check the
\* attester set the key source returned.
THEOREM VerifierIsTyped == Spec => []TypeOK
<1>1. Init => TypeOK
  BY InitIInv DEF IInv
<1> QED BY <1>1, StepType, PTL DEF Spec

\* "Persist before reporting success" (attestation.rs:500), through any number
\* of crashes, restarts, retries and failed writes: a granted nonce is in the
\* log, or some request was told that the store failed for it.
THEOREM GrantsAreDurable == Spec => []OkIsDurable
<1>1. IInv => OkIsDurable
  BY DEF IInv
<1> QED BY <1>1, Invariance, PTL

\* A verifier has in memory every nonce granted before it was opened, or through
\* it, but for those the store failed for.
THEOREM GrantsAreKnown == Spec => []GrantedIsKnown
<1>1. IInv => GrantedIsKnown
  BY DEF IInv
<1> QED BY <1>1, Invariance, PTL

\* No request gets past precheck with a nonce granted before its verifier was
\* opened, or through it, unless the store failed for that nonce: with a verifier
\* per request, with no nonce granted before the request came.
THEOREM KnownReplaysAreStopped == Spec => KnownReplayIsStopped
<1>1. ASSUME IInv, [Next]_vars, NEW r \in Requests,
             req[r].status # "Keys", req'[r].status = "Keys"
      PROVE  req'[r].key \notin known[VerifierOf[r]] \ failed
  <2> USE <1>1 DEF IInv, TypeOK
  <2>1. \A q \in Requests, res \in Errors \cup {"Idle", "Lost"} :
          req' # [req EXCEPT ![q] = Ended(res)]
    BY EndedIsCall
  <2>2. PICK q \in Requests, k \in Keys, s \in Attestations : Precheck(q, k, s)
    <3>1. ~Crash
      BY EndedIsCall DEF Crash
    <3>2. \A v \in Verifiers : ~Open(v) /\ ~Close(v)
      BY DEF Open, Close
    <3>3. \A q \in Requests : ~RejectInput(q) /\ ~Cancel(q) /\ ~ConsumeFails(q)
      BY <2>1 DEF RejectInput, Cancel, ConsumeFails, Errors
    <3>4. \A q \in Requests : ~RejectSignatures(q)
      BY <2>1, CheckedIsStatus DEF RejectSignatures
    <3>5. \A q \in Requests : ~ResolveKeys(q)
      BY <2>1 DEF ResolveKeys, Call, Errors
    <3>6. \A q \in Requests : ~Consume(q) /\ ~ConsumeAgain(q)
      BY DEF Consume, ConsumeAgain, Grant, Calls
    <3>7. ~UNCHANGED vars
      BY DEF vars
    <3> QED BY <3>1, <3>2, <3>3, <3>4, <3>5, <3>6, <3>7 DEF Next
  <2>3. /\ q = r /\ req'[r].key = k
        /\ VerifierOf[r] \in open /\ k \notin mem[VerifierOf[r]]
    BY <2>1, <2>2 DEF Precheck, Call, Errors
  <2> QED BY <2>3, VerifierAssumption DEF GrantedIsKnown
<1>2. IInv /\ [Next]_vars =>
        [\A r \in Requests :
           req[r].status # "Keys" /\ req'[r].status = "Keys"
             => req'[r].key \notin known[VerifierOf[r]] \ failed]_vars
  BY <1>1
<1> QED BY <1>2, Invariance, PTL DEF KnownReplayIsStopped, Spec

-----------------------------------------------------------------------------
(* Where no verifier that requests share has failing writes, as at the       *)
(* endpoint, the exceptions disappear.                                       *)

\* Alone(r): no other request goes through r's verifier.
Alone(r) == \A q \in Requests : VerifierOf[q] = VerifierOf[r] => q = r

SoundSetting == \A r \in Requests : VerifierOf[r] \in WriteFaults => Alone(r)

\* Every granted nonce is in the log; the buffers of verifiers whose writes
\* cannot fail are empty; and a request alone with its verifier finds its nonce
\* unmarked when it comes back from the await.
Recorded ==
  /\ accepted \subseteq log
  /\ \A v \in Verifiers \ WriteFaults : pending[v] = {}
  /\ \A r \in Requests : InFlight(r) /\ Alone(r) => req[r].key \notin mem[VerifierOf[r]]

\* Every step keeps that, in such a setting.
LEMMA StepRecorded == SoundSetting /\ IInv /\ Recorded /\ [Next]_vars => Recorded'
<1> SUFFICES ASSUME SoundSetting, IInv, Recorded, [Next]_vars PROVE Recorded'
  OBVIOUS
<1> USE VerifierAssumption
    DEF SoundSetting, Alone, IInv, TypeOK, Recorded, MemoryIsBacked,
        FlightsHaveVerifiers, InFlight
<1>0. ASSUME NEW r \in Requests, NEW res \in Errors \cup {"Idle", "Lost"},
             req' = [req EXCEPT ![r] = Ended(res)]
      PROVE  \A q \in Requests : InFlight(q)' => InFlight(q) /\ req'[q] = req[q]
  BY <1>0, EndedIsCall
<1>1. CASE Crash
  <2>1. \A q \in Requests : ~InFlight(q)'
    BY <1>1, EndedIsCall DEF Crash
  <2> QED BY <1>1, <2>1 DEF Crash
<1>2. ASSUME NEW v \in Verifiers, Open(v) PROVE Recorded'
  BY <1>2 DEF Open
<1>3. ASSUME NEW v \in Verifiers, Close(v) PROVE Recorded'
  <2>1. log \subseteq log'
    BY <1>3 DEF Close
  <2> QED BY <1>3, <2>1 DEF Close
<1>4. ASSUME NEW r \in Requests, NEW k \in Keys, NEW s \in Attestations, Precheck(r, k, s)
      PROVE Recorded'
  <2>1. CASE k \in mem[VerifierOf[r]]
    BY <1>0, <1>4, <2>1 DEF Precheck, Errors
  <2>2. CASE k \notin mem[VerifierOf[r]]
    BY <1>4, <2>2 DEF Precheck, Call
  <2> QED BY <2>1, <2>2
<1>5. ASSUME NEW r \in Requests, RejectInput(r) PROVE Recorded'
  BY <1>0, <1>5 DEF RejectInput, Errors
<1>6. ASSUME NEW r \in Requests, ResolveKeys(r) PROVE Recorded'
  <2>1. CASE req' = [req EXCEPT ![r] = Ended("KeySourceUnavailable")]
    BY <1>0, <1>6, <2>1 DEF ResolveKeys, Errors
  <2>2. ASSUME NEW set \in AttesterSets,
               req' = [req EXCEPT ![r] = Call("Check", @.key, @.sigs, set)]
        PROVE Recorded'
    BY <1>6, <2>2 DEF ResolveKeys, Call
  <2> QED BY <1>6, <2>1, <2>2 DEF ResolveKeys
<1>7. ASSUME NEW r \in Requests, Cancel(r) PROVE Recorded'
  BY <1>0, <1>7 DEF Cancel
<1>8. ASSUME NEW r \in Requests, RejectSignatures(r) PROVE Recorded'
  BY <1>0, <1>8, CheckedIsStatus DEF RejectSignatures
<1>9. ASSUME NEW r \in Requests, Grant(r), req[r].status = "Check"
      PROVE  \A q \in Requests : InFlight(q)' => q # r /\ InFlight(q) /\ req'[q] = req[q]
  BY <1>9 DEF Grant, Calls
<1>10. ASSUME NEW r \in Requests, Consume(r) PROVE Recorded'
  <2>1. \A q \in Requests : InFlight(q)' => q # r /\ InFlight(q) /\ req'[q] = req[q]
    BY <1>9, <1>10 DEF Consume
  <2>2. accepted' \subseteq log' /\ \A v \in Verifiers \ WriteFaults : pending'[v] = {}
    BY <1>10 DEF Consume, Grant
  <2>3. \A q \in Requests : InFlight(q)' /\ Alone(q) => req'[q].key \notin mem'[VerifierOf[q]]
    BY <1>10, <2>1 DEF Consume
  <2> QED BY <2>2, <2>3
<1>11. ASSUME NEW r \in Requests, ConsumeAgain(r) PROVE Recorded'
  <2>1. \A q \in Requests : InFlight(q)' => q # r /\ InFlight(q) /\ req'[q] = req[q]
    BY <1>9, <1>11 DEF ConsumeAgain
  <2>2. req[r].key \in log
    <3>1. ~Alone(r)
      BY <1>11 DEF ConsumeAgain
    <3>2. VerifierOf[r] \notin WriteFaults
      BY <3>1
    <3> QED BY <1>11, <3>2 DEF ConsumeAgain
  <2> QED BY <1>11, <2>1, <2>2 DEF ConsumeAgain, Grant
<1>12. ASSUME NEW r \in Requests, ConsumeFails(r) PROVE Recorded'
  <2>1. \A q \in Requests : InFlight(q)' => q # r /\ InFlight(q) /\ req'[q] = req[q]
    BY <1>12, EndedIsCall DEF ConsumeFails, Errors
  <2> QED BY <1>12, <2>1 DEF ConsumeFails
<1>13. CASE UNCHANGED vars
  BY <1>13 DEF vars
<1> QED
  BY <1>1, <1>2, <1>3, <1>4, <1>5, <1>6, <1>7, <1>8, <1>10, <1>11, <1>12, <1>13 DEF Next

\* "If the store fails we fail closed" (attestation.rs:500) is true in such a
\* setting: every granted nonce is in the log, whatever crashes and fails.
THEOREM SoundGrantsAreDurable == SoundSetting /\ Spec => [](accepted \subseteq log)
<1> SUFFICES ASSUME SoundSetting PROVE Spec => [](accepted \subseteq log)
  OBVIOUS
<1>1. Init => Recorded
  BY EndedIsCall DEF Init, Recorded, InFlight
<1>2. IInv /\ Recorded /\ [Next]_vars => Recorded'
  BY StepRecorded
<1>3. Recorded => accepted \subseteq log
  BY DEF Recorded
<1> QED BY <1>1, <1>2, <1>3, Invariance, PTL DEF Spec

-----------------------------------------------------------------------------
\* "Less than" on the naturals has no infinite descent.
LEMMA LessThanDescends ==
  ASSUME NEW T, T \subseteq Nat, T # {}
  PROVE  \E x \in T : \A y \in T : ~(y < x)
<1>1. \E x \in T : \A y \in T : ~(<<y, x>> \in OpToRel(<, Nat))
  BY WFMin, NatLessThanWellFounded
<1> QED BY <1>1 DEF OpToRel

\* The loop of verify_signatures compares each signer with the one before it
\* only; that orders every two of them.
LEMMA NeighboursOrderAll ==
  ASSUME NEW sigs \in Seq(Int),
         \A i \in 1..Len(sigs) : i > 1 => sigs[i - 1] < sigs[i]
  PROVE  \A i, j \in 1..Len(sigs) : i < j => sigs[i] < sigs[j]
<1> DEFINE Wrong == {j \in 1..Len(sigs) : \E i \in 1..Len(sigs) : i < j /\ sigs[j] <= sigs[i]}
<1>0. \A i \in 1..Len(sigs) : sigs[i] \in Int
  OBVIOUS
<1>1. ASSUME NEW j \in Wrong PROVE \E k \in Wrong : k < j
  <2>1. PICK i \in 1..Len(sigs) : i < j /\ sigs[j] <= sigs[i]
    OBVIOUS
  <2>2. j - 1 \in 1..Len(sigs) /\ sigs[j - 1] < sigs[j]
    BY <2>1
  <2>3. i < j - 1 /\ sigs[j - 1] <= sigs[i]
    BY <1>0, <2>1, <2>2
  <2>4. j - 1 \in Wrong
    BY <2>1, <2>2, <2>3
  <2>5. j - 1 < j
    OBVIOUS
  <2> QED BY <2>4, <2>5
<1>2. Wrong = {}
  <2>1. Wrong \subseteq Nat
    OBVIOUS
  <2> HIDE DEF Wrong
  <2> QED BY <1>1, <2>1, LessThanDescends
<1>3. ASSUME NEW i \in 1..Len(sigs), NEW j \in 1..Len(sigs), i < j
      PROVE  sigs[i] < sigs[j]
  <2>1. ~(sigs[j] <= sigs[i])
    BY <1>2, <1>3
  <2> QED BY <1>0, <2>1
<1> QED BY <1>3

\* A run of the loop that ends in Ok has counted threshold different members
\* of the attester set.
LEMMA OkIsQuorum ==
  ASSUME NEW sigs \in Seq(Int), NEW set \in AttesterSets,
         VerifySignatures(sigs, set) = "Ok"
  PROVE  \E quorum \in SUBSET set.attesters :
           /\ Cardinality(quorum) >= set.threshold
           /\ \A a \in quorum : \E i \in DOMAIN sigs : sigs[i] = a
<1> DEFINE Places == 1..Len(sigs)
           Signers == {sigs[i] : i \in Places}
<1>1. DOMAIN sigs = Places
  OBVIOUS
<1>0. \A i \in Places : sigs[i] \in Int
  OBVIOUS
<1>2. BadPositions(sigs, set) = {}
  BY DEF VerifySignatures
<1>3. ~(Len(sigs) < set.threshold)
  BY <1>2 DEF VerifySignatures
<1>4. Signers \subseteq set.attesters
  BY <1>1, <1>2 DEF BadPositions
<1>5. ASSUME NEW i \in Places, i > 1 PROVE sigs[i - 1] < sigs[i]
  <2>1. ~(sigs[i] <= sigs[i - 1])
    BY <1>1, <1>2, <1>5 DEF BadPositions
  <2>2. i - 1 \in Places
    BY <1>5
  <2> QED BY <1>0, <2>1, <2>2
<1>6. \A i, j \in Places : i < j => sigs[i] < sigs[j]
  BY <1>5, NeighboursOrderAll
<1>7. sigs \in Bijection(Places, Signers)
  <2>1. \A i, j \in Places : sigs[i] = sigs[j] => i = j
    BY <1>6
  <2>2. sigs \in [Places -> Signers]
    BY <1>1
  <2> QED BY <2>1, <2>2 DEF Bijection, Injection, Surjection, IsInjective
<1>8. Cardinality(Signers) = Len(sigs)
  <2>1. IsFiniteSet(Places) /\ Cardinality(Places) = Len(sigs)
    <3>1. Len(sigs) \in Nat
      OBVIOUS
    <3>2. IsFiniteSet(1..Len(sigs)) /\ Cardinality(1..Len(sigs)) = IF 1 > Len(sigs) THEN 0 ELSE Len(sigs) - 1 + 1
      BY <3>1, FS_Interval
    <3> QED BY <3>1, <3>2
  <2> QED BY <1>7, <2>1, FS_Bijection DEF ExistsBijection
<1>9. set.threshold \in Nat
  BY VerifierAssumption, FS_CardinalityType DEF ValidAttesterSet
<1>10. Cardinality(Signers) >= set.threshold
  <2>1. Len(sigs) \in Nat
    OBVIOUS
  <2>2. Len(sigs) >= set.threshold
    BY <1>3, <1>9, <2>1
  <2> QED BY <1>8, <2>2
<1>11. \A a \in Signers : \E i \in DOMAIN sigs : sigs[i] = a
  BY <1>1
<1> QED BY <1>4, <1>10, <1>11

\* A call carries the attestation it was made with, and one that ended in Ok
\* still holds the set its signatures passed against.
GrantIsSigned ==
  \A r \in Requests :
    /\ InFlight(r) => req[r].sigs \in Attestations
    /\ req[r].status = "Ok" => /\ req[r].sigs \in Attestations
                               /\ req[r].set \in AttesterSets
                               /\ Checked(r) = "Ok"

\* Every step keeps that.
LEMMA StepSigned == TypeOK /\ GrantIsSigned /\ [Next]_vars => GrantIsSigned'
<1> SUFFICES ASSUME TypeOK, GrantIsSigned, [Next]_vars PROVE GrantIsSigned'
  OBVIOUS
<1> USE DEF TypeOK, GrantIsSigned, InFlight, Checked
<1>0. ASSUME NEW r \in Requests, NEW res \in Errors \cup {"Idle", "Lost"},
             req' = [req EXCEPT ![r] = Ended(res)]
      PROVE  GrantIsSigned'
  BY <1>0, EndedIsCall
<1>1. CASE Crash
  BY <1>1, EndedIsCall DEF Crash
<1>2. ASSUME NEW v \in Verifiers, Open(v) \/ Close(v) PROVE GrantIsSigned'
  BY <1>2 DEF Open, Close
<1>3. ASSUME NEW r \in Requests, NEW k \in Keys, NEW s \in Attestations, Precheck(r, k, s)
      PROVE GrantIsSigned'
  <2>1. CASE k \in mem[VerifierOf[r]]
    BY <1>0, <1>3, <2>1 DEF Precheck, Errors
  <2>2. CASE k \notin mem[VerifierOf[r]]
    BY <1>3, <2>2 DEF Precheck, Call
  <2> QED BY <2>1, <2>2
<1>4. ASSUME NEW r \in Requests, RejectInput(r) PROVE GrantIsSigned'
  BY <1>0, <1>4 DEF RejectInput, Errors
<1>5. ASSUME NEW r \in Requests, ResolveKeys(r) PROVE GrantIsSigned'
  <2>1. CASE req' = [req EXCEPT ![r] = Ended("KeySourceUnavailable")]
    BY <1>0, <2>1 DEF Errors
  <2>2. ASSUME NEW set \in AttesterSets,
               req' = [req EXCEPT ![r] = Call("Check", @.key, @.sigs, set)]
        PROVE GrantIsSigned'
    BY <1>5, <2>2 DEF ResolveKeys, Call
  <2> QED BY <1>5, <2>1, <2>2 DEF ResolveKeys
<1>6. ASSUME NEW r \in Requests, Cancel(r) PROVE GrantIsSigned'
  BY <1>0, <1>6 DEF Cancel
<1>7. ASSUME NEW r \in Requests, RejectSignatures(r) PROVE GrantIsSigned'
  BY <1>0, <1>7, CheckedIsStatus DEF RejectSignatures
<1>8. ASSUME NEW r \in Requests, Grant(r), req[r].status = "Check",
             VerifySignatures(req[r].sigs, req[r].set) = "Ok"
      PROVE  GrantIsSigned'
  <2>1. \A q \in Requests : q # r => req'[q] = req[q]
    BY <1>8 DEF Grant
  <2>2. /\ req'[r].status = "Ok" /\ req'[r].sigs = req[r].sigs
        /\ req'[r].set = req[r].set
    BY <1>8 DEF Grant, Calls
  <2> QED BY <1>8, <2>1, <2>2
<1>9. ASSUME NEW r \in Requests, Consume(r) \/ ConsumeAgain(r) PROVE GrantIsSigned'
  BY <1>8, <1>9 DEF Consume, ConsumeAgain
<1>10. ASSUME NEW r \in Requests, ConsumeFails(r) PROVE GrantIsSigned'
  BY <1>0, <1>10 DEF ConsumeFails, Errors
<1>11. CASE UNCHANGED vars
  BY <1>11 DEF vars
<1> QED
  BY <1>1, <1>2, <1>3, <1>4, <1>5, <1>6, <1>7, <1>9, <1>10, <1>11 DEF Next

\* verify returns Ok only for what threshold different members of the resolved
\* set signed, in every setting: the setting matters to nonces only.
THEOREM AcceptancesAreQuorate == Spec => []AcceptedByQuorum
<1>1. Init => TypeOK /\ GrantIsSigned
  <2>1. Init => TypeOK
    BY InitIInv DEF IInv
  <2>2. Init => GrantIsSigned
    BY DEF Init, GrantIsSigned, InFlight, Ended, Call
  <2> QED BY <2>1, <2>2
<1>2. TypeOK /\ GrantIsSigned /\ [Next]_vars => (TypeOK /\ GrantIsSigned)'
  BY StepType, StepSigned
<1>3. GrantIsSigned => AcceptedByQuorum
  <2> SUFFICES ASSUME GrantIsSigned, NEW r \in Requests, req[r].status = "Ok"
               PROVE  \E quorum \in SUBSET req[r].set.attesters :
                        /\ Cardinality(quorum) >= req[r].set.threshold
                        /\ \A a \in quorum : \E i \in DOMAIN req[r].sigs : req[r].sigs[i] = a
    BY DEF AcceptedByQuorum
  <2>1. /\ req[r].sigs \in Seq(Int) /\ req[r].set \in AttesterSets
        /\ VerifySignatures(req[r].sigs, req[r].set) = "Ok"
    BY VerifierAssumption DEF GrantIsSigned, Checked
  <2> QED BY <2>1, OkIsQuorum
<1> QED BY <1>1, <1>2, <1>3, PTL DEF Spec
=============================================================================
