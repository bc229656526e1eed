-------------------------- MODULE AttestersProofs --------------------------
(* How old, and how mixed, the attester set of a verifier can be, for any   *)
(* number of callers, attesters and changes of the contract.               *)
EXTENDS Attesters, FiniteSetTheorems, SequenceTheorems, TLAPS

\* The calls in flight and their ends, as records.
Calls ==
  [status : CallStatuses, elapsed : 0..RequestTimeout, threshold : Thresholds \cup {0},
   count : 0..MaxSignatures, members : Seq(Addresses), set : Sets \cup {NoSet}]

Entries == [set : Sets, age : 0..KeyCacheTtl]

Types ==
  /\ enabled \in Seq(Addresses)
  /\ threshold \in Thresholds /\ threshold <= Len(enabled)
  /\ changes \in 0..MaxChanges
  /\ cache \in Entries \cup {NoSet}
  /\ call \in [Callers -> Calls]
  /\ gone \in [Addresses \cup Thresholds -> 0..Horizon + 1]

\* What is in force now has not been gone at all.
InForceIsPresent == \A x \in InForce : gone[x] = 0

\* What a call has read was in force during the call.
ReadIsRecent ==
  \A c \in Callers :
    /\ call[c].status \in {"Count", "Members"} =>
         /\ call[c].threshold \in Thresholds
         /\ gone[call[c].threshold] <= call[c].elapsed
    /\ call[c].status = "Members" =>
         \A i \in DOMAIN call[c].members : gone[call[c].members[i]] <= call[c].elapsed

\* What is cached was in force during the fetch that stored it.
CachedIsRecent ==
  cache # NoSet /\ cache.age < KeyCacheTtl =>
    \A x \in Facts(cache.set) : gone[x] <= cache.age + RequestTimeout

\* A set can be satisfied wherever it is kept.
Satisfiable(set) == set.threshold <= Cardinality(set.attesters)

KeptIsSatisfiable ==
  /\ cache # NoSet => Satisfiable(cache.set)
  /\ \A c \in Callers : call[c].status \in Served =>
       call[c].set \in Sets /\ Satisfiable(call[c].set)

\* A call has read no more members than it counted, and none before.
CountedIsRead ==
  \A c \in Callers :
    /\ Len(call[c].members) <= call[c].count
    /\ call[c].status # "Members" => call[c].members = <<>>

\* A set that was served is still cached.
ServedIsKept == \A c \in Callers : call[c].status \in Served => cache # NoSet

IInv == /\ Types
        /\ InForceIsPresent
        /\ ReadIsRecent
        /\ CachedIsRecent
        /\ KeptIsSatisfiable
        /\ CountedIsRead
        /\ ServedIsKept

-----------------------------------------------------------------------------
\* The contract has room for a threshold of one at least.
LEMMA ThresholdsAreNat == Thresholds \subseteq Nat /\ 1 \in Thresholds
  BY AttestersAssumption, FS_CardinalityType, FS_EmptySet DEF Thresholds

\* A new verifier has no cache and no calls.
LEMMA InitIInv == AttestersInit => IInv
<1> SUFFICES ASSUME AttestersInit PROVE IInv
  OBVIOUS
<1> USE AttestersAssumption DEF AttestersInit, Horizon
<1>1. Types
  <2>1. call \in [Callers -> Calls]
    BY ThresholdsAreNat DEF CallEnded, Calls, CallStatuses
  <2>2. InForce \subseteq Addresses \cup Thresholds
    BY ThresholdsAreNat DEF InForce, Range
  <2> QED BY <2>1, <2>2, ThresholdsAreNat DEF Types
<1>2. InForceIsPresent
  BY ThresholdsAreNat DEF InForceIsPresent, InForce, Range
<1> QED
  BY <1>1, <1>2
  DEF IInv, ReadIsRecent, CachedIsRecent, KeptIsSatisfiable, CountedIsRead,
      ServedIsKept, CallEnded, Served

-----------------------------------------------------------------------------
\* What is no longer gone than before is still recent.
LEMMA StaysRecent ==
  ASSUME IInv, UNCHANGED <<cache, call>>,
         gone' \in [Addresses \cup Thresholds -> 0..Horizon + 1],
         \A x \in Addresses \cup Thresholds : gone'[x] <= gone[x]
  PROVE  ReadIsRecent' /\ CachedIsRecent'
<1> USE DEF IInv
<1>1. ASSUME NEW x \in Addresses \cup Thresholds, NEW n \in Nat, gone[x] <= n
      PROVE  gone'[x] <= n
  <2>1. gone[x] \in Int /\ gone'[x] \in Int
    BY AttestersAssumption DEF Types, Horizon
  <2> QED BY <1>1, <2>1
<1>2. ReadIsRecent'
  <2>1. ASSUME NEW c \in Callers
        PROVE  /\ call[c].elapsed \in Nat
               /\ \A i \in DOMAIN call[c].members : call[c].members[i] \in Addresses
    <3>1. call[c] \in Calls
      BY DEF Types
    <3> QED BY <3>1, AttestersAssumption DEF Calls
  <2> QED BY <1>1, <2>1 DEF ReadIsRecent
<1>3. CachedIsRecent'
  <2>1. ASSUME cache # NoSet
        PROVE  /\ cache.age + RequestTimeout \in Nat
               /\ Facts(cache.set) \subseteq Addresses \cup Thresholds
    BY <2>1, AttestersAssumption DEF Types, Entries, Facts, Sets
  <2> QED BY <1>1, <2>1 DEF CachedIsRecent, Facts
<1> QED BY <1>2, <1>3

\* The contract's owner changes it between any two calls.
LEMMA ChangeStep ==
  ASSUME IInv, Change, enabled' \in Seq(Addresses),
         threshold' \in Thresholds, threshold' <= Len(enabled')
  PROVE  IInv'
<1> USE AttestersAssumption, ThresholdsAreNat DEF IInv, Types, Horizon
<1>1. InForce \cup InForce' \subseteq Addresses \cup Thresholds
  BY DEF InForce, Range
<1>2. /\ gone' \in [Addresses \cup Thresholds -> 0..Horizon + 1]
      /\ \A x \in Addresses \cup Thresholds : gone'[x] <= gone[x]
      /\ \A x \in InForce' : gone'[x] = 0
  BY <1>1 DEF Change
<1>3. Types'
  BY <1>2 DEF Change
<1>4. ReadIsRecent' /\ CachedIsRecent'
  BY <1>2, StaysRecent DEF Change
<1> QED
  BY <1>2, <1>3, <1>4
  DEF Change, InForceIsPresent, KeptIsSatisfiable, CountedIsRead, ServedIsKept

\* A call ends in "Unavailable" or "Lost", or with the cached set.
LEMMA EndStep ==
  ASSUME IInv, NEW c \in Callers, UNCHANGED <<contract, cache, gone>>,
         \/ call' = [call EXCEPT ![c] = CallEnded("Lost", NoSet)]
         \/ call' = [call EXCEPT ![c] = CallEnded("Unavailable", NoSet)]
         \/ cache # NoSet /\ call' = [call EXCEPT ![c] = CallEnded("Cached", cache.set)]
         \/ cache # NoSet /\ call' = [call EXCEPT ![c] = CallEnded("Fallback", cache.set)]
         \/ call' = [call EXCEPT ![c] = CallEnded("Threshold", NoSet)]
  PROVE  IInv'
<1> USE AttestersAssumption, ThresholdsAreNat DEF IInv, contract
<1>1. PICK s \in {"Lost", "Unavailable", "Cached", "Fallback", "Threshold"},
           set \in Sets \cup {NoSet} :
        /\ call' = [call EXCEPT ![c] = CallEnded(s, set)]
        /\ s \in Served => cache # NoSet /\ set = cache.set
  BY DEF Types, Entries, Served
<1>2. CallEnded(s, set) \in Calls
  BY DEF CallEnded, Calls, CallStatuses, Reading, Served
<1>3. Types'
  BY <1>1, <1>2 DEF Types
<1>4. InForceIsPresent' /\ CachedIsRecent'
  BY DEF InForceIsPresent, InForce, CachedIsRecent
<1>5. ReadIsRecent'
  BY <1>1 DEF ReadIsRecent, CallEnded, Types
<1>6. KeptIsSatisfiable'
  BY <1>1 DEF KeptIsSatisfiable, CallEnded, Types, Entries, Satisfiable
<1>7. CountedIsRead' /\ ServedIsKept'
  BY <1>1 DEF CountedIsRead, ServedIsKept, CallEnded, Types
<1> QED BY <1>3, <1>4, <1>5, <1>6, <1>7

\* A call that fails caches nothing.
LEMMA FailStep ==
  ASSUME IInv, NEW c \in Callers, Fail(c), UNCHANGED <<contract, gone>>
  PROVE  IInv'
  BY EndStep DEF Fail, contract

\* A call has read one more fact.
LEMMA ReadOnStep ==
  ASSUME IInv, NEW c \in Callers, NEW new \in Calls,
         UNCHANGED <<contract, cache, gone>>,
         call' = [call EXCEPT ![c] = new],
         new.status \in {"Count", "Members"},
         new.threshold \in Thresholds, gone[new.threshold] <= new.elapsed,
         Len(new.members) <= new.count,
         new.status # "Members" => new.members = <<>>,
         \A i \in DOMAIN new.members : gone[new.members[i]] <= new.elapsed
  PROVE  IInv'
<1> USE DEF IInv, contract
<1>1. Types'
  BY DEF Types
<1>2. InForceIsPresent' /\ CachedIsRecent'
  BY DEF InForceIsPresent, InForce, CachedIsRecent
<1>3. ReadIsRecent'
  BY DEF ReadIsRecent, Types
<1>4. KeptIsSatisfiable'
  BY DEF KeptIsSatisfiable, Satisfiable, Served, Types
<1>5. CountedIsRead' /\ ServedIsKept'
  BY DEF CountedIsRead, ServedIsKept, Served, Types
<1> QED BY <1>1, <1>2, <1>3, <1>4, <1>5

\* Whatever was read is in force when it is read.
LEMMA ReadStep ==
  ASSUME IInv, NEW c \in Callers, ReadThreshold(c) \/ ReadCount(c) \/ ReadMember(c)
  PROVE  IInv'
<1> USE AttestersAssumption, ThresholdsAreNat DEF IInv
<1>1. CASE Fail(c) /\ UNCHANGED <<contract, gone>>
  BY <1>1, FailStep
<1>2. call[c] \in Calls
  BY DEF Types
<1>3. CASE ReadThreshold(c)
  <2> DEFINE new == [call[c] EXCEPT !.status = "Count", !.threshold = threshold]
  <2>1. call' = [call EXCEPT ![c] = new] /\ call[c].members = <<>>
    BY <1>3 DEF ReadThreshold, CountedIsRead, Types
  <2>2. new \in Calls
    BY <1>2 DEF Types, Calls, CallStatuses, Reading
  <2>3. /\ new.elapsed = call[c].elapsed /\ new.status = "Count"
        /\ new.threshold = threshold /\ new.count = call[c].count
        /\ new.members = <<>>
        /\ call[c].elapsed >= 0 /\ call[c].count >= 0
    BY <1>2, <2>1 DEF Calls
  <2>4. gone[threshold] = 0 /\ threshold \in Thresholds
    BY DEF InForceIsPresent, InForce, Types
  <2>5. Len(<<>>) = 0 /\ DOMAIN <<>> = {}
    OBVIOUS
  <2> HIDE DEF new
  <2> QED
    BY <1>3, <2>1, <2>2, <2>3, <2>4, <2>5, ReadOnStep DEF ReadThreshold
<1>4. CASE ReadCount(c) /\ ~(Len(enabled) > MaxSignatures)
  <2> DEFINE new == [call[c] EXCEPT !.status = "Members", !.count = Len(enabled)]
  <2>1. call' = [call EXCEPT ![c] = new] /\ call[c].members = <<>>
    BY <1>4 DEF ReadCount, CountedIsRead, Types
  <2>2. Len(enabled) \in 0..MaxSignatures
    BY <1>4 DEF Types
  <2>3. new \in Calls
    BY <1>2, <2>2 DEF Calls, CallStatuses, Reading
  <2>4. /\ new.elapsed = call[c].elapsed /\ new.status = "Members"
        /\ new.threshold = call[c].threshold /\ new.count = Len(enabled)
        /\ new.members = <<>>
    BY <1>2, <2>1 DEF Calls
  <2>5. call[c].threshold \in Thresholds /\ gone[call[c].threshold] <= call[c].elapsed
    BY <1>4 DEF ReadCount, ReadIsRecent
  <2>6. Len(new.members) <= new.count /\ \A i \in DOMAIN new.members : FALSE
    BY <2>2, <2>4
  <2>7. gone[new.threshold] <= new.elapsed /\ new.threshold \in Thresholds
    BY <2>4, <2>5
  <2>8. UNCHANGED <<contract, cache, gone>>
    BY <1>4 DEF ReadCount
  <2> HIDE DEF new
  <2> QED
    BY <2>1, <2>3, <2>4, <2>6, <2>7, <2>8, ReadOnStep
<1>5. CASE ReadMember(c) /\ ~(Len(call[c].members) + 1 > Len(enabled))
  <2> DEFINE i == Len(call[c].members) + 1
             new == [call[c] EXCEPT !.members = Append(@, enabled[i])]
  <2>1. call' = [call EXCEPT ![c] = new]
    BY <1>5 DEF ReadMember
  <2>2. call[c].members \in Seq(Addresses) /\ i \in 1..call[c].count
    BY <1>2, <1>5 DEF ReadMember, Calls
  <2>3. i \in DOMAIN enabled /\ enabled[i] \in Addresses
    BY <1>5, <2>2 DEF Types
  <2>4. gone[enabled[i]] = 0
    BY <2>3 DEF InForceIsPresent, InForce, Range
  <2>5. new \in Calls
    <3>1. Append(call[c].members, enabled[i]) \in Seq(Addresses)
      BY <2>2, <2>3
    <3> QED BY <1>2, <3>1 DEF Calls
  <2>6. /\ new.elapsed = call[c].elapsed /\ new.status = "Members"
        /\ new.threshold = call[c].threshold /\ new.count = call[c].count
        /\ new.members = Append(call[c].members, enabled[i])
        /\ call[c].elapsed >= 0
    BY <1>2, <1>5 DEF ReadMember, Calls
  <2>7. call[c].threshold \in Thresholds /\ gone[call[c].threshold] <= call[c].elapsed
    BY <1>5 DEF ReadMember, ReadIsRecent
  <2>8. \A j \in DOMAIN call[c].members : gone[call[c].members[j]] <= call[c].elapsed
    BY <1>5 DEF ReadMember, ReadIsRecent
  <2>9. Len(new.members) = i /\ i <= call[c].count
    BY <2>2, <2>3, <2>6
  <2>10. ASSUME NEW j \in DOMAIN new.members
         PROVE  gone[new.members[j]] <= new.elapsed
    <3>1. CASE j = i
      BY <2>2, <2>3, <2>4, <2>6, <3>1
    <3>2. CASE j # i
      BY <2>2, <2>3, <2>6, <2>8, <3>2
    <3> QED BY <3>1, <3>2
  <2> HIDE DEF new
  <2> QED
    BY <1>5, <2>1, <2>5, <2>6, <2>7, <2>9, <2>10, ReadOnStep DEF ReadMember
<1> QED
  BY <1>1, <1>3, <1>4, <1>5 DEF ReadThreshold, ReadCount, ReadMember

\* A fetched set enters the cache with what its call has read.
LEMMA StoreStep ==
  ASSUME IInv, NEW c \in Callers, Store(c)
  PROVE  IInv'
<1> USE AttestersAssumption, ThresholdsAreNat DEF IInv
<1>1. CASE Fail(c) /\ UNCHANGED <<contract, gone>>
  BY <1>1, FailStep
<1> DEFINE set == Fetched(c)
<1>2. CASE set.threshold \in 1..Cardinality(set.attesters)
  <2>1. call[c] \in Calls
    BY DEF Types
  <2>2. set \in Sets /\ Satisfiable(set)
    BY <1>2, <2>1 DEF Store, Fetched, Sets, Satisfiable, Calls, Range, ReadIsRecent
  <2>3. \A x \in Facts(set) : gone[x] <= call[c].elapsed
    BY <1>2, <2>1 DEF Store, Fetched, Facts, Range, ReadIsRecent
  <2>4. /\ UNCHANGED <<contract, gone>>
        /\ cache' = [set |-> set, age |-> 0]
        /\ call' = [call EXCEPT ![c] = CallEnded("Fetched", set)]
    BY <1>2 DEF Store
  <2>5. cache' \in Entries /\ CallEnded("Fetched", set) \in Calls
    BY <2>2, <2>4 DEF Entries, CallEnded, Calls, CallStatuses, Served
  <2> HIDE DEF set
  <2>6. Types' /\ InForceIsPresent'
    BY <2>4, <2>5 DEF Types, InForceIsPresent, InForce, contract
  <2>7. ReadIsRecent' /\ CountedIsRead'
    BY <2>4 DEF ReadIsRecent, CountedIsRead, CallEnded, Types
  <2>8. CachedIsRecent'
    <3>1. call[c].elapsed \in 0..RequestTimeout /\ \A x \in Facts(set) : gone[x] \in Int
      BY <2>1, <2>2 DEF Calls, Facts, Sets, Types, Horizon
    <3> QED BY <2>3, <2>4, <3>1 DEF CachedIsRecent
  <2>9. cache' # NoSet
    BY <2>5 DEF Entries
  <2>10. KeptIsSatisfiable' /\ ServedIsKept'
    BY <2>2, <2>4, <2>9 DEF KeptIsSatisfiable, Satisfiable, ServedIsKept, CallEnded, Types
  <2> QED BY <2>6, <2>7, <2>8, <2>10
<1> QED BY <1>1, <1>2 DEF Store

\* Time passes for what is gone, for the cache and for calls alike.
LEMMA TickStep ==
  ASSUME IInv, Tick
  PROVE  IInv'
<1> USE AttestersAssumption, ThresholdsAreNat DEF IInv
<1>1. \A c \in Callers :
        /\ call[c] \in Calls /\ call'[c] \in Calls
        /\ Fetching(c) => call'[c] = [call[c] EXCEPT !.elapsed = @ + 1]
        /\ ~Fetching(c) => call'[c] = call[c]
  <2> SUFFICES ASSUME NEW c \in Callers
               PROVE  /\ call[c] \in Calls /\ call'[c] \in Calls
                      /\ Fetching(c) => call'[c] = [call[c] EXCEPT !.elapsed = @ + 1]
                      /\ ~Fetching(c) => call'[c] = call[c]
    OBVIOUS
  <2>1. call[c] \in Calls
    BY DEF Types
  <2>2. Fetching(c) => call[c].elapsed + 1 \in 0..RequestTimeout
    BY <2>1 DEF Tick, Calls
  <2> QED BY <2>1, <2>2 DEF Tick, Calls
<1>2. \A x \in Addresses \cup Thresholds :
        /\ gone[x] \in 0..Horizon + 1 /\ gone'[x] \in 0..Horizon + 1
        /\ gone'[x] <= gone[x] + 1
        /\ x \in InForce => gone'[x] = gone[x]
  BY DEF Tick, Types, Horizon
<1>3. Types'
  <2>1. cache' \in Entries \cup {NoSet}
    BY DEF Tick, Types, Entries
  <2>2. gone' \in [Addresses \cup Thresholds -> 0..Horizon + 1]
    BY <1>2 DEF Tick, Types
  <2>3. call' \in [Callers -> Calls]
    BY <1>1 DEF Tick
  <2> QED BY <2>1, <2>2, <2>3 DEF Tick, Types, contract
<1>4. InForceIsPresent'
  BY <1>2 DEF Tick, contract, InForceIsPresent, InForce, Range, Types
<1>5. \A c \in Callers :
        /\ call'[c].status = call[c].status /\ call'[c].threshold = call[c].threshold
        /\ call'[c].members = call[c].members /\ call'[c].count = call[c].count
        /\ call'[c].set = call[c].set
        /\ Fetching(c) => call'[c].elapsed = call[c].elapsed + 1
  BY <1>1 DEF Calls
<1>6. CountedIsRead'
  BY <1>5 DEF CountedIsRead
<1>7. ReadIsRecent'
  <2> SUFFICES ASSUME NEW c \in Callers, call[c].status \in {"Count", "Members"}
               PROVE  /\ gone'[call[c].threshold] <= call'[c].elapsed
                      /\ call[c].status = "Members" =>
                           \A i \in DOMAIN call[c].members :
                             gone'[call[c].members[i]] <= call'[c].elapsed
    BY <1>5 DEF ReadIsRecent
  <2> call[c] \in Calls /\ Fetching(c)
    BY <1>1 DEF Fetching, Reading
  <2>1. call[c].elapsed \in Int /\ call'[c].elapsed = call[c].elapsed + 1
    BY <1>5 DEF Calls
  <2>2. ASSUME NEW x \in Addresses \cup Thresholds, gone[x] <= call[c].elapsed
        PROVE  gone'[x] <= call'[c].elapsed
    BY <1>2, <2>1, <2>2 DEF Horizon
  <2>3. \A i \in DOMAIN call[c].members : call[c].members[i] \in Addresses
    BY DEF Calls
  <2> QED BY <2>2, <2>3 DEF ReadIsRecent
<1>8. CachedIsRecent'
  <2> SUFFICES ASSUME cache' # NoSet, cache'.age < KeyCacheTtl, NEW x \in Facts(cache'.set)
               PROVE  gone'[x] <= cache'.age + RequestTimeout
    BY DEF CachedIsRecent
  <2>1. cache \in Entries /\ cache # NoSet
    BY DEF Tick, Types
  <2>2. /\ cache.age \in 0..KeyCacheTtl /\ cache.age < KeyCacheTtl
        /\ cache' = [cache EXCEPT !.age = @ + 1]
    BY <2>1 DEF Tick, Entries
  <2>3. cache'.age = cache.age + 1 /\ cache'.set = cache.set
    BY <2>1, <2>2 DEF Entries
  <2>4. x \in Facts(cache.set) /\ x \in Addresses \cup Thresholds
    BY <2>1, <2>3 DEF Facts, Entries, Sets
  <2>5. gone[x] <= cache.age + RequestTimeout
    BY <2>1, <2>2, <2>4 DEF CachedIsRecent
  <2> QED BY <1>2, <2>2, <2>3, <2>4, <2>5 DEF Horizon
<1>9. cache # NoSet => cache' # NoSet
  <2> SUFFICES ASSUME cache # NoSet PROVE cache' \in Entries
    BY DEF Entries
  <2>1. cache \in Entries
    BY DEF Types
  <2> QED BY <2>1 DEF Tick, Entries
<1>10. cache # NoSet => cache'.set = cache.set
  BY DEF Tick, Types, Entries
<1>11. cache = NoSet => cache' = NoSet
  BY DEF Tick
<1>12. KeptIsSatisfiable' /\ ServedIsKept'
  BY <1>5, <1>9, <1>10, <1>11 DEF KeptIsSatisfiable, Satisfiable, ServedIsKept
<1> QED BY <1>3, <1>4, <1>6, <1>7, <1>8, <1>12

\* Every step keeps the invariant.
LEMMA StepIInv == IInv /\ [AttestersNext]_attestersVars => IInv'
<1> SUFFICES ASSUME IInv, [AttestersNext]_attestersVars PROVE IInv'
  OBVIOUS
<1> USE AttestersAssumption, ThresholdsAreNat
<1>1. CASE Tick
  BY <1>1, TickStep
<1>2. ASSUME NEW a \in Addresses, EnableAttester(a) PROVE IInv'
  <2>1. enabled' \in Seq(Addresses) /\ Len(enabled') = Len(enabled) + 1
    BY <1>2 DEF EnableAttester, IInv, Types
  <2>2. threshold' \in Thresholds /\ threshold' <= Len(enabled')
    BY <1>2, <2>1 DEF EnableAttester, IInv, Types
  <2> QED BY <1>2, <2>1, <2>2, ChangeStep DEF EnableAttester
<1>3. ASSUME NEW i \in DOMAIN enabled, DisableAttester(i) PROVE IInv'
  <2>1. enabled \in Seq(Addresses) /\ threshold \in Nat /\ Len(enabled) > threshold
    BY <1>3 DEF DisableAttester, IInv, Types
  <2> DEFINE moved == [enabled EXCEPT ![i] = enabled[Len(enabled)]]
  <2>2. moved \in Seq(Addresses) /\ Len(moved) = Len(enabled)
    BY <2>1, ExceptSeq
  <2>3. enabled' \in Seq(Addresses) /\ Len(enabled') = Len(enabled) - 1
    BY <1>3, <2>1, <2>2 DEF DisableAttester
  <2>4. threshold' \in Thresholds /\ threshold' <= Len(enabled')
    BY <1>3, <2>1, <2>3 DEF DisableAttester, IInv, Types
  <2> QED BY <1>3, <2>3, <2>4, ChangeStep DEF DisableAttester
<1>4. ASSUME NEW t \in Thresholds, SetSignatureThreshold(t) PROVE IInv'
  <2>1. enabled' \in Seq(Addresses) /\ threshold' \in Thresholds /\ threshold' <= Len(enabled')
    BY <1>4 DEF SetSignatureThreshold, IInv, Types
  <2> QED BY <1>4, <2>1, ChangeStep DEF SetSignatureThreshold
<1>5. ASSUME NEW c \in Callers, Request(c) PROVE IInv'
  BY <1>5, EndStep DEF Request
<1>6. ASSUME NEW c \in Callers, ReadThreshold(c) \/ ReadCount(c) \/ ReadMember(c)
      PROVE  IInv'
  BY <1>6, ReadStep
<1>7. ASSUME NEW c \in Callers, EthCallFails(c) PROVE IInv'
  BY <1>7, FailStep DEF EthCallFails
<1>8. ASSUME NEW c \in Callers, Store(c) PROVE IInv'
  BY <1>8, StoreStep
<1>9. ASSUME NEW c \in Callers, CancelCall(c) PROVE IInv'
  BY <1>9, EndStep DEF CancelCall
<1>10. CASE UNCHANGED attestersVars
  BY <1>10
  DEF attestersVars, contract, IInv, Types, InForceIsPresent, InForce, ReadIsRecent,
      CachedIsRecent, KeptIsSatisfiable, Satisfiable, CountedIsRead, ServedIsKept
<1> QED
  BY <1>1, <1>2, <1>3, <1>4, <1>5, <1>6, <1>7, <1>8, <1>9, <1>10 DEF AttestersNext

\* The invariant holds in every behaviour.
LEMMA Invariance == AttestersSpec => []IInv
  BY InitIInv, StepIInv, PTL DEF AttestersSpec

-----------------------------------------------------------------------------
\* Every set that is cached or served can be satisfied, every call keeps its
\* time, and the contract's threshold never exceeds its attesters.
THEOREM AttestersAreTyped == AttestersSpec => []AttestersOK
<1>1. IInv => AttestersOK
  <2> SUFFICES ASSUME IInv PROVE AttestersOK
    OBVIOUS
  <2> USE AttestersAssumption, ThresholdsAreNat DEF IInv, Types
  <2>1. Range(enabled) \subseteq Addresses /\ threshold \in 1..Len(enabled)
    BY DEF Range, Thresholds
  <2>2. ASSUME NEW c \in Callers
        PROVE  /\ call[c].status \in CallStatuses
               /\ call[c].elapsed \in 0..RequestTimeout
               /\ call[c].count \in 0..MaxSignatures
               /\ Range(call[c].members) \subseteq Addresses
    <3>1. call[c] \in Calls
      OBVIOUS
    <3> QED BY <3>1 DEF Calls, Range
  <2>3. cache = NoSet \/ (cache.set \in Sets /\ cache.age \in 0..KeyCacheTtl)
    BY DEF Entries
  <2> QED
    BY <2>1, <2>2, <2>3
    DEF InForceIsPresent, KeptIsSatisfiable, Satisfiable, CountedIsRead, AttestersOK
<1> QED BY <1>1, Invariance, PTL

\* However fetches overlap, and whichever stores last: a hit is answered with
\* nothing that was revoked longer ago than the time to live and one request
\* together.
THEOREM RevocationsTakeEffect == AttestersSpec => []RevokedIsForgotten
<1>1. IInv => RevokedIsForgotten
  <2> SUFFICES ASSUME IInv, cache # NoSet, cache.age < KeyCacheTtl,
                      NEW x \in Facts(cache.set)
               PROVE  gone[x] < KeyCacheTtl + RequestTimeout
    BY DEF RevokedIsForgotten
  <2>1. cache.age \in Int /\ x \in Addresses \cup Thresholds
    BY DEF IInv, Types, Entries, Facts, Sets
  <2>2. gone[x] \in Int
    BY <2>1, AttestersAssumption DEF IInv, Types, Horizon
  <2>3. gone[x] <= cache.age + RequestTimeout
    BY DEF IInv, CachedIsRecent
  <2> QED BY <2>1, <2>2, <2>3, AttestersAssumption
<1> QED BY <1>1, Invariance, PTL

\* A fetched set may mix several states of the contract, but every part of it
\* was in force at some moment of the fetch.
THEOREM FetchesAreSound == AttestersSpec => FetchedWasInForce
<1>1. ASSUME IInv, [AttestersNext]_attestersVars, NEW c \in Callers, Answered(c, "Fetched"),
             NEW x \in Facts(call'[c].set)
      PROVE  gone[x] <= call[c].elapsed
  <2> USE <1>1 DEF IInv, Types, Answered, Fetching, Reading
  <2>1. Store(c) /\ call'[c].set = Fetched(c)
    <3>1. \A d \in Callers, s \in CallStatuses \ {"Fetched"} : \A set :
            call' # [call EXCEPT ![d] = CallEnded(s, set)]
      BY DEF CallEnded
    <3>2. \A d \in Callers : ~Fail(d)
      BY <3>1 DEF Fail, CallStatuses, Served
    <3>3. call' # call
      OBVIOUS
    <3>4. \A d \in Callers : ~Request(d) /\ ~EthCallFails(d) /\ ~CancelCall(d)
      BY <3>1, <3>2 DEF Request, EthCallFails, CancelCall, CallStatuses, Served
    <3>5. \A d \in Callers : ~ReadThreshold(d) /\ ~ReadCount(d) /\ ~ReadMember(d)
      BY <3>2 DEF ReadThreshold, ReadCount, ReadMember, Calls
    <3>6. ~Tick
      BY DEF Tick, Calls
    <3>7. PICK d \in Callers : Store(d)
      BY <3>3, <3>4, <3>5, <3>6
      DEF AttestersNext, attestersVars, EnableAttester, DisableAttester, SetSignatureThreshold, Change
    <3>8. call' = [call EXCEPT ![d] = CallEnded("Fetched", Fetched(d))]
      BY <3>2, <3>7 DEF Store
    <3> QED BY <3>7, <3>8 DEF CallEnded
  <2>2. /\ \A i \in DOMAIN call[c].members : gone[call[c].members[i]] <= call[c].elapsed
        /\ gone[call[c].threshold] <= call[c].elapsed
    BY <2>1 DEF Store, ReadIsRecent
  <2> QED BY <2>1, <2>2 DEF Fetched, Facts, Range
<1>2. IInv /\ [AttestersNext]_attestersVars =>
        [\A c \in Callers : Answered(c, "Fetched") =>
           \A x \in Facts(call'[c].set) : gone[x] <= call[c].elapsed]_attestersVars
  BY <1>1
<1> QED BY <1>2, Invariance, PTL DEF FetchedWasInForce, AttestersSpec

\* Once a set was served, no call fails for want of one.
THEOREM OutagesAreSurvived == AttestersSpec => OutageIsSurvived
<1>1. ASSUME IInv, [AttestersNext]_attestersVars, NEW c \in Callers, Answered(c, "Unavailable")
      PROVE  \A d \in Callers : call[d].status \notin Served
  <2> USE <1>1 DEF IInv, Types, Answered, Fetching, Reading
  <2>1. PICK d \in Callers : Fail(d)
    <3>1. \A d \in Callers, s \in CallStatuses \ {"Unavailable"} : \A set :
            call' # [call EXCEPT ![d] = CallEnded(s, set)]
      BY DEF CallEnded
    <3>2. \A d \in Callers : ~Request(d) /\ ~CancelCall(d)
      BY <3>1 DEF Request, CancelCall, CallStatuses, Served
    <3>3. \A d \in Callers : Store(d) => Fail(d)
      BY <3>1 DEF Store, CallStatuses, Served
    <3>4. \A d \in Callers : ReadThreshold(d) \/ ReadCount(d) \/ ReadMember(d) => Fail(d)
      BY DEF ReadThreshold, ReadCount, ReadMember, Calls
    <3>5. ~Tick /\ call' # call
      BY DEF Tick, Calls
    <3> QED
      BY <3>2, <3>3, <3>4, <3>5
      DEF AttestersNext, attestersVars, EthCallFails, EnableAttester, DisableAttester,
          SetSignatureThreshold, Change
  <2>2. cache = NoSet
    BY <2>1 DEF Fail, CallEnded
  <2> QED BY <2>2 DEF ServedIsKept
<1>2. IInv /\ [AttestersNext]_attestersVars =>
        [\A c \in Callers : Answered(c, "Unavailable") =>
           \A d \in Callers : call[d].status \notin Served]_attestersVars
  BY <1>1
<1> QED BY <1>2, Invariance, PTL DEF OutageIsSurvived, AttestersSpec
=============================================================================
