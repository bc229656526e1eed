---------------------------- MODULE Attesters ----------------------------
(***************************************************************************)
(* AttestationVerifier::current_attesters and RpcKeySource::fetch of       *)
(* wow-engine/src/bridge/attestation.rs: a cache of the attester set with  *)
(* a time to live, filled by separate eth_calls while the contract's       *)
(* owner rotates attesters and threshold.                                  *)
(*                                                                         *)
(* Callers share one verifier.  The lock of the cache is released during a *)
(* fetch, so fetches overlap and store in the order in which they end.     *)
(* Time is counted in ticks; the HTTP layer drops a call at RequestTimeout.*)
(***************************************************************************)
EXTENDS Integers, Sequences, FiniteSets, Functions

CONSTANTS Callers,        \* slots for calls of current_attesters
          Addresses,      \* attester addresses
          Initially,      \* attesters enabled at first, a sequence
          MaxSignatures,  \* MAX_SIGNATURES
          KeyCacheTtl,    \* DEFAULT_KEY_CACHE_TTL, in ticks
          RequestTimeout, \* limit of the TimeoutLayer, in ticks
          MaxChanges,     \* bound: changes made to the contract
          NoSet

Thresholds == 1..Cardinality(Addresses)

Sets == [attesters : SUBSET Addresses, threshold : Thresholds]

ASSUME AttestersAssumption ==
  /\ IsFiniteSet(Addresses) /\ Addresses # {}
  /\ Initially \in Seq(Addresses) /\ Initially # <<>>
  /\ KeyCacheTtl \in Nat \ {0} /\ RequestTimeout \in Nat
  /\ MaxSignatures \in Nat /\ MaxChanges \in Nat
  /\ NoSet \notin Addresses
  /\ NoSet \notin [set : Sets, age : 0..KeyCacheTtl]

VARIABLES enabled,    \* the contract's enabled attesters, in its order
          threshold,  \* the contract's signatureThreshold
          changes,    \* bound: changes made so far
          cache,      \* AttestationVerifier.cache, with its age
          call,       \* per caller, where its call stands
          gone        \* history: ticks since an attester was last enabled,
                      \* or a threshold last in force

contract == <<enabled, threshold, changes>>
attestersVars     == <<enabled, threshold, changes, cache, call, gone>>

\* Beyond this many ticks it no longer matters how old a fact is.
Horizon == KeyCacheTtl + RequestTimeout

Reading == {"Threshold", "Count", "Members"}
Served  == {"Cached", "Fetched", "Fallback"}
CallStatuses == Reading \cup Served \cup {"Idle", "Unavailable", "Lost"}

CallEnded(status, set) ==
  [status |-> status, elapsed |-> 0, threshold |-> 0, count |-> 0,
   members |-> <<>>, set |-> set]

Fetching(c) == call[c].status \in Reading

InForce == Range(enabled) \cup {threshold}

AttestersOK ==
  /\ Range(enabled) \subseteq Addresses
  /\ threshold \in 1..Len(enabled)
  /\ changes \in 0..MaxChanges
  /\ cache = NoSet \/ (cache.set \in Sets /\ cache.age \in 0..KeyCacheTtl)
  /\ gone \in [Addresses \cup Thresholds -> 0..Horizon + 1]
  /\ \A x \in InForce : gone[x] = 0
  /\ \A c \in Callers :
       /\ call[c].status \in CallStatuses
       /\ call[c].elapsed \in 0..RequestTimeout
       /\ call[c].count \in 0..MaxSignatures
       /\ Range(call[c].members) \subseteq Addresses
       /\ Len(call[c].members) <= call[c].count
       /\ call[c].status \in Served =>
            /\ call[c].set \in Sets
            /\ call[c].set.threshold <= Cardinality(call[c].set.attesters)

AttestersInit ==
  /\ enabled = Initially /\ threshold = 1 /\ changes = 0
  /\ cache = NoSet
  /\ call = [c \in Callers |-> CallEnded("Idle", NoSet)]
  /\ gone = [x \in Addresses \cup Thresholds |->
               IF x \in InForce THEN 0 ELSE Horizon + 1]

-----------------------------------------------------------------------------
(* The MessageTransmitter contract: an enumerable set, from which an       *)
(* element is removed by moving the last one into its place.               *)
Change ==
  /\ changes < MaxChanges
  /\ changes' = changes + 1
  /\ gone' = [x \in DOMAIN gone |->
                IF x \in InForce \cup InForce' THEN 0 ELSE gone[x]]
  /\ UNCHANGED <<cache, call>>

EnableAttester(a) ==
  /\ a \notin Range(enabled)
  /\ enabled' = Append(enabled, a)
  /\ UNCHANGED threshold
  /\ Change

DisableAttester(i) ==
  /\ Len(enabled) > threshold
  /\ enabled' = SubSeq([enabled EXCEPT ![i] = enabled[Len(enabled)]],
                       1, Len(enabled) - 1)
  /\ UNCHANGED threshold
  /\ Change

SetSignatureThreshold(t) ==
  /\ t \in 1..Len(enabled) \ {threshold}
  /\ threshold' = t
  /\ UNCHANGED enabled
  /\ Change

-----------------------------------------------------------------------------
\* Mutant: a hit renews the entry.
RequestRenews(c) ==
  LET fresh == cache # NoSet /\ cache.age < KeyCacheTtl IN
  /\ ~Fetching(c)
  /\ call' = [call EXCEPT ![c] =
       IF fresh THEN CallEnded("Cached", cache.set) ELSE CallEnded("Threshold", NoSet)]
  /\ cache' = IF fresh THEN [cache EXCEPT !.age = 0] ELSE cache
  /\ UNCHANGED <<contract, gone>>

\* current_attesters: a fresh set is returned, anything else is fetched.
Request(c) ==
  /\ ~Fetching(c)
  /\ call' = [call EXCEPT ![c] =
       IF cache # NoSet /\ cache.age < KeyCacheTtl
       THEN CallEnded("Cached", cache.set)
       ELSE CallEnded("Threshold", NoSet)]
  /\ UNCHANGED <<contract, cache, gone>>

\* Mutant: an error drops the cached set, to force a new fetch.
FailForgets(c) ==
  /\ call' = [call EXCEPT ![c] = IF cache = NoSet THEN CallEnded("Unavailable", NoSet)
                                 ELSE CallEnded("Fallback", cache.set)]
  /\ cache' = NoSet

\* The Err branch: the cached set is returned, whatever its age.
Fail(c) ==
  /\ call' = [call EXCEPT ![c] = IF cache = NoSet THEN CallEnded("Unavailable", NoSet)
                                 ELSE CallEnded("Fallback", cache.set)]
  /\ UNCHANGED cache

ReadThreshold(c) ==
  /\ call[c].status = "Threshold"
  /\ call' = [call EXCEPT ![c].status = "Count", ![c].threshold = threshold]
  /\ UNCHANGED <<contract, cache, gone>>

ReadCount(c) ==
  /\ call[c].status = "Count"
  /\ IF Len(enabled) > MaxSignatures
     THEN Fail(c)
     ELSE /\ call' = [call EXCEPT ![c].status = "Members",
                                  ![c].count = Len(enabled)]
          /\ UNCHANGED cache
  /\ UNCHANGED <<contract, gone>>

\* getEnabledAttester reverts beyond the end of the set as it is now.
ReadMember(c) ==
  LET i == Len(call[c].members) + 1 IN
  /\ call[c].status = "Members" /\ i <= call[c].count
  /\ IF i > Len(enabled)
     THEN Fail(c)
     ELSE /\ call' = [call EXCEPT ![c].members = Append(@, enabled[i])]
          /\ UNCHANGED cache
  /\ UNCHANGED <<contract, gone>>

\* An eth_call fails, or its answer is not a word of the expected kind.
EthCallFails(c) ==
  /\ Fetching(c)
  /\ Fail(c)
  /\ UNCHANGED <<contract, gone>>

\* Mutant: the refreshed entry joins the set it replaces.
FetchedMerges(c) ==
  [attesters |-> Range(call[c].members) \cup
                 (IF cache = NoSet THEN {} ELSE cache.set.attesters),
   threshold |-> call[c].threshold]

Fetched(c) ==
  [attesters |-> Range(call[c].members), threshold |-> call[c].threshold]

\* Mutant: the set is stored as it was read, without AttesterSet::new.
StoreUnchecked(c) ==
  /\ call[c].status = "Members" /\ Len(call[c].members) = call[c].count
  /\ cache' = [set |-> Fetched(c), age |-> 0]
  /\ call' = [call EXCEPT ![c] = CallEnded("Fetched", Fetched(c))]
  /\ UNCHANGED <<contract, gone>>

\* AttesterSet::new, which refuses a threshold the set cannot satisfy, and
\* the Ok branch: the set replaces whatever is cached and counts as new.
Store(c) ==
  LET set == Fetched(c) IN
  /\ call[c].status = "Members" /\ Len(call[c].members) = call[c].count
  /\ IF set.threshold \in 1..Cardinality(set.attesters)
     THEN /\ cache' = [set |-> set, age |-> 0]
          /\ call' = [call EXCEPT ![c] = CallEnded("Fetched", set)]
     ELSE Fail(c)
  /\ UNCHANGED <<contract, gone>>

\* The call's future is dropped: the request timed out or its client left.
CancelCall(c) ==
  /\ Fetching(c)
  /\ call' = [call EXCEPT ![c] = CallEnded("Lost", NoSet)]
  /\ UNCHANGED <<contract, cache, gone>>

Tick ==
  /\ \A c \in Callers : Fetching(c) => call[c].elapsed < RequestTimeout
  /\ call' = [c \in Callers |->
       IF Fetching(c) THEN [call[c] EXCEPT !.elapsed = @ + 1] ELSE call[c]]
  /\ cache' = IF cache # NoSet /\ cache.age < KeyCacheTtl
              THEN [cache EXCEPT !.age = @ + 1] ELSE cache
  /\ gone' = [x \in DOMAIN gone |->
       IF x \in InForce \/ gone[x] > Horizon THEN gone[x] ELSE gone[x] + 1]
  /\ UNCHANGED contract

AttestersNext ==
  \/ Tick
  \/ \E a \in Addresses : EnableAttester(a)
  \/ \E i \in DOMAIN enabled : DisableAttester(i)
  \/ \E t \in Thresholds : SetSignatureThreshold(t)
  \/ \E c \in Callers :
       \/ Request(c) \/ ReadThreshold(c) \/ ReadCount(c) \/ ReadMember(c)
       \/ EthCallFails(c) \/ Store(c) \/ CancelCall(c)

AttestersSpec == AttestersInit /\ [][AttestersNext]_attestersVars

-----------------------------------------------------------------------------
Answered(c, how) == Fetching(c) /\ call'[c].status = how

Facts(set) == set.attesters \cup {set.threshold}

\* attestation.rs:302: a fetched set may mix several states of the contract,
\* but each member was enabled, and the threshold in force, at some moment of
\* the fetch.
FetchedWasInForce ==
  [][\A c \in Callers : Answered(c, "Fetched") =>
       \A x \in Facts(call'[c].set) : gone[x] <= call[c].elapsed]_attestersVars

\* attestation.rs:44: "how long a fetched attester set is trusted".  However
\* fetches overlap, and whichever stores last, the set that a hit is answered
\* with holds nothing that was revoked longer ago than the time to live and
\* the longest fetch together.
RevokedIsForgotten ==
  cache # NoSet /\ cache.age < KeyCacheTtl =>
    \A x \in Facts(cache.set) : gone[x] < KeyCacheTtl + RequestTimeout

\* attestation.rs:513: verification "degrades gracefully during RPC outages":
\* once a set was served, no call fails for want of one.
OutageIsSurvived ==
  [][\A c \in Callers : Answered(c, "Unavailable") =>
       \A d \in Callers : call[d].status \notin Served]_attestersVars

=============================================================================
