----------------------- MODULE AttestationVerifier -----------------------
(***************************************************************************)
(* AttestationVerifier::verify of wow-engine/src/bridge/attestation.rs     *)
(* with its durable nonce store, under concurrent requests, failing        *)
(* writes, cancelled requests and process crashes.                         *)
(*                                                                         *)
(* A verifier owns an in-memory copy of the consumed nonces, loaded from   *)
(* the append-only log when it is opened.  The HTTP endpoint opens one     *)
(* verifier per request (api/mod.rs), a long-lived client would share one: *)
(* VerifierOf says which.  The attester set is resolved by an await; here  *)
(* it is any set the key source may return.  A line is written to the log  *)
(* entirely or not at all, and what was written outlives the process.      *)
(***************************************************************************)
EXTENDS Integers, Sequences, FiniteSets

CONSTANTS Requests,      \* slots for calls of verify, reused by retries
          Verifiers,     \* AttestationVerifier values, with their stores
          VerifierOf,    \* the verifier each request goes through
          Keys,          \* (source domain, nonce) pairs of the messages
          Attestations,  \* sequences of recovered signers, or of the two below
          AttesterSets,  \* values of AttesterSet the key source may return
          WriteFaults,   \* verifiers whose writes or flushes may fail
          None

\* AttesterSet::new refuses a zero threshold and an unreachable one.
ValidAttesterSet(set) == set.threshold \in 1..Cardinality(set.attesters)

ASSUME VerifierAssumption ==
  /\ VerifierOf \in [Requests -> Verifiers]
  /\ \A set \in AttesterSets : IsFiniteSet(set.attesters) /\ ValidAttesterSet(set)
  /\ Attestations \subseteq Seq(Int)
  /\ WriteFaults \subseteq Verifiers
  /\ None \notin Keys

VARIABLES log,       \* nonces that opening the log file would load
          open,      \* verifiers that exist in the running process
          mem,       \* per verifier, FileNonceState.consumed
          pending,   \* per verifier, lines left in its BufWriter
          req,       \* per request, where its call of verify stands
          accepted,  \* history: nonces some request was told Ok for
          known,     \* history: per verifier, the nonces accepted before it
                     \* was opened and those accepted through it
          failed     \* history: nonces some request was told
                     \* NonceStoreUnavailable for

vars == <<log, open, mem, pending, req, accepted, known, failed>>

\* What precheck can find wrong with the bytes before it asks for the nonce.
Malformed == {"MalformedAttestation", "MalformedMessage",
              "UnsupportedVersion", "DomainMismatch"}
Errors == Malformed \cup
  {"ReplayedNonce", "KeySourceUnavailable", "InvalidSignature",
   "MalleableSignature", "UnknownAttester", "NonIncreasingSigners", "ThresholdNotMet",
   "NonceStoreUnavailable"}

\* "Keys": awaiting the attester set; "Check": it has arrived.
Statuses == {"Idle", "Keys", "Check", "Ok", "Lost"} \cup Errors

Calls ==
  [status : Statuses, key : Keys \cup {None},
   sigs : Attestations \cup {None}, set : AttesterSets \cup {None}]

Call(st, k, s, set) == [status |-> st, key |-> k, sigs |-> s, set |-> set]
Ended(res)          == Call(res, None, None, None)

InFlight(r) == req[r].status \in {"Keys", "Check"}

TypeOK ==
  /\ log \subseteq Keys /\ accepted \subseteq Keys /\ failed \subseteq Keys
  /\ open \subseteq Verifiers
  /\ mem \in [Verifiers -> SUBSET Keys]
  /\ pending \in [Verifiers -> SUBSET Keys]
  /\ known \in [Verifiers -> SUBSET Keys]
  /\ req \in [Requests -> Calls]
  /\ \A r \in Requests : InFlight(r) => req[r].key \in Keys
  /\ \A r \in Requests : req[r].status = "Check" => req[r].set \in AttesterSets

Init ==
  /\ log = {} /\ accepted = {} /\ failed = {} /\ open = {}
  /\ mem = [v \in Verifiers |-> {}]
  /\ pending = [v \in Verifiers |-> {}]
  /\ known = [v \in Verifiers |-> {}]
  /\ req = [r \in Requests |-> Ended("Idle")]

-----------------------------------------------------------------------------
(* Signatures.  A signer is an address, ordered as an integer; two numbers *)
(* that are no address stand for what recover_signer refuses.              *)
Unrecoverable == 0
Malleable     == -1   \* the high-s twin of a signature

\* A signature that recover_signer returns no signer for.
Refused(sig) == sig \in {Unrecoverable, Malleable}

\* Mutant: equal neighbours pass the ordering test.
BadPositionsLax(sigs, set) ==
  {i \in DOMAIN sigs :
     \/ Refused(sigs[i])
     \/ sigs[i] \notin set.attesters
     \/ i > 1 /\ sigs[i] < sigs[i - 1]}

\* Positions at which the loop of verify_signatures returns an error.
BadPositions(sigs, set) ==
  {i \in DOMAIN sigs :
     \/ Refused(sigs[i])
     \/ sigs[i] \notin set.attesters
     \/ i > 1 /\ sigs[i] <= sigs[i - 1]}

VerifySignatures(sigs, set) ==
  LET bad   == BadPositions(sigs, set)
      first == CHOOSE i \in bad : \A j \in bad : i <= j
  IN IF bad = {}
     THEN IF Len(sigs) < set.threshold THEN "ThresholdNotMet" ELSE "Ok"
     ELSE IF sigs[first] = Malleable THEN "MalleableSignature"
     ELSE IF sigs[first] = Unrecoverable THEN "InvalidSignature"
     ELSE IF sigs[first] \notin set.attesters THEN "UnknownAttester"
     ELSE "NonIncreasingSigners"

-----------------------------------------------------------------------------
\* Mutant: a store that starts empty, as InMemoryNonceStore does.
OpenEmpty(v) ==
  /\ v \notin open
  /\ open' = open \cup {v}
  /\ mem' = [mem EXCEPT ![v] = {}]
  /\ known' = [known EXCEPT ![v] = accepted]
  /\ UNCHANGED <<log, pending, req, accepted, failed>>

(* The life of a verifier: CctpClient::new, FileNonceStore::open and the   *)
(* drop of both.  Dropping the BufWriter tries to flush what it holds.     *)
Open(v) ==
  /\ v \notin open
  /\ open' = open \cup {v}
  /\ mem' = [mem EXCEPT ![v] = log]
  /\ known' = [known EXCEPT ![v] = accepted]
  /\ UNCHANGED <<log, pending, req, accepted, failed>>

Close(v) ==
  /\ v \in open
  /\ \A r \in Requests : VerifierOf[r] = v => ~InFlight(r)
  /\ open' = open \ {v}
  /\ log' \in {log \cup pending[v]} \cup (IF v \in WriteFaults THEN {log} ELSE {})
  /\ mem' = [mem EXCEPT ![v] = {}]
  /\ pending' = [pending EXCEPT ![v] = {}]
  /\ known' = [known EXCEPT ![v] = {}]
  /\ UNCHANGED <<req, accepted, failed>>

\* Mutant: the replay check is left to mark_consumed.
PrecheckNoReplay(r, k, s) ==
  /\ ~InFlight(r) /\ VerifierOf[r] \in open
  /\ req' = [req EXCEPT ![r] = Call("Keys", k, s, None)]
  /\ UNCHANGED <<log, open, mem, pending, accepted, known, failed>>

\* verify, up to its await: the structural checks and the replay check.
Precheck(r, k, s) ==
  LET v == VerifierOf[r] IN
  /\ ~InFlight(r) /\ v \in open
  /\ req' = [req EXCEPT ![r] = IF k \in mem[v] THEN Ended("ReplayedNonce")
                               ELSE Call("Keys", k, s, None)]
  /\ UNCHANGED <<log, open, mem, pending, accepted, known, failed>>

RejectInput(r) ==
  /\ ~InFlight(r) /\ VerifierOf[r] \in open
  /\ \E e \in Malformed : req' = [req EXCEPT ![r] = Ended(e)]
  /\ UNCHANGED <<log, open, mem, pending, accepted, known, failed>>

\* Mutant: an unreachable source yields an absent set instead of an error.
ResolveKeysDefault(r) ==
  /\ req[r].status = "Keys"
  /\ \E set \in AttesterSets \cup {None} :
       req' = [req EXCEPT ![r] = Call("Check", @.key, @.sigs, set)]
  /\ UNCHANGED <<log, open, mem, pending, accepted, known, failed>>

\* current_attesters().await returns a cached or a fetched set, or fails.
ResolveKeys(r) ==
  /\ req[r].status = "Keys"
  /\ \/ \E set \in AttesterSets :
          req' = [req EXCEPT ![r] = Call("Check", @.key, @.sigs, set)]
     \/ req' = [req EXCEPT ![r] = Ended("KeySourceUnavailable")]
  /\ UNCHANGED <<log, open, mem, pending, accepted, known, failed>>

\* The request's future is dropped at the await (TimeoutLayer, client gone).
Cancel(r) ==
  /\ req[r].status = "Keys"
  /\ req' = [req EXCEPT ![r] = Ended("Lost")]
  /\ UNCHANGED <<log, open, mem, pending, accepted, known, failed>>

Checked(r) == VerifySignatures(req[r].sigs, req[r].set)

RejectSignatures(r) ==
  /\ req[r].status = "Check"
  /\ Checked(r) # "Ok"
  /\ req' = [req EXCEPT ![r] = Ended(Checked(r))]
  /\ UNCHANGED <<log, open, mem, pending, accepted, known, failed>>

Grant(r) ==
  /\ req' = [req EXCEPT ![r].status = "Ok"]
  /\ accepted' = accepted \cup {req[r].key}
  /\ known' = [known EXCEPT ![VerifierOf[r]] = @ \cup {req[r].key}]

\* Mutant: the line is written but not flushed.
ConsumeUnflushed(r) ==
  LET v == VerifierOf[r] IN
  /\ req[r].status = "Check" /\ Checked(r) = "Ok"
  /\ req[r].key \notin mem[v]
  /\ mem' = [mem EXCEPT ![v] = @ \cup {req[r].key}]
  /\ pending' = [pending EXCEPT ![v] = @ \cup {req[r].key}]
  /\ Grant(r)
  /\ UNCHANGED <<log, open, failed>>

\* mark_consumed of a nonce new to this store: insert, write, flush.
Consume(r) ==
  LET v == VerifierOf[r] IN
  /\ req[r].status = "Check" /\ Checked(r) = "Ok"
  /\ req[r].key \notin mem[v]
  /\ mem' = [mem EXCEPT ![v] = @ \cup {req[r].key}]
  /\ log' = log \cup pending[v] \cup {req[r].key}
  /\ pending' = [pending EXCEPT ![v] = {}]
  /\ Grant(r)
  /\ UNCHANGED <<open, failed>>

\* mark_consumed when the store has inserted the nonce meanwhile: Ok(()).
ConsumeAgain(r) ==
  /\ req[r].status = "Check" /\ Checked(r) = "Ok"
  /\ req[r].key \in mem[VerifierOf[r]]
  /\ Grant(r)
  /\ UNCHANGED <<log, open, mem, pending, failed>>

\* mark_consumed returns the error of writeln! or flush, after the insert.
ConsumeFails(r) ==
  LET v == VerifierOf[r] IN
  /\ v \in WriteFaults
  /\ req[r].status = "Check" /\ Checked(r) = "Ok"
  /\ req[r].key \notin mem[v]
  /\ mem' = [mem EXCEPT ![v] = @ \cup {req[r].key}]
  /\ pending' = [pending EXCEPT ![v] = @ \cup {req[r].key}]
  /\ req' = [req EXCEPT ![r] = Ended("NonceStoreUnavailable")]
  /\ failed' = failed \cup {req[r].key}
  /\ UNCHANGED <<log, open, accepted, known>>

\* The process dies and restarts: only the log is left.
Crash ==
  /\ open # {}
  /\ open' = {}
  /\ mem' = [v \in Verifiers |-> {}]
  /\ pending' = [v \in Verifiers |-> {}]
  /\ known' = [v \in Verifiers |-> {}]
  /\ req' = [r \in Requests |-> IF InFlight(r) THEN Ended("Lost") ELSE req[r]]
  /\ UNCHANGED <<log, accepted, failed>>

Next ==
  \/ Crash
  \/ \E v \in Verifiers : Open(v) \/ Close(v)
  \/ \E r \in Requests :
       \/ \E k \in Keys, s \in Attestations : Precheck(r, k, s)
       \/ RejectInput(r) \/ ResolveKeys(r) \/ Cancel(r)
       \/ RejectSignatures(r) \/ Consume(r) \/ ConsumeAgain(r) \/ ConsumeFails(r)

Spec == Init /\ [][Next]_vars

-----------------------------------------------------------------------------
\* attestation.rs:500, the nonce is persisted before success is reported, "if
\* the store fails we fail closed", as far as it goes: a granted nonce that the
\* log does not hold, after whatever crashes and restarts, is one for which some
\* request was told that the store failed.  There are such nonces.  The failed
\* write leaves its nonce in memory, and a concurrent request of the same
\* verifier that finds it there is told Ok, against those words.
OkIsDurable == accepted \subseteq log \cup failed

\* A verifier remembers every nonce granted before it was opened, whatever
\* process granted it, and every nonce granted through it since, but for those
\* the store failed for.
GrantedIsKnown == \A v \in open : known[v] \subseteq mem[v] \cup failed

\* No request passes precheck with a nonce that was granted before its verifier
\* was opened, by whatever process, or through its verifier since, unless the
\* store failed for it.  At the endpoint, where a request opens a verifier for
\* itself, the former are all nonces granted before the request came.  What
\* another verifier grants while this one is open, this one does not learn.
KnownReplayIsStopped ==
  [][\A r \in Requests :
       req[r].status # "Keys" /\ req'[r].status = "Keys"
         => req'[r].key \notin known[VerifierOf[r]] \ failed]_vars

\* Success means that a quorum of the resolved attester set signed, each
\* member counted once.
AcceptedByQuorum ==
  \A r \in Requests : req[r].status = "Ok" =>
    \E quorum \in SUBSET req[r].set.attesters :
      /\ Cardinality(quorum) >= req[r].set.threshold
      /\ \A a \in quorum : \E i \in DOMAIN req[r].sigs : req[r].sigs[i] = a

\* attestation.rs:353: nonces are recorded so that a burn message can only be
\* minted once: no request is granted a nonce that was granted before.
GrantedOnce ==
  [][\A r \in Requests :
       req[r].status = "Check" /\ req'[r].status = "Ok"
         => req[r].key \notin accepted]_vars
=============================================================================
