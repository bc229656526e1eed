--------------------------- MODULE MCAttestation ---------------------------
(* Instances of bridge/attestation.rs for TLC.  What the verifier takes from *)
(* the cache of attester sets is any set that the source may return, so a   *)
(* behaviour of AttestationSpec is about one of the two, and the other one   *)
(* rests.                                                                    *)
EXTENDS AttestationVerifier, Attesters, TLC

CONSTANTS r1, r2, r3, v1, v2, a1, a2, a3

VARIABLE about \* "verifier" or "cache"

AttestationInit == Init /\ AttestersInit /\ about \in {"verifier", "cache"}

AttestationNext ==
  \/ about = "verifier" /\ Next /\ UNCHANGED <<attestersVars, about>>
  \/ about = "cache" /\ AttestersNext /\ UNCHANGED <<vars, about>>

AttestationSpec == AttestationInit /\ [][AttestationNext]_<<vars, attestersVars, about>>

-----------------------------------------------------------------------------
(* Verifiers: one that two requests share, alone or beside one that serves a  *)
(* single request, as at the HTTP endpoint.                                  *)
OneShared    == (r1 :> v1) @@ (r2 :> v1)
TwoShareOne  == (r1 :> v1) @@ (r2 :> v1) @@ (r3 :> v2)

\* One registry and the shortest interesting attestations.
OneSet       == {[attesters |-> {1, 2}, threshold |-> 2]}
TwoSigs      == {<<1, 2>>, <<1>>}

\* A quorum, a member twice, and a stranger beside a signature in high-s form.
ManySigs     == {<<1, 2>>, <<1, 1>>, <<3, -1>>}

\* The contract: two attesters enabled, a third one that may join and then
\* exceeds MAX_SIGNATURES.
TwoEnabled == <<a1, a2>>

Interchangeable ==
  Permutations({r1, r2}) \cup Permutations(Keys) \cup Permutations(Callers)
=============================================================================
