CONSTANTS
  r1 = r1
  r2 = r2
  r3 = r3
  v1 = v1
  v2 = v2
  a1 = a1
  a2 = a2
  a3 = a3
  Requests = {r1, r2, r3}
  Verifiers = {v1, v2}
  VerifierOf <- TwoShareOne
  Keys = {k1, k2}
  Attestations <- ManySigs
  AttesterSets <- OneSet
  WriteFaults = {v1}
  None = None
  Callers = {c1, c2}
  Addresses = {a1, a2, a3}
  Initially <- TwoEnabled
  MaxSignatures = 2
  KeyCacheTtl = 3
  RequestTimeout = 2
  MaxChanges = 3
  NoSet = NoSet
SPECIFICATION AttestationSpec
SYMMETRY Interchangeable
INVARIANTS TypeOK OkIsDurable GrantedIsKnown AcceptedByQuorum AttestersOK RevokedIsForgotten
PROPERTIES KnownReplayIsStopped FetchedWasInForce OutageIsSurvived
