CONSTANTS
  r1 = r1
  r2 = r2
  r3 = r3
  v1 = v1
  v2 = v2
  a1 = a1
  a2 = a2
  a3 = a3
  Requests = {r1, r2}
  Verifiers = {v1}
  VerifierOf <- OneShared
  Keys = {k1}
  Attestations <- TwoSigs
  AttesterSets <- OneSet
  WriteFaults = {}
  None = None
  Callers = {}
  Addresses = {a1, a2, a3}
  Initially <- TwoEnabled
  MaxSignatures = 2
  KeyCacheTtl = 3
  RequestTimeout = 2
  MaxChanges = 0
  NoSet = NoSet
SPECIFICATION AttestationSpec
PROPERTY GrantedOnce
