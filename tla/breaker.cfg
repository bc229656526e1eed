CONSTANTS
  Callers = {c1, c2, c3, c4}
  Threshold = 2
  Cooldown = 2
  CallTimeout = 2
  MaxCount = 4
  None = None
SPECIFICATION FairSpec
INVARIANTS TypeOK FieldsAgree HalfOpenIsRested
PROPERTIES ContractOtherwise OpenPeriodEnds CallsReturn HealthyRecovers
