CONSTANTS
  Callers = {c1, c2, c3, c4}
  Threshold = 2
  Cooldown = 2
  CallTimeout = 2
  MaxCount = 4
  None = None
SPECIFICATION TripsAloneSpec
INVARIANT SingleProbe
