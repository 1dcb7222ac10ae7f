SPECIFICATION Spec
CONSTANTS
  Calls = {c1, c2, c3}
  Threshold = 1
  Reset = 1
  MaxAttempts = 1
  Nobody = Nobody
INVARIANT SingleProbe
