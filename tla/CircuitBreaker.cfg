SPECIFICATION FairSpec
CONSTANTS
  Calls = {c1, c2, c3}
  Threshold = 2
  Reset = 2
  MaxAttempts = 2
  Nobody = Nobody
INVARIANTS TypeOK CountDecides SlotIsHeld
PROPERTIES CoolsDown AdmitsAgain
