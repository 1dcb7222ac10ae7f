SPECIFICATION Spec
CONSTANTS
  j1 = j1
  j2 = j2
  j3 = j3
  c1 = c1
  c2 = c2
  o1 = o1
  Jobs = {j1, j2, j3}
  Requests <- Wanted
  Campaigns = {c1, c2}
  Roas <- Returns
  Orders = {o1}
  Risky = {o1}
  Ghost = Ghost
  Product = Product
  Platforms = {"Temu", "Amazon"}
  Limit = 1
  Others = {"elsewhere"}
  Redis = TRUE
  Adapter = TRUE
  Fallback = TRUE
  None = None
INVARIANTS WritesAreApproved ToldAsHappened SlotsReturned
PROPERTY AllAnswered
CHECK_DEADLOCK FALSE
