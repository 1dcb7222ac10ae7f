SPECIFICATION Spec
CONSTANTS
  ann = ann
  bob = bob
  eve = eve
  riskWrite = riskWrite
  priceWrite = priceWrite
  Users = {ann, bob}
  Admins = {bob}
  Approvers = {ann, bob}
  ScopeOf <- MCScopeOf
  MayRun <- MCMayRun
  Ops = {riskWrite}
  GuardedOps = {riskWrite}
  MootOps = {}
  Tasks = {t1, t2}
  Calls = {c1, c2}
  Handlers = {h1}
  Approvals = {i1}
  None = None
  Ttl = 1
  MaxTime = 1
  Durable = TRUE
CHECK_DEADLOCK FALSE
INVARIANT UsedMeansExecuted
