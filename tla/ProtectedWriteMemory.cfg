SPECIFICATION FairSpec
CONSTANTS
  ann = ann
  bob = bob
  eve = eve
  riskWrite = riskWrite
  priceWrite = priceWrite
  Users = {ann, bob, eve}
  Admins = {}
  Approvers = {ann, bob, eve}
  ScopeOf <- MCScopeOf
  MayRun <- MCMayRun
  Ops = {priceWrite, riskWrite}
  GuardedOps = {riskWrite}
  MootOps = {riskWrite}
  Tasks = {t1, t2}
  Calls = {c1, c2}
  Handlers = {h1, h2}
  Approvals = {i1}
  None = None
  Ttl = 1
  MaxTime = 1
  Durable = FALSE
CHECK_DEADLOCK FALSE
INVARIANTS OneWritePerKey SuccessIsReal WriteIsApproved
PROPERTIES EveryCallEnds ApprovalNeverReopens
