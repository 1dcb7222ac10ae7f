SPECIFICATION Spec
CONSTANTS
  skill = skill
  memory = memory
  audit = audit
  status = status
  probe = probe
  ask1 = ask1
  ask2 = ask2
  help1 = help1
  help2 = help2
  clear = clear
  Users = {skill, memory, audit, status, probe}
  OwnerOf <- Owners
  RolesOf <- Pools
  Requests = {ask1, ask2, help1, help2, clear}
  KindOf <- Kinds
  Legacy = {"tasks"}
  Window = 3
  Loads <- AllLoads
INVARIANTS KnownIsClosed AppendsSurvive
