SPECIFICATION Spec
CONSTANTS
  orders = orders
  policy = policy
  reply = reply
  StepIds = {orders, policy, reply}
  Kinds = {"data_query", "biz_exec", "knowledge_rag"}
  ExecKinds = {"biz_exec"}
  Permitted = {"data_query", "biz_exec", "knowledge_rag"}
  Drafts <- AnyGraph
  Failures = {"AGENT_FAILED", "APPROVAL_REQUIRED"}
  Limit = 2
  MaxSteps = 3
  MaxRounds = 2
  MaxCalls = 3
INVARIANT SkipsDownstream
