SPECIFICATION FairSpec
CONSTANTS
  orders = orders
  policy = policy
  reply = reply
  StepIds = {orders, policy, reply}
  Kinds = {"data_query", "biz_exec", "knowledge_rag"}
  ExecKinds = {"biz_exec"}
  Permitted = {"data_query", "biz_exec"}
  Drafts <- AnyDraft
  Failures = {"AGENT_FAILED", "APPROVAL_REQUIRED", "AGENT_TIMEOUT", "AGENT_UNAVAILABLE"}
  Limit = 2
  MaxSteps = 3
  MaxRounds = 2
  MaxCalls = 3
INVARIANTS TypeOK ExecOnce NeverStuck RunsAfterDependencies SkippedForCause SkipsWhenOrdered AnswerTellsPlan
PROPERTIES KeepsPromise Advances Answered
