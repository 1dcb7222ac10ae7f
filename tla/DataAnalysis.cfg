SPECIFICATION Spec
CONSTANTS
  a1 = a1
  Jobs = {a1}
  Requests <- Asked
  Statements <- Wanted
  Template <- Fast
  NoStatement <- Nothing
  Tables = {"order", "goods", "audit"}
  Columns = {"total", "sku"}
  Glossary <- Static
  Keys <- ForeignKeys
  KeyColumns <- Joined
  Masked <- Veiled
  Denied <- Secret
  Order = "order"
  Goods = "goods"
  Metric = "total"
  Sku = "sku"
  Category = "sku"
  LLM = TRUE
  MaxRepairs = 1
  MaxSteps = 2
  MaxConcurrent = 2
  MaxMigrations = 1
INVARIANTS ReadsAreGranted AnswersAgree
CHECK_DEADLOCK FALSE
