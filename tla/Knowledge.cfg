SPECIFICATION Spec
CONSTANTS
  ours = ours
  kin = kin
  theirs = theirs
  shirt = shirt
  r1 = r1
  r2 = r2
  Asks = {r1, r2}
  Helps = {r2}
  Stores = {"A", "B", "C", NoScope}
  Label <- Labels
  Priced <- Prices
  Limit = 1
  TopK = 1
  Production = TRUE
  Language = "en"
  Questions = {shirt}
  NoScope = NoScope
  NoLanguage = NoLanguage
  Docs = {ours, kin, theirs}
  StoreOf <- Stored
  LanguageOf <- Tongues
  Words <- Spelling
  Relevant <- Meaning
  Goods = {ours}
  MaxConcurrent = 1
  MaxRuns = 1
INVARIANTS TypeOK OwnDocuments DegradedIsTold
