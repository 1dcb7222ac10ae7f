---------------------------- MODULE WorkflowCalls ----------------------------
(***************************************************************************)
(* The business workflows of the Query and Exec agents (workflows/), the   *)
(* parsers before them (modules/parsers/) and the skills they call         *)
(* (modules/skills/), as operators on a job b: which calls its request     *)
(* leads to and in which order, what each of them tells it, what is        *)
(* refused, which failures are swallowed, and what the reply says.         *)
(*                                                                         *)
(* A job has b.req, the request; b.at, the position of its call in the     *)
(* pipeline of its task type; b.target, the campaign, order or product it  *)
(* is about as far as it knows; b.calm, that what it knows gives no cause  *)
(* to act; b.failed, the calls that failed; b.acted, what it has written.  *)
(***************************************************************************)
EXTENDS Naturals, Sequences, FiniteSets

CONSTANTS
  Jobs,       \* messages to the agents
  Requests,   \* what the jobs may ask for: a set of assignments to the jobs
  Campaigns,  \* the campaigns of the provider
  Roas,       \* Roas[c]: the return on the spend of campaign c
  Orders,     \* the orders of the provider
  Risky,      \* those over 500 in amount or 20 in count
  Ghost,      \* a campaign or order the provider does not know
  Product,    \* a product of the shop
  Platforms,  \* what a multi-platform comparison asks
  Limit,      \* SOCIAL_MAX_CONCURRENT
  Others,     \* generations running in other processes
  Redis,      \* SOCIAL_RATE_LIMIT_MODE is redis
  Adapter,    \* COMPETITOR_PRICE_MODE is http
  Fallback,   \* COMPETITOR_HTTP_FALLBACK_DEMO
  None        \* no campaign, no order, no product, no approval

ASSUME WorkflowsAssumption ==
  /\ Roas \in [Campaigns -> Nat]
  /\ Risky \subseteq Orders
  /\ Ghost \notin Campaigns \cup Orders
  /\ Limit \in Nat \ {0}
  /\ Redis \in BOOLEAN /\ Adapter \in BOOLEAN /\ Fallback \in BOOLEAN
  /\ Jobs \cap Others = {}
  /\ None \notin Jobs \cup Campaigns

-----------------------------------------------------------------------------
(* Pipelines.  A skill that makes several calls appears as those calls.    *)

When(condition, call) == IF condition THEN {call} ELSE {}
Has(b, flag) == flag \in b.req.flags
Failed(b, part) == part \in b.failed
Miss(b, part) == [b EXCEPT !.failed = @ \cup {part}]

Advertising == <<"list_campaigns", "parse", "recall", "ad_optimize", "write",
                 "profit_calc", "save">>
RiskControl == <<"get_order", "parse", "evaluate", "write">>
Social == <<"parse", "scard", "sadd", "expire", "gather", "srem">>
Customer == <<"parse", "append_user", "history", "write", "retrieve",
              "crm_reply", "append_answer">>
Report == <<"parse", "sales", "stock", "risk", "competitor", "summary">>
Search == <<"parse_goods", "count", "list", "literal", "semantic", "found">>
Stock == Search \o <<"parse", "low_stock", "stock_predict", "explain">>
Competitor == Search \o <<"parse", "compare", "adapter", "price_history",
                          "recall_alerts", "price_monitor", "explain">>
DataCheck == <<"parse", "goods_rows", "order_rows", "sql", "explain">>
Read == <<"parse", "read">>

\* execute_query and execute_exec: the workflow of a task type.
QueryPipelines ==
  [goods_search |-> Search, goods_catalog |-> Search, stock_analysis |-> Stock,
   competitor_watch |-> Competitor, data_check |-> DataCheck,
   order_query |-> Read, ad_query |-> Read]
ExecPipelines ==
  [ad_optimize |-> Advertising, risk_control |-> RiskControl,
   social_marketing |-> Social, customer_service |-> Customer, ops_report |-> Report]

OfExec(b) == b.req.type \in DOMAIN ExecPipelines
Pipeline(b) == IF OfExec(b) THEN ExecPipelines[b.req.type] ELSE QueryPipelines[b.req.type]
End(b) == Len(Pipeline(b)) + 1
Call(b) == Pipeline(b)[b.at]

-----------------------------------------------------------------------------
(* The calls of a job.                                                     *)

\* A campaign is looked up only when the request gives nothing to go by.  The
\* pause is asked for by the user, not by the advice; the advice is remembered
\* unless it is to hold.
AdCalls(b) ==
  {"parse", "ad_optimize"}
  \cup When(b.req.target = None /\ ~Has(b, "sku") /\ ~Has(b, "metrics"),
            "list_campaigns")
  \cup When(Has(b, "sku"), "recall")
  \cup When(Has(b, "pause") /\ b.target # None, "write")
  \cup When(Has(b, "profit"), "profit_calc")
  \cup When(Has(b, "sku") /\ ~b.calm, "save")

RiskCalls(b) ==
  {"parse", "evaluate"}
  \cup When(b.target # None /\ ~Has(b, "amounts"), "get_order")
  \cup When(~b.calm, "write")

\* Fault: the token of a generation is not given back.
SocialCallsKeeping(b) ==
  {"parse", "gather"}
  \cup (IF Redis /\ ~Failed(b, "slot") THEN {"scard", "sadd", "expire"} ELSE {})

\* acquire_slot: the counter of running generations, unless Redis fails or has
\* no room until the deadline; then the semaphore of the process, which one
\* Exec agent never finds taken.
SocialCalls(b) ==
  {"parse", "gather"}
  \cup (IF Redis /\ ~Failed(b, "slot")
          THEN {"scard", "sadd", "expire", "srem"} ELSE {})

\* Knowledge that came with the plan is not retrieved again.
CustomerCalls(b) ==
  {"parse", "crm_reply"}
  \cup (IF Failed(b, "memory") THEN {}
          ELSE {"append_user", "history", "append_answer"})
  \cup When(Has(b, "taobao"), "write")
  \cup When(Has(b, "rag") /\ ~Has(b, "upstream"), "retrieve")

\* The sections of a report type, each read by itself.
Sections ==
  [daily_ops |-> {"sales", "stock", "risk", "competitor"}, sales |-> {"sales"},
   stock |-> {"stock"}, risk |-> {"risk"},
   full |-> {"sales", "stock", "risk", "competitor"}]
ReportCalls(b) ==
  {"parse", "summary"}
  \cup UNION {Sections[type] : type \in b.req.flags \cap DOMAIN Sections}

\* A goods request is a search unless its type, a parameter or its words ask for
\* the catalog.
Catalog(b) == b.req.type = "goods_catalog" \/ Has(b, "list_all")

\* A search is made whatever the request names: goods_sku_search looks by the
\* letter, and by meaning when that found nothing.
GoodsCalls(b) ==
  {"parse_goods"}
  \cup (IF Catalog(b) THEN {"count", "list"}
          ELSE {"literal", "found"} \cup When(b.target = None, "semantic"))

\* _ensure_sku: a request that comes without a product goes through the goods
\* workflow first, and on with what it found.
EnsureSku(b) == IF b.req.target = None THEN GoodsCalls(b) \cup {"found"} ELSE {}

\* An overview of low stock asks for no product.
StockCalls(b) ==
  {"parse"} \cup (IF Has(b, "overview") THEN {} ELSE EnsureSku(b))
  \cup (IF b.target = None THEN {"low_stock"} ELSE {"stock_predict", "explain"})

\* Without a competitor in the request all platforms are compared.
CompetitorCalls(b) ==
  {"parse"} \cup EnsureSku(b) \cup
  (IF Has(b, "one") THEN {"recall_alerts", "price_monitor", "explain"}
     ELSE {"compare"} \cup When(~(Platforms \subseteq b.failed), "explain"))

\* competitor_price, unless the request names the price: the history when there is
\* no adapter, or the adapter failed and the setting allows it (Silent).
PriceCalls(b) ==
  IF ~Has(b, "one") \/ Has(b, "price") THEN {}
  ELSE When(Adapter, "adapter") \cup When(~Adapter \/ Failed(b, "adapter"), "price_history")

\* data_integrity_check on what is in scope, and SQL when the request has some.
DataCheckCalls(b) ==
  {"parse", "explain"} \cup (b.req.flags \cap {"goods_rows", "order_rows", "sql"})

ExecCalls(b) ==
  CASE b.req.type = "ad_optimize" -> AdCalls(b)
    [] b.req.type = "risk_control" -> RiskCalls(b)
    [] b.req.type = "social_marketing" -> SocialCalls(b)
    [] b.req.type = "customer_service" -> CustomerCalls(b)
    [] OTHER -> ReportCalls(b)
QueryCalls(b) ==
  CASE b.req.type \in {"goods_search", "goods_catalog"} -> GoodsCalls(b)
    [] b.req.type = "stock_analysis" -> StockCalls(b)
    [] b.req.type = "competitor_watch" -> CompetitorCalls(b) \cup PriceCalls(b)
    [] b.req.type = "data_check" -> DataCheckCalls(b)
    [] OTHER -> {"parse", "read"}
Calls(b) == IF OfExec(b) THEN ExecCalls(b) ELSE QueryCalls(b)

\* The calls still to be made, as positions in the pipeline, and the next one:
\* the end when there is none.
Todo(b) == {n \in DOMAIN Pipeline(b) : n > b.at /\ Pipeline(b)[n] \in Calls(b)}
NextCalls(b) == IF Todo(b) = {} THEN {End(b)}
                ELSE {n \in Todo(b) : \A m \in Todo(b) : n <= m}

-----------------------------------------------------------------------------
(* What parse_*_request and the checks after it refuse: "none" when the    *)
(* request is taken.                                                       *)

Invalid(b) == IF Has(b, "invalid") THEN "INVALID_REQUEST" ELSE "none"

\* A platform without ads, profit inputs in part, or nothing to go by.
AdRefusal(b) ==
  IF Has(b, "unsupported") THEN "UNSUPPORTED_PLATFORM"
  ELSE IF b.target = None /\ ~Has(b, "sku") /\ ~Has(b, "metrics") THEN "INVALID_REQUEST"
  ELSE Invalid(b)

\* Product names that are only an instruction or a platform are no product.
SocialRefusal(b) ==
  IF Has(b, "unsupported") THEN "UNSUPPORTED_PLATFORM"
  ELSE IF Has(b, "invalid") THEN "INVALID_REQUEST"
  ELSE IF b.target = None THEN "MISSING_PRODUCT" ELSE "none"

\* An order number that is not given is looked for in the words, and may be missing.
CustomerRefusal(b) == Invalid(b)

CheckRefusal(b) == Invalid(b)

ReportRefusal(b) ==
  IF Has(b, "unsupported") THEN "UNSUPPORTED_REPORT_TYPE" ELSE Invalid(b)

\* A search needs words to search for.
GoodsRefusal(b) ==
  IF Has(b, "invalid_goods") THEN "INVALID_REQUEST"
  ELSE IF Has(b, "unnamed") /\ ~Catalog(b) THEN "MISSING_PRODUCT" ELSE "none"

\* A search must have found something to go on with; a catalog has no best product.
FoundRefusal(b) ==
  IF Catalog(b) THEN "SKILL_FAILED" ELSE IF b.target = None THEN "MISSING_PRODUCT" ELSE "none"

\* The product is there by then, and the agent has all platforms compared when the
\* request names no competitor.
StockRefusal(b) == Invalid(b)
CompetitorRefusal(b) == Invalid(b)

OrderRefusal(b) == IF b.target = None THEN "INVALID_REQUEST" ELSE Invalid(b)

WorkflowRefusal(b) ==
  CASE b.req.type = "ad_optimize" -> AdRefusal(b)
    [] b.req.type = "social_marketing" -> SocialRefusal(b)
    [] b.req.type = "ops_report" -> ReportRefusal(b)
    [] b.req.type = "customer_service" -> CustomerRefusal(b)
    [] b.req.type = "data_check" -> CheckRefusal(b)
    [] b.req.type = "stock_analysis" -> StockRefusal(b)
    [] b.req.type = "competitor_watch" -> CompetitorRefusal(b)
    [] b.req.type \in {"risk_control", "order_query"} -> OrderRefusal(b)
    [] OTHER -> Invalid(b)

\* The calls that only check what is there.
Checks == {"parse_goods", "found", "parse"}
Refusal(b) ==
  CASE Call(b) = "parse_goods" -> GoodsRefusal(b)
    [] Call(b) = "found" -> FoundRefusal(b)
    [] Call(b) = "parse" -> WorkflowRefusal(b)
    [] OTHER -> "none"

-----------------------------------------------------------------------------
(* What a call that does not fail tells the job.                           *)

\* The campaign of a request that names none: one named in words, else the one
\* with the least return; paused ones are not considered.
Picked(b, active) ==
  LET picks == IF b.req.named \in active THEN {b.req.named}
               ELSE {c \in active : \A d \in active : Roas[c] <= Roas[d]}
  IN  {[b EXCEPT !.target = c] : c \in IF picks = {} THEN {None} ELSE picks}

\* An order nobody knows has no amount, which is no risk.
Ordered(b) == {[b EXCEPT !.calm = b.target \notin Risky]}

\* The rules of ad_optimize, which a model may revise: hold, or change something.
\* It makes a difference to what is remembered of a product.
Advised(b) == {[b EXCEPT !.calm = hold] : hold \in IF Has(b, "sku") THEN BOOLEAN ELSE {TRUE}}

\* Both searches may find nothing.
Sought(b) == {[b EXCEPT !.target = found] : found \in {Product, None}}

\* crm_reply answers from a template when the model does not.
Answered(b) == {[b EXCEPT !.failed = @ \cup s] : s \in {{}, {"llm"}}}

\* A text for the product is of the model, or of a template when the model fails;
\* the skill may fail for all that.  So it is with the prompt for a picture.
Copies == {{}, {"copy"}}
Prompts == {{}, {"prompt"}}
Generated(b) == {[b EXCEPT !.failed = @ \cup c \cup p] : c \in Copies, p \in Prompts}

\* Parts that run together, any of which may fail.
Parts(b) == IF b.req.type = "social_marketing" THEN {"copy", "prompt"}
            ELSE IF b.req.type = "competitor_watch" /\ ~Has(b, "one") THEN Platforms
            ELSE {}
Gathered(b) == {[b EXCEPT !.failed = @ \cup s] : s \in SUBSET Parts(b)}

Learnt(b, active) ==
  CASE Call(b) = "list_campaigns" -> Picked(b, active)
    [] Call(b) = "get_order" -> Ordered(b)
    [] Call(b) = "ad_optimize" -> Advised(b)
    [] Call(b) \in {"literal", "semantic"} -> Sought(b)
    [] Call(b) = "crm_reply" -> Answered(b)
    [] Call(b) = "gather" -> Generated(b)
    [] Call(b) = "compare" -> Gathered(b)
    [] OTHER -> {b}

-----------------------------------------------------------------------------
(* Failures and replies.                                                   *)

\* Failures nobody is told of: an empty answer, a template or a fallback takes
\* the place of what the call would have given.
Silent == {"list_campaigns", "get_order", "semantic",
           "recall_alerts", "explain", "summary", "slot"} \cup When(Fallback, "adapter")
\* Failures that leave a partial success.
Noted == {"recall", "profit_calc", "save", "memory", "history", "append_user",
          "append_answer", "taobao", "retrieve", "crm_reply", "llm", "sql",
          "copy", "prompt"} \cup Platforms

\* All other failures end the workflow with the code of their call.
Code(b) == CASE Call(b) \in {"adapter", "price_history"} -> "PRICE_UNAVAILABLE"
             [] Call(b) = "compare" -> "WORKFLOW_TIMEOUT"
             [] Call(b) = "low_stock" -> "MISSING_SKU"
             [] OTHER -> "SKILL_FAILED"

NoReply == [kind |-> "none", code |-> "none", acted |-> "no", target |-> None]
Error(code) == [NoReply EXCEPT !.kind = "error", !.code = code]
Done(kind, b) ==
  [NoReply EXCEPT !.kind = kind, !.acted = b.acted, !.target = b.target]

\* The end of every workflow: of parts that run together one is enough.
Ended(b, noted) ==
  IF Failed(b, "deadline") THEN Error("WORKFLOW_TIMEOUT")
  ELSE IF Parts(b) # {} /\ Parts(b) \subseteq b.failed THEN Error("SKILL_FAILED")
  ELSE Done(IF b.failed \cap noted # {} THEN "partial" ELSE "whole", b)

\* Fault: a memory that could not be saved does not count.
ReplyForgivingMemory(b) == Ended(b, Noted \ {"save"})
Reply(b) == Ended(b, Noted)

\* What a write does: the operation and the object it is about.
Operation(b) == CASE b.req.type = "ad_optimize" -> "pause_campaign"
                  [] b.req.type = "customer_service" -> "taobao_api"
                  [] b.req.type = "risk_control" /\ Has(b, "mark") -> "mark_order_risk"
                  [] OTHER -> "record_order_risk"
What(b) == [op |-> Operation(b), target |-> b.target]
=============================================================================
