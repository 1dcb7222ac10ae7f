-------------------------- MODULE WorkflowsProofs ---------------------------
(***************************************************************************)
(* Proofs about Workflows, for any jobs and requests of the known task     *)
(* types, any campaigns, orders and platforms, and any limit of running    *)
(* generations.                                                            *)
(***************************************************************************)
EXTENDS Workflows, FiniteSetTheorems, SequenceTheorems, WellFoundedInduction, TLAPS

-----------------------------------------------------------------------------
(* Pipelines.                                                              *)

TaskTypes == DOMAIN ExecPipelines \cup DOMAIN QueryPipelines
Live(b) == b.req.type \in TaskTypes

\* Every task type has a pipeline.
LEMMA PipelineOf ==
  ASSUME NEW b, Live(b)
  PROVE  Pipeline(b) \in {Advertising, RiskControl, Social, Customer, Report, Search,
                          Stock, Competitor, DataCheck, Read}
<1>. DEFINE K == b.req.type
<1>1. K \in {"ad_optimize", "risk_control", "social_marketing", "customer_service",
             "ops_report", "goods_search", "goods_catalog", "stock_analysis",
             "competitor_watch", "data_check", "order_query", "ad_query"}
  BY DEF Live, TaskTypes, ExecPipelines, QueryPipelines
<1>2. Pipeline(b) = IF K \in DOMAIN ExecPipelines THEN ExecPipelines[K] ELSE QueryPipelines[K]
  BY DEF Pipeline, OfExec
<1>. HIDE DEF K
<1>. QED  BY <1>1, <1>2 DEF ExecPipelines, QueryPipelines

\* A job of social marketing goes through the calls of a generation.
LEMMA SocialPipeline ==
  ASSUME NEW b, b.req.type = "social_marketing"
  PROVE  Pipeline(b) = Social
BY DEF Pipeline, OfExec, ExecPipelines

\* A search and what follows it.
GoodsSteps == {"parse_goods", "count", "list", "literal", "semantic", "found"}
LEMMA AfterSearch ==
  ASSUME NEW S, GoodsSteps \subseteq S, NEW t \in Seq(S)
  PROVE  /\ Len(Search \o t) = 6 + Len(t)
         /\ DOMAIN (Search \o t) = 1 .. 6 + Len(t)
         /\ \A n \in 1 .. 6 + Len(t) :
              (Search \o t)[n] = IF n <= 6 THEN Search[n] ELSE t[n - 6]
<1>1. \A x \in GoodsSteps : x \in S
  OBVIOUS
<1>2. \A u \in S, v \in S, w \in S, x \in S, y \in S, z \in S :
        <<u, v, w, x, y, z>> \in Seq(S)
  OBVIOUS
<1>3. Search \in Seq(S)
  <2>1. /\ "parse_goods" \in S /\ "count" \in S /\ "list" \in S
        /\ "literal" \in S /\ "semantic" \in S /\ "found" \in S
    BY <1>1 DEF GoodsSteps
  <2>. QED  BY <1>2, <2>1, Zenon DEF Search
<1>4. Len(Search) = 6
  BY DEF Search
<1>5. /\ Search \o t \in Seq(S) /\ Len(Search \o t) = 6 + Len(t)
      /\ \A n \in 1 .. 6 + Len(t) :
           (Search \o t)[n] = IF n <= 6 THEN Search[n] ELSE t[n - 6]
  <2>1. /\ Search \o t \in Seq(S)
        /\ Len(Search \o t) = Len(Search) + Len(t)
        /\ \A n \in 1 .. Len(Search) + Len(t) :
             (Search \o t)[n] = IF n <= Len(Search) THEN Search[n] ELSE t[n - Len(Search)]
    BY <1>3, ConcatProperties
  <2>. QED  BY <1>4, <2>1
<1>6. DOMAIN (Search \o t) = 1 .. Len(Search \o t)
  BY <1>5, LenProperties
<1>. QED  BY <1>5, <1>6

\* A pipeline is a sequence of calls with at most one write, and after the write
\* nothing is looked for any more.
LEMMA PipelineFacts ==
  ASSUME NEW b, Live(b)
  PROVE  /\ Len(Pipeline(b)) \in Nat /\ DOMAIN Pipeline(b) = 1 .. Len(Pipeline(b))
         /\ End(b) \in Nat /\ End(b) > 1
         /\ \A m, n \in DOMAIN Pipeline(b) : Pipeline(b)[m] = "write" /\ m < n =>
              Pipeline(b)[n] \notin {"write", "list_campaigns", "literal", "semantic"}
<1>. DEFINE Good(p) ==
       /\ Len(p) \in Nat /\ Len(p) > 0 /\ DOMAIN p = 1 .. Len(p)
       /\ \A m, n \in DOMAIN p : p[m] = "write" /\ m < n =>
            p[n] \notin {"write", "list_campaigns", "literal", "semantic"}
<1>1. Good(Advertising)
  BY DEF Advertising
<1>2. Good(RiskControl)
  BY DEF RiskControl
<1>3. Good(Social)
  BY DEF Social
<1>4. Good(Customer)
  BY DEF Customer
<1>5. Good(Report)
  BY DEF Report
<1>6. Good(Search) /\ Good(DataCheck) /\ Good(Read)
  BY DEF Search, DataCheck, Read
<1>7. ASSUME NEW S, GoodsSteps \subseteq S,
             NEW t \in Seq(S), \A n \in 1 .. Len(t) : t[n] # "write"
      PROVE  Good(Search \o t)
  <2>1. \A n \in 1 .. 6 : Search[n] # "write"
    BY DEF Search
  <2>2. \A n \in 1 .. 6 + Len(t) : (Search \o t)[n] # "write"
    BY <1>7, <2>1, AfterSearch
  <2>. QED  BY <1>7, <2>2, AfterSearch
<1>8. Good(Stock)
  <2>. DEFINE t == <<"parse", "low_stock", "stock_predict", "explain">>
              S == GoodsSteps \cup {"parse", "low_stock", "stock_predict", "explain"}
  <2>1. t \in Seq(S) /\ \A n \in 1 .. Len(t) : t[n] # "write"
    OBVIOUS
  <2>2. Stock = Search \o t
    BY DEF Stock
  <2>. HIDE DEF t, Good
  <2>. QED  BY <1>7, <2>1, <2>2
<1>9. Good(Competitor)
  <2>. DEFINE t == <<"parse", "compare", "adapter", "price_history", "recall_alerts",
                     "price_monitor", "explain">>
              S == GoodsSteps \cup {"parse", "compare", "adapter", "price_history",
                                    "recall_alerts", "price_monitor", "explain"}
  <2>1. t \in Seq(S) /\ \A n \in 1 .. Len(t) : t[n] # "write"
    OBVIOUS
  <2>2. Competitor = Search \o t
    BY DEF Competitor
  <2>. HIDE DEF t, Good
  <2>. QED  BY <1>7, <2>1, <2>2
<1>. HIDE DEF Good
<1>10. Good(Pipeline(b))
  BY <1>1, <1>2, <1>3, <1>4, <1>5, <1>6, <1>8, <1>9, PipelineOf
<1>. USE DEF Good
<1>. QED  BY <1>10 DEF End

-----------------------------------------------------------------------------
(* Types.                                                                  *)

Things == {None, Product} \cup Campaigns
            \cup {r[j].target : r \in Requests, j \in Jobs}
Reqs == {NoRequest} \cup {r[j] : r \in Requests, j \in Jobs}
Kept == Silent \cup Noted \cup {"deadline"}

JobRecords ==
  [state : {"new", "queued", "busy", "done"}, req : Reqs, grant : Jobs \cup {None},
   at : Nat, target : Things, calm : BOOLEAN, failed : SUBSET Kept,
   acted : {"no", "written"}, lost : BOOLEAN]
Approvals ==
  [state : {"none", "pending", "approved", "consumed"},
   what : [op : {"none", "pause_campaign", "taobao_api", "mark_order_risk",
                 "record_order_risk"},
           target : Things]]

\* The campaign of a request about an ad.
AdTarget(b) ==
  b.req.type = "ad_optimize" => b.target \in Campaigns \cup {Ghost, None}

\* A job that is waiting has learnt nothing, and one at work is at a call of its
\* pipeline or at the end; a campaign is paused only once there is one.
JobInv(b) ==
  /\ b.state \in {"queued", "busy"} => Live(b)
  /\ b.state \in {"new", "queued"} => b.at = 0 /\ b.target = None /\ b.acted = "no"
  /\ b.state = "busy" => b.at \in 1 .. End(b) /\ AdTarget(b)
  /\ b.state = "busy" /\ b.at < End(b) =>
       (Call(b) = "write" /\ b.req.type = "ad_optimize" => b.target # None)

TypeInv ==
  /\ job \in [Jobs -> JobRecords]
  /\ DOMAIN told = Jobs
  /\ approval \in [Jobs -> Approvals]
  /\ \A j \in Jobs :
       /\ JobInv(job[j])
       /\ told[j].kind \in Kinds
       /\ (told[j].kind # "none") <=> (job[j].state = "done")
  /\ paused \subseteq Campaigns
  /\ slots \subseteq Jobs \cup Others

\* The invariant of the types is at least that of the model.
LEMMA TypeInvFacts == TypeInv => TypeOK
<1>. SUFFICES ASSUME TypeInv PROVE TypeOK
  OBVIOUS
<1>1. DOMAIN job = Jobs /\ DOMAIN told = Jobs /\ DOMAIN approval = Jobs
  BY DEF TypeInv
<1>2. ASSUME NEW j \in Jobs
      PROVE  /\ job[j].state \in {"new", "queued", "busy", "done"}
             /\ job[j].grant \in Jobs \cup {None}
             /\ job[j].failed \subseteq Silent \cup Noted \cup {"deadline"}
  BY DEF TypeInv, JobRecords, Kept
<1>3. ASSUME NEW j \in Jobs
      PROVE  approval[j].state \in {"none", "pending", "approved", "consumed"}
  BY DEF TypeInv, Approvals
<1>. QED  BY <1>1, <1>2, <1>3 DEF TypeInv, TypeOK, JobInv

\* Where a job is and what it has learnt do not change its request's pipeline.
LEMMA SameRequest ==
  ASSUME NEW b, NEW c, b.req = c.req
  PROVE  Live(b) = Live(c) /\ Pipeline(b) = Pipeline(c) /\ End(b) = End(c)
<1>1. Pipeline(b) = Pipeline(c)
  BY DEF Pipeline, OfExec
<1>. QED  BY <1>1 DEF Live, End

\* The next call of a job is further on in its pipeline, or there is none.
LEMMA NextCallFacts ==
  ASSUME NEW b \in JobRecords, Live(b), b.at < End(b), NEW n \in NextCalls(b)
  PROVE  /\ n \in 1 .. End(b) /\ b.at < n
         /\ n < End(b) => Pipeline(b)[n] \in Calls(b)
<1>1. End(b) \in Nat /\ End(b) > 1 /\ DOMAIN Pipeline(b) = 1 .. Len(Pipeline(b))
      /\ End(b) = Len(Pipeline(b)) + 1 /\ Len(Pipeline(b)) \in Nat
  BY PipelineFacts DEF End
<1>2. b.at \in Nat
  BY DEF JobRecords
<1>3. CASE n = End(b)
  BY <1>1, <1>2, <1>3
<1>4. CASE n \in Todo(b)
  BY <1>1, <1>2, <1>4 DEF Todo
<1>. QED  BY <1>3, <1>4 DEF NextCalls

\* The job moves to a next call, and keeps its types.
LEMMA GotoFacts ==
  ASSUME NEW j \in Jobs, NEW b \in JobRecords, b.state = "busy", Live(b), b.at < End(b),
         AdTarget(b), Goto(j, b)
  PROVE  \E n \in NextCalls(b) :
           /\ job' = [job EXCEPT ![j] = [b EXCEPT !.at = n]]
           /\ [b EXCEPT !.at = n] \in JobRecords
           /\ JobInv([b EXCEPT !.at = n])
<1>1. PICK n \in NextCalls(b) : job' = [job EXCEPT ![j] = [b EXCEPT !.at = n]]
  BY DEF Goto
<1>. DEFINE c == [b EXCEPT !.at = n]
<1>2. /\ n \in 1 .. End(b) /\ b.at < n
      /\ n < End(b) => Pipeline(b)[n] \in Calls(b)
      /\ End(b) \in Nat
  BY NextCallFacts, PipelineFacts
<1>3. c \in JobRecords
  BY <1>2 DEF JobRecords
<1>4. c.req = b.req /\ c.state = "busy" /\ c.at = n /\ c.target = b.target
  BY DEF JobRecords
<1>5. Live(c) /\ Pipeline(c) = Pipeline(b) /\ End(c) = End(b)
  BY <1>4, SameRequest
<1>6. ASSUME c.at < End(c), Call(c) = "write", c.req.type = "ad_optimize"
      PROVE  c.target # None
  <2>1. "write" \in Calls(b)
    BY <1>2, <1>4, <1>5, <1>6 DEF Call
  <2>2. b.req.type = "ad_optimize" /\ OfExec(b)
    BY <1>4, <1>6 DEF OfExec, ExecPipelines
  <2>3. "write" \in AdCalls(b)
    BY <2>1, <2>2 DEF Calls, ExecCalls
  <2>. QED  BY <1>4, <2>3 DEF AdCalls, When
<1>7. JobInv(c)
  BY <1>2, <1>4, <1>5, <1>6 DEF JobInv, AdTarget
<1>. QED  BY <1>1, <1>3, <1>7

\* A step of one job that moves it, or ends it with a reply, keeps the types.
LEMMA MoveTypes ==
  ASSUME TypeInv, NEW j \in Jobs, NEW b \in JobRecords, job[j].state \in {"queued", "busy"},
         b.state = "busy", Live(b), b.at < End(b), AdTarget(b), Goto(j, b), told' = told,
         approval' \in [Jobs -> Approvals], paused' \subseteq Campaigns,
         slots' \subseteq Jobs \cup Others
  PROVE  TypeInv'
<1>1. PICK n \in NextCalls(b) :
        /\ job' = [job EXCEPT ![j] = [b EXCEPT !.at = n]]
        /\ [b EXCEPT !.at = n] \in JobRecords
        /\ JobInv([b EXCEPT !.at = n])
  BY GotoFacts
<1>. DEFINE c == [b EXCEPT !.at = n]
<1>2. c.state = "busy"
  BY DEF JobRecords
<1>. HIDE DEF c
<1>3. job' \in [Jobs -> JobRecords]
  BY <1>1 DEF TypeInv, c
<1>4. \A k \in Jobs : job'[k] = IF k = j THEN c ELSE job[k]
  BY <1>1 DEF TypeInv, c
<1>5. JobInv(c)
  BY <1>1 DEF c
<1>. QED  BY <1>2, <1>3, <1>4, <1>5 DEF TypeInv

LEMMA EndTypes ==
  ASSUME TypeInv, NEW j \in Jobs, NEW b, NEW reply, Answer(j, b, reply),
         reply.kind \in Kinds \ {"none"},
         approval' \in [Jobs -> Approvals], paused' \subseteq Campaigns,
         slots' \subseteq Jobs \cup Others
  PROVE  TypeInv'
<1>. DEFINE c == [NoJob EXCEPT !.state = "done", !.failed = b.failed \cap {"slot"},
                               !.lost = b.failed \cap Noted # {}]
<1>1. /\ c \in JobRecords /\ c.state = "done"
  <2>. DEFINE f == b.failed \cap {"slot"}
              l == b.failed \cap Noted # {}
  <2>1. f \subseteq Kept /\ l \in BOOLEAN
    BY DEF Kept, Silent
  <2>2. NoRequest \in Reqs /\ None \in Things
    BY DEF Reqs, Things
  <2>3. c = [NoJob EXCEPT !.state = "done", !.failed = f, !.lost = l]
    OBVIOUS
  <2>. HIDE DEF c, f, l
  <2>. QED  BY <2>1, <2>2, <2>3 DEF NoJob, JobRecords
<1>. HIDE DEF c
<1>2. job' = [job EXCEPT ![j] = c] /\ told' = [told EXCEPT ![j] = reply]
  BY DEF Answer, c
<1>3. job' \in [Jobs -> JobRecords] /\ \A k \in Jobs : job'[k] = IF k = j THEN c ELSE job[k]
  BY <1>1, <1>2 DEF TypeInv
<1>4. DOMAIN told' = Jobs /\ \A k \in Jobs : told'[k] = IF k = j THEN reply ELSE told[k]
  BY <1>2 DEF TypeInv
<1>5. JobInv(c)
  BY <1>1 DEF JobInv
<1>. QED  BY <1>1, <1>3, <1>4, <1>5 DEF TypeInv

-----------------------------------------------------------------------------
(* What a call tells a job.                                                *)

Lookups == {"list_campaigns", "literal", "semantic"}

\* b is job c after its call; From(b, c): with what the call told it, or with
\* its failure.
Follows(b, c) ==
  /\ b \in JobRecords /\ AdTarget(b)
  /\ b.state = c.state /\ b.req = c.req /\ b.grant = c.grant /\ b.at = c.at
  /\ c.failed \subseteq b.failed
  /\ Call(c) \notin Lookups => b.target = c.target

From(b, c) == Follows(b, c) /\ b.acted = c.acted

\* A call that fails is noted with the job.
LEMMA MissFacts ==
  ASSUME NEW c \in JobRecords, AdTarget(c), NEW part \in Kept
  PROVE  From(Miss(c, part), c) /\ part \in Miss(c, part).failed
<1>1. /\ Miss(c, part) \in JobRecords
      /\ Miss(c, part).failed = c.failed \cup {part}
      /\ Miss(c, part).target = c.target /\ Miss(c, part).req = c.req
      /\ Miss(c, part).state = c.state /\ Miss(c, part).grant = c.grant
      /\ Miss(c, part).at = c.at /\ Miss(c, part).acted = c.acted
  BY DEF Miss, JobRecords
<1>. QED  BY <1>1 DEF From, Follows, AdTarget

\* A job that learns nothing.
LEMMA SameFacts ==
  ASSUME NEW c \in JobRecords, AdTarget(c)
  PROVE  From(c, c)
BY DEF From, Follows

\* A job about an ad does not search for a product.
LEMMA AdCallsNothingElse ==
  ASSUME NEW c \in JobRecords, Live(c), c.at \in 1 .. End(c), c.at < End(c),
         Call(c) \in {"literal", "semantic"}
  PROVE  c.req.type # "ad_optimize"
<1>. SUFFICES ASSUME c.req.type = "ad_optimize" PROVE FALSE
  OBVIOUS
<1>2. Pipeline(c) = Advertising
  BY DEF Pipeline, OfExec, ExecPipelines
<1>3. Len(Advertising) = 7
  BY DEF Advertising
<1>4. c.at \in 1 .. 7
  BY <1>2, <1>3 DEF End, JobRecords
<1>5. \A n \in 1 .. 7 : Advertising[n] \notin {"literal", "semantic"}
  BY DEF Advertising
<1>. QED  BY <1>2, <1>4, <1>5 DEF Call

\* What a call tells changes the object of the job only in a lookup.
LEMMA LearntFacts ==
  ASSUME NEW c \in JobRecords, Live(c), AdTarget(c), c.at \in 1 .. End(c), c.at < End(c),
         NEW active \in SUBSET Campaigns, NEW b \in Learnt(c, active)
  PROVE  From(b, c)
<1>1. ASSUME NEW t \in Things, b = [c EXCEPT !.target = t], Call(c) \in Lookups,
             c.req.type = "ad_optimize" => t \in Campaigns \cup {None}
      PROVE  From(b, c)
  <2>1. /\ b \in JobRecords /\ b.target = t
        /\ b.state = c.state /\ b.req = c.req /\ b.grant = c.grant
        /\ b.at = c.at /\ b.acted = c.acted /\ b.failed = c.failed
    BY <1>1 DEF JobRecords
  <2>. QED  BY <1>1, <2>1 DEF From, Follows, AdTarget
<1>2. ASSUME NEW h \in BOOLEAN, b = [c EXCEPT !.calm = h]
      PROVE  From(b, c)
  <2>1. /\ b \in JobRecords /\ b.target = c.target
        /\ b.state = c.state /\ b.req = c.req /\ b.grant = c.grant
        /\ b.at = c.at /\ b.acted = c.acted /\ b.failed = c.failed
    BY <1>2 DEF JobRecords
  <2>. QED  BY <2>1 DEF From, Follows, AdTarget
<1>3. ASSUME NEW f \in SUBSET Kept, b = [c EXCEPT !.failed = @ \cup f]
      PROVE  From(b, c)
  <2>1. /\ b \in JobRecords /\ b.target = c.target
        /\ b.state = c.state /\ b.req = c.req /\ b.grant = c.grant
        /\ b.at = c.at /\ b.acted = c.acted /\ b.failed = c.failed \cup f
    BY <1>3 DEF JobRecords
  <2>. QED  BY <2>1 DEF From, Follows, AdTarget
<1>4. {"copy", "prompt", "llm"} \cup Platforms \subseteq Kept
  BY DEF Kept, Noted
<1>5. CASE Call(c) = "list_campaigns"
  <2>1. b \in Picked(c, active)
    BY <1>5 DEF Learnt
  <2>2. PICK t \in Campaigns \cup {None} : b = [c EXCEPT !.target = t]
    BY <2>1 DEF Picked
  <2>. QED  BY <1>1, <1>5, <2>2 DEF Lookups, Things
<1>6. CASE Call(c) \in {"literal", "semantic"}
  <2>1. b \in Sought(c)
    BY <1>6 DEF Learnt
  <2>2. PICK t \in {Product, None} : b = [c EXCEPT !.target = t]
    BY <2>1 DEF Sought
  <2>. QED  BY <1>1, <1>6, <2>2, AdCallsNothingElse DEF Lookups, Things
<1>7. CASE Call(c) = "get_order"
  <2>1. b \in Ordered(c)
    BY <1>7 DEF Learnt
  <2>. QED  BY <1>2, <2>1 DEF Ordered
<1>8. CASE Call(c) = "ad_optimize"
  <2>1. b \in Advised(c)
    BY <1>8 DEF Learnt
  <2>. QED  BY <1>2, <2>1 DEF Advised
<1>9. CASE Call(c) = "crm_reply"
  <2>1. b \in Answered(c)
    BY <1>9 DEF Learnt
  <2>. QED  BY <1>3, <1>4, <2>1 DEF Answered
<1>10. CASE Call(c) = "gather"
  <2>1. b \in Generated(c)
    BY <1>10 DEF Learnt
  <2>2. PICK x \in Copies, y \in Prompts : b = [c EXCEPT !.failed = @ \cup x \cup y]
    BY <2>1 DEF Generated
  <2>3. b = [c EXCEPT !.failed = @ \cup (x \cup y)]
    BY <2>2
  <2>4. x \cup y \subseteq Kept
    BY <1>4 DEF Copies, Prompts
  <2>. QED  BY <1>3, <2>3, <2>4
<1>11. CASE Call(c) = "compare"
  <2>1. b \in Gathered(c)
    BY <1>11 DEF Learnt
  <2>. QED  BY <1>3, <1>4, <2>1 DEF Gathered, Parts
<1>12. CASE Call(c) \notin {"list_campaigns", "literal", "semantic", "get_order",
                            "ad_optimize", "crm_reply", "gather", "compare"}
  <2>1. b = c
    BY <1>12 DEF Learnt
  <2>. QED  BY <2>1, SameFacts
<1>. QED  BY <1>5, <1>6, <1>7, <1>8, <1>9, <1>10, <1>11, <1>12

-----------------------------------------------------------------------------
(* The write of a job, before and behind it.                               *)

WriteAhead(b) == \E n \in DOMAIN Pipeline(b) : b.at <= n /\ Pipeline(b)[n] = "write"
WriteBehind(b) == \E n \in DOMAIN Pipeline(b) : n < b.at /\ Pipeline(b)[n] = "write"

\* A job that may still write.
MayWrite(j) ==
  \/ job[j].state \in {"new", "queued"}
  \/ job[j].state = "busy" /\ WriteAhead(job[j])

\* A job has its write ahead or behind, never both, and looks nothing up after it.
LEMMA OneWrite ==
  ASSUME NEW b, Live(b), b.at \in 1 .. End(b), WriteBehind(b)
  PROVE  ~WriteAhead(b) /\ (b.at < End(b) => Call(b) \notin Lookups)
<1>1. PICK m \in DOMAIN Pipeline(b) : m < b.at /\ Pipeline(b)[m] = "write"
  BY DEF WriteBehind
<1>2. /\ Len(Pipeline(b)) \in Nat /\ DOMAIN Pipeline(b) = 1 .. Len(Pipeline(b))
      /\ \A n \in DOMAIN Pipeline(b) : m < n =>
           Pipeline(b)[n] \notin {"write", "list_campaigns", "literal", "semantic"}
  BY <1>1, PipelineFacts
<1>3. ~WriteAhead(b)
  BY <1>1, <1>2 DEF WriteAhead
<1>4. b.at < End(b) => b.at \in DOMAIN Pipeline(b)
  BY <1>2 DEF End
<1>. QED  BY <1>1, <1>2, <1>3, <1>4 DEF Call, Lookups

\* Moving on leaves behind what is behind, and the write when the call is one.
LEMMA MovingOn ==
  ASSUME NEW b \in JobRecords, Live(b), b.at \in 1 .. End(b), b.at < End(b),
         NEW c, NEW b0, b.req = b0.req, b.at = b0.at, c.req = b.req,
         c.at \in 1 .. End(b), b.at < c.at
  PROVE  /\ WriteAhead(c) => WriteAhead(b0)
         /\ WriteBehind(b0) => WriteBehind(c)
         /\ Call(b0) = "write" => WriteBehind(c) /\ WriteAhead(b0) /\ ~WriteAhead(c)
<1>1. Pipeline(c) = Pipeline(b) /\ Pipeline(b0) = Pipeline(b) /\ End(c) = End(b) /\ Live(c)
  BY SameRequest
<1>2. /\ Len(Pipeline(b)) \in Nat /\ DOMAIN Pipeline(b) = 1 .. Len(Pipeline(b))
      /\ End(b) = Len(Pipeline(b)) + 1
  BY PipelineFacts DEF End
<1>3. WriteAhead(c) => WriteAhead(b0)
  BY <1>1, <1>2 DEF WriteAhead
<1>4. WriteBehind(b0) => WriteBehind(c)
  BY <1>1, <1>2 DEF WriteBehind
<1>5. ASSUME Call(b0) = "write"
      PROVE  WriteBehind(c) /\ WriteAhead(b0)
  BY <1>1, <1>2, <1>5 DEF Call, WriteBehind, WriteAhead
<1>6. WriteBehind(c) => ~WriteAhead(c)
  BY <1>1, OneWrite
<1>. QED  BY <1>3, <1>4, <1>5, <1>6

\* The next call of a generation that has its token is the next in its pipeline,
\* and the calls about tokens are made only with Redis.
LEMMA SocialNext ==
  ASSUME NEW b \in JobRecords, b.req.type = "social_marketing", b.at < End(b),
         NEW n \in NextCalls(b)
  PROVE  /\ Redis /\ "slot" \notin b.failed /\ b.at \in 3 .. 6 => n = b.at + 1
         /\ n \in {2, 3, 4, 6} => Redis /\ "slot" \notin b.failed
<1>1. Pipeline(b) = Social /\ End(b) = 7
  <2>1. Len(Social) = 6
    BY DEF Social
  <2>2. Pipeline(b) = Social
    BY SocialPipeline
  <2>3. End(b) = Len(Pipeline(b)) + 1
    BY DEF End
  <2>. QED  BY <2>1, <2>2, <2>3
<1>2. Calls(b) = SocialCalls(b)
  BY DEF Calls, ExecCalls, OfExec, ExecPipelines
<1>3. Todo(b) = {m \in 1 .. 6 : m > b.at /\ Social[m] \in SocialCalls(b)}
  <2>1. DOMAIN Social = 1 .. 6
    BY DEF Social
  <2>. QED  BY <1>1, <1>2, <2>1 DEF Todo
<1>4. /\ Social[2] = "scard" /\ Social[3] = "sadd" /\ Social[4] = "expire"
      /\ Social[5] = "gather" /\ Social[6] = "srem"
  BY DEF Social
<1>5. b.at \in Nat
  BY DEF JobRecords
<1>6. ASSUME Redis, "slot" \notin b.failed, b.at \in 3 .. 6
      PROVE  n = b.at + 1
  <2>1. \A m \in 4 .. 6 : Social[m] \in SocialCalls(b)
    BY <1>4, <1>6 DEF SocialCalls, Failed
  <2>2. CASE b.at = 6
    BY <1>1, <1>3, <2>2 DEF NextCalls
  <2>3. CASE b.at \in 3 .. 5
    <3>1. b.at + 1 \in Todo(b)
      BY <1>3, <2>1, <2>3
    <3>2. n \in Todo(b) /\ n <= b.at + 1
      BY <3>1 DEF NextCalls
    <3>. QED  BY <1>3, <1>5, <3>2
  <2>. QED  BY <1>6, <2>2, <2>3
<1>7. ASSUME n \in {2, 3, 4, 6}
      PROVE  Redis /\ "slot" \notin b.failed
  <2>1. n \in Todo(b)
    BY <1>1, <1>7 DEF NextCalls
  <2>2. Social[n] \in SocialCalls(b) /\ Social[n] \in {"scard", "sadd", "expire", "srem"}
    BY <1>3, <1>4, <1>7, <2>1
  <2>. QED  BY <2>2 DEF SocialCalls, Failed
<1>. QED  BY <1>6, <1>7

-----------------------------------------------------------------------------
(* The inductive invariant.                                                *)

\* Before its write a job has asked for nothing and written nothing; so no
\* approval that is used up is asked for anew.
WriteInv ==
  /\ WritesAreApproved
  /\ \A w \in writes : w.grant \in Jobs
  /\ \A j \in Jobs : MayWrite(j) => approval[j].state = "none" /\ ~Wrote(j)

\* A job at work knows what it wrote, but for a write that failed, which it
\* notes.
TellInv ==
  /\ ToldAsHappened
  /\ \A j \in Jobs :
       /\ job[j].state # "done" => told[j] = NoReply
       /\ job[j].state = "busy" =>
            /\ job[j].acted = "written" => WriteBehind(job[j])
            /\ job[j].acted = "written" /\ job[j].target # Ghost => Wrote(j)
            /\ Wrote(j) => \/ job[j].acted = "written" /\ job[j].target # Ghost
                           \/ job[j].failed \cap Noted # {}

\* A token in the set is of a generation on its way to give it back, or of a job
\* that has noted the failure.
TokenInv ==
  \A j \in Jobs :
    /\ j \in slots => \/ "slot" \in job[j].failed
                      \/ /\ job[j].state = "busy" /\ job[j].req.type = "social_marketing"
                         /\ job[j].at \in 4 .. 6 /\ Redis
    /\ job[j].state = "busy" /\ job[j].req.type = "social_marketing"
         /\ job[j].at \in {2, 3, 4, 6} => Redis /\ "slot" \notin job[j].failed

Inv == TypeInv /\ WriteInv /\ TellInv /\ TokenInv

-----------------------------------------------------------------------------
(* Steps of one job.                                                       *)

\* The other jobs of a step keep their tokens.
OthersKeep(j) ==
  /\ slots' \subseteq Jobs \cup Others
  /\ \A k \in Jobs \ {j} : k \in slots' <=> k \in slots

\* A job that is at a call and moves on, with what the call told it.
LEMMA MoveFacts ==
  ASSUME TypeInv, NEW j \in Jobs, job[j].state = "busy", job[j].at < End(job[j]),
         NEW b, Follows(b, job[j]), Goto(j, b)
  PROVE  /\ b \in JobRecords /\ b.state = "busy" /\ Live(b) /\ AdTarget(b)
         /\ b.at \in 1 .. End(b) /\ b.at < End(b)
         /\ \E n \in NextCalls(b) :
              /\ job' = [job EXCEPT ![j] = [b EXCEPT !.at = n]]
              /\ [b EXCEPT !.at = n].at = n /\ [b EXCEPT !.at = n].req = b.req
              /\ n \in 1 .. End(b) /\ b.at < n
         /\ \A k \in Jobs \ {j} : job'[k] = job[k]
         /\ job'[j].state = "busy" /\ job'[j].req = b.req /\ job'[j].grant = b.grant
         /\ job'[j].target = b.target /\ job'[j].failed = b.failed /\ job'[j].acted = b.acted
         /\ job'[j].lost = b.lost
         /\ job'[j].at \in NextCalls(b) /\ job'[j].at \in 1 .. End(b) /\ b.at < job'[j].at
<1>1. job[j] \in JobRecords /\ JobInv(job[j])
  BY DEF TypeInv
<1>2. /\ b \in JobRecords /\ b.state = "busy" /\ AdTarget(b) /\ Live(b)
      /\ End(b) = End(job[j]) /\ b.at = job[j].at
  BY <1>1, SameRequest DEF Follows, JobInv
<1>3. b.at \in 1 .. End(b) /\ b.at < End(b)
  BY <1>1, <1>2 DEF JobInv
<1>4. PICK n \in NextCalls(b) : job' = [job EXCEPT ![j] = [b EXCEPT !.at = n]]
  BY DEF Goto
<1>5. n \in 1 .. End(b) /\ b.at < n
  BY <1>2, <1>3, NextCallFacts
<1>. DEFINE c == [b EXCEPT !.at = n]
<1>6. /\ c.state = "busy" /\ c.req = b.req /\ c.grant = b.grant
      /\ c.target = b.target /\ c.failed = b.failed /\ c.acted = b.acted
      /\ c.lost = b.lost /\ c.at = n
  BY <1>2 DEF JobRecords
<1>7. job' = [job EXCEPT ![j] = c]
  BY <1>4
<1>. HIDE DEF c
<1>8. job'[j] = c /\ \A k \in Jobs \ {j} : job'[k] = job[k]
  BY <1>7 DEF TypeInv
<1>9. /\ job' = [job EXCEPT ![j] = [b EXCEPT !.at = n]]
      /\ [b EXCEPT !.at = n].at = n /\ [b EXCEPT !.at = n].req = b.req
  BY <1>6, <1>7 DEF c
<1>. QED  BY <1>2, <1>3, <1>5, <1>6, <1>8, <1>9

\* What the move does to the tokens.
LEMMA MoveTokens ==
  ASSUME Inv, NEW j \in Jobs, job[j].state = "busy", job[j].at < End(job[j]),
         NEW b, Follows(b, job[j]), Goto(j, b), OthersKeep(j),
         j \in slots' => \/ "slot" \in b.failed
                         \/ Redis /\ b.req.type = "social_marketing" /\ b.at \in 3 .. 5
  PROVE  TokenInv'
<1>1. /\ b \in JobRecords /\ b.at < End(b)
      /\ \A k \in Jobs \ {j} : job'[k] = job[k]
      /\ job'[j].state = "busy" /\ job'[j].req = b.req /\ job'[j].failed = b.failed
      /\ job'[j].at \in NextCalls(b)
  BY MoveFacts DEF Inv
<1>2. b.req.type = "social_marketing" =>
        /\ Redis /\ "slot" \notin b.failed /\ b.at \in 3 .. 6 => job'[j].at = b.at + 1
        /\ job'[j].at \in {2, 3, 4, 6} => Redis /\ "slot" \notin b.failed
  BY <1>1, SocialNext
<1>3. ASSUME j \in slots', "slot" \notin b.failed
      PROVE  job'[j].at \in 4 .. 6 /\ b.req.type = "social_marketing" /\ Redis
  BY <1>2, <1>3
<1>. QED  BY <1>1, <1>2, <1>3 DEF Inv, TokenInv, OthersKeep

\* A step that moves the job and touches nothing but its token.
LEMMA MoveKeeps ==
  ASSUME Inv, NEW j \in Jobs, job[j].state = "busy", job[j].at < End(job[j]),
         NEW b, From(b, job[j]), Goto(j, b), UNCHANGED <<told, approval, paused, writes>>,
         OthersKeep(j),
         j \in slots' => \/ "slot" \in b.failed
                         \/ Redis /\ b.req.type = "social_marketing" /\ b.at \in 3 .. 5
  PROVE  Inv'
<1>1. /\ b \in JobRecords /\ b.state = "busy" /\ Live(b) /\ AdTarget(b)
      /\ b.at \in 1 .. End(b) /\ b.at < End(b)
      /\ \A k \in Jobs \ {j} : job'[k] = job[k]
      /\ job'[j].state = "busy" /\ job'[j].req = b.req
      /\ job'[j].target = b.target /\ job'[j].failed = b.failed /\ job'[j].acted = b.acted
      /\ job'[j].at \in 1 .. End(b) /\ b.at < job'[j].at
  BY MoveFacts DEF Inv, From
<1>2. TypeInv'
  BY <1>1, MoveTypes DEF Inv, TypeInv, OthersKeep
<1>3. TokenInv'
  BY MoveTokens DEF From
<1>4. /\ WriteAhead(job'[j]) => WriteAhead(job[j])
      /\ WriteBehind(job[j]) => WriteBehind(job'[j])
  BY <1>1, MovingOn DEF From, Follows
<1>5. /\ \A k \in Jobs : Wrote(k)' = Wrote(k)
      /\ \A k \in Jobs : MayWrite(k)' => MayWrite(k)
  BY <1>1, <1>4 DEF Wrote, MayWrite
<1>6. WriteInv'
  BY <1>5 DEF Inv, WriteInv, WritesAreApproved
<1>7. told[j] = NoReply
  BY DEF Inv, TellInv
<1>8. ToldAsHappened'
  <2>1. told[j].kind = "none" /\ told[j].code = "none"
    BY <1>7 DEF NoReply
  <2>. QED  BY <1>1, <1>5, <2>1 DEF Inv, TellInv, ToldAsHappened
<1>9. job[j].acted = "written" => job'[j].target = job[j].target
  <2>1. Live(job[j]) /\ job[j].at \in 1 .. End(job[j])
    BY DEF Inv, TypeInv, JobInv
  <2>2. job[j].acted = "written" => Call(job[j]) \notin Lookups
    BY <2>1, OneWrite DEF Inv, TellInv
  <2>. QED  BY <1>1, <2>2 DEF From, Follows
<1>10. TellInv'
  <2>1. \A k \in Jobs \ {j} :
          /\ job'[k].state # "done" => told'[k] = NoReply
          /\ job'[k].state = "busy" =>
               /\ job'[k].acted = "written" => WriteBehind(job'[k])
               /\ job'[k].acted = "written" /\ job'[k].target # Ghost => Wrote(k)'
               /\ Wrote(k)' => \/ job'[k].acted = "written" /\ job'[k].target # Ghost
                               \/ job'[k].failed \cap Noted # {}
    BY <1>1, <1>5 DEF Inv, TellInv
  <2>2. /\ job'[j].state # "done" => told'[j] = NoReply
        /\ job'[j].acted = "written" => WriteBehind(job'[j])
        /\ job'[j].acted = "written" /\ job'[j].target # Ghost => Wrote(j)'
        /\ Wrote(j)' => \/ job'[j].acted = "written" /\ job'[j].target # Ghost
                        \/ job'[j].failed \cap Noted # {}
    BY <1>1, <1>4, <1>5, <1>7, <1>9 DEF Inv, TellInv, From, Follows
  <2>. QED  BY <1>8, <2>1, <2>2 DEF TellInv
<1>. QED  BY <1>2, <1>3, <1>6, <1>10 DEF Inv

\* A step that ends the job with a reply that fails, and touches nothing but its
\* token.
LEMMA EndKeeps ==
  ASSUME Inv, NEW j \in Jobs, job[j].state = "busy", NEW b, NEW code,
         Answer(j, b, Error(code)), code # "APPROVAL_REQUIRED",
         UNCHANGED <<approval, paused, writes>>,
         OthersKeep(j), j \in slots' => "slot" \in b.failed
  PROVE  Inv'
<1>. DEFINE c == [NoJob EXCEPT !.state = "done", !.failed = b.failed \cap {"slot"},
                               !.lost = b.failed \cap Noted # {}]
<1>1. Error(code).kind = "error" /\ Error(code).code = code
  BY DEF Error, NoReply
<1>2. TypeInv'
  BY <1>1, EndTypes DEF Inv, TypeInv, OthersKeep, Kinds
<1>3. c.state = "done" /\ c.failed = b.failed \cap {"slot"}
  BY DEF NoJob
<1>4. job' = [job EXCEPT ![j] = c] /\ told' = [told EXCEPT ![j] = Error(code)]
  BY DEF Answer
<1>. HIDE DEF c
<1>5. /\ job'[j] = c /\ told'[j] = Error(code)
      /\ \A k \in Jobs \ {j} : job'[k] = job[k] /\ told'[k] = told[k]
  BY <1>4 DEF Inv, TypeInv
<1>6. TokenInv'
  BY <1>3, <1>5 DEF Inv, TokenInv, OthersKeep
<1>7. /\ \A k \in Jobs : Wrote(k)' = Wrote(k)
      /\ \A k \in Jobs : MayWrite(k)' => MayWrite(k)
  BY <1>3, <1>5 DEF Wrote, MayWrite
<1>8. WriteInv'
  BY <1>7 DEF Inv, WriteInv, WritesAreApproved
<1>9. ToldAsHappened'
  BY <1>1, <1>5, <1>7 DEF Inv, TellInv, ToldAsHappened
<1>10. TellInv'
  BY <1>3, <1>5, <1>7, <1>9 DEF Inv, TellInv
<1>. QED  BY <1>2, <1>6, <1>8, <1>10 DEF Inv

\* An error that ends a workflow never asks for an approval by mistake.
LEMMA ErrorCodes ==
  \A b : Refusal(b) # "APPROVAL_REQUIRED" /\ Code(b) # "APPROVAL_REQUIRED"
<1>. TAKE b
<1>1. Code(b) # "APPROVAL_REQUIRED"
  BY DEF Code
<1>2. \A c : Invalid(c) \in {"none", "INVALID_REQUEST"}
  BY DEF Invalid
<1>3. Refusal(b) \in {"none", "INVALID_REQUEST", "UNSUPPORTED_PLATFORM", "MISSING_PRODUCT",
                      "UNSUPPORTED_REPORT_TYPE", "SKILL_FAILED"}
  BY <1>2 DEF Refusal, WorkflowRefusal, FoundRefusal, AdRefusal, SocialRefusal, CustomerRefusal, CheckRefusal,
     ReportRefusal, GoodsRefusal, StockRefusal, CompetitorRefusal, OrderRefusal
<1>. QED  BY <1>1, <1>3

-----------------------------------------------------------------------------
(* The steps that make no write.                                           *)

\* A job at a call.
LEMMA AtFacts ==
  ASSUME Inv, NEW j \in Jobs, job[j].state = "busy", job[j].at < End(job[j])
  PROVE  /\ job[j] \in JobRecords /\ Live(job[j]) /\ AdTarget(job[j])
         /\ job[j].at \in 1 .. End(job[j])
         /\ From(job[j], job[j])
         /\ \A part \in Kept : From(Miss(job[j], part), job[j]) /\ part \in Miss(job[j], part).failed
<1>1. /\ job[j] \in JobRecords /\ Live(job[j]) /\ AdTarget(job[j])
      /\ job[j].at \in 1 .. End(job[j])
  BY DEF Inv, TypeInv, JobInv
<1>. QED  BY <1>1, SameFacts, MissFacts

\* A generation that holds a token without having noted a failure is at one of
\* three calls.
LEMMA HolderAt ==
  ASSUME Inv, NEW j \in Jobs, j \in slots, "slot" \notin job[j].failed
  PROVE  /\ job[j].state = "busy" /\ job[j].req.type = "social_marketing" /\ Redis
         /\ job[j].at \in 4 .. 6 /\ job[j].at < End(job[j])
         /\ Call(job[j]) \in {"expire", "gather", "srem"}
         /\ job[j].at = 4 <=> Call(job[j]) = "expire"
         /\ job[j].at = 6 <=> Call(job[j]) = "srem"
<1>1. /\ job[j].state = "busy" /\ job[j].req.type = "social_marketing" /\ Redis
      /\ job[j].at \in 4 .. 6
  BY DEF Inv, TokenInv
<1>2. Pipeline(job[j]) = Social
  BY <1>1, SocialPipeline
<1>3. Len(Social) = 6 /\ Social[4] = "expire" /\ Social[5] = "gather" /\ Social[6] = "srem"
  BY DEF Social
<1>4. End(job[j]) = 7
  <2>1. Len(Social) = 6
    BY <1>3
  <2>2. End(job[j]) = Len(Pipeline(job[j])) + 1
    BY DEF End
  <2>3. Len(Pipeline(job[j])) = 6
    BY <1>2, <2>1
  <2>. QED  BY <2>2, <2>3
<1>5. Call(job[j]) = Social[job[j].at]
  BY <1>2 DEF Call
<1>6. job[j].at = 4 \/ job[j].at = 5 \/ job[j].at = 6
  BY <1>1
<1>. QED  BY <1>1, <1>3, <1>4, <1>5, <1>6

\* A step that leaves the token of a job at another call moves it, or ends it.
LEMMA PlainMove ==
  ASSUME Inv, NEW j \in Jobs, job[j].state = "busy", job[j].at < End(job[j]),
         Call(job[j]) \notin {"expire", "srem"},
         NEW b, From(b, job[j]), Goto(j, b), UNCHANGED <<told, approval, paused, writes, slots>>
  PROVE  Inv'
<1>1. OthersKeep(j)
  BY DEF Inv, TypeInv, OthersKeep
<1>2. ASSUME j \in slots, "slot" \notin b.failed
      PROVE  Redis /\ b.req.type = "social_marketing" /\ b.at \in 3 .. 5
  <2>1. "slot" \notin job[j].failed
    BY <1>2 DEF From, Follows
  <2>. QED  BY <1>2, <2>1, HolderAt DEF From, Follows
<1>. QED  BY <1>1, <1>2, MoveKeeps

LEMMA PlainEnd ==
  ASSUME Inv, NEW j \in Jobs, job[j].state = "busy",
         job[j].at < End(job[j]) => Call(job[j]) \notin {"expire", "gather", "srem"},
         NEW code, Answer(j, job[j], Error(code)), code # "APPROVAL_REQUIRED",
         UNCHANGED <<approval, paused, writes, slots>>
  PROVE  Inv'
<1>1. OthersKeep(j)
  BY DEF Inv, TypeInv, OthersKeep
<1>2. j \in slots => "slot" \in job[j].failed
  BY HolderAt
<1>. QED  BY <1>1, <1>2, EndKeeps

\* Only a generation makes calls about tokens, in one order.
LEMMA TokenCalls ==
  ASSUME NEW b \in JobRecords, Live(b), b.at \in 1 .. End(b), b.at < End(b),
         Call(b) \in {"scard", "sadd", "expire", "gather", "srem"}
  PROVE  /\ b.req.type = "social_marketing"
         /\ Call(b) = "sadd" => b.at = 3
<1>1. /\ DOMAIN Pipeline(b) = 1 .. Len(Pipeline(b)) /\ Len(Pipeline(b)) \in Nat
      /\ End(b) = Len(Pipeline(b)) + 1
  BY PipelineFacts DEF End
<1>2. b.at \in DOMAIN Pipeline(b) /\ Call(b) = Pipeline(b)[b.at]
  BY <1>1 DEF Call
<1>. DEFINE Free(p) == \A n \in DOMAIN p :
              p[n] \notin {"scard", "sadd", "expire", "gather", "srem"}
<1>3. Free(Advertising) /\ Free(RiskControl) /\ Free(Customer) /\ Free(Report)
  BY DEF Advertising, RiskControl, Customer, Report
<1>4. Free(Search) /\ Free(DataCheck) /\ Free(Read)
  BY DEF Search, DataCheck, Read
<1>5. ASSUME NEW S, GoodsSteps \subseteq S, NEW t \in Seq(S),
             \A n \in 1 .. Len(t) : t[n] \notin {"scard", "sadd", "expire", "gather", "srem"}
      PROVE  Free(Search \o t)
  <2>1. \A n \in 1 .. 6 : Search[n] \notin {"scard", "sadd", "expire", "gather", "srem"}
    BY DEF Search
  <2>. QED  BY <1>5, <2>1, AfterSearch
<1>6. Free(Stock)
  <2>. DEFINE t == <<"parse", "low_stock", "stock_predict", "explain">>
              S == GoodsSteps \cup {"parse", "low_stock", "stock_predict", "explain"}
  <2>1. /\ t \in Seq(S)
        /\ \A n \in 1 .. Len(t) : t[n] \notin {"scard", "sadd", "expire", "gather", "srem"}
    OBVIOUS
  <2>2. Stock = Search \o t
    BY DEF Stock
  <2>. HIDE DEF t, Free
  <2>. QED  BY <1>5, <2>1, <2>2
<1>7. Free(Competitor)
  <2>. DEFINE t == <<"parse", "compare", "adapter", "price_history", "recall_alerts",
                     "price_monitor", "explain">>
              S == GoodsSteps \cup {"parse", "compare", "adapter", "price_history",
                                    "recall_alerts", "price_monitor", "explain"}
  <2>1. /\ t \in Seq(S)
        /\ \A n \in 1 .. Len(t) : t[n] \notin {"scard", "sadd", "expire", "gather", "srem"}
    OBVIOUS
  <2>2. Competitor = Search \o t
    BY DEF Competitor
  <2>. HIDE DEF t, Free
  <2>. QED  BY <1>5, <2>1, <2>2
<1>8. b.req.type # "social_marketing" => Free(Pipeline(b))
  <2>. HIDE DEF Free
  <2>. SUFFICES ASSUME b.req.type # "social_marketing" PROVE Free(Pipeline(b))
    OBVIOUS
  <2>. DEFINE K == b.req.type
  <2>1. K \in {"ad_optimize", "risk_control", "customer_service",
               "ops_report", "goods_search", "goods_catalog", "stock_analysis",
               "competitor_watch", "data_check", "order_query", "ad_query"}
    BY DEF Live, TaskTypes, ExecPipelines, QueryPipelines
  <2>2. Pipeline(b) = IF K \in DOMAIN ExecPipelines THEN ExecPipelines[K] ELSE QueryPipelines[K]
    BY DEF Pipeline, OfExec
  <2>. HIDE DEF K
  <2>3. Pipeline(b) \in {Advertising, RiskControl, Customer, Report, Search,
                         Stock, Competitor, DataCheck, Read}
    BY <2>1, <2>2 DEF ExecPipelines, QueryPipelines
  <2>. QED  BY <1>3, <1>4, <1>6, <1>7, <2>3
<1>9. b.req.type = "social_marketing"
  BY <1>2, <1>8
<1>10. Pipeline(b) = Social
  BY <1>9, SocialPipeline
<1>11. Call(b) = "sadd" => b.at = 3
  BY <1>2, <1>10 DEF Social
<1>. QED  BY <1>9, <1>11

\* The steps of a generation about its token.
LEMMA TokenStep ==
  ASSUME Inv, NEW j \in Jobs, Count(j) \/ Add(j) \/ Expire(j) \/ Remove(j)
                               \/ SlotFails(j) \/ Deadline(j)
  PROVE  Inv'
<1>1. /\ job[j].state = "busy" /\ job[j].at < End(job[j])
      /\ UNCHANGED <<told, approval, paused, writes>>
      /\ Call(job[j]) \in {"scard", "sadd", "expire", "srem"}
  BY DEF At, Count, Add, Expire, Remove, SlotFails, Deadline, SlotCalls
<1>2. /\ From(job[j], job[j]) /\ From(Miss(job[j], "slot"), job[j])
      /\ "slot" \in Miss(job[j], "slot").failed
  BY <1>1, AtFacts DEF Kept, Silent
<1>3. /\ job[j].req.type = "social_marketing"
      /\ Call(job[j]) = "sadd" => job[j].at = 3
  BY <1>1, AtFacts, TokenCalls
<1>4. slots \subseteq Jobs \cup Others
  BY DEF Inv, TypeInv
<1>5. CASE Count(j)
  BY <1>1, <1>2, <1>5, PlainMove DEF Count, At
<1>6. CASE Add(j)
  <2>1. Call(job[j]) = "sadd" /\ slots' = slots \cup {j} /\ Goto(j, job[j])
    BY <1>6 DEF Add, At
  <2>2. OthersKeep(j)
    BY <1>4, <2>1 DEF OthersKeep
  <2>3. Redis /\ job[j].at \in 3 .. 5
    BY <1>1, <1>3, <2>1 DEF Inv, TokenInv
  <2>. QED  BY <1>1, <1>2, <1>3, <2>1, <2>2, <2>3, MoveKeeps
<1>7. CASE Expire(j)
  <2>1. Call(job[j]) = "expire" /\ slots' = slots /\ Goto(j, job[j])
    BY <1>7 DEF Expire, At
  <2>2. OthersKeep(j)
    BY <1>4, <2>1 DEF OthersKeep
  <2>3. j \in slots /\ "slot" \notin job[j].failed => Redis /\ job[j].at \in 3 .. 5
    BY <2>1, HolderAt
  <2>. QED  BY <1>1, <1>2, <1>3, <2>1, <2>2, <2>3, MoveKeeps
<1>8. CASE Remove(j)
  <2>1. slots' = slots \ {j} /\ Goto(j, job[j])
    BY <1>8 DEF Remove
  <2>2. OthersKeep(j)
    BY <1>4, <2>1 DEF OthersKeep
  <2>. QED  BY <1>1, <1>2, <2>1, <2>2, MoveKeeps
<1>9. CASE SlotFails(j)
  <2>1. slots' \in Touched(j) /\ Goto(j, Miss(job[j], "slot"))
    BY <1>9 DEF SlotFails
  <2>2. slots' \in {slots, slots \cup {j}, slots \ {j}}
    BY <2>1 DEF Touched
  <2>3. OthersKeep(j)
    BY <1>4, <2>2 DEF OthersKeep
  <2>. QED  BY <1>1, <1>2, <2>1, <2>3, MoveKeeps
<1>10. CASE Deadline(j)
  <2>1. slots' = slots /\ Goto(j, Miss(job[j], "slot"))
    BY <1>10 DEF Deadline
  <2>2. OthersKeep(j)
    BY <1>4, <2>1 DEF OthersKeep
  <2>. QED  BY <1>1, <1>2, <2>1, <2>2, MoveKeeps
<1>. QED  BY <1>5, <1>6, <1>7, <1>8, <1>9, <1>10

\* A timeout in a generation, which may leave its token behind and then notes it.
LEMMA BreakSlotStep == ASSUME Inv, NEW j \in Jobs, BreakSlot(j) PROVE Inv'
<1>1. /\ job[j].state = "busy" /\ job[j].at < End(job[j])
      /\ UNCHANGED <<approval, paused, writes>>
  BY DEF BreakSlot, At
<1>2. "slot" \in Miss(job[j], "slot").failed
  BY <1>1, AtFacts DEF Kept, Silent
<1>3. /\ slots \subseteq Jobs \cup Others
      /\ slots' \in {slots, slots \cup {j}, slots \ {j}}
  BY DEF BreakSlot, Touched, Inv, TypeInv
<1>4. OthersKeep(j)
  BY <1>3 DEF OthersKeep
<1>5. \/ Answer(j, Miss(job[j], "slot"), Error("AGENT_TIMEOUT"))
      \/ /\ Answer(j, job[j], Error("AGENT_TIMEOUT"))
         /\ j \in slots' => "slot" \in job[j].failed
  BY DEF BreakSlot, Failed
<1>. QED  BY <1>1, <1>2, <1>4, <1>5, EndKeeps

\* The calls that have nothing to do with tokens or writes.
LEMMA CallStep ==
  ASSUME Inv, NEW j \in Jobs, Parse(j) \/ Succeed(j) \/ Fail(j) \/ Break(j)
  PROVE  Inv'
<1>1. /\ job[j].state = "busy" /\ job[j].at < End(job[j])
      /\ UNCHANGED <<approval, paused, writes, slots>>
      /\ Call(job[j]) \notin {"expire", "srem"}
  BY DEF At, Parse, Plain, Succeed, Fail, Break, SlotCalls, Checks
<1>2. /\ job[j] \in JobRecords /\ Live(job[j]) /\ AdTarget(job[j])
      /\ job[j].at \in 1 .. End(job[j]) /\ From(job[j], job[j])
      /\ \A part \in Kept : From(Miss(job[j], part), job[j])
  BY <1>1, AtFacts
<1>3. CASE Parse(j)
  <2>1. Call(job[j]) \in Checks
    BY <1>3 DEF Parse, At
  <2>2. "memory" \in Kept
    BY DEF Kept, Noted
  <2>3. \/ Goto(j, job[j]) /\ told' = told
        \/ Goto(j, Miss(job[j], "memory")) /\ told' = told
        \/ Answer(j, job[j], Error(Refusal(job[j])))
    BY <1>3 DEF Parse
  <2>. QED  BY <1>1, <1>2, <2>1, <2>2, <2>3, PlainMove, PlainEnd, ErrorCodes DEF Checks
<1>4. CASE Succeed(j)
  <2>1. PICK b \in Learnt(job[j], Campaigns \ paused) : Goto(j, b)
    BY <1>4 DEF Succeed
  <2>2. Campaigns \ paused \in SUBSET Campaigns
    OBVIOUS
  <2>3. From(b, job[j])
    BY <1>1, <1>2, <2>2, LearntFacts
  <2>. QED  BY <1>1, <1>4, <2>1, <2>3, PlainMove DEF Succeed
<1>5. CASE Fail(j)
  <2>1. "deadline" \in Kept /\ \A call \in Silent \cup Noted : call \in Kept
    BY DEF Kept
  <2>2. \/ \E part \in Kept : Goto(j, Miss(job[j], part)) /\ told' = told
        \/ Call(job[j]) # "gather" /\ Answer(j, job[j], Error(Code(job[j])))
    BY <1>5, <2>1 DEF Fail
  <2>. QED  BY <1>1, <1>2, <2>2, PlainMove, PlainEnd, ErrorCodes
<1>6. CASE Break(j)
  BY <1>1, <1>6, PlainEnd DEF Break
<1>. QED  BY <1>3, <1>4, <1>5, <1>6

\* What the reply of a workflow says of its write is what the job knows.
LEMMA FinishStep == ASSUME Inv, NEW j \in Jobs, Finish(j) PROVE Inv'
<1>. DEFINE b == job[j]
            c == [NoJob EXCEPT !.state = "done", !.failed = b.failed \cap {"slot"},
                               !.lost = b.failed \cap Noted # {}]
<1>1. /\ b.state = "busy" /\ b.at = End(b) /\ Answer(j, b, Reply(b))
      /\ UNCHANGED <<approval, paused, writes, slots>>
  BY DEF Finish
<1>2. b \in JobRecords /\ Live(b)
  BY <1>1 DEF Inv, TypeInv, JobInv
<1>3. End(b) \in Nat
  BY <1>2, PipelineFacts
<1>4. CASE \/ Failed(b, "deadline")
           \/ Parts(b) # {} /\ Parts(b) \subseteq b.failed
  <2>1. Reply(b) \in {Error("WORKFLOW_TIMEOUT"), Error("SKILL_FAILED")}
    BY <1>4 DEF Reply, Ended
  <2>. HIDE DEF b
  <2>2. ~(b.at < End(b))
    BY <1>1, <1>3
  <2>. USE DEF b
  <2>. QED  BY <1>1, <2>1, <2>2, PlainEnd
<1>5. CASE ~ \/ Failed(b, "deadline")
             \/ Parts(b) # {} /\ Parts(b) \subseteq b.failed
  <2>1. Reply(b) = Done(IF b.failed \cap Noted # {} THEN "partial" ELSE "whole", b)
    BY <1>5 DEF Reply, Ended
  <2>2. /\ Reply(b).kind = IF b.failed \cap Noted # {} THEN "partial" ELSE "whole"
        /\ Reply(b).acted = b.acted /\ Reply(b).target = b.target /\ Reply(b).code = "none"
    BY <2>1 DEF Done, NoReply
  <2>3. c.state = "done" /\ c.failed = b.failed \cap {"slot"}
        /\ (c.lost <=> b.failed \cap Noted # {})
    BY DEF NoJob
  <2>4. job' = [job EXCEPT ![j] = c] /\ told' = [told EXCEPT ![j] = Reply(b)]
    BY <1>1 DEF Answer
  <2>. HIDE DEF b, c
  <2>5. /\ job'[j] = c /\ told'[j] = Reply(b)
        /\ \A k \in Jobs \ {j} : job'[k] = job[k] /\ told'[k] = told[k]
    BY <2>4 DEF Inv, TypeInv
  <2>6. TypeInv'
    <3>1. Reply(b).kind \in Kinds \ {"none"}
      BY <2>2 DEF Kinds
    <3>. QED  BY <1>1, <3>1, EndTypes DEF Inv, TypeInv
  <2>7. j \in slots => "slot" \in b.failed
    <3>. SUFFICES ASSUME j \in slots, "slot" \notin b.failed PROVE FALSE
      OBVIOUS
    <3>1. b.at < End(b)
      BY HolderAt DEF b
    <3>. QED  BY <1>1, <1>3, <3>1
  <2>8. TokenInv'
    BY <1>1, <2>3, <2>5, <2>7 DEF Inv, TokenInv
  <2>9. /\ \A k \in Jobs : Wrote(k)' = Wrote(k)
        /\ \A k \in Jobs : MayWrite(k)' => MayWrite(k)
    BY <1>1, <2>3, <2>5 DEF Wrote, MayWrite
  <2>10. WriteInv'
    BY <1>1, <2>9 DEF Inv, WriteInv, WritesAreApproved
  <2>11. /\ b.acted = "written" /\ b.target # Ghost => Wrote(j)
         /\ Wrote(j) => \/ b.acted = "written" /\ b.target # Ghost
                        \/ b.failed \cap Noted # {}
    BY <1>1 DEF Inv, TellInv, b
  <2>12. ToldAsHappened'
    BY <1>1, <2>2, <2>3, <2>5, <2>9, <2>11 DEF Inv, TellInv, ToldAsHappened
  <2>13. TellInv'
    BY <2>3, <2>5, <2>9, <2>12 DEF Inv, TellInv
  <2>. QED  BY <2>6, <2>8, <2>10, <2>13 DEF Inv
<1>. QED  BY <1>4, <1>5

-----------------------------------------------------------------------------
(* The write.                                                              *)

\* What the approval and the write of a job may become.
Asked(j) ==
  /\ approval' = [approval EXCEPT ![j] = [state |-> "pending", what |-> What(job[j])]]
  /\ writes' = writes
Spent(j) ==
  /\ Fits(j) /\ UseApproval(j)
  /\ \/ writes' = writes
     \/ /\ job[j].target # Ghost
        /\ writes' = writes \cup
             {[job |-> j, grant |-> job[j].grant, what |-> What(job[j])]}

\* An operation is one of four, and its object has a name.
LEMMA WhatType ==
  ASSUME NEW b \in JobRecords, NEW st \in {"none", "pending", "approved", "consumed"}
  PROVE  [state |-> st, what |-> What(b)] \in Approvals
<1>1. Operation(b) \in {"none", "pause_campaign", "taobao_api", "mark_order_risk",
                        "record_order_risk"}
  BY DEF Operation
<1>2. b.target \in Things
  BY DEF JobRecords
<1>. QED  BY <1>1, <1>2 DEF What, Approvals

\* A job past its write has done nothing to the approvals and writes of others
\* but use up the approval it was given.
LEMMA WriteEffects ==
  ASSUME Inv, NEW j \in Jobs, MayWrite(j), ~MayWrite(j)',
         \A k \in Jobs \ {j} : job'[k] = job[k],
         job[j] \in JobRecords,
         UNCHANGED <<approval, writes>> \/ Asked(j) \/ Spent(j)
  PROVE  /\ WriteInv' /\ approval' \in [Jobs -> Approvals]
         /\ \A k \in Jobs \ {j} :
              /\ Wrote(k)' = Wrote(k)
              /\ approval[k].state # "none" =>
                   approval'[k].state # "none" /\ approval'[k].what = approval[k].what
<1>1. /\ approval \in [Jobs -> Approvals] /\ approval[j].state = "none" /\ ~Wrote(j)
      /\ None \notin Jobs
  BY WorkflowsAssumption DEF Inv, TypeInv, WriteInv
<1>2. \A k \in Jobs \ {j} : MayWrite(k)' => MayWrite(k)
  BY DEF MayWrite
<1>u. \A w \in writes : /\ approval[w.grant].state = "consumed"
                         /\ w.grant \in Jobs /\ w.grant # None
                         /\ approval[w.grant] = [state |-> "consumed", what |-> w.what]
  <2>1. \A w \in writes : /\ w.grant \in Jobs /\ w.grant # None
                          /\ approval[w.grant] = [state |-> "consumed", what |-> w.what]
    BY DEF Inv, WriteInv, WritesAreApproved
  <2>2. \A x, y : x = [state |-> "consumed", what |-> y] => x.state = "consumed"
    OBVIOUS
  <2>3. \A w \in writes : approval[w.grant].state = "consumed"
    BY <2>1, <2>2, Zenon
  <2>. QED  BY <2>1, <2>3
<1>3. CASE UNCHANGED <<approval, writes>>
  BY <1>1, <1>2, <1>3 DEF Inv, WriteInv, WritesAreApproved, Wrote
<1>4. CASE Asked(j)
  <2>1. /\ writes' = writes
        /\ approval' \in [Jobs -> Approvals]
        /\ \A k \in Jobs \ {j} : approval'[k] = approval[k]
    BY <1>1, <1>4, WhatType DEF Asked
  <2>2. \A w \in writes : w.grant # j
    BY <1>1, <1>u
  <2>3. WriteInv'
    BY <1>2, <2>1, <2>2 DEF Inv, WriteInv, WritesAreApproved, Wrote
  <2>. QED  BY <2>1, <2>3 DEF Wrote
<1>5. CASE Spent(j)
  <2>. DEFINE g == job[j].grant
              w == [job |-> j, grant |-> job[j].grant, what |-> What(job[j])]
  <2>1. g # None /\ approval[g] = [state |-> "approved", what |-> What(job[j])]
    BY <1>5 DEF Spent, Fits
  <2>2. g \in Jobs
    BY <2>1 DEF JobRecords
  <2>3. g # j /\ ~MayWrite(g) /\ approval[g].state = "approved"
    BY <1>1, <2>1, <2>2 DEF Inv, WriteInv
  <2>4. /\ approval' = [approval EXCEPT ![g] = [@ EXCEPT !.state = "consumed"]]
        /\ [approval[g] EXCEPT !.state = "consumed"] =
             [state |-> "consumed", what |-> What(job[j])]
        /\ [state |-> "consumed", what |-> What(job[j])] \in Approvals
    <3>1. approval' = [approval EXCEPT ![g] = [@ EXCEPT !.state = "consumed"]]
      BY <1>5 DEF Spent, UseApproval
    <3>2. \A x : [[state |-> "approved", what |-> x] EXCEPT !.state = "consumed"] =
                 [state |-> "consumed", what |-> x]
      OBVIOUS
    <3>. QED  BY <2>1, <3>1, <3>2, WhatType
  <2>5. /\ approval' \in [Jobs -> Approvals]
        /\ approval'[g] = [state |-> "consumed", what |-> What(job[j])]
        /\ \A k \in Jobs \ {g} : approval'[k] = approval[k]
    BY <1>1, <2>2, <2>4
  <2>6. w.job = j /\ w.grant = g /\ w.what = What(job[j])
    OBVIOUS
  <2>7. writes' = writes \/ writes' = writes \cup {w}
    BY <1>5 DEF Spent
  <2>8. \A v \in writes : /\ v.grant # g /\ v.grant \in Jobs /\ v.grant # None
                          /\ approval[v.grant] = [state |-> "consumed", what |-> v.what]
    BY <2>3, <1>u
  <2>. HIDE DEF g, w
  <2>9. \A v \in writes' : \/ v \in writes
                           \/ v = w
    BY <2>7
  <2>10. WritesAreApproved'
    <3>1. \A v \in writes' : /\ v.grant # None
                             /\ approval'[v.grant] = [state |-> "consumed", what |-> v.what]
      BY <2>1, <2>5, <2>6, <2>8, <2>9
    <3>2. \A v \in writes : v.job # j
      BY <1>1 DEF Wrote
    <3>3. \A v, x \in writes' : v.grant = x.grant \/ v.job = x.job => v = x
      <4>1. \A v, x \in writes : v.grant = x.grant \/ v.job = x.job => v = x
        BY DEF Inv, WriteInv, WritesAreApproved
      <4>. QED  BY <2>6, <2>8, <2>9, <3>2, <4>1
    <3>. QED  BY <3>1, <3>3 DEF WritesAreApproved
  <2>11. \A k \in Jobs \ {j} : Wrote(k)' = Wrote(k)
    BY <2>6, <2>7 DEF Wrote
  <2>12. \A k \in Jobs : MayWrite(k)' => approval'[k].state = "none" /\ ~Wrote(k)'
    BY <1>2, <2>3, <2>5, <2>11 DEF Inv, WriteInv
  <2>13. \A v \in writes' : v.grant \in Jobs
    BY <2>2, <2>6, <2>8, <2>9
  <2>14. approval'[g].what = approval[g].what
    BY <2>1, <2>5
  <2>15. approval'[g].state # "none"
    BY <2>5
  <2>. QED  BY <2>5, <2>10, <2>11, <2>12, <2>13, <2>14, <2>15 DEF WriteInv
<1>. QED  BY <1>3, <1>4, <1>5

\* What a step of the write has to leave: the job's own account of it.
LEMMA WriteMove ==
  ASSUME Inv, NEW j \in Jobs, At(j, {"write"}), NEW b, Follows(b, job[j]), Goto(j, b),
         UNCHANGED <<told, slots>>, paused' \subseteq Campaigns,
         UNCHANGED <<approval, writes>> \/ Asked(j) \/ Spent(j),
         b.acted = "written" /\ b.target # Ghost => Wrote(j)',
         Wrote(j)' => \/ b.acted = "written" /\ b.target # Ghost
                      \/ b.failed \cap Noted # {}
  PROVE  Inv'
<1>1. job[j].state = "busy" /\ job[j].at < End(job[j]) /\ Call(job[j]) = "write"
  BY DEF At
<1>2. /\ b \in JobRecords /\ b.state = "busy" /\ Live(b) /\ AdTarget(b)
      /\ b.at \in 1 .. End(b) /\ b.at < End(b)
      /\ \A k \in Jobs \ {j} : job'[k] = job[k]
      /\ job'[j].state = "busy" /\ job'[j].req = b.req
      /\ job'[j].target = b.target /\ job'[j].failed = b.failed /\ job'[j].acted = b.acted
      /\ job'[j].at \in 1 .. End(b) /\ b.at < job'[j].at
  BY <1>1, MoveFacts DEF Inv
<1>3. WriteBehind(job'[j]) /\ WriteAhead(job[j]) /\ ~WriteAhead(job'[j])
  BY <1>1, <1>2, MovingOn DEF Follows
<1>4. MayWrite(j) /\ ~MayWrite(j)'
  BY <1>1, <1>2, <1>3 DEF MayWrite
<1>5. /\ WriteInv' /\ approval' \in [Jobs -> Approvals]
      /\ \A k \in Jobs \ {j} :
           /\ Wrote(k)' = Wrote(k)
           /\ approval[k].state # "none" =>
                approval'[k].state # "none" /\ approval'[k].what = approval[k].what
  BY <1>2, <1>4, WriteEffects DEF Inv, TypeInv
<1>6. OthersKeep(j)
  BY DEF Inv, TypeInv, OthersKeep
<1>7. TypeInv'
  BY <1>1, <1>2, <1>5, <1>6, MoveTypes DEF Inv, OthersKeep
<1>8. TokenInv'
  <2>1. j \in slots => "slot" \in job[j].failed
    BY <1>1, HolderAt
  <2>2. j \in slots => "slot" \in b.failed
    BY <2>1 DEF Follows
  <2>. QED  BY <1>1, <1>6, <2>2, MoveTokens
<1>9. told[j].kind = "none" /\ told[j].code = "none" /\ told[j] = NoReply
  BY <1>1 DEF Inv, TellInv, NoReply
<1>10. ToldAsHappened'
  BY <1>2, <1>5, <1>9 DEF Inv, TellInv, ToldAsHappened
<1>11. TellInv'
  BY <1>2, <1>3, <1>5, <1>9, <1>10 DEF Inv, TellInv
<1>. QED  BY <1>5, <1>7, <1>8, <1>11 DEF Inv

\* An error ends the job at its write; a request for approval has one to name.
LEMMA WriteEnd ==
  ASSUME Inv, NEW j \in Jobs, At(j, {"write"}), NEW reply, Answer(j, job[j], reply),
         reply.kind = "error", slots' = slots, paused' \subseteq Campaigns,
         UNCHANGED <<approval, writes>> \/ Asked(j) \/ Spent(j),
         reply.code = "APPROVAL_REQUIRED" =>
           Asked(j) /\ What(job[j]).target = reply.target
  PROVE  Inv'
<1>. DEFINE c == [NoJob EXCEPT !.state = "done", !.failed = job[j].failed \cap {"slot"},
                               !.lost = job[j].failed \cap Noted # {}]
<1>1. job[j].state = "busy" /\ job[j].at < End(job[j]) /\ Call(job[j]) = "write"
  BY DEF At
<1>2. /\ job[j] \in JobRecords /\ Live(job[j]) /\ job[j].at \in 1 .. End(job[j])
  BY <1>1, AtFacts
<1>3. c.state = "done" /\ c.failed = job[j].failed \cap {"slot"}
  BY DEF NoJob
<1>4. job' = [job EXCEPT ![j] = c] /\ told' = [told EXCEPT ![j] = reply]
  BY DEF Answer
<1>. HIDE DEF c
<1>5. /\ job'[j] = c /\ told'[j] = reply
      /\ \A k \in Jobs \ {j} : job'[k] = job[k] /\ told'[k] = told[k]
  BY <1>4 DEF Inv, TypeInv
<1>6. job[j].at \in DOMAIN Pipeline(job[j])
  <2>1. /\ DOMAIN Pipeline(job[j]) = 1 .. Len(Pipeline(job[j])) /\ Len(Pipeline(job[j])) \in Nat
        /\ End(job[j]) = Len(Pipeline(job[j])) + 1
    BY <1>2, PipelineFacts DEF End
  <2>. QED  BY <1>1, <1>2, <2>1
<1>7. WriteAhead(job[j])
  <2>1. Pipeline(job[j])[job[j].at] = "write"
    BY <1>1 DEF Call
  <2>2. job[j].at <= job[j].at
    BY <1>2 DEF JobRecords
  <2>. QED  BY <1>6, <2>1, <2>2 DEF WriteAhead
<1>8. MayWrite(j) /\ ~MayWrite(j)'
  BY <1>1, <1>3, <1>5, <1>7 DEF MayWrite
<1>9. /\ WriteInv' /\ approval' \in [Jobs -> Approvals]
      /\ \A k \in Jobs \ {j} :
           /\ Wrote(k)' = Wrote(k)
           /\ approval[k].state # "none" =>
                approval'[k].state # "none" /\ approval'[k].what = approval[k].what
  BY <1>2, <1>5, <1>8, WriteEffects
<1>10. TypeInv'
  BY <1>9, EndTypes DEF Inv, TypeInv, Kinds
<1>11. TokenInv'
  <2>1. j \in slots => "slot" \in job[j].failed
    BY <1>1, HolderAt
  <2>. QED  BY <1>3, <1>5, <2>1 DEF Inv, TokenInv
<1>12. ASSUME reply.code = "APPROVAL_REQUIRED"
       PROVE  ~Wrote(j)' /\ approval'[j].state # "none" /\ approval'[j].what.target = reply.target
  <2>1. Asked(j) /\ What(job[j]).target = reply.target
    BY <1>12
  <2>2. ~Wrote(j)'
    BY <1>8, <2>1 DEF Inv, WriteInv, Wrote, Asked
  <2>3. approval'[j] = [state |-> "pending", what |-> What(job[j])]
    BY <2>1 DEF Asked, Inv, TypeInv
  <2>. QED  BY <2>1, <2>2, <2>3
<1>13. ToldAsHappened'
  BY <1>5, <1>9, <1>12 DEF Inv, TellInv, ToldAsHappened
<1>14. TellInv'
  BY <1>3, <1>5, <1>9, <1>13 DEF Inv, TellInv
<1>. QED  BY <1>9, <1>10, <1>11, <1>14 DEF Inv

\* A campaign that is paused is one of the provider.
LEMMA AppliedFacts ==
  ASSUME Inv, NEW j \in Jobs, At(j, {"write"})
  PROVE  /\ Applied(j) =>
              /\ paused' \subseteq Campaigns
              /\ IF job[j].target = Ghost THEN writes' = writes
                 ELSE writes' = writes \cup
                        {[job |-> j, grant |-> job[j].grant, what |-> What(job[j])]}
         /\ UNCHANGED paused => paused' \subseteq Campaigns
<1>1. job[j].state = "busy" /\ job[j].at < End(job[j]) /\ Call(job[j]) = "write"
  BY DEF At
<1>2. paused \subseteq Campaigns /\ AdTarget(job[j])
      /\ (job[j].req.type = "ad_optimize" => job[j].target # None)
  BY <1>1 DEF Inv, TypeInv, JobInv
<1>3. Operation(job[j]) = "pause_campaign" => job[j].req.type = "ad_optimize"
  BY DEF Operation
<1>. QED  BY <1>2, <1>3 DEF Applied, AdTarget

\* A write that fails ends the workflow, or is noted.
LEMMA WriteFailsKeeps ==
  ASSUME Inv, NEW j \in Jobs, At(j, {"write"}), NEW code, WriteFails(j, code),
         slots' = slots, paused' \subseteq Campaigns,
         UNCHANGED <<approval, writes>> \/ Asked(j) \/ Spent(j),
         code = "APPROVAL_REQUIRED" => Asked(j)
  PROVE  Inv'
<1>1. job[j].state = "busy" /\ job[j].at < End(job[j]) /\ Call(job[j]) = "write"
  BY DEF At
<1>2. CASE /\ Goto(j, Miss(job[j], "taobao")) /\ UNCHANGED told
  <2>. DEFINE b == Miss(job[j], "taobao")
  <2>1. From(b, job[j]) /\ "taobao" \in b.failed
    BY <1>1, AtFacts DEF Kept, Noted
  <2>2. b.failed \cap Noted # {}
    BY <2>1 DEF Noted
  <2>3. b.acted = "written" => FALSE
    <3>1. b.acted = job[j].acted
      BY <2>1 DEF From
    <3>2. ~WriteBehind(job[j])
      <4>1. Live(job[j]) /\ job[j].at \in 1 .. End(job[j]) /\ job[j] \in JobRecords
        BY <1>1, AtFacts
      <4>2. /\ DOMAIN Pipeline(job[j]) = 1 .. Len(Pipeline(job[j]))
            /\ Len(Pipeline(job[j])) \in Nat
            /\ End(job[j]) = Len(Pipeline(job[j])) + 1
        BY <4>1, PipelineFacts DEF End
      <4>3. WriteAhead(job[j])
        BY <1>1, <4>1, <4>2 DEF WriteAhead, Call
      <4>. QED  BY <4>1, <4>3, OneWrite
    <3>. QED  BY <1>1, <3>1, <3>2 DEF Inv, TellInv
  <2>. HIDE DEF b
  <2>4. Follows(b, job[j])
    BY <2>1 DEF From
  <2>. QED  BY <1>2, <2>2, <2>3, <2>4, WriteMove DEF b
<1>3. CASE Answer(j, job[j], [Error(code) EXCEPT !.target = job[j].target])
  <2>. DEFINE reply == [Error(code) EXCEPT !.target = job[j].target]
  <2>1. reply.kind = "error" /\ reply.code = code /\ reply.target = job[j].target
    BY DEF Error, NoReply
  <2>2. What(job[j]).target = job[j].target
    BY DEF What
  <2>. HIDE DEF reply
  <2>. QED  BY <1>3, <2>1, <2>2, WriteEnd DEF reply
<1>. QED  BY <1>2, <1>3 DEF WriteFails

\* The call of the write, however it ends.
LEMMA WriteStep ==
  ASSUME Inv, NEW j \in Jobs,
         Ask(j) \/ Refused(j) \/ Written(j) \/ WriteLost(j) \/ BreakWrite(j)
  PROVE  Inv'
<1>1. At(j, {"write"})
  BY DEF Ask, Refused, Written, WriteLost, BreakWrite
<1>2. job[j].state = "busy" /\ job[j].at < End(job[j]) /\ Call(job[j]) = "write"
  BY <1>1 DEF At
<1>3. CASE Ask(j)
  <2>1. UNCHANGED <<paused, writes, slots>>
    BY <1>3 DEF Ask
  <2>2. \/ Asked(j) /\ WriteFails(j, "APPROVAL_REQUIRED")
        \/ UNCHANGED <<approval, writes>> /\ WriteFails(j, "SKILL_EXECUTION_ERROR")
    BY <1>3, <2>1 DEF Ask, Asked
  <2>. QED  BY <1>1, <2>1, <2>2, AppliedFacts, WriteFailsKeeps
<1>4. CASE Refused(j)
  BY <1>1, <1>4, AppliedFacts, WriteFailsKeeps DEF Refused
<1>5. CASE WriteLost(j)
  <2>1. /\ Fits(j) /\ UseApproval(j) /\ WriteFails(j, "SKILL_FAILED") /\ slots' = slots
        /\ (Applied(j) \/ UNCHANGED <<paused, writes>>)
    BY <1>5 DEF WriteLost
  <2>2. paused' \subseteq Campaigns /\ Spent(j)
    BY <1>1, <2>1, AppliedFacts DEF Spent
  <2>. QED  BY <1>1, <2>1, <2>2, WriteFailsKeeps
<1>6. CASE BreakWrite(j)
  <2>1. Answer(j, job[j], Error("AGENT_TIMEOUT")) /\ slots' = slots
    BY <1>6 DEF BreakWrite
  <2>2. /\ paused' \subseteq Campaigns
        /\ UNCHANGED <<approval, writes>> \/ Asked(j) \/ Spent(j)
    BY <1>1, <1>6, AppliedFacts DEF BreakWrite, Asked, Spent
  <2>3. Error("AGENT_TIMEOUT").kind = "error" /\ Error("AGENT_TIMEOUT").code = "AGENT_TIMEOUT"
    BY DEF Error, NoReply
  <2>. QED  BY <1>1, <2>1, <2>2, <2>3, WriteEnd
<1>7. CASE Written(j)
  <2>. DEFINE b == [job[j] EXCEPT !.acted = "written"]
  <2>1. /\ Fits(j) /\ UseApproval(j) /\ Applied(j) /\ Goto(j, b)
        /\ UNCHANGED <<told, slots>>
    BY <1>7 DEF Written
  <2>2. /\ job[j] \in JobRecords /\ AdTarget(job[j]) /\ Live(job[j])
        /\ job[j].at \in 1 .. End(job[j])
    BY <1>2, AtFacts
  <2>3. /\ b \in JobRecords /\ b.acted = "written" /\ b.target = job[j].target
        /\ b.failed = job[j].failed /\ b.state = job[j].state /\ b.req = job[j].req
        /\ b.grant = job[j].grant /\ b.at = job[j].at
    BY <2>2 DEF JobRecords
  <2>. HIDE DEF b
  <2>4. Follows(b, job[j])
    BY <2>2, <2>3 DEF Follows, AdTarget
  <2>5. paused' \subseteq Campaigns /\ Spent(j)
    BY <1>1, <2>1, AppliedFacts DEF Spent
  <2>6. b.target # Ghost => Wrote(j)'
    <3>. DEFINE w == [job |-> j, grant |-> job[j].grant, what |-> What(job[j])]
    <3>1. w.job = j
      OBVIOUS
    <3>2. b.target # Ghost => w \in writes'
      BY <1>1, <2>1, <2>3, AppliedFacts
    <3>. HIDE DEF w
    <3>. QED  BY <3>1, <3>2 DEF Wrote
  <2>7. ~Wrote(j)
    <3>1. /\ DOMAIN Pipeline(job[j]) = 1 .. Len(Pipeline(job[j]))
          /\ Len(Pipeline(job[j])) \in Nat
          /\ End(job[j]) = Len(Pipeline(job[j])) + 1
      BY <2>2, PipelineFacts DEF End
    <3>2. WriteAhead(job[j])
      BY <1>2, <2>2, <3>1 DEF WriteAhead, Call
    <3>. QED  BY <1>2, <3>2 DEF Inv, WriteInv, MayWrite
  <2>8. Wrote(j)' => b.target # Ghost
    BY <1>1, <2>1, <2>3, <2>7, AppliedFacts DEF Wrote
  <2>. QED  BY <1>1, <2>1, <2>3, <2>4, <2>5, <2>6, <2>8, WriteMove
<1>. QED  BY <1>3, <1>4, <1>5, <1>6, <1>7

-----------------------------------------------------------------------------
(* The steps outside the workflows.                                        *)

\* A message arrives.
LEMMA SubmitStep == ASSUME Inv, NEW j \in Jobs, Submit(j) PROVE Inv'
<1>1. PICK g \in {None} \cup {k \in Jobs : approval[k] # NoApproval} :
        job' = [job EXCEPT ![j] = [@ EXCEPT !.state = "queued", !.grant = g]]
  BY DEF Submit
<1>2. /\ job[j].state = "new" /\ job[j].req # NoRequest
      /\ UNCHANGED <<told, approval, paused, writes, slots>>
  BY DEF Submit
<1>3. job[j] \in JobRecords /\ JobInv(job[j])
  BY DEF Inv, TypeInv
<1>. DEFINE c == [job[j] EXCEPT !.state = "queued", !.grant = g]
<1>4. /\ c \in JobRecords /\ c.state = "queued" /\ c.req = job[j].req /\ c.at = job[j].at
      /\ c.target = job[j].target /\ c.acted = job[j].acted /\ c.failed = job[j].failed
      /\ c.lost = job[j].lost
  BY <1>3 DEF JobRecords
<1>. HIDE DEF c
<1>5. /\ job' \in [Jobs -> JobRecords] /\ job'[j] = c
      /\ \A k \in Jobs \ {j} : job'[k] = job[k]
  BY <1>1, <1>4 DEF Inv, TypeInv, c
<1>6. Live(c)
  <2>1. c.req \in Reqs /\ c.req # NoRequest
    BY <1>2, <1>4 DEF JobRecords
  <2>2. c.req.type \in DOMAIN ExecPipelines \cup DOMAIN QueryPipelines
    BY <2>1, RequestsAssumption DEF Reqs
  <2>. QED  BY <2>2 DEF Live, TaskTypes
<1>7. JobInv(c)
  BY <1>2, <1>3, <1>4, <1>6 DEF JobInv
<1>8. TypeInv'
  BY <1>2, <1>4, <1>5, <1>7 DEF Inv, TypeInv
<1>9. WriteInv'
  BY <1>2, <1>4, <1>5 DEF Inv, WriteInv, WritesAreApproved, MayWrite, Wrote
<1>10. TokenInv'
  BY <1>2, <1>4, <1>5 DEF Inv, TokenInv
<1>11. told[j] = NoReply /\ NoReply.kind = "none" /\ NoReply.code = "none"
  BY <1>2 DEF Inv, TellInv, NoReply
<1>12. ToldAsHappened'
  BY <1>2, <1>5, <1>11 DEF Inv, TellInv, ToldAsHappened, Wrote
<1>13. TellInv'
  BY <1>2, <1>4, <1>5, <1>11, <1>12 DEF Inv, TellInv, Wrote
<1>. QED  BY <1>8, <1>9, <1>10, <1>13 DEF Inv

\* The agent takes a message: nothing has been done for it.
LEMMA TakeStep == ASSUME Inv, NEW j \in Jobs, Take(j) PROVE Inv'
<1>. DEFINE b == [job[j] EXCEPT !.state = "busy", !.target = job[j].req.target,
                                !.calm = ~Has(job[j], "risky")]
<1>1. /\ job[j].state = "queued" /\ Goto(j, b)
      /\ UNCHANGED <<told, approval, paused, writes, slots>>
  BY DEF Take
<1>2. job[j] \in JobRecords /\ Live(job[j]) /\ job[j].at = 0 /\ job[j].acted = "no"
  BY <1>1 DEF Inv, TypeInv, JobInv
<1>3. /\ job[j].req.target \in Things
      /\ job[j].req.type = "ad_optimize" => job[j].req.target \in Campaigns \cup {Ghost, None}
  <2>1. job[j].req \in Reqs
    BY <1>2 DEF JobRecords
  <2>2. job[j].req # NoRequest
    <3>1. NoRequest.type = "none"
      BY DEF NoRequest
    <3>2. "none" \notin TaskTypes
      BY DEF TaskTypes, ExecPipelines, QueryPipelines
    <3>. QED  BY <1>2, <3>1, <3>2 DEF Live
  <2>3. PICK r \in Requests, k \in Jobs : job[j].req = r[k]
    BY <2>1, <2>2 DEF Reqs
  <2>. QED  BY <2>2, <2>3, RequestsAssumption DEF Things
<1>4. (~Has(job[j], "risky")) \in BOOLEAN
  BY DEF Has
<1>5. /\ b \in JobRecords /\ b.state = "busy" /\ b.req = job[j].req /\ b.at = 0
      /\ b.acted = "no" /\ b.failed = job[j].failed /\ b.target = job[j].req.target
      /\ b.grant = job[j].grant
  <2>. DEFINE x == ~Has(job[j], "risky")
              t == job[j].req.target
  <2>1. b = [job[j] EXCEPT !.state = "busy", !.target = t, !.calm = x]
    OBVIOUS
  <2>2. t \in Things /\ x \in BOOLEAN
    BY <1>3, <1>4
  <2>. HIDE DEF x, b
  <2>. QED  BY <1>2, <2>1, <2>2 DEF JobRecords
<1>. HIDE DEF b
<1>6. Live(b) /\ AdTarget(b) /\ b.at < End(b)
  BY <1>2, <1>3, <1>5, SameRequest, PipelineFacts DEF AdTarget
<1>7. PICK n \in NextCalls(b) : /\ job' = [job EXCEPT ![j] = [b EXCEPT !.at = n]]
                               /\ [b EXCEPT !.at = n] \in JobRecords
  BY <1>1, <1>5, <1>6, GotoFacts
<1>. DEFINE c == [b EXCEPT !.at = n]
<1>8. /\ c.state = "busy" /\ c.req = b.req /\ c.acted = "no" /\ c.failed = b.failed
      /\ c.at = n
  BY <1>5 DEF JobRecords
<1>. HIDE DEF c
<1>9. job'[j] = c /\ \A k \in Jobs \ {j} : job'[k] = job[k]
  BY <1>7 DEF Inv, TypeInv, c
<1>10. TypeInv'
  BY <1>1, <1>5, <1>6, MoveTypes DEF Inv, TypeInv
<1>11. /\ \A k \in Jobs : Wrote(k)' = Wrote(k)
       /\ \A k \in Jobs : MayWrite(k)' => MayWrite(k)
       /\ ~Wrote(j)
  BY <1>1, <1>9 DEF Wrote, MayWrite, Inv, WriteInv
<1>12. WriteInv'
  BY <1>1, <1>11 DEF Inv, WriteInv, WritesAreApproved
<1>13. told[j] = NoReply /\ NoReply.kind = "none" /\ NoReply.code = "none"
  BY <1>1 DEF Inv, TellInv, NoReply
<1>14. ToldAsHappened'
  BY <1>1, <1>9, <1>11, <1>13 DEF Inv, TellInv, ToldAsHappened
<1>15. TellInv'
  BY <1>1, <1>8, <1>9, <1>11, <1>13, <1>14 DEF Inv, TellInv
<1>16. TokenInv'
  <2>1. b.req.type = "social_marketing" /\ n \in {2, 3, 4, 6} => Redis /\ "slot" \notin b.failed
    BY <1>5, <1>6, SocialNext
  <2>2. j \in slots => "slot" \in job[j].failed
    BY <1>1 DEF Inv, TokenInv
  <2>. QED  BY <1>1, <1>5, <1>8, <1>9, <2>1, <2>2 DEF Inv, TokenInv
<1>. QED  BY <1>10, <1>12, <1>15, <1>16 DEF Inv

\* The user approves.  What has been written under an approval is past that.
LEMMA ApproveStep == ASSUME Inv, NEW j \in Jobs, Approve(j) PROVE Inv'
<1>1. /\ approval[j].state = "pending"
      /\ approval' = [approval EXCEPT ![j].state = "approved"]
      /\ UNCHANGED <<job, told, paused, writes, slots>>
  BY DEF Approve
<1>2. /\ approval' \in [Jobs -> Approvals]
      /\ approval'[j].state = "approved" /\ approval'[j].what = approval[j].what
      /\ \A k \in Jobs \ {j} : approval'[k] = approval[k]
  BY <1>1 DEF Inv, TypeInv, Approvals
<1>3. TypeInv'
  BY <1>1, <1>2 DEF Inv, TypeInv
<1>4. \A w \in writes : w.grant \in Jobs \ {j}
  <2>1. \A x, y : x = [state |-> "consumed", what |-> y] => x.state = "consumed"
    OBVIOUS
  <2>2. \A w \in writes :
          w.grant \in Jobs /\ approval[w.grant] = [state |-> "consumed", what |-> w.what]
    BY DEF Inv, WriteInv, WritesAreApproved
  <2>3. \A w \in writes : w.grant \in Jobs /\ approval[w.grant].state = "consumed"
    BY <2>1, <2>2, Zenon
  <2>. QED  BY <1>1, <2>3
<1>5. \A k \in Jobs : Wrote(k)' = Wrote(k) /\ MayWrite(k)' = MayWrite(k)
  BY <1>1 DEF Wrote, MayWrite
<1>6. WriteInv'
  BY <1>1, <1>2, <1>4, <1>5 DEF Inv, WriteInv, WritesAreApproved
<1>7. ToldAsHappened'
  BY <1>1, <1>2, <1>5 DEF Inv, TellInv, ToldAsHappened
<1>8. TellInv'
  BY <1>1, <1>5, <1>7, Zenon DEF Inv, TellInv
<1>9. TokenInv'
  BY <1>1 DEF Inv, TokenInv
<1>. QED  BY <1>3, <1>6, <1>8, <1>9 DEF Inv

\* A step that keeps all of this process but the tokens of the others.
LEMMA ElsewhereStep ==
  ASSUME Inv, UNCHANGED <<job, told, approval, paused, writes>>,
         slots' \subseteq Jobs \cup Others, slots' \cap Jobs = slots \cap Jobs
  PROVE  Inv'
<1>1. TypeInv'
  BY DEF Inv, TypeInv
<1>2. \A k \in Jobs : Wrote(k)' = Wrote(k) /\ MayWrite(k)' = MayWrite(k)
  BY DEF Wrote, MayWrite
<1>3. WriteInv'
  BY <1>2 DEF Inv, WriteInv, WritesAreApproved
<1>4. ToldAsHappened'
  BY <1>2 DEF Inv, TellInv, ToldAsHappened
<1>5. TellInv'
  BY <1>2, <1>4, Zenon DEF Inv, TellInv
<1>6. TokenInv'
  BY DEF Inv, TokenInv
<1>. QED  BY <1>1, <1>3, <1>5, <1>6 DEF Inv

LEMMA OthersStep == ASSUME Inv, NEW o \in Others, OthersCome(o) PROVE Inv'
<1>1. /\ UNCHANGED <<job, told, approval, paused, writes>>
      /\ slots' = slots \cup {o} \/ slots' = slots \ {o}
      /\ o \notin Jobs /\ slots \subseteq Jobs \cup Others
  BY WorkflowsAssumption DEF OthersCome, Inv, TypeInv
<1>. QED  BY <1>1, ElsewhereStep

\* At first no message has arrived.
LEMMA InitInv == Init => Inv
<1>. SUFFICES ASSUME Init PROVE Inv
  OBVIOUS
<1>1. PICK r \in Requests : job = [j \in Jobs |-> [NoJob EXCEPT !.req = r[j]]]
  BY DEF Init
<1>2. ASSUME NEW j \in Jobs
      PROVE  /\ job[j] \in JobRecords /\ job[j].state = "new" /\ job[j].at = 0
             /\ job[j].target = None /\ job[j].acted = "no" /\ job[j].failed = {}
  <2>. DEFINE q == r[j]
  <2>1. q \in Reqs /\ None \in Things
    BY DEF Reqs, Things
  <2>2. job[j] = [NoJob EXCEPT !.req = q]
    BY <1>1
  <2>. HIDE DEF q
  <2>3. job[j] = [state |-> "new", req |-> q, grant |-> None, at |-> 0, target |-> None,
                  calm |-> TRUE, failed |-> {}, acted |-> "no", lost |-> FALSE]
    BY <2>2 DEF NoJob
  <2>4. job[j] \in JobRecords
    BY <2>1, <2>3 DEF JobRecords
  <2>. QED  BY <2>3, <2>4
<1>3. \A j \in Jobs : JobInv(job[j])
  BY <1>2 DEF JobInv
<1>4. NoApproval \in Approvals /\ NoApproval.state = "none"
  BY DEF NoApproval, Approvals, Things
<1>5. NoReply.kind = "none" /\ NoReply.code = "none"
  BY DEF NoReply
<1>6. TypeInv
  BY <1>1, <1>2, <1>3, <1>4, <1>5 DEF Init, TypeInv, Kinds
<1>7. \A j \in Jobs : ~Wrote(j)
  BY DEF Init, Wrote
<1>8. WriteInv
  BY <1>4, <1>7 DEF Init, WriteInv, WritesAreApproved
<1>9. TellInv
  BY <1>2, <1>5, <1>7 DEF Init, TellInv, ToldAsHappened
<1>10. TokenInv
  BY <1>2 DEF Init, TokenInv
<1>. QED  BY <1>6, <1>8, <1>9, <1>10 DEF Inv

\* The invariant holds of every reachable state.
LEMMA Invariance == Spec => []Inv
<1>1. ASSUME Inv, [Next]_vars
      PROVE  Inv'
  <2>1. CASE UNCHANGED vars
    BY <1>1, <2>1, ElsewhereStep DEF vars, Inv, TypeInv
  <2>2. ASSUME NEW o \in Others, OthersCome(o)
        PROVE  Inv'
    BY <1>1, <2>2, OthersStep
  <2>3. ASSUME NEW j \in Jobs, Submit(j) \/ Take(j) \/ Approve(j)
        PROVE  Inv'
    BY <1>1, <2>3, SubmitStep, TakeStep, ApproveStep
  <2>4. ASSUME NEW j \in Jobs, Work(j)
        PROVE  Inv'
    BY <1>1, <2>4, CallStep, TokenStep, WriteStep, FinishStep DEF Work
  <2>5. ASSUME NEW j \in Jobs, SlotFails(j) \/ Break(j) \/ BreakSlot(j) \/ BreakWrite(j)
        PROVE  Inv'
    BY <1>1, <2>5, CallStep, TokenStep, BreakSlotStep, WriteStep
  <2>. QED  BY <1>1, <2>1, <2>2, <2>3, <2>4, <2>5 DEF Next
<1>. QED  BY InitInv, <1>1, PTL DEF Spec

-----------------------------------------------------------------------------
(* The theorems.                                                           *)

\* Every reachable state has the declared types: a job is at a call of its own
\* pipeline, and is answered exactly when it is done (query_agent.py and
\* exec_agent.py).
THEOREM WorkflowTypes == Spec => []TypeOK
<1>1. Inv => TypeOK
  BY TypeInvFacts DEF Inv
<1>. QED  BY Invariance, <1>1, PTL

\* Every write was approved for what it did, and used its approval up, however
\* often a request is run again (executor.py of core/skill, called by the
\* workflows).
THEOREM OnlyApprovedWrites == Spec => []WritesAreApproved
<1>1. Inv => WritesAreApproved
  BY DEF Inv, WriteInv
<1>. QED  BY Invariance, <1>1, PTL

\* What the user is told of a write agrees with what was written.
THEOREM RepliesAreTrue == Spec => []ToldAsHappened
<1>1. Inv => ToldAsHappened
  BY DEF Inv, TellInv
<1>. QED  BY Invariance, <1>1, PTL

\* A generation that is over gave its token back, or noted that it could not
\* (redis_rate_limit.py).
THEOREM TokensComeBack == Spec => []SlotsReturned
<1>1. Inv => SlotsReturned
  BY DEF Inv, TokenInv, SlotsReturned, Failed
<1>. QED  BY Invariance, <1>1, PTL

-----------------------------------------------------------------------------
(* Jobs go on, one call after the other, and nothing is taken back.        *)

\* How far a message is: sent, taken, at a call of its pipeline, answered.
Stage(b) == CASE b.state = "new" -> 0
              [] b.state = "queued" -> 1
              [] b.state = "busy" -> 1 + b.at
              [] OTHER -> 16

\* A step that touches a message takes it further, to at most stage 16: a workflow
\* makes no call twice and a message is not taken twice.  Every step an agent takes
\* on a message by itself is such a step.
JobsAdvance ==
  /\ [](\A j \in Jobs : Stage(job[j]) \in 0 .. 16)
  /\ [][\A j \in Jobs : job'[j] # job[j] \/ Take(j) \/ Work(j) =>
          Stage(job'[j]) > Stage(job[j])]_vars

\* What a message was told stands, and nothing is written for it afterwards; and
\* no write is undone.
RepliesStand ==
  [][/\ \A j \in Jobs : told[j].kind # "none" =>
          /\ told'[j] = told[j] /\ job'[j] = job[j]
          /\ Wrote(j)' <=> Wrote(j)
     /\ writes \subseteq writes']_vars

\* An approval that was asked for is for the same thing ever after, is given at
\* most once, and is used at most once.
Past(state) == CASE state = "none" -> 0
                 [] state = "pending" -> 1
                 [] state = "approved" -> 2
                 [] OTHER -> 3
ApprovalsGoForward ==
  [][\A j \in Jobs : approval'[j] # approval[j] =>
       /\ Past(approval'[j].state) = Past(approval[j].state) + 1
       /\ approval[j].state # "none" => approval'[j].what = approval[j].what]_vars

\* A pipeline has at most thirteen calls.
LEMMA PipelineLength ==
  ASSUME NEW b, Live(b)
  PROVE  End(b) \in 2 .. 14
<1>1. /\ Len(Advertising) = 7 /\ Len(RiskControl) = 4 /\ Len(Social) = 6
      /\ Len(Customer) = 7 /\ Len(Report) = 6 /\ Len(Search) = 6
      /\ Len(DataCheck) = 5 /\ Len(Read) = 2
  BY DEF Advertising, RiskControl, Social, Customer, Report, Search, DataCheck, Read
<1>a. ASSUME NEW S, GoodsSteps \subseteq S, NEW t \in Seq(S)
      PROVE  Len(Search \o t) = 6 + Len(t)
  BY <1>a, AfterSearch
<1>2. Len(Stock) = 10
  <2>. DEFINE t == <<"parse", "low_stock", "stock_predict", "explain">>
              S == GoodsSteps \cup {"parse", "low_stock", "stock_predict", "explain"}
  <2>1. t \in Seq(S) /\ Len(t) = 4 /\ GoodsSteps \subseteq S
    OBVIOUS
  <2>2. Stock = Search \o t
    BY DEF Stock
  <2>. HIDE DEF t, S
  <2>3. Len(Search \o t) = 6 + Len(t)
    BY <1>a, <2>1
  <2>. QED  BY <2>1, <2>2, <2>3
<1>3. Len(Competitor) = 13
  <2>. DEFINE t == <<"parse", "compare", "adapter", "price_history", "recall_alerts",
                     "price_monitor", "explain">>
              S == GoodsSteps \cup {"parse", "compare", "adapter", "price_history",
                                    "recall_alerts", "price_monitor", "explain"}
  <2>1. t \in Seq(S) /\ Len(t) = 7 /\ GoodsSteps \subseteq S
    OBVIOUS
  <2>2. Competitor = Search \o t
    BY DEF Competitor
  <2>. HIDE DEF t, S
  <2>3. Len(Search \o t) = 6 + Len(t)
    BY <1>a, <2>1
  <2>. QED  BY <2>1, <2>2, <2>3
<1>. DEFINE Short(p) == Len(p) \in 1 .. 13
<1>4. /\ Short(Advertising) /\ Short(RiskControl) /\ Short(Social) /\ Short(Customer)
      /\ Short(Report) /\ Short(Search) /\ Short(DataCheck)
      /\ Short(Read) /\ Short(Stock) /\ Short(Competitor)
  BY <1>1, <1>2, <1>3
<1>. HIDE DEF Short
<1>5. Short(Pipeline(b))
  BY <1>4, PipelineOf
<1>6. Len(Pipeline(b)) \in 1 .. 13 /\ End(b) = Len(Pipeline(b)) + 1
  BY <1>5 DEF Short, End
<1>7. \A n \in 1 .. 13 : n + 1 \in 2 .. 14
  OBVIOUS
<1>. QED  BY <1>6, <1>7, Zenon

\* What the call of a write may do to the approvals and the writes.
Effects(j) ==
  \/ UNCHANGED <<approval, writes>>
  \/ At(j, {"write"}) /\ (Asked(j) \/ Spent(j))

\* A job at work ends its call: it goes on, or is answered.
Ends(j) == \E b, reply : Answer(j, b, reply) /\ reply.kind # "none"
Moves(j) == /\ job[j].at < End(job[j]) /\ told' = told
            /\ \E b : Follows(b, job[j]) /\ Goto(j, b)

\* The steps of a job at work are of these two kinds.
LEMMA KindsOfWork ==
  ASSUME Inv, NEW j \in Jobs,
         Work(j) \/ SlotFails(j) \/ Break(j) \/ BreakSlot(j) \/ BreakWrite(j)
  PROVE  job[j].state = "busy" /\ (Moves(j) \/ Ends(j)) /\ Effects(j)
<1>. DEFINE Goal == job[j].state = "busy" /\ (Moves(j) \/ Ends(j)) /\ Effects(j)
<1>e. \A code : Error(code).kind = "error"
  BY DEF Error, NoReply
<1>f. \A code : [Error(code) EXCEPT !.target = job[j].target].kind = "error"
  BY DEF Error, NoReply
<1>a. ASSUME job[j].state = "busy", job[j].at < End(job[j])
      PROVE  /\ Follows(job[j], job[j])
             /\ \A part \in Kept : Follows(Miss(job[j], part), job[j])
  BY <1>a, AtFacts DEF From
<1>k. {"memory", "deadline", "slot", "taobao"} \subseteq Kept /\ Silent \cup Noted \subseteq Kept
  BY DEF Kept, Silent, Noted
<1>w. ASSUME NEW code, WriteFails(j, code), At(j, {"write"})
      PROVE  Moves(j) \/ Ends(j)
  <2>1. CASE Goto(j, Miss(job[j], "taobao")) /\ UNCHANGED told
    BY <1>a, <1>k, <1>w, <2>1 DEF At, Moves
  <2>2. CASE Answer(j, job[j], [Error(code) EXCEPT !.target = job[j].target])
    BY <1>f, <2>2 DEF Ends
  <2>. QED  BY <1>w, <2>1, <2>2 DEF WriteFails
<1>1. CASE Parse(j)
  <2>1. /\ job[j].state = "busy" /\ job[j].at < End(job[j]) /\ UNCHANGED <<approval, writes>>
        /\ \/ Goto(j, job[j]) /\ told' = told
           \/ Goto(j, Miss(job[j], "memory")) /\ told' = told
           \/ Answer(j, job[j], Error(Refusal(job[j])))
    BY <1>1 DEF Parse, At
  <2>. QED  BY <1>a, <1>e, <1>k, <2>1 DEF Moves, Ends, Effects
<1>2. CASE Succeed(j)
  <2>1. /\ job[j].state = "busy" /\ job[j].at < End(job[j])
        /\ UNCHANGED <<told, approval, writes>>
    BY <1>2 DEF Succeed, Plain
  <2>2. PICK b \in Learnt(job[j], Campaigns \ paused) : Goto(j, b)
    BY <1>2 DEF Succeed
  <2>3. Campaigns \ paused \in SUBSET Campaigns
    OBVIOUS
  <2>4. Follows(b, job[j])
    BY <2>1, <2>3, AtFacts, LearntFacts DEF From
  <2>. QED  BY <2>1, <2>2, <2>4 DEF Moves, Effects
<1>3. CASE Fail(j)
  <2>1. /\ job[j].state = "busy" /\ job[j].at < End(job[j]) /\ UNCHANGED <<approval, writes>>
        /\ \/ \E part \in Kept : Goto(j, Miss(job[j], part)) /\ told' = told
           \/ Answer(j, job[j], Error(Code(job[j])))
    BY <1>3, <1>k DEF Fail, Plain
  <2>. QED  BY <1>a, <1>e, <2>1 DEF Moves, Ends, Effects
<1>4. CASE Count(j) \/ Add(j) \/ Expire(j) \/ Remove(j)
  <2>1. /\ job[j].state = "busy" /\ job[j].at < End(job[j])
        /\ UNCHANGED <<told, approval, writes>> /\ Goto(j, job[j])
    BY <1>4 DEF Count, Add, Expire, Remove, At
  <2>. QED  BY <1>a, <2>1 DEF Moves, Effects
<1>5. CASE SlotFails(j) \/ Deadline(j)
  <2>1. /\ job[j].state = "busy" /\ job[j].at < End(job[j])
        /\ UNCHANGED <<told, approval, writes>> /\ Goto(j, Miss(job[j], "slot"))
    BY <1>5 DEF SlotFails, Deadline, At
  <2>. QED  BY <1>a, <1>k, <2>1 DEF Moves, Effects
<1>6. CASE Ask(j) \/ Refused(j) \/ WriteLost(j)
  <2>1. At(j, {"write"}) /\ \E code : WriteFails(j, code)
    BY <1>6 DEF Ask, Refused, WriteLost
  <2>2. job[j].state = "busy"
    BY <2>1 DEF At
  <2>3. UNCHANGED <<approval, writes>> \/ Asked(j) \/ Spent(j)
    <3>1. CASE Ask(j) \/ Refused(j)
      BY <3>1 DEF Ask, Refused, Asked
    <3>2. CASE WriteLost(j)
      BY <2>1, <3>2, AppliedFacts DEF WriteLost, Spent
    <3>. QED  BY <1>6, <3>1, <3>2
  <2>. QED  BY <1>w, <2>1, <2>2, <2>3 DEF Effects
<1>7. CASE Written(j)
  <2>. DEFINE b == [job[j] EXCEPT !.acted = "written"]
  <2>1. /\ At(j, {"write"}) /\ Fits(j) /\ UseApproval(j) /\ Applied(j) /\ Goto(j, b)
        /\ told' = told
    BY <1>7 DEF Written
  <2>2. job[j].state = "busy" /\ job[j].at < End(job[j])
    BY <2>1 DEF At
  <2>3. job[j] \in JobRecords /\ AdTarget(job[j])
    BY <2>2, AtFacts
  <2>4. Follows(b, job[j])
    <3>1. /\ b \in JobRecords /\ b.target = job[j].target
          /\ b.failed = job[j].failed /\ b.state = job[j].state /\ b.req = job[j].req
          /\ b.grant = job[j].grant /\ b.at = job[j].at
      BY <2>3 DEF JobRecords
    <3>. QED  BY <2>3, <3>1 DEF Follows, AdTarget
  <2>5. Spent(j)
    BY <2>1, AppliedFacts DEF Spent
  <2>. HIDE DEF b
  <2>. QED  BY <2>1, <2>2, <2>4, <2>5 DEF Moves, Effects
<1>8. CASE Finish(j)
  <2>1. /\ job[j].state = "busy" /\ Answer(j, job[j], Reply(job[j]))
        /\ UNCHANGED <<approval, writes>>
    BY <1>8 DEF Finish
  <2>2. Reply(job[j]).kind # "none"
    BY <1>e DEF Reply, Ended, Done, NoReply
  <2>. QED  BY <2>1, <2>2 DEF Ends, Effects
<1>9. CASE Break(j)
  <2>1. /\ job[j].state = "busy" /\ Answer(j, job[j], Error("AGENT_TIMEOUT"))
        /\ UNCHANGED <<approval, writes>>
    BY <1>9 DEF Break, Plain
  <2>. QED  BY <1>e, <2>1 DEF Ends, Effects
<1>10. CASE BreakSlot(j)
  <2>1. /\ job[j].state = "busy" /\ UNCHANGED <<approval, writes>>
        /\ \E b : Answer(j, b, Error("AGENT_TIMEOUT"))
    BY <1>10 DEF BreakSlot, At
  <2>. QED  BY <1>e, <2>1 DEF Ends, Effects
<1>11. CASE BreakWrite(j)
  <2>1. At(j, {"write"}) /\ Answer(j, job[j], Error("AGENT_TIMEOUT"))
    BY <1>11 DEF BreakWrite
  <2>2. UNCHANGED <<approval, writes>> \/ Asked(j) \/ Spent(j)
    BY <1>11, <2>1, AppliedFacts DEF BreakWrite, Asked, Spent
  <2>3. job[j].state = "busy"
    BY <2>1 DEF At
  <2>. QED  BY <1>e, <2>1, <2>2, <2>3 DEF Ends, Effects
<1>. QED  BY <1>1, <1>2, <1>3, <1>4, <1>5, <1>6, <1>7, <1>8, <1>9, <1>10, <1>11 DEF Work
\* The stage of a message is a number, and one at work is behind one answered.
LEMMA StageFacts ==
  ASSUME TypeInv, NEW j \in Jobs
  PROVE  /\ Stage(job[j]) \in 0 .. 16
         /\ job[j].state = "busy" => Stage(job[j]) = 1 + job[j].at /\ Stage(job[j]) \in 2 .. 15
<1>1. job[j].state \in {"new", "queued", "busy", "done"} /\ JobInv(job[j])
  BY DEF TypeInv, JobRecords
<1>2. job[j].state = "busy" => job[j].at \in 1 .. End(job[j]) /\ End(job[j]) \in 2 .. 14
  BY <1>1, PipelineLength DEF JobInv
<1>. QED  BY <1>1, <1>2 DEF Stage

\* The stage of a job at work after the step.
LEMMA StageNext ==
  ASSUME TypeInv', NEW j \in Jobs, job'[j].state = "busy"
  PROVE  Stage(job'[j]) \in 2 .. 15
<1>1. JobInv(job'[j])
  BY DEF TypeInv
<1>2. job'[j].at \in 1 .. End(job'[j]) /\ End(job'[j]) \in 2 .. 14
  BY <1>1, PipelineLength DEF JobInv
<1>. QED  BY <1>2 DEF Stage

\* What a step does to a job and its reply.
Changes(j) ==
  /\ \A k \in Jobs \ {j} : job'[k] = job[k] /\ told'[k] = told[k]
  /\ Stage(job'[j]) > Stage(job[j])
  /\ job[j].state # "done"
\* A job at work that goes on, or is answered, is further.
LEMMA WorkChanges ==
  ASSUME Inv, NEW j \in Jobs, job[j].state = "busy", Moves(j) \/ Ends(j)
  PROVE  Changes(j)
<1>1. Stage(job[j]) = 1 + job[j].at /\ Stage(job[j]) \in 2 .. 15 /\ job[j].at \in Nat
  BY StageFacts DEF Inv, TypeInv, JobRecords
<1>2. CASE Moves(j)
  <2>1. PICK b : Follows(b, job[j]) /\ Goto(j, b)
    BY <1>2 DEF Moves
  <2>2. /\ \A k \in Jobs \ {j} : job'[k] = job[k] /\ told'[k] = told[k]
        /\ job'[j].state = "busy" /\ b.at = job[j].at /\ b.at < job'[j].at
        /\ job'[j].at \in 1 .. End(b) /\ End(b) \in Nat
    BY <1>2, <2>1, MoveFacts, PipelineFacts DEF Moves, Inv, Follows
  <2>3. Stage(job'[j]) = 1 + job'[j].at
    BY <2>2 DEF Stage
  <2>. QED  BY <1>1, <2>2, <2>3 DEF Changes
<1>3. CASE Ends(j)
  <2>1. PICK b, reply : Answer(j, b, reply)
    BY <1>3 DEF Ends
  <2>. DEFINE c == [NoJob EXCEPT !.state = "done", !.failed = b.failed \cap {"slot"},
                                 !.lost = b.failed \cap Noted # {}]
  <2>2. c.state = "done"
    BY DEF NoJob
  <2>3. job' = [job EXCEPT ![j] = c] /\ told' = [told EXCEPT ![j] = reply]
    BY <2>1 DEF Answer
  <2>. HIDE DEF c
  <2>4. /\ job'[j] = c
        /\ \A k \in Jobs \ {j} : job'[k] = job[k] /\ told'[k] = told[k]
    BY <2>3 DEF Inv, TypeInv
  <2>5. Stage(job'[j]) = 16
    BY <2>2, <2>4 DEF Stage
  <2>. QED  BY <1>1, <2>4, <2>5 DEF Changes
<1>. QED  BY <1>2, <1>3

\* The agent takes the message.
LEMMA TakeChanges ==
  ASSUME Inv, NEW j \in Jobs, Take(j)
  PROVE  Changes(j) /\ Effects(j)
<1>. DEFINE b == [job[j] EXCEPT !.state = "busy", !.target = job[j].req.target,
                                !.calm = ~Has(job[j], "risky")]
<1>1. job[j].state = "queued" /\ Goto(j, b) /\ UNCHANGED <<told, approval, writes>>
  BY DEF Take
<1>2. job[j] \in JobRecords
  BY DEF Inv, TypeInv
<1>3. PICK n : job' = [job EXCEPT ![j] = [b EXCEPT !.at = n]]
  BY <1>1 DEF Goto
<1>4. [b EXCEPT !.at = n].state = "busy"
  BY <1>2 DEF JobRecords
<1>. HIDE DEF b
<1>5. job'[j].state = "busy" /\ \A k \in Jobs \ {j} : job'[k] = job[k]
  BY <1>3, <1>4 DEF Inv, TypeInv
<1>6. Stage(job'[j]) \in 2 .. 15
  <2>1. TypeInv'
    BY TakeStep DEF Inv
  <2>. QED  BY <1>5, <2>1, StageNext
<1>7. Stage(job[j]) = 1
  BY <1>1 DEF Stage
<1>. QED  BY <1>1, <1>5, <1>6, <1>7 DEF Changes, Effects

\* What any step does.
LEMMA StepChanges ==
  ASSUME Inv, [Next]_vars
  PROVE  \/ job' = job /\ told' = told /\ writes' = writes
              /\ (approval' = approval \/ \E j \in Jobs : Approve(j))
         \/ \E j \in Jobs : Changes(j) /\ Effects(j)
<1>1. ASSUME NEW j \in Jobs, Submit(j)
      PROVE  Changes(j) /\ Effects(j)
  <2>1. PICK g : job' = [job EXCEPT ![j] = [@ EXCEPT !.state = "queued", !.grant = g]]
    BY <1>1 DEF Submit
  <2>. DEFINE c == [job[j] EXCEPT !.state = "queued", !.grant = g]
  <2>2. job[j] \in JobRecords /\ job[j].state = "new"
    BY <1>1 DEF Submit, Inv, TypeInv
  <2>3. c.state = "queued"
    BY <2>2 DEF JobRecords
  <2>. HIDE DEF c
  <2>4. job'[j] = c /\ \A k \in Jobs \ {j} : job'[k] = job[k]
    BY <2>1 DEF Inv, TypeInv, c
  <2>5. Stage(job[j]) = 0 /\ Stage(job'[j]) = 1
    BY <2>2, <2>3, <2>4 DEF Stage
  <2>6. UNCHANGED <<told, approval, writes>>
    BY <1>1 DEF Submit
  <2>. QED  BY <2>2, <2>4, <2>5, <2>6 DEF Changes, Effects
<1>2. ASSUME NEW j \in Jobs, Take(j)
      PROVE  Changes(j) /\ Effects(j)
  BY <1>2, TakeChanges
<1>3. ASSUME NEW j \in Jobs, Work(j) \/ SlotFails(j) \/ Break(j) \/ BreakSlot(j) \/ BreakWrite(j)
      PROVE  Changes(j) /\ Effects(j)
  BY <1>3, KindsOfWork, WorkChanges
<1>4. ASSUME NEW j \in Jobs, Approve(j)
      PROVE  job' = job /\ told' = told /\ writes' = writes
  BY <1>4 DEF Approve
<1>5. ASSUME NEW o \in Others, OthersCome(o)
      PROVE  UNCHANGED <<job, told, approval, writes>>
  BY <1>5 DEF OthersCome
<1>6. CASE UNCHANGED vars
  BY <1>6 DEF vars
<1>. QED  BY <1>1, <1>2, <1>3, <1>4, <1>5, <1>6 DEF Next
\* An approval a write asks for or uses goes one stage further.
LEMMA ApprovalSteps ==
  ASSUME Inv, NEW j \in Jobs, job[j].state = "busy", Effects(j)
  PROVE  /\ \A k \in Jobs : approval'[k] # approval[k] =>
              /\ Past(approval'[k].state) = Past(approval[k].state) + 1
              /\ approval[k].state # "none" => approval'[k].what = approval[k].what
         /\ writes \subseteq writes'
         /\ \A k \in Jobs \ {j} : Wrote(k)' <=> Wrote(k)
<1>1. CASE UNCHANGED <<approval, writes>>
  BY <1>1 DEF Wrote
<1>2. CASE At(j, {"write"}) /\ Asked(j)
  <2>1. approval[j].state = "none"
    <3>1. job[j].at < End(job[j]) /\ Call(job[j]) = "write"
      BY <1>2 DEF At
    <3>2. Live(job[j]) /\ job[j].at \in 1 .. End(job[j]) /\ job[j] \in JobRecords
      BY <3>1, AtFacts
    <3>3. job[j].at \in DOMAIN Pipeline(job[j]) /\ job[j].at <= job[j].at
      BY <3>1, <3>2, PipelineFacts DEF End
    <3>4. WriteAhead(job[j])
      BY <3>1, <3>3 DEF WriteAhead, Call
    <3>. QED  BY <3>4 DEF Inv, WriteInv, MayWrite
  <2>2. /\ approval'[j].state = "pending" /\ writes' = writes
        /\ \A k \in Jobs \ {j} : approval'[k] = approval[k]
    BY <1>2 DEF Asked, Inv, TypeInv
  <2>. QED  BY <2>1, <2>2 DEF Past, Wrote
<1>3. CASE Spent(j)
  <2>. DEFINE g == job[j].grant
  <2>1. g # None /\ approval[g] = [state |-> "approved", what |-> What(job[j])]
    BY <1>3 DEF Spent, Fits
  <2>2. g \in Jobs
    BY <2>1 DEF Inv, TypeInv, JobRecords
  <2>3. approval' = [approval EXCEPT ![g] = [@ EXCEPT !.state = "consumed"]]
    BY <1>3 DEF Spent, UseApproval
  <2>4. \A x : [[state |-> "approved", what |-> x] EXCEPT !.state = "consumed"] =
               [state |-> "consumed", what |-> x]
    OBVIOUS
  <2>5. /\ approval'[g] = [state |-> "consumed", what |-> What(job[j])]
        /\ \A k \in Jobs \ {g} : approval'[k] = approval[k]
    BY <2>1, <2>2, <2>3, <2>4 DEF Inv, TypeInv
  <2>. DEFINE w == [job |-> j, grant |-> job[j].grant, what |-> What(job[j])]
  <2>6. w.job = j /\ (writes' = writes \/ writes' = writes \cup {w})
    BY <1>3 DEF Spent
  <2>. HIDE DEF g, w
  <2>7. Past(approval[g].state) = 2 /\ Past(approval'[g].state) = 3
        /\ approval'[g].what = approval[g].what
    BY <2>1, <2>5 DEF Past
  <2>. QED  BY <2>5, <2>6, <2>7 DEF Wrote
<1>. QED  BY <1>1, <1>2, <1>3 DEF Effects

\* The same of any step.
LEMMA EffectsStep ==
  ASSUME Inv, NEW j \in Jobs, Effects(j)
  PROVE  /\ \A k \in Jobs : approval'[k] # approval[k] =>
              /\ Past(approval'[k].state) = Past(approval[k].state) + 1
              /\ approval[k].state # "none" => approval'[k].what = approval[k].what
         /\ writes \subseteq writes'
         /\ \A k \in Jobs \ {j} : Wrote(k)' <=> Wrote(k)
<1>1. CASE UNCHANGED <<approval, writes>>
  BY <1>1 DEF Wrote
<1>2. CASE At(j, {"write"})
  BY <1>2, ApprovalSteps DEF At
<1>. QED  BY <1>1, <1>2 DEF Effects

\* The user's step takes a pending approval one stage further.
LEMMA ApproveForward ==
  ASSUME Inv, NEW j \in Jobs, Approve(j)
  PROVE  \A k \in Jobs : approval'[k] # approval[k] =>
           /\ Past(approval'[k].state) = Past(approval[k].state) + 1
           /\ approval'[k].what = approval[k].what
<1>1. /\ approval[j].state = "pending" /\ approval \in [Jobs -> Approvals]
      /\ approval' = [approval EXCEPT ![j].state = "approved"]
  BY DEF Approve, Inv, TypeInv
<1>2. /\ approval'[j].state = "approved" /\ approval'[j].what = approval[j].what
      /\ \A k \in Jobs \ {j} : approval'[k] = approval[k]
  BY <1>1 DEF Approvals
<1>. QED  BY <1>1, <1>2 DEF Past

\* A message goes through its stages one way, at most sixteen of them, whatever
\* fails or is cut off (query_agent.py, exec_agent.py): with NeverStuck, every
\* message that is taken is answered after a bounded number of steps of its own.
THEOREM MessagesAdvance == Spec => JobsAdvance
<1>1. Inv => \A j \in Jobs : Stage(job[j]) \in 0 .. 16
  BY StageFacts DEF Inv
<1>2. ASSUME Inv, [Next]_vars
      PROVE  \A j \in Jobs : job'[j] # job[j] \/ Take(j) \/ Work(j) =>
               Stage(job'[j]) > Stage(job[j])
  <2>1. ASSUME NEW j \in Jobs, Take(j) \/ Work(j)
        PROVE  Stage(job'[j]) > Stage(job[j])
    BY <1>2, <2>1, TakeChanges, KindsOfWork, WorkChanges DEF Changes
  <2>2. \A j \in Jobs : job'[j] # job[j] => Stage(job'[j]) > Stage(job[j])
    BY <1>2, StepChanges DEF Changes
  <2>. QED  BY <2>1, <2>2
<1>. QED  BY Invariance, <1>1, <1>2, PTL DEF Spec, JobsAdvance

\* What the user was told of a message stays true of it: an answered message has
\* nothing more done for it, and no step takes a write back (executor.py of
\* core/skill, workflows/).
THEOREM AnswersStand == Spec => RepliesStand
<1>1. ASSUME Inv, [Next]_vars
      PROVE  /\ \A j \in Jobs : told[j].kind # "none" =>
                  /\ told'[j] = told[j] /\ job'[j] = job[j]
                  /\ Wrote(j)' <=> Wrote(j)
             /\ writes \subseteq writes'
  <2>1. \A j \in Jobs : told[j].kind # "none" => job[j].state = "done"
    BY <1>1 DEF Inv, TypeInv
  <2>2. CASE job' = job /\ told' = told /\ writes' = writes
    BY <2>2 DEF Wrote
  <2>3. ASSUME NEW k \in Jobs, Changes(k), Effects(k)
        PROVE  /\ \A j \in Jobs : told[j].kind # "none" =>
                    /\ told'[j] = told[j] /\ job'[j] = job[j]
                    /\ Wrote(j)' <=> Wrote(j)
               /\ writes \subseteq writes'
    BY <1>1, <2>1, <2>3, EffectsStep DEF Changes
  <2>. QED  BY <1>1, <2>2, <2>3, StepChanges
<1>. QED  BY Invariance, <1>1, PTL DEF Spec, RepliesStand

\* An approval is of one operation on one object from the moment it is asked for,
\* is given once and used once (service.py of core/approval).
THEOREM ApprovalsAdvance == Spec => ApprovalsGoForward
<1>1. ASSUME Inv, [Next]_vars
      PROVE  \A j \in Jobs : approval'[j] # approval[j] =>
               /\ Past(approval'[j].state) = Past(approval[j].state) + 1
               /\ approval[j].state # "none" => approval'[j].what = approval[j].what
  BY <1>1, StepChanges, EffectsStep, ApproveForward
<1>. QED  BY Invariance, <1>1, PTL DEF Spec, ApprovalsGoForward

-----------------------------------------------------------------------------
(* An agent is never stuck.                                                *)

\* There is a next call, or the end, for a job that knows what b knows.
GoesOn(b) == NextCalls(b) # {}

\* A job at work has a step of its own to take: each case is the guard of one of
\* the steps of Work, whose last conjunct is a move to a next call.
CanGoOn(j) ==
  LET b == job[j] IN
  \/ b.at = End(b)
  \/ /\ b.at < End(b)
     /\ \/ Call(b) \in Checks /\ (Refusal(b) # "none" \/ GoesOn(b))
        \/ Call(b) = "scard" /\ Cardinality(slots) < Limit /\ GoesOn(b)
        \/ Call(b) = "scard" /\ Cardinality(slots) >= Limit /\ GoesOn(Miss(b, "slot"))
        \/ Call(b) \in {"sadd", "expire", "srem"} /\ GoesOn(b)
        \/ Call(b) = "write" /\ Fits(j) /\ GoesOn([b EXCEPT !.acted = "written"])
        \/ Call(b) = "write" /\ ~Fits(j) /\ GoesOn(Miss(b, "taobao"))
        \/ Plain(j) /\ \E c \in Learnt(b, Campaigns \ paused) : GoesOn(c)

\* A message at work can always go on, and one that waits does so for a single
\* other message of the same agent.
NeverStuck ==
  /\ \A j \in Jobs : job[j].state = "busy" => CanGoOn(j)
  /\ \A j, k \in Jobs :
       /\ job[j].state = "busy" /\ job[k].state = "busy"
       /\ OfExec(job[j]) = OfExec(job[k])
       => j = k

\* A nonempty set of natural numbers has a least element.
LEMMA NatMin ==
  ASSUME NEW T \in SUBSET Nat, T # {}
  PROVE  \E n \in T : \A m \in T : n <= m
<1>. DEFINE less == OpToRel(<, Nat)
<1>1. PICK n \in T : \A m \in T : ~ (<<m, n>> \in less)
  <2>1. IsWellFoundedOn(less, Nat)
    BY NatLessThanWellFounded
  <2>. HIDE DEF less
  <2>. QED  BY <2>1, WFMin
<1>2. \A m \in Nat, k \in Nat : m < k => <<m, k>> \in less
  BY Zenon DEF OpToRel
<1>3. \A m \in T : ~ (m < n)
  <2>. HIDE DEF less
  <2>. QED  BY <1>1, <1>2
<1>4. \A m \in T : n <= m
  BY <1>3
<1>. QED  BY <1>4

\* There always is a next call or the end.
LEMMA NextCallExists ==
  ASSUME NEW b \in JobRecords, Live(b)
  PROVE  GoesOn(b)
<1>1. Todo(b) \in SUBSET Nat
  BY PipelineFacts DEF Todo
<1>2. CASE Todo(b) = {}
  BY <1>2 DEF GoesOn, NextCalls
<1>3. CASE Todo(b) # {}
  <2>1. \E n \in Todo(b) : \A m \in Todo(b) : n <= m
    BY <1>1, <1>3, NatMin
  <2>. QED  BY <1>3, <2>1 DEF GoesOn, NextCalls
<1>. QED  BY <1>2, <1>3

\* Every call that is answered tells something, if only that there is nothing.
LEMMA SomethingLearnt ==
  ASSUME NEW b, NEW active
  PROVE  Learnt(b, active) # {}
<1>1. Picked(b, active) # {}
  <2>. DEFINE picks == IF b.req.named \in active THEN {b.req.named}
                       ELSE {c \in active : \A d \in active : Roas[c] <= Roas[d]}
  <2>1. Picked(b, active) = {[b EXCEPT !.target = c] : c \in IF picks = {} THEN {None} ELSE picks}
    BY Zenon DEF Picked
  <2>. HIDE DEF picks
  <2>2. (IF picks = {} THEN {None} ELSE picks) # {}
    OBVIOUS
  <2>. QED  BY <2>1, <2>2
<1>2. Ordered(b) # {} /\ Sought(b) # {} /\ Answered(b) # {}
  BY DEF Ordered, Sought, Answered
<1>3. Advised(b) # {}
  BY DEF Advised
<1>4. Generated(b) # {}
  <2>. DEFINE r(c, p) == [b EXCEPT !.failed = @ \cup c \cup p]
  <2>1. Generated(b) = {r(c, p) : c \in Copies, p \in Prompts}
    BY DEF Generated
  <2>. HIDE DEF r
  <2>2. {} \in Copies /\ {} \in Prompts
    BY DEF Copies, Prompts
  <2>3. r({}, {}) \in {r(c, p) : c \in Copies, p \in Prompts}
    BY <2>2
  <2>. QED  BY <2>1, <2>3
<1>5. Gathered(b) # {}
  <2>1. {} \in SUBSET Parts(b)
    OBVIOUS
  <2>. QED  BY <2>1 DEF Gathered
<1>. QED  BY <1>1, <1>2, <1>3, <1>4, <1>5 DEF Learnt

\* A job at work has a step to take.
LEMMA WorkGoesOn ==
  ASSUME Inv, IsFiniteSet(slots), NEW j \in Jobs, job[j].state = "busy"
  PROVE  CanGoOn(j)
<1>1. /\ job[j] \in JobRecords /\ Live(job[j]) /\ AdTarget(job[j])
      /\ job[j].at \in 1 .. End(job[j]) /\ End(job[j]) \in Nat
  <2>1. /\ job[j] \in JobRecords /\ Live(job[j]) /\ AdTarget(job[j])
        /\ job[j].at \in 1 .. End(job[j])
    BY DEF Inv, TypeInv, JobInv
  <2>. QED  BY <2>1, PipelineFacts
<1>. SUFFICES ASSUME job[j].at < End(job[j]) PROVE CanGoOn(j)
  BY <1>1 DEF CanGoOn
<1>2. ASSUME NEW c, Follows(c, job[j])
      PROVE  GoesOn(c)
  <2>1. c \in JobRecords /\ Live(c)
    BY <1>1, <1>2, SameRequest DEF Follows
  <2>. QED  BY <2>1, NextCallExists
<1>3. /\ GoesOn(job[j])
      /\ \A part \in Kept : GoesOn(Miss(job[j], part))
  BY <1>2, AtFacts DEF From
<1>4. GoesOn([job[j] EXCEPT !.acted = "written"])
  <2>. DEFINE b == [job[j] EXCEPT !.acted = "written"]
  <2>1. b \in JobRecords /\ b.req = job[j].req
    BY <1>1 DEF JobRecords
  <2>. HIDE DEF b
  <2>2. GoesOn(b)
    BY <1>1, <2>1, SameRequest, NextCallExists
  <2>. QED  BY <2>2 DEF b
<1>5. "slot" \in Kept /\ "taobao" \in Kept
  BY DEF Kept, Silent, Noted
<1>6. CASE Call(job[j]) = "scard"
  <2>1. Cardinality(slots) \in Nat /\ Limit \in Nat
    BY FS_CardinalityType, WorkflowsAssumption
  <2>2. Cardinality(slots) < Limit \/ Cardinality(slots) >= Limit
    BY <2>1
  <2>. QED  BY <1>3, <1>5, <1>6, <2>2 DEF CanGoOn
<1>7. CASE Call(job[j]) \in Checks \cup {"sadd", "expire", "srem"}
  BY <1>3, <1>7 DEF CanGoOn
<1>8. CASE Call(job[j]) = "write"
  BY <1>3, <1>4, <1>5, <1>8 DEF CanGoOn
<1>9. CASE Call(job[j]) \notin SlotCalls \cup Checks \cup {"write"}
  <2>1. Plain(j)
    BY <1>9 DEF Plain
  <2>2. PICK c \in Learnt(job[j], Campaigns \ paused) : TRUE
    BY SomethingLearnt
  <2>3. Campaigns \ paused \in SUBSET Campaigns
    OBVIOUS
  <2>4. GoesOn(c)
    BY <1>1, <1>2, <2>2, <2>3, LearntFacts DEF From
  <2>. QED  BY <2>1, <2>2, <2>4 DEF CanGoOn
<1>. QED  BY <1>6, <1>7, <1>8, <1>9 DEF SlotCalls

\* An agent has one job at work, and the tokens are finitely many.
Alone == \A j, k \in Jobs :
           /\ job[j].state = "busy" /\ job[k].state = "busy"
           /\ OfExec(job[j]) = OfExec(job[k])
           => j = k
FewTokens == IsFiniteSet(slots)

\* A job at work was so before, with the same request, or has just been taken.
LEMMA BusyBefore ==
  ASSUME Inv, NEW j \in Jobs, job[j].state = "busy", Moves(j) \/ Ends(j),
         job'[j].state = "busy"
  PROVE  job'[j].req = job[j].req
<1>1. CASE Moves(j)
  <2>1. PICK b : Follows(b, job[j]) /\ Goto(j, b)
    BY <1>1 DEF Moves
  <2>2. job'[j].req = b.req
    BY <1>1, <2>1, MoveFacts DEF Moves, Inv
  <2>. QED  BY <2>1, <2>2 DEF Follows
<1>2. CASE Ends(j)
  <2>1. PICK b, reply : Answer(j, b, reply)
    BY <1>2 DEF Ends
  <2>. DEFINE c == [NoJob EXCEPT !.state = "done", !.failed = b.failed \cap {"slot"},
                                 !.lost = b.failed \cap Noted # {}]
  <2>2. c.state = "done"
    BY DEF NoJob
  <2>3. job' = [job EXCEPT ![j] = c]
    BY <2>1 DEF Answer
  <2>. HIDE DEF c
  <2>4. job'[j] = c
    BY <2>3 DEF Inv, TypeInv
  <2>. QED  BY <2>2, <2>4
<1>. QED  BY <1>1, <1>2

\* An agent takes a message when it has none at work.
LEMMA AloneStep ==
  ASSUME Inv, Alone, [Next]_vars
  PROVE  Alone'
<1>1. ASSUME NEW j \in Jobs, \A k \in Jobs \ {j} : job'[k] = job[k],
             \/ job'[j].state # "busy"
             \/ job[j].state = "busy" /\ job'[j].req = job[j].req
             \/ /\ job'[j].req = job[j].req
                /\ \A k \in Jobs : job[k].state = "busy" => OfExec(job[k]) # OfExec(job[j])
      PROVE  Alone'
  <2>1. job'[j].req = job[j].req => OfExec(job'[j]) = OfExec(job[j])
    BY DEF OfExec
  <2>. QED  BY <1>1, <2>1 DEF Alone
<1>2. ASSUME NEW j \in Jobs,
             Work(j) \/ SlotFails(j) \/ Break(j) \/ BreakSlot(j) \/ BreakWrite(j)
      PROVE  Alone'
  <2>1. job[j].state = "busy" /\ (Moves(j) \/ Ends(j))
    BY <1>2, KindsOfWork
  <2>2. \A k \in Jobs \ {j} : job'[k] = job[k]
    BY <2>1, WorkChanges DEF Changes
  <2>. QED  BY <1>1, <2>1, <2>2, BusyBefore
<1>3. ASSUME NEW j \in Jobs, Submit(j)
      PROVE  Alone'
  <2>1. PICK g : job' = [job EXCEPT ![j] = [@ EXCEPT !.state = "queued", !.grant = g]]
    BY <1>3 DEF Submit
  <2>2. job[j] \in JobRecords /\ DOMAIN job = Jobs
    BY DEF Inv, TypeInv
  <2>3. job'[j].state = "queued" /\ \A k \in Jobs \ {j} : job'[k] = job[k]
    BY <2>1, <2>2 DEF JobRecords
  <2>. QED  BY <1>1, <2>3
<1>4. ASSUME NEW j \in Jobs, Take(j)
      PROVE  Alone'
  <2>. DEFINE b == [job[j] EXCEPT !.state = "busy", !.target = job[j].req.target,
                                  !.calm = ~Has(job[j], "risky")]
  <2>1. Goto(j, b)
    BY <1>4 DEF Take
  <2>2. job[j] \in JobRecords /\ DOMAIN job = Jobs
    BY DEF Inv, TypeInv
  <2>3. PICK n : job' = [job EXCEPT ![j] = [b EXCEPT !.at = n]]
    BY <2>1 DEF Goto
  <2>4. [b EXCEPT !.at = n].req = job[j].req
    BY <2>2 DEF JobRecords
  <2>. HIDE DEF b
  <2>5. job'[j].req = job[j].req /\ \A k \in Jobs \ {j} : job'[k] = job[k]
    BY <2>2, <2>3, <2>4
  <2>6. \A k \in Jobs : job[k].state = "busy" => OfExec(job[k]) # OfExec(job[j])
    BY <1>4 DEF Take
  <2>. QED  BY <1>1, <2>5, <2>6
<1>5. CASE job' = job
  BY <1>5 DEF Alone
<1>. QED  BY <1>2, <1>3, <1>4, <1>5 DEF Next, vars, Approve, OthersCome

\* A step adds a token or takes one away.
LEMMA TokensStep ==
  ASSUME FewTokens, [Next]_vars
  PROVE  FewTokens'
<1>1. \/ slots' = slots
      \/ \E x : slots' = slots \cup {x} \/ slots' = slots \ {x}
  <2>1. ASSUME NEW j \in Jobs, Work(j)
        PROVE  slots' = slots \/ slots' = slots \cup {j} \/ slots' = slots \ {j}
    BY <2>1 DEF Work, Parse, Succeed, Fail, Count, Add, Expire, Remove, Deadline, Ask,
       Refused, Written, WriteLost, Finish
  <2>2. ASSUME NEW j \in Jobs, Submit(j) \/ Take(j) \/ Break(j) \/ BreakWrite(j) \/ Approve(j)
        PROVE  slots' = slots
    BY <2>2 DEF Submit, Take, Break, BreakWrite, Approve
  <2>3. ASSUME NEW j \in Jobs, SlotFails(j) \/ BreakSlot(j)
        PROVE  slots' = slots \/ slots' = slots \cup {j} \/ slots' = slots \ {j}
    BY <2>3 DEF SlotFails, BreakSlot, Touched
  <2>4. ASSUME NEW o \in Others, OthersCome(o)
        PROVE  slots' = slots \cup {o} \/ slots' = slots \ {o}
    BY <2>4 DEF OthersCome
  <2>. QED  BY <2>1, <2>2, <2>3, <2>4 DEF Next, vars
<1>. QED  BY <1>1, FS_AddElement, FS_RemoveElement DEF FewTokens

\* No agent gets stuck, and no message waits for another agent's: the safety half
\* of AllAnswered.  A call that succeeds, fails or times out leads to a next call
\* or to an answer, whatever was learnt before it (workflows/, query_agent.py,
\* exec_agent.py, redis_rate_limit.py).
THEOREM AgentsGoOn == Spec => []NeverStuck
<1>1. Init => Alone /\ FewTokens
  <2>. SUFFICES ASSUME Init PROVE Alone /\ FewTokens
    OBVIOUS
  <2>1. \A j \in Jobs : job[j].state = "new"
    BY DEF Init, NoJob
  <2>. QED  BY <2>1, FS_EmptySet DEF Init, Alone, FewTokens
<1>2. Inv /\ Alone /\ FewTokens /\ [Next]_vars => Alone' /\ FewTokens'
  BY AloneStep, TokensStep
<1>3. Inv /\ Alone /\ FewTokens => NeverStuck
  BY WorkGoesOn DEF NeverStuck, Alone, FewTokens
<1>. QED  BY Invariance, <1>1, <1>2, <1>3, PTL DEF Spec
=============================================================================
