--------------------------- MODULE DataAnalysisProofs ---------------------------
(***************************************************************************)
(* Proofs about DataAnalysis, for any tables, columns, catalogs, requests, *)
(* statements, and numbers of steps, repairs and migrations.               *)
(***************************************************************************)
EXTENDS DataAnalysis, FiniteSetTheorems, SequenceTheorems, TLAPS

-----------------------------------------------------------------------------
(* The inductive invariant.                                                *)

AnySql == Statements \cup {NoStatement}
StepType == [at : Phases, linked : SUBSET Tables, sql : AnySql, runs : Seq(Outcomes),
             tries : 0..MaxRepairs, code : Codes]
AnyRequest == {r[b] : r \in Requests, b \in Jobs}
JobType == [state : {"new", "busy", "done"}, req : AnyRequest,
            plan : Seq(Questions), steps : Seq(StepType)]
AnswerType == [kind : {"none", "error", "success"}, code : Codes,
               status : {"none", "FAILED", "PARTIAL", "FULL_SUCCESS"}]

TypeInv ==
  /\ schema \in Schemas /\ migrations \in 0..MaxMigrations
  /\ boot \in {"tables", "columns", "relations", "keys", "ready"}
  /\ seen \in Catalogs /\ catalog \in Catalogs
  /\ job \in [Jobs -> JobType]
  /\ told \in [Jobs -> AnswerType]

\* A statement that may be sent for a request.
Checked(req, sql, linked) ==
  /\ sql.kind = "select"
  /\ req.kind # "tool" =>
       /\ req.user.authenticated
       /\ Looked(sql) # {} => req.user.tenant
       /\ \A t \in Looked(sql) : Granted(req.user, t)
       /\ \A c \in sql.columns : Granted(req.user, c[1]) /\ c \notin Denied
       /\ \A c \in LookedNames(sql) :
            \E t \in Looked(sql) : Granted(req.user, t) /\ <<t, c>> \notin Denied
       /\ req.sql = NoStatement => Looked(sql) \subseteq linked

\* What the runs of a step that is over have come to.
Ran(step) ==
  /\ Len(step.runs) <= step.tries + 1
  /\ \A i \in 1..Len(step.runs) - 1 : step.runs[i] \in Repairable
  /\ step.code = "none" => step.runs # <<>> /\ step.runs[Len(step.runs)] = "rows"
  /\ step.code = "SQL_REPAIR_EXHAUSTED" =>
       step.runs # <<>> /\ step.runs[Len(step.runs)] \in Repairable

\* Only tables of the user are linked, only checked statements executed, and
\* every run of a step that is not over was rejected and has been counted.
StepInv(req, step) ==
  /\ \A t \in step.linked : Granted(req.user, t)
  /\ step.at = "execute" => Checked(req, step.sql, step.linked)
  /\ step.at # "done" =>
       /\ step.code = "none" /\ Len(step.runs) = step.tries
       /\ \A i \in 1..Len(step.runs) : step.runs[i] \in Repairable
  /\ step.at = "repair" => step.tries >= 1
  /\ step.at = "done" => Ran(step)

JobInv(j) ==
  /\ Len(j.steps) = Len(j.plan)
  /\ j.state = "busy" /\ j.req.kind # "tool" => j.req.user.authenticated
  /\ \A n \in 1..Len(j.steps) : StepInv(j.req, j.steps[n])

ToldInv(j, t) ==
  /\ (t.kind # "none") <=> (j.state = "done")
  /\ t.kind = "none" => t.status = "none"
  /\ t.kind = "success" =>
       \A n \in 1..Len(j.steps) : j.steps[n].at = "done" /\ j.steps[n].code = "none"
  /\ t.status = "PARTIAL" =>
       \E m, n \in 1..Len(j.steps) : j.steps[m].code = "none" /\ j.steps[n].code # "none"

Inv ==
  /\ TypeInv
  /\ \A a \in Jobs : JobInv(job[a]) /\ ToldInv(job[a], told[a])
  /\ \A x \in sent : x.job \in Jobs /\ Checked(job[x.job].req, x.sql, x.linked)

-----------------------------------------------------------------------------
(* Lemmas about the definitions.                                           *)

LEMMA CodeFacts ==
  /\ \A s, u, scope : Problem(u, scope, s) \in Codes \ {"SQL_REPAIR_EXHAUSTED"}
  /\ \A o \in Outcomes : CodeOf(o) \in Codes /\ CodeOf(o) # "none"
       /\ (CodeOf(o) = "SQL_REPAIR_EXHAUSTED" => o \in Repairable)
  /\ \A p \in DOMAIN PhaseCode : /\ p \in {"link", "generate", "validate", "execute"}
                                 /\ PhaseCode[p] \in Codes
                                 /\ PhaseCode[p] \notin {"none", "SQL_REPAIR_EXHAUSTED"}
<1>1. \A s, u, scope : Problem(u, scope, s) \in Codes \ {"SQL_REPAIR_EXHAUSTED"}
  BY DEF Problem, Codes
<1>2. \A o \in Outcomes : CodeOf(o) \in Codes /\ CodeOf(o) # "none"
        /\ (CodeOf(o) = "SQL_REPAIR_EXHAUSTED" => o \in Repairable)
  BY DEF CodeOf, Codes
<1>3. ASSUME NEW p \in DOMAIN PhaseCode
      PROVE  /\ p \in {"link", "generate", "validate", "execute"}
             /\ PhaseCode[p] \in Codes
             /\ PhaseCode[p] \notin {"none", "SQL_REPAIR_EXHAUSTED"}
  <2>1. p \in {"link", "generate", "validate", "execute"}
    BY DEF PhaseCode
  <2>2. CASE p = "link"
    BY <2>2 DEF PhaseCode, Codes
  <2>3. CASE p = "generate"
    BY <2>3 DEF PhaseCode, Codes
  <2>4. CASE p = "validate"
    BY <2>4 DEF PhaseCode, Codes
  <2>5. CASE p = "execute"
    BY <2>5 DEF PhaseCode, Codes
  <2>6. QED
    BY <2>1, <2>2, <2>3, <2>4, <2>5
<1>4. QED
  BY <1>1, <1>2, <1>3

\* A plan is a sequence of questions.
LEMMA PlanFacts ==
  ASSUME NEW r, r.kind \in Kinds
  PROVE  Plan(r) \in Seq(Questions)
<1> USE DEF Questions, Kinds
<1>1. <<"trend">> \in Seq(Questions) /\ <<"category">> \in Seq(Questions)
        /\ <<"sku">> \in Seq(Questions) /\ <<r.kind>> \in Seq(Questions)
        /\ <<>> \in Seq(Questions)
  OBVIOUS
<1> DEFINE c == IF Category \in SeenColumns(r.user, Goods) /\ {Order, Goods} \in Relations(r.user)
                  THEN <<"category">> ELSE <<>>
           s == IF Sku \in SeenColumns(r.user, Order) THEN <<"sku">> ELSE <<>>
<1>2. c \in Seq(Questions) /\ s \in Seq(Questions)
  BY <1>1
<1>3. PlanSteps(r.user) = (<<"trend">> \o c) \o s
  BY DEF PlanSteps
<1> HIDE DEF c, s
<1>4. PlanSteps(r.user) \in Seq(Questions)
  BY <1>1, <1>2, <1>3, ConcatProperties
<1> DEFINE p == PlanSteps(r.user)
           k == IF Len(p) < Bound(MaxSteps) THEN Len(p) ELSE Bound(MaxSteps)
<1>5. SubSeq(p, 1, k) \in Seq(Questions)
  <2>1. k \in Nat /\ k <= Len(p)
    BY <1>4, DataAnalysisAssumption DEF Bound, DataAnalysisAssumption
  <2>2. \A i \in 1 .. k : p[i] \in Questions
    BY <1>4, <2>1
  <2> HIDE DEF k, p
  <2>3. QED
    BY <2>1, <2>2, SubSeqProperties
<1>6. Plan(r) \in {SubSeq(p, 1, k), <<r.kind>>}
  BY DEF Plan
<1>7. QED
  BY <1>1, <1>5, <1>6

LEMMA NoStepFacts ==
  ASSUME NEW req
  PROVE  NoStep \in StepType /\ StepInv(req, NoStep)
BY EmptySeq, DataAnalysisAssumption
   DEF NoStep, StepType, StepInv, Phases, Codes, AnySql, DataAnalysisAssumption

\* A step that ends, and one that goes on.
LEMMA EndedFacts ==
  ASSUME NEW req, NEW step, NEW code \in Codes,
         step.runs \in Seq(Outcomes), step.tries \in 0..MaxRepairs,
         Ran(Ended(step, code))
  PROVE  Ended(step, code) \in StepType /\ StepInv(req, Ended(step, code))
<1> DEFINE e == Ended(step, code)
<1>1. e \in StepType /\ e.at = "done" /\ e.linked = {} /\ e.code = code
        /\ e.runs = step.runs /\ e.tries = step.tries
  BY DEF Ended, NoStep, StepType, Phases, AnySql
<1>2. Ran(e)
  OBVIOUS
<1> HIDE DEF e
<1>3. QED
  BY <1>1, <1>2 DEF StepInv, e

\* One job changes, of the same request.
LEMMA JobChange ==
  ASSUME Inv, NEW a \in Jobs, NEW j \in JobType, job' = [job EXCEPT ![a] = j],
         j.req = job[a].req, JobInv(j), UNCHANGED <<schema, migrations, loader>>,
         told' \in [Jobs -> AnswerType], \A b \in Jobs \ {a} : told'[b] = told[b],
         ToldInv(j, told'[a]),
         \A x \in sent' : x \in sent \/ (x.job = a /\ Checked(job[a].req, x.sql, x.linked))
  PROVE  Inv'
<1>1. \A b \in Jobs : job'[b] = IF b = a THEN j ELSE job[b]
  BY DEF Inv, TypeInv
<1>2. \A b \in Jobs : job'[b].req = job[b].req
  BY <1>1
<1>3. TypeInv'
  BY DEF Inv, TypeInv, loader
<1>4. \A b \in Jobs : JobInv(job'[b]) /\ ToldInv(job'[b], told'[b])
  BY <1>1 DEF Inv
<1>5. \A x \in sent' : x.job \in Jobs /\ Checked(job'[x.job].req, x.sql, x.linked)
  BY <1>2 DEF Inv
<1>6. QED
  BY <1>3, <1>4, <1>5 DEF Inv

\* One step changes, of a job that is busy.
LEMMA StepChange ==
  ASSUME Inv, NEW a \in Jobs, NEW n \in StepsOf(a), job[a].state = "busy",
         NEW step \in StepType, StepInv(job[a].req, step), Set(a, n, step),
         UNCHANGED <<schema, migrations, loader, told>>,
         \A x \in sent' : x \in sent \/ (x.job = a /\ Checked(job[a].req, x.sql, x.linked))
  PROVE  Inv'
<1> DEFINE steps == [job[a].steps EXCEPT ![n] = step]
           j == [job[a] EXCEPT !.steps = steps]
<1>1. job[a] \in JobType /\ job[a].steps \in Seq(StepType) /\ JobInv(job[a])
        /\ ToldInv(job[a], told[a]) /\ job \in [Jobs -> JobType]
  BY DEF Inv, TypeInv, JobType
<1>2. n \in 1..Len(job[a].steps)
  BY <1>1 DEF StepsOf
<1>3. /\ steps \in Seq(StepType) /\ Len(steps) = Len(job[a].steps)
      /\ \A m \in 1..Len(job[a].steps) : steps[m] = IF m = n THEN step ELSE job[a].steps[m]
  BY <1>1, <1>2, ExceptSeq
<1>4. job' = [job EXCEPT ![a] = j]
  BY <1>1 DEF Set
<1> HIDE DEF steps
<1>5. j \in JobType /\ j.req = job[a].req /\ j.state = "busy" /\ j.plan = job[a].plan
        /\ j.steps = steps
  BY <1>1, <1>3 DEF JobType
<1> HIDE DEF j
<1>6. JobInv(j)
  BY <1>1, <1>3, <1>5 DEF JobInv
<1>7. told' = told /\ told \in [Jobs -> AnswerType]
  BY DEF Inv, TypeInv
<1>8. ToldInv(j, told'[a])
  BY <1>1, <1>5, <1>7 DEF ToldInv
<1>9. QED
  BY <1>4, <1>5, <1>6, <1>7, <1>8, JobChange

\* A job is over.
LEMMA TellKeeps ==
  ASSUME Inv, NEW a \in Jobs, NEW answer \in AnswerType, Tell(a, answer),
         answer.kind # "none",
         answer.kind = "success" =>
           \A n \in 1..Len(job[a].steps) :
             job[a].steps[n].at = "done" /\ job[a].steps[n].code = "none",
         answer.status = "PARTIAL" =>
           \E m, n \in 1..Len(job[a].steps) :
             job[a].steps[m].code = "none" /\ job[a].steps[n].code # "none",
         UNCHANGED <<schema, migrations, loader>>,
         \A x \in sent' : x \in sent \/ (x.job = a /\ Checked(job[a].req, x.sql, x.linked))
  PROVE  Inv'
<1> DEFINE j == [job[a] EXCEPT !.state = "done"]
<1>1. job[a] \in JobType /\ JobInv(job[a]) /\ job \in [Jobs -> JobType]
        /\ told \in [Jobs -> AnswerType]
  BY DEF Inv, TypeInv
<1>2. job' = [job EXCEPT ![a] = j] /\ told' = [told EXCEPT ![a] = answer]
  BY <1>1 DEF Tell
<1>3. j \in JobType /\ j.req = job[a].req /\ j.state = "done" /\ j.plan = job[a].plan
        /\ j.steps = job[a].steps
  BY <1>1 DEF JobType
<1> HIDE DEF j
<1>4. JobInv(j)
  BY <1>1, <1>3 DEF JobInv
<1>5. told' \in [Jobs -> AnswerType] /\ told'[a] = answer
        /\ \A b \in Jobs \ {a} : told'[b] = told[b]
  BY <1>1, <1>2
<1>6. ToldInv(j, told'[a])
  BY <1>3, <1>5 DEF ToldInv
<1>7. QED
  BY <1>2, <1>3, <1>4, <1>5, <1>6, JobChange
-----------------------------------------------------------------------------
(* The steps.                                                              *)

LEMMA LoadStep ==
  ASSUME Inv, Load \/ \E t \in Tables, columns \in SUBSET Columns : Migrate(t, columns)
  PROVE  Inv'
<1> USE DataAnalysisAssumption DEF DataAnalysisAssumption
<1>1. UNCHANGED <<job, told, sent>>
  BY DEF Load, LoadTables, LoadColumns, LoadRelations, LoadKeys, LoadFails, Migrate
<1>2. schema' \in Schemas /\ migrations' \in 0..MaxMigrations
  <2>1. CASE Load
    BY <2>1 DEF Inv, TypeInv, Load, LoadTables, LoadColumns, LoadRelations, LoadKeys, LoadFails
  <2>2. ASSUME NEW t \in Tables, NEW columns \in SUBSET Columns, Migrate(t, columns)
        PROVE  schema' \in Schemas /\ migrations' \in 0..MaxMigrations
    BY <2>2 DEF Inv, TypeInv, Schemas, Migrate
  <2>3. QED
    BY <2>1, <2>2
<1>3. boot' \in {"tables", "columns", "relations", "keys", "ready"}
  BY DEF Inv, TypeInv, Load, LoadTables, LoadColumns, LoadRelations, LoadKeys, LoadFails, Migrate
<1>4. seen' \in Catalogs /\ catalog' \in Catalogs
  <2>1. CASE LoadTables \/ LoadColumns \/ LoadRelations
    <3>1. CASE LoadTables
      BY <3>1 DEF Inv, TypeInv, Catalogs, Schemas, LoadTables
    <3>2. CASE LoadColumns
      BY <3>2 DEF Inv, TypeInv, Catalogs, Schemas, LoadColumns
    <3>3. CASE LoadRelations
      BY <3>3 DEF Inv, TypeInv, Catalogs, LoadRelations
    <3>4. QED
      BY <2>1, <3>1, <3>2, <3>3
  <2>2. CASE LoadKeys \/ LoadFails
    BY <2>2 DEF Inv, TypeInv, Catalogs, LoadKeys, LoadFails
  <2>3. CASE \E t \in Tables, columns \in SUBSET Columns : Migrate(t, columns)
    BY <2>3 DEF Inv, TypeInv, Migrate
  <2>4. QED
    BY <2>1, <2>2, <2>3 DEF Load
<1>5. QED
  BY <1>1, <1>2, <1>3, <1>4 DEF Inv, TypeInv

\* What is asked of a job.
LEMMA RequestFacts ==
  ASSUME Inv, NEW a \in Jobs
  PROVE  /\ job[a].req.sql \in AnySql
         /\ job[a].req # NoRequest => job[a].req.kind \in Kinds
<1>1. job[a].req \in AnyRequest
  BY DEF Inv, TypeInv, JobType
<1>2. PICK r \in Requests, b \in Jobs : job[a].req = r[b]
  BY <1>1 DEF AnyRequest
<1>3. NoRequest.sql = NoStatement
  BY DEF NoRequest
<1>4. r[b] = NoRequest \/ (r[b].kind \in Kinds /\ r[b].sql \in AnySql)
  BY DataAnalysisAssumption DEF DataAnalysisAssumption, AnySql
<1>5. QED
  BY <1>2, <1>3, <1>4 DEF AnySql

LEMMA BeginStep == ASSUME Inv, NEW a \in Jobs, Begin(a) PROVE Inv'
<1>1. job[a] \in JobType /\ JobInv(job[a]) /\ job \in [Jobs -> JobType]
        /\ ToldInv(job[a], told[a]) /\ told \in [Jobs -> AnswerType]
        /\ job[a].state = "new" /\ sent' = sent /\ UNCHANGED <<schema, migrations, loader>>
  BY DEF Inv, TypeInv, Begin
<1>2. CASE ~job[a].req.user.authenticated /\ job[a].req.kind # "tool"
  <2>1. Error("AUTHENTICATION_REQUIRED") \in AnswerType
          /\ Error("AUTHENTICATION_REQUIRED").kind = "error"
          /\ Error("AUTHENTICATION_REQUIRED").status = "FAILED"
    BY DEF Error, AnswerType, Codes
  <2>2. Tell(a, Error("AUTHENTICATION_REQUIRED"))
    BY <1>2 DEF Begin
  <2>3. QED
    BY <1>1, <2>1, <2>2, TellKeeps
<1>3. CASE ~(~job[a].req.user.authenticated /\ job[a].req.kind # "tool")
  <2> DEFINE p == Plan(job[a].req)
             steps == [n \in DOMAIN p |-> NoStep]
             j == [job[a] EXCEPT !.state = "busy", !.plan = p, !.steps = steps]
  <2>1. job[a].req.kind \in Kinds
    BY RequestFacts DEF Begin
  <2>2. p \in Seq(Questions)
    BY <2>1, PlanFacts
  <2>3. job' = [job EXCEPT ![a] = j] /\ told' = told
    BY <1>1, <1>3 DEF Begin
  <2> HIDE DEF p
  <2>4. /\ steps \in Seq(StepType) /\ Len(steps) = Len(p)
        /\ \A n \in 1..Len(steps) : steps[n] = NoStep
    BY <2>2, NoStepFacts
  <2> HIDE DEF steps
  <2>5. j \in JobType /\ j.req = job[a].req /\ j.state = "busy" /\ j.plan = p
          /\ j.steps = steps
    BY <1>1, <2>2, <2>4 DEF JobType
  <2> HIDE DEF j
  <2>6. JobInv(j)
    BY <1>3, <2>4, <2>5, NoStepFacts DEF JobInv
  <2>7. ToldInv(j, told'[a])
    BY <1>1, <2>3, <2>5 DEF ToldInv
  <2>8. QED
    BY <1>1, <2>3, <2>5, <2>6, <2>7, JobChange
<1>4. QED
  BY <1>2, <1>3

\* What is known of a step of a busy job.
LEMMA AtFacts ==
  ASSUME Inv, NEW a \in Jobs, NEW n \in StepsOf(a), NEW phase, At(a, n, phase)
  PROVE  /\ Step(a, n) \in StepType /\ Step(a, n).at = phase
         /\ StepInv(job[a].req, Step(a, n)) /\ job[a].state = "busy"
         /\ job[a].req.kind # "tool" => job[a].req.user.authenticated
<1>1. job[a] \in JobType /\ job[a].steps \in Seq(StepType) /\ JobInv(job[a])
  BY DEF Inv, TypeInv, JobType
<1>2. n \in 1..Len(job[a].steps)
  BY <1>1 DEF StepsOf
<1>3. Step(a, n) \in StepType /\ StepInv(job[a].req, Step(a, n))
  BY <1>1, <1>2, ElementOfSeq DEF JobInv, Step
<1>4. QED
  BY <1>1, <1>3 DEF At, Step, JobInv

\* A step that goes on without a run, and is not about to be executed.
LEMMA GoesOn ==
  ASSUME Inv, NEW a \in Jobs, NEW n \in StepsOf(a), NEW phase, At(a, n, phase),
         phase # "done", NEW step \in StepType,
         step.at \in {"link", "generate", "validate"},
         step.runs = Step(a, n).runs, step.tries = Step(a, n).tries,
         step.code = Step(a, n).code,
         \A t \in step.linked : Granted(job[a].req.user, t),
         Set(a, n, step), UNCHANGED <<schema, migrations, loader, told, sent>>
  PROVE  Inv'
<1>1. StepInv(job[a].req, step)
  BY AtFacts DEF StepInv
<1>2. QED
  BY <1>1, AtFacts, StepChange

\* A step that ends without another run, and not as exhausted.
LEMMA Ends ==
  ASSUME Inv, NEW a \in Jobs, NEW n \in StepsOf(a), NEW phase, At(a, n, phase),
         phase # "done", NEW code \in Codes \ {"none"}, End(a, n, code),
         code = "SQL_REPAIR_EXHAUSTED" => phase = "repair",
         UNCHANGED <<schema, migrations, loader, told, sent>>
  PROVE  Inv'
<1> DEFINE old == Step(a, n)
           e == Ended(old, code)
<1>1. old \in StepType /\ old.at = phase /\ StepInv(job[a].req, old) /\ job[a].state = "busy"
  BY AtFacts
<1>2. old.runs \in Seq(Outcomes) /\ old.tries \in 0..MaxRepairs /\ Len(old.runs) = old.tries
        /\ \A i \in 1..Len(old.runs) : old.runs[i] \in Repairable
  BY <1>1 DEF StepType, StepInv
<1>3. phase = "repair" => Len(old.runs) >= 1 /\ old.runs[Len(old.runs)] \in Repairable
  BY <1>1, <1>2 DEF StepInv
<1>4. e.runs = old.runs /\ e.tries = old.tries /\ e.code = code
  BY DEF Ended, NoStep
<1>5. Ran(e)
  <2> HIDE DEF e, old
  <2>1. MaxRepairs \in Nat
    BY DataAnalysisAssumption DEF DataAnalysisAssumption
  <2>2. code = "SQL_REPAIR_EXHAUSTED" => e.runs # <<>> /\ e.runs[Len(e.runs)] \in Repairable
    BY <1>2, <1>3, <1>4, EmptySeq
  <2>3. QED
    BY <1>2, <1>4, <2>1, <2>2 DEF Ran
<1>6. e \in StepType /\ StepInv(job[a].req, e)
  BY <1>2, <1>5, EndedFacts
<1>7. Set(a, n, e)
  BY DEF End
<1> HIDE DEF e
<1>8. QED
  BY <1>1, <1>6, <1>7, StepChange
LEMMA LinkStep == ASSUME Inv, NEW a \in Jobs, NEW n \in StepsOf(a), Start(a, n) \/ Link(a, n)
                  PROVE  Inv'
<1>1. ASSUME NEW linked \in SUBSET Tables, NEW phase \in {"link", "generate"}, NEW old,
             At(a, n, old), old # "done",
             \A t \in linked : Granted(job[a].req.user, t),
             Set(a, n, [Step(a, n) EXCEPT !.at = phase, !.linked = linked]),
             UNCHANGED <<schema, migrations, loader, told, sent>>
      PROVE  Inv'
  <2> DEFINE s == [Step(a, n) EXCEPT !.at = phase, !.linked = linked]
  <2>1. Step(a, n) \in StepType
    BY <1>1, AtFacts
  <2>2. /\ s \in StepType /\ s.at = phase /\ s.linked = linked /\ s.runs = Step(a, n).runs
        /\ s.tries = Step(a, n).tries /\ s.code = Step(a, n).code
    BY <2>1 DEF StepType, Phases
  <2>3. Set(a, n, s)
    BY <1>1
  <2> HIDE DEF s
  <2>4. QED
    BY <1>1, <2>2, <2>3, GoesOn
<1>2. CASE Start(a, n)
  <2> DEFINE linked == Step(a, n).linked
  <2>1. At(a, n, "wait") /\ UNCHANGED <<schema, migrations, loader, told, sent>>
    BY <1>2 DEF Start
  <2>2. Step(a, n) \in StepType /\ StepInv(job[a].req, Step(a, n))
    BY <2>1, AtFacts
  <2>3. linked \in SUBSET Tables /\ \A t \in linked : Granted(job[a].req.user, t)
    BY <2>2 DEF StepType, StepInv
  <2>4. ASSUME NEW phase \in {"link", "generate"}, Goto(a, n, phase)
        PROVE  Inv'
    <3>1. [Step(a, n) EXCEPT !.at = phase] = [Step(a, n) EXCEPT !.at = phase, !.linked = linked]
      BY <2>2 DEF StepType
    <3>2. QED
      BY <1>1, <2>1, <2>3, <2>4, <3>1 DEF Goto
  <2>5. ASSUME End(a, n, "PERMISSION_DENIED")
        PROVE  Inv'
    BY <2>1, <2>5, Ends DEF Codes
  <2>6. QED
    BY <1>2, <2>4, <2>5 DEF Start
<1>3. CASE Link(a, n)
  <2>1. PICK linked \in SUBSET Allowed(job[a].req.user) \ {{}} :
          Set(a, n, [Step(a, n) EXCEPT !.at = "generate", !.linked = linked])
    BY <1>3 DEF Link
  <2>2. linked \in SUBSET Tables /\ \A t \in linked : Granted(job[a].req.user, t)
    BY DEF Allowed, SeenColumns
  <2>3. QED
    BY <1>1, <1>3, <2>1, <2>2 DEF Link
<1>4. QED
  BY <1>2, <1>3

LEMMA GenerateStep == ASSUME Inv, NEW a \in Jobs, NEW n \in StepsOf(a), Generate(a, n)
                      PROVE  Inv'
<1>1. At(a, n, "generate") /\ UNCHANGED <<schema, migrations, loader, told, sent>>
  BY DEF Generate
<1>2. Step(a, n) \in StepType /\ StepInv(job[a].req, Step(a, n))
  BY <1>1, AtFacts
<1>3. Written(a, n) \subseteq AnySql
  <2>1. job[a].plan \in Seq(Questions) /\ n \in 1..Len(job[a].plan)
    BY DEF Inv, TypeInv, JobType, JobInv, StepsOf
  <2>2. Question(a, n) \in Questions
    BY <2>1, ElementOfSeq DEF Question
  <2>3. Template[Question(a, n)] \in AnySql
    BY <2>2, DataAnalysisAssumption DEF DataAnalysisAssumption, AnySql
  <2>4. QED
    BY <2>3, RequestFacts DEF Written, AnySql
<1>4. ASSUME NEW sql \in Written(a, n),
             Set(a, n, [Step(a, n) EXCEPT !.at = "validate", !.sql = sql])
      PROVE  Inv'
  <2> DEFINE s == [Step(a, n) EXCEPT !.at = "validate", !.sql = sql]
  <2>1. /\ s \in StepType /\ s.at = "validate" /\ s.linked = Step(a, n).linked
        /\ s.runs = Step(a, n).runs /\ s.tries = Step(a, n).tries
        /\ s.code = Step(a, n).code
    BY <1>2, <1>3 DEF StepType, Phases
  <2>2. \A t \in s.linked : Granted(job[a].req.user, t)
    BY <1>2, <2>1 DEF StepInv
  <2>3. Set(a, n, s)
    BY <1>4
  <2> HIDE DEF s
  <2>4. QED
    BY <1>1, <2>1, <2>2, <2>3, GoesOn
<1>5. ASSUME NEW code \in {"SKILL_FAILED", "SQL_GENERATION_ERROR"}, End(a, n, code)
      PROVE  Inv'
  BY <1>1, <1>5, Ends DEF Codes
<1>6. QED
  BY <1>4, <1>5 DEF Generate

\* A statement that is found right may be sent.
LEMMA RightIsChecked ==
  ASSUME Inv, NEW a \in Jobs, NEW n \in StepsOf(a), At(a, n, "validate"), Wrong(a, n) = "none"
  PROVE  Checked(job[a].req, Step(a, n).sql, Step(a, n).linked)
<1> DEFINE step == Step(a, n)
           req == job[a].req
           user == req.user
           scope == Scope(job[a], step)
<1>1. step \in StepType /\ StepInv(req, step) /\ (req.kind # "tool" => user.authenticated)
  BY AtFacts
<1>2. step.sql.columns \subseteq Tables \X Columns
  BY <1>1, DataAnalysisAssumption DEF StepType, AnySql, DataAnalysisAssumption
<1>3. CASE req.kind = "tool"
  BY <1>3 DEF Wrong, Sanitary, Checked
<1>4. CASE req.kind # "tool"
  <2>1. Problem(user, scope, step.sql) = "none"
    BY <1>4 DEF Wrong
  <2>2. /\ step.sql.kind = "select" /\ Looked(step.sql) \subseteq scope
        /\ Looked(step.sql) # {} => user.tenant
        /\ \A x \in step.sql.columns : x[1] \in scope /\ x[2] \in SeenColumns(user, x[1])
        /\ \A c \in LookedNames(step.sql) : \E t \in Looked(step.sql) : c \in SeenColumns(user, t)
    BY <2>1 DEF Problem
  <2>3. \A t \in scope : Granted(user, t)
    BY <1>1 DEF Scope, StepInv, Allowed, SeenColumns
  <2>4. \A x \in step.sql.columns : Granted(user, x[1]) /\ x \notin Denied
    <3>1. \A x \in step.sql.columns : x = <<x[1], x[2]>>
      BY <1>2
    <3>2. QED
      BY <2>2, <3>1 DEF SeenColumns
  <2>5. \A c \in LookedNames(step.sql) :
          \E t \in Looked(step.sql) : Granted(user, t) /\ <<t, c>> \notin Denied
    BY <2>2 DEF SeenColumns
  <2>6. req.sql = NoStatement => scope = step.linked
    BY DEF Scope
  <2>7. QED
    BY <1>1, <1>4, <2>2, <2>3, <2>4, <2>5, <2>6 DEF Checked
<1>5. QED
  BY <1>3, <1>4

LEMMA ValidateStep == ASSUME Inv, NEW a \in Jobs, NEW n \in StepsOf(a), Validate(a, n)
                      PROVE  Inv'
<1>1. At(a, n, "validate") /\ UNCHANGED <<schema, migrations, loader, told, sent>>
  BY DEF Validate
<1>2. CASE Wrong(a, n) = "none"
  <2> DEFINE s == [Step(a, n) EXCEPT !.at = "execute"]
  <2>1. Step(a, n) \in StepType /\ StepInv(job[a].req, Step(a, n)) /\ job[a].state = "busy"
          /\ Step(a, n).at = "validate"
    BY <1>1, AtFacts
  <2>2. /\ s \in StepType /\ s.at = "execute" /\ s.linked = Step(a, n).linked
        /\ s.sql = Step(a, n).sql /\ s.runs = Step(a, n).runs /\ s.tries = Step(a, n).tries
        /\ s.code = Step(a, n).code
    BY <2>1 DEF StepType, Phases
  <2>3. Set(a, n, s)
    BY <1>2 DEF Validate, Goto
  <2> HIDE DEF s
  <2>4. StepInv(job[a].req, s)
    BY <1>1, <1>2, <2>1, <2>2, RightIsChecked DEF StepInv
  <2>5. QED
    BY <1>1, <2>1, <2>2, <2>3, <2>4, StepChange
<1>3. CASE Wrong(a, n) # "none"
  <2>1. Wrong(a, n) \in Codes /\ Wrong(a, n) # "SQL_REPAIR_EXHAUSTED"
    BY CodeFacts DEF Wrong, Codes
  <2>2. QED
    BY <1>1, <1>3, <2>1, Ends DEF Validate
<1>4. QED
  BY <1>2, <1>3
\* A run is added to those that were rejected.
LEMMA RunFacts ==
  ASSUME NEW runs \in Seq(Outcomes), NEW outcome \in Outcomes,
         \A i \in 1..Len(runs) : runs[i] \in Repairable
  PROVE  /\ Append(runs, outcome) \in Seq(Outcomes)
         /\ Append(runs, outcome) # <<>> /\ Len(Append(runs, outcome)) = Len(runs) + 1
         /\ \A i \in 1..Len(runs) : Append(runs, outcome)[i] \in Repairable
         /\ Append(runs, outcome)[Len(runs) + 1] = outcome
BY AppendProperties

LEMMA ExecuteStep == ASSUME Inv, NEW a \in Jobs, NEW n \in StepsOf(a), Execute(a, n)
                     PROVE  Inv'
<1> DEFINE old == Step(a, n)
<1>1. /\ At(a, n, "execute") /\ UNCHANGED <<schema, migrations, loader, told>>
      /\ sent' = sent \cup {[job |-> a, sql |-> old.sql, linked |-> old.linked]}
  BY DEF Execute
<1>2. old \in StepType /\ StepInv(job[a].req, old) /\ job[a].state = "busy" /\ old.at = "execute"
  BY <1>1, AtFacts
<1>3. /\ old.runs \in Seq(Outcomes) /\ old.tries \in 0..MaxRepairs /\ Len(old.runs) = old.tries
      /\ \A i \in 1..Len(old.runs) : old.runs[i] \in Repairable
      /\ Checked(job[a].req, old.sql, old.linked) /\ old.code = "none"
      /\ \A t \in old.linked : Granted(job[a].req.user, t)
  BY <1>2 DEF StepType, StepInv
<1>4. \A x \in sent' : x \in sent \/ (x.job = a /\ Checked(job[a].req, x.sql, x.linked))
  BY <1>1, <1>3
<1>5. PICK outcome \in Answers(old.sql) :
        LET ran == [old EXCEPT !.runs = Append(@, outcome)]
        IN  IF outcome = "rows" THEN Set(a, n, Ended(ran, "none"))
            ELSE IF job[a].req.kind = "tool" THEN Set(a, n, Ended(ran, "SKILL_FAILED"))
            ELSE IF MayRepair(old, outcome)
              THEN Set(a, n, [ran EXCEPT !.at = "repair", !.tries = @ + 1])
            ELSE Set(a, n, Ended(ran, CodeOf(outcome)))
  BY DEF Execute
<1>6. outcome \in Outcomes
  BY DEF Answers, Outcomes
<1> DEFINE ran == [old EXCEPT !.runs = Append(@, outcome)]
           again == [ran EXCEPT !.at = "repair", !.tries = @ + 1]
<1>7. /\ ran.runs \in Seq(Outcomes) /\ ran.runs # <<>> /\ Len(ran.runs) = old.tries + 1
      /\ \A i \in 1..old.tries : ran.runs[i] \in Repairable
      /\ ran.runs[Len(ran.runs)] = outcome
      /\ ran.tries = old.tries
  <2>1. ran.runs = Append(old.runs, outcome) /\ ran.tries = old.tries
    BY <1>2 DEF StepType
  <2> HIDE DEF ran, old
  <2>2. QED
    BY <1>3, <1>6, <2>1, RunFacts
<1>8. ASSUME NEW code \in Codes, code = "none" => outcome = "rows",
             code = "SQL_REPAIR_EXHAUSTED" => outcome \in Repairable,
             Set(a, n, Ended(ran, code))
      PROVE  Inv'
  <2> DEFINE e == Ended(ran, code)
  <2>1. e.runs = ran.runs /\ e.tries = ran.tries /\ e.code = code
    BY DEF Ended, NoStep
  <2> HIDE DEF ran
  <2>2. Ran(e)
    <3> HIDE DEF e, old
    <3>1. QED
      BY <1>3, <1>7, <1>8, <2>1 DEF Ran
  <2>3. e \in StepType /\ StepInv(job[a].req, e)
    BY <1>3, <1>7, <2>2, EndedFacts
  <2>4. QED
    BY <1>1, <1>2, <1>4, <1>8, <2>3, StepChange
<1>9. CASE outcome = "rows"
  BY <1>5, <1>8, <1>9 DEF Codes
<1>10. CASE outcome # "rows" /\ job[a].req.kind = "tool"
  BY <1>5, <1>8, <1>10 DEF Codes
<1>11. CASE outcome # "rows" /\ job[a].req.kind # "tool" /\ MayRepair(old, outcome)
  <2>1. Set(a, n, again)
    BY <1>5, <1>11
  <2>2. outcome \in Repairable /\ old.tries < MaxRepairs
    BY <1>11 DEF MayRepair
  <2>3. /\ again \in StepType /\ again.at = "repair" /\ again.tries = old.tries + 1
        /\ again.runs = ran.runs /\ again.code = old.code /\ again.linked = old.linked
    <3>1. old.tries + 1 \in 0..MaxRepairs
      BY <1>3, <2>2, DataAnalysisAssumption DEF DataAnalysisAssumption
    <3>2. QED
      BY <1>2, <1>7, <3>1 DEF StepType, Phases
  <2> HIDE DEF again, ran, old
  <2>4. \A i \in 1..Len(again.runs) : again.runs[i] \in Repairable
    BY <1>3, <1>7, <2>2, <2>3
  <2>5. StepInv(job[a].req, again)
    BY <1>3, <1>7, <2>3, <2>4 DEF StepInv
  <2>6. QED
    BY <1>1, <1>2, <1>4, <2>1, <2>3, <2>5, StepChange
<1>12. CASE outcome # "rows" /\ job[a].req.kind # "tool" /\ ~MayRepair(old, outcome)
  <2>1. Set(a, n, Ended(ran, CodeOf(outcome)))
    BY <1>5, <1>12
  <2>2. QED
    BY <1>6, <1>8, <2>1, CodeFacts
<1>13. QED
  BY <1>9, <1>10, <1>11, <1>12

LEMMA RepairStep == ASSUME Inv, NEW a \in Jobs, NEW n \in StepsOf(a), Repair(a, n) \/ Breaks(a, n)
                    PROVE  Inv'
<1>1. UNCHANGED <<schema, migrations, loader, told, sent>>
  BY DEF Repair, Breaks
<1>2. ASSUME At(a, n, "repair"), NEW sql \in Statements,
             Set(a, n, [Step(a, n) EXCEPT !.at = "validate", !.sql = sql])
      PROVE  Inv'
  <2> DEFINE s == [Step(a, n) EXCEPT !.at = "validate", !.sql = sql]
  <2>1. Step(a, n) \in StepType /\ StepInv(job[a].req, Step(a, n))
    BY <1>2, AtFacts
  <2>2. /\ s \in StepType /\ s.at = "validate" /\ s.linked = Step(a, n).linked
        /\ s.runs = Step(a, n).runs /\ s.tries = Step(a, n).tries
        /\ s.code = Step(a, n).code
    BY <2>1 DEF StepType, Phases, AnySql
  <2>3. \A t \in s.linked : Granted(job[a].req.user, t)
    BY <2>1, <2>2 DEF StepInv
  <2>4. Set(a, n, s)
    BY <1>2
  <2> HIDE DEF s
  <2>5. QED
    BY <1>1, <1>2, <2>2, <2>3, <2>4, GoesOn
<1>3. ASSUME At(a, n, "repair"), End(a, n, "SQL_REPAIR_EXHAUSTED")
      PROVE  Inv'
  BY <1>1, <1>3, Ends DEF Codes
<1>4. ASSUME NEW phase \in DOMAIN PhaseCode, At(a, n, phase),
             NEW code \in {"SKILL_FAILED", "SQL_EXECUTION_ERROR", PhaseCode[phase]},
             End(a, n, code)
      PROVE  Inv'
  <2>1. code \in Codes \ {"none"} /\ code # "SQL_REPAIR_EXHAUSTED" /\ phase # "done"
    BY CodeFacts DEF Codes
  <2>2. QED
    BY <1>1, <1>4, <2>1, Ends
<1>5. QED
  BY <1>2, <1>3, <1>4 DEF Repair, Breaks, Rewritten

\* A whole success takes every step, and a partial one some.
LEMMA FinishStep == ASSUME Inv, NEW a \in Jobs, Finish(a) PROVE Inv'
<1>1. /\ Tell(a, Answer(a)) /\ UNCHANGED <<schema, migrations, loader>> /\ sent' = sent
      /\ \A n \in StepsOf(a) : Step(a, n).at = "done"
  BY DEF Finish
<1>2. job[a].steps \in Seq(StepType) /\ StepsOf(a) = 1..Len(job[a].steps)
  BY DEF Inv, TypeInv, JobType, StepsOf
<1>3. \A n \in StepsOf(a) : Step(a, n) \in StepType /\ Step(a, n) = job[a].steps[n]
  BY <1>2, ElementOfSeq DEF Step
<1>4. /\ Answer(a) \in AnswerType /\ Answer(a).kind # "none"
      /\ Answer(a).kind = "success" => Won(a) = StepsOf(a)
      /\ Answer(a).status = "PARTIAL" => Won(a) # StepsOf(a) /\ Won(a) # {}
  <2> DEFINE success == [kind |-> "success", code |-> "none", status |-> "FULL_SUCCESS"]
             partial(x) == [Error("SQL_EXECUTION_ERROR") EXCEPT !.status = x]
  <2>1. success \in AnswerType /\ success.kind = "success" /\ success.status = "FULL_SUCCESS"
    BY DEF AnswerType, Codes
  <2>2. \A x \in {"FAILED", "PARTIAL"} :
          partial(x) \in AnswerType /\ partial(x).kind = "error" /\ partial(x).status = x
    BY DEF AnswerType, Error, Codes
  <2>3. \A c \in Codes : Error(c) \in AnswerType /\ Error(c).kind = "error"
                         /\ Error(c).status = "FAILED"
    BY DEF AnswerType, Error
  <2>4. CASE Won(a) = StepsOf(a)
    BY <2>1, <2>4 DEF Answer
  <2>5. CASE Won(a) # StepsOf(a)
    <3>1. 1 \in StepsOf(a)
      BY <1>2, <2>5 DEF Won
    <3>2. Step(a, 1).code \in Codes
      BY <1>3, <3>1 DEF StepType
    <3>3. Answer(a) \in {Error(Step(a, 1).code),
                         partial(IF Won(a) = {} THEN "FAILED" ELSE "PARTIAL")}
      BY <2>5 DEF Answer
    <3> HIDE DEF partial
    <3>4. QED
      BY <2>2, <2>3, <2>5, <3>2, <3>3
  <2>6. QED
    BY <2>4, <2>5
<1>5. QED
  BY <1>1, <1>2, <1>3, <1>4, TellKeeps DEF Won

\* What is under way when the job is cut off may have been sent: it was checked.
LEMMA CancelStep == ASSUME Inv, NEW a \in Jobs, Cancel(a) PROVE Inv'
<1>1. Tell(a, Error("AGENT_TIMEOUT")) /\ UNCHANGED <<schema, migrations, loader>>
        /\ job[a].state = "busy"
  BY DEF Cancel
<1>2. Error("AGENT_TIMEOUT") \in AnswerType /\ Error("AGENT_TIMEOUT").kind = "error"
        /\ Error("AGENT_TIMEOUT").status = "FAILED"
  BY DEF Error, AnswerType, Codes
<1>3. ASSUME NEW n \in StepsOf(a), Step(a, n).at = "execute"
      PROVE  Checked(job[a].req, Step(a, n).sql, Step(a, n).linked)
  <2>1. At(a, n, "execute")
    BY <1>1, <1>3 DEF At, Step
  <2>2. QED
    BY <1>3, <2>1, AtFacts DEF StepInv
<1>4. \A x \in sent' : x \in sent \/ (x.job = a /\ Checked(job[a].req, x.sql, x.linked))
  BY <1>3 DEF Cancel
<1>5. QED
  BY <1>1, <1>2, <1>4, TellKeeps

LEMMA InitInv == Init => Inv
<1> SUFFICES ASSUME Init
             PROVE  Inv
  OBVIOUS
<1>1. PICK r \in Requests :
        job = [a \in Jobs |-> [state |-> "new", req |-> r[a], plan |-> <<>>, steps |-> <<>>]]
  BY DEF Init
<1>2. \A a \in Jobs : job[a] \in JobType /\ JobInv(job[a]) /\ job[a].state = "new"
                       /\ job[a].steps = <<>>
  <2>1. <<>> \in Seq(Questions) /\ <<>> \in Seq(StepType) /\ Len(<<>>) = 0
    BY EmptySeq
  <2>2. \A a \in Jobs : r[a] \in AnyRequest
    BY DEF AnyRequest
  <2>3. QED
    BY <1>1, <2>1, <2>2 DEF JobType, JobInv
<1>3. \A a \in Jobs : told[a] = NoAnswer
  BY DEF Init
<1>4. NoAnswer \in AnswerType /\ NoAnswer.kind = "none" /\ NoAnswer.status = "none"
  BY DEF NoAnswer, AnswerType, Codes
<1>5. TypeInv
  BY <1>1, <1>2, <1>4, DataAnalysisAssumption
     DEF Init, TypeInv, Catalogs, DataAnalysisAssumption
<1>6. \A a \in Jobs : ToldInv(job[a], told[a])
  BY <1>2, <1>3, <1>4 DEF ToldInv
<1>7. QED
  BY <1>2, <1>5, <1>6 DEF Init, Inv

LEMMA Invariance == Spec => []Inv
<1>1. Inv /\ [Next]_vars => Inv'
  <2> SUFFICES ASSUME Inv, [Next]_vars
               PROVE  Inv'
    OBVIOUS
  <2>1. CASE Next
    BY <2>1, LoadStep, BeginStep, FinishStep, CancelStep, LinkStep, GenerateStep,
       ValidateStep, ExecuteStep, RepairStep DEF Next, Work
  <2>2. CASE UNCHANGED vars
    BY <2>2 DEF vars, Inv, TypeInv
  <2>3. QED
    BY <2>1, <2>2
<1>2. QED
  BY <1>1, InitInv, PTL DEF Spec

-----------------------------------------------------------------------------
(* The theorems.                                                           *)

\* The variables keep their types, and no step is repaired more often than
\* SQL_REPAIR_MAX_ATTEMPTS.
THEOREM AnalysisTypes == Spec => []TypeOK
<1>1. Inv => TypeOK
  <2> SUFFICES ASSUME Inv
               PROVE  TypeOK
    OBVIOUS
  <2>1. DOMAIN job = Jobs /\ DOMAIN told = Jobs
    BY DEF Inv, TypeInv
  <2>2. ASSUME NEW a \in Jobs
        PROVE  /\ job[a].state \in {"new", "busy", "done"}
               /\ DOMAIN job[a].steps = DOMAIN job[a].plan
               /\ \A n \in StepsOf(a) :
                    /\ Step(a, n).at \in Phases /\ Step(a, n).code \in Codes
                    /\ Step(a, n).linked \subseteq Tables
                    /\ Step(a, n).tries \in 0..MaxRepairs
               /\ told[a].code \in Codes
               /\ (told[a].kind # "none") <=> (job[a].state = "done")
    <3>1. job[a] \in JobType /\ told[a] \in AnswerType /\ JobInv(job[a])
            /\ ToldInv(job[a], told[a])
      BY DEF Inv, TypeInv
    <3>2. \A n \in StepsOf(a) : Step(a, n) \in StepType
      BY <3>1, ElementOfSeq DEF JobType, StepsOf, Step
    <3>3. DOMAIN job[a].steps = DOMAIN job[a].plan
      BY <3>1 DEF JobType, JobInv
    <3>4. QED
      BY <3>1, <3>2, <3>3 DEF JobType, AnswerType, ToldInv, StepType
  <2>3. QED
    BY <2>1, <2>2 DEF TypeOK, Inv, TypeInv
<1>2. QED
  BY <1>1, Invariance, PTL

\* Nothing is executed but what validate has looked at and found right for its
\* user (_execute_with_repair), and nothing but a select for the skill: every table
\* not named like a CTE, every column named with its table, and every bare name that
\* is no alias, is of a table or a column the user is granted.
THEOREM OnlyGrantedReads == Spec => []ReadsAreGranted
<1>1. Inv => ReadsAreGranted
  BY DEF Inv, Checked, ReadsAreGranted
<1>2. QED
  BY <1>1, Invariance, PTL

\* The answer of _analyze_plan agrees with what the statements came to.
THEOREM AnswersAreTrue == Spec => []AnswersAgree
<1>1. Inv => AnswersAgree
  <2> SUFFICES ASSUME Inv, NEW a \in Jobs
               PROVE  /\ \A n \in StepsOf(a) :
                           LET step == Step(a, n) IN
                           /\ Len(step.runs) <= MaxRepairs + 1
                           /\ \A i \in 1..Len(step.runs) - 1 : step.runs[i] \in Repairable
                           /\ step.at = "done" /\ step.code = "none" =>
                                step.runs # <<>> /\ step.runs[Len(step.runs)] = "rows"
                           /\ step.code = "SQL_REPAIR_EXHAUSTED" =>
                                step.runs # <<>> /\ step.runs[Len(step.runs)] \in Repairable
                      /\ told[a].kind = "success" =>
                           \A n \in StepsOf(a) : Step(a, n).at = "done" /\ Step(a, n).code = "none"
                      /\ told[a].status = "PARTIAL" =>
                           \E m, n \in StepsOf(a) : Step(a, m).code = "none" /\ Step(a, n).code # "none"
    BY DEF AnswersAgree
  <2>1. job[a].steps \in Seq(StepType) /\ StepsOf(a) = 1..Len(job[a].steps)
          /\ JobInv(job[a]) /\ ToldInv(job[a], told[a])
    BY DEF Inv, TypeInv, JobType, StepsOf
  <2>2. ASSUME NEW n \in StepsOf(a)
        PROVE  /\ Len(Step(a, n).runs) <= MaxRepairs + 1
               /\ \A i \in 1..Len(Step(a, n).runs) - 1 : Step(a, n).runs[i] \in Repairable
               /\ Step(a, n).at = "done" /\ Step(a, n).code = "none" =>
                    Step(a, n).runs # <<>> /\ Step(a, n).runs[Len(Step(a, n).runs)] = "rows"
               /\ Step(a, n).code = "SQL_REPAIR_EXHAUSTED" =>
                    Step(a, n).runs # <<>>
                    /\ Step(a, n).runs[Len(Step(a, n).runs)] \in Repairable
    <3> DEFINE step == Step(a, n)
    <3>1. step \in StepType /\ StepInv(job[a].req, step)
      BY <2>1, ElementOfSeq DEF Step, JobInv
    <3>2. step.runs \in Seq(Outcomes) /\ step.tries \in 0..MaxRepairs /\ MaxRepairs \in Nat
      BY <3>1, DataAnalysisAssumption DEF StepType, DataAnalysisAssumption
    <3> HIDE DEF step
    <3>3. CASE step.at = "done"
      BY <3>1, <3>2, <3>3 DEF StepInv, Ran, step
    <3>4. CASE step.at # "done"
      BY <3>1, <3>2, <3>4 DEF StepInv, step
    <3>5. QED
      BY <3>3, <3>4
  <2>3. QED
    BY <2>1, <2>2 DEF ToldInv, Step
<1>2. QED
  BY <1>1, Invariance, PTL

-----------------------------------------------------------------------------
(* How far a step is.                                                      *)

\* A round of repair takes up to three phases more.
PhaseRank ==
  [wait |-> 0, link |-> 1, generate |-> 2, repair |-> 2, validate |-> 3, execute |-> 4]
LastStage == 3 * MaxRepairs + 5
Stage(step) ==
  IF step.at = "done" THEN LastStage ELSE 3 * step.tries + PhaseRank[step.at]

\* A busy analysis keeps its request and its plan, and each of its steps is left
\* alone or comes further; an answered one stays as it is.
ComesFurther(a) ==
  /\ job[a].state = "done" => job'[a] = job[a] /\ told'[a] = told[a]
  /\ job[a].state = "busy" =>
       /\ job'[a].state \in {"busy", "done"}
       /\ job'[a].req = job[a].req /\ job'[a].plan = job[a].plan
       /\ \A n \in StepsOf(a) :
            \/ job'[a].steps[n] = Step(a, n)
            \/ Stage(job'[a].steps[n]) > Stage(Step(a, n))

\* The rounds of generate, validate, execute and repair come to an end: whatever
\* a step does takes it further, through at most LastStage stages, and nothing
\* takes one back.  An answer stands, and what was sent is not forgotten.
AnalysisAdvances ==
  /\ [](\A a \in Jobs : \A n \in StepsOf(a) : Stage(Step(a, n)) \in 0 .. LastStage)
  /\ [][/\ sent \subseteq sent'
        /\ \A a \in Jobs :
             /\ ComesFurther(a)
             /\ \A n \in StepsOf(a) :
                  Work(a, n) => Stage(job'[a].steps[n]) > Stage(Step(a, n))]_vars

LEMMA RankFacts ==
  /\ PhaseRank["wait"] = 0 /\ PhaseRank["link"] = 1 /\ PhaseRank["generate"] = 2
  /\ PhaseRank["repair"] = 2 /\ PhaseRank["validate"] = 3 /\ PhaseRank["execute"] = 4
BY DEF PhaseRank

LEMMA StageFacts ==
  ASSUME NEW step \in StepType
  PROVE  /\ Stage(step) \in 0 .. LastStage
         /\ step.at # "done" => Stage(step) < LastStage
<1>1. step.tries \in 0 .. MaxRepairs /\ MaxRepairs \in Nat /\ step.at \in Phases
  BY DataAnalysisAssumption DEF StepType, DataAnalysisAssumption
<1>2. step.at # "done" => PhaseRank[step.at] \in 0 .. 4
  BY <1>1, RankFacts DEF Phases
<1>3. CASE step.at = "done"
  BY <1>1, <1>3 DEF Stage, LastStage
<1>4. CASE step.at # "done"
  BY <1>1, <1>2, <1>4 DEF Stage, LastStage
<1>5. QED
  BY <1>3, <1>4

\* What changes when a step is replaced.
LEMMA SetFacts ==
  ASSUME Inv, NEW a \in Jobs, NEW n \in StepsOf(a), NEW step, Set(a, n, step)
  PROVE  /\ \A b \in Jobs \ {a} : job'[b] = job[b]
         /\ job'[a].state = job[a].state /\ job'[a].req = job[a].req
         /\ job'[a].plan = job[a].plan /\ DOMAIN job'[a].steps = StepsOf(a)
         /\ job'[a].steps[n] = step
         /\ \A m \in StepsOf(a) \ {n} : job'[a].steps[m] = Step(a, m)
<1>1. job \in [Jobs -> JobType] /\ job[a] \in JobType /\ job[a].steps \in Seq(StepType)
  BY DEF Inv, TypeInv, JobType
<1> DEFINE steps == [job[a].steps EXCEPT ![n] = step]
           j == [job[a] EXCEPT !.steps = steps]
<1>2. job' = [job EXCEPT ![a] = j]
  BY <1>1 DEF Set
<1>3. DOMAIN steps = StepsOf(a) /\ steps[n] = step
        /\ \A m \in StepsOf(a) \ {n} : steps[m] = Step(a, m)
  BY DEF StepsOf, Step
<1> HIDE DEF steps
<1>4. j.state = job[a].state /\ j.req = job[a].req /\ j.plan = job[a].plan /\ j.steps = steps
  BY <1>1 DEF JobType
<1> HIDE DEF j
<1>5. job'[a] = j /\ \A b \in Jobs \ {a} : job'[b] = job[b]
  BY <1>1, <1>2
<1>6. QED
  BY <1>3, <1>4, <1>5

\* A step is replaced by one that is further, and linked only if tables are allowed.
Moves(a, n) ==
  \E step : /\ Set(a, n, step) /\ Stage(step) > Stage(Step(a, n))
            /\ step.at = "link" => Allowed(job[a].req.user) # {}

LEMMA WorkMoves ==
  ASSUME Inv, NEW a \in Jobs, NEW n \in StepsOf(a), Work(a, n)
  PROVE  /\ job[a].state = "busy" /\ UNCHANGED told /\ sent \subseteq sent'
         /\ Moves(a, n)
<1> DEFINE old == Step(a, n)
           with(sql) == [old EXCEPT !.at = "validate", !.sql = sql]
<1>1. \E phase \in Phases \ {"done"} : At(a, n, phase)
  BY CodeFacts DEF Work, Start, Link, Generate, Validate, Execute, Repair, Breaks, Phases
<1>2. /\ job[a].state = "busy" /\ old \in StepType /\ old.at # "done"
      /\ \A phase : At(a, n, phase) => old.at = phase
  BY <1>1, AtFacts
<1>3. UNCHANGED told /\ sent \subseteq sent'
  BY DEF Work, Start, Link, Generate, Validate, Execute, Repair, Breaks
<1>4. MaxRepairs \in Nat /\ old.tries \in 0 .. MaxRepairs
  BY <1>2, DataAnalysisAssumption DEF StepType, DataAnalysisAssumption
<1>5. ASSUME NEW step, step.at = "done", Set(a, n, step)
      PROVE  Moves(a, n)
  <2>1. Stage(step) = LastStage
    BY <1>5 DEF Stage
  <2>2. Stage(old) < LastStage /\ Stage(old) \in 0 .. LastStage
    BY <1>2, StageFacts
  <2>3. Stage(step) > Stage(old)
    BY <1>4, <2>1, <2>2 DEF LastStage
  <2>4. QED
    BY <1>5, <2>3 DEF Moves
<1>6. ASSUME NEW code, End(a, n, code)
      PROVE  Moves(a, n)
  <2>1. Ended(old, code).at = "done"
    BY DEF Ended, NoStep
  <2>2. QED
    BY <1>5, <1>6, <2>1 DEF End
<1>7. ASSUME NEW step, step.at # "done", PhaseRank[step.at] \in 0 .. 4, Set(a, n, step),
             step.at = "link" => Allowed(job[a].req.user) # {},
             \/ step.tries = old.tries /\ PhaseRank[step.at] > PhaseRank[old.at]
             \/ step.tries = old.tries + 1 /\ old.at = "execute" /\ step.at = "repair"
      PROVE  Moves(a, n)
  <2>1. PhaseRank[old.at] \in 0 .. 4
    BY <1>2, RankFacts DEF StepType, Phases
  <2>2. 3 * step.tries + PhaseRank[step.at] > 3 * old.tries + PhaseRank[old.at]
    BY <1>4, <1>7, <2>1, RankFacts
  <2>3. Stage(step) > Stage(old)
    BY <1>2, <1>7, <2>2 DEF Stage
  <2>4. QED
    BY <1>7, <2>3 DEF Moves
<1>8. ASSUME Start(a, n)
      PROVE  Moves(a, n)
  <2>1. old.at = "wait"
    BY <1>2, <1>8 DEF Start
  <2>2. ASSUME NEW phase \in {"generate", "link"}, Goto(a, n, phase),
               phase = "link" => Allowed(job[a].req.user) # {}
        PROVE  Moves(a, n)
    <3> DEFINE s == [old EXCEPT !.at = phase]
    <3>1. s.at = phase /\ s.tries = old.tries
      BY <1>2 DEF StepType
    <3>2. Set(a, n, s)
      BY <2>2 DEF Goto
    <3> HIDE DEF s
    <3>3. QED
      BY <1>7, <2>1, <2>2, <3>1, <3>2, RankFacts
  <2>3. QED
    BY <1>6, <1>8, <2>2 DEF Start
<1>9. ASSUME Link(a, n)
      PROVE  Moves(a, n)
  <2>1. PICK linked : Set(a, n, [old EXCEPT !.at = "generate", !.linked = linked])
    BY <1>9 DEF Link
  <2> DEFINE s == [old EXCEPT !.at = "generate", !.linked = linked]
  <2>2. s.at = "generate" /\ s.tries = old.tries /\ old.at = "link"
    BY <1>2, <1>9 DEF StepType, Link
  <2>3. Set(a, n, s)
    BY <2>1
  <2> HIDE DEF s
  <2>4. QED
    BY <1>7, <2>2, <2>3, RankFacts
<1>10. ASSUME NEW sql, old.at \in {"generate", "repair"},
              Set(a, n, with(sql))
       PROVE  Moves(a, n)
  <2> DEFINE s == with(sql)
  <2>1. s.at = "validate" /\ s.tries = old.tries
    BY <1>2 DEF StepType
  <2>2. Set(a, n, s)
    BY <1>10
  <2> HIDE DEF s
  <2>3. QED
    BY <1>7, <1>10, <2>1, <2>2, RankFacts
<1>11. ASSUME Generate(a, n)
       PROVE  Moves(a, n)
  <2>1. old.at = "generate"
    BY <1>2, <1>11 DEF Generate
  <2>2. \/ \E sql : Set(a, n, with(sql))
        \/ \E code : End(a, n, code)
    BY <1>11 DEF Generate
  <2> HIDE DEF old, with
  <2>3. QED
    BY <1>6, <1>10, <2>1, <2>2
<1>12. ASSUME Repair(a, n)
       PROVE  Moves(a, n)
  <2>1. old.at = "repair"
    BY <1>2, <1>12 DEF Repair
  <2>2. \/ \E sql : Set(a, n, with(sql))
        \/ \E code : End(a, n, code)
    BY <1>12 DEF Repair
  <2> HIDE DEF old, with
  <2>3. QED
    BY <1>6, <1>10, <2>1, <2>2
<1>13. ASSUME Validate(a, n)
       PROVE  Moves(a, n)
  <2>1. old.at = "validate"
    BY <1>2, <1>13 DEF Validate
  <2>2. ASSUME Goto(a, n, "execute")
        PROVE  Moves(a, n)
    <3> DEFINE s == [old EXCEPT !.at = "execute"]
    <3>1. s.at = "execute" /\ s.tries = old.tries
      BY <1>2 DEF StepType
    <3>2. Set(a, n, s)
      BY <2>2 DEF Goto
    <3> HIDE DEF s
    <3>3. QED
      BY <1>7, <2>1, <3>1, <3>2, RankFacts
  <2>3. QED
    BY <1>6, <1>13, <2>2 DEF Validate
<1>14. ASSUME Execute(a, n)
       PROVE  Moves(a, n)
  <2>1. PICK outcome :
          LET ran == [old EXCEPT !.runs = Append(@, outcome)]
          IN  IF outcome = "rows" THEN Set(a, n, Ended(ran, "none"))
              ELSE IF job[a].req.kind = "tool" THEN Set(a, n, Ended(ran, "SKILL_FAILED"))
              ELSE IF MayRepair(old, outcome)
                THEN Set(a, n, [ran EXCEPT !.at = "repair", !.tries = @ + 1])
              ELSE Set(a, n, Ended(ran, CodeOf(outcome)))
    BY <1>14 DEF Execute
  <2> DEFINE ran == [old EXCEPT !.runs = Append(@, outcome)]
             again == [ran EXCEPT !.at = "repair", !.tries = @ + 1]
  <2>2. \/ \E code : Set(a, n, Ended(ran, code))
        \/ Set(a, n, again)
    BY <2>1
  <2>3. ASSUME NEW code, Set(a, n, Ended(ran, code))
        PROVE  Moves(a, n)
    <3> DEFINE e == Ended(ran, code)
    <3>1. e.at = "done" /\ Set(a, n, e)
      BY <2>3 DEF Ended, NoStep
    <3> HIDE DEF e
    <3>2. QED
      BY <1>5, <3>1
  <2>4. ASSUME Set(a, n, again)
        PROVE  Moves(a, n)
    <3>1. again.at = "repair" /\ again.tries = old.tries + 1 /\ old.at = "execute"
      BY <1>2, <1>14 DEF StepType, Execute
    <3> HIDE DEF again
    <3>2. QED
      BY <1>7, <2>4, <3>1, RankFacts
  <2> HIDE DEF ran, again
  <2>5. QED
    BY <2>2, <2>3, <2>4
<1>15. ASSUME Breaks(a, n)
       PROVE  Moves(a, n)
  BY <1>6, <1>15 DEF Breaks
<1>16. QED
  BY <1>2, <1>3, <1>8, <1>9, <1>11, <1>12, <1>13, <1>14, <1>15 DEF Work

\* Whatever happens, an analysis is left alone or comes further.
LEMMA Further ==
  ASSUME Inv, [Next]_vars, NEW a \in Jobs
  PROVE  sent \subseteq sent' /\ ComesFurther(a)
<1>1. job \in [Jobs -> JobType] /\ told \in [Jobs -> AnswerType] /\ job[a] \in JobType
  BY DEF Inv, TypeInv
<1>2. ASSUME job'[a] = job[a], told'[a] = told[a]
      PROVE  ComesFurther(a)
  BY <1>1, <1>2 DEF ComesFurther, JobType, StepsOf, Step
<1>3. ASSUME NEW b \in Jobs, NEW answer, Tell(b, answer), job[b].state # "done"
      PROVE  ComesFurther(a)
  <2>1. CASE b # a
    <3>1. job'[a] = job[a] /\ told'[a] = told[a]
      BY <1>1, <1>3, <2>1 DEF Tell
    <3>2. QED
      BY <1>2, <3>1
  <2>2. CASE b = a
    <3>1. job'[a] = [job[a] EXCEPT !.state = "done"]
      BY <1>1, <1>3, <2>2 DEF Tell
    <3>2. /\ job'[a].state = "done" /\ job'[a].req = job[a].req
          /\ job'[a].plan = job[a].plan /\ job'[a].steps = job[a].steps
      BY <1>1, <3>1 DEF JobType
    <3>3. QED
      BY <1>3, <2>2, <3>2 DEF ComesFurther, StepsOf, Step
  <2>3. QED
    BY <2>1, <2>2
<1>4. CASE Load \/ (\E t \in Tables, columns \in SUBSET Columns : Migrate(t, columns))
  <2>1. job' = job /\ told' = told /\ sent' = sent
    BY <1>4 DEF Load, LoadTables, LoadColumns, LoadRelations, LoadKeys, LoadFails, Migrate
  <2>2. QED
    BY <1>2, <2>1
<1>5. ASSUME NEW b \in Jobs, Begin(b)
      PROVE  sent \subseteq sent' /\ ComesFurther(a)
  <2>1. sent' = sent /\ job[b].state = "new"
    BY <1>5 DEF Begin
  <2>2. CASE b = a
    BY <2>1, <2>2 DEF ComesFurther
  <2>3. CASE b # a
    <3>1. job'[a] = job[a] /\ told'[a] = told[a]
      BY <1>1, <1>5, <2>3 DEF Begin, Tell
    <3>2. QED
      BY <1>2, <2>1, <3>1
  <2>4. QED
    BY <2>2, <2>3
<1>6. ASSUME NEW b \in Jobs, Finish(b) \/ Cancel(b)
      PROVE  sent \subseteq sent' /\ ComesFurther(a)
  <2>1. sent \subseteq sent' /\ job[b].state # "done" /\ \E answer : Tell(b, answer)
    BY <1>6 DEF Finish, Cancel
  <2>2. QED
    BY <1>3, <2>1
<1>7. ASSUME NEW b \in Jobs, NEW n \in StepsOf(b), Work(b, n)
      PROVE  sent \subseteq sent' /\ ComesFurther(a)
  <2>1. PICK step : /\ Set(b, n, step) /\ Stage(step) > Stage(Step(b, n))
                    /\ step.at = "link" => Allowed(job[b].req.user) # {}
    BY <1>7, WorkMoves DEF Moves
  <2>2. job[b].state = "busy" /\ told' = told /\ sent \subseteq sent'
    BY <1>7, WorkMoves
  <2>3. CASE b # a
    <3>1. job'[a] = job[a]
      BY <2>1, <2>3, SetFacts
    <3>2. QED
      BY <1>2, <2>2, <3>1
  <2>4. CASE b = a
    <3>1. /\ job'[a].state = "busy" /\ job'[a].req = job[a].req /\ job'[a].plan = job[a].plan
          /\ \A m \in StepsOf(a) :
               job'[a].steps[m] = Step(a, m) \/ Stage(job'[a].steps[m]) > Stage(Step(a, m))
      BY <2>1, <2>2, <2>4, SetFacts
    <3>2. QED
      BY <2>2, <2>4, <3>1 DEF ComesFurther
  <2>5. QED
    BY <2>3, <2>4
<1>8. CASE UNCHANGED vars
  BY <1>2, <1>8 DEF vars
<1>9. QED
  BY <1>4, <1>5, <1>6, <1>7, <1>8 DEF Next

\* Every phase of _execute_with_repair takes a step of an analysis further, to an
\* end that does not depend on what the model writes or the database answers.
THEOREM AnalysesAdvance == Spec => AnalysisAdvances
<1>1. Inv => \A a \in Jobs : \A n \in StepsOf(a) : Stage(Step(a, n)) \in 0 .. LastStage
  <2> SUFFICES ASSUME Inv, NEW a \in Jobs, NEW n \in StepsOf(a)
               PROVE  Stage(Step(a, n)) \in 0 .. LastStage
    OBVIOUS
  <2>1. Step(a, n) \in StepType
    BY ElementOfSeq DEF Inv, TypeInv, JobType, StepsOf, Step
  <2>2. QED
    BY <2>1, StageFacts
<1>2. Inv /\ [Next]_vars =>
        [/\ sent \subseteq sent'
         /\ \A a \in Jobs :
              /\ ComesFurther(a)
              /\ \A n \in StepsOf(a) :
                   Work(a, n) => Stage(job'[a].steps[n]) > Stage(Step(a, n))]_vars
  <2> SUFFICES ASSUME Inv, [Next]_vars
               PROVE  \/ /\ sent \subseteq sent'
                         /\ \A a \in Jobs :
                              /\ ComesFurther(a)
                              /\ \A n \in StepsOf(a) :
                                   Work(a, n) => Stage(job'[a].steps[n]) > Stage(Step(a, n))
                      \/ UNCHANGED vars
    OBVIOUS
  <2>1. ASSUME NEW a \in Jobs, NEW n \in StepsOf(a), Work(a, n)
        PROVE  Stage(job'[a].steps[n]) > Stage(Step(a, n))
    <3>1. PICK step : /\ Set(a, n, step) /\ Stage(step) > Stage(Step(a, n))
                      /\ step.at = "link" => Allowed(job[a].req.user) # {}
      BY <2>1, WorkMoves DEF Moves
    <3>2. QED
      BY <3>1, SetFacts
  <2>2. sent \subseteq sent' \/ UNCHANGED vars
    <3>1. CASE Jobs = {}
      BY <3>1 DEF Next, Load, LoadTables, LoadColumns, LoadRelations, LoadKeys, LoadFails, Migrate
    <3>2. CASE Jobs # {}
      BY <3>2, Further
    <3>3. QED
      BY <3>1, <3>2
  <2>3. QED
    BY <2>1, <2>2, Further
<1>3. QED
  BY <1>1, <1>2, Invariance, PTL DEF Spec, AnalysisAdvances

-----------------------------------------------------------------------------
(* Nothing blocks an analysis.                                             *)

\* The guards of the steps that do not give up.
CanStart(a, n) == At(a, n, "wait") /\ Cardinality(Running(a)) < Bound(MaxConcurrent)
CanLink(a, n) == At(a, n, "link") /\ Allowed(job[a].req.user) # {}
CanGenerate(a, n) ==
  /\ At(a, n, "generate")
  /\ \/ Written(a, n) # {}
     \/ job[a].req.sql = NoStatement /\ Template[Question(a, n)] = NoStatement
CanExecute(a, n) == At(a, n, "execute") /\ Answers(Step(a, n).sql) # {}
CanGoOn(a) ==
  \/ \A n \in StepsOf(a) : Step(a, n).at = "done"
  \/ \E n \in StepsOf(a) :
       \/ CanStart(a, n) \/ CanLink(a, n) \/ CanGenerate(a, n)
       \/ At(a, n, "validate") \/ CanExecute(a, n) \/ At(a, n, "repair")

\* A busy analysis needs neither its timeout nor an exception to go on: it can be
\* answered, or one of its steps can take its next phase.  A step that waits for
\* the semaphore finds it free, or held by a step that can go on; and the tables
\* it found allowed before linking are still allowed when it links.
NeverStuck == \A a \in Jobs : job[a].state = "busy" => CanGoOn(a)

\* An analysis is at work only after the catalog was loaded, which does not
\* change any more: what its user was found to be allowed at first he still is.
CatalogHolds ==
  \A a \in Jobs : job[a].state = "busy" =>
    /\ boot = "ready"
    /\ \A n \in StepsOf(a) : Step(a, n).at = "link" => Allowed(job[a].req.user) # {}

\* Once the service has started its catalog is never loaded again.
LEMMA CatalogStands == ASSUME Inv, [Next]_vars, boot = "ready"
                       PROVE  boot' = "ready" /\ catalog' = catalog
<1>1. CASE Load \/ (\E t \in Tables, columns \in SUBSET Columns : Migrate(t, columns))
  BY <1>1 DEF Load, LoadTables, LoadColumns, LoadRelations, LoadKeys, LoadFails, Migrate
<1>2. ASSUME NEW a \in Jobs, Begin(a) \/ Finish(a) \/ Cancel(a)
      PROVE  boot' = "ready" /\ catalog' = catalog
  BY <1>2 DEF Begin, Finish, Cancel, loader
<1>3. ASSUME NEW a \in Jobs, NEW n \in StepsOf(a), Work(a, n)
      PROVE  boot' = "ready" /\ catalog' = catalog
  BY <1>3 DEF Work, Start, Link, Generate, Validate, Execute, Repair, Breaks, loader
<1>4. CASE UNCHANGED vars
  BY <1>4 DEF vars
<1>5. QED
  BY <1>1, <1>2, <1>3, <1>4 DEF Next

LEMMA CatalogInvariance == Spec => []CatalogHolds
<1>1. Init => CatalogHolds
  BY DEF Init, CatalogHolds
<1>2. Inv /\ CatalogHolds /\ [Next]_vars => CatalogHolds'
  <2> SUFFICES ASSUME Inv, CatalogHolds, [Next]_vars, NEW a \in Jobs, job'[a].state = "busy"
               PROVE  /\ boot' = "ready"
                      /\ \A n \in DOMAIN job'[a].steps :
                           job'[a].steps[n].at = "link" => Allowed(job[a].req.user)' # {}
    BY DEF CatalogHolds, StepsOf, Step
  <2>1. job \in [Jobs -> JobType] /\ job[a] \in JobType /\ job[a].steps \in Seq(StepType)
    BY DEF Inv, TypeInv, JobType
  <2>2. ASSUME job'[a].req = job[a].req, job[a].state = "busy", DOMAIN job'[a].steps = StepsOf(a),
               \A n \in StepsOf(a) :
                 \/ job'[a].steps[n] = Step(a, n)
                 \/ job'[a].steps[n].at = "link" => Allowed(job[a].req.user) # {}
        PROVE  /\ boot' = "ready"
               /\ \A n \in DOMAIN job'[a].steps :
                    job'[a].steps[n].at = "link" => Allowed(job[a].req.user)' # {}
    <3>1. boot = "ready" /\ \A n \in StepsOf(a) : Step(a, n).at = "link" => Allowed(job[a].req.user) # {}
      BY <2>2 DEF CatalogHolds
    <3>2. boot' = "ready" /\ catalog' = catalog
      BY <3>1, CatalogStands
    <3>3. Allowed(job[a].req.user)' = Allowed(job[a].req.user)
      BY <2>2, <3>2 DEF Allowed, SeenColumns, Granted
    <3>4. QED
      BY <2>2, <3>1, <3>2, <3>3
  <2>3. ASSUME job'[a] = job[a]
        PROVE  /\ boot' = "ready"
               /\ \A n \in DOMAIN job'[a].steps :
                    job'[a].steps[n].at = "link" => Allowed(job[a].req.user)' # {}
    BY <2>2, <2>3 DEF StepsOf, Step
  <2>4. ASSUME NEW b \in Jobs, Begin(b)
        PROVE  /\ boot' = "ready"
               /\ \A n \in DOMAIN job'[a].steps :
                    job'[a].steps[n].at = "link" => Allowed(job[a].req.user)' # {}
    <3>1. CASE a # b
      BY <2>1, <2>3, <2>4, <3>1 DEF Begin, Tell
    <3>2. CASE a = b
      <4> DEFINE steps == [n \in DOMAIN Plan(job[a].req) |-> NoStep]
                 j == [job[a] EXCEPT !.state = "busy", !.plan = Plan(job[a].req), !.steps = steps]
      <4>1. job' = [job EXCEPT ![a] = j] \/ job' = [job EXCEPT ![a] = [job[a] EXCEPT !.state = "done"]]
        BY <2>1, <2>4, <3>2 DEF Begin, Tell
      <4>2. \A n \in DOMAIN steps : steps[n].at = "wait"
        BY DEF NoStep
      <4>3. DOMAIN steps = DOMAIN Plan(job[a].req)
        OBVIOUS
      <4> HIDE DEF steps
      <4>4. j.steps = steps /\ [job[a] EXCEPT !.state = "done"].state = "done"
        BY <2>1 DEF JobType
      <4> HIDE DEF j
      <4>5. job'[a] = j
        BY <2>1, <4>1, <4>4
      <4>6. boot' = "ready"
        BY <2>4 DEF Begin, loader
      <4>7. QED
        BY <4>2, <4>4, <4>5, <4>6
    <3>3. QED
      BY <3>1, <3>2
  <2>5. ASSUME NEW b \in Jobs, Finish(b) \/ Cancel(b)
        PROVE  job'[a] = job[a]
    <3>1. job' = [job EXCEPT ![b].state = "done"]
      BY <2>5 DEF Finish, Cancel, Tell
    <3>2. QED
      BY <2>1, <3>1 DEF JobType
  <2>6. ASSUME NEW b \in Jobs, NEW n \in StepsOf(b), Work(b, n)
        PROVE  /\ boot' = "ready"
               /\ \A m \in DOMAIN job'[a].steps :
                    job'[a].steps[m].at = "link" => Allowed(job[a].req.user)' # {}
    <3>1. PICK step : /\ Set(b, n, step) /\ Stage(step) > Stage(Step(b, n))
                      /\ step.at = "link" => Allowed(job[b].req.user) # {}
      BY <2>6, WorkMoves DEF Moves
    <3>2. job[b].state = "busy"
      BY <2>6, WorkMoves
    <3>3. CASE a # b
      BY <2>3, <3>1, <3>3, SetFacts
    <3>4. CASE a = b
      BY <2>2, <3>1, <3>2, <3>4, SetFacts
    <3>5. QED
      BY <3>3, <3>4
  <2>7. CASE Load \/ (\E t \in Tables, columns \in SUBSET Columns : Migrate(t, columns))
    BY <2>3, <2>7
       DEF Load, LoadTables, LoadColumns, LoadRelations, LoadKeys, LoadFails, Migrate
  <2>8. CASE UNCHANGED vars
    BY <2>3, <2>8 DEF vars
  <2>9. QED
    BY <2>3, <2>4, <2>5, <2>6, <2>7, <2>8 DEF Next
<1>3. QED
  BY <1>1, <1>2, Invariance, PTL DEF Spec

\* The semaphore is free, or held by steps that can go on.
LEMMA SomeStepGoesOn ==
  ASSUME Inv, CatalogHolds, NEW a \in Jobs, job[a].state = "busy"
  PROVE  CanGoOn(a)
<1>1. job[a] \in JobType /\ job[a].steps \in Seq(StepType) /\ JobInv(job[a])
        /\ \A n \in StepsOf(a) : Step(a, n) \in StepType /\ At(a, n, Step(a, n).at)
  BY ElementOfSeq DEF Inv, TypeInv, JobType, StepsOf, Step, At
<1>2. ASSUME NEW n \in Running(a)
      PROVE  CanGoOn(a)
  <2>1. n \in StepsOf(a) /\ At(a, n, Step(a, n).at)
          /\ Step(a, n).at \in {"link", "generate", "validate", "execute", "repair"}
    BY <1>1 DEF Running, StepType, Phases
  <2>2. Step(a, n).at = "link" => CanLink(a, n)
    BY <2>1 DEF CatalogHolds, CanLink
  <2>3. Step(a, n).at = "generate" => CanGenerate(a, n)
    BY <2>1 DEF CanGenerate, Written
  <2>4. Step(a, n).at = "execute" => CanExecute(a, n)
    BY <2>1 DEF CanExecute, Answers, Outcomes
  <2>5. QED
    BY <2>1, <2>2, <2>3, <2>4 DEF CanGoOn
<1>3. ASSUME Running(a) = {}, NEW n \in StepsOf(a), Step(a, n).at # "done"
      PROVE  CanGoOn(a)
  <2>1. At(a, n, "wait")
    BY <1>1, <1>3 DEF Running
  <2>2. Cardinality(Running(a)) = 0
    BY <1>3, FS_EmptySet
  <2>3. Bound(MaxConcurrent) > 0
    BY DataAnalysisAssumption DEF DataAnalysisAssumption, Bound
  <2>4. CanStart(a, n)
    BY <2>1, <2>2, <2>3 DEF CanStart
  <2>5. QED
    BY <2>4 DEF CanGoOn
<1>4. QED
  BY <1>2, <1>3 DEF CanGoOn

\* No step of an analysis waits for something another holds for ever: the catalog
\* stays, and the semaphore of _analyze_plan is given back by steps that go on.
THEOREM AnalysisGoesOn == Spec => []NeverStuck
<1>1. Inv /\ CatalogHolds => NeverStuck
  BY SomeStepGoesOn DEF NeverStuck
<1>2. QED
  BY <1>1, Invariance, CatalogInvariance, PTL
=============================================================================
