----------------------------- MODULE DataAnalysis -----------------------------
(***************************************************************************)
(* Questions answered by SQL (modules/data_intelligence/): the catalog of  *)
(* the schema is loaded when the service starts, in four reads of a        *)
(* database that may be migrated meanwhile and later; a question is        *)
(* planned as one to three statements, each of them linked to tables,      *)
(* generated, validated against what the user may see in the catalog,      *)
(* executed, and repaired by a model when the database rejects it for a    *)
(* technical reason.  Beside them, the skill safe_sql_query runs a         *)
(* statement that only the read-only policy has looked at.                 *)
(*                                                                         *)
(* A statement is what the checks tell apart: whether it parses, its       *)
(* kind, the tables it names and the names of its CTEs, the columns it     *)
(* names with a table (columns) and without one (names), the aliases of    *)
(* its projection, the tables it takes with all columns (whole), and       *)
(* whether it is over the limits.  The check is of names: it takes         *)
(* a table named like a CTE for that CTE, a name that is an alias for the  *)
(* alias, and has no eye for a bare star; what such a statement reads that *)
(* way it does not say.  Rows and evidence are left out.                   *)
(***************************************************************************)
EXTENDS Naturals, Sequences, FiniteSets

CONSTANTS
  Jobs,           \* analyses
  Requests,       \* what they may be: a set of assignments to the jobs
  Statements,     \* what a model may write
  Template,       \* question -> the statement of the fast path, or NoStatement
  NoStatement,
  Tables, Columns,
  Glossary,       \* the static catalog
  Keys,           \* the foreign keys: sets of two tables
  KeyColumns,     \* the columns of a foreign key
  Masked,         \* columns whose values are masked, as <<table, column>>
  Denied,         \* columns no user of the service gets, as <<table, column>>
  Order, Goods,   \* the tables the planner knows
  Metric, Sku, Category,  \* the columns it looks for
  LLM,            \* a model is configured
  MaxRepairs,     \* SQL_REPAIR_MAX_ATTEMPTS
  MaxSteps,       \* ANALYSIS_MAX_SUBQUERIES
  MaxConcurrent,  \* ANALYSIS_MAX_CONCURRENT
  MaxMigrations   \* bound: how often the schema changes

Schemas == [Tables -> SUBSET Columns]   \* a table without columns is not there
Catalogs == [source : {"static", "static_fallback", "postgres"},
             tables : Schemas, relations : SUBSET Keys]

\* What is asked, and what a plan asks in its steps.
Kinds == {"plain", "diagnostic", "tool"}
Questions == Kinds \cup {"trend", "category", "sku"}
NoUser == [authenticated |-> FALSE, tenant |-> FALSE, admin |-> FALSE, tables |-> {}]
NoRequest == [kind |-> "none", user |-> NoUser, sql |-> NoStatement]

ASSUME DataAnalysisAssumption ==
  /\ Glossary \in Catalogs
  /\ MaxRepairs \in Nat /\ MaxSteps \in Nat /\ MaxConcurrent \in Nat
  /\ MaxMigrations \in Nat
  /\ LLM \in BOOLEAN
  /\ \A k \in Keys : k \subseteq Tables
  /\ KeyColumns \in [Keys -> SUBSET (Tables \X Columns)]
  /\ \A s \in Statements \cup {NoStatement} :
       /\ s.tables \subseteq Tables /\ s.columns \subseteq Tables \X Columns
       /\ s.names \subseteq Columns /\ s.whole \subseteq Tables
  /\ NoStatement \notin Statements
  /\ Template \in [Questions -> Statements \cup {NoStatement}]
  /\ \A r \in Requests, a \in Jobs :
       \/ r[a] = NoRequest
       \/ r[a].kind \in Kinds /\ r[a].sql \in Statements \cup {NoStatement}

VARIABLES
  schema,      \* what the database has
  migrations,
  boot,        \* how far the start of the service is
  seen,        \* what the loader has read
  catalog,     \* what the provider holds
  job,         \* job[a]: state, request, steps and what they have come to
  told,        \* told[a]: the answer
  sent         \* every statement the database was given, and for whom

loader == <<boot, seen, catalog>>
vars == <<schema, migrations, boot, seen, catalog, job, told, sent>>

-----------------------------------------------------------------------------
(* The catalog as the user of a request may see it.                        *)

\* filter_catalog_for_security: by role or scope, never denied columns, and no
\* table without a column left.  A table the glossary does not know is for admins.
Granted(user, t) == IF Glossary.tables[t] = {} THEN user.admin ELSE t \in user.tables
SeenColumns(user, t) ==
  IF user.authenticated /\ Granted(user, t)
    THEN {c \in catalog.tables[t] : <<t, c>> \notin Denied} ELSE {}
Allowed(user) == {t \in Tables : SeenColumns(user, t) # {}}
Relations(user) == {k \in catalog.relations : k \subseteq Allowed(user)}

\* plan_if_supported: a diagnostic question about a metric of the orders.
PlanSteps(user) ==
  <<"trend">>
  \o (IF Category \in SeenColumns(user, Goods) /\ {Order, Goods} \in Relations(user)
        THEN <<"category">> ELSE <<>>)
  \o (IF Sku \in SeenColumns(user, Order) THEN <<"sku">> ELSE <<>>)
Bound(n) == IF n > 1 THEN n ELSE 1
Plan(r) ==
  IF r.kind = "diagnostic" /\ r.sql = NoStatement /\ Metric \in SeenColumns(r.user, Order)
    THEN SubSeq(PlanSteps(r.user), 1,
                IF Len(PlanSteps(r.user)) < Bound(MaxSteps)
                  THEN Len(PlanSteps(r.user)) ELSE Bound(MaxSteps))
    ELSE <<r.kind>>

-----------------------------------------------------------------------------
(* What validate and sanitize_readonly_sql find wrong: "none" if nothing.  *)

\* The tables and the bare names that are looked at.
Looked(s) == s.tables \ s.ctes
LookedNames(s) == s.names \ s.aliases

\* scope: the tables the statement may use, and whether the tenant is known.
Problem(user, scope, s) ==
  IF ~s.parses THEN "SQL_PARSE_ERROR"
  ELSE IF s.kind # "select" THEN "UNSAFE_SQL"
  ELSE IF ~(Looked(s) \subseteq scope) THEN "TABLE_NOT_ALLOWED"
  ELSE IF Looked(s) # {} /\ ~user.tenant THEN "PERMISSION_DENIED"
  ELSE IF \/ \E x \in s.columns : ~(x[1] \in scope /\ x[2] \in SeenColumns(user, x[1]))
          \/ \E c \in LookedNames(s) : \A t \in Looked(s) : c \notin SeenColumns(user, t)
          \/ \E x \in Masked : x[1] \in s.whole \cap scope /\ x[2] \in SeenColumns(user, x[1])
    THEN "COLUMN_NOT_ALLOWED"
  ELSE IF ~s.cheap THEN "QUERY_COST_EXCEEDED" ELSE "none"

Sanitary(s) == s.kind = "select"

\* A statement of the user may use every allowed table, one that was generated
\* the linked ones.
Scope(j, step) ==
  IF j.req.sql # NoStatement THEN Allowed(j.req.user) ELSE step.linked

-----------------------------------------------------------------------------
(* Jobs.                                                                   *)

Phases == {"wait", "link", "generate", "validate", "execute", "repair", "done"}
Outcomes == {"rows", "undefined", "mismatch", "permission", "timeout", "other"}
Repairable == {"undefined", "mismatch"}

NoStep == [at |-> "wait", linked |-> {}, sql |-> NoStatement, runs |-> <<>>,
           tries |-> 0, code |-> "none"]
NoAnswer == [kind |-> "none", code |-> "none", status |-> "none"]

StepsOf(a) == DOMAIN job[a].steps
Question(a, n) == job[a].plan[n]
At(a, n, phase) ==
  job[a].state = "busy" /\ n \in StepsOf(a) /\ job[a].steps[n].at = phase
Set(a, n, step) == job' = [job EXCEPT ![a].steps[n] = step]
Step(a, n) == job[a].steps[n]
Goto(a, n, phase) == Set(a, n, [Step(a, n) EXCEPT !.at = phase])
Ended(step, code) ==
  [NoStep EXCEPT !.at = "done", !.code = code, !.runs = step.runs, !.tries = step.tries]
End(a, n, code) == Set(a, n, Ended(Step(a, n), code))
Error(code) == [kind |-> "error", code |-> code, status |-> "FAILED"]
Tell(a, answer) ==
  /\ told' = [told EXCEPT ![a] = answer]
  /\ job' = [job EXCEPT ![a].state = "done"]

Init ==
  /\ schema = Glossary.tables /\ migrations = 0
  /\ boot = "tables" /\ seen = Glossary /\ catalog = Glossary
  /\ \E r \in Requests :
       job = [a \in Jobs |-> [state |-> "new", req |-> r[a], plan |-> <<>>, steps |-> <<>>]]
  /\ told = [a \in Jobs |-> NoAnswer]
  /\ sent = {}

-----------------------------------------------------------------------------
(* The start of the service.                                               *)

\* A migration adds or drops columns of a table.
Migrate(t, columns) ==
  /\ migrations < MaxMigrations /\ columns # schema[t]
  /\ schema' = [schema EXCEPT ![t] = columns] /\ migrations' = migrations + 1
  /\ UNCHANGED <<boot, seen, catalog, job, told, sent>>

\* PostgresSchemaCatalogLoader.load: four reads, each of its own moment.
LoadTables ==
  /\ boot = "tables" /\ boot' = "columns"
  /\ seen' = [seen EXCEPT !.tables =
                [t \in Tables |-> IF schema[t] = {} THEN {} ELSE Columns]]
  /\ UNCHANGED <<schema, migrations, catalog, job, told, sent>>

\* Tables that were not in the first read, and those without columns, are dropped.
LoadColumns ==
  /\ boot = "columns" /\ boot' = "relations"
  /\ seen' = [seen EXCEPT !.tables = [t \in Tables |-> seen.tables[t] \cap schema[t]]]
  /\ UNCHANGED <<schema, migrations, catalog, job, told, sent>>

\* Foreign keys of the database, whatever was read before, and those of the
\* glossary between columns that were.
LoadRelations ==
  /\ boot = "relations" /\ boot' = "keys"
  /\ seen' = [seen EXCEPT !.relations =
                {k \in Keys : \A x \in KeyColumns[k] : x[2] \in schema[x[1]]}
                \cup {k \in Glossary.relations :
                        \A x \in KeyColumns[k] : x[2] \in seen.tables[x[1]]}]
  /\ UNCHANGED <<schema, migrations, catalog, job, told, sent>>

LoadKeys ==
  /\ boot = "keys" /\ boot' = "ready"
  /\ catalog' = [seen EXCEPT !.source = "postgres"] /\ seen' = Glossary
  /\ UNCHANGED <<schema, migrations, job, told, sent>>

\* load_or_fallback: any read fails, or no table is found.
LoadFails ==
  /\ boot # "ready" /\ boot' = "ready"
  /\ catalog' = [Glossary EXCEPT !.source = "static_fallback"] /\ seen' = Glossary
  /\ UNCHANGED <<schema, migrations, job, told, sent>>

-----------------------------------------------------------------------------
(* An analysis.                                                            *)

\* run_data_analysis_workflow and analyze: who is not known is turned away.
Begin(a) ==
  /\ boot = "ready" /\ job[a].state = "new" /\ job[a].req # NoRequest
  /\ \A b \in Jobs : job[b].state # "busy"
  /\ IF ~job[a].req.user.authenticated /\ job[a].req.kind # "tool"
       THEN Tell(a, Error("AUTHENTICATION_REQUIRED"))
       ELSE /\ job' = [job EXCEPT ![a].state = "busy", ![a].plan = Plan(job[a].req),
                         ![a].steps = [n \in DOMAIN Plan(job[a].req) |-> NoStep]]
            /\ UNCHANGED told
  /\ UNCHANGED <<schema, migrations, loader, sent>>

\* The steps of a plan run together, but for the semaphore.
Running(a) == {n \in StepsOf(a) : Step(a, n).at \notin {"wait", "done"}}
Start(a, n) ==
  /\ At(a, n, "wait") /\ Cardinality(Running(a)) < Bound(MaxConcurrent)
  /\ IF job[a].req.kind = "tool" THEN Goto(a, n, "generate")
     ELSE IF Allowed(job[a].req.user) = {} THEN End(a, n, "PERMISSION_DENIED")
     ELSE Goto(a, n, "link")
  /\ UNCHANGED <<schema, migrations, loader, told, sent>>

\* The scores of words and vectors choose the tables: some of the allowed ones.
Link(a, n) ==
  /\ At(a, n, "link")
  /\ \E linked \in SUBSET Allowed(job[a].req.user) \ {{}} :
       Set(a, n, [Step(a, n) EXCEPT !.at = "generate", !.linked = linked])
  /\ UNCHANGED <<schema, migrations, loader, told, sent>>

\* The statement of the user, that of the fast path (for the skill, a template),
\* or what the model writes.
Written(a, n) ==
  IF job[a].req.sql # NoStatement THEN {job[a].req.sql}
  ELSE IF Template[Question(a, n)] # NoStatement THEN {Template[Question(a, n)]}
  ELSE IF LLM /\ job[a].req.kind # "tool" THEN Statements ELSE {}
Generate(a, n) ==
  /\ At(a, n, "generate")
  /\ \/ \E s \in Written(a, n) :
          Set(a, n, [Step(a, n) EXCEPT !.at = "validate", !.sql = s])
     \/ /\ job[a].req.sql = NoStatement /\ Template[Question(a, n)] = NoStatement
        /\ End(a, n, IF job[a].req.kind = "tool" THEN "SKILL_FAILED"
                      ELSE "SQL_GENERATION_ERROR")
  /\ UNCHANGED <<schema, migrations, loader, told, sent>>

\* What is wrong with the statement of a step.
Wrong(a, n) ==
  IF job[a].req.kind = "tool"
    THEN IF Sanitary(Step(a, n).sql) THEN "none" ELSE "SKILL_FAILED"
    ELSE Problem(job[a].req.user, Scope(job[a], Step(a, n)), Step(a, n).sql)
Validate(a, n) ==
  /\ At(a, n, "validate")
  /\ IF Wrong(a, n) = "none" THEN Goto(a, n, "execute") ELSE End(a, n, Wrong(a, n))
  /\ UNCHANGED <<schema, migrations, loader, told, sent>>

\* What the database may answer: it knows its schema as it is now.  Whether the
\* CTEs and the aliases of a statement are in order is not said.
Missing(s) ==
  \/ \E t \in Looked(s) : schema[t] = {}
  \/ \E x \in s.columns :
       x[1] \notin s.ctes /\ (x[1] \notin s.tables \/ x[2] \notin schema[x[1]])
  \/ s.ctes = {} /\ \E c \in LookedNames(s) : \A t \in s.tables : c \notin schema[t]
Answers(s) ==
  IF ~s.parses THEN {"mismatch"}
  ELSE IF Missing(s) THEN {"undefined", "timeout"}
  ELSE IF s.ctes \cup s.aliases # {} THEN Outcomes
  ELSE Outcomes \ {"undefined"}
CodeOf(outcome) ==
  IF outcome \in Repairable THEN "SQL_REPAIR_EXHAUSTED" ELSE "SQL_EXECUTION_ERROR"

MayRepair(step, outcome) == outcome \in Repairable /\ step.tries < MaxRepairs

Execute(a, n) ==
  /\ At(a, n, "execute")
  /\ sent' = sent \cup {[job |-> a, sql |-> Step(a, n).sql, linked |-> Step(a, n).linked]}
  /\ \E outcome \in Answers(Step(a, n).sql) :
       LET ran == [Step(a, n) EXCEPT !.runs = Append(@, outcome)]
       IN  IF outcome = "rows"
             THEN Set(a, n, Ended(ran, "none"))
           ELSE IF job[a].req.kind = "tool"
             THEN Set(a, n, Ended(ran, "SKILL_FAILED"))
           ELSE IF MayRepair(Step(a, n), outcome)
             THEN Set(a, n, [ran EXCEPT !.at = "repair", !.tries = @ + 1])
           ELSE Set(a, n, Ended(ran, CodeOf(outcome)))
  /\ UNCHANGED <<schema, migrations, loader, told>>

\* Nothing holds a model to the linked tables, or to a select.
Rewritten == IF LLM THEN Statements ELSE {}

\* Fault: what the model wrote to repair a statement is run as it is.
RepairUnchecked(a, n) ==
  /\ At(a, n, "repair")
  /\ \E s \in Rewritten : Set(a, n, [Step(a, n) EXCEPT !.at = "execute", !.sql = s])
  /\ UNCHANGED <<schema, migrations, loader, told, sent>>
\* The model writes another statement, which is validated like the first.
Repair(a, n) ==
  /\ At(a, n, "repair")
  /\ \/ \E s \in Rewritten : Set(a, n, [Step(a, n) EXCEPT !.at = "validate", !.sql = s])
     \/ End(a, n, "SQL_REPAIR_EXHAUSTED")
  /\ UNCHANGED <<schema, migrations, loader, told, sent>>

\* An exception nobody foresaw, coded by the phase it happened in.
PhaseCode == [link |-> "SCHEMA_LINK_ERROR", generate |-> "SQL_GENERATION_ERROR",
              validate |-> "SQL_PARSE_ERROR", execute |-> "SQL_EXECUTION_ERROR"]
Breaks(a, n) ==
  /\ \E phase \in DOMAIN PhaseCode :
       /\ At(a, n, phase)
       /\ LET code == IF job[a].req.kind = "tool" THEN "SKILL_FAILED"
                      ELSE IF Step(a, n).tries > 0 THEN "SQL_EXECUTION_ERROR"
                      ELSE PhaseCode[phase]
          IN  End(a, n, code)
  /\ UNCHANGED <<schema, migrations, loader, told, sent>>

\* _analyze_plan waits for all its steps: a whole success takes all of them.
Won(a) == {n \in StepsOf(a) : Step(a, n).code = "none"}
\* Fault: one step that succeeded is enough.
AnswerAny(a) ==
  IF Won(a) # {} THEN [kind |-> "success", code |-> "none", status |-> "FULL_SUCCESS"]
  ELSE Error(Step(a, 1).code)
Answer(a) ==
  IF Won(a) = StepsOf(a) THEN [kind |-> "success", code |-> "none", status |-> "FULL_SUCCESS"]
  ELSE IF job[a].req.kind # "diagnostic" \/ job[a].plan = <<"diagnostic">>
    THEN Error(Step(a, 1).code)
  ELSE [Error("SQL_EXECUTION_ERROR") EXCEPT
          !.status = IF Won(a) = {} THEN "FAILED" ELSE "PARTIAL"]
Finish(a) ==
  /\ job[a].state = "busy" /\ \A n \in StepsOf(a) : Step(a, n).at = "done"
  /\ Tell(a, Answer(a))
  /\ UNCHANGED <<schema, migrations, loader, sent>>

\* The timeout of the agent or of the skill: a statement it finds running may
\* have been run.
Cancel(a) ==
  /\ job[a].state = "busy" /\ \E n \in StepsOf(a) : Step(a, n).at # "done"
  /\ Tell(a, Error("AGENT_TIMEOUT"))
  /\ \E interrupted \in SUBSET {n \in StepsOf(a) : Step(a, n).at = "execute"} :
       sent' = sent \cup {[job |-> a, sql |-> Step(a, n).sql, linked |-> Step(a, n).linked] :
                            n \in interrupted}
  /\ UNCHANGED <<schema, migrations, loader>>

Load == LoadTables \/ LoadColumns \/ LoadRelations \/ LoadKeys \/ LoadFails
Work(a, n) == Start(a, n) \/ Link(a, n) \/ Generate(a, n) \/ Validate(a, n)
                \/ Execute(a, n) \/ Repair(a, n) \/ Breaks(a, n)

Next ==
  \/ Load
  \/ \E t \in Tables, columns \in SUBSET Columns : Migrate(t, columns)
  \/ \E a \in Jobs : Begin(a) \/ Finish(a) \/ Cancel(a) \/ \E n \in StepsOf(a) : Work(a, n)

Spec == Init /\ [][Next]_vars

-----------------------------------------------------------------------------
(* Properties.                                                             *)

Codes == {"none", "AUTHENTICATION_REQUIRED", "PERMISSION_DENIED", "SQL_PARSE_ERROR",
          "UNSAFE_SQL", "TABLE_NOT_ALLOWED", "COLUMN_NOT_ALLOWED", "QUERY_COST_EXCEEDED",
          "SQL_GENERATION_ERROR", "SCHEMA_LINK_ERROR", "SQL_EXECUTION_ERROR",
          "SQL_REPAIR_EXHAUSTED", "SKILL_FAILED", "AGENT_TIMEOUT"}

\* Types of the variables; a step is repaired no more often than configured.
TypeOK ==
  /\ schema \in Schemas /\ migrations \in 0..MaxMigrations
  /\ boot \in {"tables", "columns", "relations", "keys", "ready"}
  /\ seen \in Catalogs /\ catalog \in Catalogs
  /\ DOMAIN job = Jobs /\ DOMAIN told = Jobs
  /\ \A a \in Jobs :
       /\ job[a].state \in {"new", "busy", "done"}
       /\ DOMAIN job[a].steps = DOMAIN job[a].plan
       /\ \A n \in StepsOf(a) :
            /\ Step(a, n).at \in Phases /\ Step(a, n).code \in Codes
            /\ Step(a, n).linked \subseteq Tables
            /\ Step(a, n).tries \in 0..MaxRepairs
       /\ told[a].code \in Codes
       /\ (told[a].kind # "none") <=> (job[a].state = "done")

\* Whatever the model writes, at first or to repair a statement the database has
\* rejected, and however old the catalog is: a statement of an analysis reaches
\* the database only if it is a select, for a user who is known, and what the
\* check looks at in it is granted by the glossary: every table that is not named
\* like one of its CTEs, of the linked ones if a model wrote it, and with a known
\* tenant if there is any; every column named with its table; and for every bare
\* name that is not an alias a column of that name.  A statement whose CTEs and
\* aliases have names of their own and that has no star is so granted as a
\* whole; what the others read besides is left to the database.  A statement of
\* the skill is a select (sql_validator.py:150, :162 and :207).
ReadsAreGranted ==
  \A x \in sent :
    LET r == job[x.job].req
        tables == Looked(x.sql)
    IN
    /\ x.sql.kind = "select"
    /\ r.kind # "tool" =>
         /\ r.user.authenticated
         /\ tables # {} => r.user.tenant
         /\ \A t \in tables : Granted(r.user, t)
         /\ \A c \in x.sql.columns : Granted(r.user, c[1]) /\ c \notin Denied
         /\ \A c \in LookedNames(x.sql) :
              \E t \in tables : Granted(r.user, t) /\ <<t, c>> \notin Denied
         /\ r.sql = NoStatement => tables \subseteq x.linked

\* What a step is said to have come to is what its statements came to: rows are
\* the answer to its last one; before it there were only rejections that a model
\* could repair, one for each attempt; and an attempt that was never made is not
\* called exhausted.  An answer is a success when every step of the plan got its
\* rows, and partial when some did.
AnswersAgree ==
  \A a \in Jobs :
    /\ \A n \in StepsOf(a) :
         LET step == Step(a, n) IN
         /\ Len(step.runs) <= MaxRepairs + 1
         /\ \A i \in 1..Len(step.runs) - 1 : step.runs[i] \in Repairable
         /\ step.at = "done" /\ step.code = "none" =>
              step.runs # <<>> /\ step.runs[Len(step.runs)] = "rows"
         /\ step.code = "SQL_REPAIR_EXHAUSTED" =>
              step.runs # <<>> /\ step.runs[Len(step.runs)] \in Repairable
    /\ told[a].kind = "success" =>
         \A n \in StepsOf(a) : Step(a, n).at = "done" /\ Step(a, n).code = "none"
    /\ told[a].status = "PARTIAL" =>
         \E m, n \in StepsOf(a) : Step(a, m).code = "none" /\ Step(a, n).code # "none"
=============================================================================
