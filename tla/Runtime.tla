------------------------------- MODULE Runtime -------------------------------
(***************************************************************************)
(* The process (AppRuntime of runtime/container.py, the lifespan of        *)
(* api/main.py): how it starts, or fails to, or is cancelled half way; the *)
(* clients it opens when somebody first needs them; and how it closes what *)
(* is open, in the reverse order, within a time limit, or is killed.       *)
(*                                                                         *)
(* A database pool is created by whoever finds it missing (db/base.py),    *)
(* with an await between the check and the assignment.                     *)
(***************************************************************************)
EXTENDS Naturals, Sequences

CONSTANTS
  Users,    \* coroutines that use a database: of agents, tasks, ...
  OwnerOf,  \* OwnerOf[u]: what is stopped to stop u
  RolesOf   \* RolesOf[u]: the pools it uses

Roles == {"legacy", "read", "write"}

ASSUME RuntimeAssumption ==
  /\ OwnerOf \in [Users -> {"agents", "tasks", "bus", "http"}]
  /\ RolesOf \in [Users -> SUBSET Roles]

VARIABLES
  mode,      \* APP_ENV
  phase,     \* how far the start is, or that it serves, closes or is off
  stage,     \* while it closes: what is next of Stages
  attempted, \* _db_attempted and _redis_attempted
  open,      \* what is running or open, and somebody refers to
  opener,    \* opener[u]: the pool that u is creating
  lost,      \* history: pools that are open and nobody refers to
  botched    \* history: what a close that failed has left open

runtime == <<mode, phase, stage, attempted, open, opener, lost, botched>>

\* Fault: the database is closed before the bus has stopped writing.
BusLast == <<"agents", "tasks", "session", "redis", "legacy", "read", "write", "bus">>
\* The order of _shutdown_resources, and in AsyncPGClient.close.
Stages == <<"agents", "tasks", "bus", "session", "redis", "legacy", "read", "write">>

Starting == {"check_read", "check_write", "catalog", "agents"}

InitRuntime(users) ==
  /\ mode \in {"production", "development"}
  /\ phase = "off" /\ stage = 1
  /\ attempted = {} /\ open = {} /\ lost = {} /\ botched = {}
  /\ opener = [u \in Users |-> IF u \in users THEN "none" ELSE "absent"]

\* The coroutines of owner x are cancelled, in the middle of a creation or not.
Stopped(x) == [u \in Users |->
                 IF OwnerOf[u] = x /\ opener[u] # "absent" THEN "none" ELSE opener[u]]

-----------------------------------------------------------------------------
(* AppRuntime.start.                                                       *)

FirstPhase == IF mode = "production" THEN "check_read" ELSE "catalog"
StartUp ==
  /\ phase = "off"
  /\ phase' = FirstPhase /\ attempted' = {"db"}
  /\ UNCHANGED <<mode, stage, open, opener, lost, botched>>

\* Whatever fails or is cancelled in start, what was attempted is closed.
Fail == phase' = "closing" /\ stage' = 1

\* validate_database_runtime_roles: a pool, and whether its role is safe.
RoleOf == IF phase = "check_read" THEN "read" ELSE "write"
CheckRole ==
  /\ phase \in {"check_read", "check_write"}
  /\ open' = open \cup {RoleOf}
  /\ phase' = IF phase = "check_read" THEN "check_write" ELSE "catalog"
  /\ UNCHANGED <<mode, stage, attempted, opener, lost, botched>>
RoleRefused ==
  /\ phase \in {"check_read", "check_write"}
  /\ open' \in {open, open \cup {RoleOf}} /\ Fail
  /\ UNCHANGED <<mode, attempted, opener, lost, botched>>

\* Without a database the catalog is the static one, and the start goes on.
LoadCatalog ==
  /\ phase = "catalog" /\ phase' = "agents"
  /\ attempted' = attempted \cup {"redis"}
  /\ open' \in {open, open \cup {"read"}}
  /\ UNCHANGED <<mode, stage, opener, lost, botched>>

\* AgentRegistry.serve: registering the agents opens the bus; they run, or one
\* fails at once, and all are stopped.
Serve ==
  /\ phase = "agents" /\ phase' = "serving"
  /\ open' = open \cup {"agents", "tasks", "bus"}
  /\ UNCHANGED <<mode, stage, attempted, opener, lost, botched>>
ServeFails ==
  /\ phase = "agents" /\ Fail
  /\ open' = open \cup {"bus"}
  /\ UNCHANGED <<mode, attempted, opener, lost, botched>>

\* The start is cancelled, at any of its awaits.
StartCancelled ==
  /\ phase \in Starting /\ Fail
  /\ UNCHANGED <<mode, attempted, open, opener, lost, botched>>

-----------------------------------------------------------------------------
(* Serving.                                                                *)

Alive(u) == IF OwnerOf[u] = "http" THEN phase = "serving" ELSE OwnerOf[u] \in open

\* get_read_pool and the others: somebody finds no pool, and creates one.
Missing(u, role) ==
  /\ opener[u] = "none" /\ Alive(u) /\ role \in RolesOf[u] /\ role \notin open
  /\ opener' = [opener EXCEPT ![u] = role]
  /\ UNCHANGED <<mode, phase, stage, attempted, open, lost, botched>>
Created(u) ==
  /\ opener[u] \in Roles
  /\ opener' = [opener EXCEPT ![u] = "none"]
  /\ open' = open \cup {opener[u]}
  /\ lost' = lost \cup ({opener[u]} \cap open)
  /\ UNCHANGED <<mode, phase, stage, attempted, botched>>
NotCreated(u) ==
  /\ opener[u] \in Roles
  /\ opener' = [opener EXCEPT ![u] = "none"]
  /\ UNCHANGED <<mode, phase, stage, attempted, open, lost, botched>>

\* The Redis client has no await between check and assignment, the HTTP session
\* of the models has a lock: each is made once.
OpenClient(c) ==
  /\ phase = "serving" /\ c \in {"redis", "session"} \ open
  /\ open' = open \cup {c}
  /\ UNCHANGED <<mode, phase, stage, attempted, opener, lost, botched>>

\* An agent raises: AgentRegistry.serve stops the others, and nobody starts
\* them again; /health/ready tells.
Die ==
  /\ phase = "serving" /\ "agents" \in open
  /\ open' = open \ {"agents"} /\ opener' = Stopped("agents")
  /\ UNCHANGED <<mode, phase, stage, attempted, lost, botched>>

-----------------------------------------------------------------------------
(* AppRuntime.close.                                                       *)

\* The lifespan ends, when the server has no request any more.
BeginClose ==
  /\ phase = "serving" /\ Fail
  /\ \A u \in Users : OwnerOf[u] = "http" => opener[u] \notin Roles
  /\ UNCHANGED <<mode, attempted, open, opener, lost, botched>>

Closes(x) ==
  CASE x = "redis" -> "redis" \in attempted
    [] x \in Roles -> "db" \in attempted
    [] OTHER       -> TRUE
CloseNext ==
  /\ phase = "closing" /\ stage <= Len(Stages) /\ stage' = stage + 1
  /\ LET x == Stages[stage] IN
       IF ~Closes(x) \/ x \notin open
         THEN UNCHANGED <<open, opener>>
         ELSE open' = open \ {x} /\ opener' = Stopped(x)
  /\ UNCHANGED <<mode, phase, attempted, lost, botched>>
\* The close of a client or of a pool raises, which is swallowed; of a pool, it ends
\* the loop over the pools (db/base.py:201), and those after it stay open as well.
CloseFails ==
  /\ phase = "closing" /\ stage <= Len(Stages)
  /\ LET x == Stages[stage] IN
       /\ x \in open \cap ({"session", "redis"} \cup Roles) /\ Closes(x)
       /\ \/ /\ x \in Roles /\ stage' = Len(Stages) + 1
             /\ botched' = botched \cup (open \cap Roles)
          \/ /\ x \notin Roles /\ stage' = stage + 1
             /\ botched' = botched \cup {x}
  /\ UNCHANGED <<mode, phase, attempted, open, opener, lost>>
Closed ==
  /\ phase = "closing" /\ stage > Len(Stages)
  /\ phase' = "off" /\ stage' = 1 /\ attempted' = {}
  /\ UNCHANGED <<mode, open, opener, lost, botched>>

\* SHUTDOWN_TIMEOUT_SECONDS has passed: the close is cancelled where it is.
CutShort ==
  /\ phase = "closing" /\ phase' = "cut"
  /\ UNCHANGED <<mode, stage, attempted, open, opener, lost, botched>>

\* The process ends or is killed, and with it all it had open.
Exit ==
  /\ phase' = "off" /\ stage' = 1 /\ phase # "off"
  /\ attempted' = {} /\ open' = {} /\ lost' = {} /\ botched' = {}
  /\ opener' = [u \in Users |-> IF opener[u] = "absent" THEN "absent" ELSE "none"]
  /\ UNCHANGED mode

Start == StartUp \/ CheckRole \/ RoleRefused \/ LoadCatalog \/ Serve \/ ServeFails
           \/ StartCancelled
Use(u) == (\E role \in Roles : Missing(u, role)) \/ Created(u) \/ NotCreated(u)
Close == CloseNext \/ CloseFails \/ Closed \/ CutShort

TypeOKRuntime ==
  /\ mode \in {"production", "development"}
  /\ phase \in Starting \cup {"off", "serving", "closing", "cut"}
  /\ stage \in 1 .. Len(Stages) + 1
  /\ attempted \subseteq {"db", "redis"}
  /\ open \subseteq {Stages[n] : n \in 1 .. Len(Stages)}
  /\ opener \in [Users -> Roles \cup {"none", "absent"}]
  /\ lost \subseteq Roles /\ botched \subseteq {"session", "redis"} \cup Roles
=============================================================================
