----------------------------- MODULE ServiceProofs -----------------------------
(***************************************************************************)
(* Proofs about Service (Runtime and Conversation), for any users of the   *)
(* pools, requests, window and lists left by an older version.             *)
(***************************************************************************)
EXTENDS Service, SequenceTheorems, TLAPS

-----------------------------------------------------------------------------
(* The process.                                                            *)

Workers == {"agents", "tasks", "bus"}

\* What was opened is closed as far as the close has come, the users that open
\* a pool are running, and what will be closed is known to have been attempted.
OpenInv ==
  /\ phase \notin {"off", "cut"} => "db" \in attempted
  /\ phase \in {"agents", "serving"} => "redis" \in attempted
  /\ "redis" \in open \ botched => "redis" \in attempted
  /\ phase = "off" => open \subseteq botched
  /\ phase = "closing" => \A n \in 1 .. stage - 1 : Stages[n] \notin open \ botched
  /\ \A u \in Users : opener[u] \in Roles => Alive(u)

\* In production both roles have their pool before anybody runs who could create
\* them, and until all who could have been stopped.
RolesInv ==
  mode = "production" =>
    /\ phase = "check_write" => "read" \in open
    /\ phase \in {"catalog", "agents", "serving"} \/ open \cap Workers # {} =>
         {"read", "write"} \subseteq open
    /\ \A u \in Users : opener[u] \in Roles => opener[u] = "legacy"
    /\ lost \subseteq {"legacy"}

RuntimeInv == TypeOKRuntime /\ OpenInv /\ RolesInv

LEMMA StageFacts ==
  /\ Len(Stages) = 8
  /\ Stages[1] = "agents" /\ Stages[2] = "tasks" /\ Stages[3] = "bus"
  /\ Stages[4] = "session" /\ Stages[5] = "redis" /\ Stages[6] = "legacy"
  /\ Stages[7] = "read" /\ Stages[8] = "write"
  /\ {Stages[n] : n \in 1 .. Len(Stages)} =
       {"agents", "tasks", "bus", "session", "redis", "legacy", "read", "write"}
<1>1. /\ Len(Stages) = 8
      /\ Stages[1] = "agents" /\ Stages[2] = "tasks" /\ Stages[3] = "bus"
      /\ Stages[4] = "session" /\ Stages[5] = "redis" /\ Stages[6] = "legacy"
      /\ Stages[7] = "read" /\ Stages[8] = "write"
  BY DEF Stages
<1>2. \A n \in 1 .. 8 : n \in {1, 2, 3, 4, 5, 6, 7, 8}
  OBVIOUS
<1>3. QED
  BY <1>1, <1>2

\* Those who are stopped create nothing, and the others go on.
LEMMA StoppedFacts ==
  ASSUME TypeOKRuntime, NEW x
  PROVE  /\ Stopped(x) \in [Users -> Roles \cup {"none", "absent"}]
         /\ \A u \in Users : Stopped(x)[u] \in Roles => OwnerOf[u] # x /\ Stopped(x)[u] = opener[u]
BY DEF TypeOKRuntime, Stopped, Roles

LEMMA InitRuntimeInv == ASSUME NEW users, InitRuntime(users) PROVE RuntimeInv
<1>1. TypeOKRuntime
  BY StageFacts DEF InitRuntime, TypeOKRuntime
<1>2. OpenInv /\ RolesInv
  BY DEF InitRuntime, OpenInv, RolesInv, Workers, Roles
<1>3. QED
  BY <1>1, <1>2 DEF RuntimeInv

LEMMA StartStep == ASSUME RuntimeInv, Start PROVE RuntimeInv'
<1> USE StageFacts DEF RuntimeInv
<1>1. CASE StartUp
  <2>1. TypeOKRuntime'
    BY <1>1 DEF StartUp, FirstPhase, TypeOKRuntime, Starting
  <2>2. OpenInv'
    BY <1>1 DEF StartUp, FirstPhase, TypeOKRuntime, OpenInv, Alive, RuntimeInv
  <2>3. RolesInv'
    BY <1>1 DEF StartUp, FirstPhase, TypeOKRuntime, OpenInv, RolesInv, Workers
  <2>4. QED
    BY <2>1, <2>2, <2>3
<1>2. CASE CheckRole \/ RoleRefused
  <2>1. TypeOKRuntime'
    <3>1. RoleOf \in {"read", "write"} /\ stage' \in 1 .. Len(Stages) + 1
            /\ open' \subseteq open \cup {RoleOf}
            /\ phase' \in {"check_write", "catalog", "closing"}
      BY <1>2 DEF CheckRole, RoleRefused, RoleOf, Fail, TypeOKRuntime
    <3>2. UNCHANGED <<mode, attempted, opener, lost, botched>>
      BY <1>2 DEF CheckRole, RoleRefused
    <3>3. QED
      BY <3>1, <3>2 DEF TypeOKRuntime, Starting
  <2>2. OpenInv'
    BY <1>2 DEF CheckRole, RoleRefused, RoleOf, Fail, TypeOKRuntime, OpenInv, Alive
  <2>3. RolesInv'
    BY <1>2 DEF CheckRole, RoleRefused, RoleOf, Fail, TypeOKRuntime, RolesInv, Workers
  <2>4. QED
    BY <2>1, <2>2, <2>3
<1>3. CASE LoadCatalog
  <2>1. TypeOKRuntime'
    BY <1>3 DEF LoadCatalog, TypeOKRuntime, Starting
  <2>2. OpenInv'
    BY <1>3 DEF LoadCatalog, TypeOKRuntime, OpenInv, Alive
  <2>3. RolesInv'
    BY <1>3 DEF LoadCatalog, TypeOKRuntime, RolesInv, Workers
  <2>4. QED
    BY <2>1, <2>2, <2>3
<1>4. CASE Serve \/ ServeFails \/ StartCancelled
  <2>1. TypeOKRuntime'
    <3>1. stage' \in 1 .. Len(Stages) + 1 /\ phase' \in {"serving", "closing"}
            /\ open' \subseteq open \cup {"agents", "tasks", "bus"}
            /\ UNCHANGED <<mode, attempted, opener, lost, botched>>
      BY <1>4 DEF Serve, ServeFails, StartCancelled, Fail, TypeOKRuntime
    <3>2. QED
      BY <3>1 DEF TypeOKRuntime
  <2>2. OpenInv'
    BY <1>4 DEF Serve, ServeFails, StartCancelled, Fail, Starting, TypeOKRuntime, OpenInv, Alive
  <2>3. RolesInv'
    BY <1>4 DEF Serve, ServeFails, StartCancelled, Fail, Starting, TypeOKRuntime, RolesInv, Workers
  <2>4. QED
    BY <2>1, <2>2, <2>3
<1>5. QED
  BY <1>1, <1>2, <1>3, <1>4 DEF Start

LEMMA UseStep == ASSUME RuntimeInv, NEW u \in Users, Use(u) PROVE RuntimeInv'
<1> USE StageFacts, RuntimeAssumption DEF RuntimeInv, RuntimeAssumption
<1>1. ASSUME NEW role \in Roles, Missing(u, role)
      PROVE  RuntimeInv'
  <2>1. \A v \in Users : opener'[v] = IF v = u THEN role ELSE opener[v]
    BY <1>1 DEF Missing, TypeOKRuntime
  <2>2. TypeOKRuntime'
    BY <1>1 DEF Missing, TypeOKRuntime
  <2>3. OpenInv'
    BY <1>1, <2>1 DEF Missing, OpenInv, Alive
  <2>4. mode = "production" => role = "legacy"
    BY <1>1 DEF Missing, Alive, RolesInv, Workers, Roles
  <2>5. RolesInv'
    BY <1>1, <2>1, <2>4 DEF Missing, RolesInv
  <2>6. QED
    BY <2>2, <2>3, <2>5
<1>2. CASE Created(u) \/ NotCreated(u)
  <2>1. /\ opener[u] \in Roles /\ Alive(u)
        /\ \A v \in Users : opener'[v] = IF v = u THEN "none" ELSE opener[v]
        /\ open \subseteq open' /\ open' \subseteq open \cup {opener[u]}
        /\ lost' \subseteq lost \cup {opener[u]}
        /\ UNCHANGED <<mode, phase, stage, attempted, botched>>
    BY <1>2 DEF Created, NotCreated, TypeOKRuntime, OpenInv
  <2>2. "none" \notin Roles /\ "redis" \notin Roles /\ Roles \cap Workers = {}
    BY DEF Roles, Workers
  <2>3. TypeOKRuntime'
    <3>1. open' \subseteq {Stages[n] : n \in 1 .. Len(Stages)} /\ lost' \subseteq Roles
      BY <2>1 DEF TypeOKRuntime, Roles
    <3>2. opener' \in [Users -> Roles \cup {"none", "absent"}]
      BY <1>2 DEF Created, NotCreated, TypeOKRuntime
    <3>3. QED
      BY <2>1, <3>1, <3>2 DEF TypeOKRuntime
  <2>4. phase = "closing" => stage <= 3
    <3> SUFFICES ASSUME phase = "closing", stage > 3
                 PROVE  FALSE
      BY DEF TypeOKRuntime
    <3>1. \A n \in {1, 2, 3} : Stages[n] \notin open \ botched
      BY DEF OpenInv, TypeOKRuntime
    <3>2. open \cap Workers = {}
      BY <3>1 DEF Workers, TypeOKRuntime, Roles
    <3>3. OwnerOf[u] \in Workers
      BY <2>1 DEF Alive, Workers
    <3>4. QED
      BY <2>1, <3>2, <3>3 DEF Alive, Workers
  <2>5. phase # "off"
    BY <2>1, RuntimeAssumption DEF Alive, OpenInv, TypeOKRuntime, Roles, RuntimeAssumption
  <2>6. OpenInv'
    <3>1. phase = "closing" => \A n \in 1 .. stage - 1 : Stages[n] \notin open' \ botched
      <4> SUFFICES ASSUME phase = "closing", NEW n \in 1 .. stage - 1
                   PROVE  Stages[n] \notin open' \ botched
        OBVIOUS
      <4>1. n \in {1, 2}
        BY <2>4 DEF TypeOKRuntime
      <4>2. Stages[n] \notin Roles /\ Stages[n] \notin open \ botched
        BY <4>1 DEF Roles, OpenInv
      <4>3. QED
        BY <2>1, <4>2
    <3>2. \A v \in Users : opener'[v] \in Roles => Alive(v)'
      BY <2>1, <2>2 DEF OpenInv, Alive
    <3>3. "redis" \in open' \ botched => "redis" \in attempted
      BY <2>1, <2>2 DEF OpenInv
    <3>4. QED
      BY <2>1, <2>5, <3>1, <3>2, <3>3 DEF OpenInv
  <2>7. RolesInv'
    BY <2>1, <2>2 DEF RolesInv
  <2>8. QED
    BY <2>3, <2>6, <2>7
<1>3. QED
  BY <1>1, <1>2 DEF Use

LEMMA ServingStep ==
  ASSUME RuntimeInv, Die \/ (\E c \in {"redis", "session"} : OpenClient(c))
  PROVE  RuntimeInv'
<1> USE StageFacts DEF RuntimeInv
<1>1. CASE Die
  <2>1. TypeOKRuntime' /\ (\A u \in Users : opener'[u] \in Roles =>
                             OwnerOf[u] # "agents" /\ opener'[u] = opener[u])
    BY <1>1, StoppedFacts DEF Die, TypeOKRuntime
  <2>2. OpenInv'
    BY <1>1, <2>1 DEF Die, OpenInv, Alive
  <2>3. RolesInv'
    BY <1>1, <2>1 DEF Die, RolesInv, Workers
  <2>4. QED
    BY <2>1, <2>2, <2>3
<1>2. ASSUME NEW c \in {"redis", "session"}, OpenClient(c)
      PROVE  RuntimeInv'
  <2>1. TypeOKRuntime'
    BY <1>2 DEF OpenClient, TypeOKRuntime
  <2>2. OpenInv'
    BY <1>2 DEF OpenClient, OpenInv, Alive
  <2>3. RolesInv'
    BY <1>2 DEF OpenClient, RolesInv, Workers
  <2>4. QED
    BY <2>1, <2>2, <2>3
<1>3. QED
  BY <1>1, <1>2

\* One stage after the other: the roles are closed when nobody runs any more.
LEMMA CloseStep == ASSUME RuntimeInv, Close PROVE RuntimeInv'
<1> USE StageFacts DEF RuntimeInv
<1>1. CASE CloseNext
  <2> DEFINE x == Stages[stage]
  <2>1. /\ phase = "closing" /\ stage \in 1 .. 8 /\ stage' = stage + 1
        /\ UNCHANGED <<mode, phase, attempted, lost, botched>>
    BY <1>1 DEF CloseNext, TypeOKRuntime
  <2>2. x \in {"agents", "tasks", "bus", "session", "redis", "legacy", "read", "write"}
    BY <2>1
  <2>3. CASE ~Closes(x) \/ x \notin open
    <3>1. UNCHANGED <<open, opener>>
      BY <1>1, <2>3 DEF CloseNext
    <3>2. x \notin open \ botched
      BY <2>1, <2>2, <2>3 DEF Closes, Roles, OpenInv
    <3>3. \A n \in 1 .. stage' - 1 : n = stage \/ n \in 1 .. stage - 1
      BY <2>1
    <3>4. \A n \in 1 .. stage' - 1 : Stages[n] \notin open \ botched
      BY <2>1, <3>2, <3>3 DEF OpenInv
    <3>5. OpenInv'
      BY <2>1, <3>1, <3>4 DEF OpenInv, Alive
    <3>6. TypeOKRuntime' /\ RolesInv'
      BY <2>1, <3>1 DEF TypeOKRuntime, RolesInv
    <3>7. QED
      BY <3>5, <3>6
  <2>4. CASE Closes(x) /\ x \in open
    <3>1. open' = open \ {x} /\ opener' = Stopped(x)
      BY <1>1, <2>4 DEF CloseNext
    <3> HIDE DEF x
    <3>2. \A u \in Users : opener'[u] \in Roles => OwnerOf[u] # x /\ opener'[u] = opener[u]
      BY <3>1, StoppedFacts
    <3>3. TypeOKRuntime'
      BY <2>1, <3>1, StoppedFacts DEF TypeOKRuntime
    <3>4. \A n \in 1 .. stage' - 1 : n = stage \/ n \in 1 .. stage - 1
      BY <2>1
    <3>5. \A n \in 1 .. stage' - 1 : Stages[n] \notin open' \ botched
      BY <2>1, <3>1, <3>4 DEF OpenInv, x
    <3>6. OpenInv'
      BY <2>1, <3>1, <3>2, <3>5 DEF OpenInv, Alive
    <3>7. RolesInv'
      <4>1. x \in {"read", "write"} => open \cap Workers = {}
        <5>1. x \in {"read", "write"} => stage > 3
          BY <2>1 DEF x, Stages
        <5>2. stage > 3 => \A n \in {1, 2, 3} : Stages[n] \notin open \ botched
          BY <2>1 DEF OpenInv
        <5>3. QED
          BY <5>1, <5>2 DEF Workers, TypeOKRuntime, Roles
      <4>2. QED
        BY <2>1, <3>1, <3>2, <4>1 DEF RolesInv
    <3>8. QED
      BY <3>3, <3>6, <3>7
  <2>5. QED
    BY <2>3, <2>4
<1>2. CASE CloseFails /\ Stages[stage] \notin Roles
  <2>1. /\ phase = "closing" /\ stage \in 1 .. 8 /\ stage' = stage + 1
        /\ botched' = botched \cup {Stages[stage]}
        /\ Stages[stage] \in {"session", "redis"}
        /\ UNCHANGED <<mode, phase, attempted, open, opener, lost>>
    BY <1>2 DEF CloseFails, TypeOKRuntime, Roles
  <2>2. \A n \in 1 .. stage' - 1 : n = stage \/ n \in 1 .. stage - 1
    BY <2>1
  <2>3. \A n \in 1 .. stage' - 1 : Stages[n] \notin open \ botched'
    BY <2>1, <2>2 DEF OpenInv
  <2>4. OpenInv'
    BY <2>1, <2>3 DEF OpenInv, Alive
  <2>5. stage' \in 1 .. Len(Stages) + 1
    BY <2>1
  <2>6. TypeOKRuntime' /\ RolesInv'
    BY <2>1, <2>5 DEF TypeOKRuntime, RolesInv
  <2>7. QED
    BY <2>4, <2>6
<1>3. CASE CloseFails /\ Stages[stage] \in Roles
  <2>1. /\ phase = "closing" /\ stage \in 6 .. 8 /\ stage' = 9
        /\ botched' = botched \cup (open \cap Roles)
        /\ UNCHANGED <<mode, phase, attempted, open, opener, lost>>
    <3>1. stage \in 1 .. 8 /\ \A n \in 1 .. 5 : Stages[n] \notin Roles
      BY <1>3 DEF CloseFails, TypeOKRuntime, Roles
    <3>2. QED
      BY <1>3, <3>1 DEF CloseFails, TypeOKRuntime
  <2>2. \A n \in 1 .. stage' - 1 : Stages[n] \in Roles \/ n \in 1 .. stage - 1
    <3>1. \A n \in 1 .. 8 : n \in {6, 7, 8} \/ n \in 1 .. 5
      OBVIOUS
    <3>2. QED
      BY <2>1, <3>1 DEF Roles
  <2>3. \A n \in 1 .. stage' - 1 : Stages[n] \notin open \ botched'
    BY <2>1, <2>2 DEF OpenInv
  <2>4. OpenInv'
    BY <2>1, <2>3 DEF OpenInv, Alive
  <2>5. stage' \in 1 .. Len(Stages) + 1
    BY <2>1
  <2>6. TypeOKRuntime' /\ RolesInv'
    BY <2>1, <2>5 DEF TypeOKRuntime, RolesInv
  <2>7. QED
    BY <2>4, <2>6
<1>4. CASE Closed
  <2>1. /\ phase = "closing" /\ phase' = "off" /\ stage' = 1 /\ attempted' = {}
        /\ stage = 9 /\ UNCHANGED <<mode, open, opener, lost, botched>>
    BY <1>4 DEF Closed, TypeOKRuntime
  <2>2. open \subseteq botched
    BY <2>1 DEF OpenInv, TypeOKRuntime
  <2>3. \A u \in Users : opener[u] \notin Roles
    BY <2>1, <2>2, RuntimeAssumption DEF OpenInv, Alive, TypeOKRuntime, RuntimeAssumption, Roles
  <2>4. TypeOKRuntime' /\ RolesInv'
    BY <2>1 DEF TypeOKRuntime, RolesInv
  <2>5. OpenInv'
    BY <2>1, <2>2, <2>3 DEF OpenInv
  <2>6. QED
    BY <2>4, <2>5
<1>5. CASE CutShort
  <2>1. TypeOKRuntime' /\ RolesInv' /\ OpenInv'
    BY <1>5 DEF CutShort, TypeOKRuntime, RolesInv, OpenInv, Alive
  <2>2. QED
    BY <2>1
<1>6. QED
  BY <1>1, <1>2, <1>3, <1>4, <1>5 DEF Close

LEMMA EndingStep == ASSUME RuntimeInv, BeginClose \/ Exit PROVE RuntimeInv'
<1> USE StageFacts DEF RuntimeInv
<1>1. CASE BeginClose
  <2>1. TypeOKRuntime' /\ RolesInv'
    BY <1>1 DEF BeginClose, Fail, TypeOKRuntime, RolesInv
  <2>2. OpenInv'
    BY <1>1 DEF BeginClose, Fail, OpenInv, Alive
  <2>3. QED
    BY <2>1, <2>2
<1>2. CASE Exit
  <2>1. TypeOKRuntime'
    BY <1>2 DEF Exit, TypeOKRuntime
  <2>2. RolesInv' /\ OpenInv'
    BY <1>2 DEF Exit, RolesInv, OpenInv, Workers, Roles
  <2>3. QED
    BY <2>1, <2>2
<1>3. QED
  BY <1>1, <1>2
-----------------------------------------------------------------------------
(* The conversations.                                                      *)

Messages == [by : {"user", "assistant"}, of : Requests \cup {"old"}]
Stored == [type : {"none", "list", "string"}, items : Seq(Messages)]
Places == {"load", "user", "assistant", "work", "clear_tasks", "clear_crm", "done"}
Progress == [at : Places, step : {"type", "get", "move", "act"}, raw : {<<>>, Old}]

\* A value in Redis is empty, a list within the window, or what was left as a
\* string; without a late migration it is what is due.
Sound(k, v) ==
  /\ v \in Stored
  /\ v.type = "none" => v.items = <<>>
  /\ v.type = "list" => Len(v.items) \in 1 .. Window
  /\ v.type = "string" => v.items = Old /\ k \in Legacy
StoreInv ==
  /\ store \in [Lists -> Stored] /\ due \in [Lists -> Seq(Messages)]
  /\ \A k \in Lists : Sound(k, store[k])
  /\ \A k \in Lists \ overrun : store[k].items = due[k]
  /\ overrun \subseteq Legacy

\* A request that migrates does so for a list that was a string, and has read
\* that string if it is still there.
Placed(r, q) == q.at \in {"load", "user", "assistant", "work"} => KindOf[r] \in Lists
Migrates(r, q, there) ==
  /\ q.step \in {"get", "move"} =>
       q.at \in {"load", "user", "assistant"} /\ KindOf[r] \in Legacy
  /\ q.step = "move" /\ there[KindOf[r]].type = "string" => q.raw = Old
RequestInv ==
  /\ request \in [Requests -> Progress]
  /\ \A r \in Requests : Placed(r, request[r]) /\ Migrates(r, request[r], store)

TalkInv == StoreInv /\ RequestInv

LEMMA OldFacts == Old \in Seq(Messages) /\ Len(Old) = 2
BY DEF Old, Messages

LEMMA LatestFacts ==
  ASSUME NEW s \in Seq(Messages)
  PROVE  /\ Latest(s) \in Seq(Messages) /\ Len(Latest(s)) <= Window
         /\ Len(s) >= 1 => Len(Latest(s)) >= 1
         /\ Latest(<<>>) = <<>>
<1> USE ConversationAssumption DEF ConversationAssumption
<1>1. Latest(<<>>) = <<>>
  BY DEF Latest
<1>2. CASE Len(s) <= Window
  BY <1>1, <1>2 DEF Latest
<1>3. CASE ~(Len(s) <= Window)
  <2> DEFINE m == Len(s) - Window + 1
             t == SubSeq(s, m, Len(s))
  <2>1. Len(s) \in Nat /\ m \in 1 .. Len(s) /\ Len(s) - m + 1 = Window
    BY <1>3
  <2>2. \A i \in m .. Len(s) : s[i] \in Messages
    BY <2>1
  <2>3. t \in Seq(Messages) /\ Len(t) = Window
    BY <2>1, <2>2, SubSeqProperties
  <2>4. Latest(s) = t
    BY <1>3 DEF Latest
  <2>5. QED
    BY <1>1, <2>3, <2>4
<1>4. QED
  BY <1>2, <1>3

LEMMA ListFacts ==
  ASSUME NEW k \in Lists, NEW s \in Seq(Messages)
  PROVE  /\ Sound(k, ListOf(Latest(s))) /\ ListOf(Latest(s)).items = Latest(s)
         /\ ListOf(Latest(s)).type # "string"
         /\ Sound(k, Empty) /\ Empty.items = <<>> /\ Empty.type = "none"
<1>1. Latest(s) \in Seq(Messages) /\ Len(Latest(s)) \in 0 .. Window
  BY LatestFacts, ConversationAssumption DEF ConversationAssumption
<1>2. Latest(s) # <<>> => Len(Latest(s)) \in 1 .. Window
  BY <1>1, EmptySeq
<1>3. Empty \in Stored /\ Empty.items = <<>> /\ Empty.type = "none"
  BY EmptySeq DEF Empty, Stored
<1>4. CASE Latest(s) = <<>>
  BY <1>3, <1>4 DEF ListOf, Sound
<1>5. CASE Latest(s) # <<>>
  BY <1>1, <1>2, <1>3, <1>5 DEF ListOf, Sound, Stored
<1>6. QED
  BY <1>4, <1>5

\* Where a request goes on after a command.
LEMMA AfterFacts ==
  ASSUME NEW r \in Requests, RequestInv, request[r].at # "work"
  PROVE  /\ After(r) \in Places /\ AfterFailure(r) \in Places
         /\ request[r].at \in {"load", "user", "assistant"} => KindOf[r] \in Lists
         /\ After(r) \in {"load", "user", "assistant", "work"} => KindOf[r] \in Lists
         /\ AfterFailure(r) \in {"load", "user", "assistant", "work"} => KindOf[r] \in Lists
BY DEF RequestInv, Progress, Places, Placed, After, AfterFailure

\* One request moves on, and nothing becomes a string.
LEMMA MoveOn ==
  ASSUME RequestInv, NEW r \in Requests, NEW q \in Progress, Placed(r, q),
         Migrates(r, q, store'), request' = [request EXCEPT ![r] = q],
         \A k \in Lists : store'[k].type = "string" => store[k].type = "string"
  PROVE  RequestInv'
<1>1. \A x \in Requests : request'[x] = IF x = r THEN q ELSE request[x]
  BY DEF RequestInv
<1>2. ASSUME NEW x \in Requests, x # r
      PROVE  Placed(x, request'[x]) /\ Migrates(x, request'[x], store')
  BY <1>1, <1>2, ConversationAssumption DEF RequestInv, Placed, Migrates, ConversationAssumption
<1>3. QED
  BY <1>1, <1>2 DEF RequestInv

LEMMA GoOn ==
  ASSUME RequestInv, NEW r \in Requests, NEW place \in Places, Go(r, place),
         place \in {"load", "user", "assistant", "work"} => KindOf[r] \in Lists,
         \A k \in Lists : store'[k].type = "string" => store[k].type = "string"
  PROVE  RequestInv'
<1> DEFINE q == [at |-> place, step |-> "type", raw |-> <<>>]
<1>1. q \in Progress /\ Placed(r, q) /\ Migrates(r, q, store')
  BY DEF Progress, Placed, Migrates
<1>2. request' = [request EXCEPT ![r] = q]
  BY DEF Go
<1> HIDE DEF q
<1>3. QED
  BY <1>1, <1>2, MoveOn
LEMMA InitTalkInv == ASSUME NEW requests, InitConversation(requests) PROVE TalkInv
<1> USE ConversationAssumption DEF ConversationAssumption
<1>1. ASSUME NEW k \in Lists
      PROVE  Sound(k, store[k]) /\ due[k] = store[k].items /\ store[k].items \in Seq(Messages)
  <2>1. CASE k \in Legacy
    BY <2>1, OldFacts DEF InitConversation, Sound, Stored
  <2>2. CASE k \notin Legacy
    BY <2>2, EmptySeq DEF InitConversation, Empty, Sound, Stored
  <2>3. QED
    BY <2>1, <2>2
<1>2. StoreInv
  BY <1>1 DEF InitConversation, StoreInv, Sound
<1>3. ASSUME NEW r \in Requests
      PROVE  /\ request[r] \in Progress /\ Placed(r, request[r])
             /\ Migrates(r, request[r], store)
  <2>1. First(r) \in Places /\ (First(r) # "clear_tasks" => KindOf[r] \in Lists)
    BY DEF First, Places, Lists
  <2>2. Fresh(r) \in Progress /\ Placed(r, Fresh(r)) /\ Migrates(r, Fresh(r), store)
    BY <2>1 DEF Fresh, Progress, Placed, Migrates
  <2>3. Gone \in Progress /\ Placed(r, Gone) /\ Migrates(r, Gone, store)
    BY DEF Gone, Progress, Placed, Migrates, Places
  <2>4. request[r] \in {Fresh(r), Gone}
    BY DEF InitConversation
  <2>5. QED
    BY <2>2, <2>3, <2>4
<1>4. RequestInv
  BY <1>3 DEF InitConversation, RequestInv
<1>5. QED
  BY <1>2, <1>4 DEF TalkInv

\* One list changes: what is in Redis and what is due of it.
LEMMA StoreChange ==
  ASSUME StoreInv, NEW k \in Lists, NEW v, NEW d \in Seq(Messages),
         store' = [store EXCEPT ![k] = v], due' = [due EXCEPT ![k] = d],
         Sound(k, v), overrun' \in {overrun, overrun \cup ({k} \cap Legacy)},
         k \notin overrun' => v.items = d
  PROVE  StoreInv'
BY DEF StoreInv, Sound

\* The migration.
LEMMA MigrateStep ==
  ASSUME TalkInv, NEW r \in Requests, Look(r) \/ Fetch(r) \/ Move(r)
  PROVE  TalkInv'
<1> USE DEF TalkInv
<1> DEFINE k == KindOf[r]
<1>1. request[r] \in Progress /\ request \in [Requests -> Progress] /\ Accesses(r)
        /\ k \in Lists /\ request[r].at \in {"load", "user", "assistant"}
        /\ Placed(r, request[r]) /\ Migrates(r, request[r], store)
  BY AfterFacts DEF RequestInv, Look, Fetch, Move, Accesses
<1>2. ASSUME NEW step \in {"type", "get", "move", "act"}, NEW raw \in {<<>>, Old},
             Step(r, step, raw), step \in {"get", "move"} => k \in Legacy,
             step = "move" /\ store'[k].type = "string" => raw = Old,
             \A x \in Lists : store'[x].type = "string" => store[x].type = "string"
      PROVE  RequestInv'
  <2> DEFINE q == [request[r] EXCEPT !.step = step, !.raw = raw]
  <2>1. q \in Progress /\ Placed(r, q) /\ Migrates(r, q, store')
    BY <1>1, <1>2 DEF Progress, Placed, Migrates
  <2>2. request' = [request EXCEPT ![r] = q]
    BY <1>1, <1>2 DEF Step
  <2> HIDE DEF q
  <2>3. QED
    BY <1>2, <2>1, <2>2, MoveOn
<1>3. Go(r, AfterFailure(r))
        /\ (\A x \in Lists : store'[x].type = "string" => store[x].type = "string")
      => RequestInv'
  BY <1>1, AfterFacts, GoOn
<1>4. Sound(k, store[k]) /\ store[k] \in Stored
  BY <1>1 DEF StoreInv
<1>5. CASE Look(r)
  <2>1. RequestInv'
    BY <1>1, <1>2, <1>4, <1>5 DEF Look, Sound
  <2>2. QED
    BY <1>5, <2>1 DEF Look, StoreInv
<1>6. CASE Fetch(r)
  <2>1. k \in Legacy
    BY <1>1, <1>6 DEF Fetch, Migrates
  <2>2. UNCHANGED <<store, due, overrun>>
    BY <1>6 DEF Fetch
  <2>3. CASE store[k].type = "list"
    BY <1>3, <1>6, <2>2, <2>3 DEF Fetch, StoreInv
  <2>4. CASE store[k].type # "list"
    <3>1. store[k].items \in {<<>>, Old} /\ (store[k].type = "string" => store[k].items = Old)
      BY <1>4, <2>4 DEF Sound, Stored
    <3>2. Step(r, "move", store[k].items)
      BY <1>6, <2>4 DEF Fetch
    <3>3. RequestInv'
      BY <1>2, <2>1, <2>2, <3>1, <3>2
    <3>4. QED
      BY <2>2, <3>3 DEF StoreInv
  <2>5. QED
    BY <2>3, <2>4
<1>7. CASE Move(r)
  <2> DEFINE raw == request[r].raw
             v == ListOf(Latest(raw))
  <2>1. raw \in Seq(Messages) /\ k \in Legacy
          /\ (store[k].type = "string" => raw = Old /\ store[k].items = Old)
    BY <1>1, <1>4, <1>7, OldFacts, EmptySeq DEF Move, Progress, Migrates, Sound
  <2>2. Sound(k, v) /\ v.items = Latest(raw) /\ v.type # "string"
    BY <1>1, <2>1, ListFacts
  <2>3. store' = [store EXCEPT ![k] = v] /\ store \in [Lists -> Stored]
    BY <1>7 DEF Move, StoreInv
  <2> HIDE DEF v
  <2>4. StoreInv'
    <3>1. CASE store[k].type = "string"
      <4>1. due' = [due EXCEPT ![k] = Latest(due[k])] /\ overrun' = overrun
        BY <1>7, <3>1 DEF Move
      <4>2. Latest(due[k]) \in Seq(Messages)
        BY <1>1, LatestFacts DEF StoreInv
      <4>3. k \notin overrun' => v.items = Latest(due[k])
        BY <1>1, <2>1, <2>2, <3>1, <4>1 DEF StoreInv
      <4>4. QED
        BY <1>1, <2>2, <2>3, <4>1, <4>2, <4>3, StoreChange
    <3>2. CASE store[k].type # "string"
      <4>1. due' = due /\ overrun' = overrun \cup {k}
        BY <1>7, <3>2 DEF Move
      <4>2. due' = [due EXCEPT ![k] = due[k]] /\ due[k] \in Seq(Messages)
        BY <1>1, <4>1 DEF StoreInv
      <4>3. overrun' = overrun \cup ({k} \cap Legacy) /\ k \in overrun'
        BY <2>1, <4>1
      <4>4. QED
        BY <1>1, <2>2, <2>3, <4>2, <4>3, StoreChange
    <3>3. QED
      BY <3>1, <3>2
  <2>5. \A x \in Lists : store'[x].type = "string" => store[x].type = "string"
    BY <1>1, <2>2, <2>3
  <2>6. Step(r, "act", <<>>) \/ Go(r, AfterFailure(r))
    BY <1>7 DEF Move
  <2>7. QED
    BY <1>2, <1>3, <2>4, <2>5, <2>6
<1>8. QED
  BY <1>5, <1>6, <1>7

LEMMA AppendStep == ASSUME TalkInv, NEW r \in Requests, AppendMessage(r) PROVE TalkInv'
<1> USE DEF TalkInv
<1> DEFINE k == KindOf[r]
           m == Message(r, request[r].at)
           s == Append(store[k].items, m)
           d == Latest(Append(due[k], m))
           v == ListOf(Latest(s))
<1>1. k \in Lists /\ request[r].at \in {"user", "assistant"}
  BY AfterFacts DEF AppendMessage
<1>2. m \in Messages
  BY <1>1 DEF Message, Messages
<1>3. store[k].items \in Seq(Messages) /\ due[k] \in Seq(Messages)
        /\ (k \notin overrun => store[k].items = due[k])
  BY <1>1 DEF StoreInv, Stored
<1>4. s \in Seq(Messages) /\ Append(due[k], m) \in Seq(Messages)
  BY <1>2, <1>3
<1>5. d \in Seq(Messages)
  BY <1>4, LatestFacts
<1>6. Sound(k, v) /\ v.items = Latest(s) /\ v.type # "string"
  BY <1>1, <1>4, ListFacts
<1>7. store' = [store EXCEPT ![k] = v] /\ due' = [due EXCEPT ![k] = d] /\ overrun' = overrun
        /\ store \in [Lists -> Stored]
  BY <1>1 DEF AppendMessage, StoreInv, Pushed
<1>8. k \notin overrun' => v.items = d
  BY <1>3, <1>6, <1>7
<1> HIDE DEF v, d
<1>9. StoreInv'
  BY <1>1, <1>5, <1>6, <1>7, <1>8, StoreChange
<1>10. \A x \in Lists : store'[x].type = "string" => store[x].type = "string"
  BY <1>1, <1>6, <1>7
<1>11. RequestInv'
  BY <1>1, <1>10, AfterFacts, GoOn DEF AppendMessage
<1>12. QED
  BY <1>9, <1>11

LEMMA PassStep ==
  ASSUME TalkInv, NEW r \in Requests, Load(r) \/ Work(r) \/ Broken(r)
  PROVE  TalkInv'
<1> USE DEF TalkInv
<1>1. StoreInv' /\ store' = store
  BY DEF Load, Work, Broken, StoreInv
<1>2. CASE Load(r)
  BY <1>1, <1>2, AfterFacts, GoOn DEF Load
<1>3. CASE Work(r)
  <2>1. KindOf[r] \in Lists
    BY <1>3 DEF Work, RequestInv, Placed
  <2>2. QED
    BY <1>1, <1>3, <2>1, GoOn DEF Work, Places
<1>4. CASE Broken(r)
  BY <1>1, <1>4, AfterFacts, GoOn DEF Broken, Accesses
<1>5. QED
  BY <1>2, <1>3, <1>4

\* A list that is emptied, by a request or by its time to live.
LEMMA EmptyKeeps ==
  ASSUME StoreInv, NEW k \in Lists, UNCHANGED overrun,
         store' = [store EXCEPT ![k] = Empty], due' = [due EXCEPT ![k] = <<>>]
  PROVE  StoreInv' /\ \A x \in Lists : store'[x].type = "string" => store[x].type = "string"
<1>1. <<>> \in Seq(Messages)
  BY EmptySeq
<1>2. Sound(k, Empty) /\ Empty.items = <<>> /\ Empty.type = "none"
  BY <1>1, ListFacts
<1>3. StoreInv'
  BY <1>1, <1>2, StoreChange
<1>4. QED
  BY <1>2, <1>3 DEF StoreInv

LEMMA ClearStep == ASSUME TalkInv, NEW r \in Requests, Clear(r) PROVE TalkInv'
<1> USE DEF TalkInv
<1> DEFINE k == IF request[r].at = "clear_tasks" THEN "tasks" ELSE "crm"
<1>1. k \in Lists /\ UNCHANGED overrun
  BY DEF Lists, Clear
<1>2. CASE store' = [store EXCEPT ![k] = Empty] /\ due' = [due EXCEPT ![k] = <<>>]
  <2> HIDE DEF k
  <2>1. StoreInv' /\ \A x \in Lists : store'[x].type = "string" => store[x].type = "string"
    BY <1>1, <1>2, EmptyKeeps
  <2>2. QED
    BY <2>1, GoOn DEF Clear, Places
<1>3. CASE UNCHANGED <<store, due>>
  <2>1. StoreInv'
    BY <1>1, <1>3 DEF StoreInv
  <2>2. QED
    BY <1>3, <2>1, GoOn DEF Clear, Places
<1>4. QED
  BY <1>2, <1>3 DEF Clear

LEMMA ConverseStep == ASSUME TalkInv, NEW r \in Requests, Converse(r) PROVE TalkInv'
BY MigrateStep, AppendStep, PassStep, ClearStep DEF Converse

LEMMA ForgetStep == ASSUME TalkInv, NEW k \in Lists, Expire(k) PROVE TalkInv'
<1>1. StoreInv' /\ \A x \in Lists : store'[x].type = "string" => store[x].type = "string"
  BY EmptyKeeps DEF TalkInv, Expire
<1>2. request' = request
  BY DEF Expire
<1>3. RequestInv'
  BY <1>1, <1>2, ConversationAssumption
     DEF TalkInv, RequestInv, Migrates, ConversationAssumption
<1>4. QED
  BY <1>1, <1>3 DEF TalkInv

LEMMA InterruptStep == ASSUME TalkInv, Interrupt PROVE TalkInv'
<1>1. Gone \in Progress /\ \A r \in Requests : Placed(r, Gone) /\ Migrates(r, Gone, store)
  BY DEF Gone, Progress, Placed, Migrates, Places
<1>2. \A r \in Requests : request'[r] \in {request[r], Gone}
  BY DEF Interrupt
<1>3. request' \in [Requests -> Progress] /\ UNCHANGED <<store, due, overrun>>
  BY <1>1 DEF Interrupt, TalkInv, RequestInv
<1>4. QED
  BY <1>1, <1>2, <1>3 DEF TalkInv, StoreInv, RequestInv

-----------------------------------------------------------------------------
(* The service.                                                            *)

Inv == RuntimeInv /\ TalkInv

LEMMA SameRuntime == ASSUME RuntimeInv, UNCHANGED runtime PROVE RuntimeInv'
BY DEF runtime, RuntimeInv, TypeOKRuntime, OpenInv, Alive, RolesInv

LEMMA SameTalk == ASSUME TalkInv, UNCHANGED conversation PROVE TalkInv'
BY DEF conversation, TalkInv, StoreInv, RequestInv

\* Every step keeps the invariant.
LEMMA InvStep == Inv /\ [Next]_vars => Inv'
<1> SUFFICES ASSUME Inv, [Next]_vars
             PROVE  Inv'
  OBVIOUS
<1> USE DEF Inv
<1>1. CASE Shutdown
  BY <1>1, EndingStep, SameTalk DEF Shutdown
<1>2. CASE Killed
  BY <1>2, EndingStep, InterruptStep DEF Killed
<1>3. CASE Lifecycle
  BY <1>3, StartStep, CloseStep, ServingStep, UseStep, SameTalk DEF Lifecycle
<1>4. CASE Talk
  BY <1>4, ConverseStep, SameRuntime DEF Talk
<1>5. CASE Forget
  BY <1>5, ForgetStep, SameRuntime DEF Forget
<1>6. CASE UNCHANGED vars
  BY <1>6, SameRuntime, SameTalk DEF vars
<1>7. QED
  BY <1>1, <1>2, <1>3, <1>4, <1>5, <1>6 DEF Next

LEMMA Invariance == Spec => []Inv
<1>1. Init => Inv
  BY InitRuntimeInv, InitTalkInv DEF Init, Inv
<1>2. QED
  BY <1>1, InvStep, PTL DEF Spec

-----------------------------------------------------------------------------
(* The theorems.                                                           *)

\* The variables keep their types.
THEOREM ServiceTypes == Spec => []TypeOK
<1>1. Inv => TypeOK
  BY ConversationAssumption
     DEF Inv, RuntimeInv, TalkInv, StoreInv, RequestInv, Stored, Progress, TypeOK,
         ConversationAssumption
<1>2. QED
  BY <1>1, Invariance, PTL

\* AppRuntime.close closes all that the process refers to, whatever start had come to
\* (_shutdown_resources), but for what raises when it is closed and, of a pool, those
\* after it (AsyncPGClient.close); in production no pool to read or write is created twice.
THEOREM ClosedInOrder == Spec => []KnownIsClosed
<1>1. Inv => KnownIsClosed
  BY RuntimeAssumption
     DEF Inv, RuntimeInv, OpenInv, RolesInv, TypeOKRuntime, Alive, KnownIsClosed,
         Roles, RuntimeAssumption
<1>2. QED
  BY <1>1, Invariance, PTL

\* The appends of _APPEND_LUA are not lost, but to a late migration.
THEOREM NothingForgotten == Spec => []AppendsSurvive
<1>1. Inv => AppendsSurvive
  BY DEF Inv, TalkInv, StoreInv, Sound, AppendsSurvive
<1>2. QED
  BY <1>1, Invariance, PTL

-----------------------------------------------------------------------------
(* How far the requests and the close are.                                 *)

\* How far a request is: the place, in the order its kind has, and the command
\* of it.
Rank(r, place) ==
  CASE place = "done"        -> 4
    [] place = "assistant"   -> 3
    [] place = "user"        -> IF KindOf[r] = "tasks" THEN 2 ELSE 0
    [] place = "work"        -> IF KindOf[r] = "tasks" THEN 1 ELSE 2
    [] place = "load"        -> IF KindOf[r] = "tasks" THEN 0 ELSE 1
    [] place = "clear_crm"   -> 1
    [] OTHER                 -> 0
Command(step) == CASE step = "get" -> 1 [] step = "move" -> 2 [] step = "act" -> 3 [] OTHER -> 0
Far(r, q) == 4 * Rank(r, q.at) + Command(q.step)

\* A request only goes on, whatever comes between its commands, and every step
\* of its own brings it on.
RequestsAdvance ==
  [][\A r \in Requests :
       /\ Far(r, request'[r]) \in Far(r, request[r]) .. 16
       /\ Converse(r) => Far(r, request'[r]) > Far(r, request[r])]_vars

\* What a request is about to do fits what is in Redis, and it can do it.
Fits(r) == request[r].step = "act" => store[KindOf[r]].type # "string"
CommandsFit ==
  \A r \in Requests : request[r].at # "done" =>
    /\ Fits(r)
    /\ request[r].at \notin {"clear_tasks", "clear_crm"} => KindOf[r] \in Lists
    /\ request[r].step # "type" => Accesses(r)

\* What a close has passed stays closed, also when the close was cut short: nobody
\* who could open it again is left.
NothingReopens ==
  phase \in {"closing", "cut"} =>
    \A n \in 1 .. stage - 1 : Stages[n] \in open => Stages[n] \in botched

\* A request is in the middle of a command only where it accesses a list, and
\* no list it has looked at is a string.
CommandInv ==
  \A r \in Requests : request[r].step # "type" =>
    Accesses(r) /\ (request[r].step = "act" => store[KindOf[r]].type # "string")

LEMMA KindFacts ==
  ASSUME NEW r \in Requests, RequestInv
  PROVE  /\ request[r] \in Progress
         /\ Accesses(r) => KindOf[r] \in Lists
         /\ request[r].at = "work" => KindOf[r] \in Lists
BY DEF RequestInv, Placed, Accesses

\* No command makes a string of a list.
LEMMA NoNewStrings ==
  ASSUME TalkInv, NEW r \in Requests, Converse(r)
  PROVE  \A k \in Lists : store'[k].type = "string" => store[k].type = "string"
<1>1. store \in [Lists -> Stored]
  BY DEF TalkInv, StoreInv
<1>2. \A s : ListOf(s).type # "string"
  BY DEF ListOf, Empty
<1>3. Empty.type # "string"
  BY DEF Empty
<1>4. CASE Move(r) \/ AppendMessage(r)
  <2>1. \E s : store' = [store EXCEPT ![KindOf[r]] = ListOf(s)]
    BY <1>1, <1>4 DEF Move, AppendMessage
  <2>2. QED
    BY <1>1, <1>2, <2>1
<1>5. CASE Clear(r)
  <2>1. \/ store' = store
        \/ \E k \in Lists : store' = [store EXCEPT ![k] = Empty]
    BY <1>5 DEF Clear, Lists
  <2>2. QED
    BY <1>1, <1>3, <2>1
<1>6. CASE Look(r) \/ Fetch(r) \/ Load(r) \/ Work(r) \/ Broken(r)
  BY <1>6 DEF Look, Fetch, Load, Work, Broken
<1>7. QED
  BY <1>4, <1>5, <1>6 DEF Converse

\* A request goes on to a place further on.
GoesTo(r) == \E place \in Places : Go(r, place) /\ Rank(r, place) > Rank(r, request[r].at)
\* Or to the next command of the place.
StepsTo(r) ==
  /\ Accesses(r)
  /\ \E step \in {"get", "move", "act"} :
       /\ \E raw : Step(r, step, raw)
       /\ Command(step) > Command(request[r].step)
       /\ step = "act" => store'[KindOf[r]].type # "string"

LEMMA RankFacts ==
  ASSUME NEW r \in Requests, RequestInv
  PROVE  /\ \A place : Rank(r, place) \in 0 .. 4
         /\ Accesses(r) \/ request[r].at = "work"
              => /\ AfterFailure(r) \in Places
                 /\ Rank(r, AfterFailure(r)) > Rank(r, request[r].at)
         /\ Accesses(r) => After(r) \in Places /\ Rank(r, After(r)) > Rank(r, request[r].at)
<1>1. \A place : Rank(r, place) \in 0 .. 4
  BY DEF Rank
<1>2. Accesses(r) \/ request[r].at = "work" => KindOf[r] \in {"tasks", "crm"}
  BY KindFacts DEF Lists
<1>3. ASSUME Accesses(r)
      PROVE  /\ After(r) \in Places /\ Rank(r, After(r)) > Rank(r, request[r].at)
             /\ AfterFailure(r) \in Places /\ Rank(r, AfterFailure(r)) > Rank(r, request[r].at)
  <2>1. KindOf[r] \in {"tasks", "crm"}
    BY <1>2, <1>3
  <2>2. CASE request[r].at = "load"
    <3>1. After(r) = "work" /\ AfterFailure(r) = "work"
      BY <2>2 DEF After, AfterFailure
    <3>2. QED
      BY <2>1, <2>2, <3>1 DEF Places, Rank
  <2>3. CASE request[r].at = "user"
    <3>1. CASE KindOf[r] = "tasks"
      <4>1. After(r) = "assistant" /\ AfterFailure(r) = "done"
        BY <2>3, <3>1 DEF After, AfterFailure
      <4>2. QED
        BY <2>3, <3>1, <4>1 DEF Places, Rank
    <3>2. CASE KindOf[r] = "crm"
      <4>1. After(r) = "load"
        BY <2>3, <3>2 DEF After
      <4>2. AfterFailure(r) = After(r)
        BY <3>2 DEF AfterFailure
      <4>3. QED
        BY <2>3, <3>2, <4>1, <4>2 DEF Places, Rank
    <3>3. QED
      BY <2>1, <3>1, <3>2
  <2>4. CASE request[r].at = "assistant"
    <3>1. After(r) = "done" /\ AfterFailure(r) = "done"
      BY <2>4 DEF After, AfterFailure
    <3>2. QED
      BY <2>1, <2>4, <3>1 DEF Places, Rank
  <2>5. QED
    BY <1>3, <2>2, <2>3, <2>4 DEF Accesses
<1>4. ASSUME request[r].at = "work"
      PROVE  AfterFailure(r) \in Places /\ Rank(r, AfterFailure(r)) > Rank(r, request[r].at)
  BY <1>2, <1>4 DEF After, AfterFailure, Places, Rank
<1>5. QED
  BY <1>1, <1>3, <1>4

\* Every step of a request is one or the other.
LEMMA StepsOn ==
  ASSUME TalkInv, NEW r \in Requests, Converse(r)
  PROVE  GoesTo(r) \/ StepsTo(r)
<1>0. store \in [Lists -> Stored] /\ RequestInv
  BY DEF TalkInv, StoreInv
<1>1. CASE Look(r)
  <2>1. PICK step \in {"get", "act"} :
          /\ Step(r, step, <<>>) /\ step = "act" => store'[KindOf[r]].type # "string"
    BY <1>1 DEF Look
  <2>2. QED
    BY <1>1, <2>1 DEF Look, StepsTo, Command
<1>2. CASE Fetch(r)
  <2>1. CASE store[KindOf[r]].type = "list"
    BY <1>0, <1>2, <2>1, RankFacts DEF Fetch, GoesTo
  <2>2. CASE store[KindOf[r]].type # "list"
    BY <1>2, <2>2 DEF Fetch, StepsTo, Command
  <2>3. QED
    BY <2>1, <2>2
<1>3. CASE Move(r)
  <2>1. KindOf[r] \in Lists
    BY <1>0, <1>3, KindFacts DEF Move
  <2>2. store'[KindOf[r]].type # "string"
    BY <1>0, <1>3, <2>1 DEF Move, ListOf, Empty
  <2>3. CASE Go(r, AfterFailure(r))
    BY <1>0, <1>3, <2>3, RankFacts DEF Move, GoesTo
  <2>4. CASE Step(r, "act", <<>>)
    BY <1>3, <2>2, <2>4 DEF Move, StepsTo, Command
  <2>5. QED
    BY <1>3, <2>3, <2>4 DEF Move
<1>4. CASE Load(r) \/ AppendMessage(r) \/ Broken(r)
  BY <1>0, <1>4, RankFacts DEF Load, AppendMessage, Broken, Accesses, GoesTo
<1>5. CASE Work(r)
  <2>1. KindOf[r] \in {"tasks", "crm"} /\ request[r].at = "work"
    BY <1>0, <1>5, KindFacts DEF Work, Lists
  <2>2. PICK place \in {IF KindOf[r] = "tasks" THEN "user" ELSE "assistant", "done"} : Go(r, place)
    BY <1>5 DEF Work
  <2>3. place \in Places /\ Rank(r, place) > Rank(r, "work")
    BY <2>1, <2>2 DEF Places, Rank
  <2>4. QED
    BY <2>1, <2>2, <2>3 DEF GoesTo
<1>6. CASE Clear(r)
  BY <1>6 DEF Clear, GoesTo, Places, Rank
<1>7. QED
  BY <1>1, <1>2, <1>3, <1>4, <1>5, <1>6 DEF Converse

\* What a step of a request makes of it, and of the others.
LEMMA FarFacts ==
  ASSUME TalkInv, CommandInv, NEW r \in Requests, Converse(r)
  PROVE  /\ Far(r, request'[r]) > Far(r, request[r])
         /\ request'[r].step # "type" => request'[r].at \in {"load", "user", "assistant"}
                /\ (request'[r].step = "act" => store'[KindOf[r]].type # "string")
         /\ \A x \in Requests \ {r} : request'[x] = request[x]
<1>1. request \in [Requests -> Progress] /\ RequestInv
  BY DEF TalkInv, RequestInv
<1>2. CASE GoesTo(r)
  <2>1. PICK place \in Places : Go(r, place) /\ Rank(r, place) > Rank(r, request[r].at)
    BY <1>2 DEF GoesTo
  <2>2. /\ request'[r] = [at |-> place, step |-> "type", raw |-> <<>>]
        /\ \A x \in Requests \ {r} : request'[x] = request[x]
    BY <1>1, <2>1 DEF Go
  <2>3. Command("type") = 0 /\ Command(request[r].step) \in 0 .. 3
    BY DEF Command
  <2>4. Rank(r, place) \in 0 .. 4 /\ Rank(r, request[r].at) \in 0 .. 4
    BY <1>1, RankFacts
  <2>5. Far(r, request'[r]) = 4 * Rank(r, place) + Command("type")
    BY <2>2 DEF Far
  <2>6. Far(r, request'[r]) > Far(r, request[r])
    BY <2>1, <2>3, <2>4, <2>5 DEF Far
  <2>7. QED
    BY <2>2, <2>6
<1>3. CASE StepsTo(r)
  <2>1. PICK step \in {"get", "move", "act"} :
          /\ \E raw : Step(r, step, raw) /\ Command(step) > Command(request[r].step)
          /\ step = "act" => store'[KindOf[r]].type # "string"
    BY <1>3 DEF StepsTo
  <2>2. /\ request'[r].at = request[r].at /\ request'[r].step = step
        /\ \A x \in Requests \ {r} : request'[x] = request[x]
    BY <1>1, <2>1 DEF Step, Progress
  <2>3. Command(step) \in 0 .. 3 /\ Command(request[r].step) \in 0 .. 3
    BY DEF Command
  <2>4. Rank(r, request[r].at) \in 0 .. 4
    BY <1>1, RankFacts
  <2>5. Far(r, request'[r]) = 4 * Rank(r, request[r].at) + Command(step)
    BY <2>2 DEF Far
  <2>6. Far(r, request'[r]) > Far(r, request[r])
    BY <2>1, <2>3, <2>4, <2>5 DEF Far
  <2>7. QED
    BY <1>3, <2>1, <2>2, <2>6 DEF StepsTo, Accesses
<1>4. QED
  BY <1>2, <1>3, StepsOn

FarBounded == \A r \in Requests : Far(r, request[r]) \in 0 .. 16
LEMMA FarBound == TalkInv /\ CommandInv => FarBounded
<1> SUFFICES ASSUME TalkInv, CommandInv, NEW r \in Requests
             PROVE  Far(r, request[r]) \in 0 .. 16
  BY DEF FarBounded
<1>1. RequestInv
  BY DEF TalkInv
<1>2. Rank(r, request[r].at) \in 0 .. 4 /\ Command(request[r].step) \in 0 .. 3
  BY <1>1, RankFacts DEF Command
<1>3. CASE request[r].step = "type"
  BY <1>2, <1>3 DEF Far, Command
<1>4. CASE request[r].step # "type"
  <2>1. Rank(r, request[r].at) \in 0 .. 3
    BY <1>4 DEF CommandInv, Accesses, Rank
  <2>2. QED
    BY <1>2, <2>1 DEF Far
<1>5. QED
  BY <1>3, <1>4

\* What the other steps make of a request: nothing, or its end.
LEMMA OtherSteps ==
  ASSUME Inv, [Next]_vars, ~Talk, NEW r \in Requests
  PROVE  /\ request'[r] \in {request[r], Gone}
         /\ \A k \in Lists : store'[k].type = "string" => store[k].type = "string"
<1>1. store \in [Lists -> Stored] /\ request \in [Requests -> Progress]
  BY DEF Inv, TalkInv, StoreInv, RequestInv
<1>2. CASE Forget
  BY <1>1, <1>2 DEF Forget, Expire, Empty
<1>3. CASE Killed
  BY <1>1, <1>3 DEF Killed, Interrupt
<1>4. CASE Shutdown \/ Lifecycle \/ UNCHANGED vars
  BY <1>4 DEF Shutdown, Lifecycle, conversation, vars
<1>5. QED
  BY <1>2, <1>3, <1>4 DEF Next

LEMMA CommandStep == Inv /\ CommandInv /\ [Next]_vars => CommandInv'
<1> SUFFICES ASSUME Inv, CommandInv, [Next]_vars, NEW x \in Requests,
                    request'[x].step # "type"
             PROVE  /\ request'[x].at \in {"load", "user", "assistant"}
                    /\ request'[x].step = "act" => store'[KindOf[x]].type # "string"
  BY DEF CommandInv, Accesses
<1>1. RequestInv
  BY DEF Inv, TalkInv
<1>2. ASSUME request'[x] = request[x],
             \A k \in Lists : store'[k].type = "string" => store[k].type = "string"
      PROVE  /\ request'[x].at \in {"load", "user", "assistant"}
             /\ request'[x].step = "act" => store'[KindOf[x]].type # "string"
  BY <1>1, <1>2, KindFacts DEF CommandInv, Accesses
<1>3. CASE Talk
  <2>1. PICK r \in Requests : Converse(r)
    BY <1>3 DEF Talk
  <2>2. CASE r = x
    BY <2>1, <2>2, FarFacts DEF Inv
  <2>3. CASE r # x
    BY <1>2, <2>1, <2>3, FarFacts, NoNewStrings DEF Inv
  <2>4. QED
    BY <2>2, <2>3
<1>4. CASE ~Talk
  BY <1>2, <1>4, OtherSteps DEF Gone
<1>5. QED
  BY <1>3, <1>4

LEMMA CommandsHold == Spec => []CommandInv
<1>1. Init => CommandInv
  BY DEF Init, InitConversation, CommandInv, Fresh, Gone
<1>2. QED
  BY <1>1, Invariance, CommandStep, PTL DEF Spec

\* A request sends at most sixteen commands to Redis (short_memory.py), and comes to
\* its end in as many steps of its own, however others and a kill come between.
THEOREM ConversationsAdvance == Spec => RequestsAdvance
<1> DEFINE Advance == \A r \in Requests :
             /\ Far(r, request'[r]) \in Far(r, request[r]) .. 16
             /\ Converse(r) => Far(r, request'[r]) > Far(r, request[r])
<1>0. Inv /\ CommandInv => FarBounded
  BY FarBound DEF Inv
<1>1. Inv /\ CommandInv /\ FarBounded /\ FarBounded' /\ [Next]_vars => Advance
  <2> SUFFICES ASSUME Inv, CommandInv, FarBounded, FarBounded', [Next]_vars,
                      NEW r \in Requests
               PROVE  /\ Far(r, request'[r]) \in Far(r, request[r]) .. 16
                      /\ Converse(r) => Far(r, request'[r]) > Far(r, request[r])
    OBVIOUS
  <2>1. Far(r, request[r]) \in 0 .. 16 /\ Far(r, request'[r]) \in 0 .. 16
    BY DEF FarBounded
  <2>2. Far(r, request'[r]) \in 0 .. 16
    BY <2>1
  <2>3. ASSUME Converse(r)
        PROVE  Far(r, request'[r]) > Far(r, request[r])
    BY <2>3, FarFacts DEF Inv
  <2>4. Far(r, request'[r]) >= Far(r, request[r])
    <3>1. CASE Talk
      <4>1. PICK x \in Requests : Converse(x)
        BY <3>1 DEF Talk
      <4>2. CASE x = r
        BY <2>1, <2>2, <2>3, <4>1, <4>2
      <4>3. CASE x # r
        BY <2>1, <4>1, <4>3, FarFacts DEF Inv
      <4>4. QED
        BY <4>2, <4>3
    <3>2. CASE ~Talk
      <4>1. Far(r, Gone) = 16
        BY DEF Far, Gone, Rank, Command
      <4>2. QED
        BY <2>1, <3>2, <4>1, OtherSteps
    <3>3. QED
      BY <3>1, <3>2
  <2>5. QED
    BY <2>1, <2>2, <2>3, <2>4
<1>2. Spec => [][Advance]_vars
  BY Invariance, CommandsHold, <1>0, <1>1, PTL DEF Spec
<1>3. QED
  BY <1>2 DEF RequestsAdvance

\* A request never appends to or reads as a list what is still a string
\* (_migrate_legacy_if_needed), whatever others have done since it looked.
THEOREM CommandsNeverClash == Spec => []CommandsFit
<1>1. Inv /\ CommandInv => CommandsFit
  <2> SUFFICES ASSUME Inv, CommandInv, NEW r \in Requests, request[r].at # "done"
               PROVE  /\ Fits(r)
                      /\ request[r].at \notin {"clear_tasks", "clear_crm"} => KindOf[r] \in Lists
                      /\ request[r].step # "type" => Accesses(r)
    BY DEF CommandsFit
  <2>1. request[r].at \in Places
    BY DEF Inv, TalkInv, RequestInv, Progress
  <2>2. QED
    BY <2>1, KindFacts DEF Inv, TalkInv, CommandInv, Fits, Accesses, Places
<1>2. QED
  BY <1>1, Invariance, CommandsHold, PTL

-----------------------------------------------------------------------------
(* The close.                                                              *)

\* Whoever creates a pool is of an owner that the close has not yet come to.
LEMMA PoolsAreAhead ==
  ASSUME RuntimeInv, NothingReopens, phase = "cut", NEW u \in Users, opener[u] \in Roles
  PROVE  stage <= 3
<1>1. OwnerOf[u] \in {"agents", "tasks", "bus"} /\ OwnerOf[u] \in open
  BY RuntimeAssumption DEF RuntimeAssumption, RuntimeInv, OpenInv, Alive
<1>2. OwnerOf[u] \notin botched
  BY <1>1 DEF RuntimeInv, TypeOKRuntime, Roles
<1>3. OwnerOf[u] \in {Stages[1], Stages[2], Stages[3]}
  BY <1>1, StageFacts
<1>4. stage \in Nat
  BY StageFacts DEF RuntimeInv, TypeOKRuntime
<1>5. QED
  BY <1>1, <1>2, <1>3, <1>4 DEF NothingReopens

LEMMA ReopenStep == Inv /\ NothingReopens /\ [Next]_vars => NothingReopens'
<1> SUFFICES ASSUME Inv, NothingReopens, [Next]_vars, phase' \in {"closing", "cut"}
             PROVE  NothingReopens'
  BY DEF NothingReopens
<1>0. RuntimeInv /\ RuntimeInv'
  BY InvStep DEF Inv
<1>1. CASE phase' = "closing"
  BY <1>0, <1>1 DEF RuntimeInv, OpenInv, NothingReopens
<1>2. CASE phase' = "cut" /\ phase = "closing"
  <2>1. UNCHANGED <<stage, open, botched>>
    BY <1>2 DEF Next, Shutdown, Killed, Lifecycle, Talk, Forget, runtime, vars, BeginClose,
         Fail, Exit, Start, StartUp, FirstPhase, CheckRole, RoleRefused, LoadCatalog, Serve,
         ServeFails, StartCancelled, Close, CloseNext, CloseFails, Closed, CutShort, Die,
         Use, Missing, Created, NotCreated, OpenClient
  <2>2. QED
    BY <1>2, <2>1 DEF NothingReopens
<1>3. CASE phase' = "cut" /\ phase # "closing"
  <2>1. phase = "cut" /\ UNCHANGED <<stage, botched>>
          /\ \/ open' = open
             \/ \E u \in Users : opener[u] \in Roles /\ open' = open \cup {opener[u]}
    BY <1>3 DEF Next, Shutdown, Killed, Lifecycle, Talk, Forget, runtime, vars, BeginClose,
         Fail, Exit, Start, StartUp, FirstPhase, CheckRole, RoleRefused, LoadCatalog, Serve,
         ServeFails, StartCancelled, Starting, Close, CloseNext, CloseFails, Closed, CutShort,
         Die, Use, Missing, Created, NotCreated, OpenClient
  <2>2. CASE open' = open
    BY <2>1, <2>2 DEF NothingReopens
  <2>3. ASSUME NEW u \in Users, opener[u] \in Roles, open' = open \cup {opener[u]}
        PROVE  NothingReopens'
    <3>1. stage <= 3 /\ stage \in Nat
      BY <1>0, <2>1, <2>3, PoolsAreAhead, StageFacts DEF RuntimeInv, TypeOKRuntime
    <3>2. \A n \in 1 .. stage - 1 : n \in {1, 2} /\ Stages[n] \notin Roles
      BY <3>1, StageFacts DEF Roles
    <3>3. QED
      BY <2>1, <2>3, <3>2 DEF NothingReopens
  <2>4. QED
    BY <2>1, <2>2, <2>3
<1>4. QED
  BY <1>1, <1>2, <1>3

\* What AppRuntime.close has closed nobody opens again, also not after
\* SHUTDOWN_TIMEOUT_SECONDS has cut the close short.
THEOREM ClosedStaysClosed == Spec => []NothingReopens
<1>1. Init => NothingReopens
  BY DEF Init, InitRuntime, NothingReopens
<1>2. QED
  BY <1>1, Invariance, ReopenStep, PTL DEF Spec
=============================================================================
