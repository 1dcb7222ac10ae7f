--------------------------- MODULE MessagingProofs ---------------------------
(***************************************************************************)
(* Proofs about Messaging: its types, its registries, its shutdown, and    *)
(* that it implements RequestPromise, for any requests, agents and bounds. *)
(*                                                                         *)
(* A queue enters the argument only through the set of the requests whose  *)
(* task message waits in it, each of them once.                            *)
(***************************************************************************)
EXTENDS Messaging, FiniteSetTheorems, TLAPS

\* The requests whose task message is in queue q.
Waiting(q) == {r \in Requests : \E i \in DOMAIN q : q[i] = Task(r)}

\* No task message is in q twice.
Single(q) ==
  \A i, j \in DOMAIN q : q[i] = q[j] /\ q[i].kind = "task" => i = j

\* There are no replies in q.
OnlyTasks(q) == \A i \in DOMAIN q : q[i].kind = "task"

-----------------------------------------------------------------------------
(* Queues.                                                                 *)

\* Task(r) and Reply(r) are messages, and tell their request.
LEMMA MessageFacts ==
  ASSUME NEW r \in Requests
  PROVE  /\ Task(r) \in Messages /\ Task(r).kind = "task" /\ Task(r).req = r
         /\ Reply(r) \in Messages /\ Reply(r).kind = "reply"
BY DEF Messages, Task, Reply

\* Two requests have two task messages, and a message of kind task is one.
LEMMA TaskFacts ==
  ASSUME NEW m \in Messages
  PROVE  /\ m.req \in Requests
         /\ m.kind = "task" => m = Task(m.req)
         /\ m.kind = "task" \/ m.kind = "reply"
         /\ \A r \in Requests : m = Task(r) => m.kind = "task" /\ m.req = r
BY DEF Messages, Task

\* What a message put into a queue changes.
LEMMA AppendFacts ==
  ASSUME NEW q \in Seq(Messages), NEW m \in Messages
  PROVE  /\ Append(q, m) \in Seq(Messages)
         /\ Len(Append(q, m)) = Len(q) + 1
         /\ DOMAIN q \subseteq DOMAIN Append(q, m)
         /\ Len(q) + 1 \in DOMAIN Append(q, m)
         /\ Append(q, m)[Len(q) + 1] = m
         /\ \A i \in DOMAIN q : Append(q, m)[i] = q[i]
         /\ \A i \in DOMAIN Append(q, m) : i \in DOMAIN q \/ i = Len(q) + 1
         /\ \A i \in DOMAIN q : q[i] \in Messages
OBVIOUS

\* A task message that was not in the queue is in it once.
LEMMA PutTask ==
  ASSUME NEW q \in Seq(Messages), NEW r \in Requests,
         Single(q), r \notin Waiting(q)
  PROVE  /\ Single(Append(q, Task(r)))
         /\ Waiting(Append(q, Task(r))) = Waiting(q) \cup {r}
         /\ OnlyTasks(q) => OnlyTasks(Append(q, Task(r)))
<1> DEFINE p == Append(q, Task(r))
<1>1. /\ Task(r).kind = "task"
      /\ DOMAIN q \subseteq DOMAIN p
      /\ Len(q) + 1 \in DOMAIN p
      /\ p[Len(q) + 1] = Task(r)
      /\ \A i \in DOMAIN q : p[i] = q[i]
      /\ \A i \in DOMAIN p : i \in DOMAIN q \/ i = Len(q) + 1
      /\ \A s \in Requests : Task(s) = Task(r) => s = r
  BY MessageFacts, AppendFacts
<1>2. \A i \in DOMAIN q : q[i] # Task(r)
  BY DEF Waiting
<1> HIDE DEF p
<1>3. Single(p)
  BY <1>1, <1>2 DEF Single
<1>4. Waiting(p) = Waiting(q) \cup {r}
  BY <1>1 DEF Waiting
<1>5. OnlyTasks(q) => OnlyTasks(p)
  BY <1>1 DEF OnlyTasks
<1> QED BY <1>3, <1>4, <1>5 DEF p

\* A reply changes nothing about the tasks in the queue.
LEMMA PutReply ==
  ASSUME NEW q \in Seq(Messages), NEW r \in Requests, Single(q)
  PROVE  /\ Single(Append(q, Reply(r)))
         /\ Waiting(Append(q, Reply(r))) = Waiting(q)
<1> DEFINE p == Append(q, Reply(r))
<1>1. /\ Reply(r).kind # "task"
      /\ DOMAIN q \subseteq DOMAIN p
      /\ p[Len(q) + 1] = Reply(r)
      /\ \A i \in DOMAIN q : p[i] = q[i]
      /\ \A i \in DOMAIN p : i \in DOMAIN q \/ i = Len(q) + 1
      /\ \A s \in Requests : Task(s) # Reply(r)
  BY MessageFacts, AppendFacts
<1> HIDE DEF p
<1>2. Single(p)
  BY <1>1 DEF Single
<1>3. Waiting(p) = Waiting(q)
  BY <1>1 DEF Waiting
<1> QED BY <1>2, <1>3 DEF p

\* Taking the head of a queue: a task leaves the set of those that wait, a
\* reply leaves it as it is.
LEMMA TakeHead ==
  ASSUME NEW q \in Seq(Messages), q # <<>>, Single(q)
  PROVE  /\ Tail(q) \in Seq(Messages)
         /\ Len(Tail(q)) <= Len(q)
         /\ Head(q) \in Messages
         /\ Single(Tail(q))
         /\ OnlyTasks(q) => OnlyTasks(Tail(q)) /\ Head(q).kind = "task"
         /\ Head(q).kind = "task" =>
              /\ Head(q).req \in Waiting(q)
              /\ Waiting(Tail(q)) = Waiting(q) \ {Head(q).req}
         /\ Head(q).kind # "task" => Waiting(Tail(q)) = Waiting(q)
<1> DEFINE t == Tail(q)
           h == Head(q)
<1>1. /\ t \in Seq(Messages)
      /\ Len(t) <= Len(q)
      /\ h \in Messages
      /\ 1 \in DOMAIN q /\ q[1] = h
      /\ \A i \in DOMAIN t : i + 1 \in DOMAIN q /\ t[i] = q[i + 1] /\ i + 1 # 1
      /\ \A i \in DOMAIN q : i = 1 \/ (i - 1 \in DOMAIN t /\ t[i - 1] = q[i])
      /\ \A i, j \in DOMAIN t : i + 1 = j + 1 => i = j
      /\ \A i \in DOMAIN q : q[i] \in Messages
  OBVIOUS
<1>2. /\ h.req \in Requests
      /\ h.kind = "task" => h = Task(h.req)
      /\ \A r \in Requests : h = Task(r) => h.kind = "task" /\ h.req = r
      /\ \A r \in Requests : Task(r).kind = "task" /\ Task(r).req = r
  BY <1>1, TaskFacts, MessageFacts
<1> HIDE DEF t, h
<1>3. Single(t)
  <2> SUFFICES ASSUME NEW i \in DOMAIN t, NEW j \in DOMAIN t,
                      t[i] = t[j], t[i].kind = "task"
               PROVE  i = j
    BY DEF Single
  <2>1. i + 1 \in DOMAIN q /\ j + 1 \in DOMAIN q
    BY <1>1
  <2>2. q[i + 1] = q[j + 1] /\ q[i + 1].kind = "task"
    BY <1>1
  <2>3. i + 1 = j + 1
    BY <2>1, <2>2 DEF Single
  <2> QED BY <1>1, <2>3
<1>4. OnlyTasks(q) => OnlyTasks(t) /\ h.kind = "task"
  BY <1>1 DEF OnlyTasks
<1>5. ASSUME h.kind = "task" PROVE h.req \in Waiting(q)
  BY <1>1, <1>2, <1>5 DEF Waiting
<1>6. Waiting(t) \subseteq Waiting(q)
  BY <1>1 DEF Waiting
<1>7. ASSUME NEW r \in Waiting(q), h # Task(r) PROVE r \in Waiting(t)
  BY <1>1, <1>7 DEF Waiting
<1>8. ASSUME h.kind = "task" PROVE h.req \notin Waiting(t)
  <2>1. \A i \in DOMAIN t : t[i] # h
    BY <1>1, <1>8 DEF Single
  <2> QED BY <2>1, <1>2, <1>8 DEF Waiting
<1>9. \A r \in Waiting(q) : r \in Requests
  BY DEF Waiting
<1>10. h.kind = "task" => Waiting(t) = Waiting(q) \ {h.req}
  BY <1>2, <1>6, <1>7, <1>8, <1>9
<1>11. h.kind # "task" => Waiting(t) = Waiting(q)
  BY <1>2, <1>6, <1>7, <1>9
<1> QED BY <1>1, <1>3, <1>4, <1>5, <1>10, <1>11 DEF t, h
-----------------------------------------------------------------------------
(* The invariant.                                                          *)

\* No task message for r waits anywhere.
Nowhere(r) == \A n \in Names : r \notin Waiting(queue[n])

\* Nothing has been done for r, and nothing will be.
Untouched(r) == work[r] = "none" /\ task[r] \in {"none", "over"} /\ Nowhere(r)

QueueInv ==
  /\ \A n \in Names : Single(queue[n])
  /\ \A a \in Agents : OnlyTasks(queue[a])

RouteInv == \A r \in Requests : entry[r] \in {Master, worker[r]}

\* A request whose handler has not sent it has left no trace.
Fresh(r) ==
  client[r] \in {"idle", "put"} =>
    Untouched(r) /\ task[r] = "none" /\ gateway[r] \in {"absent", "pending"}

FreshInv == \A r \in Requests : Fresh(r)

\* A task message waits in one queue, where the request goes, and before the
\* work begins.
Held(r) ==
  /\ task[r] # "none" => entry[r] = Master
  /\ task[r] \in {"queued", "put"} => work[r] = "none" /\ Nowhere(r)
  /\ r \in Waiting(queue[Master]) =>
       /\ entry[r] = Master
       /\ task[r] = "none"
       /\ work[r] = "none"
       /\ \A a \in Agents : r \notin Waiting(queue[a])
  /\ \A a \in Agents : r \in Waiting(queue[a]) => a = worker[r]
     /\ work[r] = "none"

HeldInv == \A r \in Requests : Held(r)

\* What a future holds, or an answer says, is true.
Holds(v, r) ==
  /\ v = "ok" => work[r] = "ok"
  /\ v = "failed" => work[r] = "failed"
  /\ v \in {"unavailable", "refused"} => Untouched(r)

Truth(r) ==
  /\ Holds(client[r], r)
  /\ Holds(gateway[r], r)
  /\ Holds(subtask[r], r)
  /\ subtask[r] \notin {"unavailable", "refused"}
  /\ task[r] = "polish" => work[r] = "ok"

TruthInv == \A r \in Requests : Truth(r)

\* An agent at work works for one request, the only agent that does.
JobInv ==
  \A a \in Agents :
    /\ agent[a] \in {"running", "replying"} => job[a] # Nobody
    /\ job[a] # Nobody =>
         /\ agent[a] \in {"running", "replying"}
         /\ a = worker[job[a]]
    /\ agent[a] = "running" => work[job[a]] = "running"
    /\ agent[a] = "replying" => work[job[a]] \in {"ok", "failed"}

\* What each stage of the shutdown has put an end to.
PhaseInv ==
  /\ phase # "serving" =>
       /\ ~masterUp
       /\ \A a \in Agents : agent[a] = "stopped"
       /\ \A r \in Requests : work[r] # "running"
  /\ phase \in {"idle", "closed"} =>
       \A r \in Requests : task[r] \in {"none", "over"}

Inv ==
  /\ TypeOK /\ QueueInv /\ RouteInv /\ FreshInv /\ HeldInv /\ TruthInv
  /\ JobInv /\ PhaseInv /\ NoFutureLeaks /\ ReplyBeatsQueue

\* The agents and the master have queues, and are not the same.
LEMMA NameFacts ==
  /\ Master \in Names
  /\ \A a \in Agents : a \in Names /\ a # Master
  /\ \A n \in Names : n = Master \/ n \in Agents
BY MessagingAssumption DEF Names

\* The invariant holds initially.
LEMMA InitInv == Init => Inv
<1> SUFFICES ASSUME Init PROVE Inv
  OBVIOUS
<1>1. \A n \in Names : queue[n] = <<>>
  BY DEF Init
<1>2. \A n \in Names : Waiting(queue[n]) = {} /\ Single(queue[n])
      /\ OnlyTasks(queue[n])
  BY <1>1 DEF Waiting, Single, OnlyTasks
<1>3. TypeOK
  BY MessagingAssumption DEF Init, TypeOK, Names, Phases, Futures
<1>4. QueueInv /\ RouteInv /\ FreshInv /\ HeldInv
  BY <1>2 DEF Init, QueueInv, RouteInv, FreshInv, Fresh, HeldInv, Held,
       Untouched,
       Nowhere, Names
<1>5. TruthInv /\ JobInv /\ PhaseInv
  BY DEF Init, TruthInv, Truth, JobInv, PhaseInv, Holds
<1>6. NoFutureLeaks /\ ReplyBeatsQueue
  BY DEF Init, NoFutureLeaks, ReplyBeatsQueue
<1> QED BY <1>3, <1>4, <1>5, <1>6 DEF Inv

\* What send does to the future that a reply is for.
LEMMA ResolvedFacts ==
  ASSUME NEW F \in [Requests -> Futures], NEW r \in Requests, NEW v \in Futures
  PROVE  /\ Resolved(F, r, v) \in [Requests -> Futures]
         /\ \A s \in Requests : s # r => Resolved(F, r, v)[s] = F[s]
         /\ \/ Resolved(F, r, v)[r] = F[r]
            \/ F[r] = "pending" /\ Resolved(F, r, v)[r] = v
         /\ phase # "closed" /\ v # "pending"
              => Resolved(F, r, v)[r] # "pending"
BY DEF Resolved

\* A task message that waits nowhere is put into queue n.
LEMMA PutStep ==
  ASSUME TypeOK, QueueInv, NEW n \in Names, NEW r \in Requests,
         r \notin Waiting(queue[n]), Put(n, Task(r))
  PROVE  /\ queue' \in [Names -> Seq(Messages)]
         /\ \A m \in Names : Len(queue'[m]) <= QueueMax
         /\ QueueInv'
         /\ \A m \in Names : Waiting(queue'[m]) =
              IF m = n THEN Waiting(queue[m]) \cup {r} ELSE Waiting(queue[m])
<1> DEFINE q == Append(queue[n], Task(r))
<1>1. /\ queue \in [Names -> Seq(Messages)]
      /\ \A m \in Names : Len(queue[m]) \in Nat /\ Len(queue[m]) <= QueueMax
      /\ Len(queue[n]) # QueueMax
      /\ queue' = [queue EXCEPT ![n] = q]
  BY DEF TypeOK, Put, Full
<1>2. q \in Seq(Messages) /\ Len(q) = Len(queue[n]) + 1
  BY <1>1, MessageFacts, AppendFacts
<1>3. /\ Single(q)
      /\ Waiting(q) = Waiting(queue[n]) \cup {r}
      /\ OnlyTasks(queue[n]) => OnlyTasks(q)
  BY <1>1, PutTask DEF QueueInv
<1> HIDE DEF q
<1>4. \A m \in Names : queue'[m] = IF m = n THEN q ELSE queue[m]
  BY <1>1
<1>5. QueueInv'
  BY <1>3, <1>4 DEF QueueInv, Names
<1>6. Len(q) <= QueueMax
  BY <1>1, <1>2, MessagingAssumption
<1> QED BY <1>1, <1>2, <1>3, <1>4, <1>5, <1>6

\* A reply is put into the queue of the master.
LEMMA ReplyStep ==
  ASSUME TypeOK, QueueInv, NEW r \in Requests, Put(Master, Reply(r))
  PROVE  /\ queue' \in [Names -> Seq(Messages)]
         /\ \A m \in Names : Len(queue'[m]) <= QueueMax
         /\ QueueInv'
         /\ \A m \in Names : Waiting(queue'[m]) = Waiting(queue[m])
<1> DEFINE q == Append(queue[Master], Reply(r))
<1>1. /\ queue \in [Names -> Seq(Messages)]
      /\ Master \in Names
      /\ \A m \in Names : Len(queue[m]) \in Nat /\ Len(queue[m]) <= QueueMax
      /\ Len(queue[Master]) # QueueMax
      /\ queue' = [queue EXCEPT ![Master] = q]
  BY DEF TypeOK, Put, Full, Names
<1>2. q \in Seq(Messages) /\ Len(q) = Len(queue[Master]) + 1
  BY <1>1, MessageFacts, AppendFacts
<1>3. Single(q) /\ Waiting(q) = Waiting(queue[Master])
  BY <1>1, PutReply DEF QueueInv
<1> HIDE DEF q
<1>4. \A m \in Names : queue'[m] = IF m = Master THEN q ELSE queue[m]
  BY <1>1
<1>5. QueueInv'
  BY <1>3, <1>4, MessagingAssumption DEF QueueInv, Names
<1>6. Len(q) <= QueueMax
  BY <1>1, <1>2, MessagingAssumption
<1> QED BY <1>1, <1>2, <1>3, <1>4, <1>5, <1>6

\* The head of queue n is taken.
LEMMA TakeStep ==
  ASSUME TypeOK, QueueInv, NEW n \in Names, queue[n] # <<>>,
         queue' = [queue EXCEPT ![n] = Tail(@)]
  PROVE  /\ queue' \in [Names -> Seq(Messages)]
         /\ \A m \in Names : Len(queue'[m]) <= QueueMax
         /\ QueueInv'
         /\ Head(queue[n]) \in Messages
         /\ n \in Agents => Head(queue[n]).kind = "task"
         /\ Head(queue[n]).kind # "reply"
              => Head(queue[n]).req \in Waiting(queue[n])
         /\ \A m \in Names : Waiting(queue'[m]) =
              IF m = n /\ Head(queue[n]).kind # "reply"
              THEN Waiting(queue[m]) \ {Head(queue[m]).req}
              ELSE Waiting(queue[m])
<1> DEFINE q == Tail(queue[n])
<1>1. /\ queue \in [Names -> Seq(Messages)]
      /\ \A m \in Names : Len(queue[m]) \in Nat /\ Len(queue[m]) <= QueueMax
      /\ Single(queue[n])
      /\ n \in Agents => OnlyTasks(queue[n])
      /\ queue' = [queue EXCEPT ![n] = q]
  BY DEF TypeOK, QueueInv
<1>2. /\ q \in Seq(Messages)
      /\ Len(q) <= Len(queue[n]) /\ Len(q) \in Nat
      /\ Head(queue[n]) \in Messages
      /\ Single(q)
      /\ n \in Agents => OnlyTasks(q) /\ Head(queue[n]).kind = "task"
      /\ Head(queue[n]).kind = "task" =>
           /\ Head(queue[n]).req \in Waiting(queue[n])
           /\ Waiting(q) = Waiting(queue[n]) \ {Head(queue[n]).req}
      /\ Head(queue[n]).kind # "task" => Waiting(q) = Waiting(queue[n])
  BY <1>1, TakeHead
<1> HIDE DEF q
<1>3. \A m \in Names : queue'[m] = IF m = n THEN q ELSE queue[m]
  BY <1>1
<1>4. QueueInv'
  BY <1>2, <1>3 DEF QueueInv, Names
<1>5. Len(q) <= QueueMax
  BY <1>1, <1>2, MessagingAssumption
<1>6. Head(queue[n]).kind = "task" <=> Head(queue[n]).kind # "reply"
  BY <1>2, TaskFacts
<1> QED BY <1>1, <1>2, <1>3, <1>4, <1>5, <1>6

\* Every step preserves the invariant.
LEMMA NextInv == Inv /\ [Next]_vars => Inv'
<1> SUFFICES ASSUME Inv, [Next]_vars PROVE Inv'
  OBVIOUS
<1>1. ASSUME NEW r \in Requests, Ask(r) PROVE Inv'
  <2>1. /\ client[r] = "idle"
        /\ client' \in [Requests -> {"idle", "put", "wait"} \cup Answers]
        /\ gateway' \in [Requests -> Futures]
        /\ \A s \in Requests \ {r} : client'[s] = client[s]
           /\ gateway'[s] = gateway[s]
        /\ \/ client'[r] = "unavailable" /\ gateway'[r] = "absent"
           \/ /\ client'[r] = "put" /\ gateway'[r] = "pending"
              /\ phase # "closed"
        /\ UNCHANGED <<phase, entry, worker, queue, subtask, task, agent, job,
             masterUp, work>>
    <3>1. CASE Registered
      <4>1. client' = [client EXCEPT ![r] = "put"]
            /\ gateway' = [gateway EXCEPT ![r] = "pending"]
        BY <1>1, <3>1 DEF Ask
      <4> QED BY Inv, <1>1, <3>1 DEF Inv, TypeOK, Ask, Registered, content,
         Futures
    <3>2. CASE ~Registered
      <4>1. client' = [client EXCEPT ![r] = "unavailable"]
            /\ gateway' = [gateway EXCEPT ![r] = "absent"]
        BY <1>1, <3>2 DEF Ask, Answer, Discarded
      <4> QED BY Inv, <1>1, <4>1 DEF Inv, TypeOK, Ask, content, Futures,
         Answers, Verdicts
    <3> QED BY <3>1, <3>2
  <2>2. QueueInv' /\ RouteInv' /\ HeldInv' /\ JobInv' /\ PhaseInv'
        /\ ReplyBeatsQueue'
    BY Inv, <1>1 DEF Inv, Ask, content, QueueInv, RouteInv, HeldInv, Held,
       Nowhere, JobInv, PhaseInv, ReplyBeatsQueue
  <2>3. TypeOK'
    BY Inv, <2>1 DEF Inv, TypeOK, Names, Futures, Phases
  <2>4. FreshInv'
    BY Inv, <2>1 DEF Inv, Registered, FreshInv, Fresh, Untouched, Nowhere
  <2>5. TruthInv'
    BY Inv, <2>1 DEF Inv, Registered, TruthInv, Truth, Holds, Untouched,
       Nowhere, FreshInv, Fresh
  <2>6. NoFutureLeaks'
    BY Inv, <2>1 DEF Inv, NoFutureLeaks
  <2> QED BY <2>2, <2>3, <2>4, <2>5, <2>6 DEF Inv
<1>2. ASSUME NEW r \in Requests, ClientPut(r) PROVE Inv'
  <2>1. entry[r] \in Names /\ r \notin Waiting(queue[entry[r]])
    BY Inv, <1>2 DEF Inv, TypeOK, ClientPut, FreshInv, Fresh, Untouched,
       Nowhere
  <2>2. /\ queue' \in [Names -> Seq(Messages)]
        /\ \A m \in Names : Len(queue'[m]) <= QueueMax
        /\ QueueInv'
        /\ \A m \in Names : Waiting(queue'[m]) =
             IF m = entry[r] THEN Waiting(queue[m]) \cup {r}
                  ELSE Waiting(queue[m])
    BY Inv, <1>2, <2>1, PutStep DEF Inv, ClientPut
  <2>3. /\ client[r] = "put"
        /\ client' \in [Requests -> {"idle", "put", "wait"} \cup Answers]
        /\ gateway' \in [Requests -> Futures]
        /\ \A s \in Requests \ {r} : client'[s] = client[s]
           /\ gateway'[s] = gateway[s]
        /\ \/ client'[r] = "timeout" /\ gateway'[r] = "absent"
           \/ client'[r] = "wait" /\ gateway'[r] = gateway[r]
        /\ UNCHANGED <<phase, entry, worker, subtask, task, agent, job,
             masterUp, work>>
    BY Inv, <1>2 DEF Inv, TypeOK, ClientPut, content, Answer, Discarded,
       Answers, Verdicts, Futures
  <2>4. RouteInv' /\ JobInv' /\ PhaseInv' /\ ReplyBeatsQueue'
    BY Inv, <1>2 DEF Inv, ClientPut, content, RouteInv, JobInv, PhaseInv,
       ReplyBeatsQueue
  <2>5. TypeOK'
    BY Inv, <2>2, <2>3 DEF Inv, TypeOK, Names, Futures, Phases
  <2>6. QueueInv'
    BY <2>2
  <2>7. FreshInv'
    <3> SUFFICES ASSUME NEW s \in Requests PROVE Fresh(s)'
      BY DEF FreshInv
    <3>1. CASE s = r
      BY <2>3, <3>1 DEF Fresh
    <3>2. CASE s # r
      BY Inv, <2>2, <2>3, <3>2 DEF Inv, FreshInv, Fresh, Untouched, Nowhere
    <3> QED BY <3>1, <3>2
  <2>8. HeldInv'
    <3> SUFFICES ASSUME NEW s \in Requests PROVE Held(s)'
      BY DEF HeldInv
    <3>1. Held(s) /\ Fresh(r) /\ entry[r] \in {Master, worker[r]}
      BY Inv DEF Inv, HeldInv, FreshInv, RouteInv
    <3>2. CASE s = r
      BY <2>2, <2>3, <3>1, <3>2, NameFacts DEF Held, Fresh, Untouched, Nowhere
    <3>3. CASE s # r
      <4>1. \A m \in Names : s \in Waiting(queue'[m])
              <=> s \in Waiting(queue[m])
        BY <2>2, <3>3
      <4> QED BY <2>3, <3>1, <3>3, <4>1, NameFacts DEF Held, Nowhere
    <3> QED BY <3>2, <3>3
  <2>9. TruthInv'
    <3> SUFFICES ASSUME NEW s \in Requests PROVE Truth(s)'
      BY DEF TruthInv
    <3>1. CASE s = r
      <4>1. Truth(r) /\ gateway[r] \in {"absent", "pending"}
        BY Inv, <2>3 DEF Inv, TruthInv, FreshInv, Fresh
      <4> QED BY <2>3, <3>1, <4>1, Inv DEF Inv, TruthInv, Truth, Holds
    <3>2. CASE s # r
      <4>1. Untouched(s) => Untouched(s)'
        <5>1. \A m \in Names : s \in Waiting(queue'[m])
                <=> s \in Waiting(queue[m])
          BY <2>2, <3>2
        <5> QED BY <2>3, <5>1 DEF Untouched, Nowhere
      <4>2. Truth(s)
        BY Inv DEF Inv, TruthInv
      <4>3. /\ client'[s] = client[s] /\ gateway'[s] = gateway[s]
            /\ UNCHANGED <<subtask, task, work>>
        BY <2>3, <3>2
      <4> QED BY <4>1, <4>2, <4>3 DEF Truth, Holds
    <3> QED BY <3>1, <3>2
  <2>10. NoFutureLeaks'
    BY Inv, <2>3 DEF Inv, NoFutureLeaks
  <2> QED BY <2>4, <2>5, <2>6, <2>7, <2>8, <2>9, <2>10 DEF Inv
<1>3. ASSUME NEW r \in Requests, ClientPutTimeout(r) PROVE Inv'
  <2>1. QueueInv' /\ RouteInv' /\ HeldInv' /\ JobInv' /\ PhaseInv'
        /\ ReplyBeatsQueue'
    BY Inv, <1>3 DEF Inv, ClientPutTimeout, content, QueueInv, RouteInv,
       HeldInv, Held, Nowhere, JobInv, PhaseInv, ReplyBeatsQueue
  <2>2. TypeOK'
    BY Inv, <1>3 DEF Inv, ClientPutTimeout, content, Answer, Discarded, TypeOK,
       Names, Futures, Verdicts, Answers
  <2>3. FreshInv'
    BY Inv, <1>3 DEF Inv, ClientPutTimeout, content, Answer, Discarded,
       FreshInv, Fresh, Untouched, Nowhere
  <2>4. TruthInv'
    BY Inv, <1>3 DEF Inv, ClientPutTimeout, content, Answer, Discarded,
       TruthInv, Truth, Holds, Untouched, Nowhere, FreshInv, Fresh, HeldInv,
       Held, JobInv
  <2>5. NoFutureLeaks'
    BY Inv, <1>3 DEF Inv, ClientPutTimeout, Answer, Discarded, NoFutureLeaks,
       TypeOK
  <2> QED BY <2>1, <2>2, <2>3, <2>4, <2>5 DEF Inv
<1>4. ASSUME NEW r \in Requests, ClientReply(r) PROVE Inv'
  <2>1. QueueInv' /\ RouteInv' /\ HeldInv' /\ JobInv' /\ PhaseInv'
        /\ ReplyBeatsQueue'
    BY Inv, <1>4 DEF Inv, ClientReply, content, QueueInv, RouteInv, HeldInv,
       Held, Nowhere, JobInv, PhaseInv, ReplyBeatsQueue
  <2>2. TypeOK'
    BY Inv, <1>4 DEF Inv, ClientReply, content, Answer, Discarded, TypeOK,
       Names, Futures, Verdicts, Answers
  <2>3. FreshInv'
    BY Inv, <1>4 DEF Inv, ClientReply, content, Answer, Discarded, FreshInv,
       Fresh, Untouched, Nowhere, Verdicts, Answers
  <2>4. TruthInv'
    BY Inv, <1>4 DEF Inv, ClientReply, content, Answer, Discarded, TruthInv,
       Truth, Holds, Untouched, Nowhere
  <2>5. NoFutureLeaks'
    BY Inv, <1>4 DEF Inv, ClientReply, Answer, Discarded, NoFutureLeaks, TypeOK
  <2> QED BY <2>1, <2>2, <2>3, <2>4, <2>5 DEF Inv
<1>5. ASSUME NEW r \in Requests, ClientTimeout(r) PROVE Inv'
  <2>1. QueueInv' /\ RouteInv' /\ HeldInv' /\ JobInv' /\ PhaseInv'
        /\ ReplyBeatsQueue'
    BY Inv, <1>5 DEF Inv, ClientTimeout, content, QueueInv, RouteInv, HeldInv,
       Held, Nowhere, JobInv, PhaseInv, ReplyBeatsQueue
  <2>2. TypeOK'
    BY Inv, <1>5 DEF Inv, ClientTimeout, content, Answer, Discarded, TypeOK,
       Names, Futures, Verdicts, Answers
  <2>3. FreshInv'
    BY Inv, <1>5 DEF Inv, ClientTimeout, content, Answer, Discarded, FreshInv,
       Fresh, Untouched, Nowhere
  <2>4. TruthInv'
    BY Inv, <1>5 DEF Inv, ClientTimeout, content, Answer, Discarded, TruthInv,
       Truth, Holds, Untouched, Nowhere
  <2>5. NoFutureLeaks'
    BY Inv, <1>5 DEF Inv, ClientTimeout, Answer, Discarded, NoFutureLeaks,
       TypeOK
  <2> QED BY <2>1, <2>2, <2>3, <2>4, <2>5 DEF Inv
<1>6. ASSUME NEW r \in Requests, ClientGone(r) PROVE Inv'
  <2>1. QueueInv' /\ RouteInv' /\ HeldInv' /\ JobInv' /\ PhaseInv'
        /\ ReplyBeatsQueue'
    BY Inv, <1>6 DEF Inv, ClientGone, content, QueueInv, RouteInv, HeldInv,
       Held, Nowhere, JobInv, PhaseInv, ReplyBeatsQueue
  <2>2. TypeOK'
    BY Inv, <1>6 DEF Inv, ClientGone, content, Answer, Discarded, TypeOK,
       Names, Futures, Verdicts, Answers
  <2>3. FreshInv'
    BY Inv, <1>6 DEF Inv, ClientGone, content, Answer, Discarded, FreshInv,
       Fresh, Untouched, Nowhere
  <2>4. TruthInv'
    BY Inv, <1>6 DEF Inv, ClientGone, content, Answer, Discarded, TruthInv,
       Truth, Holds, Untouched, Nowhere
  <2>5. NoFutureLeaks'
    BY Inv, <1>6 DEF Inv, ClientGone, Answer, Discarded, NoFutureLeaks, TypeOK
  <2> QED BY <2>1, <2>2, <2>3, <2>4, <2>5 DEF Inv
<1>7. CASE MasterTake
  <2>1. Master \in Names
    BY DEF Names
  <2>2. /\ queue' \in [Names -> Seq(Messages)]
        /\ \A m \in Names : Len(queue'[m]) <= QueueMax
        /\ QueueInv'
        /\ Head(queue[Master]).req \in Requests
        /\ Head(queue[Master]).kind # "reply"
             => Head(queue[Master]).req \in Waiting(queue[Master])
        /\ \A m \in Names : Waiting(queue'[m]) =
             IF m = Master /\ Head(queue[Master]).kind # "reply"
                  THEN Waiting(queue[m]) \ {Head(queue[m]).req}
                  ELSE Waiting(queue[m])
    BY Inv, <1>7, TakeStep, TaskFacts, <2>1 DEF Inv, MasterTake
  <2>3. /\ masterUp
        /\ task' \in [Requests -> {"none", "queued", "put", "wait", "polish",
             "over"}]
        /\ \A s \in Requests : task'[s] =
             IF s = Head(queue[Master]).req
                /\ Head(queue[Master]).kind # "reply"
             THEN "queued" ELSE task[s]
        /\ UNCHANGED <<phase, entry, worker, gateway, subtask, client, agent,
             job, masterUp, work>>
    BY Inv, <1>7 DEF Inv, TypeOK, MasterTake, content
  <2>4. RouteInv' /\ JobInv' /\ ReplyBeatsQueue'
    BY Inv, <1>7 DEF Inv, MasterTake, content, RouteInv, JobInv,
       ReplyBeatsQueue
  <2>5. TypeOK'
    BY Inv, <2>2, <2>3 DEF Inv, TypeOK, Names, Futures, Phases
  <2>6. QueueInv'
    BY <2>2
  <2>7. FreshInv'
    BY Inv, <2>1, <2>2, <2>3 DEF Inv, FreshInv, Fresh, Untouched, Nowhere
  <2>8. HeldInv'
    BY Inv, <2>2, <2>3, NameFacts DEF Inv, HeldInv, Held, Nowhere
  <2>9. TruthInv'
    BY Inv, <2>1, <2>2, <2>3 DEF Inv, TruthInv, Truth, Holds, Untouched,
       Nowhere
  <2>10. PhaseInv'
    BY Inv, <2>3 DEF Inv, PhaseInv
  <2>11. NoFutureLeaks'
    <3>1. \A s \in Requests : task[s] \in {"put", "wait"} => task'[s] = task[s]
      BY Inv, <2>2, <2>3 DEF Inv, HeldInv, Held
    <3> QED BY Inv, <2>3, <3>1 DEF Inv, NoFutureLeaks
  <2> QED BY <2>4, <2>5, <2>6, <2>7, <2>8, <2>9, <2>10, <2>11 DEF Inv
<1>8. ASSUME NEW r \in Requests, TaskAnswers(r) PROVE Inv'
  <2>1. QueueInv' /\ RouteInv' /\ JobInv' /\ ReplyBeatsQueue'
    BY Inv, <1>8 DEF Inv, TaskAnswers, OwnVerdicts, content, QueueInv, RouteInv, JobInv,
       ReplyBeatsQueue
  <2>2. TypeOK'
    BY Inv, <1>8 DEF Inv, TaskAnswers, OwnVerdicts, content, Final, Resolved, TypeOK, Names,
       Futures, Verdicts, Answers, Phases
  <2>3. FreshInv'
    BY Inv, <1>8 DEF Inv, TaskAnswers, OwnVerdicts, content, Final, Resolved, FreshInv,
       Fresh, Untouched, Nowhere, JobInv, TypeOK, Verdicts
  <2>4. HeldInv'
    BY Inv, <1>8 DEF Inv, TaskAnswers, OwnVerdicts, content, Final, Resolved, HeldInv, Held,
       Nowhere, Untouched
  <2>5. TruthInv'
    BY Inv, <1>8 DEF Inv, TaskAnswers, OwnVerdicts, content, Final, Resolved, TruthInv,
       Truth, Holds, Untouched, Nowhere, FreshInv, Fresh, HeldInv, Held,
       JobInv, TypeOK
  <2>6. PhaseInv'
    BY Inv, <1>8 DEF Inv, TaskAnswers, OwnVerdicts, content, Final, Resolved, PhaseInv,
       TypeOK, Verdicts
  <2>7. NoFutureLeaks'
    BY Inv, <1>8 DEF Inv, TaskAnswers, OwnVerdicts, Final, Resolved, NoFutureLeaks
  <2> QED BY <2>1, <2>2, <2>3, <2>4, <2>5, <2>6, <2>7 DEF Inv
<1>9. ASSUME NEW r \in Requests, TaskAsks(r) PROVE Inv'
  <2>1. /\ task[r] = "queued"
        /\ task' \in [Requests -> {"none", "queued", "put", "wait", "polish",
             "over"}]
        /\ gateway' \in [Requests -> Futures]
        /\ subtask' \in [Requests -> Futures]
        /\ \A s \in Requests \ {r} :
             task'[s] = task[s] /\ gateway'[s] = gateway[s]
                /\ subtask'[s] = subtask[s]
        /\ \/ /\ task'[r] = "put" /\ subtask'[r] = "pending"
                 /\ gateway'[r] = gateway[r]
              /\ phase # "closed"
           \/ /\ task'[r] = "over" /\ subtask'[r] = "absent"
              /\ \/ gateway'[r] = gateway[r]
                 \/ gateway[r] = "pending" /\ gateway'[r] = "unavailable"
        /\ UNCHANGED <<phase, entry, worker, queue, client, agent, job,
             masterUp, work>>
    <3>1. CASE Registered
      <4>1. /\ task' = [task EXCEPT ![r] = "put"]
            /\ subtask' = [subtask EXCEPT ![r] = "pending"]
            /\ gateway' = gateway
        BY <1>9, <3>1 DEF TaskAsks
      <4> QED BY Inv, <1>9, <3>1 DEF Inv, TypeOK, TaskAsks, Registered,
         content, Futures
    <3>2. CASE ~Registered
      <4>1. /\ task' = [task EXCEPT ![r] = "over"]
            /\ subtask' = [subtask EXCEPT ![r] = "absent"]
            /\ gateway' = Resolved(gateway, r, "unavailable")
        BY <1>9, <3>2 DEF TaskAsks, Final, Discarded
      <4>2. /\ gateway' \in [Requests -> Futures]
            /\ \A s \in Requests : s # r => gateway'[s] = gateway[s]
            /\ gateway'[r] = gateway[r] \/ (gateway[r] = "pending"
               /\ gateway'[r] = "unavailable")
        <5>1. gateway \in [Requests -> Futures] /\ "unavailable" \in Futures
          BY Inv DEF Inv, TypeOK, Futures, Verdicts
        <5>2. \A w \in Futures : gateway' = Resolved(gateway, r, w) =>
                /\ gateway' \in [Requests -> Futures]
                /\ \A s \in Requests : s # r => gateway'[s] = gateway[s]
                /\ gateway'[r] = gateway[r] \/ (gateway[r] = "pending"
                   /\ gateway'[r] = w)
          BY <5>1, ResolvedFacts
        <5> QED BY <4>1, <5>1, <5>2
      <4>3. /\ task \in [Requests ->
                 {"none", "queued", "put", "wait", "polish", "over"}]
            /\ subtask \in [Requests -> Futures] /\ "absent" \in Futures
        BY Inv DEF Inv, TypeOK, Futures
      <4>4. /\ task[r] = "queued"
            /\ UNCHANGED <<phase, entry, worker, queue, client, agent, job,
                 masterUp, work>>
        BY <1>9 DEF TaskAsks, content
      <4> QED BY <4>1, <4>2, <4>3, <4>4
    <3> QED BY <3>1, <3>2
  <2>2. QueueInv' /\ RouteInv' /\ JobInv'
    BY Inv, <1>9 DEF Inv, TaskAsks, content, QueueInv, RouteInv, JobInv
  <2>3. TypeOK'
    BY Inv, <2>1 DEF Inv, TypeOK, Names, Futures, Phases
  <2>4. FreshInv'
    BY Inv, <2>1 DEF Inv, Registered, FreshInv, Fresh, Untouched, Nowhere
  <2>5. HeldInv'
    BY Inv, <2>1 DEF Inv, Registered, HeldInv, Held, Nowhere, Verdicts
  <2>6. TruthInv'
    BY Inv, <2>1 DEF Inv, Registered, TruthInv, Truth, Holds, Untouched,
       Nowhere, HeldInv, Held
  <2>7. PhaseInv'
    BY Inv, <2>1 DEF Inv, PhaseInv
  <2>8. NoFutureLeaks'
    BY Inv, <2>1 DEF Inv, Registered, NoFutureLeaks, PhaseInv, Verdicts
  <2>9. ReplyBeatsQueue'
    <3> SUFFICES ASSUME NEW a \in Agents, agent[a] = "replying"
                 PROVE  subtask'[job[a]] # "pending"
      BY <2>1 DEF ReplyBeatsQueue
    <3>1. job[a] \in Requests /\ work[job[a]] # "none"
      <4>1. job[a] # Nobody /\ work[job[a]] \in {"ok", "failed"}
        BY Inv DEF Inv, JobInv
      <4> QED BY Inv, <4>1 DEF Inv, TypeOK
    <3>2. job[a] # r
      BY Inv, <2>1, <3>1 DEF Inv, HeldInv, Held
    <3> QED BY Inv, <2>1, <3>1, <3>2 DEF Inv, ReplyBeatsQueue
  <2> QED BY <2>2, <2>3, <2>4, <2>5, <2>6, <2>7, <2>8, <2>9 DEF Inv
<1>10. ASSUME NEW r \in Requests, TaskPut(r) PROVE Inv'
  <2>1. worker[r] \in Names /\ r \notin Waiting(queue[worker[r]])
    BY Inv, <1>10 DEF Inv, TypeOK, Names, TaskPut, HeldInv, Held, Nowhere
  <2>2. /\ queue' \in [Names -> Seq(Messages)]
        /\ \A m \in Names : Len(queue'[m]) <= QueueMax
        /\ QueueInv'
        /\ \A m \in Names : Waiting(queue'[m]) =
             IF m = worker[r] THEN Waiting(queue[m]) \cup {r}
                  ELSE Waiting(queue[m])
    BY Inv, <1>10, <2>1, PutStep DEF Inv, TaskPut
  <2>3. /\ task[r] = "put"
        /\ task' \in [Requests -> {"none", "queued", "put", "wait", "polish",
             "over"}]
        /\ \A s \in Requests : task'[s] = IF s = r THEN "wait" ELSE task[s]
        /\ UNCHANGED <<phase, entry, worker, gateway, subtask, client, agent,
             job, masterUp, work>>
    BY Inv, <1>10 DEF Inv, TypeOK, TaskPut, content
  <2>4. RouteInv' /\ JobInv' /\ ReplyBeatsQueue'
    BY Inv, <1>10 DEF Inv, TaskPut, content, RouteInv, JobInv, ReplyBeatsQueue
  <2>5. TypeOK'
    BY Inv, <2>2, <2>3 DEF Inv, TypeOK, Names, Futures, Phases
  <2>6. QueueInv'
    BY <2>2
  <2>7. FreshInv'
    BY Inv, <2>2, <2>3 DEF Inv, FreshInv, Fresh, Untouched, Nowhere
  <2>8. HeldInv'
    <3> SUFFICES ASSUME NEW s \in Requests PROVE Held(s)'
      BY DEF HeldInv
    <3>1. Held(s) /\ Held(r)
      BY Inv DEF Inv, HeldInv
    <3>2. CASE s = r
      BY Inv, <2>2, <2>3, <3>1, <3>2, NameFacts DEF Inv, TypeOK, Held, Nowhere
    <3>3. CASE s # r
      <4>1. \A m \in Names : s \in Waiting(queue'[m])
              <=> s \in Waiting(queue[m])
        BY <2>2, <3>3
      <4> QED BY <2>3, <3>1, <3>3, <4>1, NameFacts DEF Held, Nowhere
    <3> QED BY <3>2, <3>3
  <2>9. TruthInv'
    BY Inv, <2>2, <2>3 DEF Inv, TruthInv, Truth, Holds, Untouched, Nowhere
  <2>10. PhaseInv'
    BY Inv, <2>2, <2>3 DEF Inv, PhaseInv
  <2>11. NoFutureLeaks'
    BY Inv, <2>2, <2>3 DEF Inv, NoFutureLeaks
  <2> QED BY <2>4, <2>5, <2>6, <2>7, <2>8, <2>9, <2>10, <2>11 DEF Inv
<1>11. ASSUME NEW r \in Requests, TaskPutTimeout(r) PROVE Inv'
  <2>1. QueueInv' /\ RouteInv' /\ JobInv'
    BY Inv, <1>11 DEF Inv, TaskPutTimeout, content, QueueInv, RouteInv, JobInv
  <2>2. TypeOK'
    BY Inv, <1>11 DEF Inv, TaskPutTimeout, content, Final, Resolved, Discarded,
       TypeOK, Names, Futures, Verdicts, Answers, Phases
  <2>3. FreshInv'
    BY Inv, <1>11 DEF Inv, TaskPutTimeout, content, Final, Resolved, Discarded,
       FreshInv, Fresh, Untouched, Nowhere, JobInv, TypeOK, Verdicts
  <2>4. HeldInv'
    BY Inv, <1>11 DEF Inv, TaskPutTimeout, content, Final, Resolved, Discarded,
       HeldInv, Held, Nowhere, Untouched
  <2>5. TruthInv'
    BY Inv, <1>11 DEF Inv, TaskPutTimeout, content, Final, Resolved, Discarded,
       TruthInv, Truth, Holds, Untouched, Nowhere, FreshInv, Fresh, HeldInv,
       Held, JobInv, TypeOK
  <2>6. PhaseInv'
    BY Inv, <1>11 DEF Inv, TaskPutTimeout, content, Final, Resolved, Discarded,
       PhaseInv, TypeOK, Verdicts
  <2>7. NoFutureLeaks'
    BY Inv, <1>11 DEF Inv, TaskPutTimeout, Final, Resolved, Discarded,
       NoFutureLeaks, TypeOK
  <2>8. ReplyBeatsQueue'
    BY Inv, <1>11 DEF Inv, TaskPutTimeout, Final, Resolved, Discarded,
       ReplyBeatsQueue
  <2> QED BY <2>1, <2>2, <2>3, <2>4, <2>5, <2>6, <2>7, <2>8 DEF Inv
<1>12. ASSUME NEW r \in Requests, TaskReply(r) PROVE Inv'
  <2>1. /\ task[r] = "wait"
        /\ subtask[r] \in Verdicts
        /\ task' \in [Requests -> {"none", "queued", "put", "wait", "polish",
             "over"}]
        /\ gateway' \in [Requests -> Futures]
        /\ subtask' \in [Requests -> Futures]
        /\ \A s \in Requests \ {r} :
             task'[s] = task[s] /\ gateway'[s] = gateway[s]
                /\ subtask'[s] = subtask[s]
        /\ subtask'[r] = "absent"
        /\ \/ /\ task'[r] = "over"
              /\ \/ gateway'[r] = gateway[r]
                 \/ gateway[r] = "pending" /\ gateway'[r] = subtask[r]
           \/ /\ subtask[r] = "ok" /\ task'[r] = "polish"
                 /\ gateway'[r] = gateway[r]
        /\ UNCHANGED <<phase, entry, worker, queue, client, agent, job,
             masterUp, work>>
    <3>1. subtask' = [subtask EXCEPT ![r] = "absent"]
      BY <1>12 DEF TaskReply, Discarded
    <3>2. CASE Final(r, subtask[r])
      <4>1. task' = [task EXCEPT ![r] = "over"]
            /\ gateway' = Resolved(gateway, r, subtask[r])
        BY <3>2 DEF Final
      <4>2. /\ gateway' \in [Requests -> Futures]
            /\ \A s \in Requests : s # r => gateway'[s] = gateway[s]
            /\ gateway'[r] = gateway[r] \/ (gateway[r] = "pending"
               /\ gateway'[r] = subtask[r])
        <5>1. gateway \in [Requests -> Futures] /\ subtask[r] \in Futures
          BY Inv DEF Inv, TypeOK
        <5> QED BY <4>1, <5>1, ResolvedFacts
      <4> QED BY Inv, <1>12, <3>1, <4>1, <4>2 DEF Inv, TypeOK, TaskReply,
         content, Futures
    <3>3. CASE subtask[r] = "ok" /\ task' = [task EXCEPT ![r] = "polish"]
               /\ UNCHANGED gateway
      BY Inv, <1>12, <3>1, <3>3 DEF Inv, TypeOK, TaskReply, content, Futures,
         Verdicts
    <3> QED BY <1>12, <3>2, <3>3 DEF TaskReply
  <2>2. QueueInv' /\ RouteInv' /\ JobInv'
    BY Inv, <1>12 DEF Inv, TaskReply, content, QueueInv, RouteInv, JobInv
  <2>3. TypeOK'
    BY Inv, <2>1 DEF Inv, TypeOK, Names, Futures, Phases
  <2>4. FreshInv'
    BY Inv, <2>1 DEF Inv, FreshInv, Fresh, Untouched, Nowhere
  <2>5. HeldInv'
    BY Inv, <2>1 DEF Inv, HeldInv, Held, Nowhere, Verdicts
  <2>6. TruthInv'
    BY Inv, <2>1 DEF Inv, TruthInv, Truth, Holds, Untouched, Nowhere
  <2>7. PhaseInv'
    BY Inv, <2>1 DEF Inv, PhaseInv
  <2>8. NoFutureLeaks'
    BY Inv, <2>1 DEF Inv, NoFutureLeaks, Verdicts
  <2>9. ReplyBeatsQueue'
    <3> SUFFICES ASSUME NEW a \in Agents, agent[a] = "replying"
                 PROVE  subtask'[job[a]] # "pending"
      BY <2>1 DEF ReplyBeatsQueue
    <3>1. job[a] \in Requests
      BY Inv DEF Inv, TypeOK, JobInv
    <3> QED BY Inv, <2>1, <3>1 DEF Inv, ReplyBeatsQueue
  <2> QED BY <2>2, <2>3, <2>4, <2>5, <2>6, <2>7, <2>8, <2>9 DEF Inv
<1>13. ASSUME NEW r \in Requests, TaskTimeout(r) PROVE Inv'
  <2>1. QueueInv' /\ RouteInv' /\ JobInv'
    BY Inv, <1>13 DEF Inv, TaskTimeout, content, QueueInv, RouteInv, JobInv
  <2>2. TypeOK'
    BY Inv, <1>13 DEF Inv, TaskTimeout, content, Final, Resolved, Discarded,
       TypeOK, Names, Futures, Verdicts, Answers, Phases
  <2>3. FreshInv'
    BY Inv, <1>13 DEF Inv, TaskTimeout, content, Final, Resolved, Discarded,
       FreshInv, Fresh, Untouched, Nowhere
  <2>4. HeldInv'
    BY Inv, <1>13 DEF Inv, TaskTimeout, content, Final, Resolved, Discarded,
       HeldInv, Held, Nowhere, FreshInv, Fresh, Untouched, RouteInv, TypeOK,
       Verdicts
  <2>5. TruthInv'
    BY Inv, <1>13 DEF Inv, TaskTimeout, content, Final, Resolved, Discarded,
       TruthInv, Truth, Holds, Untouched, Nowhere
  <2>6. PhaseInv'
    BY Inv, <1>13 DEF Inv, TaskTimeout, Final, Resolved, Discarded, PhaseInv
  <2>7. NoFutureLeaks'
    BY Inv, <1>13 DEF Inv, TaskTimeout, content, Final, Resolved, Discarded,
       NoFutureLeaks, PhaseInv, TypeOK, Verdicts
  <2>8. ReplyBeatsQueue'
    BY Inv, <1>13 DEF Inv, TaskTimeout, Final, Resolved, Discarded,
       ReplyBeatsQueue
  <2> QED BY <2>1, <2>2, <2>3, <2>4, <2>5, <2>6, <2>7, <2>8 DEF Inv
<1>14. ASSUME NEW r \in Requests, TaskPolished(r) PROVE Inv'
  <2>1. QueueInv' /\ RouteInv' /\ JobInv' /\ ReplyBeatsQueue'
    BY Inv, <1>14 DEF Inv, TaskPolished, content, QueueInv, RouteInv, JobInv,
       ReplyBeatsQueue
  <2>2. TypeOK'
    BY Inv, <1>14 DEF Inv, TaskPolished, content, Final, Resolved, TypeOK,
       Names, Futures, Verdicts, Answers, Phases
  <2>3. FreshInv'
    BY Inv, <1>14 DEF Inv, TaskPolished, content, Final, Resolved, FreshInv,
       Fresh, Untouched, Nowhere
  <2>4. HeldInv'
    BY Inv, <1>14 DEF Inv, TaskPolished, content, Final, Resolved, HeldInv,
       Held, Nowhere, FreshInv, Fresh, Untouched, RouteInv, TypeOK, Verdicts
  <2>5. TruthInv'
    BY Inv, <1>14 DEF Inv, TaskPolished, content, Final, Resolved, TruthInv,
       Truth, Holds, Untouched, Nowhere
  <2>6. PhaseInv'
    BY Inv, <1>14 DEF Inv, TaskPolished, Final, Resolved, PhaseInv
  <2>7. NoFutureLeaks'
    BY Inv, <1>14 DEF Inv, TaskPolished, content, Final, Resolved,
       NoFutureLeaks, PhaseInv, TypeOK, Verdicts
  <2> QED BY <2>1, <2>2, <2>3, <2>4, <2>5, <2>6, <2>7 DEF Inv
<1>15. ASSUME NEW a \in Agents, AgentTake(a) PROVE Inv'
  <2>1. a \in Names
    BY DEF Names
  <2>2. Head(queue[a]).kind = "task"
    BY Inv, <1>15, <2>1, TakeStep DEF Inv, AgentTake
  <2>3. /\ queue' \in [Names -> Seq(Messages)]
        /\ \A m \in Names : Len(queue'[m]) <= QueueMax
        /\ QueueInv'
        /\ Head(queue[a]).req \in Requests
        /\ Head(queue[a]).req \in Waiting(queue[a])
        /\ \A m \in Names : Waiting(queue'[m]) =
             IF m = a THEN Waiting(queue[m]) \ {Head(queue[m]).req}
                  ELSE Waiting(queue[m])
    BY Inv, <1>15, <2>1, TakeStep, TaskFacts DEF Inv, AgentTake
  <2>4. /\ agent[a] = "idle"
        /\ agent' \in [Agents -> {"idle", "running", "replying", "stopped"}]
        /\ job' \in [Agents -> Requests \cup {Nobody}]
        /\ work' \in [Requests -> {"none", "running", "ok", "failed", "cut"}]
        /\ \A b \in Agents : agent'[b] = IF b = a THEN "running" ELSE agent[b]
        /\ \A b \in Agents : job'[b] = IF b = a THEN Head(queue[a]).req
             ELSE job[b]
        /\ \A s \in Requests : work'[s] = IF s = Head(queue[a]).req
             THEN "running" ELSE work[s]
        /\ UNCHANGED <<phase, entry, worker, gateway, subtask, client, task,
             masterUp>>
    BY Inv, <1>15, <2>3 DEF Inv, TypeOK, AgentTake, content
  <2>5. /\ worker[Head(queue[a]).req] = a /\ work[Head(queue[a]).req] = "none"
        /\ task[Head(queue[a]).req] \notin {"queued", "put"}
        /\ client[Head(queue[a]).req] \notin {"idle", "put"}
    BY Inv, <2>1, <2>3 DEF Inv, HeldInv, Held, FreshInv, Fresh, Untouched,
       Nowhere
  <2>6. \A s \in Requests : s # Head(queue[a]).req =>
        /\ work'[s] = work[s]
        /\ \A m \in Names : s \in Waiting(queue'[m])
             <=> s \in Waiting(queue[m])
        /\ Untouched(s) => Untouched(s)'
    <3> SUFFICES ASSUME NEW s \in Requests, s # Head(queue[a]).req
                 PROVE  /\ work'[s] = work[s]
                        /\ \A m \in Names : s \in Waiting(queue'[m])
                             <=> s \in Waiting(queue[m])
                        /\ Untouched(s) => Untouched(s)'
      OBVIOUS
    <3>1. \A m \in Names : s \in Waiting(queue'[m]) <=> s \in Waiting(queue[m])
      BY <2>3
    <3>2. work'[s] = work[s] /\ task'[s] = task[s]
      BY <2>4
    <3> QED BY <3>1, <3>2 DEF Untouched, Nowhere
  <2>7. RouteInv' /\ NoFutureLeaks'
    BY Inv, <1>15 DEF Inv, AgentTake, content, RouteInv, NoFutureLeaks
  <2>8. TypeOK'
    BY Inv, <2>2, <2>3, <2>4, <2>5, <2>6 DEF Inv, TypeOK, Names, Futures,
       Phases
  <2>9. QueueInv'
    BY <2>3
  <2>10. FreshInv'
    <3> SUFFICES ASSUME NEW s \in Requests PROVE Fresh(s)'
      BY DEF FreshInv
    <3>1. CASE s = Head(queue[a]).req
      BY <2>4, <2>5, <3>1 DEF Fresh
    <3>2. CASE s # Head(queue[a]).req
      BY Inv, <2>4, <2>6, <3>2 DEF Inv, FreshInv, Fresh
    <3> QED BY <3>1, <3>2
  <2>11. HeldInv'
    <3> SUFFICES ASSUME NEW s \in Requests PROVE Held(s)'
      BY DEF HeldInv
    <3>1. Held(s)
      BY Inv DEF Inv, HeldInv
    <3>2. CASE s = Head(queue[a]).req
      <4>1. \A m \in Names : s \notin Waiting(queue'[m])
        BY <2>3, <2>5, <3>1, <3>2, NameFacts DEF Held
      <4> QED BY <2>4, <2>5, <3>1, <3>2, <4>1, NameFacts DEF Held
    <3>3. CASE s # Head(queue[a]).req
      BY <2>4, <2>6, <3>1, <3>3, NameFacts DEF Held, Nowhere
    <3> QED BY <3>2, <3>3
  <2>12. TruthInv'
    <3> SUFFICES ASSUME NEW s \in Requests PROVE Truth(s)'
      BY DEF TruthInv
    <3>1. Truth(s)
      BY Inv DEF Inv, TruthInv
    <3>2. CASE s = Head(queue[a]).req
      <4>1. ~Untouched(s)
        BY <2>1, <2>3, <3>2 DEF Untouched, Nowhere
      <4> QED BY <2>4, <2>5, <3>1, <3>2, <4>1 DEF Truth, Holds
    <3>3. CASE s # Head(queue[a]).req
      BY <2>4, <2>6, <3>1, <3>3 DEF Truth, Holds
    <3> QED BY <3>2, <3>3
  <2>13. JobInv'
    <3> SUFFICES ASSUME NEW b \in Agents PROVE
          /\ agent'[b] \in {"running", "replying"} => job'[b] # Nobody
          /\ job'[b] # Nobody =>
               agent'[b] \in {"running", "replying"} /\ b = worker'[job'[b]]
          /\ agent'[b] = "running" => work'[job'[b]] = "running"
          /\ agent'[b] = "replying" => work'[job'[b]] \in {"ok", "failed"}
      BY DEF JobInv
    <3>1. CASE b = a
      BY <2>3, <2>4, <2>5, <3>1, MessagingAssumption
    <3>2. CASE b # a
      <4>1. agent'[b] = agent[b] /\ job'[b] = job[b] /\ worker' = worker
        BY <2>4, <3>2
      <4>2. job[b] # Nobody => job[b] \in Requests
            /\ job[b] # Head(queue[a]).req
        BY Inv, <2>5, <3>2 DEF Inv, TypeOK, JobInv
      <4> QED BY Inv, <2>6, <4>1, <4>2 DEF Inv, JobInv
    <3> QED BY <3>1, <3>2
  <2>14. PhaseInv'
    BY Inv, <2>3, <2>4, <2>5, <2>6 DEF Inv, PhaseInv
  <2>15. ReplyBeatsQueue'
    <3>1. \A b \in Agents : agent'[b] = "replying" =>
            agent[b] = "replying" /\ job'[b] = job[b]
      BY <2>4
    <3> QED BY Inv, <2>4 DEF Inv, ReplyBeatsQueue
  <2> QED BY <2>7, <2>8, <2>9, <2>10, <2>11, <2>12, <2>13, <2>14, <2>15 DEF Inv
<1>16. ASSUME NEW a \in Agents, AgentDone(a) PROVE Inv'
  <2>1. job[a] \in Requests /\ agent[a] = "running" /\ work[job[a]] = "running"
        /\ a = worker[job[a]]
    BY Inv, <1>16 DEF Inv, TypeOK, JobInv, AgentDone
  <2>2. phase = "serving"
    BY Inv, <1>16 DEF Inv, PhaseInv, AgentDone
  <2>3. PICK v \in {"ok", "failed"} :
        /\ work' = [work EXCEPT ![job[a]] = v]
        /\ \/ /\ entry[job[a]] = Master
              /\ subtask' = Resolved(subtask, job[a], v)
              /\ agent' = [agent EXCEPT ![a] = "replying"]
              /\ UNCHANGED <<gateway, job>>
           \/ /\ gateway' = Resolved(gateway, job[a], v)
              /\ agent' = [agent EXCEPT ![a] = "idle"]
              /\ job' = [job EXCEPT ![a] = Nobody]
              /\ UNCHANGED subtask
    BY <1>16 DEF AgentDone
  <2>4. /\ work' \in [Requests -> {"none", "running", "ok", "failed", "cut"}]
        /\ agent' \in [Agents -> {"idle", "running", "replying", "stopped"}]
        /\ job' \in [Agents -> Requests \cup {Nobody}]
        /\ gateway' \in [Requests -> Futures]
        /\ subtask' \in [Requests -> Futures]
        /\ \A s \in Requests : work'[s] = IF s = job[a] THEN v ELSE work[s]
        /\ \A s \in Requests : gateway'[s] = gateway[s] \/ (s = job[a]
           /\ gateway[s] = "pending" /\ gateway'[s] = v)
        /\ \A s \in Requests : subtask'[s] = subtask[s] \/ (s = job[a]
           /\ subtask[s] = "pending" /\ subtask'[s] = v)
        /\ \A b \in Agents \ {a} : agent'[b] = agent[b] /\ job'[b] = job[b]
        /\ \/ agent'[a] = "replying" /\ job'[a] = job[a]
              /\ subtask'[job[a]] # "pending"
           \/ agent'[a] = "idle" /\ job'[a] = Nobody
        /\ UNCHANGED <<phase, entry, worker, queue, client, task, masterUp>>
    <3>1. UNCHANGED <<phase, entry, worker, queue, client, task, masterUp>>
      BY <1>16 DEF AgentDone, content
    <3>2. v \in Futures /\ v # "pending" /\ phase # "closed"
      BY <2>2 DEF Futures, Verdicts
    <3>3. /\ work' \in [Requests -> {"none", "running", "ok", "failed", "cut"}]
          /\ \A s \in Requests : work'[s] = IF s = job[a] THEN v ELSE work[s]
      BY Inv, <2>3 DEF Inv, TypeOK
    <3>4. gateway \in [Requests -> Futures]
          /\ subtask \in [Requests -> Futures]
      BY Inv DEF Inv, TypeOK
    <3>5. /\ agent \in [Agents -> {"idle", "running", "replying", "stopped"}]
          /\ job \in [Agents -> Requests \cup {Nobody}]
      BY Inv DEF Inv, TypeOK
    <3>6. CASE /\ subtask' = Resolved(subtask, job[a], v)
               /\ agent' = [agent EXCEPT ![a] = "replying"]
               /\ UNCHANGED <<gateway, job>>
      BY <2>1, <3>1, <3>2, <3>3, <3>4, <3>5, <3>6, ResolvedFacts
    <3>7. CASE /\ gateway' = Resolved(gateway, job[a], v)
               /\ agent' = [agent EXCEPT ![a] = "idle"]
               /\ job' = [job EXCEPT ![a] = Nobody]
               /\ UNCHANGED subtask
      BY <2>1, <3>1, <3>2, <3>3, <3>4, <3>5, <3>7, ResolvedFacts
    <3> QED BY <2>3, <3>6, <3>7
  <2>5. QueueInv' /\ RouteInv'
    BY Inv, <1>16 DEF Inv, AgentDone, content, QueueInv, RouteInv
  <2>6. TypeOK'
    BY Inv, <2>2, <2>3, <2>4 DEF Inv, TypeOK, Names, Futures, Phases
  <2>7. FreshInv'
    BY Inv, <2>1, <2>3, <2>4 DEF Inv, FreshInv, Fresh, Untouched, Nowhere
  <2>8. HeldInv'
    BY Inv, <2>1, <2>2, <2>3, <2>4 DEF Inv, HeldInv, Held, Nowhere
  <2>9. TruthInv'
    BY Inv, <2>1, <2>2, <2>3, <2>4 DEF Inv, TruthInv, Truth, Holds, Untouched,
       Nowhere
  <2>10. JobInv'
    BY Inv, <2>1, <2>3, <2>4 DEF Inv, JobInv
  <2>11. PhaseInv'
    BY Inv, <2>2, <2>3, <2>4 DEF Inv, PhaseInv
  <2>12. NoFutureLeaks'
    BY Inv, <2>2, <2>3, <2>4 DEF Inv, NoFutureLeaks
  <2>13. ReplyBeatsQueue'
    BY Inv, <2>3, <2>4 DEF Inv, ReplyBeatsQueue, JobInv
  <2> QED BY <2>5, <2>6, <2>7, <2>8, <2>9, <2>10, <2>11, <2>12, <2>13 DEF Inv
<1>17. ASSUME NEW a \in Agents, AgentReplied(a) PROVE Inv'
  <2>1. job[a] \in Requests
    BY Inv, <1>17 DEF Inv, TypeOK, JobInv, AgentReplied
  <2>2. /\ queue' \in [Names -> Seq(Messages)]
        /\ \A m \in Names : Len(queue'[m]) <= QueueMax
        /\ QueueInv'
        /\ \A m \in Names : Waiting(queue'[m]) = Waiting(queue[m])
    <3>1. CASE UNCHANGED queue
      BY Inv, <3>1 DEF Inv, TypeOK, QueueInv
    <3>2. CASE Put(Master, Reply(job[a]))
      BY Inv, <2>1, <3>2, ReplyStep DEF Inv
    <3> QED BY <1>17, <3>1, <3>2 DEF AgentReplied
  <2>3. RouteInv' /\ NoFutureLeaks'
    BY Inv, <1>17 DEF Inv, AgentReplied, content, RouteInv, NoFutureLeaks
  <2>4. TypeOK'
    BY Inv, <1>17, <2>2 DEF Inv, AgentReplied, content, TypeOK, Names, Futures,
       Verdicts, Answers, Phases
  <2>5. QueueInv'
    BY <2>2
  <2>6. FreshInv'
    BY Inv, <1>17, <2>1, <2>2 DEF Inv, AgentReplied, content, FreshInv, Fresh,
       Untouched, Nowhere
  <2>7. HeldInv'
    BY Inv, <1>17, <2>1, <2>2, NameFacts DEF Inv, AgentReplied, content,
       HeldInv, Held, Nowhere, Untouched
  <2>8. TruthInv'
    BY Inv, <1>17, <2>2 DEF Inv, AgentReplied, content, TruthInv, Truth, Holds,
       Untouched, Nowhere, FreshInv, Fresh, HeldInv, Held, JobInv, TypeOK
  <2>9. JobInv'
    BY Inv, <1>17, <2>1, <2>2 DEF Inv, AgentReplied, content, JobInv, TypeOK
  <2>10. PhaseInv'
    BY Inv, <1>17, <2>1, <2>2 DEF Inv, AgentReplied, PhaseInv
  <2>11. ReplyBeatsQueue'
    BY Inv, <1>17, <2>2 DEF Inv, AgentReplied, content, ReplyBeatsQueue,
       JobInv, HeldInv, Held, PhaseInv, TypeOK
  <2> QED BY <2>3, <2>4, <2>5, <2>6, <2>7, <2>8, <2>9, <2>10, <2>11 DEF Inv
<1>18. CASE StopAgents
  <2>1. QueueInv' /\ RouteInv'
    BY Inv, <1>18 DEF Inv, StopAgents, content, QueueInv, RouteInv
  <2>2. TypeOK'
    BY Inv, <1>18 DEF Inv, StopAgents, content, TypeOK, Names, Futures,
       Verdicts, Answers, Phases
  <2>3. FreshInv'
    BY Inv, <1>18 DEF Inv, StopAgents, content, FreshInv, Fresh, Untouched,
       Nowhere
  <2>4. HeldInv'
    BY Inv, <1>18 DEF Inv, StopAgents, content, HeldInv, Held, Nowhere,
       Untouched
  <2>5. TruthInv'
    BY Inv, <1>18 DEF Inv, StopAgents, content, TruthInv, Truth, Holds,
       Untouched, Nowhere, FreshInv, Fresh, HeldInv, Held, JobInv
  <2>6. JobInv'
    BY Inv, <1>18 DEF Inv, StopAgents, JobInv
  <2>7. PhaseInv'
    BY Inv, <1>18 DEF Inv, StopAgents, PhaseInv
  <2>8. NoFutureLeaks'
    BY Inv, <1>18 DEF Inv, StopAgents, content, NoFutureLeaks, PhaseInv
  <2>9. ReplyBeatsQueue'
    BY Inv, <1>18 DEF Inv, StopAgents, ReplyBeatsQueue
  <2> QED BY <2>1, <2>2, <2>3, <2>4, <2>5, <2>6, <2>7, <2>8, <2>9 DEF Inv
<1>19. CASE Unregister
  <2>1. QueueInv' /\ RouteInv' /\ FreshInv' /\ HeldInv' /\ TruthInv' /\ JobInv'
        /\ ReplyBeatsQueue'
    BY Inv, <1>19 DEF Inv, Unregister, content, QueueInv, RouteInv, FreshInv,
       Fresh, Untouched, Nowhere, HeldInv, Held, TruthInv, Truth, Holds,
       JobInv, ReplyBeatsQueue
  <2>2. TypeOK'
    BY Inv, <1>19 DEF Inv, Unregister, content, TypeOK, Names, Futures, Phases
  <2>3. PhaseInv'
    BY Inv, <1>19 DEF Inv, Unregister, PhaseInv
  <2>4. NoFutureLeaks'
    BY Inv, <1>19 DEF Inv, Unregister, content, NoFutureLeaks, PhaseInv
  <2> QED BY <2>1, <2>2, <2>3, <2>4 DEF Inv
<1>20. CASE CloseOrchestrator
  <2>1. QueueInv' /\ RouteInv' /\ JobInv'
    BY Inv, <1>20 DEF Inv, CloseOrchestrator, content, QueueInv, RouteInv,
       JobInv
  <2>2. TypeOK'
    BY Inv, <1>20 DEF Inv, CloseOrchestrator, content, TypeOK, Names, Futures,
       Verdicts, Answers, Phases
  <2>3. FreshInv'
    BY Inv, <1>20 DEF Inv, CloseOrchestrator, content, FreshInv, Fresh,
       Untouched, Nowhere
  <2>4. HeldInv'
    BY Inv, <1>20 DEF Inv, CloseOrchestrator, content, HeldInv, Held, Nowhere,
       Untouched
  <2>5. TruthInv'
    BY Inv, <1>20 DEF Inv, CloseOrchestrator, content, TruthInv, Truth, Holds,
       Untouched, Nowhere, FreshInv, Fresh, HeldInv, Held, JobInv
  <2>6. PhaseInv'
    BY Inv, <1>20 DEF Inv, CloseOrchestrator, PhaseInv
  <2>7. NoFutureLeaks'
    BY Inv, <1>20 DEF Inv, CloseOrchestrator, NoFutureLeaks
  <2>8. ReplyBeatsQueue'
    BY Inv, <1>20 DEF Inv, CloseOrchestrator, content, ReplyBeatsQueue, JobInv,
       HeldInv, Held, PhaseInv
  <2> QED BY <2>1, <2>2, <2>3, <2>4, <2>5, <2>6, <2>7, <2>8 DEF Inv
<1>21. CASE CloseBus
  <2>1. QueueInv' /\ RouteInv' /\ HeldInv' /\ JobInv'
    BY Inv, <1>21 DEF Inv, CloseBus, content, QueueInv, RouteInv, HeldInv,
       Held, Nowhere, JobInv
  <2>2. TypeOK'
    BY Inv, <1>21 DEF Inv, CloseBus, content, Dropped, TypeOK, Names, Futures,
       Verdicts, Answers, Phases
  <2>3. FreshInv'
    BY Inv, <1>21 DEF Inv, CloseBus, content, Dropped, FreshInv, Fresh,
       Untouched, Nowhere
  <2>4. TruthInv'
    BY Inv, <1>21 DEF Inv, CloseBus, content, Dropped, TruthInv, Truth, Holds,
       Untouched, Nowhere
  <2>5. PhaseInv'
    BY Inv, <1>21 DEF Inv, CloseBus, content, Dropped, PhaseInv
  <2>6. NoFutureLeaks'
    BY Inv, <1>21 DEF Inv, CloseBus, Dropped, NoFutureLeaks, PhaseInv
  <2>7. ReplyBeatsQueue'
    BY Inv, <1>21 DEF Inv, CloseBus, Dropped, ReplyBeatsQueue, JobInv, HeldInv,
       Held, PhaseInv
  <2> QED BY <2>1, <2>2, <2>3, <2>4, <2>5, <2>6, <2>7 DEF Inv
<1>22. CASE UNCHANGED vars
  BY Inv, <1>22 DEF vars, Inv, FreshInv, Fresh, HeldInv, Held, Holds, JobInv,
     NoFutureLeaks, Nowhere, PhaseInv, QueueInv, ReplyBeatsQueue, RouteInv,
     TruthInv, Truth, TypeOK, Untouched
<1> QED
  BY <1>1, <1>2, <1>3, <1>4, <1>5, <1>6, <1>7, <1>8, <1>9, <1>10, <1>11, <1>12,
     <1>13, <1>14, <1>15, <1>16, <1>17, <1>18, <1>19, <1>20, <1>21, <1>22 DEF
     Next, ClientStep, TaskStep, AgentStep, Shutdown

\* The invariant holds of every reachable state.
LEMMA Invariance == Spec => []Inv
BY InitInv, NextInv, PTL DEF Spec

-----------------------------------------------------------------------------
(* The theorems.                                                           *)

\* Every state is well typed: in particular no queue ever holds more messages
\* than its bound, whatever is sent (bus.py:36, bus.py:80).
THEOREM MessagingTypes == Spec => []TypeOK
<1>1. Inv => TypeOK
  BY DEF Inv
<1> QED BY <1>1, Invariance, PTL

\* A future is in a registry only while its waiter waits for it, and a closed
\* bus leaves nobody waiting (reply_registry.py:1, bus.py:174).
THEOREM RegistriesDoNotLeak == Spec => []NoFutureLeaks
<1>1. Inv => NoFutureLeaks
  BY DEF Inv
<1> QED BY <1>1, Invariance, PTL

\* An agent that waits for room at the master has told the task already
\* (bus.py:76).
THEOREM ReplyAheadOfQueue == Spec => []ReplyBeatsQueue
<1>1. Inv => ReplyBeatsQueue
  BY DEF Inv
<1> QED BY <1>1, Invariance, PTL

\* After the orchestrator is closed no task and no agent is at work
\* (container.py:234).
THEOREM ShutdownIsQuiet == Spec => []QuietAfterClose
<1>1. Inv => QuietAfterClose
  BY DEF Inv, PhaseInv, QuietAfterClose
<1> QED BY <1>1, Invariance, PTL

-----------------------------------------------------------------------------
(* Messaging implements RequestPromise.                                    *)

\* What the client of r has been told.
Told(r) == IF client[r] \in Answers THEN client[r] ELSE "none"

\* The two modules have the same answers, and a handler that is still at it
\* has given none.
LEMMA AnswerFacts ==
  /\ Answers = Promise!Answers
  /\ "idle" \notin Answers /\ "put" \notin Answers /\ "wait" \notin Answers
  /\ "none" \notin Answers
  /\ {"unavailable", "timeout", "cancelled"} \subseteq Answers
  /\ Verdicts \subseteq Answers
BY DEF Answers, Verdicts, Promise!Answers, Promise!Verdicts

\* A handler that answers tells its client.
LEMMA AnswerTells ==
  ASSUME Inv, NEW r \in Requests, NEW v \in Answers,
         client[r] \in {"idle", "put", "wait"},
         client' = [client EXCEPT ![r] = v],
         UNCHANGED work,
         Holds(v, r)
  PROVE  Promise!Tell(r, v)
<1>1. client \in [Requests -> {"idle", "put", "wait"} \cup Answers]
  BY DEF Inv, TypeOK
<1>2. Told(r) = "none"
  BY AnswerFacts DEF Told
<1>3. [s \in Requests |-> Told(s)]'
        = [[s \in Requests |-> Told(s)] EXCEPT ![r] = v]
  BY <1>1 DEF Told
<1>4. Promise!Truthful(v, work[r])
  BY DEF Holds, Untouched, Promise!Truthful
<1> QED BY <1>2, <1>3, <1>4 DEF Promise!Tell, Told

\* A step that gives no answer and changes no work is none of the promise.
LEMMA Silent ==
  ASSUME \A s \in Requests : Told(s)' = Told(s), UNCHANGED work
  PROVE  UNCHANGED Promise!promiseVars
BY DEF Promise!promiseVars, Told

\* Initially nothing is done and nobody told.
LEMMA PromiseInitially == Init => Promise!PromiseInit
BY AnswerFacts DEF Init, Promise!PromiseInit

\* Every step of the system is one of the promise, or none.
LEMMA PromiseStep ==
  Inv /\ [Next]_vars => [Promise!PromiseNext]_(Promise!promiseVars)
<1> SUFFICES ASSUME Inv, [Next]_vars
             PROVE  [Promise!PromiseNext]_(Promise!promiseVars)
  OBVIOUS
<1>1. ASSUME NEW r \in Requests, NEW v \in Answers, Promise!Tell(r, v)
      PROVE  Promise!PromiseNext
  BY <1>1, AnswerFacts DEF Promise!PromiseNext
<1>2. CASE UNCHANGED <<client, work>>
  BY <1>2, Silent DEF Told
<1>3. ASSUME NEW r \in Requests, Ask(r)
      PROVE  [Promise!PromiseNext]_(Promise!promiseVars)
  <2>1. UNCHANGED work /\ client[r] = "idle"
    BY <1>3 DEF Ask
  <2>2. CASE client' = [client EXCEPT ![r] = "put"]
    <3>1. \A s \in Requests : Told(s)' = Told(s)
      BY <2>1, <2>2, AnswerFacts DEF Inv, TypeOK, Told
    <3> QED BY <2>1, <3>1, Silent
  <2>3. CASE client' = [client EXCEPT ![r] = "unavailable"]
    <3>1. Holds("unavailable", r)
      BY <2>1 DEF Inv, FreshInv, Fresh, Holds
    <3> QED BY <1>1, <2>1, <2>3, <3>1, AnswerTells, AnswerFacts
  <2> QED BY <1>3, <2>2, <2>3 DEF Ask, Answer
<1>4. ASSUME NEW r \in Requests, ClientPut(r)
      PROVE  [Promise!PromiseNext]_(Promise!promiseVars)
  <2>1. UNCHANGED work /\ client[r] = "put"
    BY <1>4 DEF ClientPut
  <2>2. CASE client' = [client EXCEPT ![r] = "wait"]
    <3>1. \A s \in Requests : Told(s)' = Told(s)
      BY <2>1, <2>2, AnswerFacts DEF Inv, TypeOK, Told
    <3> QED BY <2>1, <3>1, Silent
  <2>3. CASE client' = [client EXCEPT ![r] = "timeout"]
    <3>1. Holds("timeout", r)
      BY DEF Holds
    <3> QED BY <1>1, <2>1, <2>3, <3>1, AnswerTells, AnswerFacts
  <2> QED BY <1>4, <2>2, <2>3 DEF ClientPut, Answer
<1>5. ASSUME NEW r \in Requests, ClientPutTimeout(r) PROVE Promise!PromiseNext
  <2>1. /\ UNCHANGED work /\ client[r] = "put"
        /\ client' = [client EXCEPT ![r] = "unavailable"]
    BY <1>5 DEF ClientPutTimeout, Answer
  <2>2. Holds("unavailable", r)
    BY <2>1 DEF Inv, FreshInv, Fresh, Holds
  <2> QED BY <1>1, <2>1, <2>2, AnswerTells, AnswerFacts
<1>6. ASSUME NEW r \in Requests, ClientReply(r) PROVE Promise!PromiseNext
  <2>1. /\ UNCHANGED work /\ client[r] = "wait" /\ gateway[r] \in Answers
        /\ client' = [client EXCEPT ![r] = gateway[r]]
    BY <1>6 DEF ClientReply, Answer, Answers
  <2>2. Holds(gateway[r], r)
    BY DEF Inv, TruthInv, Truth
  <2> QED BY <1>1, <2>1, <2>2, AnswerTells
<1>7. ASSUME NEW r \in Requests, ClientTimeout(r) PROVE Promise!PromiseNext
  <2>1. /\ UNCHANGED work /\ client[r] = "wait"
        /\ client' = [client EXCEPT ![r] = "timeout"]
    BY <1>7 DEF ClientTimeout, Answer
  <2>2. Holds("timeout", r)
    BY DEF Holds
  <2> QED BY <1>1, <2>1, <2>2, AnswerTells, AnswerFacts
<1>8. ASSUME NEW r \in Requests, ClientGone(r) PROVE Promise!PromiseNext
  <2>1. /\ UNCHANGED work /\ client[r] \in {"put", "wait"}
        /\ client' = [client EXCEPT ![r] = "cancelled"]
    BY <1>8 DEF ClientGone, Answer
  <2>2. Holds("cancelled", r)
    BY DEF Holds
  <2> QED BY <1>1, <2>1, <2>2, AnswerTells, AnswerFacts
<1>9. ASSUME NEW a \in Agents, AgentTake(a) PROVE Promise!PromiseNext
  <2> DEFINE r == Head(queue[a]).req
  <2>1. UNCHANGED client /\ work' = [work EXCEPT ![r] = "running"]
    BY <1>9 DEF AgentTake
  <2>2. a \in Names /\ r \in Requests /\ r \in Waiting(queue[a])
    <3>1. a \in Names /\ queue[a] # <<>>
      BY <1>9, NameFacts DEF AgentTake
    <3> QED BY <1>9, <3>1, TakeStep, TaskFacts DEF Inv, AgentTake
  <2> HIDE DEF r
  <2>3. work[r] = "none"
    BY <2>2 DEF Inv, HeldInv, Held
  <2>4. Told(r) \notin {"unavailable", "refused"}
    <3>1. ~Untouched(r)
      BY <2>2 DEF Untouched, Nowhere
    <3> QED BY <2>2, <3>1 DEF Inv, TruthInv, Truth, Holds, Told
  <2>5. Promise!Begin(r)
    BY <2>1, <2>2, <2>3, <2>4 DEF Promise!Begin, Told
  <2> QED BY <2>2, <2>5 DEF Promise!PromiseNext
<1>10. ASSUME NEW a \in Agents, AgentDone(a) PROVE Promise!PromiseNext
  <2>1. job[a] \in Requests /\ work[job[a]] = "running"
    <3>1. job[a] # Nobody /\ work[job[a]] = "running"
      BY <1>10 DEF AgentDone, Inv, JobInv
    <3> QED BY <3>1 DEF Inv, TypeOK
  <2>2. PICK v \in {"ok", "failed"} : work' = [work EXCEPT ![job[a]] = v]
    BY <1>10 DEF AgentDone
  <2>3. UNCHANGED client
    BY <1>10 DEF AgentDone
  <2>4. Promise!End(job[a], v)
    BY <2>1, <2>2, <2>3 DEF Promise!End
  <2> QED BY <2>1, <2>4 DEF Promise!PromiseNext
<1>11. ASSUME StopAgents PROVE Promise!PromiseNext
  BY <1>11 DEF StopAgents, Promise!PromiseNext, Promise!Cut
<1>12. CASE \/ UNCHANGED vars \/ MasterTake
            \/ \E r \in Requests : TaskStep(r)
            \/ \E a \in Agents : AgentReplied(a)
            \/ Unregister \/ CloseOrchestrator \/ CloseBus
  <2>1. UNCHANGED <<client, work>>
    BY <1>12 DEF vars, MasterTake, TaskStep, TaskAnswers, OwnVerdicts, TaskAsks, TaskPut,
       TaskPutTimeout, TaskReply, TaskTimeout, TaskPolished, AgentReplied,
       Unregister, CloseOrchestrator, CloseBus
  <2> QED BY <1>2, <2>1
<1> QED
  BY <1>3, <1>4, <1>5, <1>6, <1>7, <1>8, <1>9, <1>10, <1>11, <1>12
     DEF Next, ClientStep, AgentStep, Shutdown

\* A client may believe its answer: success is of work that succeeded, and
\* "unavailable" of work that no agent did or will do (agent_service.py:81-102,
\* orchestrator.py:171-225).
THEOREM ImplementsPromise == Spec => KeepsPromise
BY PromiseInitially, PromiseStep, Invariance, PTL
   DEF Spec, KeepsPromise, Promise!PromiseSpec

-----------------------------------------------------------------------------
(* Every run comes to an end.                                              *)

\* How far the handler, the master task and the work of a request are.  Work is
\* over when its agent has got rid of the reply.
ClientStage(r) ==
  IF client[r] = "idle" THEN 0 ELSE IF client[r] = "put" THEN 1
  ELSE IF client[r] = "wait" THEN 2 ELSE 3
TaskRank ==
  [none |-> 0, queued |-> 1, put |-> 2, wait |-> 3, polish |-> 4, over |-> 5]
TaskStage(r) == TaskRank[task[r]]
Replying(r) == \E a \in Agents : agent[a] = "replying" /\ job[a] = r
WorkStage(r) ==
  IF work[r] = "none" THEN 0 ELSE IF work[r] = "running" THEN 1
  ELSE IF Replying(r) THEN 2 ELSE 3
Stage(r) == ClientStage(r) + TaskStage(r) + WorkStage(r)

PhaseRank == [serving |-> 0, stopping |-> 1, unregistered |-> 2, idle |-> 3, closed |-> 4]

\* Neither part of a request goes back.
Keeps(r) ==
  /\ ClientStage(r)' >= ClientStage(r)
  /\ TaskStage(r)' >= TaskStage(r)
  /\ WorkStage(r)' >= WorkStage(r)

\* The master drops a reply that send has handed to its task already.
DropsReply == Len(queue'[Master]) < Len(queue[Master])

\* No request is handled, delegated or worked on twice, and the system cannot run
\* for ever: no step takes a request back, and each one takes a request further,
\* through at most eleven stages, or the shutdown, or else drops a reply from the
\* queue of the master.  That holds with queues full or empty, before, during
\* and after the shutdown, with every timeout and cancellation.
RequestsAdvance ==
  /\ [](\A r \in Requests : Stage(r) \in 0 .. 11)
  /\ [][/\ \A r \in Requests : Keeps(r)
        /\ \/ \E r \in Requests : Stage(r)' > Stage(r)
           \/ PhaseRank[phase'] > PhaseRank[phase]
           \/ DropsReply]_vars

LEMMA RankFacts ==
  /\ TaskRank["none"] = 0 /\ TaskRank["queued"] = 1 /\ TaskRank["put"] = 2
  /\ TaskRank["wait"] = 3 /\ TaskRank["polish"] = 4 /\ TaskRank["over"] = 5
  /\ PhaseRank["serving"] = 0 /\ PhaseRank["stopping"] = 1
  /\ PhaseRank["unregistered"] = 2 /\ PhaseRank["idle"] = 3 /\ PhaseRank["closed"] = 4
BY DEF TaskRank, PhaseRank

LEMMA StageFacts ==
  ASSUME Inv, NEW r \in Requests
  PROVE  /\ ClientStage(r) \in 0 .. 3 /\ TaskStage(r) \in 0 .. 5 /\ WorkStage(r) \in 0 .. 3
         /\ Stage(r) \in 0 .. 11
<1>1. ClientStage(r) \in 0 .. 3 /\ WorkStage(r) \in 0 .. 3
  BY DEF ClientStage, WorkStage
<1>2. TaskStage(r) \in 0 .. 5
  <2>1. task[r] \in {"none", "queued", "put", "wait", "polish", "over"}
    BY DEF Inv, TypeOK
  <2>2. QED
    BY <2>1, RankFacts DEF TaskStage
<1>3. QED
  BY <1>1, <1>2 DEF Stage

\* A part of a request that comes further takes its request further.
LEMMA Rises ==
  ASSUME Inv, Inv', NEW r \in Requests, Keeps(r),
         \/ ClientStage(r)' > ClientStage(r) \/ TaskStage(r)' > TaskStage(r)
         \/ WorkStage(r)' > WorkStage(r)
  PROVE  Stage(r)' > Stage(r)
<1>1. ClientStage(r) \in Nat /\ TaskStage(r) \in Nat /\ WorkStage(r) \in Nat
  BY StageFacts
<1>2. ClientStage(r)' \in Nat /\ TaskStage(r)' \in Nat /\ WorkStage(r)' \in Nat
  <2>1. Inv' => ClientStage(r)' \in 0 .. 3 /\ WorkStage(r)' \in 0 .. 3
    BY DEF ClientStage, WorkStage
  <2>2. TaskStage(r)' \in 0 .. 5
    <3>1. task'[r] \in {"none", "queued", "put", "wait", "polish", "over"}
      BY DEF Inv, TypeOK
    <3>2. QED
      BY <3>1, RankFacts DEF TaskStage
  <2>3. QED
    BY <2>1, <2>2
<1>3. QED
  BY <1>1, <1>2 DEF Keeps, Stage

\* What is left alone stays where it is.
LEMMA Stays ==
  ASSUME Inv, NEW r \in Requests
  PROVE  /\ client'[r] = client[r] => ClientStage(r)' = ClientStage(r)
         /\ task'[r] = task[r] => TaskStage(r)' = TaskStage(r)
         /\ work'[r] = work[r] /\ agent' = agent /\ job' = job => WorkStage(r)' = WorkStage(r)
         /\ ClientStage(r) >= ClientStage(r) /\ TaskStage(r) >= TaskStage(r)
         /\ WorkStage(r) >= WorkStage(r)
<1>1. ClientStage(r) \in Nat /\ TaskStage(r) \in Nat /\ WorkStage(r) \in Nat
  BY StageFacts
<1>2. /\ client'[r] = client[r] => ClientStage(r)' = ClientStage(r)
      /\ task'[r] = task[r] => TaskStage(r)' = TaskStage(r)
      /\ work'[r] = work[r] /\ agent' = agent /\ job' = job => WorkStage(r)' = WorkStage(r)
  BY DEF ClientStage, TaskStage, WorkStage, Replying
<1>3. QED
  BY <1>1, <1>2

\* A handler only goes on.
LEMMA ClientMoves ==
  ASSUME Inv, NEW r \in Requests, Ask(r) \/ ClientStep(r) \/ ClientGone(r)
  PROVE  /\ \A s \in Requests : Keeps(s)
         /\ ClientStage(r)' > ClientStage(r)
<1>1. /\ UNCHANGED <<task, agent, job, work>>
      /\ \A s \in Requests \ {r} : client'[s] = client[s]
  BY DEF Inv, TypeOK, Ask, ClientStep, ClientPut, ClientPutTimeout, ClientReply,
     ClientTimeout, ClientGone, Answer
<1>2. ClientStage(r)' > ClientStage(r)
  <2>1. client \in [Requests -> {"idle", "put", "wait"} \cup Answers]
    BY DEF Inv, TypeOK
  <2>2. \A v \in Answers : v \notin {"idle", "put", "wait"}
    BY AnswerFacts
  <2>3. \/ client[r] = "idle" /\ client'[r] \in {"put"} \cup Answers
        \/ client[r] = "put" /\ client'[r] \in {"wait"} \cup Answers
        \/ client[r] = "wait" /\ client'[r] \in Answers
    BY <2>1 DEF Ask, ClientStep, ClientPut, ClientPutTimeout, ClientReply,
       ClientTimeout, ClientGone, Answer, Answers, Verdicts
  <2>4. QED
    BY <2>2, <2>3 DEF ClientStage
<1>3. \A s \in Requests : Keeps(s)
  <2>1. ClientStage(r) \in Nat /\ ClientStage(r)' \in Nat
    BY DEF ClientStage
  <2>2. QED
    BY <1>1, <1>2, <2>1, Stays DEF Keeps
<1>4. QED
  BY <1>2, <1>3

\* A master task only goes on.
LEMMA TaskMoves ==
  ASSUME Inv, NEW r \in Requests, TaskStep(r)
  PROVE  /\ \A s \in Requests : Keeps(s)
         /\ TaskStage(r)' > TaskStage(r)
<1>1. /\ UNCHANGED <<client, agent, job, work>>
      /\ \A s \in Requests \ {r} : task'[s] = task[s]
  BY DEF Inv, TypeOK, TaskStep, TaskAnswers, TaskAsks, TaskPut, TaskPutTimeout,
     TaskReply, TaskTimeout, TaskPolished, Final
<1>2. \/ task[r] = "queued" /\ task'[r] \in {"put", "over"}
      \/ task[r] = "put" /\ task'[r] \in {"wait", "over"}
      \/ task[r] = "wait" /\ task'[r] \in {"polish", "over"}
      \/ task[r] = "polish" /\ task'[r] = "over"
  BY DEF Inv, TypeOK, TaskStep, TaskAnswers, TaskAsks, TaskPut, TaskPutTimeout,
     TaskReply, TaskTimeout, TaskPolished, Final
<1>3. /\ TaskStage(r)' > TaskStage(r)
      /\ TaskStage(r)' >= TaskStage(r)
  BY <1>2, RankFacts DEF TaskStage
<1>4. \A s \in Requests : Keeps(s)
  BY <1>1, <1>3, Stays DEF Keeps
<1>5. QED
  BY <1>3, <1>4

\* The master submits a request once, and only drops a reply.
LEMMA MasterMoves ==
  ASSUME Inv, MasterTake
  PROVE  /\ \A s \in Requests : Keeps(s)
         /\ (\E r \in Requests : TaskStage(r)' > TaskStage(r)) \/ DropsReply
<1> DEFINE m == Head(queue[Master])
<1>1. /\ Master \in Names /\ queue[Master] # <<>> /\ UNCHANGED <<client, agent, job, work>>
      /\ queue' = [queue EXCEPT ![Master] = Tail(@)]
      /\ task' = IF m.kind = "reply" THEN task ELSE [task EXCEPT ![m.req] = "queued"]
  BY NameFacts DEF MasterTake
<1>2. m \in Messages /\ (m.kind # "reply" => m.req \in Waiting(queue[Master]))
  BY <1>1, TakeStep DEF Inv
<1>3. PICK r \in Requests : r = m.req
  BY <1>2, TaskFacts
<1> HIDE DEF m
<1>4. CASE m.kind = "reply"
  <2>1. \A s \in Requests : Keeps(s)
    BY <1>1, <1>4, Stays DEF Keeps
  <2>2. DropsReply
    <3>1. queue[Master] \in Seq(Messages) /\ queue'[Master] = Tail(queue[Master])
      BY <1>1 DEF Inv, TypeOK
    <3>2. Len(Tail(queue[Master])) < Len(queue[Master])
      BY <1>1, <3>1
    <3>3. QED
      BY <3>1, <3>2 DEF DropsReply
  <2>3. QED
    BY <2>1, <2>2
<1>5. CASE m.kind # "reply"
  <2>1. task[r] = "none"
    BY <1>2, <1>3, <1>5 DEF Inv, HeldInv, Held
  <2>2. task'[r] = "queued" /\ \A s \in Requests \ {r} : task'[s] = task[s]
    BY <1>1, <1>3, <1>5 DEF Inv, TypeOK
  <2>3. TaskStage(r)' > TaskStage(r) /\ TaskStage(r)' >= TaskStage(r)
    BY <2>1, <2>2, RankFacts DEF TaskStage
  <2>4. \A s \in Requests : Keeps(s)
    BY <1>1, <2>2, <2>3, Stays DEF Keeps
  <2>5. QED
    BY <1>3, <2>3, <2>4
<1>6. QED
  BY <1>4, <1>5

\* An agent works on a request once, and replies once.
LEMMA AgentMoves ==
  ASSUME Inv, NEW a \in Agents, AgentStep(a)
  PROVE  /\ \A s \in Requests : Keeps(s)
         /\ \E r \in Requests : WorkStage(r)' > WorkStage(r)
<1>1. /\ client' = client /\ task' = task
      /\ \A b \in Agents \ {a} : agent'[b] = agent[b] /\ job'[b] = job[b]
  BY DEF Inv, TypeOK, AgentStep, AgentTake, AgentDone, AgentReplied
<1>2. \A b \in Agents : agent[b] = "replying" /\ job[b] \in Requests => b = worker[job[b]]
  BY MessagingAssumption DEF Inv, JobInv
<1>3. ASSUME NEW r \in Requests, \A s \in Requests \ {r} : WorkStage(s)' = WorkStage(s),
             WorkStage(r)' > WorkStage(r)
      PROVE  /\ \A s \in Requests : Keeps(s)
             /\ \E s \in Requests : WorkStage(s)' > WorkStage(s)
  <2>1. WorkStage(r)' >= WorkStage(r) /\ \A s \in Requests : WorkStage(s) >= WorkStage(s)
    BY <1>3, Stays DEF WorkStage
  <2>2. \A s \in Requests : Keeps(s)
    BY <1>1, <1>3, <2>1, Stays DEF Keeps
  <2>3. QED
    BY <1>3, <2>2
<1>4. ASSUME AgentTake(a)
      PROVE  /\ \A s \in Requests : Keeps(s)
             /\ \E s \in Requests : WorkStage(s)' > WorkStage(s)
  <2>1. /\ a \in Names /\ queue[a] # <<>> /\ agent[a] = "idle"
        /\ queue' = [queue EXCEPT ![a] = Tail(@)]
    BY <1>4, NameFacts DEF AgentTake
  <2>2. Head(queue[a]) \in Messages /\ Head(queue[a]).req \in Waiting(queue[a])
    BY <2>1, TakeStep, TaskFacts DEF Inv
  <2>3. PICK r \in Requests : r = Head(queue[a]).req
    BY <2>2, TaskFacts
  <2>4. work[r] = "none" /\ work'[r] = "running" /\ agent'[a] = "running"
          /\ \A s \in Requests \ {r} : work'[s] = work[s]
    BY <1>4, <2>2, <2>3 DEF AgentTake, Inv, TypeOK, HeldInv, Held
  <2>5. \A s \in Requests : Replying(s)' = Replying(s)
    BY <1>1, <2>1, <2>4 DEF Replying
  <2>6. \A s \in Requests \ {r} : WorkStage(s)' = WorkStage(s)
    BY <2>4, <2>5 DEF WorkStage
  <2>7. WorkStage(r)' > WorkStage(r)
    BY <2>4 DEF WorkStage
  <2>8. QED
    BY <1>3, <2>6, <2>7
<1>5. ASSUME AgentDone(a)
      PROVE  /\ \A s \in Requests : Keeps(s)
             /\ \E s \in Requests : WorkStage(s)' > WorkStage(s)
  <2>1. PICK r \in Requests : r = job[a] /\ work[r] = "running"
    BY <1>5 DEF AgentDone, Inv, JobInv, TypeOK
  <2>2. agent[a] = "running" /\ work'[r] \in {"ok", "failed"}
          /\ \A s \in Requests \ {r} : work'[s] = work[s]
    BY <1>5, <2>1 DEF AgentDone, Inv, TypeOK
  <2>3. \/ agent'[a] = "replying" /\ job'[a] = r
        \/ agent'[a] = "idle"
    BY <1>5, <2>1 DEF AgentDone, Inv, TypeOK
  <2>4. \A s \in Requests \ {r} : Replying(s)' = Replying(s)
    BY <1>1, <2>2, <2>3 DEF Replying
  <2>5. \A s \in Requests \ {r} : WorkStage(s)' = WorkStage(s)
    BY <2>2, <2>4 DEF WorkStage
  <2>6. WorkStage(r)' > WorkStage(r)
    BY <2>1, <2>2 DEF WorkStage
  <2>7. QED
    BY <1>3, <2>5, <2>6
<1>6. ASSUME AgentReplied(a)
      PROVE  /\ \A s \in Requests : Keeps(s)
             /\ \E s \in Requests : WorkStage(s)' > WorkStage(s)
  <2>1. PICK r \in Requests : r = job[a] /\ work[r] \in {"ok", "failed"}
    BY <1>6 DEF AgentReplied, Inv, JobInv, TypeOK
  <2>2. agent[a] = "replying" /\ agent'[a] = "idle" /\ work' = work
    BY <1>6 DEF AgentReplied, Inv, TypeOK
  <2>3. \A s \in Requests \ {r} : Replying(s)' = Replying(s)
    BY <1>1, <2>1, <2>2 DEF Replying
  <2>4. Replying(r) /\ ~Replying(r)'
    BY <1>1, <1>2, <2>1, <2>2 DEF Replying
  <2>5. \A s \in Requests \ {r} : WorkStage(s)' = WorkStage(s)
    BY <2>2, <2>3 DEF WorkStage
  <2>6. WorkStage(r)' > WorkStage(r)
    BY <2>1, <2>2, <2>4 DEF WorkStage
  <2>7. QED
    BY <1>3, <2>5, <2>6
<1>7. QED
  BY <1>4, <1>5, <1>6 DEF AgentStep

\* The shutdown ends work and tasks, and goes on.
LEMMA ShutdownMoves ==
  ASSUME Inv, Shutdown
  PROVE  (\A s \in Requests : Keeps(s)) /\ PhaseRank[phase'] > PhaseRank[phase]
<1>1. PhaseRank[phase'] > PhaseRank[phase]
  BY RankFacts DEF Shutdown, StopAgents, Unregister, CloseOrchestrator, CloseBus
<1>2. client' = client
  BY DEF Shutdown, StopAgents, Unregister, CloseOrchestrator, CloseBus
<1>3. ASSUME StopAgents, NEW s \in Requests
      PROVE  Keeps(s)
  <2>1. task' = task /\ work'[s] = IF work[s] = "running" THEN "cut" ELSE work[s]
    BY <1>3 DEF StopAgents
  <2>2. ~Replying(s)'
    BY <1>3 DEF StopAgents, Replying
  <2>3. WorkStage(s)' >= WorkStage(s)
    BY <2>1, <2>2 DEF WorkStage
  <2>4. QED
    BY <1>2, <2>1, <2>3, Stays DEF Keeps
<1>4. ASSUME Unregister \/ CloseBus, NEW s \in Requests
      PROVE  Keeps(s)
  <2>1. UNCHANGED <<task, work, agent, job>>
    BY <1>4 DEF Unregister, CloseBus
  <2>2. QED
    BY <1>2, <2>1, Stays DEF Keeps
<1>5. ASSUME CloseOrchestrator, NEW s \in Requests
      PROVE  Keeps(s)
  <2>1. UNCHANGED <<work, agent, job>>
          /\ task'[s] = IF task[s] = "none" THEN "none" ELSE "over"
    BY <1>5 DEF CloseOrchestrator
  <2>2. task[s] \in {"none", "queued", "put", "wait", "polish", "over"}
    BY DEF Inv, TypeOK
  <2>3. TaskStage(s)' >= TaskStage(s)
    BY <2>1, <2>2, RankFacts DEF TaskStage
  <2>4. QED
    BY <1>2, <2>1, <2>3, Stays DEF Keeps
<1>6. QED
  BY <1>1, <1>3, <1>4, <1>5 DEF Shutdown

\* Whatever the code does takes a request or the shutdown further, or drops a
\* reply: agent_service.py:81, orchestrator.py:171, bus.py:76, container.py:234.
THEOREM EveryStepAdvances == Spec => RequestsAdvance
<1>1. Inv => \A r \in Requests : Stage(r) \in 0 .. 11
  BY StageFacts
<1>2. Inv /\ [Next]_vars =>
        [/\ \A r \in Requests : Keeps(r)
         /\ \/ \E r \in Requests : Stage(r)' > Stage(r)
            \/ PhaseRank[phase'] > PhaseRank[phase]
            \/ DropsReply]_vars
  <2> SUFFICES ASSUME Inv, Next
               PROVE  /\ \A r \in Requests : Keeps(r)
                      /\ \/ \E r \in Requests : Stage(r)' > Stage(r)
                         \/ PhaseRank[phase'] > PhaseRank[phase]
                         \/ DropsReply
    OBVIOUS
  <2>1. Inv'
    BY NextInv
  <2>2. ASSUME \A r \in Requests : Keeps(r), NEW r \in Requests,
               \/ ClientStage(r)' > ClientStage(r) \/ TaskStage(r)' > TaskStage(r)
               \/ WorkStage(r)' > WorkStage(r)
        PROVE  Stage(r)' > Stage(r)
    BY <2>1, <2>2, Rises
  <2>3. ASSUME NEW r \in Requests, Ask(r) \/ ClientStep(r) \/ ClientGone(r)
        PROVE  (\A s \in Requests : Keeps(s)) /\ Stage(r)' > Stage(r)
    BY <2>2, <2>3, ClientMoves
  <2>4. ASSUME NEW r \in Requests, TaskStep(r)
        PROVE  (\A s \in Requests : Keeps(s)) /\ Stage(r)' > Stage(r)
    BY <2>2, <2>4, TaskMoves
  <2>5. ASSUME MasterTake
        PROVE  /\ \A s \in Requests : Keeps(s)
               /\ (\E r \in Requests : Stage(r)' > Stage(r)) \/ DropsReply
    BY <2>2, <2>5, MasterMoves
  <2>6. ASSUME NEW a \in Agents, AgentStep(a)
        PROVE  /\ \A s \in Requests : Keeps(s)
               /\ \E r \in Requests : Stage(r)' > Stage(r)
    BY <2>2, <2>6, AgentMoves
  <2>7. QED
    BY <2>3, <2>4, <2>5, <2>6, ShutdownMoves DEF Next
<1>3. QED
  BY <1>1, <1>2, Invariance, PTL DEF Spec, RequestsAdvance

-----------------------------------------------------------------------------
(* The bounded queues never block one another.                             *)

\* The work of r is before its agent, or the master has r in hand.
AtAgent(r) ==
  \/ r \in Waiting(queue[worker[r]])
  \/ agent[worker[r]] = "running" /\ job[worker[r]] = r
AtMaster(r) ==
  r \in Waiting(queue[Master]) \/ task[r] \in {"queued", "put", "wait", "polish"}

\* Whoever waits has its future, and somebody who will resolve it.
Owed(r) ==
  /\ client[r] \in {"put", "wait"} => gateway[r] \in Verdicts \cup {"pending"}
  /\ client[r] = "wait" /\ gateway[r] = "pending" =>
       IF entry[r] = Master THEN AtMaster(r) ELSE AtAgent(r)
  /\ task[r] \in {"put", "wait"} => subtask[r] \in Verdicts \cup {"pending"}
  /\ task[r] = "wait" /\ subtask[r] = "pending" => AtAgent(r)

Served ==
  phase = "serving" =>
    /\ masterUp /\ \A a \in Agents : agent[a] # "stopped"
    /\ \A r \in Requests : Owed(r)

\* Somebody waits, or something is to be done.
Busy ==
  \/ \E r \in Requests : client[r] \in {"put", "wait"} \/ task[r] \notin {"none", "over"}
  \/ \E a \in Agents : agent[a] # "idle"
  \/ \E n \in Names : queue[n] # <<>>

\* The guards of the steps that are no timeout and no cancellation.
CanGoOn ==
  \/ \E r \in Requests :
       \/ client[r] = "put" /\ ~Full(entry[r])
       \/ client[r] = "wait" /\ gateway[r] \in Verdicts
       \/ task[r] = "queued" /\ HasSlot
       \/ task[r] = "put" /\ ~Full(worker[r])
       \/ task[r] = "wait" /\ subtask[r] \in Verdicts
       \/ task[r] = "polish"
  \/ masterUp /\ queue[Master] # <<>>
  \/ \E a \in Agents :
       \/ agent[a] = "idle" /\ queue[a] # <<>>
       \/ agent[a] = "running"
       \/ agent[a] = "replying" /\ ~Full(Master)

\* While the service runs nobody waits in a circle: handlers that wait for room
\* at the master or an agent, tasks that wait for a slot, for room or for a reply,
\* and agents that wait for room at the master.  Whatever is full, somebody can
\* go on without a timeout.
NeverStuck == phase = "serving" /\ Busy => CanGoOn

\* A resolved future is not pending.
LEMMA ResolvedTells ==
  ASSUME phase = "serving", NEW F \in [Requests -> Futures], NEW r \in Requests,
         NEW v \in Verdicts
  PROVE  /\ \A s \in Requests \ {r} : Resolved(F, r, v)[s] = F[s]
         /\ Resolved(F, r, v)[r] # "pending"
         /\ F[r] \in Verdicts \cup {"pending"} => Resolved(F, r, v)[r] \in Verdicts
<1>1. v \in Futures /\ "pending" \notin Verdicts
  BY DEF Futures, Verdicts
<1>2. QED
  BY <1>1, ResolvedFacts DEF Resolved

\* A task ends and tells the handler, if it still waits.
LEMMA FinalOwes ==
  ASSUME Inv, Served, phase = "serving", NEW r \in Requests, NEW v \in Verdicts,
         Final(r, v), UNCHANGED <<phase, content, queue, client, agent, job, masterUp>>,
         subtask' \in {subtask, Discarded(subtask, r)}
  PROVE  Served'
<1>1. /\ gateway \in [Requests -> Futures] /\ subtask \in [Requests -> Futures]
      /\ task \in [Requests -> {"none", "queued", "put", "wait", "polish", "over"}]
  BY DEF Inv, TypeOK
<1>2. /\ gateway' = Resolved(gateway, r, v) /\ task'[r] = "over"
      /\ \A s \in Requests \ {r} : task'[s] = task[s] /\ subtask'[s] = subtask[s]
  BY <1>1 DEF Final, Discarded
<1>3. /\ \A s \in Requests \ {r} : gateway'[s] = gateway[s]
      /\ gateway'[r] # "pending"
      /\ gateway[r] \in Verdicts \cup {"pending"} => gateway'[r] \in Verdicts
  BY <1>1, <1>2, ResolvedTells
<1>4. Owed(r)'
  BY <1>2, <1>3 DEF Owed, Served, content
<1>5. \A s \in Requests \ {r} : Owed(s)'
  BY <1>2, <1>3 DEF Owed, Served, content, AtAgent, AtMaster
<1>6. QED
  BY <1>4, <1>5 DEF Served

LEMMA ServedInitially == Init => Served
BY DEF Init, Served, Owed

\* A handler waits for what it has sent.
LEMMA ClientOwes ==
  ASSUME Inv, Served, phase = "serving", NEW r \in Requests,
         Ask(r) \/ ClientStep(r) \/ ClientGone(r)
  PROVE  Served'
<1>1. /\ client \in [Requests -> {"idle", "put", "wait"} \cup Answers]
      /\ gateway \in [Requests -> Futures] /\ entry[r] \in Names
  BY DEF Inv, TypeOK
<1>2. \A v \in Answers : v \notin {"idle", "put", "wait"}
  BY AnswerFacts
<1>3. ASSUME NEW v \in Answers, Answer(r, v),
             UNCHANGED <<phase, content, subtask, task, agent, job, masterUp>>,
             \A n \in Names : Waiting(queue[n]) \subseteq Waiting(queue'[n])
      PROVE  Served'
  <2>1. /\ client'[r] = v
        /\ \A s \in Requests \ {r} : client'[s] = client[s] /\ gateway'[s] = gateway[s]
    BY <1>1, <1>3 DEF Answer, Discarded
  <2>2. worker \in [Requests -> Agents] /\ \A a \in Agents : a \in Names
    BY NameFacts DEF Inv, TypeOK
  <2>3. \A s \in Requests : (AtAgent(s) => AtAgent(s)') /\ (AtMaster(s) => AtMaster(s)')
    BY <1>3, <2>2, NameFacts DEF AtAgent, AtMaster, content
  <2>4. Owed(r)'
    BY <1>2, <1>3, <2>1, <2>3 DEF Served, Owed, content
  <2>5. \A s \in Requests \ {r} : Owed(s)'
    BY <1>3, <2>1, <2>3 DEF Served, Owed, content
  <2>6. QED
    BY <1>3, <2>4, <2>5 DEF Served
<1>4. CASE Ask(r)
  <2>1. /\ client' = [client EXCEPT ![r] = "put"] /\ gateway' = [gateway EXCEPT ![r] = "pending"]
        /\ UNCHANGED <<phase, content, queue, subtask, task, agent, job, masterUp>>
    BY <1>4 DEF Ask, Registered
  <2>2. Owed(r)'
    BY <1>1, <2>1 DEF Served, Owed, content, AtAgent
  <2>3. \A s \in Requests \ {r} : Owed(s)'
    BY <1>1, <2>1 DEF Served, Owed, content, AtAgent, AtMaster
  <2>4. QED
    BY <2>1, <2>2, <2>3 DEF Served
<1>5. CASE ClientPut(r)
  <2>1. r \notin Waiting(queue[entry[r]])
    BY <1>1, <1>5 DEF Inv, ClientPut, FreshInv, Fresh, Untouched, Nowhere
  <2>2. \A m \in Names : Waiting(queue'[m]) =
             IF m = entry[r] THEN Waiting(queue[m]) \cup {r} ELSE Waiting(queue[m])
    BY <1>1, <1>5, <2>1, PutStep DEF Inv, ClientPut
  <2>3. gateway[r] # "absent"
    BY <1>5 DEF Served, Owed, ClientPut, Verdicts
  <2>4. /\ client' = [client EXCEPT ![r] = "wait"]
        /\ UNCHANGED <<phase, content, gateway, subtask, task, agent, job, masterUp>>
    BY <1>5, <2>3 DEF ClientPut
  <2>5. worker \in [Requests -> Agents] /\ entry[r] \in {Master, worker[r]}
    BY DEF Inv, TypeOK, RouteInv
  <2>6. \A s \in Requests : (AtAgent(s) => AtAgent(s)') /\ (AtMaster(s) => AtMaster(s)')
    BY <2>2, <2>4, <2>5, NameFacts DEF AtAgent, AtMaster, content
  <2>7. IF entry[r] = Master THEN AtMaster(r)' ELSE AtAgent(r)'
    BY <1>1, <2>2, <2>4, <2>5 DEF AtAgent, AtMaster, content
  <2>8. Owed(r)'
    BY <1>1, <1>5, <2>4, <2>6, <2>7 DEF Served, Owed, content, ClientPut
  <2>9. \A s \in Requests \ {r} : Owed(s)'
    BY <1>1, <2>4, <2>6 DEF Served, Owed, content
  <2>10. QED
    BY <2>4, <2>8, <2>9 DEF Served
<1>6. CASE ClientPutTimeout(r) \/ ClientReply(r) \/ ClientTimeout(r) \/ ClientGone(r)
  <2>1. /\ UNCHANGED <<phase, content, queue, subtask, task, agent, job, masterUp>>
        /\ \E v \in Answers : Answer(r, v)
    BY <1>6 DEF ClientPutTimeout, ClientReply, ClientTimeout, ClientGone, Answers, Verdicts
  <2>2. QED
    BY <1>3, <2>1
<1>7. QED
  BY <1>4, <1>5, <1>6 DEF ClientStep

\* A task waits for the agent it has asked.
LEMMA TaskOwes ==
  ASSUME Inv, Served, phase = "serving", NEW r \in Requests, TaskStep(r)
  PROVE  Served'
<1>1. /\ task \in [Requests -> {"none", "queued", "put", "wait", "polish", "over"}]
      /\ subtask \in [Requests -> Futures] /\ worker \in [Requests -> Agents]
      /\ \A a \in Agents : a \in Names
  BY NameFacts DEF Inv, TypeOK
<1>2. CASE TaskAsks(r)
  <2>1. /\ task[r] = "queued" /\ task' = [task EXCEPT ![r] = "put"]
        /\ subtask' = [subtask EXCEPT ![r] = "pending"]
        /\ UNCHANGED <<phase, content, queue, gateway, client, agent, job, masterUp>>
    BY <1>2 DEF TaskAsks, Registered
  <2>2. Owed(r)'
    BY <1>1, <2>1 DEF Served, Owed, content, AtAgent, AtMaster
  <2>3. \A s \in Requests \ {r} : Owed(s)'
    BY <1>1, <2>1 DEF Served, Owed, content, AtAgent, AtMaster
  <2>4. QED
    BY <2>1, <2>2, <2>3 DEF Served
<1>3. CASE TaskPut(r)
  <2>1. r \notin Waiting(queue[worker[r]])
    BY <1>1, <1>3 DEF Inv, TaskPut, HeldInv, Held, Nowhere
  <2>2. \A m \in Names : Waiting(queue'[m]) =
             IF m = worker[r] THEN Waiting(queue[m]) \cup {r} ELSE Waiting(queue[m])
    BY <1>1, <1>3, <2>1, PutStep DEF Inv, TaskPut
  <2>3. /\ task[r] = "put" /\ task' = [task EXCEPT ![r] = "wait"]
        /\ UNCHANGED <<phase, content, gateway, subtask, client, agent, job, masterUp>>
    BY <1>3 DEF TaskPut
  <2>4. AtAgent(r)' /\ AtMaster(r)'
    BY <1>1, <2>2, <2>3 DEF AtAgent, AtMaster, content
  <2>5. \A s \in Requests \ {r} : (AtAgent(s) => AtAgent(s)') /\ (AtMaster(s) => AtMaster(s)')
    BY <1>1, <2>2, <2>3, NameFacts DEF AtAgent, AtMaster, content
  <2>6. Owed(r)'
    BY <1>1, <2>3, <2>4 DEF Served, Owed, content
  <2>7. \A s \in Requests \ {r} : Owed(s)'
    BY <1>1, <2>3, <2>5 DEF Served, Owed, content
  <2>8. QED
    BY <2>3, <2>6, <2>7 DEF Served
<1>4. CASE TaskReply(r) /\ task' = [task EXCEPT ![r] = "polish"] /\ gateway' = gateway
  <2>1. /\ task'[r] = "polish" /\ task[r] = "wait"
        /\ \A s \in Requests \ {r} : task'[s] = task[s]
        /\ UNCHANGED <<phase, content, queue, gateway, client, agent, job, masterUp>>
    BY <1>1, <1>4 DEF TaskReply
  <2>2. \A s \in Requests \ {r} : subtask'[s] = subtask[s]
    BY <1>1, <1>4 DEF TaskReply, Discarded
  <2>3. Owed(r)'
    BY <2>1 DEF Served, Owed, content, AtAgent, AtMaster
  <2>4. \A s \in Requests \ {r} : Owed(s)'
    BY <2>1, <2>2 DEF Served, Owed, content, AtAgent, AtMaster
  <2>5. QED
    BY <2>1, <2>3, <2>4 DEF Served
<1>5. CASE \/ TaskAnswers(r) \/ TaskPutTimeout(r) \/ TaskTimeout(r) \/ TaskPolished(r)
           \/ TaskReply(r) /\ Final(r, subtask[r])
  <2>1. /\ \E v \in Verdicts : Final(r, v)
        /\ UNCHANGED <<phase, content, queue, client, agent, job, masterUp>>
        /\ subtask' \in {subtask, Discarded(subtask, r)}
    BY <1>5 DEF TaskAnswers, TaskPutTimeout, TaskTimeout, TaskPolished, TaskReply,
       OwnVerdicts, Verdicts
  <2>2. QED
    BY <2>1, FinalOwes
<1>6. QED
  BY <1>2, <1>3, <1>4, <1>5 DEF TaskStep, TaskReply

\* What the master takes from its queue it has in hand.
LEMMA MasterOwes == ASSUME Inv, Served, phase = "serving", MasterTake PROVE Served'
<1> DEFINE m == Head(queue[Master])
<1>1. /\ Master \in Names /\ queue[Master] # <<>>
      /\ queue' = [queue EXCEPT ![Master] = Tail(@)]
      /\ UNCHANGED <<phase, content, gateway, subtask, client, agent, job, masterUp>>
      /\ task' = IF m.kind = "reply" THEN task ELSE [task EXCEPT ![m.req] = "queued"]
  BY NameFacts DEF MasterTake
<1>2. /\ m \in Messages
      /\ m.kind # "reply" => m.req \in Waiting(queue[Master])
      /\ \A n \in Names : Waiting(queue'[n]) =
           IF n = Master /\ m.kind # "reply"
           THEN Waiting(queue[n]) \ {Head(queue[n]).req} ELSE Waiting(queue[n])
  BY <1>1, TakeStep DEF Inv
<1>3. PICK r \in Requests : r = m.req
  BY <1>2, TaskFacts
<1>4. IF m.kind # "reply" THEN Waiting(queue'[Master]) = Waiting(queue[Master]) \ {r}
       ELSE Waiting(queue'[Master]) = Waiting(queue[Master])
  BY <1>1, <1>2, <1>3
<1>5. m.kind # "reply" => task[r] = "none"
  BY <1>2, <1>3 DEF Inv, HeldInv, Held
<1>6. /\ \A s \in Requests : task'[s] = task[s] \/ (s = r /\ task'[s] = "queued")
      /\ m.kind # "reply" => task'[r] = "queued"
  BY <1>1, <1>3 DEF Inv, TypeOK
<1>7. worker \in [Requests -> Agents]
  BY DEF Inv, TypeOK
<1> HIDE DEF m
<1>8. \A s \in Requests : AtAgent(s) => AtAgent(s)'
  BY <1>1, <1>2, <1>7, NameFacts DEF AtAgent, content
<1>9. \A s \in Requests : AtMaster(s) => AtMaster(s)'
  <2> SUFFICES ASSUME NEW s \in Requests, AtMaster(s)
               PROVE  AtMaster(s)'
    OBVIOUS
  <2>1. CASE s = r /\ m.kind # "reply"
    BY <1>6, <2>1 DEF AtMaster
  <2>2. CASE ~(s = r /\ m.kind # "reply")
    <3>1. s \in Waiting(queue[Master]) => s \in Waiting(queue'[Master])
      BY <1>4, <2>2
    <3>2. task'[s] = task[s] \/ task'[s] = "queued"
      BY <1>6
    <3>3. QED
      BY <3>1, <3>2 DEF AtMaster
  <2>3. QED
    BY <2>1, <2>2
<1>10. \A s \in Requests : Owed(s)'
  BY <1>1, <1>6, <1>8, <1>9 DEF Served, Owed, content
<1>11. QED
  BY <1>1, <1>10 DEF Served

\* An agent has what it takes from its queue, until it has told whoever asked.
LEMMA AgentOwes == ASSUME Inv, Served, phase = "serving", NEW a \in Agents, AgentStep(a) PROVE Served'
<1>1. /\ gateway \in [Requests -> Futures] /\ subtask \in [Requests -> Futures]
      /\ worker \in [Requests -> Agents] /\ agent \in [Agents -> {"idle", "running", "replying", "stopped"}]
      /\ job \in [Agents -> Requests \cup {Nobody}] /\ a \in Names
  BY NameFacts DEF Inv, TypeOK
<1>2. \A b \in Agents \ {a} : agent'[b] = agent[b] /\ job'[b] = job[b]
  BY <1>1 DEF AgentStep, AgentTake, AgentDone, AgentReplied
<1>3. CASE AgentTake(a)
  <2>1. /\ queue[a] # <<>> /\ agent[a] = "idle" /\ agent'[a] = "running"
        /\ queue' = [queue EXCEPT ![a] = Tail(@)]
        /\ job'[a] = Head(queue[a]).req
        /\ UNCHANGED <<phase, content, gateway, subtask, client, task, masterUp>>
    BY <1>1, <1>3 DEF AgentTake
  <2>2. Head(queue[a]).kind = "task" /\ Head(queue[a]) \in Messages
    BY <1>1, <2>1, TakeStep DEF Inv
  <2>3. /\ Head(queue[a]).req \in Waiting(queue[a])
        /\ \A n \in Names : Waiting(queue'[n]) =
             IF n = a THEN Waiting(queue[n]) \ {Head(queue[n]).req} ELSE Waiting(queue[n])
    BY <1>1, <2>1, <2>2, TakeStep DEF Inv
  <2>4. PICK r \in Requests : r = Head(queue[a]).req
    BY <2>2, TaskFacts
  <2>5. worker[r] = a
    BY <2>3, <2>4 DEF Inv, HeldInv, Held
  <2>6. \A s \in Requests : AtAgent(s) => AtAgent(s)'
    <3> SUFFICES ASSUME NEW s \in Requests, AtAgent(s)
                 PROVE  AtAgent(s)'
      OBVIOUS
    <3>1. CASE s = r
      BY <2>1, <2>4, <2>5, <3>1 DEF AtAgent, content
    <3>2. CASE s # r
      <4>1. \A n \in Names : s \in Waiting(queue[n]) => s \in Waiting(queue'[n])
        BY <2>3, <2>4, <3>2
      <4>2. worker[s] \in Agents /\ worker[s] \in Names
        BY <1>1, NameFacts
      <4>3. QED
        BY <1>2, <2>1, <4>1, <4>2 DEF AtAgent, content
    <3>3. QED
      BY <3>1, <3>2
  <2>7. \A s \in Requests : AtMaster(s) => AtMaster(s)'
    BY <2>1, <2>3, NameFacts DEF AtMaster
  <2>8. \A s \in Requests : Owed(s)'
    BY <2>1, <2>6, <2>7 DEF Served, Owed, content
  <2>9. QED
    BY <1>2, <2>1, <2>8 DEF Served
<1>4. CASE AgentDone(a)
  <2>1. PICK r \in Requests : r = job[a] /\ work[r] = "running"
    BY <1>4 DEF AgentDone, Inv, JobInv, TypeOK
  <2>2. /\ agent[a] = "running" /\ agent'[a] \in {"idle", "replying"}
        /\ UNCHANGED <<phase, content, queue, client, task, masterUp>>
        /\ \E v \in {"ok", "failed"} :
             IF entry[r] = Master THEN subtask' = Resolved(subtask, r, v) /\ gateway' = gateway
             ELSE gateway' = Resolved(gateway, r, v) /\ subtask' = subtask
    BY <1>1, <1>4, <2>1 DEF AgentDone
  <2>3. /\ \A s \in Requests \ {r} : gateway'[s] = gateway[s] /\ subtask'[s] = subtask[s]
        /\ gateway[r] \in Verdicts \cup {"pending"} => gateway'[r] \in Verdicts \cup {"pending"}
        /\ subtask[r] \in Verdicts \cup {"pending"} => subtask'[r] \in Verdicts \cup {"pending"}
        /\ IF entry[r] = Master THEN subtask'[r] # "pending" /\ gateway'[r] = gateway[r]
           ELSE gateway'[r] # "pending"
    <3>1. {"ok", "failed"} \subseteq Verdicts
      BY DEF Verdicts
    <3>2. QED
      BY <1>1, <2>2, <3>1, ResolvedTells
  <2>4. \A s \in Requests \ {r} : AtAgent(s) => AtAgent(s)'
    BY <1>1, <1>2, <2>1, <2>2 DEF AtAgent, content
  <2>5. \A s \in Requests : AtMaster(s) => AtMaster(s)'
    BY <2>2 DEF AtMaster
  <2>6. task[r] # "none" => entry[r] = Master
    BY DEF Inv, HeldInv, Held
  <2>7. Owed(r)'
    BY <2>2, <2>3, <2>5, <2>6 DEF Served, Owed, content
  <2>8. \A s \in Requests \ {r} : Owed(s)'
    BY <2>2, <2>3, <2>4, <2>5 DEF Served, Owed, content
  <2>9. QED
    BY <1>2, <2>2, <2>7, <2>8 DEF Served
<1>5. CASE AgentReplied(a)
  <2>1. /\ agent[a] = "replying" /\ agent'[a] = "idle"
        /\ UNCHANGED <<phase, content, gateway, subtask, client, task, masterUp>>
        /\ Put(Master, Reply(job[a])) \/ UNCHANGED queue
    BY <1>1, <1>5 DEF AgentReplied
  <2>2. job[a] \in Requests
    BY <1>1, <2>1 DEF Inv, JobInv
  <2>3. \A n \in Names : Waiting(queue'[n]) = Waiting(queue[n])
    BY <2>1, <2>2, ReplyStep DEF Inv
  <2>4. \A s \in Requests : (AtAgent(s) => AtAgent(s)') /\ (AtMaster(s) => AtMaster(s)')
    BY <1>1, <1>2, <2>1, <2>3, NameFacts DEF AtAgent, AtMaster, content
  <2>5. \A s \in Requests : Owed(s)'
    BY <2>1, <2>4 DEF Served, Owed, content
  <2>6. QED
    BY <1>2, <2>1, <2>5 DEF Served
<1>6. QED
  BY <1>3, <1>4, <1>5 DEF AgentStep

LEMMA ServedInvariance == Spec => []Served
<1>1. Inv /\ Served /\ [Next]_vars => Served'
  <2> SUFFICES ASSUME Inv, Served, [Next]_vars, phase' = "serving"
               PROVE  Served'
    BY DEF Served
  <2>1. CASE UNCHANGED vars
    BY <2>1 DEF vars, content, Served, Owed, AtAgent, AtMaster
  <2>2. CASE Next
    <3>1. phase = "serving" /\ ~Shutdown
      BY <2>2 DEF Next, Shutdown, StopAgents, Unregister, CloseOrchestrator, CloseBus,
         Ask, ClientStep, ClientPut, ClientPutTimeout, ClientReply, ClientTimeout, ClientGone,
         TaskStep, TaskAnswers, TaskAsks, TaskPut, TaskPutTimeout, TaskReply, TaskTimeout,
         TaskPolished, MasterTake, AgentStep, AgentTake, AgentDone, AgentReplied
    <3>2. QED
      BY <2>2, <3>1, ClientOwes, TaskOwes, MasterOwes, AgentOwes DEF Next
  <2>3. QED
    BY <2>1, <2>2
<1>2. QED
  BY <1>1, ServedInitially, Invariance, PTL DEF Spec

\* Suppose nobody can go on: then the master's queue is empty and no agent is at
\* work, so all queues are empty and have room, no task holds a slot, and whoever
\* still waits has been told.
LEMMA SomebodyGoesOn == ASSUME Inv, Served, phase = "serving", Busy, ~CanGoOn PROVE FALSE
<1>1. /\ queue \in [Names -> Seq(Messages)] /\ worker \in [Requests -> Agents]
      /\ entry \in [Requests -> Names] /\ \A a \in Agents : a \in Names
      /\ agent \in [Agents -> {"idle", "running", "replying", "stopped"}]
      /\ task \in [Requests -> {"none", "queued", "put", "wait", "polish", "over"}]
      /\ QueueMax # 0
  BY NameFacts, MessagingAssumption DEF Inv, TypeOK
<1>2. queue[Master] = <<>>
  BY DEF CanGoOn, Served
<1>3. \A n \in Names : queue[n] = <<>> => ~Full(n) /\ Waiting(queue[n]) = {}
  BY <1>1 DEF Full, Waiting
<1>4. \A a \in Agents : agent[a] = "idle" /\ queue[a] = <<>>
  BY <1>1, <1>2, <1>3, NameFacts DEF CanGoOn, Served
<1>5. \A n \in Names : queue[n] = <<>>
  BY <1>2, <1>4, NameFacts
<1>6. \A r \in Requests : ~AtAgent(r) /\ r \notin Waiting(queue[Master])
  BY <1>1, <1>3, <1>4, <1>5, NameFacts DEF AtAgent
<1>7. \A r \in Requests : task[r] \in {"none", "queued", "over"}
  BY <1>1, <1>3, <1>5, <1>6 DEF CanGoOn, Served, Owed
<1>8. HasSlot
  <2>1. Active = {}
    BY <1>7 DEF Active
  <2>2. QED
    BY <2>1, FS_EmptySet, MessagingAssumption DEF HasSlot
<1>9. \A r \in Requests : task[r] \in {"none", "over"}
  BY <1>7, <1>8 DEF CanGoOn
<1>10. \A r \in Requests : client[r] \notin {"put", "wait"}
  BY <1>1, <1>3, <1>5, <1>6, <1>9 DEF CanGoOn, Served, Owed, AtMaster
<1>11. QED
  BY <1>4, <1>5, <1>9, <1>10 DEF Busy

\* No bounded queue, slot or reply is waited for in a circle: bus.py:80 puts a
\* reply behind the future it resolves, and the loop of the master waits for none.
THEOREM NobodyWaitsInACircle == Spec => []NeverStuck
<1>1. Inv /\ Served => NeverStuck
  BY SomebodyGoesOn DEF NeverStuck
<1>2. QED
  BY <1>1, Invariance, ServedInvariance, PTL
=============================================================================
