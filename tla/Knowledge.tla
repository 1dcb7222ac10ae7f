------------------------------ MODULE Knowledge ------------------------------
(***************************************************************************)
(* Retrieval from the knowledge base (modules/rag/, agents/rag/): several  *)
(* questions at a time, each looked up in a cache in Redis, else by two    *)
(* channels at once, by vectors and by words, in a table that a script     *)
(* (scripts/reembed_vectors.py) empties and fills again meanwhile, or is   *)
(* killed in the middle of it.  What was found is ranked, cached and given *)
(* to a model: the RAG agent's answers with citations and names the        *)
(* channels that failed, customer service replies in any case and says     *)
(* only whether the retrieval failed as a whole.                           *)
(*                                                                         *)
(* A document is a row of the table; scores are left out: vectors find     *)
(* rows with an embedding, words find the rows that have them, both up to  *)
(* a limit, and the cross-encoder keeps some of those that are relevant.   *)
(***************************************************************************)
EXTENDS Naturals, FiniteSets

CONSTANTS
  Asks,        \* retrievals, by the RAG agent or by customer service
  Helps,       \* those by customer service
  Questions,   \* what may be asked, with its price limit and count
  Language,    \* the language it is asked in, or NoLanguage
  Production,  \* APP_ENV is production
  Stores,      \* tenants with their stores, and NoScope
  NoScope, NoLanguage,
  Label,       \* what _scope_hash makes of a store: tenant and store with a colon
               \* between, not one label for each when the names have colons too
  Docs,        \* the documents, in the table or not
  StoreOf, LanguageOf,   \* of a document
  Priced,      \* Priced[q]: the documents within the price limit of question q
  Words,       \* Words[q]: the documents with a word of question q
  Relevant,    \* Relevant[q]: those the cross-encoder keeps
  Goods,       \* the documents the script would make of the goods
  Limit,       \* candidate_limit: how many documents a search returns
  TopK,        \* how many the ranking keeps
  MaxConcurrent,  \* RAG_MAX_CONCURRENT
  MaxRuns      \* bound: how often the script is started

ASSUME KnowledgeAssumption ==
  /\ IsFiniteSet(Asks) /\ Helps \subseteq Asks
  /\ NoScope \in Stores /\ DOMAIN Label = Stores
  /\ \A s \in Stores \ {NoScope} : Label[s] # Label[NoScope]
  /\ StoreOf \in [Docs -> Stores] /\ DOMAIN LanguageOf = Docs
  /\ Priced \in [Questions -> SUBSET Docs]
  /\ Words \in [Questions -> SUBSET Docs] /\ Relevant \in [Questions -> SUBSET Docs]
  /\ Goods \subseteq Docs /\ Production \in BOOLEAN
  /\ MaxConcurrent \in Nat \ {0} /\ MaxRuns \in Nat
  /\ Limit \in Nat \ {0} /\ TopK \in Nat
  /\ \A d \in Docs : StoreOf[d] # NoScope /\ LanguageOf[d] # NoLanguage

VARIABLES
  rows,      \* the rows of the table
  vectors,   \* those with an embedding
  script,    \* the script: where it is, and what it has still to insert
  runs,
  cache,     \* what Redis holds, by key
  ask        \* ask[r]: how far a retrieval is, and what it has found

table == <<rows, vectors>>
vars == <<table, script, runs, cache, ask>>

-----------------------------------------------------------------------------
\* owed and whole are for the properties: what a search had to find, and whether
\* all of that was ranked.
NoEntry == [found |-> FALSE, docs |-> {}, failed |-> {}, whole |-> TRUE]
Keys == Questions \X {Label[s] : s \in Stores}

\* Fault: the store is not part of the key.
KeyForAll(r) == <<ask[r].question, Label[NoScope]>>
\* _cache_key: the version of the index is a setting, and changes by hand only.
Key(r) == <<ask[r].question, Label[ask[r].scope]>>

Asked(q, s) ==
  [at |-> "new", question |-> q, scope |-> s, vector |-> "probe", words |-> "search",
   docs |-> {}, failed |-> {}, owed |-> {}, whole |-> TRUE, error |-> FALSE,
   answer |-> "none"]
Channels == {"vector", "words"}

Init ==
  /\ rows \in {{}, Docs} /\ vectors \in {{}, rows}
  /\ script = [at |-> "idle", todo |-> {}] /\ runs = 0
  /\ cache = [k \in Keys |-> NoEntry]
  /\ ask \in [Asks -> {Asked(q, s) : q \in Questions, s \in Stores}]

\* What a search sees: the rows of the store within the price, in the language,
\* or in all.
Visible(r) == {d \in Priced[ask[r].question] :
                 ask[r].scope # NoScope => StoreOf[d] = ask[r].scope}
Spoken(r) == {d \in Docs : Language # NoLanguage => LanguageOf[d] = Language}

Change(r, a) == ask' = [ask EXCEPT ![r] = a]
Set(r, field, value) == ask' = [ask EXCEPT ![r][field] = value]

-----------------------------------------------------------------------------
(* A retrieval.                                                            *)

Known(r) == Production => ask[r].scope # NoScope
\* LIMIT: all there are, or as many as the limit lets through.
Cut(docs, limit) ==
  IF Cardinality(docs) <= limit THEN {docs}
                                ELSE {some \in SUBSET docs : Cardinality(some) = limit}

\* Nothing is answered, and nothing kept of the retrieval.
Drop(r) == Change(r, [Asked(ask[r].question, NoScope) EXCEPT !.at = "done"])

\* The retrieval ends with an error: the RAG agent answers nothing, customer
\* service replies without knowledge.
EndInError(r) ==
  Change(r, [Asked(ask[r].question, NoScope) EXCEPT
               !.at = IF r \in Helps THEN "answer" ELSE "done", !.error = TRUE])

\* An unknown store is refused in production; elsewhere it searches all.
Refuse(r) ==
  /\ ask[r].at = "new" /\ ~Known(r)
  /\ EndInError(r)
  /\ UNCHANGED <<table, script, runs, cache>>

\* _load_cache: a hit is told as it was found; no Redis is a miss.
Hit(r) ==
  /\ ask[r].at = "new" /\ Known(r) /\ cache[Key(r)].found
  /\ Change(r, [ask[r] EXCEPT !.at = "answer", !.docs = cache[Key(r)].docs,
                  !.failed = cache[Key(r)].failed, !.whole = cache[Key(r)].whole])
  /\ UNCHANGED <<table, script, runs, cache>>
Missed(r) ==
  /\ ask[r].at = "new" /\ Known(r)
  /\ Set(r, "at", "wait")
  /\ UNCHANGED <<table, script, runs, cache>>

\* get_rag_semaphore bounds the searches, not the cache or the answers.
Searching == {r \in Asks : ask[r].at = "search"}
\* Fault: every search gets in.
EnterAnyway(r) ==
  /\ ask[r].at = "wait"
  /\ Change(r, [ask[r] EXCEPT !.at = "search", !.owed = vectors \cap Visible(r) \cap Spoken(r)])
  /\ UNCHANGED <<table, script, runs, cache>>
Enter(r) ==
  /\ ask[r].at = "wait" /\ Cardinality(Searching) < MaxConcurrent
  /\ Change(r, [ask[r] EXCEPT !.at = "search", !.owed = vectors \cap Visible(r) \cap Spoken(r)])
  /\ UNCHANGED <<table, script, runs, cache>>

\* _vector_channel: is there a row with an embedding (a probe that fails is
\* ignored); the embedding of the question, from a cache of its own or from the
\* model; the search, and once more in all languages when there was nothing in
\* the one asked for.  What the limit cuts off is not owed.
NoVector(r) == Change(r, [ask[r] EXCEPT !.vector = "done", !.failed = @ \cup {"vector"}])
\* Fault: without an embedding the channel finds nothing.
EmbedFailsQuietly(r) ==
  /\ ask[r].at = "search" /\ ask[r].vector = "probe"
  /\ Set(r, "vector", "search") \/ Set(r, "vector", "empty")
  /\ UNCHANGED <<table, script, runs, cache>>
Embed(r) ==
  /\ ask[r].at = "search" /\ ask[r].vector = "probe"
  /\ Set(r, "vector", "search") \/ NoVector(r)
  /\ UNCHANGED <<table, script, runs, cache>>
\* rrf_fuse: a document both channels find is one document.
Fused(docs, found) == docs \cup found
Near(r, stage) ==
  vectors \cap Visible(r) \cap (IF stage = "search" THEN Spoken(r) ELSE Docs)
SearchVectors(r) ==
  /\ ask[r].at = "search" /\ ask[r].vector \in {"search", "again"}
  /\ \/ \E found \in Cut(Near(r, ask[r].vector), Limit) :
        IF found = {} /\ ask[r].vector = "search" /\ Language # NoLanguage
          THEN Set(r, "vector", "again")
          ELSE Change(r, [ask[r] EXCEPT !.vector = IF found = {} THEN "empty" ELSE "done",
                             !.docs = Fused(@, found),
                             !.owed = IF found = Near(r, ask[r].vector) THEN @ ELSE @ \cap found])
     \/ NoVector(r)
  /\ UNCHANGED <<table, script, runs, cache>>

\* _lexical_channel, in the same two languages.
Spelt(r, stage) ==
  rows \cap Visible(r) \cap Words[ask[r].question]
    \cap (IF stage = "search" THEN Spoken(r) ELSE Docs)
SearchWords(r) ==
  /\ ask[r].at = "search" /\ ask[r].words \in {"search", "again"}
  /\ \/ \E found \in Cut(Spelt(r, ask[r].words), Limit) :
        IF found = {} /\ ask[r].words = "search" /\ Language # NoLanguage
          THEN Set(r, "words", "again")
          ELSE Change(r, [ask[r] EXCEPT !.words = IF found = {} THEN "empty" ELSE "done",
                                        !.docs = Fused(@, found)])
     \/ Change(r, [ask[r] EXCEPT !.words = "done", !.failed = @ \cup {"words"}])
  /\ UNCHANGED <<table, script, runs, cache>>

\* Vectors that find nothing where words do are a failure of the index.
Failures(r) ==
  ask[r].failed \cup (IF ask[r].vector = "empty" /\ ask[r].docs # {} THEN {"vector"} ELSE {})

\* Both channels are over: they have failed, or what they found is ranked.
Over(r) == ask[r].at = "search" /\ {ask[r].vector, ask[r].words} \subseteq {"done", "empty"}
Fail(r) ==
  /\ Over(r) /\ Failures(r) = Channels
  /\ EndInError(r)
  /\ UNCHANGED <<table, script, runs, cache>>

\* rerank_documents_detailed: the best of what the cross-encoder keeps, or, when it
\* is late or missing, of what has the words.
Kept(q) == {Relevant[q], Words[q]}
Ranked(r, best) ==
  [ask[r] EXCEPT !.at = "save", !.failed = Failures(r), !.vector = "probe",
                 !.words = "search", !.docs = best, !.owed = {},
                 !.whole = ask[r].owed \subseteq ask[r].docs]
Rank(r) ==
  /\ Over(r) /\ Failures(r) # Channels
  /\ \E kept \in Kept(ask[r].question) : \E best \in Cut(ask[r].docs \cap kept, TopK) :
       Change(r, Ranked(r, best))
  /\ UNCHANGED <<table, script, runs, cache>>

\* Fault: an entry forgets which channel had failed.
SaveAsWhole(r) ==
  /\ ask[r].at = "save" /\ Set(r, "at", "answer")
  /\ cache' = [cache EXCEPT ![Key(r)] = [found |-> TRUE,
                 docs |-> ask[r].docs, failed |-> {}, whole |-> ask[r].whole]]
  /\ UNCHANGED <<table, script, runs>>
\* _save_cache, whatever was found, if Redis takes it.
Save(r) ==
  /\ ask[r].at = "save" /\ Set(r, "at", "answer")
  /\ cache' \in {cache, [cache EXCEPT ![Key(r)] =
                   [found |-> TRUE, docs |-> ask[r].docs,
                    failed |-> ask[r].failed, whole |-> ask[r].whole]]}
  /\ UNCHANGED <<table, script, runs>>

\* RAG_CACHE_TTL has passed, or Redis was emptied.
Expire(k) ==
  /\ cache[k].found /\ cache' = [cache EXCEPT ![k] = NoEntry]
  /\ UNCHANGED <<table, script, runs, ask>>

\* RAGService.answer: a model that cites the documents, or without a model
\* the first of them as they are, and the channels that failed; whether it is
\* grounded in them is left out.  run_crm_workflow: a reply, with the documents
\* if there are any, and a partial success if the retrieval has failed.
Told(r) ==
  [Asked(ask[r].question, NoScope) EXCEPT
     !.at = "done", !.failed = ask[r].failed, !.whole = ask[r].whole, !.error = ask[r].error,
     !.answer = CASE r \in Helps /\ ask[r].error       -> "partial"
                  [] r \in Helps /\ ~ask[r].error      -> "reply"
                  [] r \notin Helps /\ ask[r].docs = {} -> "no_knowledge"
                  [] OTHER -> "answered"]
Answer(r) ==
  /\ ask[r].at = "answer" /\ Change(r, Told(r))
  /\ UNCHANGED <<table, script, runs, cache>>

\* The agent or the workflow is timed out or stopped.
Cancel(r) ==
  /\ ask[r].at \notin {"new", "done"}
  /\ Drop(r)
  /\ UNCHANGED <<table, script, runs, cache>>

\* The next question.
Again(r) ==
  /\ ask[r].at = "done" /\ \E q \in Questions, s \in Stores : Change(r, Asked(q, s))
  /\ UNCHANGED <<table, script, runs, cache>>

-----------------------------------------------------------------------------
(* sync_and_reembed_goods: every statement is a transaction of its own.    *)

\* The goods are read, which nothing but the script waits for, and the table is
\* emptied before anything is embedded.
Truncate ==
  /\ script.at = "idle" /\ Goods # {} /\ runs < MaxRuns /\ runs' = runs + 1
  /\ script' = [at |-> "insert", todo |-> Goods]
  /\ rows' = {} /\ vectors' = {}
  /\ ask' = [r \in Asks |-> IF ask[r].at = "search" THEN [ask[r] EXCEPT !.owed = {}] ELSE ask[r]]
  /\ UNCHANGED cache
\* The embeddings of the goods, computed first, and a row for each.
Insert(d) ==
  /\ script.at = "insert" /\ d \in script.todo
  /\ script' = [script EXCEPT !.todo = @ \ {d}]
  /\ rows' = rows \cup {d} /\ vectors' = vectors \cup {d}
  /\ UNCHANGED <<runs, cache, ask>>
Finish ==
  /\ script.at = "insert" /\ script.todo = {}
  /\ script' = [at |-> "idle", todo |-> {}]
  /\ UNCHANGED <<table, runs, cache, ask>>
\* The model times out, a statement fails or the script is killed.
Crash ==
  /\ script.at = "insert"
  /\ script' = [at |-> "idle", todo |-> {}]
  /\ UNCHANGED <<table, runs, cache, ask>>

Rebuild == Truncate \/ (\E d \in Docs : Insert(d)) \/ Finish \/ Crash
Retrieve(r) == Refuse(r) \/ Hit(r) \/ Missed(r) \/ Enter(r) \/ Embed(r)
                 \/ SearchVectors(r) \/ SearchWords(r) \/ Fail(r) \/ Rank(r) \/ Save(r)
                 \/ Answer(r) \/ Cancel(r) \/ Again(r)
Next == Rebuild \/ (\E r \in Asks : Retrieve(r)) \/ (\E k \in Keys : Expire(k))

Spec == Init /\ [][Next]_vars

-----------------------------------------------------------------------------
(* Properties.                                                             *)

\* Types of the variables, and the semaphore is kept to.
TypeOK ==
  /\ rows \subseteq Docs /\ vectors \subseteq rows
  /\ script.at \in {"idle", "insert"}
  /\ script.todo \subseteq Goods
  /\ runs \in 0..MaxRuns
  /\ \A k \in Keys : cache[k].docs \subseteq Docs /\ cache[k].failed \subseteq Channels
  /\ \A r \in Asks :
       /\ ask[r].at \in {"new", "wait", "search", "save", "answer", "done"}
       /\ ask[r].docs \subseteq Docs /\ ask[r].failed \subseteq Channels
  /\ Cardinality(Searching) <= MaxConcurrent

\* A question of a store is answered from documents of that store, whether they
\* were searched for or were cached for another question, and in whatever order
\* searches, expiries and rebuilds of the table happen; but stores that _scope_hash
\* does not tell apart share what is cached (retriever.py:46).  A store whose
\* label no other has is answered from its own documents only.
OwnDocuments ==
  /\ \A r \in Asks : ask[r].scope # NoScope =>
       \A d \in ask[r].docs : Label[StoreOf[d]] = Label[ask[r].scope]
  /\ \A k \in Keys : k[2] # Label[NoScope] =>
       \A d \in cache[k].docs : Label[StoreOf[d]] = k[2]

\* "If one retrieval channel fails, it reports degraded retrieval instead of
\* pretending full success" (README_EN.md:253), from the cache as well and while
\* the table is rebuilt: when the RAG agent answers without naming a failed
\* channel, the search the answer comes from has ranked every document of its
\* store, language and price that was in the table, with an embedding, all the time
\* it searched, unless the limit cut it off for others.  Of two failed channels
\* nothing is cached, the RAG agent answers nothing, and the reply of customer
\* service is called a partial success, which is all it tells of a retrieval
\* (crm/workflow.py:170).
DegradedIsTold ==
  /\ \A k \in Keys : cache[k].failed # Channels
  /\ \A r \in Asks :
       /\ ask[r].answer \in {"no_knowledge", "answered"} /\ ask[r].failed = {} => ask[r].whole
       /\ ask[r].failed = Channels => ask[r].at = "search" /\ ask[r].answer = "none"
       /\ ask[r].error => ask[r].docs = {} /\ ask[r].answer \in {"none", "partial"}
=============================================================================
