---------------------------- MODULE KnowledgeProofs ----------------------------
(***************************************************************************)
(* Proofs about Knowledge, for any documents, questions, stores, retrievals *)
(* and number of rebuilds.                                                 *)
(***************************************************************************)
EXTENDS Knowledge, FiniteSetTheorems, TLAPS

-----------------------------------------------------------------------------
(* The inductive invariant.                                                *)

Entries == [found : BOOLEAN, docs : SUBSET Docs, failed : SUBSET Channels, whole : BOOLEAN]
Retrievals ==
  [at : {"new", "wait", "search", "save", "answer", "done"},
   question : Questions, scope : Stores,
   vector : {"probe", "search", "again", "empty", "done"},
   words : {"search", "again", "empty", "done"},
   docs : SUBSET Docs, failed : SUBSET Channels, owed : SUBSET Docs,
   whole : BOOLEAN, error : BOOLEAN,
   answer : {"none", "no_knowledge", "answered", "reply", "partial"}]

TypeInv ==
  /\ rows \subseteq Docs /\ vectors \subseteq rows
  /\ script \in [at : {"idle", "insert"}, todo : SUBSET Goods]
  /\ runs \in 0..MaxRuns
  /\ cache \in [Keys -> Entries]
  /\ ask \in [Asks -> Retrievals]

BoundInv == Cardinality(Searching) <= MaxConcurrent

\* The documents are of a store with the label they are for.
Own(label, docs) == label # Label[NoScope] => \A d \in docs : Label[StoreOf[d]] = label
OwnInv ==
  /\ \A r \in Asks : Own(Label[ask[r].scope], ask[r].docs)
  /\ \A k \in Keys : Own(k[2], cache[k].docs)

\* While both channels search, what is owed is in the table; once the vectors
\* have found nothing in the language asked for, nothing is owed; and once they
\* have come to an end without an error, all that is owed has been found.  What
\* the limit cut off is owed no more.
SearchTold(a, there) ==
  /\ \A d \in a.owed : /\ d \in there /\ d \in Priced[a.question]
                       /\ a.scope # NoScope => StoreOf[d] = a.scope
                       /\ Language # NoLanguage => LanguageOf[d] = Language
  /\ a.vector \in {"again", "empty"} => a.owed = {}
  /\ a.vector = "done" /\ "vector" \notin a.failed => a.owed \subseteq a.docs
  /\ a.answer = "none"
\* What has been ranked, kept or answered tells of the channels that failed.
RankTold(a) ==
  /\ a.failed # Channels
  /\ a.failed = {} => a.whole
\* Only customer service has something to say when the retrieval has failed.
ErrorTold(r, a) ==
  a.error => /\ a.docs = {} /\ a.answer \in {"none", "partial"}
             /\ a.at = "done" \/ (a.at = "answer" /\ r \in Helps)
TellInv ==
  /\ \A r \in Asks : ErrorTold(r, ask[r])
  /\ \A r \in Asks : IF ask[r].at = "search" THEN SearchTold(ask[r], vectors)
                                             ELSE RankTold(ask[r])
  /\ \A r \in Asks : ask[r].at \in {"new", "wait"} =>
       /\ ask[r].answer = "none" /\ ask[r].failed = {} /\ ask[r].docs = {}
       /\ ask[r].vector = "probe"
  /\ \A k \in Keys : RankTold(cache[k])

Inv == TypeInv /\ BoundInv /\ OwnInv /\ TellInv

-----------------------------------------------------------------------------
(* Lemmas.                                                                 *)

\* The keys of the cache, and that both channels are two.
LEMMA KeyFacts ==
  /\ \A q \in Questions, s \in Stores : <<q, Label[s]>> \in Keys
  /\ NoScope \in Stores
  /\ Channels # {} /\ "vector" \in Channels /\ "words" \in Channels
BY KnowledgeAssumption DEF Keys, Channels, KnowledgeAssumption

\* What a limit lets through is some of it, and nothing only of nothing.
LEMMA CutFacts ==
  ASSUME NEW docs, NEW limit \in Nat, NEW some \in Cut(docs, limit)
  PROVE  /\ some \subseteq docs
         /\ limit # 0 /\ some = {} => docs = {}
BY FS_EmptySet DEF Cut

\* A question as it is asked, of any store.
LEMMA AskedFacts ==
  ASSUME NEW q \in Questions, NEW s \in Stores
  PROVE  /\ Asked(q, s) \in Retrievals
         /\ Own(Label[Asked(q, s).scope], Asked(q, s).docs)
         /\ RankTold(Asked(q, s))
         /\ Asked(q, s).at = "new" /\ ~Asked(q, s).error
         /\ Asked(q, s).answer = "none" /\ Asked(q, s).failed = {}
         /\ Asked(q, s).docs = {} /\ Asked(q, s).vector = "probe"
BY KeyFacts DEF Asked, Retrievals, Own, RankTold, Channels

\* An entry that is not there.
LEMMA NoEntryFacts == NoEntry \in Entries /\ RankTold(NoEntry) /\ NoEntry.docs = {}
BY KeyFacts DEF NoEntry, Entries, RankTold, Channels

\* The semaphore bounds the searches when nobody begins one.
LEMMA SameSearches ==
  ASSUME BoundInv, Searching' \subseteq Searching
  PROVE  BoundInv'
<1>1. IsFiniteSet(Searching)
  BY KnowledgeAssumption, FS_Subset DEF Searching, KnowledgeAssumption
<1>2. IsFiniteSet(Searching') /\ Cardinality(Searching') <= Cardinality(Searching)
  BY <1>1, FS_Subset
<1>3. Cardinality(Searching) \in Nat /\ Cardinality(Searching') \in Nat
  BY <1>1, <1>2, FS_CardinalityType
<1>4. QED
  BY <1>2, <1>3, KnowledgeAssumption DEF BoundInv, KnowledgeAssumption

-----------------------------------------------------------------------------
(* A retrieval whose record becomes a, while the table stays as it is.     *)

\* What has to be shown of the new record.
Fits(r, a) ==
  /\ a \in Retrievals
  /\ Own(Label[a.scope], a.docs) /\ ErrorTold(r, a)
  /\ IF a.at = "search" THEN SearchTold(a, vectors) ELSE RankTold(a)
  /\ a.at \in {"new", "wait"} =>
       a.answer = "none" /\ a.failed = {} /\ a.docs = {} /\ a.vector = "probe"

\* A record that fits, and begins no search, keeps the invariant.
LEMMA ChangeKeeps ==
  ASSUME Inv, NEW r \in Asks, NEW a, Fits(r, a), Change(r, a),
         UNCHANGED <<table, script, runs, cache>>,
         a.at = "search" => ask[r].at = "search"
  PROVE  Inv'
<1>1. ask' = [ask EXCEPT ![r] = a] /\ ask \in [Asks -> Retrievals]
  BY DEF Change, Inv, TypeInv
<1>2. \A x \in Asks : ask'[x] = IF x = r THEN a ELSE ask[x]
  BY <1>1
<1>3. TypeInv'
  BY <1>1 DEF Inv, TypeInv, Fits, table
<1>4. Searching' \subseteq Searching
  BY <1>2 DEF Searching
<1>5. BoundInv'
  BY <1>4, SameSearches DEF Inv
<1>6. OwnInv'
  BY <1>2 DEF Inv, OwnInv, Fits
<1>7. TellInv'
  <2>1. vectors' = vectors /\ cache' = cache
    BY DEF table
  <2>2. QED
    BY <1>2, <2>1 DEF Inv, TellInv, Fits
<1>8. QED
  BY <1>3, <1>5, <1>6, <1>7 DEF Inv
-----------------------------------------------------------------------------
(* The steps of a retrieval.                                               *)

\* A retrieval that keeps nothing of what it found, and has come to an end.
LEMMA EndKeeps ==
  ASSUME Inv, NEW r \in Asks, NEW a \in Retrievals, Change(r, a), ErrorTold(r, a),
         a.at \in {"answer", "done"}, a.docs = {}, RankTold(a),
         UNCHANGED <<table, script, runs, cache>>
  PROVE  Inv'
<1>1. Fits(r, a)
  BY DEF Fits, Own
<1>2. QED
  BY <1>1, ChangeKeeps

LEMMA DropKeeps ==
  ASSUME Inv, NEW r \in Asks, Drop(r), UNCHANGED <<table, script, runs, cache>>
  PROVE  Inv'
<1> DEFINE a == [Asked(ask[r].question, NoScope) EXCEPT !.at = "done"]
<1>1. ask[r].question \in Questions
  BY DEF Inv, TypeInv, Retrievals
<1>2. a \in Retrievals /\ a.at = "done" /\ a.docs = {} /\ ~a.error
        /\ a.failed = {} /\ a.whole
  BY <1>1, KeyFacts DEF Asked, Retrievals
<1>3. Change(r, a)
  BY DEF Drop
<1> HIDE DEF a
<1>4. QED
  BY <1>2, <1>3, KeyFacts, EndKeeps DEF ErrorTold, RankTold

LEMMA ErrorKeeps ==
  ASSUME Inv, NEW r \in Asks, EndInError(r), UNCHANGED <<table, script, runs, cache>>
  PROVE  Inv'
<1> DEFINE a == [Asked(ask[r].question, NoScope) EXCEPT
                   !.at = IF r \in Helps THEN "answer" ELSE "done", !.error = TRUE]
<1>1. ask[r].question \in Questions
  BY DEF Inv, TypeInv, Retrievals
<1>2. a \in Retrievals /\ a.at = (IF r \in Helps THEN "answer" ELSE "done")
        /\ a.docs = {} /\ a.answer = "none" /\ a.failed = {} /\ a.whole
  BY <1>1, KeyFacts DEF Asked, Retrievals
<1>3. Change(r, a)
  BY DEF EndInError
<1> HIDE DEF a
<1>4. QED
  BY <1>2, <1>3, KeyFacts, EndKeeps DEF ErrorTold, RankTold

LEMMA BeginStep ==
  ASSUME Inv, NEW r \in Asks, Refuse(r) \/ Hit(r) \/ Missed(r)
  PROVE  Inv'
<1>0. ask[r] \in Retrievals /\ ask \in [Asks -> Retrievals]
  BY DEF Inv, TypeInv
<1>1. CASE Refuse(r)
  BY <1>1, ErrorKeeps DEF Refuse
<1>2. CASE Hit(r)
  <2> DEFINE e == cache[Key(r)]
             a == [ask[r] EXCEPT !.at = "answer", !.docs = e.docs,
                                 !.failed = e.failed, !.whole = e.whole]
  <2>1. Key(r) \in Keys /\ Key(r)[2] = Label[ask[r].scope]
    BY <1>0, KeyFacts DEF Key, Retrievals
  <2>2. e \in Entries /\ RankTold(e) /\ Own(Label[ask[r].scope], e.docs)
    BY <2>1 DEF Inv, TypeInv, OwnInv, TellInv
  <2>0. ~ask[r].error
    BY <1>2 DEF Hit, Inv, TellInv, ErrorTold
  <2> HIDE DEF e
  <2>3. a \in Retrievals /\ a.at = "answer" /\ a.scope = ask[r].scope
          /\ a.docs = e.docs /\ a.failed = e.failed /\ a.whole = e.whole
          /\ a.error = ask[r].error
    BY <1>0, <2>2 DEF Entries, Retrievals
  <2>4. Change(r, a) /\ UNCHANGED <<table, script, runs, cache>>
    BY <1>2 DEF Hit, e
  <2> HIDE DEF a
  <2>5. Fits(r, a)
    BY <2>0, <2>2, <2>3 DEF Fits, RankTold, ErrorTold
  <2>6. QED
    BY <2>3, <2>4, <2>5, ChangeKeeps
<1>3. CASE Missed(r)
  <2> DEFINE a == [ask[r] EXCEPT !.at = "wait"]
  <2>1. a \in Retrievals /\ a.at = "wait" /\ a.scope = ask[r].scope
          /\ a.docs = ask[r].docs /\ a.failed = ask[r].failed /\ a.whole = ask[r].whole
          /\ a.answer = ask[r].answer /\ a.vector = ask[r].vector
          /\ a.error = ask[r].error
    BY <1>0 DEF Retrievals
  <2>2. Change(r, a) /\ UNCHANGED <<table, script, runs, cache>>
    BY <1>0, <1>3 DEF Missed, Set, Change
  <2>3. ask[r].at = "new"
    BY <1>3 DEF Missed
  <2> HIDE DEF a
  <2>4. Fits(r, a)
    BY <2>1, <2>3 DEF Fits, RankTold, ErrorTold, Inv, OwnInv, TellInv
  <2>5. QED
    BY <2>1, <2>2, <2>4, ChangeKeeps
<1>4. QED
  BY <1>1, <1>2, <1>3

\* The semaphore lets one search in when there is room for it.
LEMMA EnterStep == ASSUME Inv, NEW r \in Asks, Enter(r) PROVE Inv'
<1> DEFINE owed == vectors \cap Visible(r) \cap Spoken(r)
           a == [ask[r] EXCEPT !.at = "search", !.owed = owed]
<1>1. ask[r] \in Retrievals /\ ask \in [Asks -> Retrievals] /\ ask[r].at = "wait"
  BY DEF Inv, TypeInv, Enter
<1>2. owed \subseteq Docs /\ owed \subseteq vectors
        /\ \A d \in owed : /\ d \in Priced[ask[r].question]
                           /\ ask[r].scope # NoScope => StoreOf[d] = ask[r].scope
                           /\ Language # NoLanguage => LanguageOf[d] = Language
  BY DEF Visible, Spoken
<1> HIDE DEF owed
<1>3. a \in Retrievals /\ a.at = "search" /\ a.scope = ask[r].scope /\ a.owed = owed
        /\ a.docs = ask[r].docs /\ a.failed = ask[r].failed /\ a.answer = ask[r].answer
        /\ a.vector = ask[r].vector /\ a.question = ask[r].question
        /\ a.error = ask[r].error
  BY <1>1, <1>2 DEF Retrievals
<1>4. ask' = [ask EXCEPT ![r] = a] /\ UNCHANGED <<rows, vectors, script, runs, cache>>
  BY DEF Enter, Change, table, owed
<1> HIDE DEF a
<1>5. \A x \in Asks : ask'[x] = IF x = r THEN a ELSE ask[x]
  BY <1>1, <1>4
<1>6. TypeInv'
  BY <1>1, <1>3, <1>4 DEF Inv, TypeInv
<1>7. BoundInv'
  <2>1. Searching' = Searching \cup {r} /\ r \notin Searching
    BY <1>1, <1>3, <1>5 DEF Searching
  <2>2. IsFiniteSet(Searching)
    BY KnowledgeAssumption, FS_Subset DEF Searching, KnowledgeAssumption
  <2>3. Cardinality(Searching') = Cardinality(Searching) + 1
    BY <2>1, <2>2, FS_AddElement
  <2>4. Cardinality(Searching) < MaxConcurrent
    BY DEF Enter
  <2>5. Cardinality(Searching) \in Nat
    BY <2>2, FS_CardinalityType
  <2>6. QED
    BY <2>3, <2>4, <2>5, KnowledgeAssumption DEF BoundInv, KnowledgeAssumption
<1>8. OwnInv'
  BY <1>3, <1>4, <1>5 DEF Inv, OwnInv
<1>9. TellInv'
  <2>1. SearchTold(a, vectors')
    BY <1>1, <1>2, <1>3, <1>4 DEF Inv, TellInv, SearchTold
  <2>2. ErrorTold(r, a)
    BY <1>1, <1>3 DEF Inv, TellInv, ErrorTold
  <2>3. QED
    BY <1>3, <1>4, <1>5, <2>1, <2>2 DEF Inv, TellInv
<1>10. QED
  BY <1>6, <1>7, <1>8, <1>9 DEF Inv

\* A search that goes on: the vectors, the words, and what was found so far.
LEMMA SearchKeeps ==
  ASSUME Inv, NEW r \in Asks, NEW a, Change(r, a), a \in Retrievals,
         UNCHANGED <<table, script, runs, cache>>,
         ask[r].at = "search", a.at = "search", a.scope = ask[r].scope,
         Own(Label[a.scope], a.docs), a.owed \subseteq ask[r].owed,
         a.answer = ask[r].answer, a.error = ask[r].error, a.question = ask[r].question,
         a.vector \in {"again", "empty"} => a.owed = {},
         a.vector = "done" /\ "vector" \notin a.failed => a.owed \subseteq a.docs
  PROVE  Inv'
<1>1. SearchTold(ask[r], vectors)
  BY DEF Inv, TellInv
<1>2. SearchTold(a, vectors)
  BY <1>1 DEF SearchTold
<1>3. ErrorTold(r, a)
  BY DEF Inv, TellInv, ErrorTold
<1>4. Fits(r, a)
  BY <1>2, <1>3 DEF Fits
<1>5. QED
  BY <1>4, ChangeKeeps

LEMMA NoVectorKeeps ==
  ASSUME Inv, NEW r \in Asks, ask[r].at = "search", NoVector(r),
         UNCHANGED <<table, script, runs, cache>>
  PROVE  Inv'
<1> DEFINE a == [ask[r] EXCEPT !.vector = "done", !.failed = @ \cup {"vector"}]
<1>1. ask[r] \in Retrievals /\ Own(Label[ask[r].scope], ask[r].docs)
  BY DEF Inv, TypeInv, OwnInv
<1>2. a \in Retrievals /\ a.at = "search" /\ a.scope = ask[r].scope /\ a.docs = ask[r].docs
        /\ a.owed = ask[r].owed /\ a.answer = ask[r].answer
        /\ a.vector = "done" /\ "vector" \in a.failed
        /\ a.error = ask[r].error /\ a.question = ask[r].question
  BY <1>1, KeyFacts DEF Retrievals
<1>3. Change(r, a)
  BY DEF NoVector
<1> HIDE DEF a
<1>4. QED
  BY <1>1, <1>2, <1>3, SearchKeeps
LEMMA EmbedStep == ASSUME Inv, NEW r \in Asks, Embed(r) PROVE Inv'
<1>1. ask[r] \in Retrievals /\ ask \in [Asks -> Retrievals] /\ ask[r].at = "search"
        /\ Own(Label[ask[r].scope], ask[r].docs) /\ UNCHANGED <<table, script, runs, cache>>
  BY DEF Inv, TypeInv, OwnInv, Embed
<1>2. CASE Set(r, "vector", "search")
  <2> DEFINE a == [ask[r] EXCEPT !.vector = "search"]
  <2>1. a \in Retrievals /\ a.at = "search" /\ a.scope = ask[r].scope
          /\ a.docs = ask[r].docs /\ a.owed = ask[r].owed /\ a.answer = ask[r].answer
          /\ a.vector = "search" /\ a.error = ask[r].error /\ a.question = ask[r].question
    BY <1>1 DEF Retrievals
  <2>2. Change(r, a)
    BY <1>1, <1>2 DEF Set, Change
  <2> HIDE DEF a
  <2>3. QED
    BY <1>1, <2>1, <2>2, SearchKeeps
<1>3. CASE NoVector(r)
  BY <1>1, <1>3, NoVectorKeeps
<1>4. QED
  BY <1>2, <1>3 DEF Embed

\* What a search sees has the label of its store.
LEMMA VisibleFacts ==
  ASSUME NEW r \in Asks, NEW docs, docs \subseteq Visible(r)
  PROVE  Own(Label[ask[r].scope], docs)
BY DEF Visible, Own

\* What is owed is among what the first search of the vectors finds, or has been cut
\* off by the limit.
LEMMA SearchVectorsStep == ASSUME Inv, NEW r \in Asks, SearchVectors(r) PROVE Inv'
<1>1. ask[r] \in Retrievals /\ ask \in [Asks -> Retrievals] /\ ask[r].at = "search"
        /\ Own(Label[ask[r].scope], ask[r].docs) /\ UNCHANGED <<table, script, runs, cache>>
        /\ ask[r].vector \in {"search", "again"} /\ SearchTold(ask[r], vectors)
  BY DEF Inv, TypeInv, OwnInv, TellInv, SearchVectors
<1> DEFINE near == Near(r, ask[r].vector)
<1>2. near \subseteq Docs /\ Own(Label[ask[r].scope], near)
  <2>1. near \subseteq Visible(r) /\ near \subseteq Docs
    BY KnowledgeAssumption, <1>1 DEF Near, Visible, KnowledgeAssumption, Retrievals
  <2>2. QED
    BY <2>1, VisibleFacts
<1>3. ask[r].owed \subseteq near
  <2>1. CASE ask[r].vector = "search"
    <3>1. \A d \in ask[r].owed : d \in Docs
      BY <1>1 DEF Retrievals
    <3>2. QED
      BY <1>1, <2>1, <3>1 DEF SearchTold, Near, Visible, Spoken
  <2>2. CASE ask[r].vector = "again"
    BY <1>1, <2>2 DEF SearchTold
  <2>3. QED
    BY <1>1, <2>1, <2>2
<1> HIDE DEF near
<1>4. ASSUME NEW found \in Cut(near, Limit)
      PROVE  found \subseteq near /\ (found = {} => near = {})
  BY CutFacts, KnowledgeAssumption DEF KnowledgeAssumption
<1>5. ASSUME Set(r, "vector", "again"), near = {}
      PROVE  Inv'
  <2> DEFINE b == [ask[r] EXCEPT !.vector = "again"]
  <2>1. b \in Retrievals /\ b.at = "search" /\ b.scope = ask[r].scope
          /\ b.docs = ask[r].docs /\ b.owed = ask[r].owed /\ b.answer = ask[r].answer
          /\ b.vector = "again" /\ b.error = ask[r].error /\ b.question = ask[r].question
    BY <1>1 DEF Retrievals
  <2>2. b.owed = {}
    BY <1>3, <1>5, <2>1
  <2>3. Change(r, b)
    BY <1>1, <1>5 DEF Set, Change
  <2> HIDE DEF b
  <2>4. QED
    BY <1>1, <2>1, <2>2, <2>3, SearchKeeps
<1>6. ASSUME NEW found \in Cut(near, Limit),
             Change(r, [ask[r] EXCEPT !.vector = IF found = {} THEN "empty" ELSE "done",
                                      !.docs = Fused(@, found),
                                      !.owed = IF found = near THEN @ ELSE @ \cap found])
      PROVE  Inv'
  <2> DEFINE a == [ask[r] EXCEPT !.vector = IF found = {} THEN "empty" ELSE "done",
                                 !.docs = Fused(@, found),
                                 !.owed = IF found = near THEN @ ELSE @ \cap found]
  <2>1. a \in Retrievals /\ a.at = "search" /\ a.scope = ask[r].scope
          /\ a.docs = ask[r].docs \cup found
          /\ a.owed = (IF found = near THEN ask[r].owed ELSE ask[r].owed \cap found)
          /\ a.answer = ask[r].answer /\ a.error = ask[r].error /\ a.question = ask[r].question
          /\ a.vector = (IF found = {} THEN "empty" ELSE "done")
    BY <1>1, <1>2, <1>4 DEF Retrievals, Fused
  <2>2. Change(r, a)
    BY <1>6
  <2> HIDE DEF a
  <2>3. Own(Label[a.scope], a.docs)
    BY <1>1, <1>2, <1>4, <2>1 DEF Own
  <2>4. a.owed \subseteq found /\ a.owed \subseteq ask[r].owed
    BY <1>3, <2>1
  <2>5. a.owed \subseteq a.docs /\ (a.vector \in {"again", "empty"} => a.owed = {})
    BY <2>1, <2>4
  <2>6. QED
    BY <1>1, <2>1, <2>2, <2>3, <2>4, <2>5, SearchKeeps
<1>7. ASSUME NoVector(r)
      PROVE  Inv'
  BY <1>1, <1>7, NoVectorKeeps
<1>8. \/ \E found \in Cut(near, Limit) :
            IF found = {} /\ ask[r].vector = "search" /\ Language # NoLanguage
              THEN Set(r, "vector", "again")
              ELSE Change(r, [ask[r] EXCEPT
                     !.vector = IF found = {} THEN "empty" ELSE "done",
                     !.docs = Fused(@, found),
                     !.owed = IF found = near THEN @ ELSE @ \cap found])
      \/ NoVector(r)
  BY DEF SearchVectors, near
<1>9. QED
  BY <1>4, <1>5, <1>6, <1>7, <1>8

LEMMA SearchWordsStep == ASSUME Inv, NEW r \in Asks, SearchWords(r) PROVE Inv'
<1>1. ask[r] \in Retrievals /\ ask \in [Asks -> Retrievals] /\ ask[r].at = "search"
        /\ Own(Label[ask[r].scope], ask[r].docs) /\ UNCHANGED <<table, script, runs, cache>>
        /\ SearchTold(ask[r], vectors)
  BY DEF Inv, TypeInv, OwnInv, TellInv, SearchWords
<1> DEFINE spelt == Spelt(r, ask[r].words)
           b == [ask[r] EXCEPT !.words = "again"]
           c == [ask[r] EXCEPT !.words = "done", !.failed = @ \cup {"words"}]
<1>2. spelt \subseteq Docs /\ Own(Label[ask[r].scope], spelt)
  <2>1. spelt \subseteq Visible(r) /\ spelt \subseteq Docs
    BY KnowledgeAssumption, <1>1 DEF Spelt, Visible, KnowledgeAssumption, Retrievals
  <2>2. QED
    BY <2>1, VisibleFacts
<1> HIDE DEF spelt
<1>3. CASE Change(r, b)
  <2>1. b \in Retrievals /\ b.at = "search" /\ b.scope = ask[r].scope
          /\ b.docs = ask[r].docs /\ b.owed = ask[r].owed /\ b.answer = ask[r].answer
          /\ b.vector = ask[r].vector /\ b.failed = ask[r].failed
          /\ b.error = ask[r].error /\ b.question = ask[r].question
    BY <1>1 DEF Retrievals
  <2> HIDE DEF b
  <2>2. QED
    BY <1>1, <1>3, <2>1, SearchKeeps DEF SearchTold
<1>4. CASE Change(r, c)
  <2>1. c \in Retrievals /\ c.at = "search" /\ c.scope = ask[r].scope
          /\ c.docs = ask[r].docs /\ c.owed = ask[r].owed /\ c.answer = ask[r].answer
          /\ c.vector = ask[r].vector /\ c.failed = ask[r].failed \cup {"words"}
          /\ c.error = ask[r].error /\ c.question = ask[r].question
    BY <1>1, KeyFacts DEF Retrievals
  <2> HIDE DEF c
  <2>2. QED
    BY <1>1, <1>4, <2>1, SearchKeeps DEF SearchTold
<1>5. ASSUME NEW found \in Cut(spelt, Limit),
             Change(r, [ask[r] EXCEPT !.words = IF found = {} THEN "empty" ELSE "done",
                                      !.docs = Fused(@, found)])
      PROVE  Inv'
  <2> DEFINE a == [ask[r] EXCEPT !.words = IF found = {} THEN "empty" ELSE "done",
                                 !.docs = Fused(@, found)]
  <2>0. found \subseteq spelt
    BY CutFacts, KnowledgeAssumption DEF KnowledgeAssumption
  <2>1. a \in Retrievals /\ a.at = "search" /\ a.scope = ask[r].scope
          /\ a.docs = ask[r].docs \cup found /\ a.owed = ask[r].owed
          /\ a.answer = ask[r].answer
          /\ a.vector = ask[r].vector /\ a.failed = ask[r].failed
          /\ a.error = ask[r].error /\ a.question = ask[r].question
    BY <1>1, <1>2, <2>0 DEF Retrievals, Fused
  <2>2. Change(r, a)
    BY <1>5
  <2> HIDE DEF a
  <2>3. Own(Label[a.scope], a.docs)
    BY <1>1, <1>2, <2>0, <2>1 DEF Own
  <2>4. QED
    BY <1>1, <2>1, <2>2, <2>3, SearchKeeps DEF SearchTold
<1>6. Set(r, "words", "again") => Change(r, b)
  BY <1>1 DEF Set, Change
<1>7. QED
  BY <1>3, <1>4, <1>5, <1>6 DEF SearchWords, spelt

\* The ranking: without a failed channel all that was owed was there to be ranked.
LEMMA RankStep == ASSUME Inv, NEW r \in Asks, Rank(r) PROVE Inv'
<1>1. ask[r] \in Retrievals /\ ask \in [Asks -> Retrievals] /\ ask[r].at = "search"
        /\ Own(Label[ask[r].scope], ask[r].docs) /\ UNCHANGED <<table, script, runs, cache>>
        /\ SearchTold(ask[r], vectors) /\ ask[r].vector \in {"done", "empty"}
        /\ Failures(r) # Channels /\ ~ask[r].error
  BY DEF Inv, TypeInv, OwnInv, TellInv, ErrorTold, Rank, Over
<1>2. Failures(r) \subseteq Channels /\ ask[r].failed \subseteq Failures(r)
  BY <1>1, KeyFacts DEF Failures, Retrievals
<1>3. PICK kept \in Kept(ask[r].question) : \E best \in Cut(ask[r].docs \cap kept, TopK) :
        Change(r, Ranked(r, best))
  BY DEF Rank
<1>4. PICK best \in Cut(ask[r].docs \cap kept, TopK) : Change(r, Ranked(r, best))
  BY <1>3
<1> DEFINE a == Ranked(r, best)
<1>5. best \subseteq ask[r].docs
  BY CutFacts, KnowledgeAssumption DEF KnowledgeAssumption
<1>6. a \in Retrievals /\ a.at = "save" /\ a.scope = ask[r].scope
        /\ a.docs = best /\ a.failed = Failures(r) /\ a.error = ask[r].error
        /\ a.whole = (ask[r].owed \subseteq ask[r].docs)
  BY <1>1, <1>2, <1>5 DEF Retrievals, Ranked
<1> HIDE DEF a
<1>7. Own(Label[a.scope], a.docs)
  BY <1>1, <1>5, <1>6 DEF Own
<1>8. a.failed = {} => a.whole
  BY <1>1, <1>2, <1>6 DEF SearchTold
<1>9. Fits(r, a)
  BY <1>1, <1>6, <1>7, <1>8 DEF Fits, RankTold, ErrorTold
<1>10. QED
  BY <1>4, <1>6, <1>9, <1>1, ChangeKeeps DEF a
\* What is kept is what is about to be answered.
LEMMA SaveStep == ASSUME Inv, NEW r \in Asks, Save(r) PROVE Inv'
<1> DEFINE a == [ask[r] EXCEPT !.at = "answer"]
           e == [found |-> TRUE, docs |-> ask[r].docs,
                 failed |-> ask[r].failed, whole |-> ask[r].whole]
<1>1. ask[r] \in Retrievals /\ ask \in [Asks -> Retrievals] /\ cache \in [Keys -> Entries]
        /\ Own(Label[ask[r].scope], ask[r].docs) /\ ask[r].at = "save" /\ RankTold(ask[r]) /\ ~ask[r].error
  BY DEF Inv, TypeInv, OwnInv, TellInv, ErrorTold, Save
<1>2. Key(r) \in Keys /\ Key(r)[2] = Label[ask[r].scope]
  BY <1>1, KeyFacts DEF Key, Retrievals
<1>3. e \in Entries /\ e.docs = ask[r].docs /\ RankTold(e)
  BY <1>1 DEF Entries, Retrievals, RankTold
<1>4. ask' = [ask EXCEPT ![r] = a]
        /\ cache' \in {cache, [cache EXCEPT ![Key(r)] = e]}
        /\ UNCHANGED <<rows, vectors, script, runs>>
  BY <1>1 DEF Save, Set, table
<1> HIDE DEF e
<1>5. a \in Retrievals /\ a.at = "answer" /\ a.scope = ask[r].scope /\ a.docs = ask[r].docs
        /\ a.failed = ask[r].failed /\ a.whole = ask[r].whole /\ ~a.error
  BY <1>1 DEF Retrievals
<1> HIDE DEF a
<1>6. \A x \in Asks : ask'[x] = IF x = r THEN a ELSE ask[x]
  BY <1>1, <1>4
<1>7. \A k \in Keys : cache'[k] = cache[k] \/ (k = Key(r) /\ cache'[k] = e)
  BY <1>1, <1>2, <1>4
<1>8. TypeInv'
  <2>1. cache' \in [Keys -> Entries]
    BY <1>1, <1>2, <1>3, <1>4
  <2>2. QED
    BY <1>1, <1>4, <1>5, <2>1 DEF Inv, TypeInv
<1>9. BoundInv'
  <2>1. Searching' \subseteq Searching
    BY <1>5, <1>6 DEF Searching
  <2>2. QED
    BY <2>1, SameSearches DEF Inv
<1>10. OwnInv'
  <2>1. \A x \in Asks : Own(Label[ask'[x].scope], ask'[x].docs)
    BY <1>1, <1>5, <1>6 DEF Inv, OwnInv
  <2>2. \A k \in Keys : Own(k[2], cache'[k].docs)
    BY <1>1, <1>2, <1>3, <1>7 DEF Inv, OwnInv
  <2>3. QED
    BY <2>1, <2>2 DEF OwnInv
<1>11. TellInv'
  <2>1. RankTold(a) /\ ErrorTold(r, a)
    BY <1>1, <1>5 DEF RankTold, ErrorTold
  <2>2. \A k \in Keys : RankTold(cache'[k])
    BY <1>3, <1>7 DEF Inv, TellInv
  <2>3. QED
    BY <1>4, <1>5, <1>6, <2>1, <2>2 DEF Inv, TellInv
<1>12. QED
  BY <1>8, <1>9, <1>10, <1>11 DEF Inv

LEMMA EndStep ==
  ASSUME Inv, NEW r \in Asks, Answer(r) \/ Fail(r) \/ Cancel(r) \/ Again(r)
  PROVE  Inv'
<1>0. ask[r] \in Retrievals /\ ask \in [Asks -> Retrievals]
  BY DEF Inv, TypeInv
<1>1. CASE Answer(r)
  <2>0. ask[r].question \in Questions /\ ask[r].failed \in SUBSET Channels
          /\ ask[r].whole \in BOOLEAN /\ ask[r].error \in BOOLEAN
    BY <1>0 DEF Retrievals
  <2> DEFINE answer == CASE r \in Helps /\ ask[r].error       -> "partial"
                         [] r \in Helps /\ ~ask[r].error      -> "reply"
                         [] r \notin Helps /\ ask[r].docs = {} -> "no_knowledge"
                         [] OTHER -> "answered"
             base == Asked(ask[r].question, NoScope)
  <2>11. base \in Retrievals /\ base.docs = {}
    BY <2>0, KeyFacts, AskedFacts
  <2>12. answer \in {"no_knowledge", "answered", "reply", "partial"}
          /\ (r \in Helps /\ ask[r].error => answer = "partial")
    BY <2>0
  <2>13. Told(r) = [base EXCEPT !.at = "done", !.failed = ask[r].failed,
                      !.whole = ask[r].whole, !.error = ask[r].error, !.answer = answer]
    BY DEF Told
  <2> HIDE DEF answer, base
  <2>1. Told(r) \in Retrievals /\ Told(r).at = "done" /\ Told(r).docs = {}
          /\ Told(r).failed = ask[r].failed /\ Told(r).whole = ask[r].whole
          /\ Told(r).error = ask[r].error
          /\ (ask[r].error /\ r \in Helps => Told(r).answer = "partial")
    BY <2>0, <2>11, <2>12, <2>13 DEF Retrievals
  <2>2. Change(r, Told(r)) /\ UNCHANGED <<table, script, runs, cache>> /\ ask[r].at = "answer"
    BY <1>1 DEF Answer
  <2>3. RankTold(Told(r)) /\ ErrorTold(r, Told(r))
    BY <2>1, <2>2 DEF RankTold, ErrorTold, Inv, TellInv
  <2>4. QED
    BY <2>1, <2>2, <2>3, EndKeeps
<1>2. CASE Fail(r) \/ Cancel(r)
  BY <1>2, DropKeeps, ErrorKeeps DEF Fail, Cancel
<1>3. CASE Again(r)
  <2>1. PICK q \in Questions, s \in Stores : Change(r, Asked(q, s))
    BY <1>3 DEF Again
  <2>2. Fits(r, Asked(q, s)) /\ Asked(q, s).at = "new"
    BY <2>1, AskedFacts DEF Fits, ErrorTold
  <2>3. UNCHANGED <<table, script, runs, cache>>
    BY <1>3 DEF Again
  <2>4. QED
    BY <2>1, <2>2, <2>3, ChangeKeeps
<1>4. QED
  BY <1>1, <1>2, <1>3

LEMMA RetrieveStep == ASSUME Inv, NEW r \in Asks, Retrieve(r) PROVE Inv'
BY BeginStep, EnterStep, EmbedStep, SearchVectorsStep, SearchWordsStep, RankStep,
   SaveStep, EndStep DEF Retrieve

-----------------------------------------------------------------------------
(* The other steps.                                                        *)

LEMMA ExpireStep == ASSUME Inv, NEW k \in Keys, Expire(k) PROVE Inv'
<1>1. cache \in [Keys -> Entries] /\ cache' = [cache EXCEPT ![k] = NoEntry]
        /\ UNCHANGED <<rows, vectors, script, runs, ask>>
  BY DEF Inv, TypeInv, Expire, table
<1>2. \A x \in Keys : cache'[x] = IF x = k THEN NoEntry ELSE cache[x]
  BY <1>1
<1>3. TypeInv'
  BY <1>1, NoEntryFacts DEF Inv, TypeInv
<1>4. BoundInv'
  BY <1>1 DEF Inv, BoundInv, Searching
<1>5. OwnInv'
  BY <1>1, <1>2, NoEntryFacts DEF Inv, OwnInv, Own
<1>6. TellInv'
  BY <1>1, <1>2, NoEntryFacts DEF Inv, TellInv
<1>7. QED
  BY <1>3, <1>4, <1>5, <1>6 DEF Inv

\* Once the table is empty no search is owed anything.
LEMMA TruncateStep == ASSUME Inv, Truncate PROVE Inv'
<1>1. ask \in [Asks -> Retrievals]
        /\ ask' = [r \in Asks |-> IF ask[r].at = "search"
                                   THEN [ask[r] EXCEPT !.owed = {}] ELSE ask[r]]
        /\ rows' = {} /\ vectors' = {} /\ cache' = cache
        /\ runs < MaxRuns /\ runs' = runs + 1
        /\ script' = [at |-> "insert", todo |-> Goods]
  BY DEF Inv, TypeInv, Truncate
<1>2. ASSUME NEW r \in Asks
      PROVE  /\ ask'[r] \in Retrievals /\ ask'[r].at = ask[r].at
             /\ ask'[r].scope = ask[r].scope /\ ask'[r].docs = ask[r].docs
             /\ ask'[r].answer = ask[r].answer /\ ask'[r].error = ask[r].error
             /\ ask[r].at = "search" => ask'[r].owed = {}
             /\ ask[r].at # "search" => ask'[r] = ask[r]
  BY <1>1 DEF Retrievals
<1>3. TypeInv'
  <2>1. ask' \in [Asks -> Retrievals]
    BY <1>1, <1>2
  <2>2. runs' \in 0..MaxRuns
    BY <1>1, KnowledgeAssumption DEF Inv, TypeInv, KnowledgeAssumption
  <2>3. QED
    BY <1>1, <2>1, <2>2 DEF Inv, TypeInv
<1>4. BoundInv'
  BY <1>2 DEF Inv, BoundInv, Searching
<1>5. OwnInv'
  BY <1>1, <1>2 DEF Inv, OwnInv
<1>6. TellInv'
  BY <1>1, <1>2 DEF Inv, TellInv, SearchTold, ErrorTold
<1>7. QED
  BY <1>3, <1>4, <1>5, <1>6 DEF Inv

\* Rows that are added owe nothing to the searches under way.
LEMMA RebuildStep == ASSUME Inv, Rebuild PROVE Inv'
<1>1. CASE Truncate
  BY <1>1, TruncateStep
<1>2. ASSUME \/ \E d \in Docs : Insert(d)
             \/ Finish \/ Crash
      PROVE  Inv'
  <2>1. /\ UNCHANGED <<runs, cache, ask>>
        /\ rows' \subseteq Docs /\ vectors' \subseteq rows' /\ vectors \subseteq vectors'
        /\ script' \in [at : {"idle", "insert"}, todo : SUBSET Goods]
    BY <1>2 DEF Inv, TypeInv, Insert, Finish, Crash, table
  <2>2. TypeInv' /\ BoundInv' /\ OwnInv'
    BY <2>1 DEF Inv, TypeInv, BoundInv, Searching, OwnInv
  <2>3. TellInv'
    BY <2>1 DEF Inv, TellInv, SearchTold
  <2>4. QED
    BY <2>2, <2>3 DEF Inv
<1>3. QED
  BY <1>1, <1>2 DEF Rebuild

LEMMA InitInv == Init => Inv
<1> SUFFICES ASSUME Init
             PROVE  Inv
  OBVIOUS
<1>1. ASSUME NEW r \in Asks
      PROVE  /\ ask[r] \in Retrievals /\ Own(Label[ask[r].scope], ask[r].docs)
             /\ RankTold(ask[r]) /\ ErrorTold(r, ask[r])
             /\ ask[r].at = "new" /\ ask[r].answer = "none" /\ ask[r].failed = {}
             /\ ask[r].docs = {} /\ ask[r].vector = "probe"
  <2>1. PICK q \in Questions, s \in Stores : ask[r] = Asked(q, s)
    BY DEF Init
  <2>2. QED
    BY <2>1, AskedFacts DEF ErrorTold
<1>2. ask \in [Asks -> Retrievals]
  BY <1>1 DEF Init
<1>3. TypeInv
  BY <1>2, NoEntryFacts, KnowledgeAssumption DEF Init, TypeInv, KnowledgeAssumption
<1>4. BoundInv
  <2>1. Searching = {}
    BY <1>1 DEF Searching
  <2>2. QED
    BY <2>1, FS_EmptySet, KnowledgeAssumption DEF BoundInv, KnowledgeAssumption
<1>5. OwnInv
  BY <1>1, NoEntryFacts DEF Init, OwnInv, Own
<1>6. TellInv
  BY <1>1, NoEntryFacts DEF Init, TellInv
<1>7. QED
  BY <1>3, <1>4, <1>5, <1>6 DEF Inv

\* Every step keeps the invariant.
LEMMA NextKeeps == Inv /\ [Next]_vars => Inv'
<1> SUFFICES ASSUME Inv, [Next]_vars
             PROVE  Inv'
  OBVIOUS
<1>1. CASE Next
  BY <1>1, RebuildStep, RetrieveStep, ExpireStep DEF Next
<1>2. CASE UNCHANGED vars
  BY <1>2 DEF vars, table, Inv, TypeInv, BoundInv, Searching, OwnInv, TellInv
<1>3. QED
  BY <1>1, <1>2

LEMMA Invariance == Spec => []Inv
BY InitInv, NextKeeps, PTL DEF Spec

-----------------------------------------------------------------------------
(* The theorems.                                                           *)

\* The variables keep their types, and no more searches run at a time than
\* RAG_MAX_CONCURRENT (get_rag_semaphore).
THEOREM RetrievalTypes == Spec => []TypeOK
<1>1. Inv => TypeOK
  BY DEF Inv, TypeInv, BoundInv, TypeOK, Entries, Retrievals
<1>2. QED
  BY <1>1, Invariance, PTL

\* A question of a store is answered from documents of the stores that share its
\* label, cached or not (_cache_key, vector_search, lexical_search): from its own when
\* its tenant and store joined by a colon are nobody else's.
THEOREM StoresApart == Spec => []OwnDocuments
<1>1. Inv => OwnDocuments
  <2> SUFFICES ASSUME Inv
               PROVE  OwnDocuments
    OBVIOUS
  <2>1. ASSUME NEW r \in Asks, ask[r].scope # NoScope
        PROVE  \A d \in ask[r].docs : Label[StoreOf[d]] = Label[ask[r].scope]
    <3>1. ask[r].scope \in Stores \ {NoScope}
      BY <2>1 DEF Inv, TypeInv, Retrievals
    <3>2. Label[ask[r].scope] # Label[NoScope]
      BY <3>1, KnowledgeAssumption DEF KnowledgeAssumption
    <3>3. QED
      BY <3>2 DEF Inv, OwnInv, Own
  <2>2. QED
    BY <2>1 DEF Inv, OwnInv, Own, OwnDocuments
<1>2. QED
  BY <1>1, Invariance, PTL

\* An answer of the RAG agent that tells of no failed channel misses nothing it was
\* owed, through the cache and any rebuilds of the table, but for what the limit cut
\* off (hybrid_retrieve_detailed); of a retrieval that failed altogether the RAG agent
\* answers nothing, and customer service says so (run_crm_workflow).
THEOREM FailuresAreTold == Spec => []DegradedIsTold
<1>1. Inv => DegradedIsTold
  <2> SUFFICES ASSUME Inv
               PROVE  DegradedIsTold
    OBVIOUS
  <2>1. \A k \in Keys : cache[k].failed # Channels
    BY DEF Inv, TellInv, RankTold
  <2>2. ASSUME NEW r \in Asks
        PROVE  /\ ask[r].answer \in {"no_knowledge", "answered"} /\ ask[r].failed = {}
                    => ask[r].whole
               /\ ask[r].failed = Channels => ask[r].at = "search" /\ ask[r].answer = "none"
               /\ ask[r].error => ask[r].docs = {} /\ ask[r].answer \in {"none", "partial"}
    BY DEF Inv, TellInv, RankTold, SearchTold, ErrorTold
  <2>3. QED
    BY <2>1, <2>2 DEF DegradedIsTold
<1>2. QED
  BY <1>1, Invariance, PTL

-----------------------------------------------------------------------------
(* How far the retrievals are.                                             *)

\* How far the channels are, each of which may search a second time.
VectorStage(a) == CASE a.vector = "probe"  -> 0
                    [] a.vector = "search" -> 1
                    [] a.vector = "again"  -> 2
                    [] OTHER               -> 3
WordsStage(a) == CASE a.words = "search" -> 0
                   [] a.words = "again"  -> 1
                   [] OTHER              -> 2
Stage(a) == CASE a.at = "new"    -> 0
              [] a.at = "wait"   -> 1
              [] a.at = "search" -> 2 + VectorStage(a) + WordsStage(a)
              [] a.at = "save"   -> 8
              [] a.at = "answer" -> 9
              [] OTHER           -> 10

\* A retrieval only goes on, whatever the others, the cache and the script do,
\* and every step of its own brings it on; its answer stands until the next
\* question.
Advances(r) ==
  /\ ask[r].at # "done" => /\ Stage(ask'[r]) \in Stage(ask[r]) .. 10
                           /\ Retrieve(r) => Stage(ask'[r]) > Stage(ask[r])
  /\ ask[r].at = "done" => ask'[r] = ask[r] \/ Again(r)
RetrievalAdvances == [][\A r \in Asks : Advances(r)]_vars

\* The guard of a step a retrieval takes by itself, without a timeout.
SearchGoes(r) == Over(r) \/ ask[r].vector \in {"probe", "search", "again"}
                         \/ ask[r].words \in {"search", "again"}
CanGo(r) == CASE ask[r].at = "wait" -> Cardinality(Searching) < MaxConcurrent
              [] ask[r].at = "search" -> SearchGoes(r)
              [] OTHER -> TRUE

\* A retrieval can take its next step, or waits for a place that a search has
\* which can take one itself.
NeverStuck ==
  \A r \in Asks : CanGo(r) \/ (ask[r].at = "wait" /\ \E s \in Searching : CanGo(s))

LEMMA StageFacts ==
  ASSUME NEW a \in Retrievals
  PROVE  /\ VectorStage(a) \in 0 .. 3 /\ WordsStage(a) \in 0 .. 2
         /\ Stage(a) \in 0 .. 10
         /\ a.at = "search" => Stage(a) \in 2 .. 7
         /\ a.at # "done" => Stage(a) < 10
<1>1. /\ a.at \in {"new", "wait", "search", "save", "answer", "done"}
      /\ a.vector \in {"probe", "search", "again", "empty", "done"}
      /\ a.words \in {"search", "again", "empty", "done"}
  BY DEF Retrievals
<1>2. VectorStage(a) \in 0 .. 3 /\ WordsStage(a) \in 0 .. 2
  BY <1>1 DEF VectorStage, WordsStage
<1>3. QED
  BY <1>1, <1>2 DEF Stage

\* A retrieval whose record becomes a leaves the others alone.
LEMMA ChangeFacts ==
  ASSUME Inv, NEW r \in Asks, NEW a, Change(r, a)
  PROVE  ask'[r] = a /\ \A x \in Asks \ {r} : ask'[x] = ask[x]
BY DEF Inv, TypeInv, Change

LEMMA SetFacts ==
  ASSUME Inv, NEW r \in Asks, NEW f, NEW v, Set(r, f, v)
  PROVE  Change(r, [ask[r] EXCEPT ![f] = v])
BY DEF Inv, TypeInv, Set, Change

\* While both channels search, either only goes on.
LEMMA SearchAdvances ==
  ASSUME NEW a \in Retrievals, NEW b \in Retrievals, a.at = "search", b.at = "search",
         \/ VectorStage(b) > VectorStage(a) /\ WordsStage(b) = WordsStage(a)
         \/ VectorStage(b) = VectorStage(a) /\ WordsStage(b) > WordsStage(a)
  PROVE  Stage(b) > Stage(a)
<1>1. Stage(a) = 2 + VectorStage(a) + WordsStage(a) /\ Stage(b) = 2 + VectorStage(b) + WordsStage(b)
  BY DEF Stage
<1>2. QED
  BY <1>1, StageFacts

LEMMA DropAdvances ==
  ASSUME Inv, NEW r \in Asks, Drop(r) \/ EndInError(r), ask[r].at \notin {"answer", "done"}
                                \/ (Drop(r) /\ ask[r].at # "done")
  PROVE  Stage(ask'[r]) > Stage(ask[r])
<1> DEFINE a == [Asked(ask[r].question, NoScope) EXCEPT !.at = "done"]
           b == [Asked(ask[r].question, NoScope) EXCEPT
                   !.at = IF r \in Helps THEN "answer" ELSE "done", !.error = TRUE]
<1>1. ask[r] \in Retrievals
  BY DEF Inv, TypeInv
<1>2. a.at = "done" /\ b.at \in {"answer", "done"}
  BY DEF Asked
<1>3. Change(r, a) \/ Change(r, b)
  BY DEF Drop, EndInError
<1>4. Drop(r) => Change(r, a)
  BY DEF Drop
<1> HIDE DEF a, b
<1>5. CASE Change(r, a)
  <2>1. ask'[r] = a /\ Stage(a) = 10
    BY <1>2, <1>5, ChangeFacts DEF Stage
  <2>2. QED
    BY <1>1, <2>1, StageFacts
<1>6. CASE Change(r, b) /\ ask[r].at \notin {"answer", "done"}
  <2>1. ask'[r] = b /\ Stage(b) \in {9, 10}
    BY <1>2, <1>6, ChangeFacts DEF Stage
  <2>2. ask[r].at \in {"new", "wait", "search", "save"}
    BY <1>1, <1>6 DEF Retrievals
  <2>3. Stage(ask[r]) \in 0 .. 8
    BY <1>1, <2>2, StageFacts DEF Stage
  <2>4. QED
    BY <2>1, <2>3
<1>7. QED
  BY <1>3, <1>4, <1>5, <1>6

LEMMA VectorsAdvance ==
  ASSUME Inv, NEW r \in Asks, Embed(r) \/ SearchVectors(r)
  PROVE  Stage(ask'[r]) > Stage(ask[r])
<1>0. ask[r] \in Retrievals /\ ask'[r] \in Retrievals /\ ask \in [Asks -> Retrievals]
  BY RetrieveStep DEF Inv, TypeInv, Retrieve
<1>1. ask[r].at = "search"
  BY DEF Embed, SearchVectors
<1>2. ASSUME NEW v \in {"search", "again", "empty", "done"}, NEW a,
             Change(r, a), a.at = ask[r].at, a.words = ask[r].words, a.vector = v,
             \/ ask[r].vector = "probe"
             \/ ask[r].vector = "search" /\ v # "search"
             \/ ask[r].vector = "again" /\ v \in {"empty", "done"}
      PROVE  Stage(ask'[r]) > Stage(ask[r])
  <2>1. ask'[r] = a
    BY <1>2, ChangeFacts
  <2>2. a.at = "search" /\ WordsStage(a) = WordsStage(ask[r])
    BY <1>1, <1>2 DEF WordsStage
  <2>3. VectorStage(a) > VectorStage(ask[r])
    BY <1>2 DEF VectorStage
  <2>4. QED
    BY <1>0, <1>1, <2>1, <2>2, <2>3, SearchAdvances
<1>3. ASSUME NEW v \in {"search", "again", "empty", "done"},
             Set(r, "vector", v),
             \/ ask[r].vector = "probe"
             \/ ask[r].vector = "search" /\ v # "search"
      PROVE  Stage(ask'[r]) > Stage(ask[r])
  <2> DEFINE a == [ask[r] EXCEPT !["vector"] = v]
  <2>1. Change(r, a)
    BY <1>3, SetFacts
  <2>2. a.at = ask[r].at /\ a.words = ask[r].words /\ a.vector = v
    BY <1>0 DEF Retrievals
  <2> HIDE DEF a
  <2>3. QED
    BY <1>2, <1>3, <2>1, <2>2
<1>4. ASSUME NoVector(r), ask[r].vector \in {"probe", "search", "again"}
      PROVE  Stage(ask'[r]) > Stage(ask[r])
  <2> DEFINE a == [ask[r] EXCEPT !.vector = "done", !.failed = @ \cup {"vector"}]
  <2>1. Change(r, a)
    BY <1>4 DEF NoVector
  <2>2. a.at = ask[r].at /\ a.words = ask[r].words /\ a.vector = "done"
    BY <1>0 DEF Retrievals
  <2> HIDE DEF a
  <2>3. QED
    BY <1>2, <1>4, <2>1, <2>2
<1>5. CASE Embed(r)
  BY <1>3, <1>4, <1>5 DEF Embed
<1>6. CASE SearchVectors(r)
  <2>1. ASSUME NEW found,
               Change(r, [ask[r] EXCEPT
                 !.vector = IF found = {} THEN "empty" ELSE "done",
                 !.docs = Fused(@, found),
                 !.owed = IF found = Near(r, ask[r].vector) THEN @ ELSE @ \cap found])
        PROVE  Stage(ask'[r]) > Stage(ask[r])
    <3> DEFINE a == [ask[r] EXCEPT
                 !.vector = IF found = {} THEN "empty" ELSE "done",
                 !.docs = Fused(@, found),
                 !.owed = IF found = Near(r, ask[r].vector) THEN @ ELSE @ \cap found]
    <3>1. a.at = ask[r].at /\ a.words = ask[r].words /\ a.vector \in {"empty", "done"}
      BY <1>0 DEF Retrievals
    <3>2. Change(r, a)
      BY <2>1
    <3>3. ask[r].vector \in {"search", "again"}
      BY <1>6 DEF SearchVectors
    <3> HIDE DEF a
    <3>4. QED
      BY <1>2, <3>1, <3>2, <3>3
  <2>2. /\ ask[r].vector \in {"search", "again"}
        /\ \/ NoVector(r)
           \/ ask[r].vector = "search" /\ Set(r, "vector", "again")
           \/ \E found \in Cut(Near(r, ask[r].vector), Limit) :
                Change(r, [ask[r] EXCEPT
                  !.vector = IF found = {} THEN "empty" ELSE "done",
                  !.docs = Fused(@, found),
                  !.owed = IF found = Near(r, ask[r].vector) THEN @ ELSE @ \cap found])
    BY <1>6 DEF SearchVectors
  <2>3. QED
    BY <1>3, <1>4, <2>1, <2>2
<1>7. QED
  BY <1>5, <1>6

LEMMA WordsAdvance ==
  ASSUME Inv, NEW r \in Asks, SearchWords(r)
  PROVE  Stage(ask'[r]) > Stage(ask[r])
<1>0. ask[r] \in Retrievals /\ ask'[r] \in Retrievals /\ ask \in [Asks -> Retrievals]
  BY RetrieveStep DEF Inv, TypeInv, Retrieve
<1>1. ask[r].at = "search" /\ ask[r].words \in {"search", "again"}
  BY DEF SearchWords
<1>2. ASSUME NEW a, Change(r, a), a.at = ask[r].at, a.vector = ask[r].vector,
             \/ a.words \in {"empty", "done"}
             \/ ask[r].words = "search" /\ a.words = "again"
      PROVE  Stage(ask'[r]) > Stage(ask[r])
  <2>1. ask'[r] = a
    BY <1>2, ChangeFacts
  <2>2. a.at = "search" /\ VectorStage(a) = VectorStage(ask[r])
    BY <1>1, <1>2 DEF VectorStage
  <2>3. WordsStage(a) > WordsStage(ask[r])
    BY <1>1, <1>2 DEF WordsStage
  <2>4. QED
    BY <1>0, <1>1, <2>1, <2>2, <2>3, SearchAdvances
<1>3. ASSUME Set(r, "words", "again"), ask[r].words = "search"
      PROVE  Stage(ask'[r]) > Stage(ask[r])
  <2> DEFINE a == [ask[r] EXCEPT !["words"] = "again"]
  <2>1. Change(r, a)
    BY <1>3, SetFacts
  <2>2. a.at = ask[r].at /\ a.vector = ask[r].vector /\ a.words = "again"
    BY <1>0 DEF Retrievals
  <2> HIDE DEF a
  <2>3. QED
    BY <1>2, <1>3, <2>1, <2>2
<1> DEFINE b == [ask[r] EXCEPT !.words = "done", !.failed = @ \cup {"words"}]
<1>4. ASSUME NEW found, Change(r, [ask[r] EXCEPT
               !.words = IF found = {} THEN "empty" ELSE "done", !.docs = Fused(@, found)])
      PROVE  Stage(ask'[r]) > Stage(ask[r])
  <2> DEFINE a == [ask[r] EXCEPT
               !.words = IF found = {} THEN "empty" ELSE "done", !.docs = Fused(@, found)]
  <2>1. a.at = ask[r].at /\ a.vector = ask[r].vector /\ a.words \in {"empty", "done"}
    BY <1>0 DEF Retrievals
  <2>2. Change(r, a)
    BY <1>4
  <2> HIDE DEF a
  <2>3. QED
    BY <1>2, <2>1, <2>2
<1>5. b.at = ask[r].at /\ b.vector = ask[r].vector /\ b.words \in {"empty", "done"}
  BY <1>0 DEF Retrievals
<1>6. \/ ask[r].words = "search" /\ Set(r, "words", "again")
      \/ \E found \in Cut(Spelt(r, ask[r].words), Limit) :
           Change(r, [ask[r] EXCEPT
             !.words = IF found = {} THEN "empty" ELSE "done", !.docs = Fused(@, found)])
      \/ Change(r, b)
  BY DEF SearchWords
<1> HIDE DEF b
<1>7. QED
  BY <1>2, <1>3, <1>4, <1>5, <1>6

\* Every step of a retrieval brings it on.
LEMMA StepAdvances ==
  ASSUME Inv, NEW r \in Asks, Retrieve(r), ask[r].at # "done"
  PROVE  Stage(ask'[r]) > Stage(ask[r])
<1>0. ask[r] \in Retrievals /\ ask'[r] \in Retrievals /\ ask \in [Asks -> Retrievals]
  BY RetrieveStep DEF Inv, TypeInv
<1>1. CASE Refuse(r) \/ Fail(r) \/ Cancel(r)
  BY <1>1, DropAdvances DEF Refuse, Fail, Over, Cancel
<1>2. CASE Hit(r) \/ Missed(r) \/ Enter(r) \/ Rank(r) \/ Save(r) \/ Answer(r)
  <2>1. \/ ask[r].at = "new" /\ ask'[r].at \in {"answer", "wait"}
        \/ ask[r].at = "wait" /\ ask'[r].at = "search"
        \/ ask[r].at = "search" /\ ask'[r].at = "save"
        \/ ask[r].at = "save" /\ ask'[r].at = "answer"
        \/ ask[r].at = "answer" /\ ask'[r].at = "done"
    <3>1. CASE Hit(r)
      BY <1>0, <3>1 DEF Hit, Change, Retrievals
    <3>2. CASE Missed(r) \/ Save(r)
      BY <1>0, <3>2 DEF Missed, Save, Set, Retrievals
    <3>3. CASE Enter(r)
      BY <1>0, <3>3 DEF Enter, Change, Retrievals
    <3>4. CASE Rank(r)
      <4>1. PICK kept \in Kept(ask[r].question) : \E best \in Cut(ask[r].docs \cap kept, TopK) :
              Change(r, Ranked(r, best))
        BY <3>4 DEF Rank
      <4>2. PICK best : Change(r, Ranked(r, best))
        BY <4>1
      <4>3. Ranked(r, best).at = "save"
        BY <1>0 DEF Retrievals, Ranked
      <4>4. QED
        BY <3>4, <4>2, <4>3, ChangeFacts DEF Rank, Over
    <3>5. CASE Answer(r)
      <4>1. Told(r).at = "done" /\ Change(r, Told(r))
        BY <3>5 DEF Answer, Told, Asked
      <4>2. QED
        BY <3>5, <4>1, ChangeFacts DEF Answer
    <3>6. QED
      BY <1>2, <3>1, <3>2, <3>3, <3>4, <3>5
  <2>2. /\ ask[r].at = "search" => Stage(ask[r]) \in 2 .. 7
        /\ ask'[r].at = "search" => Stage(ask'[r]) \in 2 .. 7
    BY <1>0, StageFacts
  <2>3. QED
    BY <2>1, <2>2 DEF Stage
<1>3. CASE Embed(r) \/ SearchVectors(r) \/ SearchWords(r)
  BY <1>3, VectorsAdvance, WordsAdvance
<1>4. ~Again(r)
  BY DEF Again
<1>5. QED
  BY <1>1, <1>2, <1>3, <1>4 DEF Retrieve

\* The step of one retrieval is not seen by the others.
LEMMA OthersStay ==
  ASSUME Inv, NEW r \in Asks, Retrieve(r), NEW x \in Asks \ {r}
  PROVE  ask'[x] = ask[x]
<1>1. ask \in [Asks -> Retrievals]
  BY DEF Inv, TypeInv
<1>2. QED
  BY <1>1 DEF Retrieve, Refuse, Hit, Missed, Enter, Embed, NoVector, SearchVectors,
       SearchWords, Fail, Rank, Save, Answer, Cancel, Again, Drop, EndInError, Change, Set

\* What the script does to the table does not set a retrieval back.
LEMMA RebuildStays ==
  ASSUME Inv, NEW r \in Asks, Rebuild
  PROVE  /\ Stage(ask'[r]) = Stage(ask[r])
         /\ ask[r].at = "done" => ask'[r] = ask[r]
<1>1. ask \in [Asks -> Retrievals]
  BY DEF Inv, TypeInv
<1>2. \/ ask' = ask
      \/ ask[r].at = "search" /\ ask'[r] = [ask[r] EXCEPT !.owed = {}]
      \/ ask[r].at # "search" /\ ask'[r] = ask[r]
  BY <1>1 DEF Rebuild, Truncate, Insert, Finish, Crash
<1>3. ASSUME ask[r].at = "search", ask'[r] = [ask[r] EXCEPT !.owed = {}]
      PROVE  Stage(ask'[r]) = Stage(ask[r])
  <2>1. /\ ask'[r].at = ask[r].at /\ ask'[r].vector = ask[r].vector
        /\ ask'[r].words = ask[r].words
    BY <1>1, <1>3 DEF Retrievals
  <2>2. QED
    BY <2>1 DEF Stage, VectorStage, WordsStage
<1>4. QED
  BY <1>2, <1>3

\* Every retrieval comes to its end in at most ten steps of its own
\* (RAGService.retrieve, answer), and its answer stands.
THEOREM RetrievalsAdvance == Spec => RetrievalAdvances
<1>1. Inv /\ [Next]_vars => \A r \in Asks : Advances(r)
  <2> SUFFICES ASSUME Inv, [Next]_vars, NEW r \in Asks
               PROVE  Advances(r)
    OBVIOUS
  <2>0. Inv'
    BY NextKeeps
  <2>1. /\ Stage(ask[r]) \in 0 .. 10 /\ Stage(ask'[r]) \in 0 .. 10
        /\ ask[r] \in Retrievals /\ ask'[r] \in Retrievals
    BY <2>0, StageFacts DEF Inv, TypeInv
  <2>2. CASE Retrieve(r)
    <3>1. CASE ask[r].at = "done"
      BY <2>2, <3>1 DEF Advances, Retrieve, Refuse, Hit, Missed, Enter, Embed,
           SearchVectors, SearchWords, Fail, Over, Rank, Save, Answer, Cancel
    <3>2. CASE ask[r].at # "done"
      BY <2>1, <2>2, <3>2, StepAdvances DEF Advances
    <3>3. QED
      BY <3>1, <3>2
  <2>3. CASE ~Retrieve(r)
    <3>1. ASSUME NEW x \in Asks, Retrieve(x)
          PROVE  ask'[r] = ask[r]
      BY <2>3, <3>1, OthersStay
    <3>2. ASSUME (\E k \in Keys : Expire(k)) \/ UNCHANGED vars
          PROVE  ask'[r] = ask[r]
      BY <3>2 DEF Expire, vars
    <3>3. /\ Stage(ask'[r]) = Stage(ask[r])
          /\ ask[r].at = "done" => ask'[r] = ask[r]
      BY <3>1, <3>2, RebuildStays DEF Next
    <3>4. QED
      BY <2>1, <2>3, <3>3 DEF Advances
  <2>4. QED
    BY <2>2, <2>3
<1>2. Spec => [][\A r \in Asks : Advances(r)]_vars
  BY Invariance, <1>1, PTL DEF Spec
<1>3. QED
  BY <1>2 DEF RetrievalAdvances

\* A retrieval never waits for a place that nobody gives back (get_rag_semaphore).
THEOREM RetrievalsGoOn == Spec => []NeverStuck
<1>1. Inv => NeverStuck
  <2> SUFFICES ASSUME Inv, NEW r \in Asks
               PROVE  CanGo(r) \/ (ask[r].at = "wait" /\ \E s \in Searching : CanGo(s))
    BY DEF NeverStuck
  <2>1. ASSUME NEW s \in Searching
        PROVE  CanGo(s)
    <3>1. ask[s] \in Retrievals /\ ask[s].at = "search"
      BY DEF Inv, TypeInv, Searching
    <3>2. QED
      BY <3>1 DEF CanGo, SearchGoes, Over, Retrievals
  <2>2. CASE Searching = {}
    <3>1. Cardinality(Searching) < MaxConcurrent
      BY <2>2, FS_EmptySet, KnowledgeAssumption DEF KnowledgeAssumption
    <3>2. r \notin Searching
      BY <2>2
    <3>3. QED
      BY <3>1, <3>2 DEF CanGo, Searching
  <2>3. CASE Searching # {}
    <3>1. \E s \in Searching : CanGo(s)
      BY <2>1, <2>3
    <3>2. CASE ask[r].at = "wait"
      BY <3>1, <3>2
    <3>3. CASE ask[r].at # "wait"
      BY <2>1, <3>3 DEF CanGo, Searching
    <3>4. QED
      BY <3>2, <3>3
  <2>4. QED
    BY <2>2, <2>3
<1>2. QED
  BY <1>1, Invariance, PTL
=============================================================================
