----------------------------- MODULE MCKnowledge -----------------------------
(***************************************************************************)
(* A small instance of Knowledge: one question, asked in two stores or in   *)
(* none.                                                                   *)
(***************************************************************************)
EXTENDS Knowledge, TLC

CONSTANTS ours, kin, theirs, shirt, r1, r2

\* ours and kin are documents of store A, theirs of B, in another language; C has
\* none, and shares its label with B.
Stored == [d \in Docs |-> IF d = theirs THEN "B" ELSE "A"]
Labels == [s \in Stores |-> CASE s = "A" -> "a" [] s \in {"B", "C"} -> "b" [] OTHER -> "legacy"]
Tongues == [d \in Docs |-> IF d = theirs THEN "zh" ELSE "en"]
\* The word of the question is in theirs; ours is relevant without it, and kin is not.
Spelling == shirt :> {theirs}
Meaning == shirt :> {ours, theirs}
Prices == shirt :> Docs
=============================================================================
