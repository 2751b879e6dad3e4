-------------------------- MODULE SimilaritySearch --------------------------
(***************************************************************************)
(* SimilarityIndex::search: which lines are scored.  The terms of a query  *)
(* are taken from the rarest to the most common; the lines of their        *)
(* postings are candidates, in order of line id, until a budget is spent.  *)
(* The candidates are then cut into ranges that the threads of a pool      *)
(* score.  The score is a cosine: it is positive when a term is shared and *)
(* highest for a line with the query's own text, so a candidate is lost    *)
(* only by not being scored.                                               *)
(***************************************************************************)
EXTENDS SimilarityIndex

CONSTANTS
  Budget,         \* candidate_budget
  CommonCutoff,   \* common_posting_cutoff
  MinParallel,    \* min_parallel_candidates
  ChunkTarget,    \* target_chunk_size
  MaxTasks        \* max_parallel_tasks

\* In the code: at least 128, at least 4 times the budget, 128, 64, and at most 4.
ASSUME SearchAssumption ==
  /\ Budget \in Nat \ {0} /\ CommonCutoff \in Nat /\ CommonCutoff >= 4 * Budget
  /\ MinParallel \in Nat \ {0} /\ ChunkTarget \in Nat \ {0} /\ MaxTasks \in Nat \ {0}
  /\ (MaxTasks - 1) * (MaxTasks - 1) <= MinParallel

\* weighted_terms: the ids of the query's terms that have a posting.
QueryTerms(text) ==
  {index.termIds[t] : t \in TermsOf(text) \cap DOMAIN index.termIds} \cap DOMAIN index.postings

PostingSize(k) == Len(index.postings[k])

\* The orders std::sort may leave them in: the weight that decides between
\* postings of the same size is left open.
Orders(text) ==
  {s \in SetToSeqs(QueryTerms(text)) :
     \A i, j \in DOMAIN s : i < j => PostingSize(s[i]) <= PostingSize(s[j])}

\* Mutant of InsertUpToBudget: the budget is checked before the first id.
InsertBelowBudget(candidates, posting) ==
  LET full(n) == Cardinality(candidates \cup ToSet(SubSeq(posting, 1, n))) >= Budget - 1
      stop == {n \in 0 .. Len(posting) : full(n)}
  IN  candidates \cup ToSet(SubSeq(posting, 1,
        IF stop = {} THEN Len(posting) ELSE CHOOSE n \in stop : \A m \in stop : n <= m))

\* insert_candidates_up_to_budget
InsertUpToBudget(candidates, posting) ==
  LET full(n) == Cardinality(candidates \cup ToSet(SubSeq(posting, 1, n))) >= Budget
      stop == {n \in 1 .. Len(posting) : full(n)}
  IN  candidates \cup ToSet(SubSeq(posting, 1,
        IF stop = {} THEN Len(posting) ELSE CHOOSE n \in stop : \A m \in stop : n <= m))

SkipCommon(candidates, k) == PostingSize(k) > CommonCutoff /\ candidates # {}

\* The candidates after one more term.
WithTerm(candidates, k) ==
  IF Cardinality(candidates) >= Budget \/ SkipCommon(candidates, k) THEN candidates
  ELSE InsertUpToBudget(candidates, index.postings[k])

\* The loop over the terms.
Collect(order) ==
  LET after[i \in 0 .. Len(order)] ==
        IF i = 0 THEN {} ELSE WithTerm(after[i - 1], order[i])
  IN  after[Len(order)]

\* The candidates of a query, for each order.
CandidateSets(text) == IF QueryTerms(text) = {} THEN {{}} ELSE {Collect(s) : s \in Orders(text)}

\* parallel_task_count for n candidates
TaskCount(n) ==
  LET chunks == (n + ChunkTarget - 1) \div ChunkTarget
  IN  IF n < MinParallel THEN 1 ELSE IF MaxTasks < chunks THEN MaxTasks ELSE chunks

\* Mutant of ChunkSize: rounded down.
ChunkSizeDown(n) == n \div TaskCount(n)

ChunkSize(n) == (n + TaskCount(n) - 1) \div TaskCount(n)

\* The positions task i of 0 .. TaskCount(n) - 1 scores: begin + 1 .. end.
ChunkBegin(n, i) == i * ChunkSize(n)
ChunkEnd(n, i) == IF n < ChunkBegin(n, i) + ChunkSize(n) THEN n ELSE ChunkBegin(n, i) + ChunkSize(n)

-----------------------------------------------------------------------------
(* Properties. *)

\* Only lines that share a term with the query are scored, and if the index has
\* one, some line is.
CandidatesShareTerm ==
  \A text \in Texts : \A c \in CandidateSets(text) :
    /\ \A id \in c : TermsOf(shown[id].text) \cap TermsOf(text) # {}
    /\ c = {} => \A id \in DOMAIN shown : TermsOf(shown[id].text) \cap TermsOf(text) = {}

\* A line with the query's own text is scored, provided that the rarest of its
\* terms is on no more lines than the budget.
ExactWithinBudget ==
  \A text \in Texts : \A c \in CandidateSets(text) : \A id \in DOMAIN shown :
    /\ shown[id].text = text /\ TermsOf(text) # {}
    /\ \E t \in TermsOf(text) : Cardinality(LinesWith(t)) <= Budget
    => id \in c

\* What is scored is related to the query, and not without the best of it.
CandidatesRight == CandidatesShareTerm /\ ExactWithinBudget

\* The tasks' ranges are ranges of the n candidates, and every candidate is in
\* exactly one.
Partitioned(n) ==
  LET Tasks == 0 .. TaskCount(n) - 1
      InRange(i, p) == ChunkBegin(n, i) < p /\ p <= ChunkEnd(n, i)
  IN  /\ \A i \in Tasks : ChunkBegin(n, i) <= ChunkEnd(n, i)
      /\ \A p \in 1 .. n : \E i \in Tasks :
           InRange(i, p) /\ \A j \in Tasks : InRange(j, p) => j = i

\* Every candidate is scored by exactly one task, whatever their number; a
\* larger budget makes candidates of any number of the lines.
ScoredOnce == \A n \in 0 .. Cardinality(DOMAIN shown) : Partitioned(n)

\* If the index has a line with the query's own text, one such line is scored,
\* however many lines share terms with it.
ExactPreferred ==
  \A text \in Texts : \A c \in CandidateSets(text) :
    TermsOf(text) # {} /\ (\E id \in DOMAIN shown : shown[id].text = text) =>
      \E id \in c : shown[id].text = text
=============================================================================
