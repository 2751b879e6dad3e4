-------------------------- MODULE SimilarityIndex --------------------------
(***************************************************************************)
(* bridge_similarity::SimilarityIndex: an inverted index over the 2-grams  *)
(* of the indexed lines.  A 2-gram, a term, has an id that is retained     *)
(* for every occurrence and released once for every line that is erased;   *)
(* an id is never given out again.  The caller holds a lock, so upsert and *)
(* erase are each one step.                                                *)
(***************************************************************************)
EXTENDS Naturals, SequencesExt

CONSTANTS
  LineIds,     \* ids of lines, numbers
  Paths, Terms, Texts,
  Grams,       \* Grams[text]: the terms of a text, in order
  MaxTermIds,  \* bound: term ids given out
  MaxRefs      \* bound: references of a term

ASSUME IndexAssumption ==
  /\ LineIds \subseteq Nat
  /\ Grams \in [Texts -> Seq(Terms)]

VARIABLES
  index,   \* the members of the class, a record
  shown    \* history: what each indexed line was last given

vars == <<index, shown>>

Entry == [path : Paths, text : Texts]

\* A function with a finite domain of its own.
PartialFunctions(S, T) == UNION {[D -> T] : D \in SUBSET S}

IndexTypeOK ==
  /\ DOMAIN index.lines \subseteq LineIds
  /\ \A id \in DOMAIN index.lines :
       /\ index.lines[id].path \in Paths
       /\ DOMAIN index.lines[id].counts \subseteq 1 .. Len(index.refs)
  /\ DOMAIN index.frequency \subseteq 1 .. Len(index.refs)
  /\ \A k \in DOMAIN index.frequency : index.frequency[k] \in Nat \ {0}
  /\ \A k \in DOMAIN index.postings : index.postings[k] \in Seq(LineIds)
  /\ DOMAIN index.termIds \subseteq Terms
  /\ \A t \in DOMAIN index.termIds : index.termIds[t] \in 1 .. Len(index.refs)
  /\ index.refs \in Seq(Nat)
  /\ index.pathRefs \in [Paths -> Nat]
  /\ DOMAIN shown \subseteq LineIds

EmptyIndex ==
  [lines |-> << >>, frequency |-> << >>, postings |-> << >>, termIds |-> << >>,
   refs |-> << >>, pathRefs |-> [p \in Paths |-> 0]]

Init == index = EmptyIndex /\ shown = << >>

-----------------------------------------------------------------------------

\* std::lower_bound: the first position whose element is not below x.
LowerBound(s, x) ==
  CHOOSE i \in 1 .. Len(s) + 1 :
    /\ \A j \in 1 .. i - 1 : s[j] < x
    /\ i <= Len(s) => s[i] >= x

At(f, k, default) == IF k \in DOMAIN f THEN f[k] ELSE default

\* f with k removed, or mapped to v.
Without(f, k) == [j \in DOMAIN f \ {k} |-> f[j]]
With(f, k, v) == [j \in DOMAIN f \cup {k} |-> IF j = k THEN v ELSE f[j]]

\* Mutant of LastReference: the term goes while another occurrence holds it.
LastReferenceEarly(count) == count <= 2

LastReference(count) == count = 1

\* release_term_id for each of a set of ids
ReleaseTerms(ix, ids) ==
  LET gone == {k \in ids : LastReference(ix.refs[k])}
  IN  [ix EXCEPT
        !.refs = [k \in DOMAIN @ |-> IF k \in ids /\ @[k] > 0 THEN @[k] - 1 ELSE @[k]],
        !.termIds = [t \in {u \in DOMAIN @ : @[u] \notin gone} |-> @[t]]]

\* The posting of a term without the line.
DropPosting(posting, id) ==
  LET i == LowerBound(posting, id)
  IN  IF i <= Len(posting) /\ posting[i] = id THEN RemoveAt(posting, i) ELSE posting

\* erase
Erased(ix, id) ==
  IF id \notin DOMAIN ix.lines THEN ix
  ELSE LET line == ix.lines[id]
           ids == DOMAIN line.counts
           posting(k) == IF k \in ids THEN DropPosting(ix.postings[k], id) ELSE ix.postings[k]
           held(k) == IF k \in ids THEN ix.frequency[k] - 1 ELSE ix.frequency[k]
       IN  ReleaseTerms(
             [ix EXCEPT
               !.postings = [k \in {j \in DOMAIN @ : posting(j) # << >>} |-> posting(k)],
               !.frequency = [k \in {j \in DOMAIN @ : held(j) # 0} |-> held(k)],
               !.pathRefs[line.path] = @ - 1,
               !.lines = Without(@, id)],
             ids)

Occurrences(grams, t) == Cardinality({i \in DOMAIN grams : grams[i] = t})

\* retain_term_id for each occurrence in turn: new terms get the next ids in
\* the order of their first occurrence.
RetainTerms(ix, grams) ==
  LET news == {i \in DOMAIN grams : /\ grams[i] \notin DOMAIN ix.termIds
                                   /\ \A j \in 1 .. i - 1 : grams[j] # grams[i]}
      idAt(i) == Len(ix.refs) + Cardinality({j \in news : j <= i})
      ids == [t \in DOMAIN ix.termIds \cup ToSet(grams) |->
                IF t \in DOMAIN ix.termIds THEN ix.termIds[t]
                ELSE idAt(CHOOSE i \in news : grams[i] = t)]
      uses(k) == Cardinality({i \in DOMAIN grams : ids[grams[i]] = k})
  IN  [ix EXCEPT
        !.termIds = ids,
        !.refs = [k \in 1 .. Len(@) + Cardinality(news) |->
                    uses(k) + IF k <= Len(@) THEN @[k] ELSE 0]]

\* The posting of a term with the line.
AddPosting(posting, id) ==
  LET i == LowerBound(posting, id)
  IN  IF posting = << >> \/ Last(posting) < id THEN Append(posting, id)
      ELSE IF i <= Len(posting) /\ posting[i] = id THEN posting
      ELSE InsertAt(posting, i, id)

\* upsert
Upserted(ix, id, path, text) ==
  LET kept == RetainTerms(Erased(ix, id), Grams[text])
      ids == {kept.termIds[t] : t \in ToSet(Grams[text])}
      count(k) == Cardinality({i \in DOMAIN Grams[text] : kept.termIds[Grams[text][i]] = k})
  IN  [kept EXCEPT
        !.pathRefs[path] = @ + 1,
        !.lines = With(@, id, [path |-> path, counts |-> [k \in ids |-> count(k)]]),
        !.frequency = [k \in DOMAIN @ \cup ids |->
                         At(@, k, 0) + IF k \in ids THEN 1 ELSE 0],
        !.postings = [k \in DOMAIN @ \cup ids |->
                        IF k \in ids THEN AddPosting(At(@, k, << >>), id) ELSE @[k]]]

Upsert(id, path, text) ==
  /\ index' = Upserted(index, id, path, text)
  /\ Len(index'.refs) <= MaxTermIds /\ \A k \in DOMAIN index'.refs : index'.refs[k] <= MaxRefs
  /\ shown' = With(shown, id, [path |-> path, text |-> text])

Erase(id) ==
  /\ index' = Erased(index, id)
  /\ shown' = Without(shown, id)

Next ==
  \E id \in LineIds :
    \/ \E path \in Paths, text \in Texts : Upsert(id, path, text)
    \/ Erase(id)

Spec == Init /\ [][Next]_vars

-----------------------------------------------------------------------------
(* Properties. *)

TermsOf(text) == ToSet(Grams[text])
LinesWith(t) == {id \in DOMAIN shown : t \in TermsOf(shown[id].text)}

\* Looking a term up finds exactly the lines whose text has it, whatever was
\* upserted and erased before: no line under an id of the term that was given
\* up, none under a term it no longer has.
LookupExact ==
  \A t \in Terms :
    LinesWith(t) =
      IF t \in DOMAIN index.termIds
      THEN ToSet(At(index.postings, index.termIds[t], << >>)) ELSE {}

\* The document frequency of a term is the number of lines that have it, which
\* is what its weight is computed from.
FrequencyExact ==
  \A t \in DOMAIN index.termIds :
    At(index.frequency, index.termIds[t], 0) = Cardinality(LinesWith(t))

\* Postings stay in ascending order of line id, which the binary searches of
\* erase and upsert rely on, and none is kept empty.
PostingsSorted ==
  \A k \in DOMAIN index.postings :
    /\ index.postings[k] # << >>
    /\ \A i, j \in DOMAIN index.postings[k] : i < j => index.postings[k][i] < index.postings[k][j]

\* file_count counts the files that have a line.
FilesExact ==
  \A p \in Paths : index.pathRefs[p] = Cardinality({id \in DOMAIN shown : shown[id].path = p})

\* The index is at all times what the lines that it was given last make it.
IndexExact == IndexTypeOK /\ LookupExact /\ FrequencyExact /\ PostingsSorted /\ FilesExact
=============================================================================
