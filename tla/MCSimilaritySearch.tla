------------------------- MODULE MCSimilaritySearch -------------------------
(***************************************************************************)
(* SimilaritySearch for a few texts over the terms x, y and z.  The lines  *)
(* 1 .. Free are entered, replaced and erased in any order; those above    *)
(* are entered in order of their ids, as the cross-reference service fills *)
(* its index, once no line is missing and no term has changed its id.      *)
(***************************************************************************)
EXTENDS SimilaritySearch, FiniteSetsExt

CONSTANTS Free, FreeRefs

MCGrams == [t \in Texts |->
  CASE t = "xy" -> <<"x", "y">> [] t = "xx" -> <<"x", "x">> [] t = "yxz" -> <<"y", "x", "z">>
    [] t = "z" -> <<"z">> [] OTHER -> << >>]

\* No term has lost an id or kept a reference to an erased line.
Fresh ==
  /\ Len(index.refs) = Cardinality(DOMAIN index.termIds)
  /\ \A t \in DOMAIN index.termIds :
       index.refs[index.termIds[t]] =
         FoldSet(LAMBDA id, n : n + Occurrences(Grams[shown[id].text], t), 0, DOMAIN shown)

MCNext ==
  \/ \E id \in 1 .. Free, path \in Paths, text \in Texts :
       Upsert(id, path, text) /\ \A k \in DOMAIN index'.refs : index'.refs[k] <= FreeRefs
  \/ \E id \in 1 .. Free : Erase(id)
  \/ \E id \in LineIds, path \in Paths, text \in {"xy", "z"} :
       /\ id > Free /\ (id > 6 => text = "xy") /\ DOMAIN shown = 1 .. id - 1
       /\ Fresh
       /\ \A j \in DOMAIN shown : shown[j].path = path
       /\ Upsert(id, path, text)

MCSpec == Init /\ [][MCNext]_vars
=============================================================================
