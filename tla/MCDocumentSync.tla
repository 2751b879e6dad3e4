--------------------------- MODULE MCDocumentSync ---------------------------
(***************************************************************************)
(* DocumentSync over texts of at most MaxLength characters, the letter x   *)
(* and line ends.  Besides single edits the editor makes two at once, the  *)
(* second at the start of the text.                                        *)
(***************************************************************************)
EXTENDS DocumentSync

CONSTANTS x, MaxLength, Patches

MCLfOnly == <<LF>>
MCCrLf == <<CR, LF>>

MCOriginals == UNION {[1 .. n -> {x, LF}] : n \in 0 .. MaxLength}
MCEmpty == {<< >>}
MCPatches == {<< >>, <<x>>, <<LF>>, <<LF, x, LF>>}
MCFewPatches == {<< >>, <<x>>, <<LF>>}

\* The edits of a text, with what they leave.
Edits(text) ==
  LET Left(e) == [from |-> e.from, to |-> e.to, text |-> e.text, left |-> Splice(text, e)]
  IN  {Left(e) : e \in {e \in [from : 0 .. Len(text), to : 0 .. Len(text), text : Patches] :
                          e.from <= e.to /\ Len(text) - (e.to - e.from) + Len(e.text) <= MaxLength}}

\* After an edit an x at the start of what it left.
ThenX(e) == [from |-> 0, to |-> 0, text |-> <<x>>, left |-> <<x>> \o e.left]

MCChanges(text) ==
  {<<e>> : e \in Edits(text)} \cup
  {<<e, ThenX(e)>> : e \in {e \in Edits(text) : Len(e.left) < MaxLength}}
=============================================================================
