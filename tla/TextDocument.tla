---------------------------- MODULE TextDocument ----------------------------
(***************************************************************************)
(* bridge_documents::TextDocument: a document held as its lines, and the   *)
(* edits that textDocument/didChange applies to it.  Characters are model  *)
(* values; only the two that end a line, LF and CR, mean anything.         *)
(***************************************************************************)
EXTENDS Naturals, Sequences, SequencesExt

CONSTANTS Char, LF, CR

ASSUME CharAssumption == {LF, CR} \subseteq Char /\ LF # CR

Text == Seq(Char)
Position == [line : Nat, character : Nat]
NoRange == [line |-> 0]   \* TextChange without a range: the whole document

-----------------------------------------------------------------------------
(* Lines.  A line ends at an LF, a CR LF or a lone CR. *)

EndsInCR(text) == text # << >> /\ Last(text) = CR

\* The loop of split_lines, at the character c: a line end starts another line,
\* except the LF of a CR LF; any other character goes to the line under way.
ReadCharacter(lines, afterCR, c) ==
  IF c = LF /\ afterCR THEN lines
  ELSE IF c \in {LF, CR} THEN Append(lines, << >>)
  ELSE [lines EXCEPT ![Len(lines)] = Append(@, c)]

\* split_lines
SplitLines[text \in Text] ==
  IF text = << >> THEN << << >> >>
  ELSE ReadCharacter(SplitLines[Front(text)], EndsInCR(Front(text)), Last(text))

\* TextDocument::getContent
Content[lines \in Seq(Text)] ==
  IF lines = << >> THEN << >>
  ELSE IF Len(lines) = 1 THEN lines[1]
  ELSE Content[Front(lines)] \o <<LF>> \o Last(lines)

-----------------------------------------------------------------------------
(* Edits.  A document is its lines; lines are numbered from 0. *)

\* The four throws of TextDocument::edit.
RangeFits(lines, from, to) ==
  /\ from.line <= to.line
  /\ to.line < Len(lines)
  /\ from.character <= Len(lines[from.line + 1])
  /\ to.character <= Len(lines[to.line + 1])
  /\ from.line = to.line => from.character <= to.character

\* Mutant of ReplaceRange: the line the range ends on is kept.
ReplaceRangeKeepingLast(lines, from, to, text) ==
  LET patch == SplitLines[text]
      head == SubSeq(lines[from.line + 1], 1, from.character)
      tail == SubSeq(lines[to.line + 1], to.character + 1, Len(lines[to.line + 1]))
      joined == [patch EXCEPT ![1] = head \o @]
  IN  SubSeq(lines, 1, from.line)
        \o [joined EXCEPT ![Len(joined)] = @ \o tail]
        \o SubSeq(lines, to.line + 1 + (IF to.line > from.line THEN 0 ELSE 1), Len(lines))

\* The lines of the range give way to those of the patch; what precedes the
\* range on its first line and follows it on its last stays.
ReplaceRange(lines, from, to, text) ==
  LET patch == SplitLines[text]
      head == SubSeq(lines[from.line + 1], 1, from.character)
      tail == SubSeq(lines[to.line + 1], to.character + 1, Len(lines[to.line + 1]))
      joined == [patch EXCEPT ![1] = head \o @]
  IN  SubSeq(lines, 1, from.line)
        \o [joined EXCEPT ![Len(joined)] = @ \o tail]
        \o SubSeq(lines, to.line + 2, Len(lines))

Fits(lines, change) == change.from = NoRange \/ RangeFits(lines, change.from, change.to)

\* TextDocument::edit and setContent
Edit(lines, change) ==
  IF change.from = NoRange THEN SplitLines[change.text]
  ELSE ReplaceRange(lines, change.from, change.to, change.text)

Change ==
  [from : Position, to : Position, text : Text] \cup [from : {NoRange}, to : {NoRange}, text : Text]

\* An open document after a change that applied.
Edited(doc, version, change) ==
  [version |-> version, lines |-> Edit(doc.lines, change), open |-> doc.open]

\* The loop of DocumentManager::apply_lsp_changes: it stops at the first change
\* that is out of range; each change that was applied left its version.
ApplyChanges(doc, version, changes) ==
  LET after[list \in Seq(Change)] ==
        IF list = << >> THEN [doc |-> doc, failed |-> FALSE]
        ELSE LET before == after[Front(list)]
             IN  IF before.failed \/ ~Fits(before.doc.lines, Last(list))
                 THEN [doc |-> before.doc, failed |-> TRUE]
                 ELSE [doc |-> Edited(before.doc, version, Last(list)), failed |-> FALSE]
  IN  after[changes].doc
=============================================================================
