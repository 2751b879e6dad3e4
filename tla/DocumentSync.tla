---------------------------- MODULE DocumentSync ----------------------------
(***************************************************************************)
(* The copy of a document that the bridge keeps, and the editor it is a    *)
(* copy of.  The editor shows a text, saves it to disk and sends           *)
(* textDocument notifications; they wait in stdin and in LocalInputQueue   *)
(* until handle_local_session, which may be busy with a search, comes to   *)
(* them.  A save that does not carry the text makes the bridge read the    *)
(* disk when it handles the notification.                                  *)
(***************************************************************************)
EXTENDS TextDocument, FiniteSets

CONSTANTS
  Eol,          \* line end of the editor's document: <<LF>> or <<CR, LF>>
  Originals,    \* texts the file may have to begin with
  Changes(_),   \* Changes(t): edits the editor may make at once to text t
  MaxVersion, MaxSaves, MaxOpens, \* bounds of the instance
  NoText,       \* a didSave without a "text" member
  Closed        \* no document

ASSUME SyncAssumption ==
  /\ Eol \in {<<LF>>, <<CR, LF>>}
  /\ Originals \subseteq Text
  /\ MaxVersion \in Nat \ {0} /\ MaxSaves \in Nat /\ MaxOpens \in Nat
  /\ Closed \notin [version : Nat, text : Text]
  /\ Closed \notin [version : Nat, lines : Seq(Text), open : Nat]

VARIABLES
  display,   \* what the editor shows: [version, text], or Closed
  disk,     \* the text of the file
  inbox,    \* notifications sent and not handled
  copy,     \* open_documents_: [version, lines], or Closed
  synced,   \* last_full_sync_at_ is less than a minute ago
  shown,    \* history: what the editor showed under each version of each opening
  opens, saves  \* how often the editor opened and saved

vars == <<display, disk, inbox, copy, synced, shown, opens, saves>>

\* The text as the editor sends and saves it: its lines end in Eol.
Wire[text \in Text] ==
  IF text = << >> THEN << >>
  ELSE Wire[Front(text)] \o (IF Last(text) = LF THEN Eol ELSE <<Last(text)>>)

\* Where an offset of the text is, in lines and characters: after the text before.
PositionAfter[text \in Text] ==
  IF text = << >> THEN [line |-> 0, character |-> 0]
  ELSE LET before == PositionAfter[Front(text)]
       IN  IF Last(text) = LF THEN [line |-> before.line + 1, character |-> 0]
           ELSE [before EXCEPT !.character = @ + 1]
PositionAt(text, offset) == PositionAfter[SubSeq(text, 1, offset)]

\* What the editor shows: lines end in LF.
Plain == Seq(Char \ {CR})

\* An edit of the editor: the characters after offset "from" up to "to" become
\* "text", and the text is "left"; and the same edit as the notification
\* describes it.
TextEdit == [from : Nat, to : Nat, text : Plain, left : Plain]
Splice(text, edit) == SubSeq(text, 1, edit.from) \o edit.text \o SubSeq(text, edit.to + 1, Len(text))
Applies(text, edit) ==
  edit.from <= edit.to /\ edit.to <= Len(text) /\ edit.left = Splice(text, edit)
AsChange(text, edit) ==
  [from |-> PositionAt(text, edit.from), to |-> PositionAt(text, edit.to), text |-> Wire[edit.text]]

WholeText(text) == [from |-> NoRange, to |-> NoRange, text |-> Wire[text]]

Init ==
  /\ display = Closed /\ copy = Closed
  /\ disk \in {Wire[text] : text \in Originals}
  /\ inbox = << >>
  /\ synced = FALSE
  /\ shown = {}
  /\ opens = 0 /\ saves = 0

Send(message) == inbox' = Append(inbox, message)
Show(opening, version, text) ==
  /\ display' = [version |-> version, text |-> text]
  /\ shown' = shown \cup {[open |-> opening, version |-> version, text |-> text]}

-----------------------------------------------------------------------------
(* The editor. *)

EditorOpens ==
  /\ display = Closed /\ opens < MaxOpens
  /\ opens' = opens + 1
  /\ Show(opens + 1, 1, Content[SplitLines[disk]])
  /\ Send([kind |-> "didOpen", open |-> opens + 1, version |-> 1, text |-> disk])
  /\ UNCHANGED <<disk, copy, synced, saves>>

\* One notification describes several edits, each relative to the text the one
\* before it left; or it carries the whole text.
EditorEdits ==
  /\ display # Closed /\ display.version < MaxVersion
  /\ \E edits \in Changes(display.text) :
       LET Left(k) == IF k = 0 THEN display.text ELSE edits[k].left
       IN  /\ edits \in Seq(TextEdit) \ {<< >>}
           /\ \A k \in DOMAIN edits : Applies(Left(k - 1), edits[k])
           /\ Show(opens, display.version + 1, Left(Len(edits)))
           /\ \E changes \in {[k \in DOMAIN edits |-> AsChange(Left(k - 1), edits[k])],
                              <<WholeText(Left(Len(edits)))>>} :
                Send([kind |-> "didChange", version |-> display.version + 1, changes |-> changes])
  /\ UNCHANGED <<disk, copy, synced, opens, saves>>

EditorSaves ==
  /\ display # Closed /\ saves < MaxSaves
  /\ saves' = saves + 1
  /\ disk' = Wire[display.text]
  /\ \E text \in {Wire[display.text], NoText} : Send([kind |-> "didSave", text |-> text])
  /\ UNCHANGED <<display, copy, synced, shown, opens>>

EditorCloses ==
  /\ display # Closed
  /\ display' = Closed
  /\ Send([kind |-> "didClose"])
  /\ UNCHANGED <<disk, copy, synced, shown, opens, saves>>

Editor == EditorOpens \/ EditorEdits \/ EditorSaves \/ EditorCloses

-----------------------------------------------------------------------------
(* The bridge handles the oldest notification. *)

Receive(kind) ==
  /\ inbox # << >> /\ Head(inbox).kind = kind
  /\ inbox' = Tail(inbox)
  /\ UNCHANGED <<display, disk, shown, opens, saves>>

\* open_from_lsp, upsert_open_document
HandleOpen ==
  /\ Receive("didOpen")
  /\ copy' = [version |-> Head(inbox).version, lines |-> SplitLines[Head(inbox).text],
              open |-> Head(inbox).open]
  /\ synced' = FALSE

\* Mutant of HandleChange: the changes are applied last to first.
HandleChangeReversed ==
  /\ Receive("didChange")
  /\ copy' = IF copy = Closed THEN copy
             ELSE ApplyChanges(copy, Head(inbox).version, Reverse(Head(inbox).changes))
  /\ UNCHANGED synced

\* apply_lsp_changes
HandleChange ==
  /\ Receive("didChange")
  /\ copy' = IF copy = Closed THEN copy
             ELSE ApplyChanges(copy, Head(inbox).version, Head(inbox).changes)
  /\ UNCHANGED synced

\* update_saved_document_text takes the text of the notification,
\* update_saved_document_from_disk what the file holds now; neither does
\* anything within a minute of the last time.
HandleSave ==
  /\ Receive("didSave")
  /\ LET text == IF Head(inbox).text = NoText THEN disk ELSE Head(inbox).text
     IN  IF copy = Closed \/ synced THEN UNCHANGED <<copy, synced>>
         ELSE copy' = [copy EXCEPT !.lines = SplitLines[text]] /\ synced' = TRUE

\* update_saved_document_from_disk when the file cannot be loaded
HandleSaveUnreadable ==
  /\ Receive("didSave")
  /\ Head(inbox).text = NoText
  /\ UNCHANGED <<copy, synced>>

\* close_document
HandleClose ==
  /\ Receive("didClose")
  /\ copy' = Closed
  /\ synced' = FALSE

HandleNotification ==
  HandleOpen \/ HandleChange \/ HandleSave \/ HandleSaveUnreadable \/ HandleClose

\* saved_document_sync_debounce_window passes.
WindowPasses == synced /\ synced' = FALSE /\ UNCHANGED <<display, disk, inbox, copy, shown, opens, saves>>

Next == Editor \/ HandleNotification \/ WindowPasses

Spec == Init /\ [][Next]_vars

\* After a save this editor does nothing until the bridge has handled it.
Patient == \A i \in DOMAIN inbox : inbox[i].kind # "didSave"
PatientNext == (Patient /\ Editor) \/ HandleNotification \/ WindowPasses

PatientSpec == Init /\ [][PatientNext]_vars

-----------------------------------------------------------------------------
(* Properties. *)

TypeOK ==
  /\ display = Closed \/ display \in [version : 1 .. MaxVersion, text : Text]
  /\ disk \in Text
  /\ copy = Closed \/ copy \in [version : 1 .. MaxVersion, lines : Seq(Text), open : 1 .. MaxOpens]
  /\ synced \in BOOLEAN
  /\ opens \in 0 .. MaxOpens /\ saves \in 0 .. MaxSaves

\* Whatever is still queued, the copy is a text the editor did show, under the
\* version it showed it: an edit is never applied to another text than the one
\* it was made to.  The index compares documents by version alone.
VersionNamesShownText ==
  TypeOK /\
  (copy # Closed =>
    [open |-> copy.open, version |-> copy.version, text |-> Content[copy.lines]] \in shown)

\* Whenever nothing is queued, the copy is the text the editor shows.
InStepWhenIdle ==
  inbox = << >> =>
    IF display = Closed THEN copy = Closed
    ELSE /\ copy # Closed
         /\ copy.version = display.version
         /\ Content[copy.lines] = display.text
=============================================================================
