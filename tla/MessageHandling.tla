-------------------------- MODULE MessageHandling --------------------------
(***************************************************************************)
(* What handle_local_session makes of one message: it validates it, finds  *)
(* the handler of its method, reads the parameters, changes the session's  *)
(* state, schedules work on the index and answers.  A message is a JSON    *)
(* value of any shape: members may be missing or of the wrong type, and    *)
(* reading one of those as if it were right throws.  How messages queue,   *)
(* and writes that fail, are in BridgeSession; what the scheduled work     *)
(* does, in CrossrefService; the texts of documents, in TextDocument.      *)
(***************************************************************************)
EXTENDS Naturals, Sequences

CONSTANTS
  Uris, Texts, Folders,
  Configs,     \* parserRegex objects
  AwaitedIds,  \* ids of the bridge's own requests that wait for their response
  Messages,    \* the messages that the client may send
  Missing,     \* a member that is not there; also no document and no parser
  Wrong,       \* a member of a type the handler has no use for
  Null         \* parserRegex: null

VARIABLES
  openDocuments,  \* open_documents_: per URI version and text, or Missing
  folders,        \* workspace_folders_
  sessionParser,  \* global_text_parser()
  indexParser,    \* the parser_state_ of the cross-reference service
  ended,          \* the session was closed by exit
  message,        \* the message handled last
  answers,        \* what was written to answer it
  handed          \* what it gave to others: tasks scheduled, responses stored

stateVars == <<openDocuments, folders, sessionParser, indexParser>>
handlingVars == <<stateVars, ended, message, answers, handed>>

\* params, with no members; and params that are not an object.
NoParams ==
  [object |-> TRUE, uri |-> Missing, text |-> Missing,
   textDocument |-> Missing, docUri |-> Missing, docText |-> Missing, version |-> Missing,
   contentChanges |-> << >>, parserRegex |-> Missing, number |-> Missing,
   rootFolders |-> {}, added |-> {}, removed |-> {}]
NotAnObject == [NoParams EXCEPT !.object = FALSE]

Document == [version : Nat, text : Texts]

\* parser_config_from_json and make_text_parser make a parser of it: the members
\* that are there are strings, those the type needs are there, and the regular
\* expressions compile.
Usable(config) ==
  /\ config.strings /\ config.compile
  /\ \/ config.parserType \in {Missing, "standard"} /\ config.prefixes
     \/ config.parserType = "text-block" /\ config.pattern

Parsers == {config \in Configs : Usable(config)}

\* What the client sends has this shape, right or wrong.
ParamsOK(p) ==
  /\ p.docText \in Texts \cup {Missing, Wrong} /\ p.text \in Texts \cup {Missing, Wrong}
  /\ p.version \in Nat \cup {Missing, Wrong}
  /\ p.contentChanges \in Seq([range : {"whole", "fits", "outside"}, text : Texts \cup {Missing, Wrong}])
  /\ p.rootFolders \subseteq Folders /\ p.added \subseteq Folders

ASSUME MessagesAssumption ==
  /\ Missing \notin Document
  /\ \A m \in Messages : ParamsOK(m.params)

HandlingTypeOK ==
  /\ openDocuments \in [Uris -> Document \cup {Missing}]
  /\ folders \subseteq Folders
  /\ sessionParser \in Parsers \cup {Missing} /\ indexParser \in Parsers \cup {Missing}
  /\ ended \in BOOLEAN

HandlingStarts ==
  /\ openDocuments = [u \in Uris |-> Missing] /\ folders = {}
  /\ sessionParser = Missing /\ indexParser = Missing
  /\ message = [jsonrpc |-> FALSE, id |-> Missing, method |-> Missing, body |-> "none",
                params |-> NoParams]
  /\ answers = << >> /\ handed = << >>

HandlingInit == HandlingStarts /\ ended = FALSE

-----------------------------------------------------------------------------
(* Answers. *)

\* create_response, create_error: only a message with an id has an answer.
Answer(m, what) ==
  answers' = IF m.id = Missing THEN << >> ELSE <<[id |-> m.id, what |-> what]>>

ErrorCodes == {"Invalid Request", "Invalid params", "Internal error", "not recognized"}

\* What leaves everything as it was: a message answered at once, with a result
\* or an error, one that gets no answer.  What a handler throws is answered as
\* an internal error.
Reply(m, what) == Answer(m, what) /\ handed' = << >> /\ UNCHANGED <<stateVars, ended>>
NoReply == answers' = << >> /\ handed' = << >> /\ UNCHANGED <<stateVars, ended>>

-----------------------------------------------------------------------------
(* Validation. *)

\* Has a result or an error, and an id.
LooksLikeResponse(m) == m.jsonrpc /\ m.id # Missing /\ m.body # "none"

\* request_id_from_json and store_response: null, and what is neither a string
\* nor a number of 64 bits, is no id of a request.
IsAwaited(id) == id \in AwaitedIds

\* is_valid_jsonrpc_response
IsAwaitedResponse(m) ==
  /\ LooksLikeResponse(m)
  /\ m.method = Missing /\ m.body \in {"result", "error"}
  /\ IsAwaited(m.id)

\* try_store_jsonrpc_response, or the message is dropped.
TakeResponse(m) ==
  /\ LooksLikeResponse(m)
  /\ handed' = IF IsAwaitedResponse(m) THEN <<[op |-> "response", id |-> m.id]>> ELSE << >>
  /\ answers' = << >> /\ UNCHANGED <<stateVars, ended>>

\* A message that does not parse is one without members.
RejectRequest(m) ==
  /\ ~LooksLikeResponse(m)
  /\ \/ (~m.jsonrpc \/ m.method = Missing) /\ Reply(m, "Invalid Request")
     \/ m.jsonrpc /\ m.method = Wrong /\ Reply(m, "Internal error")

Calls(m, method) == m.jsonrpc /\ ~LooksLikeResponse(m) /\ m.method = method

-----------------------------------------------------------------------------
(* Parameters. *)

IsString(value) == value \notin {Missing, Wrong}

\* params.value(member, default) throws; so does value() of the textDocument.
Unreadable(p, value) == ~p.object \/ value = Wrong

\* text_document_uri_from_params: of the textDocument, else of params itself.
TextDocumentUri(p) ==
  IF IsString(p.docUri) THEN p.docUri ELSE IF IsString(p.uri) THEN p.uri ELSE Missing

Version(p) == IF p.version = Missing THEN 0 ELSE p.version

\* text_changes_from_json leaves out the changes whose text is no string; to
\* range_from_json a range that is missing and one that makes no sense are the
\* same: the whole document is replaced.  apply_lsp_changes stops at the first
\* change that is outside the document.  These are the changes made; the text of
\* a change with a range is the one that it leaves.
ChangesMade(changes) ==
  {k \in DOMAIN changes :
     /\ IsString(changes[k].text)
     /\ \A j \in 1 .. k : IsString(changes[j].text) => changes[j].range # "outside"}

DocumentAt(uri) == IF uri \in Uris THEN openDocuments[uri] ELSE Missing

-----------------------------------------------------------------------------
(* Document messages: no answer, with or without an id, unless a member    *)
(* cannot be read.                                                         *)

SetDocument(uri, document) ==
  openDocuments' = IF uri \in Uris THEN [openDocuments EXCEPT ![uri] = document] ELSE openDocuments

\* schedule_open_document_update with the snapshot, if there is one
ScheduleUpdate(uri) ==
  handed' = IF uri \in Uris /\ openDocuments'[uri] # Missing
            THEN <<[op |-> "update", uri |-> uri, document |-> openDocuments'[uri]]>> ELSE << >>

DocumentHandled == answers' = << >> /\ UNCHANGED <<folders, sessionParser, indexParser, ended>>

\* textDocument/didOpen: the log reads the uri before the handler does.
DidOpen(m) ==
  /\ Calls(m, "textDocument/didOpen")
  /\ LET p == m.params
         opens == IsString(p.docUri) /\ IsString(p.docText)
         throws == \/ Unreadable(p, p.textDocument) \/ p.docUri = Wrong
                   \/ opens /\ p.version = Wrong
     IN  \/ throws /\ Reply(m, "Internal error")
         \/ /\ ~throws
            /\ IF opens THEN SetDocument(p.docUri, [version |-> Version(p), text |-> p.docText])
               ELSE UNCHANGED openDocuments
            /\ ScheduleUpdate(TextDocumentUri(p)) /\ DocumentHandled

\* textDocument/didChange: the document has the version of the message once a
\* change is made.
DidChange(m) ==
  /\ Calls(m, "textDocument/didChange")
  /\ LET p == m.params
         uri == TextDocumentUri(p)
         throws == Unreadable(p, p.textDocument) \/ p.version = Wrong
         made == ChangesMade(p.contentChanges)
     IN  \/ throws /\ Reply(m, "Internal error")
         \/ /\ ~throws
            /\ \/ (DocumentAt(uri) = Missing \/ made = {}) /\ UNCHANGED openDocuments
               \/ /\ DocumentAt(uri) # Missing
                  /\ \E last \in made :
                       /\ \A k \in made : k <= last
                       /\ SetDocument(uri, [version |-> Version(p),
                                           text |-> p.contentChanges[last].text])
            /\ ScheduleUpdate(uri) /\ DocumentHandled

\* textDocument/didSave: the text of the message, or else of the file, which
\* may be anything; nothing if the last was less than a minute ago or the file
\* cannot be read.
DidSave(m) ==
  /\ Calls(m, "textDocument/didSave")
  /\ LET uri == TextDocumentUri(m.params)
     IN  /\ \/ UNCHANGED openDocuments
            \/ /\ DocumentAt(uri) # Missing
               /\ \E text \in IF IsString(m.params.text) THEN {m.params.text} ELSE Texts :
                    SetDocument(uri, [openDocuments[uri] EXCEPT !.text = text])
         /\ ScheduleUpdate(uri) /\ DocumentHandled

\* textDocument/didClose: a refresh is scheduled for any URI.
DidClose(m) ==
  /\ Calls(m, "textDocument/didClose")
  /\ LET uri == TextDocumentUri(m.params)
     IN  /\ SetDocument(uri, Missing)
         /\ handed' = <<[op |-> "refresh", uri |-> uri]>>
  /\ DocumentHandled

-----------------------------------------------------------------------------
(* Workspace messages. *)

\* initialize sets the folders, to none if it names none.
Initialize(m) ==
  /\ Calls(m, "initialize")
  /\ \/ m.id = Missing /\ NoReply
     \/ /\ m.id # Missing
        /\ folders' = m.params.rootFolders
        /\ Answer(m, "result") /\ handed' = << >>
        /\ UNCHANGED <<openDocuments, sessionParser, indexParser, ended>>

\* workspace/didChangeWorkspaceFolders
DidChangeWorkspaceFolders(m) ==
  /\ Calls(m, "workspace/didChangeWorkspaceFolders")
  /\ folders' = (folders \cup m.params.added) \ m.params.removed
  /\ answers' = << >> /\ handed' = << >>
  /\ UNCHANGED <<openDocuments, sessionParser, indexParser, ended>>

\* Mutant of SetParserRegex: the session takes the parser before it is known
\* to be one.
SetParserRegexEarly(m) ==
  /\ Calls(m, "dltxt/set_parser_regex")
  /\ LET given == m.params.parserRegex
     IN  \/ given \in {Missing, Wrong} /\ Reply(m, "Invalid params")
         \/ given = Null /\ Reply(m, "result")
         \/ /\ given \in Configs \ Parsers /\ Answer(m, "Internal error") /\ handed' = << >>
            /\ sessionParser' = Missing
            /\ UNCHANGED <<openDocuments, folders, indexParser, ended>>
         \/ /\ given \in Parsers
            /\ sessionParser' = given /\ indexParser' = given
            /\ handed' = << >> /\ Answer(m, "result")
            /\ UNCHANGED <<openDocuments, folders, ended>>

\* dltxt/set_parser_regex: null changes nothing.  The service refuses the
\* configuration it has; otherwise it schedules a rebuild.
SetParserRegex(m) ==
  /\ Calls(m, "dltxt/set_parser_regex")
  /\ LET given == m.params.parserRegex
     IN  \/ given \in {Missing, Wrong} /\ Reply(m, "Invalid params")
         \/ given = Null /\ Reply(m, "result")
         \/ given \in Configs \ Parsers /\ Reply(m, "Internal error")
         \/ /\ given \in Parsers
            /\ sessionParser' = given /\ indexParser' = given
            /\ handed' = IF indexParser = given THEN << >>
                         ELSE <<[op |-> "rebuild", parser |-> given, folders |-> folders,
                                 documents |-> openDocuments]>>
            /\ Answer(m, "result")
            /\ UNCHANGED <<openDocuments, folders, ended>>

-----------------------------------------------------------------------------
(* Requests that only read. *)

\* Mutant of GetSimilarText: it goes on after the error.
GetSimilarTextTwice(m) ==
  /\ Calls(m, "dltxt/get_similar_text")
  /\ \/ m.id = Missing /\ NoReply
     \/ /\ m.id # Missing /\ ~IsString(m.params.uri)
        /\ answers' = <<[id |-> m.id, what |-> "Invalid params"],
                        [id |-> m.id, what |-> "Internal error"]>>
        /\ handed' = << >> /\ UNCHANGED <<stateVars, ended>>
     \/ m.id # Missing /\ IsString(m.params.uri) /\ Reply(m, "result")

\* dltxt/get_similar_text: of the open document or of the file, without
\* matches if that cannot be read; the search itself may throw.
GetSimilarText(m) ==
  /\ Calls(m, "dltxt/get_similar_text")
  /\ \/ m.id = Missing /\ NoReply
     \/ m.id # Missing /\ ~IsString(m.params.uri) /\ Reply(m, "Invalid params")
     \/ /\ m.id # Missing /\ IsString(m.params.uri)
        /\ \/ m.params.number # Wrong /\ Reply(m, "result")
           \/ Reply(m, "Internal error")

\* dltxt/get_document_content, dltxt/get_parsed_document: of open documents, the
\* second with the session's parser.  Half a surrogate pair, left by an edit,
\* cannot be converted; parsing may throw.
GetDocument(m) ==
  /\ \/ Calls(m, "dltxt/get_document_content") \/ Calls(m, "dltxt/get_parsed_document")
  /\ \/ m.id = Missing /\ NoReply
     \/ m.id # Missing /\ DocumentAt(m.params.uri) = Missing /\ Reply(m, "Invalid params")
     \/ /\ m.id # Missing /\ DocumentAt(m.params.uri) # Missing
        /\ \/ /\ m.method = "dltxt/get_parsed_document" => sessionParser # Missing
              /\ Reply(m, "result")
           \/ Reply(m, "Internal error")

\* dltxt/echo, dltxt/version and shutdown
AnswerAtOnce(m) ==
  /\ \E method \in {"dltxt/echo", "dltxt/version", "shutdown"} : Calls(m, method)
  /\ \/ m.id = Missing /\ NoReply
     \/ /\ m.id # Missing
        /\ Reply(m, IF m.method = "dltxt/echo" /\ Unreadable(m.params, m.params.text)
                    THEN "Internal error" ELSE "result")

\* initialized, $/setTrace
Acknowledge(m) == (Calls(m, "initialized") \/ Calls(m, "$/setTrace")) /\ NoReply

Exit(m) ==
  /\ Calls(m, "exit")
  /\ ended' = TRUE /\ answers' = << >> /\ handed' = << >> /\ UNCHANGED stateVars

\* Any other method; without an id it is ignored.
RefuseUnknown(m) == Calls(m, "unknown") /\ Reply(m, "not recognized")

-----------------------------------------------------------------------------

Handle(m) ==
  /\ ~ended /\ message' = m
  /\ \/ TakeResponse(m) \/ RejectRequest(m)
     \/ DidOpen(m) \/ DidChange(m) \/ DidSave(m) \/ DidClose(m)
     \/ Initialize(m) \/ DidChangeWorkspaceFolders(m) \/ SetParserRegex(m)
     \/ GetSimilarText(m) \/ GetDocument(m) \/ AnswerAtOnce(m)
     \/ Acknowledge(m) \/ Exit(m) \/ RefuseUnknown(m)

HandlingNext == \E m \in Messages : Handle(m)

HandlingSpec == HandlingInit /\ [][HandlingNext]_handlingVars

-----------------------------------------------------------------------------
(* Properties. *)

Requests ==
  {"initialize", "shutdown", "unknown", "dltxt/set_parser_regex", "dltxt/get_similar_text",
   "dltxt/get_document_content", "dltxt/get_parsed_document", "dltxt/echo", "dltxt/version"}

\* No message is answered twice, under another id, or without having one; a
\* response is not answered at all; and every request is answered, whatever is
\* missing from it and wherever its handling fails.
AnsweredOnce ==
  /\ HandlingTypeOK
  /\ Len(answers) <= 1
  /\ \A i \in DOMAIN answers : answers[i].id = message.id /\ message.id # Missing
  /\ message.jsonrpc /\ message.body # "none" => answers = << >>
  /\ message.jsonrpc /\ message.id # Missing /\ message.body = "none"
       /\ message.method \in Requests => Len(answers) = 1

DocumentTask(uri, document) ==
  IF document = Missing THEN [op |-> "refresh", uri |-> uri]
  ELSE [op |-> "update", uri |-> uri, document |-> document]

\* A step changes all it should or nothing: a message answered by an error left
\* no trace in documents, folders, parsers or the queue of the pool; a parser is
\* replaced for the session and for the index together; and a document that
\* changed was given to the index as it is now, under its own URI.
StepIsWhole ==
  /\ (\E i \in DOMAIN answers' : answers'[i].what \in ErrorCodes) =>
       UNCHANGED stateVars /\ handed' = << >>
  /\ UNCHANGED sessionParser \/ indexParser' = sessionParser'
  /\ \A u \in Uris : openDocuments'[u] # openDocuments[u] =>
       handed' = <<DocumentTask(u, openDocuments'[u])>>

NothingHalfDone == [][StepIsWhole]_handlingVars
=============================================================================
