------------------------------ MODULE MCInputs ------------------------------
(***************************************************************************)
(* What the bridge reads, on small inputs, one of four at a time: frames   *)
(* from its client, the messages in them, a folder with its ignore files,  *)
(* and a text.                                                             *)
(***************************************************************************)
EXTENDS Framing, MessageHandling, TextParser, IgnoreRules

mcVars == <<frameVars, handlingVars, parserVars, scanVars, sent>>

-----------------------------------------------------------------------------
(* Streams: up to two messages, one of which looks like a header; before   *)
(* each nothing, a blank block, or another header line; then nothing, the  *)
(* beginning of a message, or a header without a good length.              *)

MCLengthOf == [line \in {"length 0", "length 1", "length 5"} |->
  CASE line = "length 0" -> 0 [] line = "length 1" -> 1 [] OTHER -> 5]

MCPayloads == {<< >>, <<"other">>, <<"length 1">> \o Delimiter}
MCLeads == {<< >>, <<"blank">> \o Delimiter, <<"other", "CR", "LF">>, <<"CR", "LF">>}
MCTails ==
  {SubSeq(FrameMessage(<<"length 1">> \o Delimiter), 1, k) : k \in {0, 3, 5, 9}} \cup
  {<<"badLength">> \o Delimiter \o <<"other">>, <<"other">> \o Delimiter}

MCFraming ==
  \E messages \in UNION {[1 .. n -> MCPayloads] : n \in 0 .. 2}, lead \in MCLeads,
     tail \in MCTails :
    LET blank == lead # << >> /\ IsHeader(lead)
        n == IF blank THEN 2 * Len(messages) ELSE Len(messages)
        After(m) ==
          FlattenSeq([k \in 1 .. Len(messages) - m |-> lead \o FrameMessage(messages[m + k])]) \o tail
        count == [k \in 0 .. n |-> IF blank THEN k \div 2 ELSE k]
        left == [k \in 0 .. n |->
                   IF blank /\ k % 2 = 1
                   THEN FrameMessage(messages[count[k] + 1]) \o After(count[k] + 1)
                   ELSE After(count[k])]
    IN  /\ sent = messages
        /\ StreamOf(messages, n, left, count) /\ FramingInit(left[0])

-----------------------------------------------------------------------------
(* Messages: every method with and without an id and with parameters that   *)
(* are right, missing, of the wrong type or not an object; requests that    *)
(* are not JSON-RPC or have no method; and responses of every kind.         *)

MCUris == {"u", "v"}
MCTexts == {"s", "t"}

Config(type) ==
  [parserType |-> type, strings |-> TRUE, compile |-> TRUE, prefixes |-> TRUE, pattern |-> TRUE]
MCConfigs ==
  {Config("standard"), [Config("text-block") EXCEPT !.prefixes = FALSE],
   [Config("standard") EXCEPT !.compile = FALSE], [Config("standard") EXCEPT !.strings = FALSE],
   [Config(Missing) EXCEPT !.prefixes = FALSE], [Config("text-block") EXCEPT !.pattern = FALSE],
   Config(Wrong)}

MCFolders == {"f"}

Named(uri) == [NoParams EXCEPT !.textDocument = "object", !.docUri = uri]
Opens(uri, text, version) == [Named(uri) EXCEPT !.docText = text, !.version = version]
Edits(uri, version, changes) == [Named(uri) EXCEPT !.version = version, !.contentChanges = changes]
Change(range, text) == [range |-> range, text |-> text]
NoDocument == [NoParams EXCEPT !.textDocument = Wrong, !.uri = "u"]

MCParams(method) ==
  {NoParams, NotAnObject} \cup
  CASE method = "textDocument/didOpen" ->
         {Opens("u", "s", 1), Opens("u", "t", Missing), Opens("v", "s", 1), Opens(Wrong, "s", 1),
          Opens("u", Wrong, 1), Opens("v", "s", Wrong), NoDocument}
    [] method = "textDocument/didChange" ->
         {Edits("u", 1, <<Change("fits", "t"), Change("outside", "s")>>),
          Edits("u", 0, <<Change("whole", Wrong), Change("whole", "s")>>),
          Edits("u", 0, <<Change("outside", "s")>>), Edits("v", Wrong, <<Change("whole", "t")>>),
          [NoParams EXCEPT !.uri = "u", !.contentChanges = <<Change("whole", "t")>>], NoDocument}
    [] method = "textDocument/didSave" ->
         {Named("u"), [Named("v") EXCEPT !.text = "t"], NoDocument}
    [] method = "textDocument/didClose" -> {Named("u"), Named(Wrong), NoDocument}
    [] method = "initialize" -> {[NoParams EXCEPT !.rootFolders = MCFolders]}
    [] method = "workspace/didChangeWorkspaceFolders" ->
         {[NoParams EXCEPT !.added = MCFolders], [NoParams EXCEPT !.removed = MCFolders]}
    [] method = "dltxt/set_parser_regex" ->
         {[NoParams EXCEPT !.parserRegex = given] : given \in MCConfigs \cup {Wrong, Null}}
    [] method = "dltxt/get_similar_text" ->
         {[NoParams EXCEPT !.uri = uri, !.number = n] : uri \in {"u", Wrong}, n \in {Missing, Wrong}}
    [] method \in {"dltxt/get_document_content", "dltxt/get_parsed_document"} ->
         {[NoParams EXCEPT !.uri = uri] : uri \in {"u", "elsewhere", Wrong}}
    [] method = "dltxt/echo" -> {[NoParams EXCEPT !.text = Wrong]}
    [] OTHER -> {}

MCMethods ==
  {"textDocument/didOpen", "textDocument/didChange", "textDocument/didSave",
   "textDocument/didClose", "initialize", "initialized", "$/setTrace", "shutdown", "exit",
   "workspace/didChangeWorkspaceFolders", "dltxt/set_parser_regex", "dltxt/get_similar_text",
   "dltxt/get_document_content", "dltxt/get_parsed_document", "dltxt/echo", "dltxt/version",
   "unknown"}

MCMessages ==
  UNION {{[jsonrpc |-> TRUE, id |-> id, method |-> method, body |-> "none", params |-> p] :
            id \in {Missing, "i"}, p \in MCParams(method)} : method \in MCMethods} \cup
  {[jsonrpc |-> v, id |-> id, method |-> method, body |-> body, params |-> NoParams] :
     v \in BOOLEAN, id \in {Missing, "i", "b"}, method \in {Missing, Wrong, "shutdown"},
     body \in {"none", "result", "both"}}

-----------------------------------------------------------------------------
(* Texts: any four lines that match one expression, both or none; two      *)
(* lines with any quotes; a text of four characters and up to two matches, *)
(* the second at its end.                                                  *)

MCGroups(text) == [white |-> << >>, text |-> text, suffix |-> << >>]
MCLine(o, t) == [original |-> IF o THEN MCGroups(<<"x">>) ELSE NoMatch,
                 translated |-> IF t THEN MCGroups(<<"x">>) ELSE NoMatch]

MCLines == UNION {[1 .. n -> {MCLine(o, t) : o, t \in BOOLEAN}] : n \in 0 .. 4}

MCOriginals ==
  {[white |-> w, text |-> t, suffix |-> s] :
     w \in {<< >>, <<"kagi open">>}, s \in {<< >>, <<"kagi close">>},
     t \in UNION {[1 .. n -> {"corner open", "corner close", "x"}] : n \in 0 .. 4}}
MCTranslations ==
  {MCGroups(t) : t \in {<< >>, <<"x">>, <<"corner open">>, <<"chinese open", "x", "chinese close">>,
                        <<"corner open", "corner close">>}}

MCBlocks(n) ==
  {b \in [at : 0 .. n - 1, jp : 0 .. n, cn : 0 .. n, line : {MCLine(TRUE, TRUE), MCLine(TRUE, FALSE)}] :
     b.at <= b.jp /\ b.at <= b.cn}

ParserRests ==
  /\ isBreak = << >> /\ blocks = << >> /\ next = 0 /\ pending = << >> /\ parsed = << >>

MCParsing ==
  /\ next = 0 /\ pending = << >> /\ parsed = << >>
  /\ \/ /\ parser = "standard" /\ isBreak = << >> /\ blocks = << >>
        /\ \/ lines \in MCLines
           \/ \E o \in MCOriginals, t \in MCTranslations :
                lines = <<[original |-> o, translated |-> NoMatch],
                          [original |-> NoMatch, translated |-> t]>>
     \/ /\ parser = "text-block" /\ lines = << >>
        /\ isBreak \in UNION {[1 .. n -> BOOLEAN] : n \in 1 .. 4}
        /\ \E b, last \in MCBlocks(Len(isBreak)) :
             /\ last.at = Len(isBreak) - 1
             /\ blocks \in {<<b>>, <<b, last>>}
  /\ ParserInit

-----------------------------------------------------------------------------
(* Folders: w holds a directory a with a text b and a directory ab with a  *)
(* text b, a hidden directory h with a text b, and a text b; w and, in     *)
(* spite of its name, w/h are workspace folders.                           *)

MCCharacters == {"a", "b", "w", "h", "*", "?", ".", "!", "#", "/", "\\", "CR"}
A == <<"a">>
B == <<"b">>
AB == <<"a", "b">>
H == <<".", "h">>
W == <<"w">>

MCEntries == {<<W, A>>, <<W, A, B>>, <<W, A, AB>>, <<W, A, AB, B>>, <<W, H>>, <<W, H, B>>, <<W, B>>}
MCKindOf == [e \in MCEntries |->
  CASE e = <<W, H>> -> "skipped" [] e \in {<<W, A>>, <<W, A, AB>>} -> "directory" [] OTHER -> "text"]
MCRoots == {<<W>>, <<W, H>>}

Lines == {<<"a">>, <<"*", "b">>, <<"a", "/", "b">>, <<"*", "*", "/", "b">>, <<"a", "/", "CR">>,
          <<"?", "b", "/">>, <<"/", "a">>, <<"#", "a">>, <<"\\", "#", "a">>}
Negations == {<<"!", "b">>, <<"!", "a", "b">>, <<"\\", "!", "b">>}
OneLine(set) == {<< >>} \cup {<<l>> : l \in set}

MCScanning ==
  \E top \in OneLine(Lines) \cup {<<l, n>> : l \in Lines, n \in Negations},
     below \in OneLine({<<"b">>, <<"*">>, <<"?">>, <<".", "*">>, <<"!", "b">>}),
     own \in OneLine({<<"!", "a">>, <<"b">>}) :
    /\ ignoreFiles = [d \in {<<W>>, <<W, A>>, <<W, A, AB>>, <<W, H>>} |->
         CASE d = <<W>> -> top [] d = <<W, A>> -> below [] OTHER -> << >>]
    /\ dltxtIgnore = [r \in Roots |-> IF r = <<W>> THEN own ELSE << >>]
    /\ ScanInit

-----------------------------------------------------------------------------

FramingRests == coming = << >> /\ broken = FALSE /\ buffer = << >> /\ need = "none"
                  /\ received = << >> /\ outcome = "end" /\ sent = << >>
ParsingRests == parser = "standard" /\ lines = << >> /\ ParserRests
ScanRests == /\ ignoreFiles = << >> /\ dltxtIgnore = << >> /\ rules = [r \in Roots |-> << >>]
             /\ todo = {} /\ collected = {} /\ stopped = TRUE

HandlingRests == HandlingStarts /\ ended = TRUE

MCInit ==
  \/ MCFraming /\ HandlingRests /\ ParsingRests /\ ScanRests
  \/ HandlingInit /\ FramingRests /\ ParsingRests /\ ScanRests
  \/ MCParsing /\ FramingRests /\ HandlingRests /\ ScanRests
  \/ MCScanning /\ FramingRests /\ HandlingRests /\ ParsingRests

MCNext ==
  \/ FramingNext /\ UNCHANGED <<handlingVars, parserVars, scanVars, sent>>
  \/ HandlingNext /\ UNCHANGED <<frameVars, parserVars, scanVars, sent>>
  \/ ParserNext /\ UNCHANGED <<frameVars, handlingVars, scanVars, sent>>
  \/ ScanNext /\ UNCHANGED <<frameVars, handlingVars, parserVars, sent>>

MCSpec == MCInit /\ [][MCNext]_mcVars
=============================================================================
