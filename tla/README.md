# Formal models of dltxt-bridge

dltxt-bridge is a language server for translators.  An editor talks to it over
stdin and stdout; it keeps a copy of every open document, indexes the Japanese
lines of all text files of the workspace, and answers, for the lines of a
document, which lines of the project are similar.  These TLA+ modules model the
program's state and control, TLC checks them on small instances, and TLAPS
proves the results listed under *What is proved* for every instance.

File names below are relative to `src/`; `crossref` is `bridge_crossref.hpp`,
`documents` `bridge_documents.hpp`, `protocol` `bridge_protocol.hpp`,
`similarity` `bridge_similarity_index.hpp`.

## The system

| Part | State it keeps | Operations | Runs on |
|---|---|---|---|
| Framing (`protocol` 176-319) | read buffer | read_message_blocking, read_message, frame_message | reader thread; a socket's executor |
| Reader thread (`main.cpp` 189) | none | reads a frame, posts it to the executor | its own thread |
| `LocalInputQueue` (`main.cpp` 116) | messages, closed, error, a signal | push, close, fail, wait_and_pop | executor |
| Session handler (`main.cpp` 233) | position in the message loop | handles one message to its end, writes the response | executor |
| `LocalSession` (`local_session.hpp` 176) | write queue, client_initialized, pending index-ready | write_framed, request/mark handshake | executor, pool |
| Heartbeat (`main.cpp` 37) | timer | writes a notification every ten seconds | executor |
| `DocumentManager` (`documents` 672) | open documents with versions, last sync times, folders | open, change, save, close, folders | executor |
| `TextDocument` (`documents` 500) | lines, version | setContent, edit, getContent | executor; copies on the pool |
| `CrossrefService` (`crossref` 42) | line tables, parser, requested and applied generation, roots and ignore rules; all under `mutex_` | update/clear configuration, schedule update, schedule refresh, search; tasks: rebuild, update, refresh | executor posts, pool runs |
| `SimilarityIndex` (`similarity` 35) | lines, postings, frequencies, terms and files with reference counts | upsert, erase, search | under `mutex_`; scoring on a second pool |
| Shared pool (`bridge_thread_pool.hpp`) | task queue, at least two threads | post, join | - |
| `ResponseManager`, `LocalRequestDispatcher` (`protocol` 790, `bridge_local_requests.hpp`) | trackers by request id, timers | send_request, store, wait, time out, cancel_all | executor |
| Text parsers (`bridge_text_parser.hpp`) | compiled regular expressions | text to pairs of lines | pool |
| Ignore rules and the scan (`crossref` 100-626) | rules per folder | build, match, walk the folders | pool; live checks under `mutex_` |
| `LocalSessionManager`, idle monitor (`bridge_app.hpp` 88) | sessions, timer generation | register, unregister, broadcast, report idleness | executor; the monitor and broadcast in the tests only |

How they interact.  The session handler takes one message at a time.  A document
message changes the `DocumentManager`, then hands a snapshot of the document to
the service, which posts a task to the pool.  `dltxt/set_parser_regex` hands it
the folders and a snapshot of all open documents and posts a rebuild.  A task
works without the lock, then takes `mutex_` and commits if the configuration is
still the one it was posted under.  An applied rebuild calls back through the
session and becomes a notification to the client.  `dltxt/get_similar_text`
suspends the handler until a pool thread has run `search_json`, which may wait
for a rebuild, holds `mutex_` while a second pool scores candidates, and takes
it again to read the line infos.  Over a socket, several coroutines write to one
session: one of them writes, the others leave their frames in its queue and
return.

What is hard: tasks of one document commit in any order; snapshots grow old;
the text on disk changes while it is read; versions restart when a document is
reopened; the client, its saves and its closing race with the queue; a rebuild
may fail or be superseded; the search waits with a time limit and on a latch
while it holds a lock; callbacks cross from the pool to the executor; replies to
the bridge's own requests come late or twice, or race with the timer; reads end
anywhere in a frame; a broadcast is suspended while sessions come and go; rules
of several ignore files meet in one path.

What makes each part correct:

- service: consistent tables, whole documents, current parser, honest
  versions, only workspace files, the last configuration wins, and (the design
  document's demand) an index that follows the editor;
- documents: the copy is a text the editor showed, under the version it showed;
- search: answers from one configuration, every request answered, edits seen;
- similarity index: a look-up finds exactly the lines indexed, whatever was
  replaced before; candidates and ranges lose nothing they should keep;
- requests: the answer to one's own request, none lost, an end for each;
- session: answers in order, once, none forgotten; the end reached; index-ready
  neither too early nor forgotten;
- output: whole frames, in order, by one writer, none left behind;
- manager: idleness reported when, and only when, no session is left;
- inputs: the messages sent, the pairs of the text, the files the rules leave,
  exactly.

`PROJECT.json` lists every component, also those not modelled, and under
`hazards` each line where one of these can go wrong.

## Modules

| Module | Models | Extends |
|---|---|---|
| `LineTables` | the tables of the service and the operations on them (`crossref` 628-733) | |
| `CrossrefService` | configuration, generations, the two schedule_ operations and the pool's tasks, step by step | `LineTables` |
| `IndexedSession` | the document and workspace messages, composed with the service | `CrossrefService` |
| `CrossrefSearch` | get_similar_text and search_json, composed with all of the above | `IndexedSession` |
| `TextDocument` | split_lines, getContent, edit, apply_lsp_changes as operators on texts | |
| `DocumentSync` | an editor, the queue of its notifications, and the bridge's copy | `TextDocument` |
| `SimilarityIndex` | upsert and erase with postings, frequencies and reference counts | |
| `SimilaritySearch` | candidate selection and the ranges of the scoring tasks | `SimilarityIndex` |
| `RequestPromise` | abstract: what send_request promises its caller | |
| `RequestTracking` | ResponseManager and LocalRequestDispatcher; refines `RequestPromise` | |
| `BridgeSession` | reader thread, input queue, message loop, handshake, heartbeat | |
| `FrameChannel` | abstract: a queue of whole frames per session | |
| `SessionOutput` | write_framed, close and the loss of the connection; refines `FrameChannel` | |
| `SessionManager` | registration, broadcast and the idle monitor, composed with the output | `SessionOutput` |
| `Framing` | messages out of a byte stream read in chunks | |
| `MessageHandling` | validation, dispatch and every handler: what one message, of any shape, changes, hands on and answers | |
| `TextParser` | the pairing loops of both parsers, quotes and line numbers | |
| `IgnoreRules` | parsing, ordering and matching of ignore rules, and the scan | |
| `MC...` | instances for TLC: texts, bounds, what the editor sends | |
| `...Proofs` | theorems and lemmas | |

Correspondence with the code, where it is not one to one:

- A task of the pool is a record in `queue`, then in `job[w]`.  A step of a task
  is what it does between two points at which other threads can see or change
  something: reading the disk is one step, a critical section another.  A
  rebuild is `RebuildScan`, one `RebuildIngest` per file, `RebuildApply` or
  `RebuildFail`, `NotifyIndexReady`.
- A text is a model value; a parser maps it to a sequence of lines or fails
  (`Parse`).  `DocumentSync` has real characters, because there the property is
  about them.
- A path may have several URIs (`PathOf`), of which one is the URI that
  `file_uri_from_path` makes (`UriOf`).
- `submitted` (service), `shown` (documents and similarity index), `stored`
  (requests), `owed` (session) and `answer` (search) are history or observers:
  no action of the program reads them, but for `answer`, whose value `Pending`
  stands for the suspended handler.
- `mutex_` is a step where a critical section is a step.  Only a scoring search
  holds it longer; `MutexFree` guards the other critical sections then.
- `SessionOutput`: only the socket's async_write suspends a coroutine, so its code
  between two suspensions is one step.  `returned` and `threw` are history.  The
  step of a coroutine has six kinds (`SessionManagerProofs`), of which `Starts` and
  `LeavesFrame` are `Put` of `FrameChannel`, `GoesOn` and `Ends` are `GoesOut`,
  `GivesUp` is `Loses`.
- `OutputStep` is a step of any coroutine; when it ends broadcast's call, what
  broadcast does with the outcome is part of it.
- Three modules take messages at different depth: `Framing` cuts them out of the
  stream, `MessageHandling` decides what each is and what its handler does, and
  `BridgeSession` has their queue, their order and writes that fail, with messages
  by kind.  A step of `MessageHandling` is a pass through the loop of
  `handle_local_session`; the loop suspends only while a search runs or an answer
  is written, and nothing but this loop changes documents, folders and parsers.
  What a handler throws is the alternative `Reply(m, "Internal error")`.
- `Framing` has a stream of tokens: CR, LF, a blank, any other byte, and a whole
  Content-Length line.  What the client sent is the history variable `sent`; `StreamOf`
  says which streams carry it.  `TextParser` is given what the regular expressions make of
  a line.  `IgnoreRules` has characters, because patterns are about them.
- The similarity index numbers terms as the code does; its texts are given with
  their 2-grams (`Grams`).  `lsp设计.md:60` speaks of 2-grams and 3-grams; the code
  (`similarity` 63) uses 2-grams only.

## Runs

| Run | Instance | Shows |
|---|---|---|
| `crossref_tables` | an ordinary, a hidden and an ignored file, two parsers, two versions, two fair threads, three calls, timestamps, loads and rebuilds that fail | `TypeOK`, `TablesInv`, `WholeDocuments`, `OnlyCurrentParser`, `VersionsNameContent`, `IndexedWithinWorkspace`, `GenerationsApplyInOrder`, `RebuildEventuallyApplied` |
| `session_search` | every message, two files, a second URI, disk changes, failing rebuilds, two threads, scoring in place or in two tasks; five messages, searches and disk changes | `AnswersCurrentParser`, `EveryRequestAnswered` |
| `session_serial` | two threads that run one task at a time, a patient editor of one file of two, which opens, edits, saves, closes and reopens it, loads and rebuilds that fail; six messages | `IndexFollowsEdits`, `ClosedFilesShowDisk`, `AnswersSeeEdits` |
| `document_edits` | CR LF, texts of up to three characters, all edits and pairs of edits, two openings, two saves, an editor that waits for the bridge after a save | `VersionNamesShownText`, `InStepWhenIdle` |
| `similarity_history` | three lines, two files, four texts, entered, replaced and erased in any order; up to nine lines, budget 2, cutoff 8, up to three tasks | `IndexExact`, `CandidatesRight`, `ScoredOnce` |
| `request_replies` | two callers, two requests each, two replies to each, fair | `PendingExact`, `OwnAnswer`, `StoredReplyWins`, `KeepsPromise`, `EveryRequestEnds` |
| `session_messages` | two messages of every kind, two rebuilds, a heartbeat, every end of input, stdout that breaks | `AnswersInOrder`, `ReadyAfterInitialized`, `EveryRequestAnswered`, `SessionEnds`, `EveryRebuildAnnounced` |
| `session_manager` | two sessions, two writers to one of them, a broadcast to both, connections closed or broken at any moment, three changes of the number of sessions | `OneWriter`, `NothingLost`, `KeepsChannel`, `FiresOnlyWhenIdle`, `IdleIsReported`, `EverythingGoesOut` |
| `inputs` | streams of two messages in every cut; messages of every method in any order, with right, missing and wrong members; texts of four lines, originals of four characters, one or two text blocks; a folder with its ignore files | `FramesExact`, `AnsweredOnce`, `NothingHalfDone`, `PairsExact`, `ScanAgreesWithCheck`, `RulesExact` |

Types are checked in every run, in some as a part of a property about the state
(`VersionNamesShownText`, `IndexExact`, `AnswersInOrder`, `NothingLost`,
`FramesExact`, `AnsweredOnce`, `PairsExact`).  The two parts of `RulesExact`,
`WildcardsExact` and `DeepestDecides`, compare the program's matcher and its sorted
list of rules with definitions that do not follow the code: a pattern fits if the
text can be cut into one piece per character of the pattern, and the deepest
directory with a matching rule decides.  `PairsExact` compares the loop with the
set of pairs of lines of which one translates the other, and the quotes it moves
with the outermost ones of the text; of the text-block parser it asks one pair, with
the line numbers of the text, for each match whose two lines match.

Runs that must find a violation.  In each the code does something else than a
document or a test says (`findings` quotes it):

| Run | What happens |
|---|---|
| `edit_order` | two updates of a document commit in the wrong order |
| `document_save_race` | a text is applied twice, because a save reads a later text from disk |
| `similarity_exact` | a line equal to the query is cut with the candidate budget |

### When the index does not follow the editor

`lsp设计.md` wants the index to follow the edits.  `SerialSpec` in `CrossrefSearch`
states when it does, `session_serial` checks it, and `CrossrefSearchProofs` proves it
for any files, texts, threads and messages:

- the pool happens to run one task at a time.  The code has at least two threads and
  no other means of keeping tasks in their order, so this is a matter of the time
  the editor leaves it, not a promise of the program (`SerialStep`);
- the editor sends a message about documents or configuration only when the last
  rebuild has been applied, as dltxt/crossref_index_ready reports, and while no
  search is unanswered (`PatientMessage`);
- it opens a file that exists and that a scan finds, under the URI the bridge makes
  of its path, and opens one again only when the pool is at rest (`PatientOpen`);
- it is the only one to write a file it has open, with the text it shows, and sends
  didSave while that is what is on disk (`EditorWrites`, `PatientSave`).  Without that a
  save brings in a text whose version is known, which is not indexed (`crossref` 1003).

It may edit while its last edit is still queued, close a file whose update is
queued, and change folders and parser with documents open; loads and rebuilds may
fail.  Each premise is needed.  `edit_order` drops the first; the other violations
have no run of their own, they show when the conjunct named is taken out of
`CrossrefSearch` and `session_serial` run again:

| Without | Violated | What happens |
|---|---|---|
| one task at a time | all three | a refresh commits before the last update: unsaved text of a closed file stays in the index; a search overtakes the update of the edit before it |
| waiting for index-ready | all three | an edit made during the first rebuild is lost (`crossref` 998) |
| the bridge's URI (with `Uris = {u1, x1, u2}`) | `IndexFollowsEdits`, `AnswersSeeEdits` | a document under another spelling of its URI is indexed from disk (`crossref` 766) |
| saving only what is on disk | `IndexFollowsEdits`, `AnswersSeeEdits` | the text a save brings in is not indexed, its version being known (`crossref` 1003) |
| the editor alone writes the file | `ClosedFilesShowDisk` | the file changes after it was read, and nothing watches the disk |
| a file that exists, or that a scan finds | `IndexFollowsEdits` | a rebuild takes the open documents of the files it found, and only those |
| reopening at rest | `IndexFollowsEdits`, `AnswersSeeEdits` | version 1 of a reopened document is taken for version 1 of the closed one |

### Bounds

Bounds are constants: `MaxCalls`, `MaxVersion`, `MaxSaves`, `MaxOpens`,
`MaxLength`, `MaxAsked`, `MaxReplies`, `MaxMessages`, `MaxRebuilds`, `MaxBeats`,
`MaxUpdates`, `MaxChunk`, `Free`, `FreeRefs`, `MaxTermIds`, `MaxRefs`.  They bound what
the environment does, never the program, except for the last three, which bound a
leak (below).  They are enough for what can go wrong here: each violation above
needs at most six calls, a race needs two tasks, and two threads run them; a
stale task needs one reconfiguration, a third generation repeats it.  Three calls
let a configuration, an update or refresh and a second configuration overlap; five
messages of a session are initialize, a configuration, an opening, an edit and a
search.  For the similarity index three lines (`Free`) and texts with a shared, a
repeated and no term reach every case of the reference counts; the other lines
are entered in the order of their ids and only make postings longer than budget
and cutoff, which are scaled down with their ratios kept.  Two requests per caller
let a late reply meet a later request.  Texts of three characters contain a CR LF
pair and a character on either side, and replaced ranges over two lines.  Two
messages and two rebuilds let a request queue behind a pooled one and a rebuild
fall before, into and after the handshake.  Two writers of one session and a
broadcast give a writer, a frame left to it and a third caller; three changes
(`MaxUpdates`) register a session, let it go and bring one back while the first
timer's handler waits.  Reads of up to seven tokens cut a stream inside a
delimiter, a body and the next message, and take several messages at once.  Messages
have every method, with and without an id, and for each member a handler reads one
that is right, one that is missing and one of another type; two documents and
two parsers let a handler change the wrong one, and the run is not
bounded in the number of messages.  Four
lines hold two pairs, a dangling original and a translation of nothing; four
characters nest quotes and leave one open.  Of the ignore files, up to two rules
in a folder, one in a directory below it and one in `.dltxt/ignore` give rules of
one depth and of two, with and without negation, for a path under both.
Where a theorem covers the property, no bound
matters.

### Fairness

`crossref_tables`, `session_search`: weak fairness for the steps of each pool
thread, which Boost.Asio's threads and `mutex_` give; the time-limited wait of a
search may expire at any moment and does eventually.  No fairness for the editor
or the disk.  `request_replies`: the executor stores what arrived, resumes
coroutines and fires timers; no fairness for the client, which need not reply,
or for `CancelAll`.  `session_messages`: reader thread, executor, handler and
notifier run.  None for the client, and none for rebuilds.  `session_manager`: the executor
runs coroutines and handlers, a timer expires, and a peer that is connected takes
what is written to it (or the write fails); none for calls, closing and breaking.
Weak fairness is
enough everywhere: no step is disabled again and again by others, but for
scoring that holds the lock, which ends by itself.

## What is proved

`CrossrefServiceProofs`: for all sets of files, texts, parsers, folders, threads
and faults, and without bound on calls and tasks,

- `TypeCorrect` and `TablesAlwaysConsistent`, proved together, since an erasure
  keeps its tables well typed only because they are consistent.  The first lemmas
  say that each table operation preserves consistency;
- `DocumentsStayWhole`, `NoStaleParser`, `VersionsAreHonest`,
  `IndexStaysInWorkspace`, `RebuildsApplyInOrder`.  None of the first four is
  inductive: a task that is queued, or a rebuild half done, has to be known to
  be good before it commits.  `ContentInv` adds that every queued task carries
  documents that were handed in (`WellQueued`), that what a rebuild has built is
  whole, of its task's parser and of its folders (`BuiltWell`), and that a
  refresh holds what it read (`WellDone`).

They rest on the assumptions of `CrossrefService` and `LineTables`: paths have
URIs and folders trees, parsing yields sequences of lines or an error, the
markers are not texts.  `IndexedSession` adds that the documents are those of the
session and that versions are integers, which it compares.

`CrossrefSearchProofs`: `SearchesAreInvisible`, that the session with its searches
implements the service.  The mapping takes the search out of the queue, where it is
the last task, for the session handles one message at a time (`OneSearch`), and shows
a thread that searches as idle.  Everything proved of the service thereby holds
beside the session and searches (`SearchesReadCurrentLines`).  `AnswersOfCurrentParser`
also needs what a search under way holds: if it did not give up waiting, its lines are
those of the configuration it will answer under (`Current`), because the handler that
waits for it keeps any other configuration from being taken meanwhile.

`IndexFollowsPatientEditor`, `ClosedFilesFollowDisk` and `AnswersOfShownText`: the
three properties of `session_serial`, from `SerialSpec`.  None says anything while the
pool is at work, so the invariant, `SerialInv`, says where the right text of a file is
until then.  `Settled`: of the updates of a file that are posted, under way or done,
the last brings the text the editor shows, or what is on disk once the document is
closed (`Keeps`); and no version newer than the open document's is recorded or about
to be (`Fits`), for an update with a known version is skipped.  It holds while no
rebuild is due; `AllRebuilds` covers the rest: a rebuild is of the last
configuration with the documents as they are, nothing but a search is posted behind
it, and what it has built so far shows the right text of every file it is done with.
`AllSearches`: the text a request was made for is still that of its document, and what a
search holds of that file is of this text.  `AllNoted` says that tasks are of files that
have been open, so that the pool has nothing of a file opened for the first
time.  The proof takes one step per message and one per step of a task; what all
messages share, that tasks are only added to the end of the queue and that the
last one added decides, is proved once.

`BridgeSessionProofs`: `RequestsAnsweredInOrder` and `ReadyWaitsForHandshake`, for any
number of messages, rebuilds and heartbeats.  The invariant follows a message from
the stream through the posted handlers and the input queue to the session handler:
at every moment these hold consecutive pieces of what the client sent
(`InTransit`), and the output holds, in order, one answer for each request that has
been handled (`Answered`).  `Ended` says that nothing follows the end of the input;
`Noticed` that there are no more notices than applied rebuilds, and none before the
handshake.

`WorkspaceProofs`: what is read from a workspace, its files and the pairs in them.

- `ScanAgreesWithCheckAlways` and `RulesAlwaysExact`, for any tree,
  ignore files, rules, patterns and paths.  `ScanInv` says of a walk that is not done
  that each entry the check keeps, unless it is below a directory that hides itself, has
  been collected, is waiting, or is below a directory that waits.  `MatchFits` shows
  that the matcher's table holds what `Fits` defines.
- `PairsAlwaysExact`, for any lines, texts and matches.  The invariant `PairInv` says
  that the pending original is the one line that waits for its translation
  (`Waits`), so that one more line adds one pair or none (`LinePairsNext`).  For the
  quotes, the stack of `check_valid` holds, in order, the positions of the opening
  quotes without a closing one, each as deep as it stands in the stack (`StackOf`);
  hence its answer is about the partners of the first and last character
  (`CheckValidMeans`), and `AdjustFacts` follows the moved characters.  For the
  numbers, the line starts up to a position are the LFs before it and the
  beginning (`LineOfPosition`).  Assumed of a match is that it is not empty and
  that its groups do not begin ahead of it: the line starts leave out a line that
  begins at the very end of the text, and an empty match there would be numbered one
  too low.

`RequestTrackingProofs`: `SpecPendingExact`, `SpecOwnAnswer`,
`SpecStoredReplyWins`, and `SpecKeepsPromise`, the refinement of `RequestPromise`.
The invariant `IInv` adds the numbering: ids in use, sent or on their way do not
exceed the last one given out (`Numbered`), so that a reply under the id of a
request in progress is a reply to it (`SentOwn`), and what a tracker holds is
what was stored for it (`StoredOwn`).  Without the numbering a late reply could
meet a reused id.

`SimilaritySearchProofs`: `IndexAlwaysExact`, `CandidatesAlwaysRight` and
`EachScoredOnce`, for any lines, texts and constants of the search.  The invariant
`Good` says that no two terms have the same number (`Numbered`); that a line is
recorded under the numbers that its terms still have (`Recorded`), so that erasing
it finds its postings; and that a term keeps its number as long as a line has it,
since the erasing of lines releases it no more often than they retained it
(`Referenced`).  `Posted` then has each posting in ascending order and each
frequency right, which `Dropped` and `Added` show of the binary searches.  Both are
needed at once: the look-up is exact only while numbers are not given up early.  For the
candidates, `WithTermFacts` says that one more term adds lines of its posting only and
takes none away, and `OrderFacts` that no term is rarer than the first.  The core of
the third is `RangesPartition`, that the rounding of `chunk_size` splits any number of candidates among the tasks
without gap or overlap; it needs the assumption that the tasks are few for the
number from which on scoring is parallel (`SearchAssumption`; in the code 4 and
128).

`SessionManagerProofs`: `OneWriterAlways`, `NothingLostEver`, `OutputIsChannel` (the
refinement of `FrameChannel`) and `ReportsOnlyWhenIdle`, for any finite number of
sessions and any coroutines and frames.  `WriterInv` ties the flag to the one
coroutine that is writing and to the one frame in flight.  `FramesInv` follows a
frame to the return of its call and says, of a writer, that its own frame is on
the wire or about to be: without that a writer that ends could return for a frame
it never wrote.  `CastInv` says of the sessions broadcast has done with that their
call returned or their connection is lost.  `MonitorInv` says that in generation 1
no session has come yet, which is why the handler of the first timer may report.
Only finiteness of `Sessions` is assumed, so that a count of zero means none.

`MessageProofs`: what becomes of a message, from the bytes to its answer.
`FramesAlwaysExact` is about any stream of blank blocks and messages in any cut into
reads.  A stream is given by what is left of it after each block (`StreamOf`), so
that nothing is recursive, and ends with anything that holds no whole message.  The
invariant `FrameInv` says that what is buffered and what is coming is what is left after
k of the n blocks, or what follows the header of the next one (`Place`), and that as many
messages were returned as there are among the k.  The argument rests on `FirstHeader`
and `FirstDelimiter`: a delimiter that lies in the buffer ends the header that comes
first in the stream, wherever the buffer was cut, and no later read moves it
(`HeaderTaken`, `SomeHeaderTaken`).  Without `IsHeader`, that a header ends at
its *first* delimiter, this would be false of a header with an empty line in it.
`FrameIsRead` ties the writer to the reader: what `frame_message` writes is such a
message, whatever its payload holds and whatever follows it.  Assumed of the
tokens is that a Content-Length line is not one of the other tokens (`LengthAssumption`).

`AnsweredOnceAlways` and `NothingHalfDoneEver` are for any set
of messages.  The invariant is the typing of the session's state; each action
`HandledWell`: it keeps the types, is a whole step, and answers its own message or
one that has no answer coming.  Assumed are the types of the members that are of the
right type, and that the marker of no document is none (`MessagesAssumption`).

`CopyIsShownText` and `CopyCatchesUp` are about an editor that waits for the bridge
after a save, with texts, edits, openings and saves of any number and
length.  The invariant `QueueLeads` follows the notifications under way: between
two of them there is a view, a document under a version or none, such that the first
view is what the copy has, the last what the editor shows, each notification leads from the
view before it to the one after it (`Leads`), and the editor did show them all.
Without that chain nothing would say that a change under way fits the copy once those
before it are handled.  `EditsRight` is the step in which the work is: a list of
changes makes of *any* lines with the text an edit was made to lines with the text it
left.  It rests on `EditMade`: the position of an offset is found again in the lines
(`PositionFound`), the lines cut there and joined with those of the patch
(`ReplacedLines`, `ReplacedContent`) have the text that the editor's splice leaves, and a
text comes back from its line ends (`SplitWire`), be they CR LF.  `Plain`, what the
editor shows, has no CR: after one, the LF that begins a patch would be taken for the
second half of a line end.  `Patient` is needed; `document_save_race` shows what
happens without.  Functions defined by recursion on a text or on lines are known by their
equation only where a function with it exists: `SequenceRecursion` proves that it
does, for any function on sequences given by its value without the last item.

The theorems of the library that give induction take an operator as a parameter,
which the provers here cannot instantiate.  Where an induction is needed, the
proofs look at a least counterexample instead: `Least` (`LeastOf` in `MessageProofs`) follows from the well-foundedness of the
strict subsets among finite sets.

Every safety property that a passing run checks is stated by a theorem.  Only
model-checked: all liveness (fairness is out of the prover's reach here), and that
the behaviours of the three violations exist.

## What is not modelled, and notes

- Not modelled: the syntax of JSON; encodings and URIs as strings; regular
  expressions, command line, floating-point scores.  The
  service takes the outcome of the ignore rules as the parameter `Ignored`, and
  that of a parser as `Parse`; `IgnoreRules` and `TextParser` model what computes
  them.
- The life of the process: the pool is joined by a guard that `main` destroys
  after the service its tasks point to (`crossref` 803), and the models end with the
  session.  `batch_process` (`batch.hpp` 192), which only the tests call: a callback
  for errors that throws leaves a posted handler, and with it the process, so
  that nobody comes to wait for the latch.
- The scan leaves out hidden files, archives and some directories; the live
  check of an update (`crossref` 659) knows folders and ignore rules only.  A hidden
  file that is opened is therefore indexed until the next rebuild.
- Terms are retained once per occurrence and released once per line
  (`similarity` 101, 232): ids of repeated terms are not released.  The model keeps
  this, `MaxRefs` and `MaxTermIds` bound it, and the look-ups are exact in spite
  of it.
- `workspace/didChangeWorkspaceFolders` changes the `DocumentManager` and not the
  service (`main.cpp` 437): folders added later are scanned, and folders removed
  leave the index, only with the next different configuration.
- A failed rebuild is not repeated, and the same configuration again is
  ignored (`crossref` 957): searches then wait their ten seconds and answer
  from the old tables.  The model has this; `EveryRequestAnswered` still holds.
- After `exit` or end of input the session ends, but the signal set keeps
  `io_context::run` busy (`bridge_app.hpp` 43), so the process stays until it gets
  a signal.
- The socket variant of `LocalSession`, the idle monitor, broadcast,
  `batch_process`, and sending requests are used by the tests only; all but
  `batch_process` are modelled.
- A frame left to a writer whose write then fails stays in the queue, although
  its call returned; `OutcomesHonest` promises nothing once the connection is lost.
- Ignore rules: `\!name`, which in git stands for a file of that name, is read as
  a negated rule, since the backslash is dropped before `!` is looked at (`crossref`
  323-336); a leading slash is dropped before it is decided whether a pattern is
  a base name (`crossref` 347-356), so that an anchored name matches at every depth;
  rules of
  `.dltxt/ignore` and of the folder's `.gitignore` with the same order may come in
  either order, and `DeepestDecides` leaves that open.
- `ScanAgreesWithCheck` holds for the scan and the live check as far as rules
  are concerned and no rule is negated: below an ignored directory the scan finds
  nothing, the check may find a file that a negated rule keeps.
- The scan leaves out a directory that holds an ignore file with a rule such as
  `.*`, `?` or `*`: the rules of a directory are asked about the directory itself,
  whose path relative to itself is `.` (`crossref` 82, 585).  The check of a single
  path keeps the files below it, and `lsp设计.md:57` has the scan index all text files
  of the project.  `HidesItself` names these directories, and `ScanAgreesWithCheck`
  promises nothing below them; without that exception the run `inputs` finds it
  violated by a folder `d` whose ignore file holds `?`.
- Messages (`MessageHandling` has all of these): `parserRegex: null` is answered by a
  result and changes nothing (`main.cpp` 337); document messages that carry an id
  get no answer, unless a member is unreadable, which is answered as an internal
  error; `initialize` with params that name no folder clears the folders; a range
  that makes no sense counts as none, so that its text replaces the whole document
  (`protocol` 478); a response with both a result and an error, or to no request,
  is dropped without an answer; an internal error has the code -32603 whether the
  client or the bridge is at fault.  A didChange of which a change does not fit
  keeps the changes before it, which is no half-done step: they are indexed.
- `cancel_all` cancels no wait that has not begun; such a request ends by its
  timeout (`EveryRequestEnds`).

## Plan

Done: the service with its proofs, the session around it, the search, documents,
the similarity index, requests and the socket's output with their refinements and
proofs, the session manager, the message path with the validation and handling of messages
and their proofs, framing, pairing, ignore rules.

Next, in this order:

1. An abstract index (file to document) that `CrossrefService` implements.
2. `PoolLifecycle`: shutdown and join, and tasks that outlive the service.
3. `InWorkspace` of the service in terms of `IgnoreRules`.
