--------------------------- MODULE CrossrefSearch ---------------------------
(***************************************************************************)
(* dltxt/get_similar_text in the running session.  The request is handled  *)
(* by a task on the shared pool, search_json; the session handles no other *)
(* message before its answer is written.  The task may wait for a rebuild  *)
(* that is under way, then looks every line of the document up: it takes   *)
(* mutex_ to search the index, keeping it while the threads of a second    *)
(* pool score the candidates, and takes it again to read line_infos_.      *)
(* Ranking and the limit on the answer are left out: an answer is the set  *)
(* they choose from.                                                       *)
(***************************************************************************)
EXTENDS IndexedSession

CONSTANTS
  Similar,       \* pairs of lines whose score reaches the threshold
  NumberOf,      \* NumberOf[line]: its line number
  BaseName,      \* BaseName[f]: the name of file f without its directory
  ScoringTasks,  \* numbers of tasks a scoring is split into; 0: none, scored in place
  Pending        \* a request is being handled

ASSUME SearchAssumption ==
  /\ Similar \subseteq Lines \X Lines
  /\ NumberOf \in [Lines -> Nat]
  /\ DOMAIN BaseName = Files
  /\ ScoringTasks \subseteq Nat

VARIABLE answer   \* None, Pending, or the answer last written

searchVars == <<allVars, answer>>

SearchInit == SessionInit /\ answer = None

\* Everything else the pool threads and the session may be doing.
Unmoved == UNCHANGED <<serviceVars, disk, submitted, sessionVars>>

\* mutex_ is held over several steps only by a search that is scoring.
MutexFree == \A w \in Workers : job[w].kind # "scoring"

Become(w, state) == job' = [job EXCEPT ![w] = state]

\* The answer to a request, with the request and the configuration it is made
\* under; late: the search did not wait for the rebuild to end.
Answer(request, refs, late) ==
  answer' = [request |-> request, parser |-> parserState, refs |-> refs, late |-> late]

\* dltxt/get_similar_text: the open document or, failing that, the file.
GetSimilarText(u) ==
  /\ answer # Pending
  /\ \E text \in IF docs[u] # None THEN {docs[u].text} ELSE Loads(PathOf[u]) :
       LET request == [kind |-> "search", file |-> PathOf[u], text |-> text,
                       open |-> docs[u] # None]
       IN  IF text \in {Absent, Unreadable}
           THEN Answer(request, {}, FALSE) /\ UNCHANGED queue
           ELSE queue' = Append(queue, request) /\ answer' = Pending
  /\ UNCHANGED job
  /\ Unmoved

-----------------------------------------------------------------------------
(* search_json on pool thread w. *)

\* The lines to look up, once it is known which parser to use.
BeginLines(w, request, late) ==
  IF parserState # None /\ Parses(parserState, request.text)
  THEN /\ Become(w, [kind |-> "searching", request |-> request, late |-> late,
                     lines |-> Pairs(parserState, request.text), refs |-> {}])
       /\ UNCHANGED answer
  ELSE Become(w, Idle) /\ Answer(request, {}, late)

\* The first critical section, up to the wait.
SearchBegin(w) ==
  /\ job[w].kind = "search"
  /\ MutexFree
  /\ IF job[w].file \notin TextFiles
     THEN Become(w, Idle) /\ Answer(job[w], {}, FALSE)
     ELSE IF parserState # None /\ appliedGen < rebuildGen
     THEN /\ Become(w, [kind |-> "waiting", request |-> job[w], gen |-> rebuildGen])
          /\ UNCHANGED answer
     ELSE BeginLines(w, job[w], FALSE)
  /\ UNCHANGED queue /\ Unmoved

EndWait(w, late) ==
  /\ BeginLines(w, job[w].request, late)
  /\ UNCHANGED queue /\ Unmoved

\* Mutant of SearchWake: any notification ends the wait.
SearchWakeAnyNotification(w) ==
  /\ job[w].kind = "waiting" /\ MutexFree
  /\ EndWait(w, FALSE)

\* The predicate of the wait.
NothingToWaitFor(gen) == parserState = None \/ rebuildGen # gen \/ appliedGen >= gen

\* rebuild_cv_ is notified and the predicate holds.
SearchWake(w) ==
  /\ job[w].kind = "waiting" /\ MutexFree
  /\ NothingToWaitFor(job[w].gen)
  /\ EndWait(w, FALSE)

\* The wait ends after ten seconds, whatever is indexed then.
SearchTimeout(w) ==
  /\ job[w].kind = "waiting" /\ MutexFree
  /\ ~NothingToWaitFor(job[w].gen)
  /\ EndWait(w, TRUE)

\* search_line, first section: index_.search finds the candidates ...
SearchIndex(w) ==
  /\ job[w].kind = "searching" /\ job[w].lines # << >>
  /\ MutexFree
  /\ \E n \in ScoringTasks :
       Become(w, [kind |-> "scoring", search |-> job[w], tasks |-> n,
                  found |-> {info.id : info \in {i \in tables.infos :
                               <<Head(job[w].lines), i.line>> \in Similar}}])
  /\ UNCHANGED <<queue, answer>> /\ Unmoved

\* Mutant of ScorerAvailable: scoring runs on the pool that runs the searches.
ScorerOnSharedPool == \E w \in Workers : job[w] = Idle

\* search_thread_pool is a pool of its own, whose threads do nothing else.
ScorerAvailable == TRUE

\* ... a thread of that pool scores a share of them ...
ScoreCandidates(w) ==
  /\ job[w].kind = "scoring" /\ job[w].tasks > 0
  /\ ScorerAvailable
  /\ job' = [job EXCEPT ![w].tasks = @ - 1]
  /\ UNCHANGED <<queue, answer>> /\ Unmoved

\* ... and with the last share the latch opens and mutex_ is released.
ScoringDone(w) ==
  /\ job[w].kind = "scoring" /\ job[w].tasks = 0
  /\ Become(w, [kind |-> "found", search |-> job[w].search, found |-> job[w].found])
  /\ UNCHANGED <<queue, answer>> /\ Unmoved

\* Lines of files of the same name are not reported, but for the other lines
\* of the document itself.
Reported(file, line, info) ==
  \/ BaseName[info.file] # BaseName[file]
  \/ info.file = file /\ NumberOf[info.line] # NumberOf[line]

\* Second section: the ids are looked up, and what they name now is scored.
SearchCollect(w) ==
  /\ job[w].kind = "found" /\ MutexFree
  /\ LET search == job[w].search
         line == Head(search.lines)
         refs == {info \in tables.infos :
                    /\ info.id \in job[w].found
                    /\ <<line, info.line>> \in Similar
                    /\ Reported(search.request.file, line, info)}
     IN  Become(w, [search EXCEPT !.lines = Tail(@), !.refs = @ \cup refs])
  /\ UNCHANGED <<queue, answer>> /\ Unmoved

\* The answer is written and the session takes the next message.
SearchFinish(w) ==
  /\ job[w].kind = "searching" /\ job[w].lines = << >>
  /\ Become(w, Idle)
  /\ Answer(job[w].request, job[w].refs, job[w].late)
  /\ UNCHANGED queue /\ Unmoved

SearchStep(w) ==
  \/ SearchBegin(w) \/ SearchWake(w) \/ SearchTimeout(w)
  \/ SearchIndex(w) \/ ScoreCandidates(w) \/ ScoringDone(w)
  \/ SearchCollect(w) \/ SearchFinish(w)

-----------------------------------------------------------------------------
(* The session around it. *)

\* The steps of the other tasks that take mutex_.
Locks(w) ==
  \/ job[w].kind \in {"open", "refreshing"}
  \/ job[w].kind = "building" /\ job[w].todo = {}

ServiceStep(w) ==
  /\ Locks(w) => MutexFree
  /\ SessionPoolStep(w)
  /\ UNCHANGED answer

\* One message at a time.
HandleMessage == answer # Pending /\ SessionMessage /\ UNCHANGED answer

SearchNext ==
  \/ HandleMessage
  \/ \E u \in Uris : GetSimilarText(u)
  \/ \E w \in Workers : SearchStep(w) \/ ServiceStep(w)
  \/ SessionBackground /\ UNCHANGED answer

SearchSpec == SearchInit /\ [][SearchNext]_searchVars

\* Pool threads keep running and timers expire.
SearchFairness ==
  \A w \in Workers : WF_searchVars(SearchStep(w)) /\ WF_searchVars(ServiceStep(w))

-----------------------------------------------------------------------------
(* The behaviours in which the index can follow the editor.  The pool happens *)
(* to run one task at a time: the editor leaves it time, or one thread takes  *)
(* them all.  The editor waits for dltxt/crossref_index_ready, opens files    *)
(* that a scan finds, under the URI the bridge makes of them, again only when *)
(* the pool has come to rest, and is the only one to write a file: it saves   *)
(* what it shows.                                                             *)

PatientOpen(f, version, text) ==
  /\ disk[f] \in Texts
  /\ \A w \in Folders : f \notin Unscanned[w]
  /\ \/ \A d \in submitted : d.uri # UriOf[f]
     \/ queue = << >> /\ \A w \in Workers : job[w] = Idle
  /\ DidOpen(UriOf[f], version, text)

PatientSave(u) == docs[u] # None /\ disk[PathOf[u]] = docs[u].text /\ DidSave(u)

EditorWrites(u) ==
  /\ docs[u] # None
  /\ DiskChange(PathOf[u], docs[u].text)
  /\ UNCHANGED <<sessionVars, answer>>

PatientMessage ==
  /\ answer # Pending
  /\ appliedGen = rebuildGen
  /\ \/ \E fs \in SUBSET Folders : Initialize(fs)
     \/ \E added, removed \in SUBSET Folders : DidChangeWorkspaceFolders(added, removed)
     \/ \E p \in Parsers : SetParserRegex(p)
     \/ \E f \in Files, version \in Versions, text \in Texts : PatientOpen(f, version, text)
     \/ \E u \in Uris, version \in Versions, text \in Texts : DidChange(u, version, text)
     \/ \E u \in Uris : DidChangeRejected(u) \/ PatientSave(u) \/ DidClose(u)
  /\ UNCHANGED answer

SerialStep(w) ==
  /\ \A v \in Workers \ {w} : job[v] = Idle
  /\ SearchStep(w) \/ ServiceStep(w)

SerialBackground ==
  \/ \E w \in Workers : SerialStep(w)
  \/ \E u \in Uris : EditorWrites(u) \/ (SyncWindowPasses(u) /\ UNCHANGED answer)

SerialNext ==
  \/ PatientMessage
  \/ \E u \in Uris : GetSimilarText(u)
  \/ SerialBackground

SerialSpec == SearchInit /\ [][SerialNext]_searchVars

-----------------------------------------------------------------------------
(* Properties. *)

Answered == answer \notin {None, Pending}

ParsedLines(p, text) == {Pairs(p, text)[k] : k \in DOMAIN Pairs(p, text)}

\* An answer that did not give up waiting reports only lines that the parser of
\* the configuration it is given under extracts: none of an earlier configuration
\* (the wait of search_json, and the session's one message at a time).
AnswersCurrentParser ==
  Answered /\ ~answer.late =>
    \A info \in answer.refs :
      \E text \in Texts : info.line \in ParsedLines(answer.parser, text)

\* Every request is answered: no search waits for a rebuild that failed, for
\* the lock, or for scoring tasks that cannot run.
EveryRequestAnswered == (answer = Pending) ~> (answer # Pending)

\* Of the file of an open document an answer reports only lines of the text the
\* document had when the request was made.
AnswersSeeEdits ==
  Answered /\ ~answer.late /\ answer.request.open =>
    \A info \in answer.refs :
      info.file = answer.request.file =>
        info.line \in ParsedLines(answer.parser, answer.request.text)
=============================================================================
