-------------------------- MODULE CrossrefService --------------------------
(***************************************************************************)
(* bridge_crossref::CrossrefService with the shared thread pool it posts   *)
(* its work to.  The public operations run on the bridge's main thread;    *)
(* rebuilds, open-document updates and closed-document refreshes run on    *)
(* pool threads, read the disk without the lock and commit under mutex_.   *)
(* One action is one section of code no other thread can observe the       *)
(* inside of: a public operation up to its post, one disk read, one        *)
(* critical section of mutex_.                                             *)
(***************************************************************************)
EXTENDS LineTables, FiniteSets

CONSTANTS
  TextFiles,      \* files with a .txt or .TXT extension
  Uris, PathOf,   \* client URIs and file_path_from_uri
  UriOf,          \* file_uri_from_path
  Folders,        \* workspace folders
  Tree,           \* Tree[w]: files below folder w
  Ignored,        \* Ignored[w]: files the ignore rules of w exclude
  Unscanned,      \* Unscanned[w]: hidden files, files in skipped directories
  Absent,         \* no such file on disk
  Unreadable,     \* the load of an existing file throws
  Document,       \* document snapshots the caller can hand in
  Workers,        \* threads of the shared pool
  Faults          \* what may fail: "load", "timestamp", "rebuild"

ASSUME PathAssumption ==
  /\ TextFiles \subseteq Files
  /\ PathOf \in [Uris -> Files]
  /\ UriOf \in [Files -> Uris]
  /\ \A f \in Files : PathOf[UriOf[f]] = f

ASSUME FolderAssumption ==
  /\ Tree \in [Folders -> SUBSET Files]
  /\ Ignored \in [Folders -> SUBSET Files]
  /\ Unscanned \in [Folders -> SUBSET Files]

ASSUME DiskAssumption ==
  /\ Absent \notin Texts /\ Unreadable \notin Texts /\ Absent # Unreadable

ASSUME DocumentAssumption ==
  Document \subseteq [uri : Uris, version : Versions, text : Texts]

\* A snapshot of the open documents is a map from URI to document.
Snapshot == {docs \in SUBSET Document : \A a, b \in docs : a.uri = b.uri => a = b}

VARIABLES
  tables,       \* the line tables searches read
  roots,        \* workspace_root_paths_ with workspace_gitignore_rules_
  parserState,  \* parser_state_
  rebuildGen,   \* rebuild_generation_
  appliedGen,   \* applied_generation_
  queue,        \* tasks posted to the pool and not started
  job,          \* what each pool thread is executing
  disk,         \* contents of the files on disk
  submitted     \* history: every document snapshot ever handed in

serviceVars == <<tables, roots, parserState, rebuildGen, appliedGen>>
poolVars == <<queue, job>>
vars == <<serviceVars, poolVars, disk, submitted>>

Generation == Nat

Idle == [kind |-> "idle"]
RebuildTask ==
  [kind : {"rebuild"}, parser : Parsers, gen : Generation,
   folders : SUBSET Folders, docs : SUBSET Document]
OpenTask == [kind : {"open"}, doc : Document, parser : Parsers]
CloseTask == [kind : {"close"}, file : Files, parser : Parsers]
Task == RebuildTask \cup OpenTask \cup CloseTask

\* A rebuild past its scan, a refresh past its read, and a rebuild that is
\* applied and about to call index_ready_notifier_.
Building ==
  [kind : {"building"}, task : RebuildTask, todo : SUBSET Files, built : Tables]
Refreshing ==
  [kind : {"refreshing"}, task : CloseTask, read : Texts \cup {Absent, Unreadable}]
Notifying == [kind : {"notifying"}, gen : Generation]
Job == {Idle} \cup Task \cup Building \cup Refreshing \cup Notifying

TypeOK ==
  /\ tables \in Tables
  /\ roots \in SUBSET Folders
  /\ parserState \in Parsers \cup {None}
  /\ rebuildGen \in Generation
  /\ appliedGen \in Generation
  /\ queue \in Seq(Task)
  /\ job \in [Workers -> Job]
  /\ disk \in [Files -> Texts \cup {Absent}]
  /\ submitted \in SUBSET Document

Init ==
  /\ tables = EmptyTables
  /\ roots = {}
  /\ parserState = None
  /\ rebuildGen = 0
  /\ appliedGen = 0
  /\ queue = << >>
  /\ job = [w \in Workers |-> Idle]
  /\ disk \in [Files -> Texts \cup {Absent}]
  /\ submitted = {}

-----------------------------------------------------------------------------
(* Workspace membership. *)

\* is_in_workspace_unlocked: below a root and not ignored by any root's rules.
InWorkspace(folders, f) ==
  /\ \E w \in folders : f \in Tree[w]
  /\ \A w \in folders : f \notin Ignored[w]

\* collect_workspace_text_uris: the walk also skips hidden files and does not
\* enter hidden, archive or symlinked directories.
Scan(folders) ==
  {f \in TextFiles :
     /\ disk[f] # Absent
     /\ InWorkspace(folders, f)
     /\ \E w \in folders : f \in Tree[w] \ Unscanned[w]}

\* load_document_fast: the text on disk, or an exception.
Loads(f) == {disk[f]} \cup (IF "load" \in Faults THEN {Unreadable} ELSE {})

\* last_write_time succeeds, or sets its error code.
TimestampRead == IF "timestamp" \in Faults THEN BOOLEAN ELSE {TRUE}

-----------------------------------------------------------------------------
(* Operations of the main thread. *)

\* Mutant of UpdateParserConfig: no rebuild is posted while one is under way.
UpdateParserConfigCoalescing(p, folders, docs) ==
  /\ submitted' = submitted \cup docs
  /\ UNCHANGED <<tables, roots, appliedGen, job, disk>>
  /\ IF parserState = p
     THEN UNCHANGED <<parserState, rebuildGen, queue>>
     ELSE /\ parserState' = p
          /\ rebuildGen' = rebuildGen + 1
          /\ queue' = IF appliedGen # rebuildGen THEN queue
                      ELSE Append(queue,
                        [kind |-> "rebuild", parser |-> p, gen |-> rebuildGen + 1,
                         folders |-> folders, docs |-> docs])

\* update_parser_config
UpdateParserConfig(p, folders, docs) ==
  /\ submitted' = submitted \cup docs
  /\ UNCHANGED <<tables, roots, appliedGen, job, disk>>
  /\ IF parserState = p
     THEN UNCHANGED <<parserState, rebuildGen, queue>>
     ELSE /\ parserState' = p
          /\ rebuildGen' = rebuildGen + 1
          /\ queue' = Append(queue,
               [kind |-> "rebuild", parser |-> p, gen |-> rebuildGen + 1,
                folders |-> folders, docs |-> docs])

\* clear_parser_config, with reset_unlocked
ClearParserConfig ==
  /\ parserState' = None
  /\ rebuildGen' = rebuildGen + 1
  /\ appliedGen' = rebuildGen + 1
  /\ tables' = EmptyTables
  /\ roots' = {}
  /\ UNCHANGED <<queue, job, disk, submitted>>

\* Mutant of NeedsOpenUpdate: a document indexed once is taken to be up to date.
NeedsFirstUpdate(doc) ==
  LET f == PathOf[doc.uri]
  IN  /\ f \in TextFiles
      /\ parserState # None
      /\ InWorkspace(roots, f)
      /\ tables.versions[f] = None

\* The early returns of schedule_open_document_update.
NeedsOpenUpdate(doc) ==
  LET f == PathOf[doc.uri]
  IN  /\ f \in TextFiles
      /\ parserState # None
      /\ InWorkspace(roots, f)
      /\ tables.versions[f] # doc.version

\* schedule_open_document_update
ScheduleOpenDocumentUpdate(doc) ==
  /\ submitted' = submitted \cup {doc}
  /\ queue' = IF NeedsOpenUpdate(doc)
              THEN Append(queue, [kind |-> "open", doc |-> doc, parser |-> parserState])
              ELSE queue
  /\ UNCHANGED <<serviceVars, job, disk>>

\* Mutant of ScheduleClosedDocumentRefresh: only a file recorded as open is
\* refreshed.
ScheduleRecordedRefresh(uri) ==
  LET f == PathOf[uri]
  IN  /\ UNCHANGED <<roots, parserState, rebuildGen, appliedGen, job, disk, submitted>>
      /\ UNCHANGED tables
      /\ queue' = IF parserState # None /\ tables.versions[f] # None
                  THEN Append(queue, [kind |-> "close", file |-> f, parser |-> parserState])
                  ELSE queue

\* schedule_closed_document_refresh
ScheduleClosedDocumentRefresh(uri) ==
  LET f == PathOf[uri]
  IN  /\ UNCHANGED <<roots, parserState, rebuildGen, appliedGen, job, disk, submitted>>
      /\ IF f \notin TextFiles \/ parserState = None
         THEN UNCHANGED <<tables, queue>>
         ELSE IF InWorkspace(roots, f)
         THEN /\ queue' = Append(queue,
                   [kind |-> "close", file |-> f, parser |-> parserState])
              /\ UNCHANGED tables
         ELSE /\ tables' = EraseFile(tables, f)
              /\ UNCHANGED queue

-----------------------------------------------------------------------------
(* Pool threads. *)

\* A thread takes the oldest posted task.
StartTask(w) ==
  /\ job[w] = Idle
  /\ queue # << >>
  /\ job' = [job EXCEPT ![w] = Head(queue)]
  /\ queue' = Tail(queue)
  /\ UNCHANGED <<serviceVars, disk, submitted>>

\* build_state_from_snapshot up to the list of files to ingest
RebuildScan(w) ==
  /\ job[w].kind = "rebuild"
  /\ job' = [job EXCEPT ![w] =
       [kind |-> "building", task |-> @, todo |-> Scan(@.folders), built |-> EmptyTables]]
  /\ UNCHANGED <<serviceVars, queue, disk, submitted>>

\* One turn of the ingest loop.  A file whose canonical URI is open is taken
\* from the snapshot; any other is loaded from disk.  The order of the files
\* (the sort of their URIs) is left open.
RebuildIngest(w) ==
  /\ job[w].kind = "building"
  /\ \E f \in job[w].todo :
       LET task == job[w].task
           snapshot == {d \in task.docs : d.uri = UriOf[f]}
           Ingest(tabs) == job' = [job EXCEPT ![w].todo = @ \ {f}, ![w].built = tabs]
       IN  \/ \E d \in snapshot :
                Ingest(IngestOpen(job[w].built, f, task.parser, d.text, d.version))
           \/ /\ snapshot = {}
              /\ \E text \in Loads(f), stamp \in TimestampRead :
                   Ingest(IF text \in {Absent, Unreadable} THEN job[w].built
                          ELSE IngestDisk(job[w].built, f, task.parser, text, stamp))
  /\ UNCHANGED <<serviceVars, queue, disk, submitted>>

\* Mutant of IsCurrent: the generation is not checked.
IsCurrentParser(task) == parserState = task.parser

IsCurrent(task) == parserState = task.parser /\ rebuildGen = task.gen

\* The critical section that ends a rebuild: apply_rebuild_unlocked, or
\* nothing when a later configuration superseded it.
RebuildApply(w) ==
  /\ job[w].kind = "building"
  /\ job[w].todo = {}
  /\ LET task == job[w].task
     IN  IF IsCurrent(task)
         THEN /\ tables' = job[w].built
              /\ roots' = task.folders
              /\ appliedGen' = task.gen
              /\ job' = [job EXCEPT ![w] = [kind |-> "notifying", gen |-> task.gen]]
         ELSE /\ job' = [job EXCEPT ![w] = Idle]
              /\ UNCHANGED <<tables, roots, appliedGen>>
  /\ UNCHANGED <<parserState, rebuildGen, queue, disk, submitted>>

\* The two catch branches: the rebuild ends and nothing is applied.
RebuildFail(w) ==
  /\ "rebuild" \in Faults
  /\ job[w].kind \in {"rebuild", "building"}
  /\ job' = [job EXCEPT ![w] = Idle]
  /\ UNCHANGED <<serviceVars, queue, disk, submitted>>

\* The call of index_ready_notifier_, after mutex_ is released.
NotifyIndexReady(w) ==
  /\ job[w].kind = "notifying"
  /\ job' = [job EXCEPT ![w] = Idle]
  /\ UNCHANGED <<serviceVars, queue, disk, submitted>>

\* Mutants of MayCommit: the stamp is not checked again; the workspace is not.
MayCommitAnyParser(task, f) == InWorkspace(roots, f)
MayCommitAnywhere(task, f) == parserState = task.parser

\* The checks made again under the lock before an update is committed.
MayCommit(task, f) == parserState = task.parser /\ InWorkspace(roots, f)

\* The task of schedule_open_document_update; a text that does not parse
\* leaves the file indexed without lines.
OpenUpdateCommit(w) ==
  /\ job[w].kind = "open"
  /\ LET doc == job[w].doc
         f == PathOf[doc.uri]
     IN  tables' =
           IF MayCommit(job[w], f)
           THEN TagOpen(ReplaceDocument(tables, f, Pairs(job[w].parser, doc.text)),
                        f, doc.version)
           ELSE tables
  /\ job' = [job EXCEPT ![w] = Idle]
  /\ UNCHANGED <<roots, parserState, rebuildGen, appliedGen, queue, disk, submitted>>

\* The task of schedule_closed_document_refresh reads the file ...
ClosedRefreshRead(w) ==
  /\ job[w].kind = "close"
  /\ \E text \in IF disk[job[w].file] = Absent THEN {Absent} ELSE Loads(job[w].file) :
       job' = [job EXCEPT ![w] =
                 [kind |-> "refreshing", task |-> job[w], read |-> text]]
  /\ UNCHANGED <<serviceVars, queue, disk, submitted>>

\* ... and commits what it read: the new lines, or the removal of a file that
\* is gone, does not load or does not parse.
ClosedRefreshCommit(w) ==
  /\ job[w].kind = "refreshing"
  /\ LET task == job[w].task
         f == task.file
         text == job[w].read
         loaded == text \notin {Absent, Unreadable} /\ Parses(task.parser, text)
     IN  \E stamp \in TimestampRead :
           tables' =
             IF parserState # task.parser THEN tables
             ELSE IF ~loaded THEN EraseFile(tables, f)
             ELSE IF MayCommit(task, f)
             THEN TagDisk(ReplaceDocument(tables, f, Pairs(task.parser, text)), f, stamp)
             ELSE tables
  /\ job' = [job EXCEPT ![w] = Idle]
  /\ UNCHANGED <<roots, parserState, rebuildGen, appliedGen, queue, disk, submitted>>

PoolStep(w) ==
  \/ StartTask(w)
  \/ RebuildScan(w)
  \/ RebuildIngest(w)
  \/ RebuildApply(w)
  \/ RebuildFail(w)
  \/ NotifyIndexReady(w)
  \/ OpenUpdateCommit(w)
  \/ ClosedRefreshRead(w)
  \/ ClosedRefreshCommit(w)

\* Another program, or the editor saving, writes or removes a file.
DiskChange(f, text) ==
  /\ text # disk[f]
  /\ disk' = [disk EXCEPT ![f] = text]
  /\ UNCHANGED <<serviceVars, poolVars, submitted>>

Call ==
  \/ \E p \in Parsers, folders \in SUBSET Folders, docs \in Snapshot :
       UpdateParserConfig(p, folders, docs)
  \/ ClearParserConfig
  \/ \E doc \in Document : ScheduleOpenDocumentUpdate(doc)
  \/ \E uri \in Uris : ScheduleClosedDocumentRefresh(uri)

Next ==
  \/ Call
  \/ \E w \in Workers : PoolStep(w)
  \/ \E f \in Files, text \in Texts \cup {Absent} : DiskChange(f, text)

Spec == Init /\ [][Next]_vars

\* Every thread of the pool keeps running: each runs io_context::run until
\* the work guard is released at the end of main.
FairSpec == Spec /\ \A w \in Workers : WF_vars(PoolStep(w))

-----------------------------------------------------------------------------
(* Safety. *)

\* The tables searches read are consistent at every instant (bridge_crossref.hpp
\* replace_document_unlocked, erase_file_unlocked, apply_rebuild_unlocked), and
\* so are those a rebuild is still filling.
TablesInv ==
  /\ TablesConsistent(tables)
  /\ \A w \in Workers : job[w].kind = "building" => TablesConsistent(job[w].built)

\* Every line was extracted from one single text of its file: an update, a
\* refresh or a rebuild replaces a document as a whole.
WholeDocuments ==
  \A f \in Files :
    FileLines(tables, f) # {} =>
      \E p \in Parsers, text \in Texts : Shows(tables, f, p, text)

\* Once the rebuild of the current configuration is applied, no line of an
\* earlier parser is left or comes back, whatever tasks are still queued; and
\* without a parser there is no line at all (the stamp and generation checks).
OnlyCurrentParser ==
  appliedGen = rebuildGen =>
    \A f \in Files :
      FileLines(tables, f) # {} =>
        /\ parserState # None
        /\ \E text \in Texts : Shows(tables, f, parserState, text)

\* A version recorded for a file is the version of a document that was handed
\* in, and the lines of the file are that document's: what the early return of
\* schedule_open_document_update relies on when it compares versions.
VersionsNameContent ==
  \A f \in Files :
    tables.versions[f] # None =>
      \E d \in submitted, p \in Parsers :
        /\ PathOf[d.uri] = f
        /\ d.version = tables.versions[f]
        /\ Shows(tables, f, p, d.text)

\* Only files of the workspace the tables were built for are indexed.
IndexedWithinWorkspace ==
  \A f \in tables.indexed : InWorkspace(roots, f)

-----------------------------------------------------------------------------
(* Steps and progress. *)

\* A rebuild that finishes late never replaces the tables of a later
\* configuration (the generation check of schedule_rebuild).
GenerationsApplyInOrder == [][appliedGen' >= appliedGen]_vars

\* If configurations stop changing and no rebuild throws, the last
\* configuration is applied and stays applied: the predicate search_json waits
\* on becomes true however the pool threads interleave.
RebuildEventuallyApplied ==
  <>[][UNCHANGED rebuildGen]_vars => <>[](appliedGen = rebuildGen)
=============================================================================
