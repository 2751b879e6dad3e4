----------------------- MODULE CrossrefServiceProofs -----------------------
(***************************************************************************)
(* Safety of the cross-reference service for any number of files, parsers, *)
(* pool threads and queued tasks: what the operations on the line tables   *)
(* preserve, that every step of the service keeps them consistent, and     *)
(* then what they contain: whole documents, of the current parser, of the  *)
(* workspace the tables were built for, under versions that name them.     *)
(***************************************************************************)
EXTENDS CrossrefService, TLAPS

-----------------------------------------------------------------------------
(* The operations on the line tables. *)

\* The pairs an update installs are a sequence of lines.
LEMMA PairsType ==
  ASSUME NEW p \in Parsers, NEW text \in Texts
  PROVE  Pairs(p, text) \in Seq(Lines)
BY ParseAssumption DEF Pairs, Parses

\* A new BuildState is consistent.
LEMMA EmptyTablesConsistent ==
  EmptyTables \in Tables /\ TablesConsistent(EmptyTables)
BY NoneAssumption
   DEF EmptyTables, Tables, TablesConsistent, FileLines, LineId, LineInfo

\* erase_file_unlocked keeps the tables consistent.
LEMMA EraseFileConsistent ==
  ASSUME NEW t \in Tables, NEW f \in Files, TablesConsistent(t)
  PROVE  /\ EraseFile(t, f) \in Tables
         /\ TablesConsistent(EraseFile(t, f))
<1> DEFINE e == EraseFile(t, f)
<1>1. e \in Tables
  BY DEF EraseFile, Tables
<1>2. e.index = {info.id : info \in e.infos}
  BY DEF EraseFile, Tables, TablesConsistent
<1>3. \A x, y \in e.infos : x.id = y.id => x = y
  BY DEF EraseFile, Tables, TablesConsistent
<1>4. ASSUME NEW g \in Files
      PROVE  e.fileIds[g] = {info.id : info \in FileLines(e, g)}
  <2>1. t.fileIds[g] = {info.id : info \in FileLines(t, g)}
    BY DEF TablesConsistent
  <2>2. t.fileIds[f] = {info.id : info \in FileLines(t, f)}
    BY DEF TablesConsistent
  <2>3. CASE g = f
    <3>1. FileLines(e, f) = {}
      BY <2>2 DEF EraseFile, FileLines
    <3> QED  BY <2>3, <3>1 DEF EraseFile, Tables
  <2>4. CASE g # f
    <3>1. ASSUME NEW info \in FileLines(t, g)
          PROVE  info.id \notin t.fileIds[f]
      BY <2>2, <2>4 DEF TablesConsistent, FileLines
    <3>2. FileLines(e, g) = FileLines(t, g)
      BY <3>1 DEF EraseFile, FileLines
    <3> QED  BY <2>1, <2>4, <3>2 DEF EraseFile, Tables
  <2> QED  BY <2>3, <2>4
<1>5. \A i \in e.index : i < e.nextId
  BY DEF EraseFile, TablesConsistent
<1>6. \A g \in Files : e.fileIds[g] # {} => g \in e.indexed
  BY DEF EraseFile, Tables, TablesConsistent
<1>7. \A g \in Files : e.versions[g] # None => g \in e.indexed /\ g \notin e.stamped
  BY DEF EraseFile, Tables, TablesConsistent
<1>8. e.stamped \subseteq e.indexed
  BY DEF EraseFile, TablesConsistent
<1> QED  BY <1>1, <1>2, <1>3, <1>4, <1>5, <1>6, <1>7, <1>8 DEF TablesConsistent

\* Entering the pairs of a file under fresh ids keeps the tables consistent.
LEMMA AddLinesConsistent ==
  ASSUME NEW t \in Tables, NEW f \in Files, NEW pairs \in Seq(Lines),
         TablesConsistent(t)
  PROVE  /\ AddLines(t, f, pairs) \in Tables
         /\ TablesConsistent(AddLines(t, f, pairs))
<1> DEFINE ids == t.nextId .. (t.nextId + Len(pairs) - 1)
           new == {[id |-> t.nextId + k - 1, file |-> f, line |-> pairs[k]] :
                     k \in 1 .. Len(pairs)}
           e == AddLines(t, f, pairs)
<1>1. /\ e.index = t.index \cup ids
      /\ e.infos = t.infos \cup new
      /\ e.fileIds = [t.fileIds EXCEPT ![f] = @ \cup ids]
      /\ e.versions = t.versions /\ e.stamped = t.stamped
      /\ e.indexed = t.indexed \cup {f}
      /\ e.nextId = t.nextId + Len(pairs)
  BY DEF AddLines
<1>2. /\ t.nextId \in Nat \ {0} /\ Len(pairs) \in Nat
      /\ t.index \subseteq Nat /\ t.infos \subseteq LineInfo
      /\ t.fileIds \in [Files -> SUBSET Nat]
  BY DEF Tables, LineId
<1>3. \A k \in 1 .. Len(pairs) : pairs[k] \in Lines
  OBVIOUS
<1>4. ids = {info.id : info \in new}
  <2>1. ASSUME NEW i \in ids  PROVE \E info \in new : info.id = i
    <3>1. i - t.nextId + 1 \in 1 .. Len(pairs)
      BY <1>2
    <3>2. [id |-> t.nextId + (i - t.nextId + 1) - 1, file |-> f,
           line |-> pairs[i - t.nextId + 1]] \in new
      BY <3>1
    <3>3. t.nextId + (i - t.nextId + 1) - 1 = i
      BY <1>2
    <3> QED  BY <3>2, <3>3
  <2>2. ASSUME NEW info \in new  PROVE info.id \in ids
    BY <1>2
  <2> QED  BY <2>1, <2>2
<1>5. new \subseteq LineInfo
  BY <1>2, <1>3 DEF LineInfo, LineId
<1>6. \A i \in ids : i \in Nat /\ i >= t.nextId /\ i < t.nextId + Len(pairs)
  BY <1>2
<1>7. e \in Tables
  <2>1. e.index \subseteq Nat /\ e.infos \subseteq LineInfo /\ e.nextId \in Nat \ {0}
    BY <1>1, <1>2, <1>5, <1>6
  <2>2. e.fileIds \in [Files -> SUBSET Nat]
    BY <1>1, <1>2, <1>6
  <2> HIDE DEF ids, new
  <2> QED  BY <2>1, <2>2 DEF AddLines, Tables, LineId
<1>8. \A i \in t.index : i < t.nextId
  BY DEF TablesConsistent
<1>9. e.index = {info.id : info \in e.infos}
  <2> HIDE DEF ids, new, e
  <2> QED  BY <1>1, <1>4 DEF TablesConsistent
<1>10. \A x, y \in e.infos : x.id = y.id => x = y
  <2>1. \A x, y \in new : x.id = y.id => x = y
    BY <1>2
  <2>2. \A x \in t.infos : x.id \in t.index
    BY DEF TablesConsistent
  <2>3. \A x \in t.infos, y \in new : x.id < t.nextId /\ y.id >= t.nextId
    BY <2>2, <1>8, <1>4, <1>6
  <2>4. \A x, y \in t.infos : x.id = y.id => x = y
    BY DEF TablesConsistent
  <2>5. \A x \in t.infos : x.id \in Nat
    BY <1>2 DEF LineInfo, LineId
  <2>6. \A y \in new : y.id \in Nat
    BY <1>5 DEF LineInfo, LineId
  <2> HIDE DEF ids, new, e
  <2>7. \A x \in t.infos, y \in new : x.id # y.id
    BY <2>3, <2>5, <2>6, <1>2
  <2> QED  BY <1>1, <2>1, <2>4, <2>7
<1>11. ASSUME NEW g \in Files
       PROVE  e.fileIds[g] = {info.id : info \in FileLines(e, g)}
  <2>1. t.fileIds[g] = {info.id : info \in FileLines(t, g)}
    BY DEF TablesConsistent
  <2>2. \A info \in new : info.file = f
    OBVIOUS
  <2> HIDE DEF ids, new, e
  <2>3. CASE g = f
    <3>1. FileLines(e, f) = FileLines(t, f) \cup new
      BY <1>1, <2>2 DEF FileLines
    <3>2. e.fileIds[f] = t.fileIds[f] \cup ids
      BY <1>1, <1>2
    <3> QED  BY <2>1, <2>3, <3>1, <3>2, <1>4
  <2>4. CASE g # f
    <3>1. FileLines(e, g) = FileLines(t, g)
      BY <1>1, <2>2, <2>4 DEF FileLines
    <3>2. e.fileIds[g] = t.fileIds[g]
      BY <1>1, <1>2, <2>4
    <3> QED  BY <2>1, <3>1, <3>2
  <2> QED  BY <2>3, <2>4
<1>12. \A i \in e.index : i < e.nextId
  <2> HIDE DEF ids, new, e
  <2> QED  BY <1>1, <1>2, <1>6, <1>8
<1>13. /\ \A g \in Files : e.fileIds[g] # {} => g \in e.indexed
       /\ \A g \in Files : e.versions[g] # None => g \in e.indexed /\ g \notin e.stamped
       /\ e.stamped \subseteq e.indexed
  <2> HIDE DEF ids, new, e
  <2> QED  BY <1>1, <1>2 DEF TablesConsistent
<1> HIDE DEF e
<1>14. TablesConsistent(e)
  BY <1>9, <1>10, <1>11, <1>12, <1>13 DEF TablesConsistent
<1> QED  BY <1>7, <1>14 DEF e

\* replace_document_unlocked keeps the tables consistent and indexes the file.
LEMMA ReplaceDocumentConsistent ==
  ASSUME NEW t \in Tables, NEW f \in Files, NEW pairs \in Seq(Lines),
         TablesConsistent(t)
  PROVE  /\ ReplaceDocument(t, f, pairs) \in Tables
         /\ TablesConsistent(ReplaceDocument(t, f, pairs))
         /\ f \in ReplaceDocument(t, f, pairs).indexed
<1>1. ReplaceDocument(t, f, pairs).indexed = EraseFile(t, f).indexed \cup {f}
  BY DEF ReplaceDocument, AddLines
<1> QED  BY <1>1, EraseFileConsistent, AddLinesConsistent DEF ReplaceDocument

\* Tagging an indexed file with an open version or a timestamp keeps the
\* tables consistent.
LEMMA TagConsistent ==
  ASSUME NEW t \in Tables, NEW f \in Files, TablesConsistent(t), f \in t.indexed
  PROVE  /\ \A v \in Versions : /\ TagOpen(t, f, v) \in Tables
                                /\ TablesConsistent(TagOpen(t, f, v))
         /\ \A s \in BOOLEAN : /\ TagDisk(t, f, s) \in Tables
                               /\ TablesConsistent(TagDisk(t, f, s))
<1>1. ASSUME NEW v \in Versions
      PROVE  TagOpen(t, f, v) \in Tables /\ TablesConsistent(TagOpen(t, f, v))
  BY NoneAssumption DEF TagOpen, Tables, TablesConsistent, FileLines
<1>2. ASSUME NEW s \in BOOLEAN
      PROVE  TagDisk(t, f, s) \in Tables /\ TablesConsistent(TagDisk(t, f, s))
  BY DEF TagDisk, Tables, TablesConsistent, FileLines
<1> QED  BY <1>1, <1>2

\* ingest_document keeps the tables of a rebuild consistent.
LEMMA IngestConsistent ==
  ASSUME NEW t \in Tables, NEW f \in Files, NEW p \in Parsers, NEW text \in Texts,
         TablesConsistent(t)
  PROVE  /\ \A v \in Versions : /\ IngestOpen(t, f, p, text, v) \in Tables
                                /\ TablesConsistent(IngestOpen(t, f, p, text, v))
         /\ \A s \in BOOLEAN : /\ IngestDisk(t, f, p, text, s) \in Tables
                               /\ TablesConsistent(IngestDisk(t, f, p, text, s))
<1> DEFINE a == AddLines(t, f, Pairs(p, text))
<1>1. a \in Tables /\ TablesConsistent(a)
  BY PairsType, AddLinesConsistent
<1>2. f \in a.indexed
  BY DEF AddLines
<1> HIDE DEF a
<1>3. /\ \A v \in Versions : TagOpen(a, f, v) \in Tables /\ TablesConsistent(TagOpen(a, f, v))
      /\ \A s \in BOOLEAN : TagDisk(a, f, s) \in Tables /\ TablesConsistent(TagDisk(a, f, s))
  BY <1>1, <1>2, TagConsistent
<1> QED  BY <1>3 DEF a, IngestOpen, IngestDisk

-----------------------------------------------------------------------------
(* The pool. *)


\* The jobs of the pool threads by kind.
LEMMA JobKinds ==
  ASSUME TypeOK, NEW w \in Workers
  PROVE  /\ job[w].kind = "rebuild" => job[w] \in RebuildTask
         /\ job[w].kind = "building" => job[w] \in Building
         /\ job[w].kind = "open" => job[w] \in OpenTask
         /\ job[w].kind = "close" => job[w] \in CloseTask
         /\ job[w].kind = "refreshing" => job[w] \in Refreshing
<1>1. job[w] \in Job
  BY DEF TypeOK
<1> QED
  BY <1>1 DEF Job, Task, RebuildTask, OpenTask, CloseTask, Building, Refreshing,
              Notifying, Idle

\* A posted task is appended to the pool's queue, and nothing else is.
LEMMA AppendTask ==
  ASSUME TypeOK, NEW task \in Task
  PROVE  Append(queue, task) \in Seq(Task)
BY DEF TypeOK

\* The file list of a rebuild.
LEMMA ScanFiles ==
  ASSUME NEW folders
  PROVE  /\ Scan(folders) \subseteq Files
         /\ \A f \in Scan(folders) : InWorkspace(folders, f)
BY PathAssumption DEF Scan

-----------------------------------------------------------------------------
(* Type correctness and the consistency of the tables, proved together: an  *)
(* update keeps its tables well typed because they are consistent.          *)

TablesOK == TypeOK /\ TablesInv

LEMMA InitTablesOK == Init => TablesOK
<1> SUFFICES ASSUME Init PROVE TablesOK
  OBVIOUS
<1>1. TypeOK
  BY EmptyTablesConsistent DEF Init, TypeOK, Job, Generation
<1>2. TablesInv
  BY EmptyTablesConsistent DEF Init, TablesInv, Idle
<1> QED  BY <1>1, <1>2 DEF TablesOK

LEMMA CallTablesOK ==
  ASSUME TablesOK, Call
  PROVE  TablesOK'
<1> USE DEF TablesOK
<1>1. ASSUME NEW p \in Parsers, NEW folders \in SUBSET Folders, NEW docs \in Snapshot,
             UpdateParserConfig(p, folders, docs)
      PROVE  TablesOK'
  <2> DEFINE task == [kind |-> "rebuild", parser |-> p, gen |-> rebuildGen + 1,
                      folders |-> folders, docs |-> docs]
  <2>1. task \in Task
    BY DEF Task, RebuildTask, TypeOK, Snapshot, Generation
  <2>2. Append(queue, task) \in Seq(Task)
    BY <2>1, AppendTask
  <2>3. TypeOK'
    BY <1>1, <2>2 DEF UpdateParserConfig, TypeOK, Generation, Snapshot
  <2>4. TablesInv'
    BY <1>1 DEF UpdateParserConfig, TablesInv
  <2> QED  BY <2>3, <2>4
<1>2. ASSUME ClearParserConfig
      PROVE  TablesOK'
  <2>1. TypeOK'
    BY <1>2, EmptyTablesConsistent DEF ClearParserConfig, TypeOK, Generation
  <2>2. TablesInv'
    BY <1>2, EmptyTablesConsistent DEF ClearParserConfig, TablesInv
  <2> QED  BY <2>1, <2>2
<1>3. ASSUME NEW doc \in Document, ScheduleOpenDocumentUpdate(doc)
      PROVE  TablesOK'
  <2>1. ASSUME NeedsOpenUpdate(doc)
        PROVE  [kind |-> "open", doc |-> doc, parser |-> parserState] \in Task
    BY <2>1 DEF NeedsOpenUpdate, Task, OpenTask, TypeOK
  <2>2. TypeOK'
    BY <1>3, <2>1, AppendTask DEF ScheduleOpenDocumentUpdate, TypeOK, serviceVars
  <2>3. TablesInv'
    BY <1>3 DEF ScheduleOpenDocumentUpdate, TablesInv, serviceVars
  <2> QED  BY <2>2, <2>3
<1>4. ASSUME NEW uri \in Uris, ScheduleClosedDocumentRefresh(uri)
      PROVE  TablesOK'
  <2> DEFINE f == PathOf[uri]
             task == [kind |-> "close", file |-> f, parser |-> parserState]
  <2>1. f \in Files
    BY PathAssumption
  <2>2. CASE UNCHANGED <<tables, queue>>
    BY <1>4, <2>2 DEF ScheduleClosedDocumentRefresh, TypeOK, TablesInv
  <2>3. CASE /\ parserState # None
             /\ queue' = Append(queue, task)
             /\ UNCHANGED tables
    <3>1. task \in Task
      BY <2>1, <2>3 DEF Task, CloseTask, TypeOK
    <3>2. Append(queue, task) \in Seq(Task)
      BY <3>1, AppendTask
    <3> QED  BY <1>4, <2>3, <3>2 DEF ScheduleClosedDocumentRefresh, TypeOK, TablesInv
  <2>4. CASE tables' = EraseFile(tables, f) /\ UNCHANGED queue
    <3>1. tables' \in Tables /\ TablesConsistent(tables')
      BY <2>1, <2>4, EraseFileConsistent DEF TypeOK, TablesInv
    <3> QED  BY <1>4, <2>4, <3>1 DEF ScheduleClosedDocumentRefresh, TypeOK, TablesInv
  <2> QED  BY <1>4, <2>2, <2>3, <2>4 DEF ScheduleClosedDocumentRefresh
<1> QED  BY <1>1, <1>2, <1>3, <1>4 DEF Call

LEMMA PoolTablesOK ==
  ASSUME TablesOK, NEW w \in Workers, PoolStep(w)
  PROVE  TablesOK'
<1> USE DEF TablesOK
<1>0. job \in [Workers -> Job] /\ tables \in Tables /\ TablesConsistent(tables)
  BY DEF TypeOK, TablesInv
<1>1. CASE StartTask(w)
  <2>1. Head(queue) \in Task /\ Tail(queue) \in Seq(Task)
    BY <1>1 DEF StartTask, TypeOK
  <2>2. Head(queue) \in Job /\ Head(queue).kind # "building"
    BY <2>1 DEF Job, Task, RebuildTask, OpenTask, CloseTask
  <2>3. TypeOK'
    BY <1>0, <1>1, <2>1, <2>2 DEF StartTask, TypeOK, serviceVars
  <2>4. TablesInv'
    BY <1>0, <1>1, <2>2 DEF StartTask, TablesInv, serviceVars
  <2> QED  BY <2>3, <2>4
<1>2. CASE RebuildScan(w)
  <2> DEFINE new == [kind |-> "building", task |-> job[w],
                     todo |-> Scan(job[w].folders), built |-> EmptyTables]
  <2>1. new \in Building
    BY <1>2, JobKinds, ScanFiles, EmptyTablesConsistent DEF RebuildScan, Building
  <2>2. TablesConsistent(new.built)
    BY EmptyTablesConsistent
  <2>3. job' = [job EXCEPT ![w] = new] /\ UNCHANGED <<serviceVars, queue, disk, submitted>>
    BY <1>0, <1>2 DEF RebuildScan
  <2>4. new \in Job
    BY <2>1 DEF Job
  <2> HIDE DEF new
  <2>5. TypeOK'
    BY <1>0, <2>3, <2>4 DEF TypeOK, serviceVars
  <2>6. TablesInv'
    BY <1>0, <2>2, <2>3 DEF TablesInv, serviceVars
  <2> QED  BY <2>5, <2>6
<1>3. CASE RebuildIngest(w)
  <2>1. job[w] \in Building /\ TablesConsistent(job[w].built)
    BY <1>3, JobKinds DEF RebuildIngest, TablesInv
  <2>2. PICK f \in job[w].todo, tabs \in Tables :
          /\ TablesConsistent(tabs)
          /\ job' = [job EXCEPT ![w].todo = @ \ {f}, ![w].built = tabs]
    <3>0. PICK f \in job[w].todo :
            LET task == job[w].task
                snapshot == {d \in task.docs : d.uri = UriOf[f]}
                Ingest(tabs) == job' = [job EXCEPT ![w].todo = @ \ {f}, ![w].built = tabs]
            IN  \/ \E d \in snapshot :
                     Ingest(IngestOpen(job[w].built, f, task.parser, d.text, d.version))
                \/ /\ snapshot = {}
                   /\ \E text \in Loads(f), stamp \in TimestampRead :
                        Ingest(IF text \in {Absent, Unreadable} THEN job[w].built
                               ELSE IngestDisk(job[w].built, f, task.parser, text, stamp))
      BY <1>3 DEF RebuildIngest
    <3>1. /\ f \in Files /\ job[w].built \in Tables /\ job[w].task.parser \in Parsers
          /\ job[w].task.docs \subseteq Document
      BY <2>1 DEF Building, RebuildTask
    <3>2. ASSUME NEW d \in Document
          PROVE  /\ IngestOpen(job[w].built, f, job[w].task.parser, d.text, d.version) \in Tables
                 /\ TablesConsistent(
                      IngestOpen(job[w].built, f, job[w].task.parser, d.text, d.version))
      <4>1. d.text \in Texts /\ d.version \in Versions
        BY DocumentAssumption
      <4> QED  BY <2>1, <3>1, <4>1, IngestConsistent
    <3>3. ASSUME NEW text \in Loads(f), NEW stamp \in TimestampRead,
                 text \notin {Absent, Unreadable}
          PROVE  /\ IngestDisk(job[w].built, f, job[w].task.parser, text, stamp) \in Tables
                 /\ TablesConsistent(
                      IngestDisk(job[w].built, f, job[w].task.parser, text, stamp))
      <4>1. text \in Texts /\ stamp \in BOOLEAN
        BY <3>1, <3>3 DEF Loads, TimestampRead, TypeOK
      <4> QED  BY <2>1, <3>1, <4>1, IngestConsistent
    <3>4. CASE \E d \in {d \in job[w].task.docs : d.uri = UriOf[f]} :
                 job' = [job EXCEPT ![w].todo = @ \ {f}, ![w].built =
                   IngestOpen(job[w].built, f, job[w].task.parser, d.text, d.version)]
      BY <3>1, <3>2, <3>4
    <3>5. CASE \E text \in Loads(f), stamp \in TimestampRead :
                 job' = [job EXCEPT ![w].todo = @ \ {f}, ![w].built =
                   IF text \in {Absent, Unreadable} THEN job[w].built
                   ELSE IngestDisk(job[w].built, f, job[w].task.parser, text, stamp)]
      BY <2>1, <3>1, <3>3, <3>5
    <3> QED  BY <3>0, <3>4, <3>5
  <2> DEFINE new == [job[w] EXCEPT !.todo = @ \ {f}, !.built = tabs]
  <2>3. new \in Building /\ new.built = tabs
    BY <2>1 DEF Building
  <2>4. job' = [job EXCEPT ![w] = new] /\ UNCHANGED <<serviceVars, queue, disk, submitted>>
    BY <1>0, <1>3, <2>2 DEF RebuildIngest
  <2>5. new \in Job
    BY <2>3 DEF Job
  <2> HIDE DEF new
  <2>6. TypeOK'
    BY <1>0, <2>4, <2>5 DEF TypeOK, serviceVars
  <2>7. TablesInv'
    BY <1>0, <2>2, <2>3, <2>4 DEF TablesInv, serviceVars
  <2> QED  BY <2>6, <2>7
<1>4. CASE RebuildApply(w)
  <2>1. job[w] \in Building /\ TablesConsistent(job[w].built)
    BY <1>4, JobKinds DEF RebuildApply, TablesInv
  <2>2. /\ job[w].built \in Tables /\ job[w].task.folders \in SUBSET Folders
        /\ job[w].task.gen \in Generation
    BY <2>1 DEF Building, RebuildTask
  <2>3. /\ [kind |-> "notifying", gen |-> job[w].task.gen] \in Job
        /\ Idle \in Job /\ Idle.kind # "building"
    BY <2>2 DEF Job, Notifying, Idle
  <2>4. TypeOK'
    BY <1>0, <1>4, <2>2, <2>3 DEF RebuildApply, TypeOK
  <2>5. TablesInv'
    BY <1>0, <1>4, <2>1, <2>3 DEF RebuildApply, TablesInv
  <2> QED  BY <2>4, <2>5
<1>5. CASE RebuildFail(w) \/ NotifyIndexReady(w)
  <2>1. Idle \in Job /\ Idle.kind # "building"
    BY DEF Job, Idle
  <2>2. TypeOK'
    BY <1>0, <1>5, <2>1 DEF RebuildFail, NotifyIndexReady, TypeOK, serviceVars
  <2>3. TablesInv'
    BY <1>0, <1>5, <2>1 DEF RebuildFail, NotifyIndexReady, TablesInv, serviceVars
  <2> QED  BY <2>2, <2>3
<1>6. CASE OpenUpdateCommit(w)
  <2> DEFINE doc == job[w].doc
             f == PathOf[doc.uri]
             pairs == Pairs(job[w].parser, doc.text)
  <2>1. job[w] \in OpenTask
    BY <1>6, JobKinds DEF OpenUpdateCommit
  <2>2. f \in Files /\ doc.version \in Versions /\ pairs \in Seq(Lines)
    BY <2>1, PathAssumption, DocumentAssumption, PairsType DEF OpenTask
  <2>3. /\ tables' \in {tables, TagOpen(ReplaceDocument(tables, f, pairs), f, doc.version)}
        /\ job' = [job EXCEPT ![w] = Idle]
        /\ UNCHANGED <<roots, parserState, rebuildGen, appliedGen, queue, disk, submitted>>
    BY <1>6 DEF OpenUpdateCommit
  <2>4. tables' \in Tables /\ TablesConsistent(tables')
    <3> HIDE DEF f, doc, pairs
    <3> QED  BY <1>0, <2>2, <2>3, ReplaceDocumentConsistent, TagConsistent
  <2>5. Idle \in Job /\ Idle.kind # "building"
    BY DEF Job, Idle
  <2>6. TypeOK'
    BY <1>0, <2>3, <2>4, <2>5 DEF TypeOK
  <2>7. TablesInv'
    BY <1>0, <2>3, <2>4, <2>5 DEF TablesInv
  <2> QED  BY <2>6, <2>7
<1>7. CASE ClosedRefreshRead(w)
  <2>1. job[w] \in CloseTask /\ job[w].file \in Files
    BY <1>7, JobKinds DEF ClosedRefreshRead, CloseTask
  <2>2. PICK text : /\ text \in Texts \cup {Absent, Unreadable}
                    /\ job' = [job EXCEPT ![w] =
                                 [kind |-> "refreshing", task |-> job[w], read |-> text]]
    BY <1>7, <2>1 DEF ClosedRefreshRead, Loads, TypeOK
  <2>3. [kind |-> "refreshing", task |-> job[w], read |-> text] \in Job
    BY <2>1, <2>2 DEF Job, Refreshing
  <2>4. TypeOK'
    BY <1>0, <1>7, <2>2, <2>3 DEF ClosedRefreshRead, TypeOK, serviceVars
  <2>5. TablesInv'
    BY <1>0, <1>7, <2>2 DEF ClosedRefreshRead, TablesInv, serviceVars
  <2> QED  BY <2>4, <2>5
<1>8. CASE ClosedRefreshCommit(w)
  <2> DEFINE task == job[w].task
             f == task.file
             pairs == Pairs(task.parser, job[w].read)
  <2>1. job[w] \in Refreshing
    BY <1>8, JobKinds DEF ClosedRefreshCommit
  <2>2. f \in Files /\ task.parser \in Parsers
    BY <2>1 DEF Refreshing, CloseTask
  <2>3. PICK stamp \in BOOLEAN :
          \/ tables' = tables
          \/ tables' = EraseFile(tables, f)
          \/ /\ job[w].read \notin {Absent, Unreadable}
             /\ tables' = TagDisk(ReplaceDocument(tables, f, pairs), f, stamp)
    BY <1>8 DEF ClosedRefreshCommit, TimestampRead
  <2>4. tables' \in Tables /\ TablesConsistent(tables')
    <3>1. CASE tables' = tables
      BY <1>0, <3>1
    <3>2. CASE tables' = EraseFile(tables, f)
      BY <1>0, <2>2, <3>2, EraseFileConsistent
    <3>3. CASE /\ job[w].read \notin {Absent, Unreadable}
               /\ tables' = TagDisk(ReplaceDocument(tables, f, pairs), f, stamp)
      <4>1. pairs \in Seq(Lines)
        BY <2>1, <2>2, <3>3, PairsType DEF Refreshing
      <4> HIDE DEF pairs, f
      <4> QED  BY <1>0, <2>2, <3>3, <4>1, ReplaceDocumentConsistent, TagConsistent
    <3> QED  BY <2>3, <3>1, <3>2, <3>3
  <2>5. Idle \in Job /\ Idle.kind # "building"
    BY DEF Job, Idle
  <2>6. TypeOK'
    BY <1>0, <1>8, <2>4, <2>5 DEF ClosedRefreshCommit, TypeOK
  <2>7. TablesInv'
    BY <1>0, <1>8, <2>4, <2>5 DEF ClosedRefreshCommit, TablesInv
  <2> QED  BY <2>6, <2>7
<1> QED
  BY <1>1, <1>2, <1>3, <1>4, <1>5, <1>6, <1>7, <1>8 DEF PoolStep

LEMMA StepTablesOK == TablesOK /\ [Next]_vars => TablesOK'
<1> SUFFICES ASSUME TablesOK, [Next]_vars PROVE TablesOK'
  OBVIOUS
<1>1. CASE Call
  BY <1>1, CallTablesOK
<1>2. CASE \E w \in Workers : PoolStep(w)
  BY <1>2, PoolTablesOK
<1>3. ASSUME NEW f \in Files, NEW text \in Texts \cup {Absent}, DiskChange(f, text)
      PROVE  TablesOK'
  BY <1>3 DEF DiskChange, TablesOK, TypeOK, TablesInv, serviceVars, poolVars
<1>4. CASE UNCHANGED vars
  BY <1>4 DEF vars, TablesOK, TypeOK, TablesInv, serviceVars, poolVars
<1> QED  BY <1>1, <1>2, <1>3, <1>4 DEF Next

\* Every variable keeps its type: the state the members of CrossrefService and
\* the tasks of the pool can be in.
THEOREM TypeCorrect == Spec => []TypeOK
<1>1. TablesOK => TypeOK
  BY DEF TablesOK
<1> QED  BY <1>1, InitTablesOK, StepTablesOK, PTL DEF Spec

\* The line tables agree with each other at every instant, in the service and
\* in every rebuild under way.
THEOREM TablesAlwaysConsistent == Spec => []TablesInv
<1>1. TablesOK => TablesInv
  BY DEF TablesOK
<1> QED  BY <1>1, InitTablesOK, StepTablesOK, PTL DEF Spec

-----------------------------------------------------------------------------
(* What the tables contain. *)

\* t2 is t with the lines of f replaced by those p extracts from text.
Installs(t2, t, f, p, text) ==
  /\ Shows(t2, f, p, text)
  /\ \A g \in Files \ {f} : /\ FileLines(t2, g) = FileLines(t, g)
                            /\ t2.versions[g] = t.versions[g]
  /\ t2.nextId >= t.nextId
  /\ t2.indexed = t.indexed \cup {f}

\* Entering the pairs of a file that has no line installs its document.
LEMMA AddInstalls ==
  ASSUME NEW t \in Tables, NEW f \in Files, NEW p \in Parsers, NEW text \in Texts,
         FileLines(t, f) = {}
  PROVE  Installs(AddLines(t, f, Pairs(p, text)), t, f, p, text)
<1> DEFINE pairs == Pairs(p, text)
           new == {[id |-> t.nextId + k - 1, file |-> f, line |-> pairs[k]] :
                     k \in 1 .. Len(pairs)}
           e == AddLines(t, f, pairs)
<1>1. pairs \in Seq(Lines) /\ Len(pairs) \in Nat
  BY PairsType
<1>2. /\ e.infos = t.infos \cup new /\ e.versions = t.versions
      /\ e.indexed = t.indexed \cup {f} /\ e.nextId = t.nextId + Len(pairs)
  BY DEF AddLines
<1>3. t.nextId \in 1 .. e.nextId /\ e.nextId >= t.nextId
  BY <1>1, <1>2 DEF Tables, LineId
<1>4. \A info \in new : info.file = f
  OBVIOUS
<1>5. FileLines(e, f) = new
  <2> HIDE DEF new, e
  <2> QED  BY <1>2, <1>4 DEF FileLines
<1>6. \A g \in Files \ {f} : FileLines(e, g) = FileLines(t, g)
  <2> HIDE DEF new, e
  <2> QED  BY <1>2, <1>4 DEF FileLines
<1>7. Shows(e, f, p, text)
  <2>1. FileLines(e, f) =
          {[id |-> t.nextId + k - 1, file |-> f, line |-> Pairs(p, text)[k]] :
             k \in 1 .. Len(Pairs(p, text))}
    BY <1>5
  <2> HIDE DEF e
  <2> QED  BY <1>3, <2>1 DEF Shows
<1> QED  BY <1>2, <1>3, <1>6, <1>7 DEF Installs

\* Erasing a file removes its lines and leaves those of every other file.
LEMMA EraseRemoves ==
  ASSUME NEW t \in Tables, NEW f \in Files, TablesConsistent(t)
  PROVE  /\ FileLines(EraseFile(t, f), f) = {}
         /\ \A g \in Files \ {f} : FileLines(EraseFile(t, f), g) = FileLines(t, g)
         /\ \A g \in Files \ {f} : EraseFile(t, f).versions[g] = t.versions[g]
         /\ EraseFile(t, f).versions[f] = None
         /\ EraseFile(t, f).nextId = t.nextId
         /\ EraseFile(t, f).indexed = t.indexed \ {f}
<1> DEFINE e == EraseFile(t, f)
<1>1. e.infos = {info \in t.infos : info.id \notin t.fileIds[f]}
  BY DEF EraseFile
<1>2. \A info \in t.infos : info.id \in t.fileIds[f] <=> info.file = f
  BY DEF TablesConsistent, FileLines
<1>3. FileLines(e, f) = {}
  BY <1>1, <1>2 DEF FileLines
<1>4. \A g \in Files \ {f} : FileLines(e, g) = FileLines(t, g)
  BY <1>1, <1>2 DEF FileLines
<1>5. e.versions = [t.versions EXCEPT ![f] = None]
  BY DEF EraseFile
<1>6. /\ \A g \in Files \ {f} : e.versions[g] = t.versions[g]
      /\ e.versions[f] = None
  BY <1>5 DEF Tables
<1> QED  BY <1>3, <1>4, <1>6 DEF EraseFile

\* replace_document_unlocked installs the document.
LEMMA ReplaceInstalls ==
  ASSUME NEW t \in Tables, NEW f \in Files, NEW p \in Parsers, NEW text \in Texts,
         TablesConsistent(t)
  PROVE  Installs(ReplaceDocument(t, f, Pairs(p, text)), t, f, p, text)
<1> DEFINE e == EraseFile(t, f)
           r == AddLines(e, f, Pairs(p, text))
<1>1. e \in Tables
  BY EraseFileConsistent
<1>2. FileLines(e, f) = {}
  BY EraseRemoves
<1>3. Installs(r, e, f, p, text)
  BY <1>1, <1>2, AddInstalls
<1>4. /\ \A g \in Files \ {f} : /\ FileLines(e, g) = FileLines(t, g)
                                 /\ e.versions[g] = t.versions[g]
      /\ e.nextId = t.nextId
      /\ e.indexed = t.indexed \ {f}
  BY EraseRemoves
<1>5. r = ReplaceDocument(t, f, Pairs(p, text))
  BY DEF ReplaceDocument
<1> HIDE DEF e, r
<1>6. Installs(r, t, f, p, text)
  BY <1>3, <1>4 DEF Installs
<1> QED  BY <1>5, <1>6

\* Tagging a file with its open version changes no line.
LEMMA TagOpenInstalls ==
  ASSUME NEW t \in Tables, NEW t2 \in Tables, NEW f \in Files, NEW p, NEW text,
         Installs(t2, t, f, p, text), NEW v \in Versions
  PROVE  /\ Installs(TagOpen(t2, f, v), t, f, p, text)
         /\ TagOpen(t2, f, v).versions[f] = v
BY DEF Installs, TagOpen, Tables, Shows, FileLines

\* Tagging a file as read from disk changes no line.
LEMMA TagDiskInstalls ==
  ASSUME NEW t \in Tables, NEW t2 \in Tables, NEW f \in Files, NEW p, NEW text,
         Installs(t2, t, f, p, text), NEW s \in BOOLEAN
  PROVE  /\ Installs(TagDisk(t2, f, s), t, f, p, text)
         /\ TagDisk(t2, f, s).versions[f] = None
BY DEF Installs, TagDisk, Tables, Shows, FileLines

-----------------------------------------------------------------------------
(* The inductive invariant. *)

\* Every file of t shows a text under one of the parsers P, and its version
\* is that of one of the documents docs.
Content(t, P, docs) ==
  \A f \in Files :
    /\ FileLines(t, f) # {} => \E p \in P, text \in Texts : Shows(t, f, p, text)
    /\ t.versions[f] # None =>
         \E d \in docs, p \in P :
           /\ PathOf[d.uri] = f
           /\ d.version = t.versions[f]
           /\ Shows(t, f, p, d.text)

\* A task, or a job, was handed its documents by the caller.
Known(task, docs) ==
  /\ task.kind = "rebuild" => task.docs \subseteq docs
  /\ task.kind = "building" => task.task.docs \subseteq docs
  /\ task.kind = "open" => task.doc \in docs

\* The tables a rebuild has filled so far: documents of its parser, no line yet
\* of a file still to come, files of its folders only.
BuiltWell(j, docs) ==
  /\ Content(j.built, {j.task.parser}, docs)
  /\ \A f \in j.todo : FileLines(j.built, f) = {} /\ InWorkspace(j.task.folders, f)
  /\ \A f \in j.built.indexed : InWorkspace(j.task.folders, f)

WellQueued(q, docs) == \A i \in 1 .. Len(q) : Known(q[i], docs)

WellDone(j, docs) ==
  \A w \in Workers : /\ Known(j[w], docs)
                     /\ j[w].kind = "building" => BuiltWell(j[w], docs)

ContentInv ==
  /\ appliedGen <= rebuildGen
  /\ Content(tables, Parsers, submitted)
  /\ appliedGen = rebuildGen => Content(tables, Parsers \cap {parserState}, submitted)
  /\ IndexedWithinWorkspace
  /\ WellQueued(queue, submitted)
  /\ WellDone(job, submitted)

\* A step that leaves the lines of a file alone leaves what they show.
LEMMA ShowsFrame ==
  ASSUME NEW t \in Tables, NEW t2 \in Tables, NEW g, NEW p, NEW text,
         FileLines(t2, g) = FileLines(t, g), t2.nextId >= t.nextId,
         Shows(t, g, p, text)
  PROVE  Shows(t2, g, p, text)
<1>1. PICK first \in 1 .. t.nextId : FileLines(t, g) =
        {[id |-> first + k - 1, file |-> g, line |-> Pairs(p, text)[k]] :
           k \in 1 .. Len(Pairs(p, text))}
  BY DEF Shows
<1>2. first \in 1 .. t2.nextId
  BY DEF Tables, LineId
<1> QED  BY <1>1, <1>2 DEF Shows

\* Installing a document of one of the parsers keeps the content of the tables.
LEMMA InstallContent ==
  ASSUME NEW t \in Tables, NEW t2 \in Tables, NEW f \in Files, NEW P, NEW docs, NEW p \in P,
         NEW text \in Texts, Content(t, P, docs), Installs(t2, t, f, p, text),
         t2.versions[f] # None =>
           \E d \in docs : /\ PathOf[d.uri] = f
                                /\ d.version = t2.versions[f]
                                /\ d.text = text
  PROVE  Content(t2, P, docs)
<1> SUFFICES ASSUME NEW g \in Files
             PROVE  /\ FileLines(t2, g) # {} =>
                         \E q \in P, x \in Texts : Shows(t2, g, q, x)
                    /\ t2.versions[g] # None =>
                         \E d \in docs, q \in P :
                           /\ PathOf[d.uri] = g
                           /\ d.version = t2.versions[g]
                           /\ Shows(t2, g, q, d.text)
  BY DEF Content
<1>1. CASE g = f
  BY <1>1 DEF Installs
<1>2. CASE g # f
  <2>1. /\ FileLines(t2, g) = FileLines(t, g) /\ t2.versions[g] = t.versions[g]
        /\ t2.nextId >= t.nextId
    BY <1>2 DEF Installs
  <2>2. \A q, x : Shows(t, g, q, x) => Shows(t2, g, q, x)
    BY <2>1, ShowsFrame
  <2> QED  BY <2>1, <2>2 DEF Content
<1> QED  BY <1>1, <1>2

\* Erasing a file keeps the content of the tables.
LEMMA EraseContent ==
  ASSUME NEW t \in Tables, NEW f \in Files, NEW P, NEW docs, TablesConsistent(t), Content(t, P, docs)
  PROVE  Content(EraseFile(t, f), P, docs)
<1> DEFINE e == EraseFile(t, f)
<1>1. e \in Tables /\ e.nextId = t.nextId
  BY EraseFileConsistent, EraseRemoves
<1>2. FileLines(e, f) = {} /\ e.versions[f] = None
  BY EraseRemoves
<1>3. \A g \in Files \ {f} : FileLines(e, g) = FileLines(t, g) /\ e.versions[g] = t.versions[g]
  BY EraseRemoves
<1>4. t.nextId \in Nat
  BY DEF Tables, LineId
<1> HIDE DEF e
<1>5. ASSUME NEW g \in Files \ {f}, NEW q, NEW x, Shows(t, g, q, x)
      PROVE  Shows(e, g, q, x)
  <2>1. FileLines(e, g) = FileLines(t, g) /\ e.nextId >= t.nextId
    BY <1>1, <1>3, <1>4
  <2> QED  BY <1>1, <1>5, <2>1, ShowsFrame
<1>6. ASSUME NEW g \in Files
      PROVE  /\ FileLines(e, g) # {} => \E p \in P, text \in Texts : Shows(e, g, p, text)
             /\ e.versions[g] # None =>
                  \E d \in docs, p \in P :
                    /\ PathOf[d.uri] = g
                    /\ d.version = e.versions[g]
                    /\ Shows(e, g, p, d.text)
  <2>1. CASE g = f
    BY <1>2, <2>1
  <2>2. CASE g # f
    BY <1>3, <1>5, <2>2 DEF Content
  <2> QED  BY <2>1, <2>2
<1>7. Content(e, P, docs)
  BY <1>6 DEF Content
<1> QED  BY <1>7 DEF e

LEMMA EmptyContent == ASSUME NEW P, NEW docs PROVE Content(EmptyTables, P, docs)
BY DEF Content, EmptyTables, FileLines

\* More snapshots handed in only name more.
LEMMA ContentMonotone ==
  ASSUME NEW docs, NEW docs2, docs \subseteq docs2
  PROVE  /\ \A t, P : Content(t, P, docs) => Content(t, P, docs2)
         /\ \A q : WellQueued(q, docs) => WellQueued(q, docs2)
         /\ \A j : WellDone(j, docs) => WellDone(j, docs2)
<1>1. \A t, P : Content(t, P, docs) => Content(t, P, docs2)
  BY DEF Content
<1>2. \A task : Known(task, docs) => Known(task, docs2)
  BY DEF Known
<1>3. \A j : BuiltWell(j, docs) => BuiltWell(j, docs2)
  BY <1>1 DEF BuiltWell
<1> QED  BY <1>1, <1>2, <1>3 DEF WellQueued, WellDone

\* A post keeps the queue known.
LEMMA PostKnown ==
  ASSUME NEW q \in Seq(Task), NEW docs, NEW task \in Task,
         WellQueued(q, docs), Known(task, docs)
  PROVE  WellQueued(Append(q, task), docs)
<1>1. ASSUME NEW i \in 1 .. Len(Append(q, task))
      PROVE  Append(q, task)[i] = task \/ (i \in 1 .. Len(q) /\ Append(q, task)[i] = q[i])
  OBVIOUS
<1> QED  BY <1>1 DEF WellQueued

-----------------------------------------------------------------------------
(* Initiation and consecution. *)

LEMMA InitContent == Init => ContentInv
<1> SUFFICES ASSUME Init PROVE ContentInv
  OBVIOUS
<1>1. WellDone(job, submitted)
  BY DEF Init, WellDone, Known, Idle
<1>2. IndexedWithinWorkspace
  BY DEF Init, IndexedWithinWorkspace, EmptyTables
<1>3. WellQueued(queue, submitted)
  BY DEF Init, WellQueued
<1> QED  BY <1>1, <1>2, <1>3, EmptyContent DEF Init, ContentInv

LEMMA CallContent ==
  ASSUME TablesOK, ContentInv, Call
  PROVE  ContentInv'
<1>0. /\ TypeOK /\ TablesConsistent(tables) /\ tables \in Tables
      /\ queue \in Seq(Task) /\ rebuildGen \in Nat /\ appliedGen \in Nat
  BY DEF TablesOK, TypeOK, TablesInv, Generation
<1>1. ASSUME NEW p \in Parsers, NEW folders \in SUBSET Folders, NEW docs \in Snapshot,
             UpdateParserConfig(p, folders, docs)
      PROVE  ContentInv'
  <2> DEFINE task == [kind |-> "rebuild", parser |-> p, gen |-> rebuildGen + 1,
                      folders |-> folders, docs |-> docs]
  <2>1. /\ submitted' = submitted \cup docs
        /\ UNCHANGED <<tables, roots, appliedGen, job>>
    BY <1>1 DEF UpdateParserConfig
  <2>2. task \in Task
    BY <1>0 DEF Task, RebuildTask, TypeOK, Snapshot, Generation
  <2>3. Known(task, submitted')
    BY <2>1 DEF Known
  <2>4. \/ UNCHANGED <<parserState, rebuildGen, queue>>
        \/ rebuildGen' = rebuildGen + 1 /\ queue' = Append(queue, task)
    BY <1>1 DEF UpdateParserConfig
  <2> HIDE DEF task
  <2>5. WellQueued(queue, submitted') /\ WellDone(job, submitted')
    BY <2>1, ContentMonotone DEF ContentInv
  <2>6. WellQueued(queue', submitted') /\ WellDone(job', submitted')
    BY <1>0, <2>1, <2>2, <2>3, <2>4, <2>5, PostKnown
  <2>7. Content(tables', Parsers, submitted') /\ IndexedWithinWorkspace'
    BY <2>1, ContentMonotone DEF ContentInv, IndexedWithinWorkspace
  <2>8. /\ appliedGen' <= rebuildGen'
        /\ appliedGen' = rebuildGen' =>
             Content(tables', Parsers \cap {parserState'}, submitted')
    <3>1. CASE UNCHANGED <<parserState, rebuildGen>>
      BY <2>1, <3>1, ContentMonotone DEF ContentInv
    <3>2. CASE rebuildGen' = rebuildGen + 1
      BY <1>0, <2>1, <3>2 DEF ContentInv
    <3> QED  BY <2>4, <3>1, <3>2
  <2> QED  BY <2>6, <2>7, <2>8 DEF ContentInv
<1>2. ASSUME ClearParserConfig
      PROVE  ContentInv'
  <2>1. /\ Content(tables', Parsers, submitted')
        /\ Content(tables', Parsers \cap {parserState'}, submitted')
    BY <1>2, EmptyContent DEF ClearParserConfig
  <2>2. IndexedWithinWorkspace'
    BY <1>2 DEF ClearParserConfig, IndexedWithinWorkspace, EmptyTables
  <2>3. appliedGen' <= rebuildGen'
    BY <1>0, <1>2 DEF ClearParserConfig
  <2>4. WellQueued(queue', submitted') /\ WellDone(job', submitted')
    BY <1>2 DEF ClearParserConfig, ContentInv
  <2> QED  BY <2>1, <2>2, <2>3, <2>4 DEF ContentInv
<1>3. ASSUME NEW doc \in Document, ScheduleOpenDocumentUpdate(doc)
      PROVE  ContentInv'
  <2> DEFINE task == [kind |-> "open", doc |-> doc, parser |-> parserState]
  <2>1. /\ submitted' = submitted \cup {doc}
        /\ UNCHANGED <<tables, roots, parserState, rebuildGen, appliedGen, job>>
        /\ queue' = IF NeedsOpenUpdate(doc) THEN Append(queue, task) ELSE queue
    BY <1>3 DEF ScheduleOpenDocumentUpdate, serviceVars
  <2>2. NeedsOpenUpdate(doc) => task \in Task
    BY <1>0 DEF NeedsOpenUpdate, Task, OpenTask, TypeOK
  <2>3. Known(task, submitted')
    BY <2>1 DEF Known
  <2> HIDE DEF task
  <2>4. WellQueued(queue, submitted') /\ WellDone(job', submitted')
    BY <2>1, ContentMonotone DEF ContentInv
  <2>5. WellQueued(queue', submitted')
    BY <1>0, <2>1, <2>2, <2>3, <2>4, PostKnown
  <2>6. /\ appliedGen' <= rebuildGen'
        /\ Content(tables', Parsers, submitted')
        /\ appliedGen' = rebuildGen' =>
             Content(tables', Parsers \cap {parserState'}, submitted')
        /\ IndexedWithinWorkspace'
    BY <2>1, ContentMonotone DEF ContentInv, IndexedWithinWorkspace
  <2> QED  BY <2>4, <2>5, <2>6 DEF ContentInv
<1>4. ASSUME NEW uri \in Uris, ScheduleClosedDocumentRefresh(uri)
      PROVE  ContentInv'
  <2> DEFINE f == PathOf[uri]
             task == [kind |-> "close", file |-> f, parser |-> parserState]
  <2>1. UNCHANGED <<roots, parserState, rebuildGen, appliedGen, job, submitted>>
    BY <1>4 DEF ScheduleClosedDocumentRefresh
  <2>2. \/ UNCHANGED <<tables, queue>>
        \/ parserState # None /\ queue' = Append(queue, task) /\ UNCHANGED tables
        \/ tables' = EraseFile(tables, f) /\ UNCHANGED queue
    BY <1>4 DEF ScheduleClosedDocumentRefresh
  <2>3. f \in Files
    BY PathAssumption
  <2>4. parserState # None => task \in Task /\ Known(task, submitted)
    BY <1>0, <2>3 DEF Task, CloseTask, TypeOK, Known
  <2> HIDE DEF task, f
  <2>5. WellQueued(queue', submitted') /\ WellDone(job', submitted')
    BY <1>0, <2>1, <2>2, <2>4, PostKnown DEF ContentInv
  <2>6. CASE UNCHANGED tables
    BY <2>1, <2>5, <2>6 DEF ContentInv, IndexedWithinWorkspace
  <2>7. CASE tables' = EraseFile(tables, f)
    <3>1. /\ Content(tables', Parsers, submitted')
          /\ appliedGen' = rebuildGen' =>
               Content(tables', Parsers \cap {parserState'}, submitted')
      BY <1>0, <2>1, <2>3, <2>7, EraseContent DEF ContentInv
    <3>2. IndexedWithinWorkspace'
      BY <2>1, <2>7 DEF ContentInv, IndexedWithinWorkspace, EraseFile
    <3> QED  BY <2>1, <2>5, <3>1, <3>2 DEF ContentInv
  <2> QED  BY <2>2, <2>6, <2>7
<1> QED  BY <1>1, <1>2, <1>3, <1>4 DEF Call

\* A thread takes up a job of its own and the others go on with theirs.
LEMMA JobStep ==
  ASSUME TablesOK, NEW w \in Workers, NEW j, NEW docs, WellDone(job, docs),
         job' = [job EXCEPT ![w] = j],
         Known(j, docs), j.kind = "building" => BuiltWell(j, docs)
  PROVE  WellDone(job', docs)
<1>1. job \in [Workers -> Job]
  BY DEF TablesOK, TypeOK
<1> QED  BY <1>1 DEF WellDone

\* Nothing is asked of an idle thread.
LEMMA IdleStep ==
  ASSUME TablesOK, NEW w \in Workers, NEW docs, WellDone(job, docs),
         job' = [job EXCEPT ![w] = Idle]
  PROVE  WellDone(job', docs)
<1>1. Known(Idle, docs) /\ Idle.kind # "building"
  BY DEF Known, Idle
<1> QED  BY <1>1, JobStep

\* One turn of the ingest loop keeps the tables of the rebuild well built.
LEMMA IngestWell ==
  ASSUME NEW j \in Building, NEW docs, TablesConsistent(j.built), BuiltWell(j, docs),
         NEW f \in j.todo, NEW t2 \in Tables,
         \/ t2 = j.built
         \/ \E text \in Texts :
              /\ Installs(t2, j.built, f, j.task.parser, text)
              /\ t2.versions[f] # None =>
                   \E d \in docs : /\ PathOf[d.uri] = f
                                   /\ d.version = t2.versions[f]
                                   /\ d.text = text
  PROVE  BuiltWell([j EXCEPT !.todo = @ \ {f}, !.built = t2], docs)
<1> DEFINE n == [j EXCEPT !.todo = @ \ {f}, !.built = t2]
<1>1. /\ j.built \in Tables /\ j.todo \subseteq Files
      /\ n.built = t2 /\ n.todo = j.todo \ {f} /\ n.task = j.task
  BY DEF Building
<1>2. CASE t2 = j.built
  BY <1>1, <1>2 DEF BuiltWell
<1>3. ASSUME NEW text \in Texts, Installs(t2, j.built, f, j.task.parser, text),
             t2.versions[f] # None =>
               \E d \in docs : /\ PathOf[d.uri] = f
                               /\ d.version = t2.versions[f]
                               /\ d.text = text
      PROVE  BuiltWell(n, docs)
  <2>1. Content(t2, {j.task.parser}, docs)
    BY <1>1, <1>3, InstallContent DEF BuiltWell
  <2>2. \A g \in j.todo \ {f} : FileLines(t2, g) = {} /\ InWorkspace(j.task.folders, g)
    BY <1>1, <1>3 DEF BuiltWell, Installs
  <2>3. \A g \in t2.indexed : InWorkspace(j.task.folders, g)
    BY <1>3 DEF BuiltWell, Installs
  <2> QED  BY <1>1, <2>1, <2>2, <2>3 DEF BuiltWell
<1> QED  BY <1>2, <1>3

LEMMA IngestStepContent ==
  ASSUME TablesOK, ContentInv, NEW w \in Workers, RebuildIngest(w)
  PROVE  WellDone(job', submitted)
<1> DEFINE j == job[w]
           p == j.task.parser
<1>1. j \in Building /\ TablesConsistent(j.built) /\ BuiltWell(j, submitted)
  BY JobKinds DEF RebuildIngest, TablesOK, TablesInv, ContentInv, WellDone
<1>2. /\ job \in [Workers -> Job] /\ Known(j, submitted) /\ WellDone(job, submitted)
      /\ disk \in [Files -> Texts \cup {Absent}]
  BY DEF TablesOK, TypeOK, ContentInv, WellDone
<1>3. /\ j.built \in Tables /\ j.todo \subseteq Files /\ p \in Parsers
      /\ j.kind = "building" /\ j.task.docs \subseteq submitted
      /\ j.task.docs \subseteq Document
  BY <1>1, <1>2 DEF Building, RebuildTask, Known
<1>4. ASSUME NEW f \in j.todo, NEW t2 \in Tables,
             job' = [job EXCEPT ![w].todo = @ \ {f}, ![w].built = t2],
             \/ t2 = j.built
             \/ \E text \in Texts :
                  /\ Installs(t2, j.built, f, p, text)
                  /\ t2.versions[f] # None =>
                       \E d \in submitted : /\ PathOf[d.uri] = f
                                            /\ d.version = t2.versions[f]
                                            /\ d.text = text
      PROVE  WellDone(job', submitted)
  <2> DEFINE n == [j EXCEPT !.todo = @ \ {f}, !.built = t2]
  <2>1. BuiltWell(n, submitted)
    BY <1>1, <1>4, IngestWell
  <2>2. job' = [job EXCEPT ![w] = n]
    BY <1>2, <1>4
  <2>3. Known(n, submitted)
    BY <1>1, <1>2 DEF Known, Building
  <2> HIDE DEF n
  <2> QED  BY <1>2, <2>1, <2>2, <2>3, JobStep
<1>5. ASSUME NEW f \in j.todo, NEW text \in Texts, Parses(p, text)
      PROVE  LET added == AddLines(j.built, f, Pairs(p, text))
             IN  /\ added \in Tables /\ TablesConsistent(added)
                 /\ Installs(added, j.built, f, p, text)
  <2>1. FileLines(j.built, f) = {}
    BY <1>1 DEF BuiltWell
  <2> QED  BY <1>1, <1>3, <2>1, PairsType, AddLinesConsistent, AddInstalls
<1>6. ASSUME NEW f \in j.todo, NEW d \in j.task.docs, d.uri = UriOf[f],
             job' = [job EXCEPT ![w].todo = @ \ {f},
                                ![w].built = IngestOpen(j.built, f, p, d.text, d.version)]
      PROVE  WellDone(job', submitted)
  <2> DEFINE t2 == IngestOpen(j.built, f, p, d.text, d.version)
             added == AddLines(j.built, f, Pairs(p, d.text))
  <2>1. /\ d.text \in Texts /\ d.version \in Versions /\ d \in submitted
        /\ PathOf[d.uri] = f
    BY <1>3, <1>6, DocumentAssumption, PathAssumption
  <2>2. t2 \in Tables
    BY <1>1, <1>3, <2>1, IngestConsistent
  <2>3. CASE ~Parses(p, d.text)
    <3>1. t2 = j.built
      BY <2>3 DEF IngestOpen
    <3> QED  BY <1>4, <1>6, <2>2, <3>1
  <2>4. CASE Parses(p, d.text)
    <3>1. t2 = TagOpen(added, f, d.version)
      BY <2>4 DEF IngestOpen
    <3>2. added \in Tables /\ Installs(added, j.built, f, p, d.text)
      BY <1>5, <2>1, <2>4
    <3> HIDE DEF added
    <3>3. Installs(t2, j.built, f, p, d.text) /\ t2.versions[f] = d.version
      BY <1>3, <2>1, <3>1, <3>2, TagOpenInstalls
    <3> HIDE DEF t2
    <3>4. job' = [job EXCEPT ![w].todo = @ \ {f}, ![w].built = t2]
      BY <1>6 DEF t2
    <3> QED  BY <1>4, <2>1, <2>2, <3>3, <3>4
  <2> QED  BY <2>3, <2>4
<1>7. ASSUME NEW f \in j.todo, NEW text \in Loads(f), NEW stamp \in TimestampRead,
             job' = [job EXCEPT ![w].todo = @ \ {f}, ![w].built =
                       IF text \in {Absent, Unreadable} THEN j.built
                       ELSE IngestDisk(j.built, f, p, text, stamp)]
      PROVE  WellDone(job', submitted)
  <2> DEFINE t2 == IngestDisk(j.built, f, p, text, stamp)
             added == AddLines(j.built, f, Pairs(p, text))
  <2>1. CASE text \in {Absent, Unreadable}
    BY <1>3, <1>4, <1>7, <2>1
  <2>2. CASE text \notin {Absent, Unreadable}
    <3>1. text \in Texts /\ stamp \in BOOLEAN
      BY <1>2, <1>3, <2>2 DEF Loads, TimestampRead
    <3>2. t2 \in Tables
      BY <1>1, <1>3, <3>1, IngestConsistent
    <3>3. CASE ~Parses(p, text)
      <4>1. t2 = j.built
        BY <3>3 DEF IngestDisk
      <4> QED  BY <1>4, <1>7, <2>2, <3>2, <4>1
    <3>4. CASE Parses(p, text)
      <4>1. t2 = TagDisk(added, f, stamp)
        BY <3>4 DEF IngestDisk
      <4>2. added \in Tables /\ Installs(added, j.built, f, p, text)
        BY <1>5, <3>1, <3>4
      <4> HIDE DEF added
      <4>3. Installs(t2, j.built, f, p, text) /\ t2.versions[f] = None
        BY <1>3, <3>1, <4>1, <4>2, TagDiskInstalls
      <4> HIDE DEF t2
      <4>4. job' = [job EXCEPT ![w].todo = @ \ {f}, ![w].built = t2]
        BY <1>7, <2>2 DEF t2
      <4> QED  BY <1>4, <3>1, <3>2, <4>3, <4>4
    <3> QED  BY <3>3, <3>4
  <2> QED  BY <2>1, <2>2
<1> QED  BY <1>6, <1>7 DEF RebuildIngest

\* A step that changes only the queue and the jobs keeps what the tables show.
LEMMA OtherStep ==
  ASSUME ContentInv, UNCHANGED <<serviceVars, submitted>>,
         WellQueued(queue', submitted), WellDone(job', submitted)
  PROVE  ContentInv'
BY DEF ContentInv, IndexedWithinWorkspace, serviceVars

\* A commit on the tables of the running configuration keeps what they show.
LEMMA CommitStep ==
  ASSUME TablesOK, ContentInv, NEW f \in Files, NEW text \in Texts,
         parserState \in Parsers, InWorkspace(roots, f),
         UNCHANGED <<roots, parserState, rebuildGen, appliedGen, queue, submitted>>,
         WellDone(job', submitted), tables' \in Tables,
         Installs(tables', tables, f, parserState, text),
         tables'.versions[f] # None =>
           \E d \in submitted : /\ PathOf[d.uri] = f
                                /\ d.version = tables'.versions[f]
                                /\ d.text = text
  PROVE  ContentInv'
<1>1. tables \in Tables
  BY DEF TablesOK, TypeOK
<1>2. Content(tables', Parsers, submitted)
  BY <1>1, InstallContent DEF ContentInv
<1>3. appliedGen = rebuildGen => Content(tables', Parsers \cap {parserState}, submitted)
  BY <1>1, InstallContent DEF ContentInv
<1>4. IndexedWithinWorkspace'
  BY DEF ContentInv, IndexedWithinWorkspace, Installs
<1> QED  BY <1>2, <1>3, <1>4 DEF ContentInv

LEMMA PoolContent ==
  ASSUME TablesOK, TablesOK', ContentInv, NEW w \in Workers, PoolStep(w)
  PROVE  ContentInv'
<1>0. /\ TypeOK /\ job \in [Workers -> Job] /\ queue \in Seq(Task)
      /\ tables \in Tables /\ TablesConsistent(tables) /\ tables' \in Tables
      /\ WellQueued(queue, submitted) /\ WellDone(job, submitted)
  BY DEF TablesOK, TypeOK, TablesInv, ContentInv
<1>1. CASE StartTask(w)
  <2>1. /\ queue # << >> /\ queue' = Tail(queue)
        /\ job' = [job EXCEPT ![w] = Head(queue)]
        /\ UNCHANGED <<serviceVars, submitted>>
    BY <1>1 DEF StartTask
  <2>2. WellQueued(Tail(queue), submitted) /\ Known(Head(queue), submitted)
    BY <1>0, <2>1 DEF WellQueued
  <2>3. Head(queue).kind # "building"
    BY <1>0, <2>1 DEF Task, RebuildTask, OpenTask, CloseTask
  <2>4. WellDone(job', submitted)
    BY <1>0, <2>1, <2>2, <2>3, JobStep
  <2> QED  BY <2>1, <2>2, <2>4, OtherStep
<1>2. CASE RebuildScan(w)
  <2> DEFINE n == [kind |-> "building", task |-> job[w],
                   todo |-> Scan(job[w].folders), built |-> EmptyTables]
  <2>1. /\ job[w].kind = "rebuild" /\ job' = [job EXCEPT ![w] = n]
        /\ UNCHANGED <<serviceVars, queue, submitted>>
    BY <1>0, <1>2 DEF RebuildScan
  <2>2. Known(n, submitted)
    BY <1>0, <2>1 DEF Known, WellDone
  <2>3. Content(n.built, {n.task.parser}, submitted)
    BY EmptyContent
  <2>4. \A f \in n.todo : FileLines(n.built, f) = {} /\ InWorkspace(n.task.folders, f)
    BY ScanFiles DEF EmptyTables, FileLines
  <2>5. n.built.indexed = {}
    BY DEF EmptyTables
  <2>6. BuiltWell(n, submitted)
    BY <2>3, <2>4, <2>5 DEF BuiltWell
  <2> HIDE DEF n
  <2>7. WellDone(job', submitted)
    BY <1>0, <2>1, <2>2, <2>6, JobStep
  <2> QED  BY <1>0, <2>1, <2>7, OtherStep
<1>3. CASE RebuildIngest(w)
  <2>1. UNCHANGED <<serviceVars, queue, submitted>>
    BY <1>3 DEF RebuildIngest
  <2> QED  BY <1>0, <1>3, <2>1, IngestStepContent, OtherStep
<1>4. CASE RebuildApply(w)
  <2>1. UNCHANGED <<parserState, rebuildGen, queue, submitted>>
    BY <1>4 DEF RebuildApply
  <2>2. CASE IsCurrent(job[w].task)
    <3>1. job[w] \in Building /\ BuiltWell(job[w], submitted)
      BY <1>0, <1>4, JobKinds DEF RebuildApply, WellDone
    <3>2. /\ tables' = job[w].built /\ roots' = job[w].task.folders
          /\ appliedGen' = rebuildGen /\ parserState = job[w].task.parser
          /\ job' = [job EXCEPT ![w] = [kind |-> "notifying", gen |-> job[w].task.gen]]
      BY <1>4, <2>2 DEF RebuildApply, IsCurrent
    <3>3. parserState \in Parsers
      BY <3>1, <3>2 DEF Building, RebuildTask
    <3>4. /\ Content(tables', Parsers, submitted)
          /\ Content(tables', Parsers \cap {parserState}, submitted)
      BY <3>1, <3>2, <3>3 DEF BuiltWell, Content
    <3>5. IndexedWithinWorkspace'
      BY <3>1, <3>2 DEF BuiltWell, IndexedWithinWorkspace
    <3>6. LET n == [kind |-> "notifying", gen |-> job[w].task.gen]
          IN  Known(n, submitted) /\ n.kind # "building"
      BY DEF Known
    <3>7. WellDone(job', submitted)
      BY <1>0, <3>2, <3>6, JobStep
    <3>8. appliedGen' <= rebuildGen'
      BY <1>0, <2>1, <3>2 DEF TypeOK, Generation
    <3> QED  BY <1>0, <2>1, <3>4, <3>5, <3>7, <3>8 DEF ContentInv
  <2>3. CASE ~IsCurrent(job[w].task)
    <3>1. UNCHANGED <<tables, roots, appliedGen>> /\ job' = [job EXCEPT ![w] = Idle]
      BY <1>4, <2>3 DEF RebuildApply
    <3> QED  BY <1>0, <2>1, <3>1, IdleStep, OtherStep DEF serviceVars
  <2> QED  BY <2>2, <2>3
<1>5. CASE RebuildFail(w) \/ NotifyIndexReady(w)
  <2>1. UNCHANGED <<serviceVars, queue, submitted>> /\ job' = [job EXCEPT ![w] = Idle]
    BY <1>5 DEF RebuildFail, NotifyIndexReady
  <2> QED  BY <1>0, <2>1, IdleStep, OtherStep
<1>6. CASE OpenUpdateCommit(w)
  <2> DEFINE doc == job[w].doc
             f == PathOf[doc.uri]
             r == ReplaceDocument(tables, f, Pairs(job[w].parser, doc.text))
  <2>1. /\ job[w] \in OpenTask /\ job[w].kind = "open"
        /\ job' = [job EXCEPT ![w] = Idle]
        /\ UNCHANGED <<roots, parserState, rebuildGen, appliedGen, queue, submitted>>
    BY <1>0, <1>6, JobKinds DEF OpenUpdateCommit
  <2>2. /\ f \in Files /\ doc.version \in Versions /\ doc.text \in Texts
        /\ job[w].parser \in Parsers /\ doc \in submitted
    BY <1>0, <2>1, PathAssumption, DocumentAssumption DEF OpenTask, Known, WellDone
  <2>3. WellDone(job', submitted)
    BY <1>0, <2>1, IdleStep
  <2>4. CASE parserState = job[w].parser /\ InWorkspace(roots, f)
    <3>1. tables' = TagOpen(r, f, doc.version)
      BY <1>6, <2>4 DEF OpenUpdateCommit, MayCommit
    <3>2. r \in Tables /\ Installs(r, tables, f, job[w].parser, doc.text)
      BY <1>0, <2>2, PairsType, ReplaceDocumentConsistent, ReplaceInstalls
    <3> HIDE DEF r
    <3>3. /\ Installs(tables', tables, f, parserState, doc.text)
          /\ tables'.versions[f] = doc.version
      BY <1>0, <2>2, <2>4, <3>1, <3>2, TagOpenInstalls
    <3> QED  BY <1>0, <2>1, <2>2, <2>3, <2>4, <3>3, CommitStep
  <2>5. CASE ~(parserState = job[w].parser /\ InWorkspace(roots, f))
    <3>1. UNCHANGED tables
      BY <1>6, <2>5 DEF OpenUpdateCommit, MayCommit
    <3> QED  BY <1>0, <2>1, <2>3, <3>1, OtherStep DEF serviceVars
  <2> QED  BY <2>4, <2>5
<1>7. CASE ClosedRefreshRead(w)
  <2>1. PICK text : job' = [job EXCEPT ![w] =
                              [kind |-> "refreshing", task |-> job[w], read |-> text]]
    BY <1>7 DEF ClosedRefreshRead
  <2> DEFINE n == [kind |-> "refreshing", task |-> job[w], read |-> text]
  <2>2. Known(n, submitted) /\ n.kind # "building"
    BY DEF Known
  <2> HIDE DEF n
  <2>3. job' = [job EXCEPT ![w] = n]
    BY <2>1 DEF n
  <2>4. WellDone(job', submitted)
    BY <1>0, <2>2, <2>3, JobStep
  <2>5. UNCHANGED <<serviceVars, queue, submitted>>
    BY <1>7 DEF ClosedRefreshRead
  <2> QED  BY <1>0, <2>4, <2>5, OtherStep
<1>8. CASE ClosedRefreshCommit(w)
  <2> DEFINE task == job[w].task
             f == task.file
             r == ReplaceDocument(tables, f, Pairs(task.parser, job[w].read))
  <2>1. /\ job[w] \in Refreshing
        /\ job' = [job EXCEPT ![w] = Idle]
        /\ UNCHANGED <<roots, parserState, rebuildGen, appliedGen, queue, submitted>>
    BY <1>0, <1>8, JobKinds DEF ClosedRefreshCommit
  <2>2. f \in Files /\ task.parser \in Parsers
    BY <2>1 DEF Refreshing, CloseTask
  <2>3. WellDone(job', submitted)
    BY <1>0, <2>1, IdleStep
  <2>4. PICK stamp \in BOOLEAN :
          \/ tables' = tables
          \/ tables' = EraseFile(tables, f)
          \/ /\ parserState = task.parser
             /\ job[w].read \notin {Absent, Unreadable}
             /\ InWorkspace(roots, f)
             /\ tables' = TagDisk(r, f, stamp)
    BY <1>8 DEF ClosedRefreshCommit, MayCommit, TimestampRead
  <2>5. CASE tables' = tables
    BY <1>0, <2>1, <2>3, <2>5, OtherStep DEF serviceVars
  <2>6. CASE tables' = EraseFile(tables, f)
    <3>1. /\ Content(tables', Parsers, submitted')
          /\ appliedGen' = rebuildGen' =>
               Content(tables', Parsers \cap {parserState'}, submitted')
      BY <1>0, <2>1, <2>2, <2>6, EraseContent DEF ContentInv
    <3>2. IndexedWithinWorkspace'
      BY <2>1, <2>6 DEF ContentInv, IndexedWithinWorkspace, EraseFile
    <3> QED  BY <1>0, <2>1, <2>3, <3>1, <3>2 DEF ContentInv
  <2>7. CASE /\ parserState = task.parser
             /\ job[w].read \notin {Absent, Unreadable}
             /\ InWorkspace(roots, f)
             /\ tables' = TagDisk(r, f, stamp)
    <3>1. job[w].read \in Texts
      BY <2>1, <2>7 DEF Refreshing
    <3>2. r \in Tables /\ Installs(r, tables, f, parserState, job[w].read)
      BY <1>0, <2>2, <2>7, <3>1, PairsType, ReplaceDocumentConsistent, ReplaceInstalls
    <3> HIDE DEF r
    <3>3. /\ Installs(tables', tables, f, parserState, job[w].read)
          /\ tables'.versions[f] = None
      BY <1>0, <2>2, <2>7, <3>2, TagDiskInstalls
    <3> QED  BY <1>0, <2>1, <2>2, <2>3, <2>7, <3>1, <3>3, CommitStep
  <2> QED  BY <2>4, <2>5, <2>6, <2>7
<1> QED
  BY <1>1, <1>2, <1>3, <1>4, <1>5, <1>6, <1>7, <1>8 DEF PoolStep

LEMMA StepContent == TablesOK /\ TablesOK' /\ ContentInv /\ [Next]_vars => ContentInv'
<1> SUFFICES ASSUME TablesOK, TablesOK', ContentInv, [Next]_vars PROVE ContentInv'
  OBVIOUS
<1>1. CASE Call
  BY <1>1, CallContent
<1>2. CASE \E w \in Workers : PoolStep(w)
  BY <1>2, PoolContent
<1>3. CASE UNCHANGED <<serviceVars, poolVars, submitted>>
  BY <1>3 DEF ContentInv, IndexedWithinWorkspace, serviceVars, poolVars
<1> QED  BY <1>1, <1>2, <1>3 DEF Next, DiskChange, vars

LEMMA ContentAlways == Spec => [](TablesOK /\ ContentInv)
BY InitTablesOK, StepTablesOK, InitContent, StepContent, PTL DEF Spec

-----------------------------------------------------------------------------
(* The theorems. *)

\* Every file shows one whole text: no update, refresh or rebuild, in whatever
\* order they commit, leaves lines of two texts mixed.
THEOREM DocumentsStayWhole == Spec => []WholeDocuments
<1>1. ContentInv => WholeDocuments
  BY DEF ContentInv, Content, WholeDocuments
<1> QED  BY <1>1, ContentAlways, PTL

\* Once a configuration is applied, no task of an earlier one brings back a line
\* of its parser.
THEOREM NoStaleParser == Spec => []OnlyCurrentParser
<1>1. ContentInv => OnlyCurrentParser
  BY NoneAssumption DEF ContentInv, Content, OnlyCurrentParser
<1> QED  BY <1>1, ContentAlways, PTL

\* The version recorded for a file names a document the caller handed in, and
\* the lines of the file are that document's.
THEOREM VersionsAreHonest == Spec => []VersionsNameContent
<1>1. ContentInv => VersionsNameContent
  BY DEF ContentInv, Content, VersionsNameContent
<1> QED  BY <1>1, ContentAlways, PTL

\* No file outside the applied workspace is ever indexed.
THEOREM IndexStaysInWorkspace == Spec => []IndexedWithinWorkspace
<1>1. ContentInv => IndexedWithinWorkspace
  BY DEF ContentInv
<1> QED  BY <1>1, ContentAlways, PTL

\* Rebuilds are applied in the order of their configurations.
THEOREM RebuildsApplyInOrder == Spec => GenerationsApplyInOrder
<1>1. TablesOK /\ ContentInv /\ [Next]_vars => [appliedGen' >= appliedGen]_vars
  <2> SUFFICES ASSUME TablesOK, ContentInv, [Next]_vars PROVE appliedGen' >= appliedGen
    OBVIOUS
  <2>0. appliedGen \in Nat /\ rebuildGen \in Nat /\ appliedGen <= rebuildGen
    BY DEF TablesOK, TypeOK, Generation, ContentInv
  <2>1. appliedGen' \in {appliedGen, rebuildGen, rebuildGen + 1}
    BY DEF Next, Call, PoolStep, DiskChange, vars, serviceVars, UpdateParserConfig,
           ClearParserConfig, ScheduleOpenDocumentUpdate, ScheduleClosedDocumentRefresh,
           StartTask, RebuildScan, RebuildIngest, RebuildApply, RebuildFail, IsCurrent,
           NotifyIndexReady, OpenUpdateCommit, ClosedRefreshRead, ClosedRefreshCommit
  <2> QED  BY <2>0, <2>1
<1> QED  BY <1>1, ContentAlways, PTL DEF Spec, GenerationsApplyInOrder
=============================================================================
