------------------------ MODULE CrossrefSearchProofs ------------------------
(***************************************************************************)
(* CrossrefSearch for any number of documents, files, pool threads and     *)
(* configurations.                                                         *)
(*                                                                         *)
(* A search reads the tables and changes nothing of the service: with its  *)
(* task taken out of the queue and off the pool threads, the session with  *)
(* searches is a behaviour of CrossrefService, and what is proved of that  *)
(* module holds while requests are answered (SearchesAreInvisible).  The   *)
(* session handles nothing else before it answers, so the configuration is *)
(* the same from the wait of a search to its answer (SearchInv).           *)
(*                                                                         *)
(* When the pool happens to run one task at a time and the editor is       *)
(* patient (SerialSpec), the last update of a file that is posted, under   *)
(* way or done is the right one (SerialInv), so that at rest the index     *)
(* shows what the editor shows, and what is on disk of the files it closed.*)
(***************************************************************************)
EXTENDS CrossrefSearch, TLAPS

SearchKinds == {"search", "waiting", "searching", "scoring", "found"}

\* Nothing is posted while a request is handled: its task is the last one.
SearchLast(q) == q # << >> /\ q[Len(q)].kind = "search"
SearchQueued == SearchLast(queue)

\* What the service has of the pool.
WithoutSearch(q) == IF SearchLast(q) THEN SubSeq(q, 1, Len(q) - 1) ELSE q
ServiceQueue == WithoutSearch(queue)
Unless(j) == IF j.kind \in SearchKinds THEN Idle ELSE j
ServiceJob == [w \in Workers |-> Unless(job[w])]

Service == INSTANCE CrossrefServiceProofs WITH queue <- ServiceQueue, job <- ServiceJob

-----------------------------------------------------------------------------
(* The operators of the instance that do not depend on the pool. *)

LEMMA SameParsing ==
  /\ \A p, text : Service!Parses(p, text) <=> Parses(p, text)
  /\ \A p, text : Service!Pairs(p, text) = Pairs(p, text)
BY DEF Service!Parses, Parses, Service!Pairs, Pairs

LEMMA SameTables ==
  /\ Service!EmptyTables = EmptyTables /\ Service!Tables = Tables
  /\ \A t, f : Service!EraseFile(t, f) = EraseFile(t, f)
  /\ \A t, f, pairs : Service!AddLines(t, f, pairs) = AddLines(t, f, pairs)
  /\ \A t, f, v : Service!TagOpen(t, f, v) = TagOpen(t, f, v)
  /\ \A t, f, s : Service!TagDisk(t, f, s) = TagDisk(t, f, s)
<1>1. Service!EmptyTables = EmptyTables /\ Service!Tables = Tables
  BY DEF Service!EmptyTables, EmptyTables, Service!Tables, Tables, Service!LineId, LineId,
         Service!LineInfo, LineInfo
<1>2. \A t, f : Service!EraseFile(t, f) = EraseFile(t, f)
  BY DEF Service!EraseFile, EraseFile
<1>3. \A t, f, pairs : Service!AddLines(t, f, pairs) = AddLines(t, f, pairs)
  BY DEF Service!AddLines, AddLines
<1>4. \A t, f, v : Service!TagOpen(t, f, v) = TagOpen(t, f, v)
  BY DEF Service!TagOpen, TagOpen
<1>5. \A t, f, s : Service!TagDisk(t, f, s) = TagDisk(t, f, s)
  BY DEF Service!TagDisk, TagDisk
<1> QED BY <1>1, <1>2, <1>3, <1>4, <1>5

LEMMA SameUpdates ==
  /\ \A t, f, pairs : Service!ReplaceDocument(t, f, pairs) = ReplaceDocument(t, f, pairs)
  /\ \A t, f, p, text, v :
       Service!IngestOpen(t, f, p, text, v) = IngestOpen(t, f, p, text, v)
  /\ \A t, f, p, text, s :
       Service!IngestDisk(t, f, p, text, s) = IngestDisk(t, f, p, text, s)
<1>1. \A t, f, pairs : Service!ReplaceDocument(t, f, pairs) = ReplaceDocument(t, f, pairs)
  BY SameTables DEF Service!ReplaceDocument, ReplaceDocument
<1>2. \A t, f, p, text, v :
        Service!IngestOpen(t, f, p, text, v) = IngestOpen(t, f, p, text, v)
  BY SameTables, SameParsing DEF Service!IngestOpen, IngestOpen
<1>3. \A t, f, p, text, s :
        Service!IngestDisk(t, f, p, text, s) = IngestDisk(t, f, p, text, s)
  BY SameTables, SameParsing DEF Service!IngestDisk, IngestDisk
<1> QED BY <1>1, <1>2, <1>3

LEMMA SameChecks ==
  /\ Service!Idle = Idle /\ Service!TimestampRead = TimestampRead
  /\ \A fs, f : Service!InWorkspace(fs, f) <=> InWorkspace(fs, f)
  /\ \A fs : Service!Scan(fs) = Scan(fs)
  /\ \A f : Service!Loads(f) = Loads(f)
  /\ \A task : Service!IsCurrent(task) <=> IsCurrent(task)
  /\ \A task, f : Service!MayCommit(task, f) <=> MayCommit(task, f)
  /\ \A doc : Service!NeedsOpenUpdate(doc) <=> NeedsOpenUpdate(doc)
<1>1. Service!Idle = Idle /\ Service!TimestampRead = TimestampRead
  BY DEF Service!Idle, Idle, Service!TimestampRead, TimestampRead
<1>2. \A fs, f : Service!InWorkspace(fs, f) <=> InWorkspace(fs, f)
  BY DEF Service!InWorkspace, InWorkspace
<1>3. \A fs : Service!Scan(fs) = Scan(fs)
  BY DEF Service!Scan, Scan, Service!InWorkspace, InWorkspace
<1>4. \A f : Service!Loads(f) = Loads(f)
  BY DEF Service!Loads, Loads
<1>5. \A task : Service!IsCurrent(task) <=> IsCurrent(task)
  BY DEF Service!IsCurrent, IsCurrent
<1>6. \A task, f : Service!MayCommit(task, f) <=> MayCommit(task, f)
  BY <1>2 DEF Service!MayCommit, MayCommit
<1>7. \A doc : Service!NeedsOpenUpdate(doc) <=> NeedsOpenUpdate(doc)
  BY <1>2 DEF Service!NeedsOpenUpdate, NeedsOpenUpdate
<1> QED BY <1>1, <1>2, <1>3, <1>4, <1>5, <1>6, <1>7

-----------------------------------------------------------------------------
(* Queues. *)

\* A task behind the others leaves them as they are.
LEMMA BehindTheOthers ==
  ASSUME NEW T, NEW s \in Seq(T), NEW x
  PROVE  /\ SubSeq(Append(s, x), 1, Len(Append(s, x)) - 1) = s
         /\ Append(s, x) # << >> /\ Append(s, x)[Len(Append(s, x))] = x
         /\ s = << >> => Head(Append(s, x)) = x /\ Tail(Append(s, x)) = << >>
         /\ s # << >> => Head(Append(s, x)) = Head(s)
                           /\ Tail(Append(s, x)) = Append(Tail(s), x)
<1>1. s \in Seq(T \cup {x}) /\ Append(s, x) \in Seq(T \cup {x}) /\ Len(s) \in Nat
  OBVIOUS
<1>2. Len(Append(s, x)) = Len(s) + 1 /\ Append(s, x)[Len(s) + 1] = x
      /\ \A i \in 1 .. Len(s) : Append(s, x)[i] = s[i]
  BY <1>1
<1>3. SubSeq(Append(s, x), 1, Len(Append(s, x)) - 1) = s
  BY <1>1, <1>2
<1>4. ASSUME s = << >> PROVE Head(Append(s, x)) = x /\ Tail(Append(s, x)) = << >>
  BY <1>1, <1>2, <1>4
<1>5. ASSUME s # << >> PROVE Head(Append(s, x)) = Head(s)
  BY <1>1, <1>2, <1>5
<1>6. ASSUME s # << >> PROVE Tail(Append(s, x)) = Append(Tail(s), x)
  BY <1>1, <1>2, <1>6
<1>7. Append(s, x) # << >> /\ Append(s, x)[Len(Append(s, x))] = x
  BY <1>1, <1>2
<1> QED BY <1>3, <1>4, <1>5, <1>6, <1>7

-----------------------------------------------------------------------------
(* The invariant. *)

SearchTask == [kind : {"search"}, file : Files, text : Texts, open : BOOLEAN]
Waiting == [kind : {"waiting"}, request : SearchTask, gen : Generation]
Searching == [kind : {"searching"}, request : SearchTask, late : BOOLEAN,
              lines : Seq(Lines), refs : SUBSET LineInfo]
LinesLeft == {search \in Searching : search.lines # << >>}
Scoring == [kind : {"scoring"}, search : LinesLeft, tasks : Nat, found : SUBSET LineId]
Found == [kind : {"found"}, search : LinesLeft, found : SUBSET LineId]
SearchJob == SearchTask \cup Waiting \cup Searching \cup Scoring \cup Found

\* The pool with its searches, and the documents of the session.
PoolOK ==
  /\ queue = ServiceQueue \/ \E r \in SearchTask : queue = Append(ServiceQueue, r)
  /\ job \in [Workers -> Job \cup SearchJob]

SessionOK ==
  /\ docs \in [Uris -> Document \cup {None}]
  /\ \A u \in Uris : docs[u] # None => docs[u] \in Document /\ docs[u].uri = u
  /\ folders \subseteq Folders

\* One search at a time: posted, or on one thread, while its request is pending.
OneSearch ==
  /\ answer # Pending =>
       ~SearchQueued /\ \A w \in Workers : job[w].kind \notin SearchKinds
  /\ SearchQueued => \A w \in Workers : job[w].kind \notin SearchKinds
  /\ \A v, w \in Workers :
       job[v].kind \in SearchKinds /\ job[w].kind \in SearchKinds => v = w

\* A search that did not give up waiting has found lines of the configuration,
\* which is applied.
Current(search) ==
  ~search.late =>
    /\ parserState \in Parsers
    /\ appliedGen = rebuildGen
    /\ \A info \in search.refs :
         \E text \in Texts : info.line \in ParsedLines(parserState, text)

CurrentJob(j) ==
  /\ j.kind = "waiting" => j.gen = rebuildGen
  /\ j.kind = "searching" => Current(j)
  /\ j.kind \in {"scoring", "found"} => Current(j.search)

AllCurrent == \A w \in Workers : CurrentJob(job[w])

SearchInv ==
  /\ Service!TablesOK /\ Service!ContentInv
  /\ PoolOK /\ SessionOK /\ OneSearch
  /\ AllCurrent /\ AnswersCurrentParser

-----------------------------------------------------------------------------
(* What the invariant says of the pool. *)

LEMMA SameTypes ==
  /\ Service!Task = Task /\ Service!Job = Job
  /\ Service!RebuildTask = RebuildTask /\ Service!OpenTask = OpenTask
  /\ Service!CloseTask = CloseTask /\ Service!Building = Building
  /\ Service!Generation = Generation /\ Service!Tables = Tables
  /\ Service!Snapshot = Snapshot
<1>1. Service!RebuildTask = RebuildTask /\ Service!OpenTask = OpenTask
      /\ Service!CloseTask = CloseTask /\ Service!Generation = Generation
  BY DEF Service!RebuildTask, RebuildTask, Service!OpenTask, OpenTask,
         Service!CloseTask, CloseTask, Service!Generation, Generation
<1>2. Service!Task = Task
  BY <1>1 DEF Service!Task, Task
<1>3. Service!Building = Building
  BY <1>1, SameTables DEF Service!Building, Building
<1>4. Service!Job = Job
  BY <1>1, <1>2, <1>3 DEF Service!Job, Job, Service!Idle, Idle, Service!Refreshing,
     Refreshing, Service!Notifying, Notifying
<1>5. Service!Snapshot = Snapshot
  BY DEF Service!Snapshot, Snapshot
<1> QED BY <1>1, <1>2, <1>3, <1>4, <1>5, SameTables

\* The service's tasks and jobs are not searches, and the others are.
LEMMA Kinds ==
  /\ \A t \in Task : t.kind \notin SearchKinds
  /\ \A j \in Job : j.kind \notin SearchKinds
  /\ \A j \in SearchJob : j.kind \in SearchKinds
  /\ Idle.kind = "idle"
<1>1. \A t \in Task : t.kind \notin SearchKinds
  BY DEF Task, RebuildTask, OpenTask, CloseTask, SearchKinds
<1>2. \A j \in Job : j.kind \notin SearchKinds
  BY <1>1 DEF Job, Idle, Building, Refreshing, Notifying, SearchKinds
<1>3. \A j \in SearchJob : j.kind \in SearchKinds
  BY DEF SearchJob, SearchTask, Waiting, Searching, Scoring, Found, SearchKinds
<1> QED BY <1>1, <1>2, <1>3 DEF Idle

\* Queues without a search, and with one behind the other tasks.
LEMMA WithAndWithout ==
  ASSUME NEW q \in Seq(Task)
  PROVE  /\ ~SearchLast(q) /\ WithoutSearch(q) = q
         /\ \A r \in SearchTask : SearchLast(Append(q, r)) /\ WithoutSearch(Append(q, r)) = q
<1>1. ~SearchLast(q)
  <2>1. q # << >> => q[Len(q)] \in Task
    OBVIOUS
  <2> QED BY <2>1, Kinds DEF SearchLast, SearchKinds
<1>2. ASSUME NEW r \in SearchTask
      PROVE  SearchLast(Append(q, r)) /\ WithoutSearch(Append(q, r)) = q
  BY BehindTheOthers DEF SearchLast, WithoutSearch, SearchTask
<1> QED BY <1>1, <1>2 DEF WithoutSearch

\* The tasks of the service, and the search behind them.
LEMMA TwoQueues ==
  ASSUME PoolOK, Service!TypeOK
  PROVE  /\ ServiceQueue \in Seq(Task)
         /\ ~SearchQueued => queue = ServiceQueue
         /\ SearchQueued => \E r \in SearchTask : queue = Append(ServiceQueue, r)
<1>1. ServiceQueue \in Seq(Task)
  BY SameTypes DEF Service!TypeOK
<1> QED BY <1>1, WithAndWithout DEF PoolOK, SearchQueued, ServiceQueue, WithoutSearch

\* A thread that does not search does what the service has it do.
LEMMA SameJob ==
  ASSUME NEW w \in Workers, job[w].kind \notin SearchKinds
  PROVE  ServiceJob[w] = job[w]
BY DEF ServiceJob, Unless

\* A step of one thread, seen by the service.
LEMMA JobMaps ==
  ASSUME PoolOK, NEW w \in Workers, NEW j, j.kind \notin SearchKinds,
         job' = [job EXCEPT ![w] = j]
  PROVE  ServiceJob' = [ServiceJob EXCEPT ![w] = j]
<1>1. \A v \in Workers : job'[v] = IF v = w THEN j ELSE job[v]
  BY DEF PoolOK
<1> QED BY <1>1 DEF ServiceJob, Unless

LEMMA SearchJobMaps ==
  ASSUME PoolOK, NEW w \in Workers, NEW j, job' = [job EXCEPT ![w] = j],
         Unless(job[w]) = Idle, Unless(j) = Idle
  PROVE  ServiceJob' = ServiceJob
<1>1. \A v \in Workers : job'[v] = IF v = w THEN j ELSE job[v]
  BY DEF PoolOK
<1> QED BY <1>1 DEF ServiceJob

\* The jobs of the pool threads by kind.
LEMMA JobsByKind ==
  ASSUME PoolOK, NEW w \in Workers
  PROVE  /\ job[w].kind = "rebuild" => job[w] \in RebuildTask
         /\ job[w].kind = "building" => job[w] \in Building
         /\ job[w].kind = "open" => job[w] \in OpenTask
         /\ job[w].kind = "close" => job[w] \in CloseTask
         /\ job[w].kind = "search" => job[w] \in SearchTask
         /\ job[w].kind = "waiting" => job[w] \in Waiting
         /\ job[w].kind = "searching" => job[w] \in Searching
         /\ job[w].kind = "scoring" => job[w] \in Scoring
         /\ job[w].kind = "found" => job[w] \in Found
<1>1. job[w] \in Job \cup SearchJob
  BY DEF PoolOK
<1>2. CASE job[w] \in Job
  BY <1>2 DEF Job, Task, RebuildTask, OpenTask, CloseTask, Building, Refreshing,
              Notifying, Idle
<1>3. CASE job[w] \in SearchJob
  BY <1>3 DEF SearchJob, SearchTask, Waiting, Searching, Scoring, Found
<1> QED BY <1>1, <1>2, <1>3

-----------------------------------------------------------------------------
(* The steps of the pool are steps of the service's pool. *)

LEMMA PoolMaps ==
  ASSUME PoolOK, Service!TypeOK, NEW w \in Workers, PoolStep(w)
  PROVE  Service!PoolStep(w) \/ UNCHANGED Service!vars
<1> USE DEF Service!serviceVars, serviceVars
<1>0. UNCHANGED queue => UNCHANGED ServiceQueue
  BY DEF ServiceQueue
<1>1. CASE StartTask(w)
  <2>1. ServiceJob[w] = Service!Idle
    BY <1>1, SameJob, SameChecks, Kinds DEF StartTask, SearchKinds
  <2>2. CASE ServiceQueue = << >>
    <3>1. PICK r \in SearchTask : queue = Append(ServiceQueue, r)
      BY <1>1, <2>2, TwoQueues DEF StartTask
    <3>2. Head(queue) = r /\ Tail(queue) = << >> /\ ServiceQueue \in Seq(Task)
      BY <2>2, <3>1, TwoQueues, BehindTheOthers
    <3>3. Unless(r) = Idle /\ Unless(job[w]) = Idle
      BY <1>1, Kinds DEF SearchTask, SearchKinds, Unless, StartTask
    <3>4. UNCHANGED ServiceJob
      BY <1>1, <3>2, <3>3, SearchJobMaps DEF StartTask
    <3>5. UNCHANGED ServiceQueue
      BY <1>1, <2>2, <3>2, WithAndWithout DEF StartTask, ServiceQueue
    <3> QED BY <1>1, <3>4, <3>5 DEF StartTask, Service!vars, Service!poolVars
  <2>3. CASE ServiceQueue # << >>
    <3>0. ServiceQueue \in Seq(Task)
      BY TwoQueues
    <3>1. /\ Head(queue) = Head(ServiceQueue)
          /\ \/ Tail(queue) = Tail(ServiceQueue)
             \/ \E r \in SearchTask : Tail(queue) = Append(Tail(ServiceQueue), r)
      BY <2>3, <3>0, TwoQueues, BehindTheOthers
    <3>2. Head(ServiceQueue) \in Task /\ Tail(ServiceQueue) \in Seq(Task)
      BY <2>3, <3>0
    <3>3. Head(ServiceQueue).kind \notin SearchKinds
      BY <3>2, Kinds
    <3>4. job' = [job EXCEPT ![w] = Head(ServiceQueue)]
      BY <1>1, <3>1 DEF StartTask
    <3>5. ServiceJob' = [ServiceJob EXCEPT ![w] = Head(ServiceQueue)]
      BY <3>3, <3>4, JobMaps
    <3>6. ServiceQueue' = Tail(ServiceQueue)
      BY <1>1, <3>1, <3>2, WithAndWithout DEF StartTask, ServiceQueue
    <3> QED
      BY <1>1, <2>1, <2>3, <3>5, <3>6 DEF StartTask, Service!PoolStep, Service!StartTask
  <2> QED BY <2>2, <2>3
<1>2. CASE RebuildScan(w)
  <2>1. ServiceJob[w] = job[w] /\ ServiceJob[w].kind = "rebuild"
    BY <1>2, SameJob DEF RebuildScan, SearchKinds
  <2> DEFINE new == [kind |-> "building", task |-> job[w],
                     todo |-> Scan(job[w].folders), built |-> EmptyTables]
  <2>2. job' = [job EXCEPT ![w] = new]
    BY <1>2 DEF RebuildScan, PoolOK
  <2>3. new.kind \notin SearchKinds
    BY DEF SearchKinds
  <2>4. ServiceJob' = [ServiceJob EXCEPT ![w] = new]
    BY <2>2, <2>3, JobMaps
  <2>5. ServiceJob' = [ServiceJob EXCEPT ![w] =
          [kind |-> "building", task |-> @, todo |-> Service!Scan(@.folders),
           built |-> Service!EmptyTables]]
    BY <2>1, <2>4, SameChecks, SameTables DEF ServiceJob
  <2> QED BY <1>2, <2>1, <2>5, <1>0 DEF RebuildScan, Service!PoolStep, Service!RebuildScan
<1>3. CASE RebuildIngest(w)
  <2>1. ServiceJob[w] = job[w] /\ ServiceJob[w].kind = "building"
    BY <1>3, SameJob DEF RebuildIngest, SearchKinds
  <2>2. ASSUME NEW f, NEW tabs,
               job' = [job EXCEPT ![w].todo = @ \ {f}, ![w].built = tabs]
        PROVE  ServiceJob' = [ServiceJob EXCEPT ![w].todo = @ \ {f}, ![w].built = tabs]
    <3> DEFINE new == [job[w] EXCEPT !.todo = @ \ {f}, !.built = tabs]
    <3>1. job' = [job EXCEPT ![w] = new]
      BY <2>2 DEF PoolOK
    <3>2. new.kind \notin SearchKinds
      BY <2>1, JobsByKind DEF SearchKinds, Building
    <3>3. ServiceJob' = [ServiceJob EXCEPT ![w] = new]
      BY <3>1, <3>2, JobMaps
    <3> QED BY <2>1, <3>3 DEF ServiceJob
  <2>3. UNCHANGED <<Service!serviceVars, ServiceQueue, disk, submitted>>
    BY <1>3, <1>0 DEF RebuildIngest
  <2> DEFINE task == job[w].task
             Snapped(f) == {d \in task.docs : d.uri = UriOf[f]}
             Ingest(f, tabs) == job' = [job EXCEPT ![w].todo = @ \ {f}, ![w].built = tabs]
  <2>4. PICK f \in job[w].todo :
          \/ \E d \in Snapped(f) :
               Ingest(f, IngestOpen(job[w].built, f, task.parser, d.text, d.version))
          \/ /\ Snapped(f) = {}
             /\ \E text \in Loads(f), stamp \in TimestampRead :
                  Ingest(f, IF text \in {Absent, Unreadable} THEN job[w].built
                            ELSE IngestDisk(job[w].built, f, task.parser, text, stamp))
    BY <1>3 DEF RebuildIngest
  <2>5. CASE \E d \in Snapped(f) :
               Ingest(f, IngestOpen(job[w].built, f, task.parser, d.text, d.version))
    <3>1. PICK d \in Snapped(f) :
            Ingest(f, Service!IngestOpen(job[w].built, f, task.parser, d.text, d.version))
      BY <2>5, SameUpdates
    <3>2. ServiceJob' = [ServiceJob EXCEPT ![w].todo = @ \ {f}, ![w].built =
            Service!IngestOpen(job[w].built, f, task.parser, d.text, d.version)]
      BY <3>1, <2>2
    <3> QED BY <2>1, <2>3, <3>2 DEF Service!PoolStep, Service!RebuildIngest
  <2>6. CASE /\ Snapped(f) = {}
             /\ \E text \in Loads(f), stamp \in TimestampRead :
                  Ingest(f, IF text \in {Absent, Unreadable} THEN job[w].built
                            ELSE IngestDisk(job[w].built, f, task.parser, text, stamp))
    <3>1. PICK text \in Service!Loads(f), stamp \in Service!TimestampRead :
            Ingest(f, IF text \in {Absent, Unreadable} THEN job[w].built
                      ELSE Service!IngestDisk(job[w].built, f, task.parser, text, stamp))
      BY <2>6, SameUpdates, SameChecks
    <3>2. ServiceJob' = [ServiceJob EXCEPT ![w].todo = @ \ {f}, ![w].built =
            IF text \in {Absent, Unreadable} THEN job[w].built
            ELSE Service!IngestDisk(job[w].built, f, task.parser, text, stamp)]
      BY <3>1, <2>2
    <3> QED BY <2>1, <2>3, <2>6, <3>2 DEF Service!PoolStep, Service!RebuildIngest
  <2> QED BY <2>4, <2>5, <2>6
<1>4. CASE RebuildApply(w)
  <2>1. ServiceJob[w] = job[w]
    BY <1>4, SameJob DEF RebuildApply, SearchKinds
  <2>2. /\ ServiceJob[w].kind = "building" /\ ServiceJob[w].todo = {}
        /\ UNCHANGED <<parserState, rebuildGen, ServiceQueue, disk, submitted>>
    BY <1>4, <2>1, <1>0 DEF RebuildApply
  <2>3. CASE IsCurrent(job[w].task)
    <3> DEFINE new == [kind |-> "notifying", gen |-> job[w].task.gen]
    <3>1. job' = [job EXCEPT ![w] = new] /\ new.kind \notin SearchKinds
      BY <1>4, <2>3 DEF RebuildApply, SearchKinds
    <3>2. ServiceJob' = [ServiceJob EXCEPT ![w] = new]
      BY <3>1, JobMaps
    <3>3. /\ tables' = ServiceJob[w].built
          /\ roots' = ServiceJob[w].task.folders
          /\ appliedGen' = ServiceJob[w].task.gen
      BY <1>4, <2>1, <2>3 DEF RebuildApply
    <3>4. Service!IsCurrent(ServiceJob[w].task)
      BY <2>1, <2>3, SameChecks
    <3> QED BY <2>1, <2>2, <3>2, <3>3, <3>4 DEF Service!PoolStep, Service!RebuildApply
  <2>4. CASE ~IsCurrent(job[w].task)
    <3>1. job' = [job EXCEPT ![w] = Idle] /\ Idle.kind \notin SearchKinds
      BY <1>4, <2>4 DEF RebuildApply, Idle, SearchKinds
    <3>2. ServiceJob' = [ServiceJob EXCEPT ![w] = Service!Idle]
      BY <3>1, JobMaps, SameChecks
    <3>3. UNCHANGED <<tables, roots, appliedGen>>
      BY <1>4, <2>1, <2>4 DEF RebuildApply
    <3>4. ~Service!IsCurrent(ServiceJob[w].task)
      BY <2>1, <2>4, SameChecks
    <3> QED BY <2>1, <2>2, <3>2, <3>3, <3>4 DEF Service!PoolStep, Service!RebuildApply
  <2> QED BY <2>3, <2>4
<1>5. ASSUME job[w].kind \notin SearchKinds, job' = [job EXCEPT ![w] = Idle],
             UNCHANGED queue
      PROVE  /\ ServiceJob[w] = job[w]
             /\ ServiceJob' = [ServiceJob EXCEPT ![w] = Service!Idle]
             /\ UNCHANGED ServiceQueue
  BY <1>5, <1>0, SameJob, JobMaps, Kinds, SameChecks DEF SearchKinds
<1>6. CASE RebuildFail(w)
  BY <1>6, <1>5 DEF RebuildFail, Service!PoolStep, Service!RebuildFail, SearchKinds
<1>7. CASE NotifyIndexReady(w)
  BY <1>7, <1>5 DEF NotifyIndexReady, Service!PoolStep, Service!NotifyIndexReady, SearchKinds
<1>8. CASE OpenUpdateCommit(w)
  BY <1>8, <1>5, SameChecks, SameTables, SameUpdates, SameParsing
  DEF OpenUpdateCommit, Service!PoolStep, Service!OpenUpdateCommit, SearchKinds
<1>9. CASE ClosedRefreshRead(w)
  <2>1. ServiceJob[w] = job[w] /\ ServiceJob[w].kind = "close"
    BY <1>9, SameJob DEF ClosedRefreshRead, SearchKinds
  <2>2. ASSUME NEW text,
               job' = [job EXCEPT ![w] =
                         [kind |-> "refreshing", task |-> job[w], read |-> text]]
        PROVE  ServiceJob' = [ServiceJob EXCEPT ![w] =
                         [kind |-> "refreshing", task |-> job[w], read |-> text]]
    <3> DEFINE new == [kind |-> "refreshing", task |-> job[w], read |-> text]
    <3>1. new.kind \notin SearchKinds
      BY DEF SearchKinds
    <3> QED BY <2>2, <3>1, JobMaps
  <2> QED BY <1>9, <2>1, <2>2, <1>0, SameChecks
    DEF ClosedRefreshRead, Service!PoolStep, Service!ClosedRefreshRead
<1>10. CASE ClosedRefreshCommit(w)
  BY <1>10, <1>5, SameChecks, SameTables, SameUpdates, SameParsing
  DEF ClosedRefreshCommit, Service!PoolStep, Service!ClosedRefreshCommit, SearchKinds
<1> QED BY <1>1, <1>2, <1>3, <1>4, <1>6, <1>7, <1>8, <1>9, <1>10 DEF PoolStep

-----------------------------------------------------------------------------
(* The messages of the session are calls of the service. *)

\* What the pool keeps through a call.
Posts == UNCHANGED job /\ queue' \in Seq(Task)

LEMMA PostMaps ==
  ASSUME PoolOK, Service!TypeOK, ~SearchQueued
  PROVE  /\ ServiceQueue = queue /\ queue \in Seq(Task)
         /\ UNCHANGED queue => queue' \in Seq(Task) /\ UNCHANGED ServiceQueue
         /\ \A t \in Task : queue' = Append(queue, t) =>
              queue' \in Seq(Task) /\ ServiceQueue' = Append(ServiceQueue, t)
<1>1. ServiceQueue = queue /\ queue \in Seq(Task)
  BY TwoQueues
<1>2. ASSUME NEW t \in Task, queue' = Append(queue, t)
      PROVE  queue' \in Seq(Task) /\ ServiceQueue' = Append(ServiceQueue, t)
  <2>1. Append(queue, t) \in Seq(Task)
    BY <1>1
  <2> QED BY <1>1, <1>2, <2>1, WithAndWithout DEF ServiceQueue
<1> QED BY <1>1, <1>2, WithAndWithout DEF ServiceQueue

LEMMA UpdateMaps ==
  ASSUME PoolOK, Service!TypeOK, ~SearchQueued,
         NEW p \in Parsers, NEW fs \in SUBSET Folders, NEW ds \in Snapshot,
         UpdateParserConfig(p, fs, ds)
  PROVE  Posts /\ Service!Call
<1> DEFINE task == [kind |-> "rebuild", parser |-> p, gen |-> rebuildGen + 1,
                    folders |-> fs, docs |-> ds]
<1>1. task \in Task
  BY SameTypes DEF Task, RebuildTask, Snapshot, Generation, Service!TypeOK
<1>2. Posts
  BY <1>1, PostMaps DEF UpdateParserConfig, Posts
<1>3. UNCHANGED ServiceJob
  BY DEF ServiceJob, UpdateParserConfig
<1>4. IF parserState = p THEN UNCHANGED ServiceQueue
      ELSE ServiceQueue' = Append(ServiceQueue, task)
  BY <1>1, PostMaps DEF UpdateParserConfig
<1>5. Service!UpdateParserConfig(p, fs, ds)
  BY <1>3, <1>4 DEF UpdateParserConfig, Service!UpdateParserConfig
<1> QED BY <1>2, <1>5, SameTypes DEF Service!Call

LEMMA OpenUpdateMaps ==
  ASSUME PoolOK, Service!TypeOK, ~SearchQueued, NEW doc \in Document,
         ScheduleOpenDocumentUpdate(doc)
  PROVE  Posts /\ Service!Call
<1> DEFINE task == [kind |-> "open", doc |-> doc, parser |-> parserState]
<1>1. NeedsOpenUpdate(doc) => task \in Task
  BY DEF Task, OpenTask, NeedsOpenUpdate, Service!TypeOK
<1>2. Posts
  BY <1>1, PostMaps DEF ScheduleOpenDocumentUpdate, Posts
<1>3. UNCHANGED ServiceJob
  BY DEF ServiceJob, ScheduleOpenDocumentUpdate
<1>4. ServiceQueue' = IF NeedsOpenUpdate(doc) THEN Append(ServiceQueue, task)
                      ELSE ServiceQueue
  BY <1>1, PostMaps DEF ScheduleOpenDocumentUpdate
<1>5. Service!ScheduleOpenDocumentUpdate(doc)
  BY <1>3, <1>4, SameChecks
  DEF ScheduleOpenDocumentUpdate, Service!ScheduleOpenDocumentUpdate,
      Service!serviceVars, serviceVars
<1> QED BY <1>2, <1>5 DEF Service!Call

LEMMA ClosedRefreshMaps ==
  ASSUME PoolOK, Service!TypeOK, ~SearchQueued, NEW uri \in Uris,
         ScheduleClosedDocumentRefresh(uri)
  PROVE  Posts /\ Service!Call
<1> DEFINE task == [kind |-> "close", file |-> PathOf[uri], parser |-> parserState]
<1>1. parserState # None => task \in Task
  BY PathAssumption DEF Task, CloseTask, Service!TypeOK
<1>2. Posts
  BY <1>1, PostMaps DEF ScheduleClosedDocumentRefresh, Posts
<1>3. UNCHANGED ServiceJob
  BY DEF ServiceJob, ScheduleClosedDocumentRefresh
<1>4. Service!ScheduleClosedDocumentRefresh(uri)
  BY <1>1, <1>3, PostMaps, SameChecks, SameTables
  DEF ScheduleClosedDocumentRefresh, Service!ScheduleClosedDocumentRefresh
<1> QED BY <1>2, <1>4 DEF Service!Call

LEMMA MessageMaps ==
  ASSUME PoolOK, Service!TypeOK, SessionOK, ~SearchQueued, SessionMessage
  PROVE  Posts /\ SessionOK' /\ (Service!Call \/ UNCHANGED Service!vars)
<1> USE SessionAssumption DEF sessionVars
<1>1. ASSUME UNCHANGED vars
      PROVE  Posts /\ UNCHANGED Service!vars
  BY <1>1, PostMaps
  DEF Posts, vars, serviceVars, poolVars, Service!vars, Service!serviceVars,
      Service!poolVars, ServiceJob
<1>2. ASSUME NEW fs \in SUBSET Folders, Initialize(fs)
      PROVE  Posts /\ SessionOK' /\ UNCHANGED Service!vars
  BY <1>1, <1>2 DEF Initialize, SessionOK
<1>3. ASSUME NEW added \in SUBSET Folders, NEW removed \in SUBSET Folders,
             DidChangeWorkspaceFolders(added, removed)
      PROVE  Posts /\ SessionOK' /\ UNCHANGED Service!vars
  BY <1>1, <1>3 DEF DidChangeWorkspaceFolders, SessionOK
<1>4. ASSUME NEW p \in Parsers, SetParserRegex(p)
      PROVE  Posts /\ SessionOK' /\ Service!Call
  <2>1. OpenDocuments \in Snapshot /\ folders \in SUBSET Folders
    BY DEF OpenDocuments, OpenUris, SessionOK, Snapshot
  <2>2. Posts /\ Service!Call
    BY <1>4, <2>1, UpdateMaps DEF SetParserRegex
  <2> QED BY <1>4, <2>2 DEF SetParserRegex, SessionOK
<1>5. ASSUME NEW u \in Uris, NEW version \in Versions, NEW text \in Texts,
             DidOpen(u, version, text) \/ DidChange(u, version, text)
      PROVE  Posts /\ SessionOK' /\ Service!Call
  <2>1. MakeDocument(u, version, text) \in Document
        /\ MakeDocument(u, version, text).uri = u
    BY DEF MakeDocument
  <2>2. Posts /\ Service!Call
    BY <1>5, <2>1, OpenUpdateMaps DEF DidOpen, DidChange
  <2>3. docs' = [docs EXCEPT ![u] = MakeDocument(u, version, text)] /\ UNCHANGED folders
    BY <1>5 DEF DidOpen, DidChange
  <2>4. SessionOK'
    BY <2>1, <2>3 DEF SessionOK
  <2> QED BY <2>2, <2>4
<1>6. ASSUME NEW u \in Uris, DidChangeRejected(u)
      PROVE  Posts /\ SessionOK' /\ Service!Call
  <2>1. docs[u] \in Document
    BY <1>6 DEF DidChangeRejected, SessionOK
  <2>2. Posts /\ Service!Call
    BY <1>6, <2>1, OpenUpdateMaps DEF DidChangeRejected
  <2> QED BY <1>6, <2>2 DEF DidChangeRejected, SessionOK
<1>7. ASSUME NEW u \in Uris, DidSave(u)
      PROVE  Posts /\ SessionOK' /\ Service!Call
  <2>1. docs[u] \in Document /\ docs[u].uri = u
    BY <1>7 DEF DidSave, SessionOK
  <2>2. ASSUME NEW text \in Texts, docs' = [docs EXCEPT
                 ![u] = MakeDocument(u, docs[u].version, text)],
               ScheduleOpenDocumentUpdate(MakeDocument(u, docs[u].version, text))
        PROVE  Posts /\ SessionOK' /\ Service!Call
    <3>1. MakeDocument(u, docs[u].version, text) \in Document
          /\ MakeDocument(u, docs[u].version, text).uri = u
      BY <2>1 DEF MakeDocument
    <3>2. Posts /\ Service!Call
      BY <2>2, <3>1, OpenUpdateMaps
    <3>3. UNCHANGED folders
      BY <1>7 DEF DidSave
    <3>4. SessionOK'
      BY <2>2, <3>1, <3>3 DEF SessionOK
    <3> QED BY <3>2, <3>4
  <2>3. ASSUME UNCHANGED docs, ScheduleOpenDocumentUpdate(docs[u])
        PROVE  Posts /\ SessionOK' /\ Service!Call
    BY <1>7, <2>1, <2>3, OpenUpdateMaps DEF DidSave, SessionOK
  <2> QED BY <1>7, <2>2, <2>3 DEF DidSave
<1>8. ASSUME NEW u \in Uris, DidClose(u)
      PROVE  Posts /\ SessionOK' /\ Service!Call
  <2>1. Posts /\ Service!Call
    BY <1>8, ClosedRefreshMaps DEF DidClose
  <2> QED BY <1>8, <2>1 DEF DidClose, SessionOK
<1> QED BY <1>2, <1>3, <1>4, <1>5, <1>6, <1>7, <1>8 DEF SessionMessage

-----------------------------------------------------------------------------
(* The steps of a search leave the service as it is. *)

\* What a search may become, and what the session may have answered then.
Outcome(w, j) ==
  /\ job' = [job EXCEPT ![w] = j]
  /\ UNCHANGED queue /\ Unmoved
  /\ \/ j \in SearchJob /\ CurrentJob(j) /\ UNCHANGED answer
     \/ j = Idle /\ AnswersCurrentParser'

LEMMA EmptyAnswer ==
  ASSUME NEW request, NEW late, Answer(request, {}, late)
  PROVE  AnswersCurrentParser'
BY DEF Answer, AnswersCurrentParser

\* What the tables show now is of the current parser, once it is applied.
LEMMA TablesCurrent ==
  ASSUME Service!TablesOK, Service!ContentInv, appliedGen = rebuildGen
  PROVE  \A info \in tables.infos :
           \E text \in Texts : info.line \in ParsedLines(parserState, text)
<1> SUFFICES ASSUME NEW info \in tables.infos
             PROVE  \E text \in Texts : info.line \in ParsedLines(parserState, text)
  OBVIOUS
<1> DEFINE f == info.file
<1>1. f \in Files
  BY SameTables DEF Service!TablesOK, Service!TypeOK, Tables, LineInfo
<1>2. info \in Service!FileLines(tables, f)
  BY DEF Service!FileLines
<1>3. PICK p \in Parsers \cap {parserState}, text \in Texts :
        Service!Shows(tables, f, p, text)
  BY <1>1, <1>2 DEF Service!ContentInv, Service!Content
<1>4. PICK first \in 1 .. tables.nextId :
        Service!FileLines(tables, f) =
          {[id |-> first + k - 1, file |-> f, line |-> Pairs(p, text)[k]] :
             k \in 1 .. Len(Pairs(p, text))}
  BY <1>3, SameParsing DEF Service!Shows
<1>5. PICK k \in 1 .. Len(Pairs(p, text)) : info.line = Pairs(p, text)[k]
  BY <1>2, <1>4
<1>6. Pairs(p, text) \in Seq(Lines)
  BY ParseAssumption DEF Pairs, Parses
<1> QED BY <1>3, <1>5, <1>6 DEF ParsedLines

\* The search of a request, with the lines the current parser extracts.
LEMMA BeginOutcome ==
  ASSUME SearchInv, NEW w \in Workers, NEW request \in SearchTask, NEW late \in BOOLEAN,
         ~late /\ parserState # None => appliedGen = rebuildGen,
         BeginLines(w, request, late), UNCHANGED queue, Unmoved
  PROVE  \E j : Outcome(w, j)
<1>1. CASE parserState # None /\ Parses(parserState, request.text)
  <2> DEFINE j == [kind |-> "searching", request |-> request, late |-> late,
                   lines |-> Pairs(parserState, request.text), refs |-> {}]
  <2>1. parserState \in Parsers
    BY <1>1 DEF SearchInv, Service!TablesOK, Service!TypeOK
  <2>2. Pairs(parserState, request.text) \in Seq(Lines)
    BY <2>1, ParseAssumption DEF Pairs, Parses, SearchTask
  <2>3. j \in Searching /\ j.kind = "searching"
    BY <2>2 DEF Searching
  <2>4. Current(j)
    BY <1>1, <2>1 DEF Current
  <2>5. j \in SearchJob /\ CurrentJob(j)
    BY <2>3, <2>4 DEF SearchJob, CurrentJob
  <2>6. job' = [job EXCEPT ![w] = j] /\ UNCHANGED answer
    BY <1>1 DEF BeginLines, Become
  <2> QED BY <2>5, <2>6 DEF Outcome
<1>2. CASE ~(parserState # None /\ Parses(parserState, request.text))
  <2>1. job' = [job EXCEPT ![w] = Idle] /\ Answer(request, {}, late)
    BY <1>2 DEF BeginLines, Become
  <2> QED BY <2>1, EmptyAnswer DEF Outcome
<1> QED BY <1>1, <1>2

LEMMA SearchOutcome ==
  ASSUME SearchInv, NEW w \in Workers, SearchStep(w)
  PROVE  job[w].kind \in SearchKinds /\ \E j : Outcome(w, j)
<1>0. PoolOK /\ CurrentJob(job[w]) /\ Service!TypeOK
      /\ appliedGen \in Nat /\ rebuildGen \in Nat /\ appliedGen <= rebuildGen
  BY SameTypes DEF SearchInv, AllCurrent, Service!TablesOK, Service!TypeOK,
     Service!ContentInv, Generation
<1>1. CASE SearchBegin(w)
  <2>1. job[w] \in SearchTask /\ job[w].kind \in SearchKinds
    BY <1>0, <1>1, JobsByKind DEF SearchBegin, SearchKinds
  <2>2. CASE job[w].file \notin TextFiles
    <3>1. job' = [job EXCEPT ![w] = Idle] /\ Answer(job[w], {}, FALSE)
          /\ UNCHANGED queue /\ Unmoved
      BY <1>1, <2>2 DEF SearchBegin, Become
    <3> QED BY <2>1, <3>1, EmptyAnswer DEF Outcome
  <2>3. CASE /\ job[w].file \in TextFiles
             /\ parserState # None /\ appliedGen < rebuildGen
    <3> DEFINE j == [kind |-> "waiting", request |-> job[w], gen |-> rebuildGen]
    <3>1. j \in SearchJob /\ CurrentJob(j)
      BY <1>0, <2>1 DEF SearchJob, Waiting, CurrentJob, Generation
    <3>2. job' = [job EXCEPT ![w] = j] /\ UNCHANGED answer /\ UNCHANGED queue /\ Unmoved
      BY <1>1, <2>3 DEF SearchBegin, Become
    <3> QED BY <2>1, <3>1, <3>2 DEF Outcome
  <2>4. CASE ~(parserState # None /\ appliedGen < rebuildGen) /\ job[w].file \in TextFiles
    <3>1. BeginLines(w, job[w], FALSE) /\ UNCHANGED queue /\ Unmoved
      BY <1>1, <2>4 DEF SearchBegin
    <3>2. parserState # None => appliedGen = rebuildGen
      BY <1>0, <2>4
    <3> QED BY <2>1, <3>1, <3>2, BeginOutcome
  <2> QED BY <2>2, <2>3, <2>4
<1>2. CASE SearchWake(w) \/ SearchTimeout(w)
  <2>1. job[w].kind = "waiting" /\ job[w] \in Waiting /\ job[w].gen = rebuildGen
    BY <1>0, <1>2, JobsByKind DEF SearchWake, SearchTimeout, CurrentJob
  <2>2. job[w].kind \in SearchKinds /\ job[w].request \in SearchTask
    BY <2>1 DEF SearchKinds, Waiting
  <2>3. PICK late \in BOOLEAN : EndWait(w, late) /\ (~late => SearchWake(w))
    BY <1>2 DEF SearchWake, SearchTimeout
  <2>4. ~late /\ parserState # None => appliedGen = rebuildGen
    BY <1>0, <2>1, <2>3 DEF SearchWake, NothingToWaitFor
  <2>5. \E j : Outcome(w, j)
    BY <2>2, <2>3, <2>4, BeginOutcome DEF EndWait
  <2> QED BY <2>2, <2>5
<1>3. CASE SearchIndex(w)
  <2>1. job[w].kind = "searching" /\ job[w] \in Searching /\ Current(job[w])
    BY <1>0, <1>3, JobsByKind DEF SearchIndex, CurrentJob
  <2>2. PICK n \in ScoringTasks :
          job' = [job EXCEPT ![w] =
            [kind |-> "scoring", search |-> job[w], tasks |-> n,
             found |-> {info.id : info \in {i \in tables.infos :
                          <<Head(job[w].lines), i.line>> \in Similar}}]]
    BY <1>3 DEF SearchIndex, Become
  <2> DEFINE found == {info.id : info \in {i \in tables.infos :
                          <<Head(job[w].lines), i.line>> \in Similar}}
             j == [kind |-> "scoring", search |-> job[w], tasks |-> n, found |-> found]
  <2>3. tables.infos \in SUBSET LineInfo
    BY <1>0, SameTables DEF Service!TypeOK, Tables
  <2>4. found \in SUBSET LineId
    BY <2>3 DEF LineInfo
  <2> HIDE DEF found
  <2>5. j \in Scoring
    BY <1>3, <2>1, <2>4, SearchAssumption DEF Scoring, LinesLeft, SearchIndex
  <2>6. j \in SearchJob /\ CurrentJob(j)
    BY <2>1, <2>5 DEF SearchJob, CurrentJob
  <2>7. job' = [job EXCEPT ![w] = j]
    BY <2>2 DEF found
  <2>8. UNCHANGED <<queue, answer>> /\ Unmoved
    BY <1>3 DEF SearchIndex
  <2> QED BY <2>1, <2>6, <2>7, <2>8 DEF Outcome, SearchKinds
<1>4. CASE ScoreCandidates(w)
  <2>1. job[w].kind = "scoring" /\ job[w] \in Scoring /\ Current(job[w].search)
    BY <1>0, <1>4, JobsByKind DEF ScoreCandidates, CurrentJob
  <2> DEFINE j == [job[w] EXCEPT !.tasks = @ - 1]
  <2>2. job[w].tasks - 1 \in Nat
    BY <1>4, <2>1 DEF ScoreCandidates, Scoring
  <2>3. j \in Scoring /\ j.search = job[w].search /\ j.kind = "scoring"
    BY <2>1, <2>2 DEF Scoring
  <2>4. job' = [job EXCEPT ![w] = j]
    BY <1>0, <1>4 DEF ScoreCandidates, PoolOK
  <2>5. j \in SearchJob /\ CurrentJob(j)
    BY <2>1, <2>3 DEF SearchJob, CurrentJob
  <2> HIDE DEF j
  <2> QED BY <1>4, <2>1, <2>4, <2>5 DEF Outcome, SearchKinds, ScoreCandidates
<1>5. CASE ScoringDone(w)
  <2>1. job[w].kind = "scoring" /\ job[w] \in Scoring /\ Current(job[w].search)
    BY <1>0, <1>5, JobsByKind DEF ScoringDone, CurrentJob
  <2> DEFINE j == [kind |-> "found", search |-> job[w].search, found |-> job[w].found]
  <2>2. j \in SearchJob /\ CurrentJob(j)
    BY <2>1 DEF SearchJob, Scoring, Found, CurrentJob
  <2> QED BY <1>5, <2>1, <2>2 DEF Outcome, SearchKinds, ScoringDone, Become
<1>6. CASE SearchCollect(w)
  <2>1. job[w].kind = "found" /\ job[w].search \in LinesLeft /\ Current(job[w].search)
    BY <1>0, <1>6, JobsByKind DEF SearchCollect, CurrentJob, Found
  <2> DEFINE search == job[w].search
             refs == {info \in tables.infos :
                       /\ info.id \in job[w].found
                       /\ <<Head(search.lines), info.line>> \in Similar
                       /\ Reported(search.request.file, Head(search.lines), info)}
             j == [search EXCEPT !.lines = Tail(@), !.refs = @ \cup refs]
  <2>2. job' = [job EXCEPT ![w] = j] /\ UNCHANGED <<queue, answer>> /\ Unmoved
    BY <1>6 DEF SearchCollect, Become
  <2>3. refs \subseteq tables.infos /\ tables.infos \subseteq LineInfo
    BY <1>0, SameTables DEF Service!TypeOK, Tables
  <2> HIDE DEF refs
  <2>4. Tail(search.lines) \in Seq(Lines)
    BY <2>1 DEF Searching, LinesLeft
  <2>5. j \in Searching /\ j.late = search.late /\ j.refs = search.refs \cup refs
    BY <2>1, <2>3, <2>4 DEF Searching, LinesLeft
  <2> HIDE DEF j
  <2>6. Current(j)
    BY <2>1, <2>3, <2>5, TablesCurrent DEF Current, SearchInv
  <2>7. j \in SearchJob /\ CurrentJob(j)
    BY <2>5, <2>6 DEF SearchJob, Searching, CurrentJob
  <2> QED BY <2>1, <2>2, <2>7 DEF Outcome, SearchKinds
<1>7. CASE SearchFinish(w)
  <2>1. job[w].kind = "searching" /\ Current(job[w])
    BY <1>0, <1>7 DEF SearchFinish, CurrentJob
  <2>2. answer' = [request |-> job[w].request, parser |-> parserState,
                   refs |-> job[w].refs, late |-> job[w].late]
    BY <1>7 DEF SearchFinish, Answer
  <2>3. AnswersCurrentParser'
    BY <2>1, <2>2 DEF AnswersCurrentParser, Current, ParsedLines, Pairs
  <2> QED BY <1>7, <2>1, <2>3 DEF Outcome, SearchKinds, SearchFinish, Become
<1> QED BY <1>1, <1>2, <1>3, <1>4, <1>5, <1>6, <1>7 DEF SearchStep

\* The service sees nothing of a step of a search.
LEMMA OutcomeMaps ==
  ASSUME PoolOK, NEW w \in Workers, NEW j, Outcome(w, j), job[w].kind \in SearchKinds
  PROVE  UNCHANGED Service!vars
<1>1. Unless(job[w]) = Idle /\ Unless(j) = Idle
  BY Kinds DEF Unless, Outcome
<1>2. UNCHANGED ServiceJob
  BY <1>1, SearchJobMaps DEF Outcome
<1>3. UNCHANGED ServiceQueue
  BY DEF Outcome, ServiceQueue
<1> QED
  BY <1>2, <1>3 DEF Outcome, Unmoved, serviceVars, Service!vars, Service!serviceVars,
     Service!poolVars

LEMMA OutcomeInv ==
  ASSUME SearchInv, NEW w \in Workers, NEW j, Outcome(w, j), job[w].kind \in SearchKinds
  PROVE  (PoolOK /\ SessionOK /\ OneSearch /\ AllCurrent /\ AnswersCurrentParser)'
<1>1. PoolOK /\ SessionOK /\ OneSearch /\ AllCurrent /\ AnswersCurrentParser
  BY DEF SearchInv
<1>2. \A v \in Workers : job'[v] = IF v = w THEN j ELSE job[v]
  BY <1>1 DEF Outcome, PoolOK
<1>3. PoolOK'
  BY <1>1, Kinds DEF PoolOK, Outcome, ServiceQueue, Job
<1>4. SessionOK'
  BY <1>1 DEF SessionOK, Outcome, Unmoved, sessionVars
<1>5. \A v \in Workers \ {w} : job'[v] = job[v] /\ job[v].kind \notin SearchKinds
  BY <1>1, <1>2 DEF OneSearch
<1>6. ~SearchQueued /\ ~SearchQueued' /\ answer = Pending
  BY <1>1 DEF OneSearch, Outcome, SearchQueued
<1>7. OneSearch'
  BY <1>2, <1>5, <1>6, Kinds DEF OneSearch, Outcome, SearchKinds
<1>8. AllCurrent'
  <2>1. UNCHANGED <<parserState, rebuildGen, appliedGen>>
    BY DEF Outcome, Unmoved, serviceVars
  <2>2. SUFFICES ASSUME NEW v \in Workers PROVE CurrentJob(job[v])'
    BY DEF AllCurrent
  <2>3. CASE v = w
    <3>1. CurrentJob(j)
      BY DEF Outcome, CurrentJob, Idle
    <3> QED BY <1>2, <2>1, <2>3, <3>1 DEF CurrentJob, Current
  <2>4. CASE v # w
    BY <1>5, <2>4 DEF CurrentJob, SearchKinds
  <2> QED BY <2>3, <2>4
<1>9. AnswersCurrentParser'
  BY <1>1 DEF Outcome, AnswersCurrentParser, Answered
<1> QED BY <1>3, <1>4, <1>7, <1>8, <1>9

-----------------------------------------------------------------------------
(* The invariant through every step. *)

\* A message is handled while nothing is searched.
LEMMA MessageInv ==
  ASSUME SearchInv, answer # Pending, Posts, UNCHANGED answer, SessionOK'
  PROVE  (PoolOK /\ SessionOK /\ OneSearch /\ AllCurrent /\ AnswersCurrentParser)'
<1>1. PoolOK /\ OneSearch /\ AllCurrent /\ AnswersCurrentParser
  BY DEF SearchInv
<1>2. UNCHANGED job /\ \A w \in Workers : job[w].kind \notin SearchKinds
  BY <1>1 DEF OneSearch, Posts
<1>3. ~SearchQueued' /\ ServiceQueue' = queue'
  BY WithAndWithout DEF Posts, SearchQueued, ServiceQueue
<1>4. PoolOK'
  BY <1>1, <1>2, <1>3 DEF PoolOK
<1>5. OneSearch'
  BY <1>1, <1>2, <1>3 DEF OneSearch
<1>6. AllCurrent'
  BY <1>2 DEF AllCurrent, CurrentJob, SearchKinds
<1>7. AnswersCurrentParser'
  BY <1>1 DEF AnswersCurrentParser, Answered
<1> QED BY <1>4, <1>5, <1>6, <1>7

\* A request is posted behind the tasks of the service, or answered at once.
LEMMA RequestStep ==
  ASSUME SearchInv, NEW u \in Uris, GetSimilarText(u)
  PROVE  /\ UNCHANGED Service!vars
         /\ (PoolOK /\ SessionOK /\ OneSearch /\ AllCurrent /\ AnswersCurrentParser)'
<1>1. /\ PoolOK /\ SessionOK /\ OneSearch /\ AllCurrent /\ AnswersCurrentParser
      /\ Service!TypeOK
  BY DEF SearchInv, Service!TablesOK
<1>2. UNCHANGED <<job, serviceVars, disk, submitted, sessionVars>>
  BY DEF GetSimilarText, Unmoved
<1>3. ~SearchQueued /\ queue = ServiceQueue /\ queue \in Seq(Task)
      /\ \A w \in Workers : job[w].kind \notin SearchKinds
  BY <1>1, TwoQueues DEF OneSearch, GetSimilarText
<1>4. PICK text \in IF docs[u] # None THEN {docs[u].text} ELSE Loads(PathOf[u]) :
        LET request == [kind |-> "search", file |-> PathOf[u], text |-> text,
                        open |-> docs[u] # None]
        IN  IF text \in {Absent, Unreadable}
            THEN Answer(request, {}, FALSE) /\ UNCHANGED queue
            ELSE queue' = Append(queue, request) /\ answer' = Pending
  BY DEF GetSimilarText
<1> DEFINE request == [kind |-> "search", file |-> PathOf[u], text |-> text,
                       open |-> docs[u] # None]
<1>5. \/ Answer(request, {}, FALSE) /\ UNCHANGED queue
      \/ /\ request \in SearchTask
         /\ queue' = Append(queue, request) /\ answer' = Pending
  <2>1. text \notin {Absent, Unreadable} => text \in Texts
    BY <1>1, <1>4, SessionAssumption, PathAssumption
    DEF SessionOK, Loads, Service!TypeOK
  <2>2. text \in Texts => request \in SearchTask
    BY PathAssumption DEF SearchTask
  <2> QED BY <1>4, <2>1, <2>2
<1> HIDE DEF request
<1>6. /\ ServiceQueue' = ServiceQueue
      /\ queue' = ServiceQueue' \/ \E r \in SearchTask : queue' = Append(ServiceQueue', r)
      /\ SearchQueued' => answer' = Pending
  BY <1>3, <1>5, WithAndWithout DEF ServiceQueue, SearchQueued
<1>7. UNCHANGED Service!vars
  BY <1>2, <1>6
  DEF serviceVars, Service!vars, Service!serviceVars, Service!poolVars, ServiceJob
<1>8. PoolOK' /\ SessionOK'
  BY <1>1, <1>2, <1>6 DEF PoolOK, SessionOK, sessionVars
<1>9. OneSearch'
  BY <1>2, <1>3, <1>6 DEF OneSearch
<1>10. AllCurrent'
  BY <1>2, <1>3 DEF AllCurrent, CurrentJob, SearchKinds
<1>11. AnswersCurrentParser'
  BY <1>5, EmptyAnswer DEF AnswersCurrentParser, Answered
<1> QED BY <1>7, <1>8, <1>9, <1>10, <1>11

\* What a step of the service's pool does to the threads: it takes the first
\* task, or it goes on with a task of the service.
LEMMA PoolFrame ==
  ASSUME PoolOK, NEW w \in Workers, PoolStep(w)
  PROVE  /\ parserState' = parserState /\ rebuildGen' = rebuildGen
         /\ appliedGen' \in {appliedGen, rebuildGen}
         /\ \/ /\ job[w] = Idle /\ queue # << >>
               /\ job' = [job EXCEPT ![w] = Head(queue)] /\ queue' = Tail(queue)
            \/ /\ job[w].kind \notin SearchKinds /\ UNCHANGED queue
               /\ \E j : j.kind \notin SearchKinds /\ job' = [job EXCEPT ![w] = j]
<1>1. CASE StartTask(w)
  BY <1>1 DEF StartTask, serviceVars
<1>2. CASE RebuildScan(w)
  BY <1>2 DEF RebuildScan, serviceVars, SearchKinds
<1>3. CASE RebuildIngest(w)
  <2>1. job[w].kind \notin SearchKinds /\ UNCHANGED <<serviceVars, queue>>
    BY <1>3 DEF RebuildIngest, SearchKinds
  <2>2. PICK todo, tabs : job' = [job EXCEPT ![w].todo = todo, ![w].built = tabs]
    BY <1>3 DEF RebuildIngest, PoolOK
  <2> DEFINE j == [job[w] EXCEPT !.todo = todo, !.built = tabs]
  <2>3. job' = [job EXCEPT ![w] = j]
    BY <2>2 DEF PoolOK
  <2>4. j.kind = "building"
    BY <1>3, JobsByKind DEF RebuildIngest, Building
  <2> QED BY <2>1, <2>3, <2>4 DEF serviceVars, SearchKinds
<1>4. CASE RebuildApply(w)
  BY <1>4 DEF RebuildApply, IsCurrent, SearchKinds, Idle
<1>5. CASE RebuildFail(w) \/ NotifyIndexReady(w)
  BY <1>5 DEF RebuildFail, NotifyIndexReady, serviceVars, SearchKinds, Idle
<1>6. CASE OpenUpdateCommit(w) \/ ClosedRefreshCommit(w)
  BY <1>6 DEF OpenUpdateCommit, ClosedRefreshCommit, SearchKinds, Idle
<1>7. CASE ClosedRefreshRead(w)
  <2>1. job[w].kind \notin SearchKinds /\ UNCHANGED <<serviceVars, queue>>
    BY <1>7 DEF ClosedRefreshRead, SearchKinds
  <2>2. PICK text : job' = [job EXCEPT ![w] =
                      [kind |-> "refreshing", task |-> job[w], read |-> text]]
    BY <1>7 DEF ClosedRefreshRead
  <2> QED BY <2>1, <2>2 DEF serviceVars, SearchKinds
<1> QED BY <1>1, <1>2, <1>3, <1>4, <1>5, <1>6, <1>7 DEF PoolStep

\* A step of the service's pool, while a search may be waiting or under way.
LEMMA PoolStepInv ==
  ASSUME SearchInv, Service!TypeOK', NEW w \in Workers, PoolStep(w),
         UNCHANGED <<sessionVars, answer>>
  PROVE  (PoolOK /\ SessionOK /\ OneSearch /\ AllCurrent /\ AnswersCurrentParser)'
<1>1. /\ PoolOK /\ SessionOK /\ OneSearch /\ AllCurrent /\ AnswersCurrentParser
      /\ Service!TypeOK
  BY DEF SearchInv, Service!TablesOK
<1>2. PICK j : job' = [job EXCEPT ![w] = j] /\ job[w].kind \notin SearchKinds
  BY <1>1, PoolFrame, Kinds DEF SearchKinds
<1>3. \A v \in Workers : job'[v] = IF v = w THEN j ELSE job[v]
  BY <1>1, <1>2 DEF PoolOK
<1>4. /\ queue' = ServiceQueue' \/ \E r \in SearchTask : queue' = Append(ServiceQueue', r)
      /\ SearchQueued' => SearchQueued /\ j.kind \notin SearchKinds
      /\ j.kind \in SearchKinds => SearchQueued /\ ~SearchQueued' /\ j \in SearchTask
  <2>1. CASE /\ job[w].kind \notin SearchKinds /\ UNCHANGED queue
             /\ \E i : i.kind \notin SearchKinds /\ job' = [job EXCEPT ![w] = i]
    <3>1. j.kind \notin SearchKinds
      BY <1>1, <1>3, <2>1 DEF PoolOK
    <3> QED BY <1>1, <2>1, <3>1 DEF PoolOK, ServiceQueue, SearchQueued
  <2>2. CASE queue # << >> /\ job' = [job EXCEPT ![w] = Head(queue)] /\ queue' = Tail(queue)
    <3>1. j = Head(queue)
      BY <1>1, <1>3, <2>2 DEF PoolOK
    <3>2. CASE ServiceQueue = << >>
      <4>1. PICK r \in SearchTask : SearchQueued /\ queue = Append(ServiceQueue, r)
        BY <1>1, <2>2, <3>2, TwoQueues
      <4>2. Head(queue) = r /\ Tail(queue) = << >> /\ ServiceQueue \in Seq(Task)
        BY <1>1, <3>2, <4>1, TwoQueues, BehindTheOthers
      <4>3. ~SearchQueued' /\ queue' = ServiceQueue'
        BY <2>2, <3>2, <4>2, WithAndWithout DEF ServiceQueue, SearchQueued
      <4> QED BY <3>1, <4>1, <4>2, <4>3
    <3>3. CASE ServiceQueue # << >>
      <4>1. ServiceQueue \in Seq(Task) /\ Head(ServiceQueue) \in Task
            /\ Tail(ServiceQueue) \in Seq(Task)
        BY <1>1, <3>3, TwoQueues
      <4>2. Head(queue) = Head(ServiceQueue)
        BY <1>1, <3>3, <4>1, TwoQueues, BehindTheOthers
      <4>3. j.kind \notin SearchKinds
        BY <3>1, <4>1, <4>2, Kinds
      <4>4. CASE ~SearchQueued
        <5>1. queue' = Tail(ServiceQueue)
          BY <1>1, <2>2, <4>4, TwoQueues
        <5> QED BY <4>1, <4>3, <5>1, WithAndWithout DEF ServiceQueue, SearchQueued
      <4>5. CASE SearchQueued
        <5>1. PICK r \in SearchTask : queue = Append(ServiceQueue, r)
          BY <1>1, <4>5, TwoQueues
        <5>2. queue' = Append(Tail(ServiceQueue), r)
          BY <2>2, <3>3, <4>1, <5>1, BehindTheOthers
        <5> QED BY <4>1, <4>3, <4>5, <5>2, WithAndWithout DEF ServiceQueue
      <4> QED BY <4>4, <4>5
    <3> QED BY <3>2, <3>3
  <2> QED BY <1>1, <2>1, <2>2, PoolFrame
<1>5. PoolOK'
  <2>1. \A v \in Workers : job'[v] \in Job \cup SearchJob
    <3> SUFFICES ASSUME NEW v \in Workers PROVE job'[v] \in Job \cup SearchJob
      OBVIOUS
    <3>1. CASE job'[v].kind \notin SearchKinds
      <4>1. ServiceJob'[v] = job'[v]
        BY <3>1 DEF ServiceJob, Unless
      <4> QED BY <4>1, SameTypes DEF Service!TypeOK
    <3>2. CASE job'[v].kind \in SearchKinds
      BY <1>1, <1>3, <1>4, <3>2 DEF PoolOK, SearchJob
    <3> QED BY <3>1, <3>2
  <2>2. job' \in [Workers -> Job \cup SearchJob]
    BY <1>1, <1>2, <2>1 DEF PoolOK
  <2> QED BY <1>4, <2>2 DEF PoolOK
<1>6. SessionOK' /\ AnswersCurrentParser'
  BY <1>1 DEF SessionOK, sessionVars, AnswersCurrentParser, Answered
<1>7. OneSearch'
  BY <1>1, <1>2, <1>3, <1>4 DEF OneSearch
<1>8. AllCurrent'
  <2>1. parserState' = parserState /\ rebuildGen' = rebuildGen
        /\ appliedGen' \in {appliedGen, rebuildGen}
    BY <1>1, PoolFrame
  <2>2. SUFFICES ASSUME NEW v \in Workers PROVE CurrentJob(job[v])'
    BY DEF AllCurrent
  <2>3. CASE job'[v].kind \notin {"waiting", "searching", "scoring", "found"}
    BY <2>3 DEF CurrentJob
  <2>4. CASE job'[v].kind \in {"waiting", "searching", "scoring", "found"}
    <3>1. v # w
      BY <1>3, <1>4, <2>4 DEF SearchTask, SearchKinds
    <3>2. job'[v] = job[v] /\ CurrentJob(job[v])
      BY <1>1, <1>3, <3>1 DEF AllCurrent
    <3> QED BY <2>1, <3>2 DEF CurrentJob, Current
  <2> QED BY <2>3, <2>4
<1> QED BY <1>5, <1>6, <1>7, <1>8

LEMMA InitSearchInv == SearchInit => Service!Init /\ SearchInv
<1> SUFFICES ASSUME SearchInit PROVE Service!Init /\ SearchInv
  OBVIOUS
<1>1. queue = << >> /\ job = [w \in Workers |-> Idle] /\ answer = None
  BY DEF SearchInit, SessionInit, Init
<1>2. << >> \in Seq(Task)
  OBVIOUS
<1>3. ServiceQueue = << >> /\ ~SearchQueued
  BY <1>1, <1>2, WithAndWithout DEF ServiceQueue, SearchQueued
<1>4. \A w \in Workers : job[w] = Idle /\ job[w].kind \notin SearchKinds
  BY <1>1 DEF Idle, SearchKinds
<1>5. ServiceJob = [w \in Workers |-> Service!Idle]
  BY <1>4, SameChecks DEF ServiceJob, Unless
<1>6. Service!Init
  BY <1>3, <1>5, SameTables DEF SearchInit, SessionInit, Init, Service!Init
<1>7. Service!TablesOK /\ Service!ContentInv
  BY <1>6, Service!InitTablesOK, Service!InitContent,
     ParseAssumption, NoneAssumption, PathAssumption, FolderAssumption, DiskAssumption,
     DocumentAssumption
<1>8. PoolOK /\ OneSearch
  BY <1>1, <1>3, <1>4 DEF PoolOK, OneSearch, Job
<1>9. SessionOK
  BY DEF SearchInit, SessionInit, SessionOK
<1>10. AllCurrent /\ AnswersCurrentParser
  BY <1>1, <1>4 DEF AllCurrent, CurrentJob, SearchKinds, AnswersCurrentParser, Answered
<1> QED BY <1>6, <1>7, <1>8, <1>9, <1>10 DEF SearchInv

LEMMA StepSearchInv ==
  SearchInv /\ [SearchNext]_searchVars => [Service!Next]_Service!vars /\ SearchInv'
<1> SUFFICES ASSUME SearchInv, [SearchNext]_searchVars
             PROVE  [Service!Next]_Service!vars /\ SearchInv'
  OBVIOUS
<1> DEFINE Own == PoolOK /\ SessionOK /\ OneSearch /\ AllCurrent /\ AnswersCurrentParser
<1>1. Own /\ Service!TablesOK /\ Service!ContentInv /\ Service!TypeOK
  BY DEF SearchInv, Service!TablesOK
<1>2. [Service!Next]_Service!vars => (Service!TablesOK /\ Service!ContentInv)'
  BY <1>1, Service!StepTablesOK, Service!StepContent,
     ParseAssumption, NoneAssumption, PathAssumption, FolderAssumption, DiskAssumption,
     DocumentAssumption
<1>3. [Service!Next]_Service!vars => Service!TypeOK'
  BY <1>2 DEF Service!TablesOK
<1> HIDE DEF Own
<1>4. CASE HandleMessage
  <2>1. answer # Pending /\ SessionMessage /\ UNCHANGED answer
    BY <1>4 DEF HandleMessage
  <2>2. ~SearchQueued
    BY <1>1, <2>1 DEF Own, OneSearch
  <2>3. Posts /\ SessionOK' /\ (Service!Call \/ UNCHANGED Service!vars)
    BY <1>1, <2>1, <2>2, MessageMaps DEF Own
  <2>4. [Service!Next]_Service!vars
    BY <2>3 DEF Service!Next
  <2>5. Own'
    BY <2>1, <2>3, MessageInv DEF Own
  <2> QED BY <1>2, <2>4, <2>5 DEF Own, SearchInv
<1>5. ASSUME NEW u \in Uris, GetSimilarText(u)
      PROVE  [Service!Next]_Service!vars /\ SearchInv'
  <2>1. UNCHANGED Service!vars /\ Own'
    BY <1>5, RequestStep DEF Own
  <2> QED BY <1>2, <2>1 DEF Own, SearchInv
<1>6. ASSUME NEW w \in Workers, SearchStep(w)
      PROVE  [Service!Next]_Service!vars /\ SearchInv'
  <2>1. PICK j : Outcome(w, j)
    BY <1>6, SearchOutcome
  <2>2. job[w].kind \in SearchKinds
    BY <1>6, SearchOutcome
  <2>3. UNCHANGED Service!vars
    BY <1>1, <2>1, <2>2, OutcomeMaps DEF Own
  <2>4. Own'
    BY <2>1, <2>2, OutcomeInv DEF Own
  <2> QED BY <1>2, <2>3, <2>4 DEF Own, SearchInv
<1>7. ASSUME NEW w \in Workers, ServiceStep(w)
      PROVE  [Service!Next]_Service!vars /\ SearchInv'
  <2>1. PoolStep(w) /\ UNCHANGED <<sessionVars, answer>>
    BY <1>7 DEF ServiceStep, SessionPoolStep
  <2>2. [Service!Next]_Service!vars
    BY <1>1, <2>1, PoolMaps DEF Own, Service!Next
  <2>3. Own'
    BY <1>3, <2>1, <2>2, PoolStepInv DEF Own
  <2> QED BY <1>2, <2>2, <2>3 DEF Own, SearchInv
<1>8. CASE SessionBackground /\ UNCHANGED answer
  <2>1. UNCHANGED <<serviceVars, queue, job, submitted, docs, folders, answer>>
    BY <1>8
    DEF SessionBackground, SyncWindowPasses, DiskChange, vars, poolVars, sessionVars
  <2>2. UNCHANGED <<ServiceQueue, ServiceJob, SearchQueued>>
    BY <2>1 DEF ServiceQueue, ServiceJob, SearchQueued
  <2>3. UNCHANGED disk \/ \E f \in Files, text \in Texts \cup {Absent} : DiskChange(f, text)
    BY <1>8 DEF SessionBackground, SyncWindowPasses, vars
  <2>4. [Service!Next]_Service!vars
    BY <2>1, <2>2, <2>3
    DEF DiskChange, Service!DiskChange, Service!Next, Service!vars, serviceVars,
        Service!serviceVars, Service!poolVars
  <2>5. Own'
    BY <1>1, <2>1, <2>2
    DEF Own, PoolOK, SessionOK, OneSearch, AllCurrent, CurrentJob, Current, serviceVars,
        AnswersCurrentParser, Answered
  <2> QED BY <1>2, <2>4, <2>5 DEF Own, SearchInv
<1>9. CASE UNCHANGED searchVars
  <2>1. UNCHANGED <<serviceVars, queue, job, disk, submitted, docs, folders, answer>>
    BY <1>9 DEF searchVars, allVars, vars, poolVars, sessionVars
  <2>2. UNCHANGED <<ServiceQueue, ServiceJob, SearchQueued>>
    BY <2>1 DEF ServiceQueue, ServiceJob, SearchQueued
  <2>3. UNCHANGED Service!vars
    BY <2>1, <2>2 DEF Service!vars, serviceVars, Service!serviceVars, Service!poolVars
  <2>4. Own'
    BY <1>1, <2>1, <2>2
    DEF Own, PoolOK, SessionOK, OneSearch, AllCurrent, CurrentJob, Current, serviceVars,
        AnswersCurrentParser, Answered
  <2> QED BY <1>2, <2>3, <2>4 DEF Own, SearchInv
<1> QED BY <1>4, <1>5, <1>6, <1>7, <1>8, <1>9 DEF SearchNext

LEMMA SearchInvAlways == SearchSpec => []SearchInv
BY InitSearchInv, StepSearchInv, PTL DEF SearchSpec

-----------------------------------------------------------------------------
(* One task at a time and a patient editor: the index follows the editor. *)

\* A task or job that ends in an update of file f.
Touches(task, f) ==
  \/ task.kind = "open" /\ PathOf[task.doc.uri] = f
  \/ task.kind = "close" /\ task.file = f
  \/ task.kind = "refreshing" /\ task.task.file = f

\* The update is the right one for f: the text of d, the document open on it,
\* or, when none is, what is on disk, x, unless that does not load.
Brings(task, f, p, d, x) ==
  IF d # None
  THEN /\ task.kind = "open" /\ PathOf[task.doc.uri] = f
       /\ task.parser = p /\ task.doc.text = d.text
  ELSE \/ task.kind = "close" /\ task.file = f /\ task.parser = p
       \/ /\ task.kind = "refreshing" /\ task.task.file = f
          /\ task.task.parser = p /\ task.read \in {x, Unreadable}

\* The tables show the right text of f.
Holds(t, f, p, d, x) ==
  IF d # None
  THEN Shows(t, f, p, d.text)
  ELSE /\ t.versions[f] = None
       /\ FileLines(t, f) # {} => x \in Texts /\ Shows(t, f, p, x)

\* No version newer than the open document's is recorded or about to be.
VersionFits(v, d) == d # None /\ v # None => v <= d.version
OpenFits(task, f, d) ==
  task.kind = "open" /\ PathOf[task.doc.uri] = f => VersionFits(task.doc.version, d)
Fits(q, j, t, f, d) ==
  /\ VersionFits(t.versions[f], d)
  /\ \A k \in DOMAIN q : OpenFits(q[k], f, d)
  /\ \A w \in Workers : OpenFits(j[w], f, d)

Leaves(q, f) == \A k \in DOMAIN q : ~Touches(q[k], f)
Ends(q, f, p, d, x) ==
  \E k \in DOMAIN q : /\ Brings(q[k], f, p, d, x)
                      /\ \A m \in DOMAIN q : m > k => ~Touches(q[m], f)

\* The last update of f that is posted, under way or done is the right one.
Keeps(q, j, t, f, p, d, x) ==
  \/ Ends(q, f, p, d, x)
  \/ Leaves(q, f) /\ \E w \in Workers : Brings(j[w], f, p, d, x)
  \/ /\ Leaves(q, f) /\ \A w \in Workers : ~Touches(j[w], f)
     /\ Holds(t, f, p, d, x)

SettledFile(f) ==
  /\ Keeps(queue, job, tables, f, parserState, docs[UriOf[f]], disk[f])
  /\ Fits(queue, job, tables, f, docs[UriOf[f]])

Settled ==
  parserState # None /\ appliedGen = rebuildGen =>
    \A f \in TextFiles : InWorkspace(roots, f) => SettledFile(f)

\* One task at a time.
Alone == \A v, w \in Workers : job[v] # Idle /\ job[w] # Idle => v = w

OpenOK ==
  /\ \A d \in submitted : d.uri = UriOf[PathOf[d.uri]]
  /\ \A u \in Uris : docs[u] # None =>
       /\ docs[u] \in submitted
       /\ disk[PathOf[u]] \in Texts
       /\ \A w \in Folders : PathOf[u] \notin Unscanned[w]

\* Tasks are of text files that have been open.
Noted(task, S) ==
  /\ task.kind = "open" => task.doc \in S /\ PathOf[task.doc.uri] \in TextFiles
  /\ task.kind = "close" => task.file \in TextFiles /\ \E d \in S : d.uri = UriOf[task.file]
  /\ task.kind = "refreshing" =>
       task.task.file \in TextFiles /\ \E d \in S : d.uri = UriOf[task.task.file]

AllNoted ==
  /\ \A k \in DOMAIN queue : Noted(queue[k], submitted)
  /\ \A w \in Workers : Noted(job[w], submitted)
  /\ tables.indexed \subseteq TextFiles

\* A rebuild is that of the configuration set last and has the open documents.
Latest(task) ==
  /\ task.parser = parserState /\ task.gen = rebuildGen /\ task.docs = OpenDocuments
  /\ appliedGen < rebuildGen

BuiltFile(t, todo, fs, f, p, d, x) ==
  /\ f \in todo => FileLines(t, f) = {} /\ t.versions[f] = None
  /\ f \notin todo /\ (d # None => InWorkspace(fs, f)) =>
       Holds(t, f, p, d, x) /\ VersionFits(t.versions[f], d)

RebuildOK(j) ==
  /\ j.kind = "rebuild" => Latest(j)
  /\ j.kind = "building" =>
       /\ Latest(j.task)
       /\ j.built.indexed \subseteq TextFiles /\ j.todo \subseteq TextFiles
       /\ \A f \in TextFiles :
            BuiltFile(j.built, j.todo, j.task.folders, f, parserState,
                      docs[UriOf[f]], disk[f])

AllRebuilds ==
  /\ \A k \in DOMAIN queue : RebuildOK(queue[k])
  /\ \A w \in Workers : RebuildOK(job[w])
  /\ \A k, m \in DOMAIN queue :
       queue[k].kind = "rebuild" /\ m > k => queue[m].kind = "search"
  /\ \A w \in Workers : job[w].kind \in {"rebuild", "building"} =>
       \A k \in DOMAIN queue : queue[k].kind = "search"

\* A request is of the text its document still has.
RequestOK(request) ==
  request.open => /\ docs[UriOf[request.file]] # None
                  /\ docs[UriOf[request.file]].text = request.text

SeesEdits(request, refs, p) ==
  request.open => \A info \in refs : info.file = request.file =>
                    info.line \in ParsedLines(p, request.text)

SearchingOK(search) ==
  /\ RequestOK(search.request) /\ search.request.file \in TextFiles
  /\ ~search.late => SeesEdits(search.request, search.refs, parserState)

SearchJobOK(j) ==
  /\ j.kind = "search" => RequestOK(j)
  /\ j.kind = "waiting" =>
       /\ RequestOK(j.request) /\ j.request.file \in TextFiles
       /\ parserState # None /\ appliedGen < rebuildGen
  /\ j.kind = "searching" => SearchingOK(j)
  /\ j.kind \in {"scoring", "found"} => SearchingOK(j.search)

AllSearches ==
  /\ \A k \in DOMAIN queue : SearchJobOK(queue[k])
  /\ \A w \in Workers : SearchJobOK(job[w])
  /\ \A w \in Workers :
      job[w].kind \in {"search", "waiting", "searching", "scoring", "found"} => queue = << >>

SerialInv ==
  /\ Alone /\ OpenOK /\ AllNoted /\ AllRebuilds /\ Settled /\ AllSearches
  /\ AnswersSeeEdits
-----------------------------------------------------------------------------
(* Queues and single tasks. *)

KeepsOne(q, task, t, f, p, d, x) ==
  \/ Ends(q, f, p, d, x)
  \/ Leaves(q, f) /\ Brings(task, f, p, d, x)
  \/ Leaves(q, f) /\ ~Touches(task, f) /\ Holds(t, f, p, d, x)

FitsOne(q, task, t, f, d) ==
  /\ VersionFits(t.versions[f], d)
  /\ \A k \in DOMAIN q : OpenFits(q[k], f, d)
  /\ OpenFits(task, f, d)

LEMMA IdleTouchesNothing ==
  /\ \A f : ~Touches(Idle, f)
  /\ \A task, f, p, d, x : Brings(task, f, p, d, x) => Touches(task, f)
  /\ \A task, f, d : ~Touches(task, f) => OpenFits(task, f, d)
<1>1. \A f : ~Touches(Idle, f)
  BY DEF Touches, Idle
<1>2. \A task, f, p, d, x : Brings(task, f, p, d, x) => Touches(task, f)
  BY DEF Brings, Touches
<1>3. \A task, f, d : ~Touches(task, f) => OpenFits(task, f, d)
  BY DEF OpenFits, Touches
<1> QED BY <1>1, <1>2, <1>3

\* With one thread at work, its task is all there is besides the queue.
LEMMA OneAtWork ==
  ASSUME NEW w \in Workers, NEW j, \A v \in Workers \ {w} : j[v] = Idle,
         NEW q, NEW t, NEW f, NEW p, NEW d, NEW x
  PROVE  /\ Keeps(q, j, t, f, p, d, x) <=> KeepsOne(q, j[w], t, f, p, d, x)
         /\ Fits(q, j, t, f, d) <=> FitsOne(q, j[w], t, f, d)
<1>1. \A v \in Workers \ {w} : ~Touches(j[v], f) /\ ~Brings(j[v], f, p, d, x)
                                 /\ OpenFits(j[v], f, d)
  BY IdleTouchesNothing
<1>2. (\E v \in Workers : Brings(j[v], f, p, d, x)) <=> Brings(j[w], f, p, d, x)
  BY <1>1
<1>3. (\A v \in Workers : ~Touches(j[v], f)) <=> ~Touches(j[w], f)
  BY <1>1
<1>4. (\A v \in Workers : OpenFits(j[v], f, d)) <=> OpenFits(j[w], f, d)
  BY <1>1
<1>5. Keeps(q, j, t, f, p, d, x) <=> KeepsOne(q, j[w], t, f, p, d, x)
  BY <1>2, <1>3 DEF Keeps, KeepsOne
<1>6. Fits(q, j, t, f, d) <=> FitsOne(q, j[w], t, f, d)
  BY <1>4 DEF Fits, FitsOne
<1> QED BY <1>5, <1>6

\* A task posted last.
LEMMA Posted ==
  ASSUME NEW T, NEW q \in Seq(T), NEW task \in T
  PROVE  /\ Len(q) + 1 \in DOMAIN Append(q, task)
         /\ Append(q, task)[Len(q) + 1] = task
         /\ \A k \in DOMAIN Append(q, task) : ~(k > Len(q) + 1)
         /\ \A k \in DOMAIN q : k \in DOMAIN Append(q, task) /\ Append(q, task)[k] = q[k]
         /\ \A k \in DOMAIN Append(q, task) :
              Append(q, task)[k] = task \/ (k \in DOMAIN q /\ Append(q, task)[k] = q[k])
<1>1. /\ DOMAIN q = 1 .. Len(q) /\ DOMAIN Append(q, task) = 1 .. (Len(q) + 1)
      /\ Len(q) \in Nat
      /\ Append(q, task)[Len(q) + 1] = task
      /\ \A k \in 1 .. Len(q) : Append(q, task)[k] = q[k]
  OBVIOUS
<1>2. \A k \in 1 .. (Len(q) + 1) : k = Len(q) + 1 \/ k \in 1 .. Len(q)
  BY <1>1
<1>3. /\ Len(q) + 1 \in 1 .. (Len(q) + 1)
      /\ \A k \in 1 .. (Len(q) + 1) : ~(k > Len(q) + 1)
      /\ \A k \in 1 .. Len(q) : k \in 1 .. (Len(q) + 1)
  BY <1>1
<1> QED BY <1>1, <1>2, <1>3

LEMMA PostedRight ==
  ASSUME NEW T, NEW q \in Seq(T), NEW task \in T, NEW f, NEW p, NEW d, NEW x,
         Brings(task, f, p, d, x)
  PROVE  Ends(Append(q, task), f, p, d, x)
<1> DEFINE a == Append(q, task)
           k == Len(q) + 1
<1>1. /\ k \in DOMAIN a /\ a[k] = task /\ \A m \in DOMAIN a : ~(m > k)
  BY Posted
<1> HIDE DEF a, k
<1>2. Ends(a, f, p, d, x)
  BY <1>1 DEF Ends
<1> QED BY <1>2 DEF a

LEMMA PostedElsewhere ==
  ASSUME NEW T, NEW q \in Seq(T), NEW task \in T, NEW f, ~Touches(task, f)
  PROVE  /\ Leaves(q, f) => Leaves(Append(q, task), f)
         /\ \A p, d, x : Ends(q, f, p, d, x) => Ends(Append(q, task), f, p, d, x)
<1> DEFINE a == Append(q, task)
<1>1. \A k \in DOMAIN q : k \in DOMAIN a /\ a[k] = q[k]
  BY Posted
<1>2. \A k \in DOMAIN a : a[k] = task \/ (k \in DOMAIN q /\ a[k] = q[k])
  BY Posted
<1> HIDE DEF a
<1>3. Leaves(q, f) => Leaves(a, f)
  BY <1>2 DEF Leaves
<1>4. ASSUME NEW p, NEW d, NEW x, Ends(q, f, p, d, x)
      PROVE  Ends(a, f, p, d, x)
  <2>1. PICK k \in DOMAIN q : /\ Brings(q[k], f, p, d, x)
                              /\ \A m \in DOMAIN q : m > k => ~Touches(q[m], f)
    BY <1>4 DEF Ends
  <2> QED BY <1>1, <1>2, <2>1 DEF Ends
<1> QED BY <1>3, <1>4 DEF a

\* The first task taken.
LEMMA Taken ==
  ASSUME NEW T, NEW q \in Seq(T), q # << >>
  PROVE  /\ 1 \in DOMAIN q /\ Head(q) = q[1] /\ Tail(q) \in Seq(T)
         /\ \A k \in DOMAIN Tail(q) : k + 1 \in DOMAIN q /\ k + 1 > 1 /\ Tail(q)[k] = q[k + 1]
         /\ \A k \in DOMAIN q : k = 1 \/ (k - 1 \in DOMAIN Tail(q) /\ Tail(q)[k - 1] = q[k])
         /\ DOMAIN q \subseteq Int /\ DOMAIN Tail(q) \subseteq Int
<1>1. /\ DOMAIN q = 1 .. Len(q) /\ DOMAIN Tail(q) = 1 .. (Len(q) - 1)
      /\ Len(q) \in Nat \ {0} /\ Tail(q) \in Seq(T) /\ Head(q) = q[1]
      /\ \A k \in 1 .. (Len(q) - 1) : Tail(q)[k] = q[k + 1]
  OBVIOUS
<1>2. /\ 1 \in 1 .. Len(q)
      /\ \A k \in 1 .. (Len(q) - 1) : k + 1 \in 1 .. Len(q) /\ k + 1 > 1
  BY <1>1
<1>3. \A k \in 1 .. Len(q) : k = 1 \/ (k - 1 \in 1 .. (Len(q) - 1) /\ (k - 1) + 1 = k)
  BY <1>1
<1>4. \A k \in 1 .. Len(q) : k = 1 \/ (k - 1 \in 1 .. (Len(q) - 1) /\ Tail(q)[k - 1] = q[k])
  BY <1>1, <1>3
<1>5. 1 .. Len(q) \subseteq Int /\ 1 .. (Len(q) - 1) \subseteq Int
  OBVIOUS
<1> QED BY <1>1, <1>2, <1>4, <1>5

LEMMA TakenKeeps ==
  ASSUME NEW T, NEW q \in Seq(T), q # << >>, NEW t, NEW f, NEW p, NEW d, NEW x,
         KeepsOne(q, Idle, t, f, p, d, x)
  PROVE  KeepsOne(Tail(q), Head(q), t, f, p, d, x)
<1>0. ~Touches(Idle, f) /\ ~Brings(Idle, f, p, d, x)
  BY IdleTouchesNothing
<1>1. Leaves(q, f) => Leaves(Tail(q), f) /\ ~Touches(Head(q), f)
  BY Taken DEF Leaves
<1>2. ASSUME NEW k \in DOMAIN q, Brings(q[k], f, p, d, x),
             \A m \in DOMAIN q : m > k => ~Touches(q[m], f)
      PROVE  KeepsOne(Tail(q), Head(q), t, f, p, d, x)
  <2>1. CASE k = 1
    <3>1. Brings(Head(q), f, p, d, x)
      BY <1>2, <2>1, Taken
    <3>2. Leaves(Tail(q), f)
      BY <1>2, <2>1, Taken DEF Leaves
    <3> QED BY <3>1, <3>2 DEF KeepsOne
  <2>2. CASE k # 1
    <3> DEFINE r == Tail(q)
    <3>1. k - 1 \in DOMAIN r /\ Brings(r[k - 1], f, p, d, x)
      BY <1>2, <2>2, Taken
    <3>2. ASSUME NEW m \in DOMAIN r, m > k - 1 PROVE ~Touches(r[m], f)
      <4>1. m + 1 \in DOMAIN q /\ r[m] = q[m + 1] /\ m \in Int /\ k \in Int
        BY Taken
      <4>2. m + 1 > k
        BY <3>2, <4>1
      <4> QED BY <1>2, <4>1, <4>2
    <3>3. Ends(r, f, p, d, x)
      BY <3>1, <3>2 DEF Ends
    <3> QED BY <3>3 DEF KeepsOne
  <2> QED BY <2>1, <2>2
<1>3. CASE Ends(q, f, p, d, x)
  BY <1>2, <1>3 DEF Ends
<1>4. CASE Leaves(q, f) /\ Holds(t, f, p, d, x)
  BY <1>1, <1>4 DEF KeepsOne
<1> QED BY <1>0, <1>3, <1>4 DEF KeepsOne

LEMMA TakenFits ==
  ASSUME NEW T, NEW q \in Seq(T), q # << >>, NEW t, NEW f, NEW d, FitsOne(q, Idle, t, f, d)
  PROVE  FitsOne(Tail(q), Head(q), t, f, d)
BY Taken DEF FitsOne

-----------------------------------------------------------------------------
(* The tables. *)

\* An update of another file leaves what is shown of f.
LEMMA HoldsFrame ==
  ASSUME NEW t \in Tables, NEW t2 \in Tables, NEW f, NEW p, NEW d, NEW x,
         FileLines(t2, f) = FileLines(t, f), t2.versions[f] = t.versions[f],
         t2.nextId >= t.nextId, Holds(t, f, p, d, x)
  PROVE  Holds(t2, f, p, d, x)
<1>1. ASSUME NEW text, Shows(t, f, p, text) PROVE Shows(t2, f, p, text)
  <2>1. PICK first \in 1 .. t.nextId : FileLines(t, f) =
          {[id |-> first + k - 1, file |-> f, line |-> Pairs(p, text)[k]] :
             k \in 1 .. Len(Pairs(p, text))}
    BY <1>1 DEF Shows
  <2>2. first \in 1 .. t2.nextId
    BY DEF Tables, LineId
  <2> QED BY <2>1, <2>2 DEF Shows
<1>2. CASE d # None
  BY <1>1, <1>2 DEF Holds
<1>3. CASE d = None
  BY <1>1, <1>3 DEF Holds
<1> QED BY <1>2, <1>3

LEMMA SameContents ==
  /\ \A t, f : Service!FileLines(t, f) = FileLines(t, f)
  /\ \A t, f, p, text : Service!Shows(t, f, p, text) <=> Shows(t, f, p, text)
  /\ \A t : Service!TablesConsistent(t) <=> TablesConsistent(t)
<1>1. \A t, f : Service!FileLines(t, f) = FileLines(t, f)
  BY DEF Service!FileLines, FileLines
<1>2. \A t, f, p, text : Service!Shows(t, f, p, text) <=> Shows(t, f, p, text)
  BY <1>1, SameParsing DEF Service!Shows, Shows
<1>3. \A t : Service!TablesConsistent(t) <=> TablesConsistent(t)
  BY <1>1 DEF Service!TablesConsistent, TablesConsistent
<1> QED BY <1>1, <1>2, <1>3

\* t2 is t but for what it says of f.
ButFor(f, t2, t) ==
  /\ t2 \in Tables
  /\ \A g \in Files \ {f} : FileLines(t2, g) = FileLines(t, g) /\ t2.versions[g] = t.versions[g]
  /\ t2.nextId >= t.nextId
  /\ t2.indexed \subseteq t.indexed \cup {f}

LEMMA ButForHolds ==
  ASSUME NEW t \in Tables, NEW t2, NEW f, ButFor(f, t2, t), NEW g \in Files, g # f
  PROVE  /\ \A p, d, x : Holds(t, g, p, d, x) => Holds(t2, g, p, d, x)
         /\ t2.versions[g] = t.versions[g]
         /\ FileLines(t2, g) = FileLines(t, g)
<1>1. /\ t2 \in Tables /\ t2.nextId >= t.nextId
      /\ FileLines(t2, g) = FileLines(t, g) /\ t2.versions[g] = t.versions[g]
  BY DEF ButFor
<1> QED BY <1>1, HoldsFrame

LEMMA InstallsButFor ==
  ASSUME NEW t2 \in Tables, NEW t, NEW f, NEW p, NEW text, Service!Installs(t2, t, f, p, text)
  PROVE  ButFor(f, t2, t) /\ Shows(t2, f, p, text)
BY SameContents DEF Service!Installs, ButFor

\* What an update of an open document does to the tables.
LEMMA OpenUpdated ==
  ASSUME NEW t \in Tables, TablesConsistent(t), NEW f \in Files, NEW p \in Parsers,
         NEW text \in Texts, NEW v \in Versions, NEW t2,
         t2 = TagOpen(ReplaceDocument(t, f, Pairs(p, text)), f, v)
  PROVE  ButFor(f, t2, t) /\ Shows(t2, f, p, text) /\ t2.versions[f] = v
<1> DEFINE r == ReplaceDocument(t, f, Pairs(p, text))
<1>1. /\ Service!ReplaceDocument(t, f, Service!Pairs(p, text)) = r
      /\ Service!TagOpen(r, f, v) = t2 /\ Service!Tables = Tables
      /\ Service!TablesConsistent(t)
  BY SameUpdates, SameTables, SameParsing, SameContents
<1>2. Service!Pairs(p, text) \in Seq(Lines)
  BY Service!PairsType,
     ParseAssumption, NoneAssumption, PathAssumption, FolderAssumption, DiskAssumption,
     DocumentAssumption
<1>3. r \in Tables /\ Service!TablesConsistent(r) /\ f \in r.indexed
  BY <1>1, <1>2, Service!ReplaceDocumentConsistent,
     ParseAssumption, NoneAssumption, PathAssumption, FolderAssumption, DiskAssumption,
     DocumentAssumption
<1>4. Service!Installs(r, t, f, p, text)
  BY <1>1, Service!ReplaceInstalls,
     ParseAssumption, NoneAssumption, PathAssumption, FolderAssumption, DiskAssumption,
     DocumentAssumption
<1> HIDE DEF r
<1>5. t2 \in Tables
  BY <1>1, <1>3, Service!TagConsistent,
     ParseAssumption, NoneAssumption, PathAssumption, FolderAssumption, DiskAssumption,
     DocumentAssumption
<1>6. Service!Installs(t2, t, f, p, text) /\ t2.versions[f] = v
  BY <1>1, <1>3, <1>4, Service!TagOpenInstalls,
     ParseAssumption, NoneAssumption, PathAssumption, FolderAssumption, DiskAssumption,
     DocumentAssumption
<1> QED BY <1>5, <1>6, InstallsButFor

LEMMA DiskUpdated ==
  ASSUME NEW t \in Tables, TablesConsistent(t), NEW f \in Files, NEW p \in Parsers,
         NEW text \in Texts, NEW s \in BOOLEAN, NEW t2,
         t2 = TagDisk(ReplaceDocument(t, f, Pairs(p, text)), f, s)
  PROVE  ButFor(f, t2, t) /\ Shows(t2, f, p, text) /\ t2.versions[f] = None
<1> DEFINE r == ReplaceDocument(t, f, Pairs(p, text))
<1>1. /\ Service!ReplaceDocument(t, f, Service!Pairs(p, text)) = r
      /\ Service!TagDisk(r, f, s) = t2 /\ Service!Tables = Tables
      /\ Service!TablesConsistent(t)
  BY SameUpdates, SameTables, SameParsing, SameContents
<1>2. Service!Pairs(p, text) \in Seq(Lines)
  BY Service!PairsType,
     ParseAssumption, NoneAssumption, PathAssumption, FolderAssumption, DiskAssumption,
     DocumentAssumption
<1>3. r \in Tables /\ Service!TablesConsistent(r) /\ f \in r.indexed
  BY <1>1, <1>2, Service!ReplaceDocumentConsistent,
     ParseAssumption, NoneAssumption, PathAssumption, FolderAssumption, DiskAssumption,
     DocumentAssumption
<1>4. Service!Installs(r, t, f, p, text)
  BY <1>1, Service!ReplaceInstalls,
     ParseAssumption, NoneAssumption, PathAssumption, FolderAssumption, DiskAssumption,
     DocumentAssumption
<1> HIDE DEF r
<1>5. t2 \in Tables
  BY <1>1, <1>3, Service!TagConsistent,
     ParseAssumption, NoneAssumption, PathAssumption, FolderAssumption, DiskAssumption,
     DocumentAssumption
<1>6. Service!Installs(t2, t, f, p, text) /\ t2.versions[f] = None
  BY <1>1, <1>3, <1>4, Service!TagDiskInstalls,
     ParseAssumption, NoneAssumption, PathAssumption, FolderAssumption, DiskAssumption,
     DocumentAssumption
<1> QED BY <1>5, <1>6, InstallsButFor

LEMMA Erased ==
  ASSUME NEW t \in Tables, TablesConsistent(t), NEW f \in Files, NEW t2, t2 = EraseFile(t, f)
  PROVE  /\ ButFor(f, t2, t) /\ FileLines(t2, f) = {} /\ t2.versions[f] = None
         /\ t2.indexed \subseteq t.indexed
<1>1. /\ Service!EraseFile(t, f) = t2 /\ Service!Tables = Tables
      /\ Service!TablesConsistent(t)
  BY SameTables, SameContents
<1>2. t2 \in Tables
  BY <1>1, Service!EraseFileConsistent,
     ParseAssumption, NoneAssumption, PathAssumption, FolderAssumption, DiskAssumption,
     DocumentAssumption
<1>3. /\ FileLines(t2, f) = {}
      /\ \A g \in Files \ {f} : FileLines(t2, g) = FileLines(t, g)
                                /\ t2.versions[g] = t.versions[g]
      /\ t2.versions[f] = None /\ t2.nextId = t.nextId /\ t2.indexed = t.indexed \ {f}
  BY <1>1, Service!EraseRemoves, SameContents,
     ParseAssumption, NoneAssumption, PathAssumption, FolderAssumption, DiskAssumption,
     DocumentAssumption
<1>4. t2.nextId >= t.nextId
  BY <1>2, <1>3 DEF Tables, LineId
<1> QED BY <1>2, <1>3, <1>4 DEF ButFor

\* One turn of the ingest loop, for a file that has no line yet.
LEMMA OpenIngested ==
  ASSUME NEW t \in Tables, TablesConsistent(t), NEW f \in Files, NEW p \in Parsers,
         NEW text \in Texts, NEW v \in Versions, FileLines(t, f) = {}, t.versions[f] = None,
         NEW t2, t2 = IngestOpen(t, f, p, text, v)
  PROVE  ButFor(f, t2, t) /\ Shows(t2, f, p, text) /\ t2.versions[f] \in {None, v}
<1> DEFINE a == AddLines(t, f, Pairs(p, text))
<1>1. Service!Tables = Tables /\ Service!TablesConsistent(t) /\ Service!FileLines(t, f) = {}
      /\ Service!IngestOpen(t, f, p, text, v) = t2
      /\ Service!AddLines(t, f, Service!Pairs(p, text)) = a
  BY SameUpdates, SameTables, SameParsing, SameContents
<1>2. t2 \in Tables
  BY <1>1, Service!IngestConsistent,
     ParseAssumption, NoneAssumption, PathAssumption, FolderAssumption, DiskAssumption,
     DocumentAssumption
<1>3. CASE ~Parses(p, text)
  <2>1. t2 = t
    BY <1>3 DEF IngestOpen
  <2>2. Pairs(p, text) = << >>
    BY <1>3 DEF Pairs
  <2>3. t.nextId \in Nat \ {0}
    BY DEF Tables, LineId
  <2>4. Shows(t, f, p, text)
    <3>1. 1 \in 1 .. t.nextId
      BY <2>3
    <3>2. {[id |-> 1 + k - 1, file |-> f, line |-> Pairs(p, text)[k]] :
             k \in 1 .. Len(Pairs(p, text))} = {}
      BY <2>2
    <3> QED BY <3>1, <3>2 DEF Shows
  <2> QED BY <2>1, <2>3, <2>4 DEF ButFor
<1>4. CASE Parses(p, text)
  <2>1. t2 = Service!TagOpen(a, f, v)
    BY <1>4, SameTables DEF IngestOpen
  <2>2. Service!Pairs(p, text) \in Seq(Lines)
    BY Service!PairsType,
       ParseAssumption, NoneAssumption, PathAssumption, FolderAssumption, DiskAssumption,
       DocumentAssumption
  <2>3. a \in Tables
    BY <1>1, <2>2, Service!AddLinesConsistent,
       ParseAssumption, NoneAssumption, PathAssumption, FolderAssumption, DiskAssumption,
       DocumentAssumption
  <2>4. Service!Installs(a, t, f, p, text)
    BY <1>1, Service!AddInstalls,
       ParseAssumption, NoneAssumption, PathAssumption, FolderAssumption, DiskAssumption,
       DocumentAssumption
  <2> HIDE DEF a
  <2>5. Service!Installs(t2, t, f, p, text) /\ t2.versions[f] = v
    BY <1>1, <2>1, <2>3, <2>4, Service!TagOpenInstalls,
       ParseAssumption, NoneAssumption, PathAssumption, FolderAssumption, DiskAssumption,
       DocumentAssumption
  <2> QED BY <1>2, <2>5, InstallsButFor
<1> QED BY <1>3, <1>4

LEMMA DiskIngested ==
  ASSUME NEW t \in Tables, TablesConsistent(t), NEW f \in Files, NEW p \in Parsers,
         NEW text \in Texts, NEW s \in BOOLEAN, FileLines(t, f) = {}, t.versions[f] = None,
         NEW t2, t2 = IngestDisk(t, f, p, text, s)
  PROVE  /\ ButFor(f, t2, t) /\ t2.versions[f] = None
         /\ FileLines(t2, f) # {} => Shows(t2, f, p, text)
<1> DEFINE a == AddLines(t, f, Pairs(p, text))
<1>1. Service!Tables = Tables /\ Service!TablesConsistent(t) /\ Service!FileLines(t, f) = {}
      /\ Service!IngestDisk(t, f, p, text, s) = t2
      /\ Service!AddLines(t, f, Service!Pairs(p, text)) = a
  BY SameUpdates, SameTables, SameParsing, SameContents
<1>2. t2 \in Tables
  BY <1>1, Service!IngestConsistent,
     ParseAssumption, NoneAssumption, PathAssumption, FolderAssumption, DiskAssumption,
     DocumentAssumption
<1>3. CASE ~Parses(p, text)
  <2>1. t2 = t
    BY <1>3 DEF IngestDisk
  <2>2. t.nextId \in Nat
    BY DEF Tables, LineId
  <2> QED BY <2>1, <2>2 DEF ButFor
<1>4. CASE Parses(p, text)
  <2>1. t2 = Service!TagDisk(a, f, s)
    BY <1>4, SameTables DEF IngestDisk
  <2>2. Service!Pairs(p, text) \in Seq(Lines)
    BY Service!PairsType,
       ParseAssumption, NoneAssumption, PathAssumption, FolderAssumption, DiskAssumption,
       DocumentAssumption
  <2>3. a \in Tables
    BY <1>1, <2>2, Service!AddLinesConsistent,
       ParseAssumption, NoneAssumption, PathAssumption, FolderAssumption, DiskAssumption,
       DocumentAssumption
  <2>4. Service!Installs(a, t, f, p, text)
    BY <1>1, Service!AddInstalls,
       ParseAssumption, NoneAssumption, PathAssumption, FolderAssumption, DiskAssumption,
       DocumentAssumption
  <2> HIDE DEF a
  <2>5. Service!Installs(t2, t, f, p, text) /\ t2.versions[f] = None
    BY <1>1, <2>1, <2>3, <2>4, Service!TagDiskInstalls,
       ParseAssumption, NoneAssumption, PathAssumption, FolderAssumption, DiskAssumption,
       DocumentAssumption
  <2> QED BY <1>2, <2>5, InstallsButFor
<1> QED BY <1>3, <1>4

-----------------------------------------------------------------------------
(* What is known of the session. *)

PostedTask == Task \cup SearchTask

LEMMA SessionFacts ==
  ASSUME SearchInv
  PROVE  /\ PoolOK /\ SessionOK /\ OneSearch
         /\ queue \in Seq(PostedTask)
         /\ job \in [Workers -> Job \cup SearchJob]
         /\ tables \in Tables /\ TablesConsistent(tables)
         /\ parserState \in Parsers \cup {None}
         /\ rebuildGen \in Nat /\ appliedGen \in Nat
         /\ appliedGen <= rebuildGen
         /\ disk \in [Files -> Texts \cup {Absent}]
         /\ submitted \subseteq Document
         /\ \A f \in tables.indexed : InWorkspace(roots, f)
         /\ \A u \in Uris : docs[u] # None =>
              docs[u] \in [uri : Uris, version : Versions, text : Texts] /\ docs[u].uri = u
<1>1. PoolOK /\ SessionOK /\ OneSearch /\ Service!TypeOK
  BY DEF SearchInv, Service!TablesOK
<1>2. queue \in Seq(PostedTask)
  <2>1. ServiceQueue \in Seq(Task)
    BY <1>1, TwoQueues
  <2>2. ServiceQueue \in Seq(PostedTask)
    BY <2>1 DEF PostedTask
  <2>3. \A r \in SearchTask : Append(ServiceQueue, r) \in Seq(PostedTask)
    BY <2>2 DEF PostedTask
  <2> QED BY <1>1, <2>2, <2>3 DEF PoolOK
<1>3. TablesConsistent(tables) /\ tables \in Tables
  BY <1>1, SameTables, SameContents
  DEF SearchInv, Service!TablesOK, Service!TablesInv, Service!TypeOK
<1>4. /\ parserState \in Parsers \cup {None} /\ rebuildGen \in Nat /\ appliedGen \in Nat
      /\ disk \in [Files -> Texts \cup {Absent}] /\ submitted \subseteq Document
  BY <1>1 DEF Service!TypeOK, Service!Generation
<1>5. appliedGen <= rebuildGen /\ \A f \in tables.indexed : InWorkspace(roots, f)
  BY SameChecks DEF SearchInv, Service!ContentInv, Service!IndexedWithinWorkspace
<1> QED BY <1>1, <1>2, <1>3, <1>4, <1>5, SessionAssumption DEF PoolOK, SessionOK

\* A posted search is the last task, and its request is pending.
LEMMA PostedSearch ==
  ASSUME SearchInv, NEW k \in DOMAIN queue, queue[k].kind = "search"
  PROVE  SearchQueued /\ answer = Pending /\ k = Len(queue)
<1>1. PoolOK /\ OneSearch /\ Service!TypeOK /\ ServiceQueue \in Seq(Task)
  BY TwoQueues DEF SearchInv, Service!TablesOK
<1>2. \A m \in DOMAIN ServiceQueue : ServiceQueue[m].kind # "search"
  BY <1>1, Kinds DEF SearchKinds
<1>3. PICK r \in SearchTask : queue = Append(ServiceQueue, r)
  BY <1>1, <1>2 DEF PoolOK
<1>4. SearchQueued
  BY <1>1, <1>3, WithAndWithout DEF SearchQueued
<1>5. k = Len(ServiceQueue) + 1
  <2>1. /\ DOMAIN queue = 1 .. (Len(ServiceQueue) + 1) /\ Len(ServiceQueue) \in Nat
        /\ \A m \in 1 .. Len(ServiceQueue) :
             m \in DOMAIN ServiceQueue /\ queue[m] = ServiceQueue[m]
    BY <1>1, <1>3
  <2>2. k \notin 1 .. Len(ServiceQueue)
    BY <1>2, <2>1
  <2> QED BY <2>1, <2>2
<1>6. Len(queue) = Len(ServiceQueue) + 1
  BY <1>1, <1>3
<1> QED BY <1>1, <1>4, <1>5, <1>6 DEF OneSearch

\* The session handles a message only while no search is posted or under way.
LEMMA NoSearch ==
  ASSUME SearchInv, answer # Pending
  PROVE  /\ \A k \in DOMAIN queue : queue[k].kind # "search"
         /\ \A w \in Workers : job[w].kind \notin SearchKinds
BY PostedSearch DEF SearchInv, OneSearch

LEMMA RefreshJob ==
  ASSUME SearchInv, NEW w \in Workers, job[w].kind = "refreshing"
  PROVE  job[w] \in Refreshing /\ job[w].kind \notin SearchKinds
<1>1. job[w] \in Job \cup SearchJob /\ job[w].kind \notin SearchKinds
  BY SessionFacts DEF SearchKinds
<1>2. job[w] \in Job
  BY <1>1, Kinds
<1> QED BY <1>1, <1>2 DEF Job, Task, RebuildTask, OpenTask, CloseTask, Building, Refreshing,
     Notifying, Idle

-----------------------------------------------------------------------------
(* The messages. *)

\* A document is submitted: opened, changed, or handed in once more.
Submits(u, doc) ==
  /\ doc \in Document /\ doc.uri = u
  /\ docs' = [docs EXCEPT ![u] = doc]
  /\ ScheduleOpenDocumentUpdate(doc)
  /\ u = UriOf[PathOf[u]]
  /\ disk[PathOf[u]] \in Texts
  /\ \A w \in Folders : PathOf[u] \notin Unscanned[w]
  /\ \/ /\ docs[u] = None
        /\ \/ \A d \in submitted : d.uri # u
           \/ queue = << >> /\ \A w \in Workers : job[w] = Idle
     \/ docs[u] # None /\ doc.version > docs[u].version
     \/ docs[u] # None /\ doc = docs[u]

\* While no configuration is pending no rebuild is.
LEMMA NoRebuild ==
  ASSUME SearchInv, AllRebuilds, appliedGen = rebuildGen
  PROVE  /\ \A k \in DOMAIN queue : queue[k].kind # "rebuild"
         /\ \A w \in Workers : job[w].kind \notin {"rebuild", "building"}
<1>1. ~(appliedGen < rebuildGen)
  BY SessionFacts
<1> QED BY <1>1 DEF AllRebuilds, RebuildOK, Latest

\* A file that was never open has no task.
LEMMA NeverOpened ==
  ASSUME AllNoted, OpenOK, NEW f \in Files, \A d \in submitted : d.uri # UriOf[f]
  PROVE  Leaves(queue, f) /\ \A w \in Workers : ~Touches(job[w], f)
<1>1. ASSUME NEW task, Noted(task, submitted) PROVE ~Touches(task, f)
  BY <1>1 DEF Noted, Touches, OpenOK
<1> QED BY <1>1 DEF AllNoted, Leaves

\* With nothing to come for f, the tables show what they should.
LEMMA NothingToCome ==
  ASSUME NEW q, NEW j, NEW t, NEW f, NEW p, NEW d, NEW x,
         Keeps(q, j, t, f, p, d, x), Leaves(q, f), \A w \in Workers : ~Touches(j[w], f)
  PROVE  Holds(t, f, p, d, x)
<1>1. ~Ends(q, f, p, d, x)
  BY IdleTouchesNothing DEF Ends, Leaves
<1>2. \A w \in Workers : ~Brings(j[w], f, p, d, x)
  BY IdleTouchesNothing
<1> QED BY <1>1, <1>2 DEF Keeps

\* A task posted last that has to do with other files only.
LEMMA PostedForOthers ==
  ASSUME NEW task \in PostedTask, NEW q \in Seq(PostedTask), NEW f, ~Touches(task, f),
         NEW j, NEW t, NEW p, NEW d, NEW x
  PROVE  /\ Keeps(q, j, t, f, p, d, x) => Keeps(Append(q, task), j, t, f, p, d, x)
         /\ Fits(q, j, t, f, d) => Fits(Append(q, task), j, t, f, d)
<1>1. Keeps(q, j, t, f, p, d, x) => Keeps(Append(q, task), j, t, f, p, d, x)
  BY PostedElsewhere DEF Keeps
<1>2. OpenFits(task, f, d)
  BY IdleTouchesNothing
<1>3. \A k \in DOMAIN Append(q, task) :
        Append(q, task)[k] = task \/ (k \in DOMAIN q /\ Append(q, task)[k] = q[k])
  BY Posted
<1>4. Fits(q, j, t, f, d) => Fits(Append(q, task), j, t, f, d)
  BY <1>2, <1>3 DEF Fits
<1> QED BY <1>1, <1>4

LEMMA SubmitSettled ==
  ASSUME SearchInv, OpenOK, AllNoted, Settled, NEW u \in Uris, NEW doc, Submits(u, doc)
  PROVE  Settled'
<1> DEFINE f0 == PathOf[u]
           task == [kind |-> "open", doc |-> doc, parser |-> parserState]
<1>1. /\ UNCHANGED <<tables, roots, parserState, rebuildGen, appliedGen, job, disk>>
      /\ queue' = IF NeedsOpenUpdate(doc) THEN Append(queue, task) ELSE queue
  BY DEF Submits, ScheduleOpenDocumentUpdate, serviceVars
<1>2. /\ doc \in Document /\ doc.uri = u /\ doc.version \in Versions /\ u = UriOf[f0]
      /\ doc # None
  <2>1. doc \in Document /\ doc.uri = u /\ u = UriOf[f0]
    BY DEF Submits
  <2>2. doc \in [uri : Uris, version : Versions, text : Texts]
    BY <2>1, SessionAssumption
  <2>3. doc # None
    BY <2>1, SessionAssumption
  <2> QED BY <2>1, <2>2, <2>3
<1> SUFFICES ASSUME parserState # None, appliedGen = rebuildGen, NEW f \in TextFiles,
                    InWorkspace(roots, f)
             PROVE  SettledFile(f)'
  BY <1>1 DEF Settled, InWorkspace
<1>3. SettledFile(f) /\ f \in Files /\ queue \in Seq(PostedTask)
  BY SessionFacts, PathAssumption DEF Settled
<1>4. NeedsOpenUpdate(doc) => task \in PostedTask
  BY <1>2, SessionFacts DEF PostedTask, Task, OpenTask
<1>5. CASE f # f0
  <2>1. docs'[UriOf[f]] = docs[UriOf[f]]
    <3>1. UriOf[f] \in Uris \ {u}
      BY <1>2, <1>3, <1>5, PathAssumption
    <3> QED BY <3>1, SessionFacts DEF Submits, SessionOK
  <2>2. ~Touches(task, f)
    BY <1>2, <1>5 DEF Touches
  <2> HIDE DEF task
  <2> QED BY <1>1, <1>3, <1>4, <2>1, <2>2, PostedForOthers DEF SettledFile
<1>6. CASE f = f0
  <2> DEFINE old == docs[u]
  <2>0. docs'[UriOf[f]] = doc /\ docs[UriOf[f]] = old
    <3>1. docs' = [docs EXCEPT ![u] = doc] /\ u \in DOMAIN docs
      BY SessionFacts DEF Submits, SessionOK
    <3> QED BY <1>2, <1>6, <3>1
  <2>1. /\ Keeps(queue, job, tables, f, parserState, old, disk[f])
        /\ Fits(queue, job, tables, f, old)
    BY <1>3, <2>0 DEF SettledFile
  <2>2. /\ Fits(queue, job, tables, f, doc)
        /\ ~NeedsOpenUpdate(doc) => Keeps(queue, job, tables, f, parserState, doc, disk[f])
    <3>0. NeedsOpenUpdate(doc) <=> tables.versions[f] # doc.version
      BY <1>2, <1>6 DEF NeedsOpenUpdate
    <3>1. CASE old = None
      <4>1. Leaves(queue, f) /\ \A w \in Workers : ~Touches(job[w], f)
        <5>1. CASE \A d \in submitted : d.uri # u
          BY <1>2, <1>3, <1>6, <5>1, NeverOpened
        <5>2. CASE queue = << >> /\ \A w \in Workers : job[w] = Idle
          BY <5>2, IdleTouchesNothing DEF Leaves
        <5> QED BY <3>1, <5>1, <5>2 DEF Submits
      <4>2. tables.versions[f] = None
        BY <2>1, <3>1, <4>1, NothingToCome DEF Holds
      <4>3. Fits(queue, job, tables, f, doc)
        BY <4>1, <4>2, IdleTouchesNothing DEF Fits, VersionFits, Leaves
      <4> QED BY <1>2, <3>0, <4>2, <4>3, NoneAssumption
    <3>2. CASE old # None /\ doc.version > old.version
      <4>1. old.version \in Int /\ doc.version \in Int
        BY <1>2, <3>2, SessionFacts, SessionAssumption
      <4>2. \A v : v \in Int /\ VersionFits(v, old) => VersionFits(v, doc)
        BY <1>2, <3>2, <4>1 DEF VersionFits
      <4>3. ASSUME NEW task2, Noted(task2, submitted), OpenFits(task2, f, old)
            PROVE  OpenFits(task2, f, doc)
        <5>1. task2.kind = "open" => task2.doc \in Document
          BY <4>3, SessionFacts DEF Noted
        <5>2. task2.kind = "open" => task2.doc.version \in Int
          BY <5>1, SessionAssumption
        <5> QED BY <4>2, <4>3, <5>2 DEF OpenFits
      <4>4. tables.versions[f] \in Versions \cup {None}
        BY <1>3, SessionFacts DEF Tables
      <4>5. VersionFits(tables.versions[f], old)
        BY <2>1 DEF Fits
      <4>6. VersionFits(tables.versions[f], doc)
        <5>1. CASE tables.versions[f] = None
          BY <5>1 DEF VersionFits
        <5>2. CASE tables.versions[f] # None
          BY <4>2, <4>4, <4>5, <5>2, SessionAssumption
        <5> QED BY <5>1, <5>2
      <4>7. Fits(queue, job, tables, f, doc)
        BY <2>1, <4>3, <4>6 DEF Fits, AllNoted
      <4>8. tables.versions[f] # doc.version
        <5>1. SUFFICES ASSUME tables.versions[f] = doc.version PROVE FALSE
          OBVIOUS
        <5>2. doc.version <= old.version
          BY <1>2, <3>2, <4>5, <5>1, NoneAssumption DEF VersionFits
        <5> QED BY <3>2, <4>1, <5>2
      <4> QED BY <3>0, <4>7, <4>8
    <3>3. CASE old # None /\ doc = old
      BY <2>1, <3>3
    <3> QED BY <3>1, <3>2, <3>3 DEF Submits
  <2>3. CASE NeedsOpenUpdate(doc)
    <3>1. Brings(task, f, parserState, doc, disk[f])
      BY <1>2, <1>6 DEF Brings
    <3>2. OpenFits(task, f, doc)
      <4> DEFINE v == doc.version
      <4>0. v \in Int
        BY <1>2, SessionAssumption
      <4> HIDE DEF v
      <4>1. v <= v
        BY <4>0
      <4> USE DEF v
      <4> QED BY <4>1 DEF OpenFits, VersionFits
    <3> HIDE DEF task
    <3>3. Keeps(queue', job, tables, f, parserState, doc, disk[f])
      BY <1>1, <1>3, <1>4, <2>3, <3>1, PostedRight DEF Keeps
    <3>4. \A k \in DOMAIN Append(queue, task) :
            Append(queue, task)[k] = task \/ (k \in DOMAIN queue /\ Append(queue, task)[k] = queue[k])
      BY <1>3, <1>4, <2>3, Posted
    <3>5. Fits(queue', job, tables, f, doc)
      BY <1>1, <2>2, <2>3, <3>2, <3>4 DEF Fits
    <3> QED BY <1>1, <2>0, <3>3, <3>5 DEF SettledFile
  <2>4. CASE ~NeedsOpenUpdate(doc)
    BY <1>1, <2>0, <2>2, <2>4 DEF SettledFile
  <2> QED BY <2>3, <2>4
<1> QED BY <1>5, <1>6


\* The queue after a message, which posts a task of S or none.
PostsOne(S) == queue' = queue \/ \E task \in S : queue' = Append(queue, task)

LEMMA PostedOnly ==
  ASSUME SearchInv, NEW S \in SUBSET Task, PostsOne(S)
  PROVE  \A k \in DOMAIN queue' : (queue')[k] \in S \/ (k \in DOMAIN queue /\ (queue')[k] = queue[k])
<1>1. CASE queue' = queue
  BY <1>1
<1>2. ASSUME NEW task \in S, queue' = Append(queue, task)
      PROVE  \A k \in DOMAIN queue' :
               (queue')[k] \in S \/ (k \in DOMAIN queue /\ (queue')[k] = queue[k])
  <2>1. task \in PostedTask /\ queue \in Seq(PostedTask)
    BY SessionFacts DEF PostedTask
  <2> QED BY <1>2, <2>1, Posted
<1> QED BY <1>1, <1>2 DEF PostsOne

LEMMA MessageSearches ==
  ASSUME SearchInv, answer # Pending, UNCHANGED job, NEW S \in SUBSET Task, PostsOne(S)
  PROVE  AllSearches'
<1>1. \A k \in DOMAIN queue' : (queue')[k].kind \notin SearchKinds
  <2>1. \A task \in S : task.kind \notin SearchKinds
    BY Kinds
  <2>2. \A k \in DOMAIN queue : queue[k] \in PostedTask /\ queue[k].kind # "search"
    BY SessionFacts, NoSearch
  <2>3. \A k \in DOMAIN queue : queue[k].kind \notin SearchKinds
    BY <2>2, Kinds DEF PostedTask, SearchTask
  <2> QED BY <2>1, <2>3, PostedOnly
<1>2. \A w \in Workers : job'[w].kind \notin SearchKinds
  BY NoSearch
<1> QED BY <1>1, <1>2 DEF AllSearches, SearchJobOK, SearchKinds

\* A message that posts no rebuild comes while none is pending.
LEMMA MessageRebuilds ==
  ASSUME SearchInv, AllRebuilds, appliedGen = rebuildGen, UNCHANGED job,
         NEW S \in SUBSET Task, PostsOne(S), \A task \in S : task.kind # "rebuild"
  PROVE  AllRebuilds'
<1>1. /\ \A k \in DOMAIN queue : queue[k].kind # "rebuild" /\ queue[k] \in PostedTask
      /\ \A w \in Workers : job[w].kind \notin {"rebuild", "building"}
  BY NoRebuild, SessionFacts
<1>2. \A t \in PostedTask : t.kind # "building"
  BY DEF PostedTask, Task, RebuildTask, OpenTask, CloseTask, SearchTask
<1>3. \A k \in DOMAIN queue' : (queue')[k].kind \notin {"rebuild", "building"}
  BY <1>1, <1>2, PostedOnly DEF PostedTask
<1> QED BY <1>1, <1>3 DEF AllRebuilds, RebuildOK

LEMMA MessageNoted ==
  ASSUME SearchInv, AllNoted, submitted \subseteq submitted', UNCHANGED job,
         tables'.indexed \subseteq tables.indexed,
         NEW S \in SUBSET Task, PostsOne(S), \A task \in S : Noted(task, submitted')
  PROVE  AllNoted'
<1>1. \A t : Noted(t, submitted) => Noted(t, submitted')
  BY DEF Noted
<1> QED BY <1>1, PostedOnly DEF AllNoted

LEMMA SubmitStep ==
  ASSUME SearchInv, SerialInv, answer # Pending, appliedGen = rebuildGen,
         NEW u \in Uris, NEW doc, Submits(u, doc), UNCHANGED answer
  PROVE  SerialInv'
<1> DEFINE task == [kind |-> "open", doc |-> doc, parser |-> parserState]
           S == IF NeedsOpenUpdate(doc) THEN {task} ELSE {}
<1>0. Alone /\ OpenOK /\ AllNoted /\ AllRebuilds /\ Settled /\ AnswersSeeEdits
  BY DEF SerialInv
<1>1. /\ UNCHANGED <<tables, roots, parserState, rebuildGen, appliedGen, job, disk>>
      /\ queue' = IF NeedsOpenUpdate(doc) THEN Append(queue, task) ELSE queue
      /\ submitted' = submitted \cup {doc}
      /\ doc \in Document /\ doc.uri = u /\ u = UriOf[PathOf[u]]
  BY DEF Submits, ScheduleOpenDocumentUpdate, serviceVars
<1>2. NeedsOpenUpdate(doc) => task \in Task /\ PathOf[doc.uri] \in TextFiles
  BY <1>1, SessionFacts DEF Task, OpenTask, NeedsOpenUpdate
<1>3. Settled'
  BY <1>0, SubmitSettled
<1>4. Alone' /\ AnswersSeeEdits'
  BY <1>0, <1>1 DEF Alone, AnswersSeeEdits, SeesEdits, Answered
<1>5. OpenOK'
  <2>1. \A v \in Uris : docs'[v] = IF v = u THEN doc ELSE docs[v]
    BY SessionFacts DEF Submits, SessionOK
  <2>2. \A d \in submitted' : d.uri = UriOf[PathOf[d.uri]]
    BY <1>0, <1>1 DEF OpenOK
  <2> QED BY <1>0, <1>1, <2>1, <2>2 DEF OpenOK, Submits
<1>6. PostsOne(S) /\ S \in SUBSET Task
  BY <1>1, <1>2 DEF PostsOne
<1>7. \A t \in S : t.kind = "open" /\ Noted(t, submitted')
  BY <1>1, <1>2 DEF Noted
<1> HIDE DEF S, task
<1>8. AllSearches' /\ AllRebuilds' /\ AllNoted'
  BY <1>0, <1>1, <1>6, <1>7, MessageSearches, MessageRebuilds, MessageNoted
<1> QED BY <1>3, <1>4, <1>5, <1>8 DEF SerialInv

\* textDocument/didClose
LEMMA CloseSettled ==
  ASSUME SearchInv, Settled, OpenOK, NEW u \in Uris, DidClose(u)
  PROVE  Settled'
<1> DEFINE f0 == PathOf[u]
           task == [kind |-> "close", file |-> f0, parser |-> parserState]
<1>1. /\ UNCHANGED <<roots, parserState, rebuildGen, appliedGen, job, disk>>
      /\ docs[u] # None /\ docs' = [docs EXCEPT ![u] = None]
      /\ IF f0 \notin TextFiles \/ parserState = None
         THEN UNCHANGED <<tables, queue>>
         ELSE IF InWorkspace(roots, f0)
         THEN queue' = Append(queue, task) /\ UNCHANGED tables
         ELSE tables' = EraseFile(tables, f0) /\ UNCHANGED queue
  BY DEF DidClose, ScheduleClosedDocumentRefresh
<1>2. u = UriOf[f0] /\ f0 \in Files /\ docs' [u] = None
      /\ \A v \in Uris \ {u} : docs'[v] = docs[v]
  <2>1. docs[u] \in submitted /\ docs[u].uri = u
    BY <1>1, SessionFacts DEF OpenOK
  <2>2. u = UriOf[f0]
    BY <2>1 DEF OpenOK
  <2> QED BY <1>1, <2>2, PathAssumption, SessionFacts DEF SessionOK
<1> SUFFICES ASSUME parserState # None, appliedGen = rebuildGen, NEW f \in TextFiles,
                    InWorkspace(roots, f)
             PROVE  SettledFile(f)'
  BY <1>1 DEF Settled, InWorkspace
<1>3. SettledFile(f) /\ f \in Files /\ queue \in Seq(PostedTask)
  BY SessionFacts, PathAssumption DEF Settled
<1>4. f0 \in Files /\ parserState \in Parsers => task \in PostedTask
  BY DEF PostedTask, Task, CloseTask
<1>5. task \in PostedTask
  BY <1>2, <1>4, SessionFacts
<1>6. CASE f # f0
  <2>1. docs'[UriOf[f]] = docs[UriOf[f]]
    BY <1>2, <1>3, <1>6, PathAssumption
  <2>2. ~Touches(task, f)
    BY <1>6 DEF Touches
  <2> HIDE DEF task
  <2>3. CASE UNCHANGED <<tables, queue>>
    BY <1>1, <1>3, <2>1, <2>3 DEF SettledFile
  <2>4. CASE queue' = Append(queue, task) /\ UNCHANGED tables
    BY <1>1, <1>3, <1>5, <2>1, <2>2, <2>4, PostedForOthers DEF SettledFile
  <2>5. CASE tables' = EraseFile(tables, f0) /\ UNCHANGED queue
    <3>1. ButFor(f0, tables', tables) /\ tables \in Tables
      BY <1>2, <2>5, SessionFacts, Erased
    <3>2. /\ \A p, d, x : Holds(tables, f, p, d, x) => Holds(tables', f, p, d, x)
          /\ tables'.versions[f] = tables.versions[f]
      BY <1>3, <1>6, <3>1, ButForHolds
    <3>3. \A p, d, x : Keeps(queue, job, tables, f, p, d, x) => Keeps(queue, job, tables', f, p, d, x)
      BY <3>2 DEF Keeps
    <3>4. \A d : Fits(queue, job, tables, f, d) => Fits(queue, job, tables', f, d)
      BY <3>2 DEF Fits
    <3> QED BY <1>1, <1>3, <2>1, <2>5, <3>3, <3>4 DEF SettledFile
  <2> QED BY <1>1, <2>3, <2>4, <2>5
<1>7. CASE f = f0
  <2>1. queue' = Append(queue, task) /\ UNCHANGED tables /\ docs'[UriOf[f]] = None
    BY <1>1, <1>2, <1>7
  <2>2. Brings(task, f, parserState, None, disk[f])
    BY <1>7 DEF Brings
  <2> HIDE DEF task
  <2>3. Keeps(queue', job', tables', f, parserState, None, disk[f])
    BY <1>3, <1>5, <2>1, <2>2, PostedRight DEF Keeps
  <2>4. Fits(queue', job', tables', f, None)
    BY DEF Fits, VersionFits, OpenFits
  <2> QED BY <1>1, <2>1, <2>3, <2>4 DEF SettledFile
<1> QED BY <1>6, <1>7

LEMMA CloseStep ==
  ASSUME SearchInv, SerialInv, answer # Pending, appliedGen = rebuildGen,
         NEW u \in Uris, DidClose(u), UNCHANGED answer
  PROVE  SerialInv'
<1> DEFINE f0 == PathOf[u]
           task == [kind |-> "close", file |-> f0, parser |-> parserState]
           S == IF f0 \in TextFiles /\ parserState # None THEN {task} ELSE {}
<1>0. Alone /\ OpenOK /\ AllNoted /\ AllRebuilds /\ Settled /\ AnswersSeeEdits
  BY DEF SerialInv
<1>1. /\ UNCHANGED <<roots, parserState, rebuildGen, appliedGen, job, disk, submitted>>
      /\ docs[u] # None /\ docs' = [docs EXCEPT ![u] = None]
      /\ tables' = tables \/ tables' = EraseFile(tables, f0)
      /\ queue' = queue \/ (queue' = Append(queue, task) /\ S = {task})
  BY DEF DidClose, ScheduleClosedDocumentRefresh
<1>2. f0 \in Files /\ parserState \in Parsers \cup {None}
  BY PathAssumption, SessionFacts
<1>3. Settled'
  BY <1>0, CloseSettled
<1>4. Alone' /\ AnswersSeeEdits'
  BY <1>0, <1>1 DEF Alone, AnswersSeeEdits, SeesEdits, Answered
<1>5. OpenOK'
  <2>1. \A v \in Uris : docs'[v] = IF v = u THEN None ELSE docs[v]
    BY <1>1, SessionFacts DEF SessionOK
  <2> QED BY <1>0, <1>1, <2>1 DEF OpenOK
<1>6. PostsOne(S) /\ S \in SUBSET Task
  <2>1. f0 \in TextFiles /\ parserState # None => task \in Task
    BY <1>2 DEF Task, CloseTask
  <2>2. S \in SUBSET Task
    BY <2>1
  <2> HIDE DEF S, task
  <2> QED BY <1>1, <2>2 DEF PostsOne
<1>7. \A t \in S : t.kind = "close" /\ Noted(t, submitted')
  <2>1. docs[u] \in submitted /\ docs[u].uri = u /\ u = UriOf[f0]
    BY <1>0, <1>1, SessionFacts DEF OpenOK
  <2> QED BY <1>1, <2>1 DEF Noted
<1>8. tables'.indexed \subseteq tables.indexed
  BY <1>1, <1>2, SessionFacts, Erased
<1> HIDE DEF S, task
<1>9. AllSearches' /\ AllRebuilds' /\ AllNoted'
  BY <1>0, <1>1, <1>6, <1>7, <1>8, MessageSearches, MessageRebuilds, MessageNoted
<1> QED BY <1>3, <1>4, <1>5, <1>9 DEF SerialInv

\* What leaves the service, the documents and the answer alone.
LEMMA ApartStep ==
  ASSUME SerialInv, UNCHANGED <<vars, docs>>, UNCHANGED answer \/ AnswersSeeEdits'
  PROVE  SerialInv'
<1>1. UNCHANGED <<tables, roots, parserState, rebuildGen, appliedGen, queue, job, disk,
                  submitted, docs>>
  BY DEF vars, serviceVars, poolVars
<1>2. Alone' /\ OpenOK' /\ AllNoted' /\ AnswersSeeEdits'
  BY <1>1 DEF SerialInv, Alone, OpenOK, AllNoted, Noted, AnswersSeeEdits, SeesEdits, Answered
<1>3. AllRebuilds'
  BY <1>1 DEF SerialInv, AllRebuilds, RebuildOK, Latest, OpenDocuments, OpenUris
<1>4. Settled'
  BY <1>1 DEF SerialInv, Settled, SettledFile, InWorkspace
<1>5. AllSearches'
  BY <1>1 DEF SerialInv, AllSearches, SearchJobOK, SearchingOK, RequestOK
<1> QED BY <1>2, <1>3, <1>4, <1>5 DEF SerialInv

\* dltxt/set_parser_regex: a new configuration is not applied yet.
LEMMA ConfigureStep ==
  ASSUME SearchInv, SerialInv, answer # Pending, appliedGen = rebuildGen,
         NEW p \in Parsers, SetParserRegex(p), UNCHANGED answer
  PROVE  SerialInv'
<1> DEFINE task == [kind |-> "rebuild", parser |-> p, gen |-> rebuildGen + 1,
                    folders |-> folders, docs |-> OpenDocuments]
<1>0. Alone /\ OpenOK /\ AllNoted /\ AllRebuilds /\ Settled /\ AnswersSeeEdits
  BY DEF SerialInv
<1>1. /\ UNCHANGED <<tables, roots, appliedGen, job, disk, docs>>
      /\ submitted' = submitted \cup OpenDocuments
  BY DEF SetParserRegex, UpdateParserConfig, sessionVars
<1>2. OpenDocuments \subseteq submitted
  BY <1>0 DEF OpenDocuments, OpenUris, OpenOK
<1>3. submitted' = submitted
  BY <1>1, <1>2
<1>4. CASE parserState = p
  <2>1. UNCHANGED <<parserState, rebuildGen, queue>>
    BY <1>4 DEF SetParserRegex, UpdateParserConfig
  <2> QED BY <1>1, <1>3, <2>1, ApartStep DEF vars, serviceVars, poolVars
<1>5. CASE parserState # p
  <2>1. /\ parserState' = p /\ rebuildGen' = rebuildGen + 1
        /\ queue' = Append(queue, task)
    BY <1>5 DEF SetParserRegex, UpdateParserConfig
  <2>2. task \in Task
    <3>1. folders \in SUBSET Folders /\ OpenDocuments \in SUBSET Document
      BY SessionFacts DEF SessionOK, OpenDocuments, OpenUris
    <3> QED BY <3>1, SessionFacts DEF Task, RebuildTask, Generation
  <2>3. /\ task.kind = "rebuild" /\ task.parser = p /\ task.gen = rebuildGen + 1
        /\ task.docs = OpenDocuments
    OBVIOUS
  <2> HIDE DEF task
  <2>4. PostsOne({task})
    BY <2>1 DEF PostsOne
  <2>5. appliedGen' < rebuildGen'
    BY <1>1, <2>1, SessionFacts
  <2>6. Settled'
    <3>1. appliedGen' # rebuildGen'
      BY <1>1, <2>1, SessionFacts
    <3> QED BY <3>1 DEF Settled
  <2>7. Alone' /\ AnswersSeeEdits' /\ OpenOK'
    BY <1>0, <1>1, <1>3 DEF Alone, AnswersSeeEdits, SeesEdits, Answered, OpenOK
  <2>8. AllNoted'
    BY <1>0, <1>1, <1>3, <2>2, <2>3, <2>4, MessageNoted DEF Noted
  <2>9. AllSearches'
    BY <1>1, <2>2, <2>4, MessageSearches
  <2>10. AllRebuilds'
    <3>1. /\ \A k \in DOMAIN queue : queue[k].kind # "rebuild" /\ queue[k] \in PostedTask
          /\ \A w \in Workers : job[w].kind \notin {"rebuild", "building"}
      BY <1>0, NoRebuild, SessionFacts
    <3>2. \A t \in PostedTask : t.kind # "building"
      BY DEF PostedTask, Task, RebuildTask, OpenTask, CloseTask, SearchTask
    <3>3. OpenDocuments' = OpenDocuments
      BY <1>1 DEF OpenDocuments, OpenUris
    <3>4. \A k \in DOMAIN queue' : (queue')[k] = task \/ (k \in DOMAIN queue /\ (queue')[k] = queue[k])
      BY <2>2, <2>4, PostedOnly
    <3>5. \A k \in DOMAIN queue' : RebuildOK(queue[k])'
      <4> SUFFICES ASSUME NEW k \in DOMAIN queue' PROVE RebuildOK(queue[k])'
        OBVIOUS
      <4>1. CASE (queue')[k] = task
        BY <2>1, <2>3, <2>5, <3>3, <4>1 DEF RebuildOK, Latest
      <4>2. CASE k \in DOMAIN queue /\ (queue')[k] = queue[k]
        BY <3>1, <3>2, <4>2 DEF RebuildOK
      <4> QED BY <3>4, <4>1, <4>2
    <3>6. \A w \in Workers : RebuildOK(job[w])' /\ job'[w].kind \notin {"rebuild", "building"}
      BY <1>1, <3>1 DEF RebuildOK
    <3>7. \A k, m \in DOMAIN queue' :
            (queue')[k].kind = "rebuild" /\ m > k => (queue')[m].kind = "search"
      <4> SUFFICES ASSUME NEW k \in DOMAIN queue', NEW m \in DOMAIN queue',
                          (queue')[k].kind = "rebuild", m > k
                   PROVE  FALSE
        OBVIOUS
      <4>1. queue \in Seq(PostedTask) /\ task \in PostedTask
        BY <2>2, SessionFacts DEF PostedTask
      <4>2. DOMAIN queue = 1 .. Len(queue) /\ DOMAIN queue' = 1 .. (Len(queue) + 1)
            /\ Len(queue) \in Nat
            /\ \A i \in 1 .. Len(queue) : (queue')[i] = queue[i]
        BY <2>1, <4>1
      <4>3. k \notin 1 .. Len(queue)
        BY <3>1, <4>2
      <4> QED BY <4>2, <4>3
    <3> QED BY <3>5, <3>6, <3>7 DEF AllRebuilds
  <2> QED BY <2>6, <2>7, <2>8, <2>9, <2>10 DEF SerialInv
<1> QED BY <1>4, <1>5

\* A document stays open under the URI the bridge makes of its file.
LEMMA OpenFacts ==
  ASSUME SearchInv, OpenOK, NEW u \in Uris, docs[u] # None
  PROVE  /\ docs[u] \in Document /\ docs[u].uri = u
         /\ docs[u] = MakeDocument(u, docs[u].version, docs[u].text)
         /\ docs[u].version \in Versions /\ docs[u].text \in Texts
         /\ u = UriOf[PathOf[u]] /\ disk[PathOf[u]] \in Texts
         /\ \A w \in Folders : PathOf[u] \notin Unscanned[w]
         /\ docs = [docs EXCEPT ![u] = docs[u]]
<1>1. docs[u] \in [uri : Uris, version : Versions, text : Texts] /\ docs[u].uri = u
  BY SessionFacts
<1>2. docs[u] = MakeDocument(u, docs[u].version, docs[u].text)
  BY <1>1 DEF MakeDocument
<1>3. u = UriOf[PathOf[u]] /\ disk[PathOf[u]] \in Texts
      /\ \A w \in Folders : PathOf[u] \notin Unscanned[w]
  BY <1>1 DEF OpenOK
<1>4. docs = [docs EXCEPT ![u] = docs[u]]
  BY SessionFacts DEF SessionOK
<1> QED BY <1>1, <1>2, <1>3, <1>4, SessionAssumption

LEMMA PatientMessageStep ==
  ASSUME SearchInv, SerialInv, PatientMessage
  PROVE  SerialInv'
<1>0. answer # Pending /\ appliedGen = rebuildGen /\ UNCHANGED answer /\ OpenOK
  BY DEF PatientMessage, SerialInv
<1>1. ASSUME NEW fs \in SUBSET Folders, Initialize(fs) PROVE SerialInv'
  BY <1>0, <1>1, ApartStep DEF Initialize
<1>2. ASSUME NEW added \in SUBSET Folders, NEW removed \in SUBSET Folders,
             DidChangeWorkspaceFolders(added, removed)
      PROVE  SerialInv'
  BY <1>0, <1>2, ApartStep DEF DidChangeWorkspaceFolders
<1>3. ASSUME NEW p \in Parsers, SetParserRegex(p) PROVE SerialInv'
  BY <1>0, <1>3, ConfigureStep
<1>4. ASSUME NEW f \in Files, NEW version \in Versions, NEW text \in Texts,
             PatientOpen(f, version, text)
      PROVE  SerialInv'
  <2> DEFINE u == UriOf[f]
             doc == MakeDocument(u, version, text)
  <2>1. u \in Uris /\ PathOf[u] = f
    BY PathAssumption
  <2>2. DidOpen(u, version, text) /\ disk[f] \in Texts
    BY <1>4 DEF PatientOpen
  <2>3. doc \in Document /\ doc.uri = u
    BY <2>1, <2>2, SessionAssumption DEF MakeDocument
  <2>4. /\ docs[u] = None /\ docs' = [docs EXCEPT ![u] = doc]
        /\ ScheduleOpenDocumentUpdate(doc)
    BY <2>2 DEF DidOpen
  <2>5. /\ \A w \in Folders : f \notin Unscanned[w]
        /\ \/ \A d \in submitted : d.uri # u
           \/ queue = << >> /\ \A w \in Workers : job[w] = Idle
    BY <1>4 DEF PatientOpen
  <2> HIDE DEF doc
  <2>6. Submits(u, doc)
    BY <2>1, <2>2, <2>3, <2>4, <2>5 DEF Submits
  <2> QED BY <1>0, <2>1, <2>6, SubmitStep
<1>5. ASSUME NEW u \in Uris, NEW version \in Versions, NEW text \in Texts,
             DidChange(u, version, text)
      PROVE  SerialInv'
  <2> DEFINE doc == MakeDocument(u, version, text)
  <2>1. doc \in Document /\ doc.uri = u /\ doc.version = version
    BY SessionAssumption DEF MakeDocument
  <2>2. /\ docs[u] # None /\ version > docs[u].version
        /\ docs' = [docs EXCEPT ![u] = doc] /\ ScheduleOpenDocumentUpdate(doc)
    BY <1>5 DEF DidChange
  <2> HIDE DEF doc
  <2>3. Submits(u, doc)
    BY <1>0, <2>1, <2>2, OpenFacts DEF Submits
  <2> QED BY <1>0, <2>3, SubmitStep
<1>6. ASSUME NEW u \in Uris, docs[u] # None, UNCHANGED docs, ScheduleOpenDocumentUpdate(docs[u])
      PROVE  SerialInv'
  <2>1. docs' = [docs EXCEPT ![u] = docs[u]]
    BY <1>0, <1>6, OpenFacts
  <2>2. Submits(u, docs[u])
    BY <1>0, <1>6, <2>1, OpenFacts DEF Submits
  <2> QED BY <1>0, <2>2, SubmitStep
<1>7. ASSUME NEW u \in Uris, DidChangeRejected(u) PROVE SerialInv'
  BY <1>6, <1>7 DEF DidChangeRejected, sessionVars
<1>8. ASSUME NEW u \in Uris, PatientSave(u) PROVE SerialInv'
  <2>1. docs[u] # None /\ disk[PathOf[u]] = docs[u].text /\ DidSave(u)
    BY <1>8 DEF PatientSave
  <2>2. ASSUME NEW text \in Texts \cap Loads(PathOf[u]),
               docs' = [docs EXCEPT ![u] = MakeDocument(u, docs[u].version, text)],
               ScheduleOpenDocumentUpdate(MakeDocument(u, docs[u].version, text))
        PROVE  UNCHANGED docs /\ ScheduleOpenDocumentUpdate(docs[u])
    <3>1. text = docs[u].text
      BY <2>1, <2>2, DiskAssumption DEF Loads
    <3> QED BY <1>0, <2>1, <2>2, <3>1, OpenFacts
  <2>3. UNCHANGED docs /\ ScheduleOpenDocumentUpdate(docs[u])
    BY <2>1, <2>2 DEF DidSave
  <2> QED BY <1>6, <2>1, <2>3
<1>9. ASSUME NEW u \in Uris, DidClose(u) PROVE SerialInv'
  BY <1>0, <1>9, CloseStep
<1> QED BY <1>1, <1>2, <1>3, <1>4, <1>5, <1>7, <1>8, <1>9 DEF PatientMessage

-----------------------------------------------------------------------------
(* Requests, and the disk. *)

LEMMA AskStep ==
  ASSUME SearchInv, SerialInv, NEW u \in Uris, GetSimilarText(u)
  PROVE  SerialInv'
<1>0. Alone /\ OpenOK /\ AllNoted /\ AllRebuilds /\ Settled /\ AnswersSeeEdits
  BY DEF SerialInv
<1>1. UNCHANGED <<tables, roots, parserState, rebuildGen, appliedGen, job, disk, submitted, docs>>
      /\ answer # Pending
  BY DEF GetSimilarText, Unmoved, serviceVars, sessionVars
<1>2. PICK text \in IF docs[u] # None THEN {docs[u].text} ELSE Loads(PathOf[u]) :
        LET request == [kind |-> "search", file |-> PathOf[u], text |-> text,
                        open |-> docs[u] # None]
        IN  IF text \in {Absent, Unreadable}
            THEN Answer(request, {}, FALSE) /\ UNCHANGED queue
            ELSE queue' = Append(queue, request) /\ answer' = Pending
  BY DEF GetSimilarText
<1> DEFINE request == [kind |-> "search", file |-> PathOf[u], text |-> text,
                       open |-> docs[u] # None]
<1>3. CASE Answer(request, {}, FALSE) /\ UNCHANGED queue
  <2>1. AnswersSeeEdits'
    BY <1>3 DEF AnswersSeeEdits, Answer
  <2> QED BY <1>1, <1>3, <2>1, ApartStep DEF vars, serviceVars, poolVars
<1>4. CASE queue' = Append(queue, request) /\ answer' = Pending /\ text \notin {Absent, Unreadable}
  <2>1. text \in Texts
    BY <1>0, <1>2, <1>4, OpenFacts, SessionFacts, PathAssumption DEF Loads
  <2>2. request \in SearchTask /\ request.kind = "search"
    BY <2>1, PathAssumption DEF SearchTask
  <2>3. RequestOK(request)
    BY <1>0, <1>2, OpenFacts DEF RequestOK
  <2>4. /\ \A f : ~Touches(request, f)
        /\ \A S : Noted(request, S)
        /\ request.kind \notin {"rebuild", "building", "waiting", "searching", "scoring", "found"}
    BY DEF Touches, Noted
  <2> HIDE DEF request
  <2>5. queue \in Seq(PostedTask) /\ request \in PostedTask
    BY <2>2, SessionFacts DEF PostedTask
  <2>6. \A k \in DOMAIN queue' :
          (queue')[k] = request \/ (k \in DOMAIN queue /\ (queue')[k] = queue[k])
    BY <1>4, <2>5, Posted
  <2>7. Alone' /\ OpenOK' /\ AnswersSeeEdits'
    BY <1>0, <1>1, <1>4 DEF Alone, OpenOK, AnswersSeeEdits, Answered
  <2>8. AllNoted'
    BY <1>0, <1>1, <2>4, <2>6 DEF AllNoted
  <2>9. Settled'
    <3> SUFFICES ASSUME parserState # None, appliedGen = rebuildGen, NEW f \in TextFiles,
                        InWorkspace(roots, f)
                 PROVE  SettledFile(f)'
      BY <1>1 DEF Settled, InWorkspace
    <3>1. SettledFile(f)
      BY <1>0 DEF Settled
    <3> QED BY <1>1, <1>4, <2>4, <2>5, <3>1, PostedForOthers DEF SettledFile
  <2>10. AllRebuilds'
    <3>1. \A k \in DOMAIN queue' : RebuildOK(queue[k])'
      BY <1>0, <1>1, <2>4, <2>6
      DEF AllRebuilds, RebuildOK, Latest, OpenDocuments, OpenUris
    <3>2. \A w \in Workers : RebuildOK(job[w])'
      BY <1>0, <1>1 DEF AllRebuilds, RebuildOK, Latest, OpenDocuments, OpenUris
    <3> QED BY <1>0, <1>1, <2>2, <2>4, <2>6, <3>1, <3>2 DEF AllRebuilds
  <2>11. AllSearches'
    <3>1. /\ \A k \in DOMAIN queue : queue[k].kind # "search" /\ queue[k] \in PostedTask
          /\ \A w \in Workers : job'[w].kind \notin SearchKinds
      BY <1>1, <2>5, NoSearch
    <3>2. \A k \in DOMAIN queue : queue[k].kind \notin SearchKinds
      BY <3>1, Kinds DEF PostedTask, SearchTask
    <3>3. \A k \in DOMAIN queue' : SearchJobOK(queue[k])'
      BY <1>1, <2>3, <2>4, <2>6, <3>2 DEF SearchJobOK, SearchKinds, RequestOK
    <3> QED BY <3>1, <3>3 DEF AllSearches, SearchJobOK, SearchKinds
  <2> QED BY <2>7, <2>8, <2>9, <2>10, <2>11 DEF SerialInv
<1> QED BY <1>2, <1>3, <1>4

\* What the tables show of an open file does not depend on the disk.
LEMMA OpenIgnoresDisk ==
  ASSUME NEW d, d # None, NEW x, NEW y
  PROVE  /\ \A q, j, t, f, p : Keeps(q, j, t, f, p, d, x) => Keeps(q, j, t, f, p, d, y)
         /\ \A t, todo, fs, f, p :
              BuiltFile(t, todo, fs, f, p, d, x) => BuiltFile(t, todo, fs, f, p, d, y)
<1>1. \A task, f, p : Brings(task, f, p, d, x) => Brings(task, f, p, d, y)
  BY DEF Brings
<1>2. \A t, f, p : Holds(t, f, p, d, x) => Holds(t, f, p, d, y)
  BY DEF Holds
<1>3. \A q, f, p : Ends(q, f, p, d, x) => Ends(q, f, p, d, y)
  BY <1>1 DEF Ends
<1>4. \A q, j, t, f, p : Keeps(q, j, t, f, p, d, x) => Keeps(q, j, t, f, p, d, y)
  BY <1>1, <1>2, <1>3 DEF Keeps
<1>5. \A t, todo, fs, f, p :
        BuiltFile(t, todo, fs, f, p, d, x) => BuiltFile(t, todo, fs, f, p, d, y)
  BY <1>2 DEF BuiltFile
<1> QED BY <1>4, <1>5

LEMMA WriteStep ==
  ASSUME SearchInv, SerialInv, NEW u \in Uris, EditorWrites(u)
  PROVE  SerialInv'
<1>0. Alone /\ OpenOK /\ AllNoted /\ AllRebuilds /\ Settled /\ AnswersSeeEdits /\ AllSearches
  BY DEF SerialInv
<1>1. /\ UNCHANGED <<tables, roots, parserState, rebuildGen, appliedGen, queue, job, submitted,
                     docs, answer>>
      /\ docs[u] # None /\ disk' = [disk EXCEPT ![PathOf[u]] = docs[u].text]
  BY DEF EditorWrites, DiskChange, serviceVars, poolVars, sessionVars
<1>2. /\ u = UriOf[PathOf[u]] /\ PathOf[u] \in Files /\ docs[u].text \in Texts
      /\ disk'[PathOf[u]] = docs[u].text
      /\ \A f \in Files \ {PathOf[u]} : disk'[f] = disk[f]
  BY <1>0, <1>1, OpenFacts, SessionFacts, PathAssumption
<1>3. Alone' /\ AllNoted' /\ AnswersSeeEdits' /\ AllSearches'
  BY <1>0, <1>1 DEF Alone, AllNoted, AnswersSeeEdits, Answered, AllSearches, SearchJobOK,
     SearchingOK, RequestOK
<1>4. OpenOK'
  BY <1>0, <1>1, <1>2, PathAssumption DEF OpenOK
<1>5. ASSUME NEW f \in TextFiles
      PROVE  f \in Files /\ (disk'[f] = disk[f] \/ docs[UriOf[f]] # None)
  BY <1>1, <1>2, PathAssumption
<1>6. Settled'
  <2> SUFFICES ASSUME parserState # None, appliedGen = rebuildGen, NEW f \in TextFiles,
                      InWorkspace(roots, f)
               PROVE  SettledFile(f)'
    BY <1>1 DEF Settled, InWorkspace
  <2>1. SettledFile(f)
    BY <1>0 DEF Settled
  <2> QED BY <1>1, <1>5, <2>1, OpenIgnoresDisk DEF SettledFile
<1>7. AllRebuilds'
  <2>1. OpenDocuments' = OpenDocuments
    BY <1>1 DEF OpenDocuments, OpenUris
  <2>2. ASSUME NEW j, RebuildOK(j), NEW f \in TextFiles, j.kind = "building"
        PROVE  BuiltFile(j.built, j.todo, j.task.folders, f, parserState, docs[UriOf[f]], disk'[f])
    BY <1>5, <2>2, OpenIgnoresDisk DEF RebuildOK
  <2>3. \A k \in DOMAIN queue : RebuildOK(queue[k])'
    BY <1>0, <1>1, <2>1, <2>2 DEF AllRebuilds, RebuildOK, Latest
  <2>4. \A w \in Workers : RebuildOK(job[w])'
    BY <1>0, <1>1, <2>1, <2>2 DEF AllRebuilds, RebuildOK, Latest
  <2> QED BY <1>0, <1>1, <2>3, <2>4 DEF AllRebuilds
<1> QED BY <1>3, <1>4, <1>6, <1>7 DEF SerialInv

-----------------------------------------------------------------------------
(* The steps of the thread at work. *)

\* Thread w goes on with task, and nothing else runs.
Turn(w, task) ==
  /\ \A v \in Workers \ {w} : job[v] = Idle
  /\ job' = [job EXCEPT ![w] = task]

LEMMA TurnFacts ==
  ASSUME SearchInv, NEW w \in Workers, NEW task, Turn(w, task)
  PROVE  /\ job'[w] = task
         /\ \A v \in Workers \ {w} : job[v] = Idle /\ job'[v] = Idle
         /\ Alone'
<1>1. /\ job'[w] = task
      /\ \A v \in Workers \ {w} : job[v] = Idle /\ job'[v] = Idle
  BY SessionFacts DEF Turn
<1> QED BY <1>1 DEF Alone

LEMMA TurnSettled ==
  ASSUME SearchInv, Settled, NEW w \in Workers, NEW task, Turn(w, task),
         UNCHANGED <<parserState, rebuildGen, appliedGen, roots, docs, disk>>,
         parserState # None /\ appliedGen = rebuildGen =>
           \A f \in TextFiles :
             /\ InWorkspace(roots, f)
             /\ KeepsOne(queue, job[w], tables, f, parserState, docs[UriOf[f]], disk[f])
             /\ FitsOne(queue, job[w], tables, f, docs[UriOf[f]])
             => /\ KeepsOne(queue', task, tables', f, parserState, docs[UriOf[f]], disk[f])
                /\ FitsOne(queue', task, tables', f, docs[UriOf[f]])
  PROVE  Settled'
<1> SUFFICES ASSUME parserState # None, appliedGen = rebuildGen, NEW f \in TextFiles,
                    InWorkspace(roots, f)
             PROVE  SettledFile(f)'
  BY DEF Settled, InWorkspace
<1>1. SettledFile(f)
  BY DEF Settled
<1>2. /\ KeepsOne(queue, job[w], tables, f, parserState, docs[UriOf[f]], disk[f])
      /\ FitsOne(queue, job[w], tables, f, docs[UriOf[f]])
  BY <1>1, TurnFacts, OneAtWork DEF SettledFile
<1>3. /\ KeepsOne(queue', job'[w], tables', f, parserState, docs[UriOf[f]], disk[f])
      /\ FitsOne(queue', job'[w], tables', f, docs[UriOf[f]])
  BY <1>2, TurnFacts
<1>4. \A v \in Workers \ {w} : job'[v] = Idle
  BY TurnFacts
<1>5. /\ Keeps(queue', job', tables', f, parserState, docs[UriOf[f]], disk[f])
      /\ Fits(queue', job', tables', f, docs[UriOf[f]])
  BY <1>3, <1>4, OneAtWork
<1> QED BY <1>5 DEF SettledFile

\* A turn that has to do with no file.
LEMMA TurnAside ==
  ASSUME SearchInv, Settled, NEW w \in Workers, NEW task, Turn(w, task),
         UNCHANGED <<tables, queue, parserState, rebuildGen, appliedGen, roots, docs, disk>>,
         \A f : ~Touches(job[w], f) /\ ~Touches(task, f)
  PROVE  Settled'
<1>1. ASSUME NEW f, NEW d, NEW p, NEW x
      PROVE  /\ KeepsOne(queue, job[w], tables, f, p, d, x) => KeepsOne(queue, task, tables, f, p, d, x)
             /\ FitsOne(queue, job[w], tables, f, d) => FitsOne(queue, task, tables, f, d)
  <2>1. ~Brings(job[w], f, p, d, x) /\ OpenFits(task, f, d)
    BY IdleTouchesNothing
  <2> QED BY <2>1 DEF KeepsOne, FitsOne
<1> QED BY <1>1, TurnSettled

\* What a turn of the service leaves as it was.
LEMMA TurnRest ==
  ASSUME SearchInv, SerialInv, NEW w \in Workers, NEW task, Turn(w, task),
         UNCHANGED <<queue, parserState, rebuildGen, docs, disk, submitted, answer>>,
         Noted(task, submitted), task.kind \notin SearchKinds, tables'.indexed \subseteq TextFiles
  PROVE  Alone' /\ OpenOK' /\ AllNoted' /\ AllSearches' /\ AnswersSeeEdits'
<1>0. OpenOK /\ AllNoted /\ AllSearches /\ AnswersSeeEdits
  BY DEF SerialInv
<1>1. Alone' /\ OpenOK' /\ AnswersSeeEdits'
  BY <1>0, TurnFacts DEF OpenOK, AnswersSeeEdits, Answered
<1>2. Noted(Idle, submitted) /\ Idle.kind \notin SearchKinds
  BY DEF Noted, Idle, SearchKinds
<1>3. \A v \in Workers : Noted(job'[v], submitted) /\ job'[v].kind \notin SearchKinds
  BY <1>2, TurnFacts
<1>4. AllNoted'
  BY <1>0, <1>3 DEF AllNoted
<1>5. \A k \in DOMAIN queue :
        /\ SearchJobOK(queue[k])
        /\ queue[k].kind \notin {"waiting", "searching", "scoring", "found"}
  <2>1. \A k \in DOMAIN queue : queue[k] \in PostedTask
    BY SessionFacts
  <2> QED BY <1>0, <2>1, Kinds DEF AllSearches, PostedTask, SearchTask, SearchKinds
<1>6. \A k \in DOMAIN queue : SearchJobOK(queue[k])'
  BY <1>5 DEF SearchJobOK, RequestOK
<1>7. AllSearches'
  BY <1>3, <1>6 DEF AllSearches, SearchJobOK, SearchKinds
<1> QED BY <1>1, <1>4, <1>7

LEMMA TurnRebuilds ==
  ASSUME SearchInv, AllRebuilds, NEW w \in Workers, NEW task, Turn(w, task),
         UNCHANGED <<queue, parserState, rebuildGen, appliedGen, docs, disk>>,
         RebuildOK(task),
         task.kind \in {"rebuild", "building"} => job[w].kind \in {"rebuild", "building"}
  PROVE  AllRebuilds'
<1>1. \A j : RebuildOK(j) => RebuildOK(j)'
  BY DEF RebuildOK, Latest, OpenDocuments, OpenUris
<1>2. RebuildOK(Idle)'
  BY DEF RebuildOK, Idle
<1>3. \A v \in Workers : RebuildOK(job[v])'
  <2>1. RebuildOK(job[w])'
    BY <1>1, TurnFacts
  <2>2. \A v \in Workers \ {w} : RebuildOK(job[v])'
    BY <1>2, TurnFacts DEF RebuildOK, Idle
  <2> QED BY <2>1, <2>2
<1>4. \A k \in DOMAIN queue' : RebuildOK(queue[k])'
  BY <1>1 DEF AllRebuilds
<1>5. \A v \in Workers : job'[v].kind \in {"rebuild", "building"} =>
        \A k \in DOMAIN queue : queue[k].kind = "search"
  <2>1. \A v \in Workers \ {w} : job'[v].kind \notin {"rebuild", "building"}
    BY TurnFacts DEF Idle
  <2> QED BY <2>1, TurnFacts DEF AllRebuilds
<1> QED BY <1>3, <1>4, <1>5 DEF AllRebuilds

LEMMA StartStep ==
  ASSUME SearchInv, SerialInv, NEW w \in Workers, StartTask(w),
         \A v \in Workers \ {w} : job[v] = Idle, UNCHANGED <<sessionVars, answer>>
  PROVE  SerialInv'
<1> DEFINE task == Head(queue)
<1>0. OpenOK /\ AllNoted /\ AllRebuilds /\ Settled /\ AnswersSeeEdits /\ AllSearches
  BY DEF SerialInv
<1>1. /\ UNCHANGED <<tables, roots, parserState, rebuildGen, appliedGen, disk, submitted,
                     docs, answer>>
      /\ job[w] = Idle /\ queue # << >> /\ queue' = Tail(queue) /\ Turn(w, task)
  BY DEF StartTask, Turn, serviceVars, sessionVars
<1>2. queue \in Seq(PostedTask)
  BY SessionFacts
<1>3. /\ 1 \in DOMAIN queue /\ task = queue[1]
      /\ \A k \in DOMAIN queue' : k + 1 \in DOMAIN queue /\ k + 1 > 1 /\ (queue')[k] = queue[k + 1]
      /\ DOMAIN queue' \subseteq Int
  BY <1>1, <1>2, Taken
<1>4. task \in PostedTask
  BY <1>2, <1>3
<1>5. Settled'
  <2>1. \A f, p, d, x : KeepsOne(queue, Idle, tables, f, p, d, x) =>
                        KeepsOne(queue', task, tables, f, p, d, x)
    BY <1>1, <1>2, TakenKeeps
  <2>2. \A f, d : FitsOne(queue, Idle, tables, f, d) => FitsOne(queue', task, tables, f, d)
    BY <1>1, <1>2, TakenFits
  <2> HIDE DEF task
  <2> QED BY <1>0, <1>1, <2>1, <2>2, TurnSettled
<1> HIDE DEF task
<1>6. Alone' /\ OpenOK' /\ AnswersSeeEdits'
  BY <1>0, <1>1, TurnFacts DEF OpenOK, AnswersSeeEdits, Answered
<1>7. AllNoted'
  <2>1. Noted(Idle, submitted)
    BY DEF Noted, Idle
  <2>2. Noted(task, submitted) /\ \A k \in DOMAIN queue' : Noted((queue')[k], submitted)
    BY <1>0, <1>3 DEF AllNoted
  <2>3. \A v \in Workers : Noted(job'[v], submitted)
    BY <1>1, <2>1, <2>2, TurnFacts
  <2> QED BY <1>0, <1>1, <2>2, <2>3 DEF AllNoted
<1>8. AllRebuilds'
  <2>1. \A j : RebuildOK(j) => RebuildOK(j)'
    BY <1>1 DEF RebuildOK, Latest, OpenDocuments, OpenUris
  <2>2. RebuildOK(task) /\ \A k \in DOMAIN queue' : RebuildOK((queue')[k])
    BY <1>0, <1>3 DEF AllRebuilds
  <2>3. \A k \in DOMAIN queue' : RebuildOK(queue[k])'
    BY <2>1, <2>2
  <2>4. \A v \in Workers : RebuildOK(job[v])'
    <3>1. RebuildOK(job[w])'
      BY <1>1, <2>1, <2>2, TurnFacts
    <3>2. \A v \in Workers \ {w} : RebuildOK(job[v])'
      BY <1>1, TurnFacts DEF RebuildOK, Idle
    <3> QED BY <3>1, <3>2
  <2>5. \A k, m \in DOMAIN queue' :
          (queue')[k].kind = "rebuild" /\ m > k => (queue')[m].kind = "search"
    <3> SUFFICES ASSUME NEW k \in DOMAIN queue', NEW m \in DOMAIN queue',
                        (queue')[k].kind = "rebuild", m > k
                 PROVE  (queue')[m].kind = "search"
      OBVIOUS
    <3>1. m + 1 > k + 1
      BY <1>3
    <3> QED BY <1>0, <1>3, <3>1 DEF AllRebuilds
  <2>6. \A v \in Workers : job'[v].kind \in {"rebuild", "building"} =>
          \A k \in DOMAIN queue' : (queue')[k].kind = "search"
    <3>1. task.kind # "building"
      BY <1>4 DEF PostedTask, Task, RebuildTask, OpenTask, CloseTask, SearchTask
    <3>2. task.kind = "rebuild" => \A k \in DOMAIN queue' : (queue')[k].kind = "search"
      BY <1>0, <1>3 DEF AllRebuilds
    <3>3. \A v \in Workers \ {w} : job'[v].kind \notin {"rebuild", "building"}
      BY <1>1, TurnFacts DEF Idle
    <3> QED BY <1>1, <3>1, <3>2, <3>3, TurnFacts
  <2> QED BY <2>3, <2>4, <2>5, <2>6 DEF AllRebuilds
<1>9. AllSearches'
  <2>1. \A v \in Workers \ {w} : job'[v].kind \notin SearchKinds
    BY <1>1, TurnFacts DEF Idle, SearchKinds
  <2>2. task.kind \notin {"waiting", "searching", "scoring", "found"}
    BY <1>4 DEF PostedTask, Task, RebuildTask, OpenTask, CloseTask, SearchTask
  <2>3. \A k \in DOMAIN queue' : (queue')[k].kind \notin {"waiting", "searching", "scoring", "found"}
    <3>1. \A k \in DOMAIN queue : queue[k] \in PostedTask
      BY <1>2
    <3>2. \A t \in PostedTask : t.kind \notin {"waiting", "searching", "scoring", "found"}
      BY DEF PostedTask, Task, RebuildTask, OpenTask, CloseTask, SearchTask
    <3> QED BY <1>3, <3>1, <3>2
  <2>4. (task.kind = "search" => RequestOK(task))
        /\ \A k \in DOMAIN queue' : (queue')[k].kind = "search" => RequestOK((queue')[k])
    BY <1>0, <1>3 DEF AllSearches, SearchJobOK
  <2>5. \A r : RequestOK(r) => RequestOK(r)'
    BY <1>1 DEF RequestOK
  <2>6. \A k \in DOMAIN queue' : SearchJobOK(queue[k])'
    BY <2>3, <2>4, <2>5 DEF SearchJobOK
  <2>7. job'[w] = task
    BY <1>1, TurnFacts
  <2>8. SearchJobOK(job[w])'
    BY <2>2, <2>4, <2>5, <2>7 DEF SearchJobOK
  <2>9. \A v \in Workers : SearchJobOK(job[v])'
    BY <2>1, <2>8 DEF SearchJobOK, SearchKinds
  <2>10. task.kind = "search" => queue' = << >>
    <3>1. task.kind = "search" => Len(queue) = 1
      BY <1>3, PostedSearch
    <3> QED BY <1>1, <1>2, <3>1
  <2> QED BY <2>1, <2>2, <2>6, <2>7, <2>9, <2>10 DEF AllSearches, SearchKinds
<1> QED BY <1>5, <1>6, <1>7, <1>8, <1>9 DEF SerialInv

\* The rebuild of the configuration set last.
LEMMA RebuildFacts ==
  ASSUME SearchInv, AllRebuilds, NEW w \in Workers, job[w].kind \in {"rebuild", "building"}
  PROVE  /\ job[w].kind = "rebuild" => job[w] \in RebuildTask /\ Latest(job[w])
         /\ job[w].kind = "building" =>
              /\ job[w] \in Building /\ Latest(job[w].task)
              /\ TablesConsistent(job[w].built)
         /\ appliedGen < rebuildGen
         /\ \A k \in DOMAIN queue : queue[k].kind = "search"
<1>1. RebuildOK(job[w]) /\ \A k \in DOMAIN queue : queue[k].kind = "search"
  BY DEF AllRebuilds
<1>2. ASSUME job[w].kind = "building" PROVE TablesConsistent(job[w].built)
  <2>1. ServiceJob[w] = job[w]
    BY <1>2, SameJob DEF SearchKinds
  <2>2. Service!TablesConsistent(job[w].built)
    BY <1>2, <2>1 DEF SearchInv, Service!TablesOK, Service!TablesInv
  <2> QED BY <2>2, SameContents
<1>3. /\ job[w].kind = "rebuild" => job[w] \in RebuildTask
      /\ job[w].kind = "building" => job[w] \in Building
  BY SessionFacts, JobsByKind
<1> QED BY <1>1, <1>2, <1>3 DEF RebuildOK, Latest

\* A scan finds every open file of the workspace, and the others are to be
\* built from nothing.
LEMMA ScanStep ==
  ASSUME SearchInv, SerialInv, NEW w \in Workers, RebuildScan(w),
         \A v \in Workers \ {w} : job[v] = Idle, UNCHANGED <<sessionVars, answer>>
  PROVE  SerialInv'
<1> DEFINE scan == Scan(job[w].folders)
           task == [kind |-> "building", task |-> job[w], todo |-> scan, built |-> EmptyTables]
<1>0. OpenOK /\ AllNoted /\ AllRebuilds
  BY DEF SerialInv
<1>1. /\ UNCHANGED <<tables, roots, parserState, rebuildGen, appliedGen, queue, disk, submitted,
                     docs, answer>>
      /\ job[w].kind = "rebuild" /\ Turn(w, task)
  BY DEF RebuildScan, Turn, serviceVars, sessionVars
<1>2. job[w] \in RebuildTask /\ Latest(job[w]) /\ appliedGen < rebuildGen
  BY <1>0, <1>1, RebuildFacts
<1>3. Settled'
  <2>1. appliedGen # rebuildGen
    BY <1>2, SessionFacts
  <2> QED BY <1>1, <2>1 DEF Settled
<1>4. ASSUME NEW f \in TextFiles
      PROVE  BuiltFile(EmptyTables, scan, job[w].folders, f, parserState, docs[UriOf[f]], disk[f])
  <2>1. FileLines(EmptyTables, f) = {} /\ EmptyTables.versions[f] = None
    BY PathAssumption DEF FileLines, EmptyTables
  <2>2. ASSUME docs[UriOf[f]] # None, InWorkspace(job[w].folders, f) PROVE f \in scan
    <3>1. disk[f] \in Texts /\ \A v \in Folders : f \notin Unscanned[v]
      BY <1>0, <2>2, PathAssumption DEF OpenOK
    <3>2. job[w].folders \subseteq Folders
      BY <1>2 DEF RebuildTask
    <3> QED BY <2>2, <3>1, <3>2, DiskAssumption DEF Scan, InWorkspace
  <2> HIDE DEF scan
  <2> QED BY <2>1, <2>2 DEF BuiltFile, Holds, VersionFits
<1>5. scan \subseteq TextFiles
  BY DEF Scan
<1>6. RebuildOK(task)
  <2>1. /\ task.kind = "building" /\ task.task = job[w] /\ task.todo = scan
        /\ task.built = EmptyTables
    OBVIOUS
  <2>2. EmptyTables.indexed = {}
    BY DEF EmptyTables
  <2> HIDE DEF task, scan
  <2> QED BY <1>2, <1>4, <1>5, <2>1, <2>2 DEF RebuildOK
<1>7. Noted(task, submitted) /\ task.kind = "building" /\ task.kind \notin SearchKinds
  BY DEF Noted, SearchKinds
<1> HIDE DEF task
<1>8. Alone' /\ OpenOK' /\ AllNoted' /\ AllSearches' /\ AnswersSeeEdits'
  BY <1>0, <1>1, <1>7, TurnRest DEF AllNoted
<1>9. AllRebuilds'
  BY <1>0, <1>1, <1>6, TurnRebuilds
<1> QED BY <1>3, <1>8, <1>9 DEF SerialInv

\* One turn of the ingest loop gives f what it should show.
LEMMA Ingested ==
  ASSUME NEW t \in Tables, TablesConsistent(t), NEW todo \in SUBSET TextFiles, NEW f \in todo,
         NEW t2, ButFor(f, t2, t), NEW fs,
         NEW p, NEW d, NEW x, Holds(t2, f, p, d, x), VersionFits(t2.versions[f], d)
  PROVE  /\ BuiltFile(t2, todo \ {f}, fs, f, p, d, x)
         /\ \A g \in TextFiles \ {f} : \A e, y :
              BuiltFile(t, todo, fs, g, p, e, y) => BuiltFile(t2, todo \ {f}, fs, g, p, e, y)
<1>1. BuiltFile(t2, todo \ {f}, fs, f, p, d, x)
  BY DEF BuiltFile
<1>2. ASSUME NEW g \in TextFiles \ {f}, NEW e, NEW y, BuiltFile(t, todo, fs, g, p, e, y)
      PROVE  BuiltFile(t2, todo \ {f}, fs, g, p, e, y)
  <2>1. g \in Files /\ g # f
    BY PathAssumption
  <2>2. /\ Holds(t, g, p, e, y) => Holds(t2, g, p, e, y)
        /\ t2.versions[g] = t.versions[g] /\ FileLines(t2, g) = FileLines(t, g)
    BY <2>1, ButForHolds
  <2> QED BY <1>2, <2>1, <2>2 DEF BuiltFile
<1> QED BY <1>1, <1>2

LEMMA ButForItself ==
  ASSUME NEW t \in Tables, NEW f
  PROVE  ButFor(f, t, t)
<1>1. t.nextId \in Nat
  BY DEF Tables, LineId
<1>2. t.nextId >= t.nextId
  BY <1>1
<1> QED BY <1>2 DEF ButFor

LEMMA IngestStep ==
  ASSUME SearchInv, SerialInv, NEW w \in Workers, RebuildIngest(w),
         \A v \in Workers \ {w} : job[v] = Idle, UNCHANGED <<sessionVars, answer>>
  PROVE  SerialInv'
<1> DEFINE j == job[w]
<1>0. OpenOK /\ AllNoted /\ AllRebuilds
  BY DEF SerialInv
<1>1. /\ UNCHANGED <<tables, roots, parserState, rebuildGen, appliedGen, queue, disk, submitted,
                     docs, answer>>
      /\ j.kind = "building"
  BY DEF RebuildIngest, serviceVars, sessionVars
<1>2. /\ j \in Building /\ Latest(j.task) /\ TablesConsistent(j.built)
      /\ appliedGen < rebuildGen /\ RebuildOK(j)
  BY <1>0, <1>1, RebuildFacts DEF AllRebuilds
<1>3. j.built \in Tables /\ j.todo \subseteq TextFiles /\ j.built.indexed \subseteq TextFiles
      /\ j.task.parser = parserState /\ parserState \in Parsers /\ j.task.docs = OpenDocuments
  <2>1. j.built \in Tables /\ j.task \in RebuildTask
    BY <1>2 DEF Building
  <2>2. j.task.parser \in Parsers
    BY <2>1 DEF RebuildTask
  <2> QED BY <1>1, <1>2, <2>1, <2>2 DEF RebuildOK, Latest
<1>4. PICK f \in j.todo :
        LET task == j.task
            snapshot == {d \in task.docs : d.uri = UriOf[f]}
            Ingest(tabs) == job' = [job EXCEPT ![w].todo = @ \ {f}, ![w].built = tabs]
        IN  \/ \E d \in snapshot :
                 Ingest(IngestOpen(j.built, f, task.parser, d.text, d.version))
            \/ /\ snapshot = {}
               /\ \E text \in Loads(f), stamp \in TimestampRead :
                    Ingest(IF text \in {Absent, Unreadable} THEN j.built
                           ELSE IngestDisk(j.built, f, task.parser, text, stamp))
  BY DEF RebuildIngest
<1> DEFINE d0 == docs[UriOf[f]]
           After(tabs) == [j EXCEPT !.todo = @ \ {f}, !.built = tabs]
<1>5. f \in Files /\ f \in TextFiles /\ UriOf[f] \in Uris /\ PathOf[UriOf[f]] = f
  BY <1>3, PathAssumption
<1>6. FileLines(j.built, f) = {} /\ j.built.versions[f] = None
  BY <1>1, <1>2, <1>5 DEF RebuildOK, BuiltFile
<1>7. \A d : (d \in j.task.docs /\ d.uri = UriOf[f]) <=> (d0 # None /\ d = d0)
  BY <1>3, <1>5, SessionFacts DEF OpenDocuments, OpenUris
<1>8. PICK tabs : /\ job' = [job EXCEPT ![w].todo = @ \ {f}, ![w].built = tabs]
                  /\ ButFor(f, tabs, j.built)
                  /\ Holds(tabs, f, parserState, d0, disk[f])
                  /\ VersionFits(tabs.versions[f], d0)
  <2>1. CASE d0 # None
    <3> DEFINE tabs == IngestOpen(j.built, f, parserState, d0.text, d0.version)
    <3>1. job' = [job EXCEPT ![w].todo = @ \ {f}, ![w].built = tabs]
      BY <1>3, <1>4, <1>7, <2>1
    <3>2. d0.text \in Texts /\ d0.version \in Versions
      BY <1>5, <2>1, SessionFacts
    <3>3. ButFor(f, tabs, j.built) /\ Shows(tabs, f, parserState, d0.text)
          /\ tabs.versions[f] \in {None, d0.version}
      BY <1>2, <1>3, <1>5, <1>6, <3>2, OpenIngested
    <3> HIDE DEF tabs
    <3>4. VersionFits(tabs.versions[f], d0)
      <4> DEFINE v == d0.version
      <4>1. v \in Int
        BY <3>2, SessionAssumption
      <4> HIDE DEF v
      <4>2. v <= v
        BY <4>1
      <4> USE DEF v
      <4> QED BY <3>3, <4>2 DEF VersionFits
    <3> QED BY <2>1, <3>1, <3>3, <3>4 DEF Holds
  <2>2. CASE d0 = None
    <3>1. PICK text \in Loads(f), stamp \in TimestampRead :
            job' = [job EXCEPT ![w].todo = @ \ {f},
                               ![w].built = IF text \in {Absent, Unreadable} THEN j.built
                                            ELSE IngestDisk(j.built, f, parserState, text, stamp)]
      BY <1>3, <1>4, <1>7, <2>2
    <3>2. CASE text \in {Absent, Unreadable}
      <4>1. job' = [job EXCEPT ![w].todo = @ \ {f}, ![w].built = j.built]
        BY <3>1, <3>2
      <4>2. Holds(j.built, f, parserState, d0, disk[f]) /\ VersionFits(j.built.versions[f], d0)
        BY <1>6, <2>2 DEF Holds, VersionFits
      <4> QED BY <1>3, <4>1, <4>2, ButForItself
    <3>3. CASE text \notin {Absent, Unreadable}
      <4> DEFINE tabs == IngestDisk(j.built, f, parserState, text, stamp)
      <4>1. job' = [job EXCEPT ![w].todo = @ \ {f}, ![w].built = tabs]
        BY <3>1, <3>3
      <4>2. text = disk[f] /\ text \in Texts /\ stamp \in BOOLEAN
        <5>1. text = disk[f]
          BY <3>3 DEF Loads
        <5>2. disk[f] \in Texts \cup {Absent}
          BY <1>5, SessionFacts
        <5>3. stamp \in BOOLEAN
          BY DEF TimestampRead
        <5> QED BY <3>3, <5>1, <5>2, <5>3
      <4>3. ButFor(f, tabs, j.built) /\ tabs.versions[f] = None
            /\ (FileLines(tabs, f) # {} => Shows(tabs, f, parserState, text))
        BY <1>2, <1>3, <1>5, <1>6, <4>2, DiskIngested
      <4> HIDE DEF tabs
      <4>4. Holds(tabs, f, parserState, d0, disk[f]) /\ VersionFits(tabs.versions[f], d0)
        BY <2>2, <4>2, <4>3 DEF Holds, VersionFits
      <4> QED BY <4>1, <4>3, <4>4
    <3> QED BY <3>2, <3>3
  <2> QED BY <2>1, <2>2
<1> DEFINE task == After(tabs)
<1>9. /\ Turn(w, task)
      /\ task.kind = "building" /\ task.task = j.task /\ task.todo = j.todo \ {f}
      /\ task.built = tabs
  <2>1. job' = [job EXCEPT ![w] = task]
    BY <1>8
  <2> QED BY <1>1, <1>2, <2>1 DEF Turn, Building
<1> HIDE DEF task, After
<1>10. Settled'
  <2>1. appliedGen # rebuildGen
    BY <1>2, SessionFacts
  <2> QED BY <1>1, <2>1 DEF Settled
<1>11. RebuildOK(task)
  <2>1. ASSUME NEW g \in TextFiles
        PROVE  BuiltFile(tabs, j.todo \ {f}, j.task.folders, g, parserState, docs[UriOf[g]], disk[g])
    <3>0. j.todo \in SUBSET TextFiles
      BY <1>3
    <3>1. BuiltFile(j.built, j.todo, j.task.folders, g, parserState, docs[UriOf[g]], disk[g])
      BY <1>1, <1>2 DEF RebuildOK
    <3>2. CASE g = f
      BY <1>2, <1>3, <1>8, <3>0, <3>2, Ingested
    <3>3. CASE g # f
      BY <1>2, <1>3, <1>8, <3>0, <3>1, <3>3, Ingested
    <3> QED BY <3>2, <3>3
  <2>2. tabs.indexed \subseteq TextFiles
    BY <1>3, <1>5, <1>8 DEF ButFor
  <2> QED BY <1>2, <1>3, <1>9, <2>1, <2>2 DEF RebuildOK
<1>12. Noted(task, submitted) /\ task.kind \notin SearchKinds
  BY <1>9 DEF Noted, SearchKinds
<1>13. Alone' /\ OpenOK' /\ AllNoted' /\ AllSearches' /\ AnswersSeeEdits'
  BY <1>0, <1>1, <1>9, <1>12, TurnRest DEF AllNoted
<1>14. AllRebuilds'
  BY <1>0, <1>1, <1>9, <1>11, TurnRebuilds
<1> QED BY <1>10, <1>13, <1>14 DEF SerialInv

\* The rebuild of the configuration set last is applied: every file of the
\* workspace shows what it should, and nothing but a search is posted.
LEMMA ApplyStep ==
  ASSUME SearchInv, SerialInv, NEW w \in Workers, RebuildApply(w),
         \A v \in Workers \ {w} : job[v] = Idle, UNCHANGED <<sessionVars, answer>>
  PROVE  SerialInv'
<1> DEFINE j == job[w]
           task == [kind |-> "notifying", gen |-> j.task.gen]
<1>0. OpenOK /\ AllNoted /\ AllRebuilds
  BY DEF SerialInv
<1>1. /\ UNCHANGED <<parserState, rebuildGen, queue, disk, submitted, docs, answer>>
      /\ j.kind = "building" /\ j.todo = {}
  BY DEF RebuildApply, sessionVars
<1>2. /\ j \in Building /\ Latest(j.task) /\ RebuildOK(j)
      /\ \A k \in DOMAIN queue : queue[k].kind = "search"
  BY <1>0, <1>1, RebuildFacts DEF AllRebuilds
<1>3. /\ tables' = j.built /\ roots' = j.task.folders /\ appliedGen' = rebuildGen
      /\ Turn(w, task)
  BY <1>2 DEF RebuildApply, IsCurrent, Latest, Turn
<1>4. task.kind = "notifying"
  OBVIOUS
<1> HIDE DEF task
<1>5. /\ \A f : ~Touches(task, f) /\ \A d : OpenFits(task, f, d)
      /\ Noted(task, submitted)
      /\ task.kind \notin SearchKinds
  BY <1>4 DEF Touches, OpenFits, Noted, SearchKinds
<1>6. \A f : Leaves(queue, f) /\ \A k \in DOMAIN queue : \A d : OpenFits(queue[k], f, d)
  BY <1>2 DEF Leaves, Touches, OpenFits
<1>7. /\ job'[w] = task
      /\ \A v \in Workers \ {w} : job'[v] = Idle
  BY <1>3, TurnFacts
<1>8. Settled'
  <2> SUFFICES ASSUME NEW f \in TextFiles, InWorkspace(roots', f)
               PROVE  SettledFile(f)'
    BY DEF Settled, InWorkspace
  <2>1. BuiltFile(j.built, {}, j.task.folders, f, parserState, docs[UriOf[f]], disk[f])
    BY <1>1, <1>2 DEF RebuildOK
  <2>2. /\ Holds(tables', f, parserState, docs[UriOf[f]], disk[f])
        /\ VersionFits(tables'.versions[f], docs[UriOf[f]])
    BY <1>3, <2>1 DEF BuiltFile
  <2>3. /\ KeepsOne(queue, task, tables', f, parserState, docs[UriOf[f]], disk[f])
        /\ FitsOne(queue, task, tables', f, docs[UriOf[f]])
    BY <1>5, <1>6, <2>2 DEF KeepsOne, FitsOne
  <2>4. /\ Keeps(queue, job', tables', f, parserState, docs[UriOf[f]], disk[f])
        /\ Fits(queue, job', tables', f, docs[UriOf[f]])
    BY <1>7, <2>3, OneAtWork
  <2> QED BY <1>1, <2>4 DEF SettledFile
<1>9. tables'.indexed \subseteq TextFiles
  BY <1>1, <1>2, <1>3 DEF RebuildOK
<1>10. Alone' /\ OpenOK' /\ AllNoted' /\ AllSearches' /\ AnswersSeeEdits'
  BY <1>1, <1>3, <1>5, <1>9, TurnRest
<1>11. AllRebuilds'
  <2>1. \A v \in Workers : RebuildOK(job[v])' /\ job'[v].kind \notin {"rebuild", "building"}
    BY <1>4, <1>7 DEF RebuildOK, Idle
  <2>2. \A k \in DOMAIN queue' : RebuildOK(queue[k])'
    BY <1>1, <1>2 DEF RebuildOK
  <2> QED BY <1>1, <1>2, <2>1, <2>2 DEF AllRebuilds
<1> QED BY <1>8, <1>10, <1>11 DEF SerialInv

\* A rebuild that fails leaves the configuration unapplied.
LEMMA FailStep ==
  ASSUME SearchInv, SerialInv, NEW w \in Workers, RebuildFail(w) \/ NotifyIndexReady(w),
         \A v \in Workers \ {w} : job[v] = Idle, UNCHANGED <<sessionVars, answer>>
  PROVE  SerialInv'
<1>0. OpenOK /\ AllNoted /\ AllRebuilds /\ Settled
  BY DEF SerialInv
<1>1. /\ UNCHANGED <<tables, roots, parserState, rebuildGen, appliedGen, queue, disk, submitted,
                     docs, answer>>
      /\ Turn(w, Idle) /\ job[w].kind \in {"rebuild", "building", "notifying"}
  BY DEF RebuildFail, NotifyIndexReady, Turn, serviceVars, sessionVars
<1>2. Settled'
  <2>1. CASE job[w].kind = "notifying"
    <3>1. \A f : ~Touches(job[w], f) /\ ~Touches(Idle, f)
      BY <2>1, IdleTouchesNothing DEF Touches
    <3> QED BY <1>0, <1>1, <3>1, TurnAside
  <2>2. CASE job[w].kind \in {"rebuild", "building"}
    <3>1. appliedGen # rebuildGen
      BY <1>0, <2>2, RebuildFacts, SessionFacts
    <3> QED BY <1>1, <3>1 DEF Settled
  <2> QED BY <1>1, <2>1, <2>2
<1>3. Noted(Idle, submitted) /\ RebuildOK(Idle) /\ Idle.kind = "idle"
  BY DEF Noted, RebuildOK, Idle
<1>4. Alone' /\ OpenOK' /\ AllNoted' /\ AllSearches' /\ AnswersSeeEdits'
  BY <1>0, <1>1, <1>3, TurnRest DEF AllNoted, SearchKinds
<1>5. AllRebuilds'
  BY <1>0, <1>1, <1>3, TurnRebuilds
<1> QED BY <1>2, <1>4, <1>5 DEF SerialInv

\* The thread at work ends with the tables t2, an update of f0.
LEMMA CommitSettled ==
  ASSUME SearchInv, Settled, NEW w \in Workers, Turn(w, Idle), NEW f0,
         UNCHANGED <<queue, parserState, rebuildGen, appliedGen, roots, docs, disk>>,
         ButFor(f0, tables', tables), \A f : Touches(job[w], f) => f = f0,
         Touches(job[w], f0),
         ASSUME parserState # None, f0 \in TextFiles, InWorkspace(roots, f0)
         PROVE  /\ Brings(job[w], f0, parserState, docs[UriOf[f0]], disk[f0]) =>
                     Holds(tables', f0, parserState, docs[UriOf[f0]], disk[f0])
                /\ VersionFits(tables.versions[f0], docs[UriOf[f0]])
                   /\ OpenFits(job[w], f0, docs[UriOf[f0]])
                   => VersionFits(tables'.versions[f0], docs[UriOf[f0]])
  PROVE  Settled'
<1>1. ASSUME parserState # None, appliedGen = rebuildGen, NEW f \in TextFiles,
             InWorkspace(roots, f),
             KeepsOne(queue, job[w], tables, f, parserState, docs[UriOf[f]], disk[f]),
             FitsOne(queue, job[w], tables, f, docs[UriOf[f]])
      PROVE  /\ KeepsOne(queue, Idle, tables', f, parserState, docs[UriOf[f]], disk[f])
             /\ FitsOne(queue, Idle, tables', f, docs[UriOf[f]])
  <2>1. ~Touches(Idle, f) /\ OpenFits(Idle, f, docs[UriOf[f]])
    BY IdleTouchesNothing
  <2>2. CASE f = f0
    BY <1>1, <2>1, <2>2 DEF KeepsOne, FitsOne
  <2>3. CASE f # f0
    <3>1. ~Brings(job[w], f, parserState, docs[UriOf[f]], disk[f])
      BY <2>3, IdleTouchesNothing
    <3>2. /\ \A p, d, x : Holds(tables, f, p, d, x) => Holds(tables', f, p, d, x)
          /\ tables'.versions[f] = tables.versions[f]
      BY <2>3, SessionFacts, PathAssumption, ButForHolds
    <3> QED BY <1>1, <2>1, <3>1, <3>2 DEF KeepsOne, FitsOne
  <2> QED BY <2>2, <2>3
<1> QED BY <1>1, TurnSettled

\* What such an end leaves of the rest.
LEMMA CommitRest ==
  ASSUME SearchInv, SerialInv, NEW w \in Workers, Turn(w, Idle), NEW f0,
         UNCHANGED <<queue, parserState, rebuildGen, appliedGen, roots, docs, disk, submitted,
                     answer>>,
         ButFor(f0, tables', tables), f0 \in TextFiles, Settled'
  PROVE  SerialInv'
<1>1. AllNoted /\ AllRebuilds
  BY DEF SerialInv
<1>2. Noted(Idle, submitted) /\ RebuildOK(Idle) /\ Idle.kind = "idle"
  BY DEF Noted, RebuildOK, Idle
<1>3. tables'.indexed \subseteq TextFiles
  BY <1>1 DEF AllNoted, ButFor
<1>4. Alone' /\ OpenOK' /\ AllNoted' /\ AllSearches' /\ AnswersSeeEdits'
  BY <1>2, <1>3, TurnRest DEF SearchKinds
<1>5. AllRebuilds'
  BY <1>1, <1>2, TurnRebuilds
<1> QED BY <1>4, <1>5 DEF SerialInv

LEMMA OpenStep ==
  ASSUME SearchInv, SerialInv, NEW w \in Workers, OpenUpdateCommit(w),
         \A v \in Workers \ {w} : job[v] = Idle, UNCHANGED <<sessionVars, answer>>
  PROVE  SerialInv'
<1> DEFINE j == job[w]
           f0 == PathOf[j.doc.uri]
           updated == TagOpen(ReplaceDocument(tables, f0, Pairs(j.parser, j.doc.text)),
                              f0, j.doc.version)
<1>0. AllNoted /\ Settled
  BY DEF SerialInv
<1>1. /\ UNCHANGED <<queue, parserState, rebuildGen, appliedGen, roots, disk, submitted,
                     docs, answer>>
      /\ j.kind = "open" /\ Turn(w, Idle)
      /\ tables' = IF MayCommit(j, f0) THEN updated ELSE tables
  BY DEF OpenUpdateCommit, Turn, sessionVars
<1>2. /\ f0 \in TextFiles /\ f0 \in Files /\ j.parser \in Parsers
      /\ j.doc.text \in Texts /\ j.doc.version \in Versions
      /\ tables \in Tables /\ TablesConsistent(tables)
  <2>1. j \in OpenTask
    BY <1>1, SessionFacts, JobsByKind
  <2>2. j.doc \in Document /\ j.parser \in Parsers
    BY <2>1 DEF OpenTask
  <2>3. f0 \in TextFiles
    BY <1>0, <1>1 DEF AllNoted, Noted
  <2> QED BY <2>2, <2>3, SessionFacts, SessionAssumption, PathAssumption
<1>3. ButFor(f0, updated, tables) /\ Shows(updated, f0, j.parser, j.doc.text)
      /\ updated.versions[f0] = j.doc.version
  BY <1>2, OpenUpdated
<1> HIDE DEF updated
<1>4. ButFor(f0, tables', tables)
  BY <1>1, <1>2, <1>3, ButForItself
<1>5. Touches(j, f0) /\ \A f : Touches(j, f) => f = f0
  BY <1>1 DEF Touches
<1>6. ASSUME NEW d, NEW x, InWorkspace(roots, f0), Brings(j, f0, parserState, d, x)
      PROVE  Holds(tables', f0, parserState, d, x)
  <2>1. d # None /\ j.parser = parserState /\ j.doc.text = d.text
    BY <1>1, <1>6 DEF Brings
  <2>2. tables' = updated
    BY <1>1, <1>6, <2>1 DEF MayCommit
  <2> QED BY <1>3, <2>1, <2>2 DEF Holds
<1>7. ASSUME NEW d, VersionFits(tables.versions[f0], d), OpenFits(j, f0, d)
      PROVE  VersionFits(tables'.versions[f0], d)
  <2>1. VersionFits(j.doc.version, d)
    BY <1>1, <1>7 DEF OpenFits
  <2> QED BY <1>1, <1>3, <1>7, <2>1
<1> HIDE DEF f0
<1>8. Settled'
  BY <1>0, <1>1, <1>4, <1>5, <1>6, <1>7, CommitSettled
<1> QED BY <1>1, <1>2, <1>4, <1>8, CommitRest

\* The task of a closed document reads the file, and commits what it read.
LEMMA ReadStep ==
  ASSUME SearchInv, SerialInv, NEW w \in Workers, ClosedRefreshRead(w),
         \A v \in Workers \ {w} : job[v] = Idle, UNCHANGED <<sessionVars, answer>>
  PROVE  SerialInv'
<1> DEFINE j == job[w]
<1>0. AllNoted /\ Settled /\ AllRebuilds
  BY DEF SerialInv
<1>1. /\ UNCHANGED <<tables, roots, parserState, rebuildGen, appliedGen, queue, disk, submitted,
                     docs, answer>>
      /\ j.kind = "close"
  BY DEF ClosedRefreshRead, serviceVars, sessionVars
<1>2. PICK text \in IF disk[j.file] = Absent THEN {Absent} ELSE Loads(j.file) :
        job' = [job EXCEPT ![w] = [kind |-> "refreshing", task |-> j, read |-> text]]
  BY DEF ClosedRefreshRead
<1> DEFINE task == [kind |-> "refreshing", task |-> j, read |-> text]
<1>3. Turn(w, task) /\ task.kind = "refreshing" /\ task.task = j /\ task.read = text
  BY <1>2 DEF Turn
<1>4. text \in {disk[j.file], Unreadable}
  BY DEF Loads
<1> HIDE DEF task
<1>5. ASSUME NEW f
      PROVE  /\ Touches(task, f) <=> Touches(j, f)
             /\ \A p, d : Brings(j, f, p, d, disk[f]) => Brings(task, f, p, d, disk[f])
             /\ \A d : OpenFits(task, f, d)
  BY <1>1, <1>3, <1>4 DEF Touches, Brings, OpenFits
<1>6. Settled'
  <2>1. ASSUME NEW f, NEW p, NEW d
        PROVE  /\ KeepsOne(queue, j, tables, f, p, d, disk[f]) =>
                    KeepsOne(queue, task, tables, f, p, d, disk[f])
               /\ FitsOne(queue, j, tables, f, d) => FitsOne(queue, task, tables, f, d)
    BY <1>5 DEF KeepsOne, FitsOne
  <2> QED BY <1>0, <1>1, <1>3, <2>1, TurnSettled
<1>7. Noted(task, submitted) /\ RebuildOK(task) /\ task.kind \notin SearchKinds
  BY <1>0, <1>1, <1>3 DEF AllNoted, Noted, RebuildOK, SearchKinds
<1>8. Alone' /\ OpenOK' /\ AllNoted' /\ AllSearches' /\ AnswersSeeEdits'
  BY <1>0, <1>1, <1>3, <1>7, TurnRest DEF AllNoted
<1>9. AllRebuilds'
  BY <1>0, <1>1, <1>3, <1>7, TurnRebuilds
<1> QED BY <1>6, <1>8, <1>9 DEF SerialInv

LEMMA RefreshStep ==
  ASSUME SearchInv, SerialInv, NEW w \in Workers, ClosedRefreshCommit(w),
         \A v \in Workers \ {w} : job[v] = Idle, UNCHANGED <<sessionVars, answer>>
  PROVE  SerialInv'
<1> DEFINE j == job[w]
           task == j.task
           f0 == task.file
           loaded == j.read \notin {Absent, Unreadable} /\ Parses(task.parser, j.read)
           erased == EraseFile(tables, f0)
           updated(stamp) ==
             TagDisk(ReplaceDocument(tables, f0, Pairs(task.parser, j.read)), f0, stamp)
<1>0. AllNoted /\ Settled
  BY DEF SerialInv
<1>1. /\ UNCHANGED <<queue, parserState, rebuildGen, appliedGen, roots, disk, submitted,
                     docs, answer>>
      /\ j.kind = "refreshing" /\ Turn(w, Idle)
  BY DEF ClosedRefreshCommit, Turn, sessionVars
<1>2. PICK stamp \in TimestampRead :
        tables' = IF parserState # task.parser THEN tables
                  ELSE IF ~loaded THEN erased
                  ELSE IF MayCommit(task, f0) THEN updated(stamp) ELSE tables
  BY DEF ClosedRefreshCommit
<1>3. /\ f0 \in TextFiles /\ f0 \in Files /\ task.parser \in Parsers
      /\ j.read \in Texts \cup {Absent, Unreadable}
      /\ tables \in Tables /\ TablesConsistent(tables) /\ stamp \in BOOLEAN
  <2>1. j \in Refreshing
    BY <1>1, RefreshJob
  <2>2. task \in CloseTask /\ j.read \in Texts \cup {Absent, Unreadable}
    BY <2>1 DEF Refreshing
  <2>3. task.parser \in Parsers
    BY <2>2 DEF CloseTask
  <2>4. f0 \in TextFiles
    BY <1>0, <1>1 DEF AllNoted, Noted
  <2>5. stamp \in BOOLEAN
    BY DEF TimestampRead
  <2>6. tables \in Tables /\ TablesConsistent(tables)
    BY SessionFacts
  <2> QED BY <2>2, <2>3, <2>4, <2>5, <2>6, PathAssumption
<1>4. ButFor(f0, erased, tables) /\ FileLines(erased, f0) = {} /\ erased.versions[f0] = None
  BY <1>3, Erased
<1>5. ASSUME loaded
      PROVE  /\ ButFor(f0, updated(stamp), tables)
             /\ Shows(updated(stamp), f0, task.parser, j.read)
             /\ updated(stamp).versions[f0] = None /\ j.read \in Texts
  <2>1. j.read \in Texts
    BY <1>3, <1>5
  <2> QED BY <1>3, <2>1, DiskUpdated
<1> HIDE DEF erased, updated
<1>6. ButFor(f0, tables', tables)
  BY <1>2, <1>3, <1>4, <1>5, ButForItself
<1>7. Touches(j, f0) /\ \A f : Touches(j, f) => f = f0
  BY <1>1 DEF Touches
<1>8. ASSUME NEW d, NEW x, InWorkspace(roots, f0), Brings(j, f0, parserState, d, x)
      PROVE  Holds(tables', f0, parserState, d, x)
  <2>1. d = None /\ task.parser = parserState /\ j.read \in {x, Unreadable}
    BY <1>1, <1>8 DEF Brings
  <2>2. CASE ~loaded
    BY <1>2, <1>4, <2>1, <2>2 DEF Holds
  <2>3. CASE loaded
    <3>1. tables' = updated(stamp) /\ j.read = x
      BY <1>2, <1>8, <2>1, <2>3 DEF MayCommit
    <3> QED BY <1>5, <2>1, <2>3, <3>1 DEF Holds
  <2> QED BY <2>2, <2>3
<1>9. ASSUME NEW d, VersionFits(tables.versions[f0], d)
      PROVE  VersionFits(tables'.versions[f0], d)
  <2>1. tables'.versions[f0] \in {None, tables.versions[f0]}
    BY <1>2, <1>4, <1>5
  <2> QED BY <1>9, <2>1 DEF VersionFits
<1> HIDE DEF f0
<1>10. Settled'
  BY <1>0, <1>1, <1>6, <1>7, <1>8, <1>9, CommitSettled
<1> QED BY <1>1, <1>3, <1>6, <1>10, CommitRest

-----------------------------------------------------------------------------
(* The steps of a search. *)

LEMMA SearchTurn ==
  ASSUME SearchInv, SerialInv, NEW w \in Workers, NEW j, Turn(w, j),
         UNCHANGED queue, Unmoved, job[w].kind \in SearchKinds,
         j = Idle \/ (j.kind \in SearchKinds \ {"search"} /\ SearchJobOK(j)),
         UNCHANGED answer \/ AnswersSeeEdits'
  PROVE  SerialInv'
<1>0. OpenOK /\ AllNoted /\ AllRebuilds /\ Settled /\ AllSearches /\ AnswersSeeEdits
  BY DEF SerialInv
<1>1. UNCHANGED <<tables, roots, parserState, rebuildGen, appliedGen, disk, submitted, docs>>
  BY DEF Unmoved, serviceVars, sessionVars
<1>2. queue = << >>
  BY <1>0 DEF AllSearches, SearchKinds
<1>3. j.kind = "idle" \/ j.kind \in {"waiting", "searching", "scoring", "found"}
  BY DEF SearchKinds, Idle
<1>4. SearchJobOK(j) /\ Noted(j, submitted) /\ RebuildOK(j)
      /\ j.kind \notin {"rebuild", "building"}
  <2>1. SearchJobOK(Idle)
    BY DEF SearchJobOK, Idle
  <2>2. SearchJobOK(j)
    BY <2>1
  <2> QED BY <1>3, <2>2 DEF Noted, RebuildOK
<1>5. \A f : ~Touches(job[w], f) /\ ~Touches(j, f)
  BY <1>3 DEF Touches, SearchKinds
<1>6. Alone' /\ OpenOK' /\ AnswersSeeEdits'
  BY <1>0, <1>1, TurnFacts DEF OpenOK, AnswersSeeEdits, Answered
<1>7. Settled'
  BY <1>0, <1>1, <1>5, TurnAside
<1>8. AllNoted'
  <2>1. Noted(Idle, submitted)
    BY DEF Noted, Idle
  <2>2. \A v \in Workers : Noted(job'[v], submitted)
    BY <1>4, <2>1, TurnFacts
  <2> QED BY <1>0, <1>1, <2>2 DEF AllNoted
<1>9. AllRebuilds'
  BY <1>0, <1>1, <1>4, TurnRebuilds
<1>10. AllSearches'
  <2>1. SearchJobOK(Idle)
    BY DEF SearchJobOK, Idle
  <2>2. \A i : SearchJobOK(i) => SearchJobOK(i)'
    BY <1>1 DEF SearchJobOK, SearchingOK, RequestOK
  <2>3. \A v \in Workers : SearchJobOK(job[v])'
    <3>1. SearchJobOK(job[w])'
      BY <1>4, <2>2, TurnFacts
    <3>2. \A v \in Workers \ {w} : SearchJobOK(job[v])'
      BY <2>1, <2>2, TurnFacts DEF SearchJobOK, Idle
    <3> QED BY <3>1, <3>2
  <2>4. queue' = << >> /\ DOMAIN queue' = {}
    BY <1>2
  <2> QED BY <2>3, <2>4 DEF AllSearches
<1> QED BY <1>6, <1>7, <1>8, <1>9, <1>10 DEF SerialInv

\* The lines to look up are chosen; nothing is reported yet.
LEMMA BeginTurn ==
  ASSUME SearchInv, SerialInv, NEW w \in Workers, \A v \in Workers \ {w} : job[v] = Idle,
         NEW request, RequestOK(request), request.file \in TextFiles, NEW late,
         BeginLines(w, request, late), UNCHANGED queue, Unmoved, job[w].kind \in SearchKinds
  PROVE  SerialInv'
<1>1. CASE parserState # None /\ Parses(parserState, request.text)
  <2> DEFINE j == [kind |-> "searching", request |-> request, late |-> late,
                   lines |-> Pairs(parserState, request.text), refs |-> {}]
  <2>1. Turn(w, j) /\ UNCHANGED answer
    BY <1>1 DEF BeginLines, Become, Turn
  <2>2. j.kind = "searching" /\ j.request = request /\ j.refs = {}
    OBVIOUS
  <2> HIDE DEF j
  <2>3. SearchJobOK(j) /\ j.kind \in SearchKinds \ {"search"}
    BY <2>2 DEF SearchJobOK, SearchingOK, SeesEdits, SearchKinds
  <2> QED BY <2>1, <2>3, SearchTurn
<1>2. CASE ~(parserState # None /\ Parses(parserState, request.text))
  <2>1. Turn(w, Idle) /\ Answer(request, {}, late)
    BY <1>2 DEF BeginLines, Become, Turn
  <2>2. AnswersSeeEdits'
    BY <2>1 DEF Answer, AnswersSeeEdits
  <2> QED BY <2>1, <2>2, SearchTurn
<1> QED BY <1>1, <1>2

LEMMA LinesAreIndexed ==
  ASSUME NEW t, TablesConsistent(t), NEW f \in Files, FileLines(t, f) # {}
  PROVE  f \in t.indexed
BY DEF TablesConsistent

LEMMA ShownLines ==
  ASSUME NEW t, NEW f, NEW p \in Parsers, NEW text \in Texts, Shows(t, f, p, text),
         NEW info \in FileLines(t, f)
  PROVE  info.line \in ParsedLines(p, text)
<1>1. PICK first \in 1 .. t.nextId : FileLines(t, f) =
        {[id |-> first + k - 1, file |-> f, line |-> Pairs(p, text)[k]] :
           k \in 1 .. Len(Pairs(p, text))}
  BY DEF Shows
<1>2. PICK k \in 1 .. Len(Pairs(p, text)) : info.line = Pairs(p, text)[k]
  BY <1>1
<1>3. Pairs(p, text) \in Seq(Lines)
  BY ParseAssumption DEF Pairs, Parses
<1> QED BY <1>2, <1>3 DEF ParsedLines

\* With nothing to come, the tables show of an open file what the editor shows.
LEMMA OpenFileShown ==
  ASSUME SearchInv, Settled, queue = << >>, \A w \in Workers : \A f : ~Touches(job[w], f),
         parserState \in Parsers, appliedGen = rebuildGen,
         NEW f \in TextFiles, InWorkspace(roots, f)
  PROVE  Holds(tables, f, parserState, docs[UriOf[f]], disk[f])
<1>1. parserState # None
  BY NoneAssumption
<1>2. Keeps(queue, job, tables, f, parserState, docs[UriOf[f]], disk[f])
  BY <1>1 DEF Settled, SettledFile
<1>3. Leaves(queue, f)
  BY DEF Leaves
<1> QED BY <1>2, <1>3, NothingToCome

LEMMA CollectStep ==
  ASSUME SearchInv, SerialInv, NEW w \in Workers, SearchCollect(w),
         \A v \in Workers \ {w} : job[v] = Idle
  PROVE  SerialInv'
<1> DEFINE search == job[w].search
           refs == {info \in tables.infos :
                     /\ info.id \in job[w].found
                     /\ <<Head(search.lines), info.line>> \in Similar
                     /\ Reported(search.request.file, Head(search.lines), info)}
           j == [search EXCEPT !.lines = Tail(@), !.refs = @ \cup refs]
<1>0. Settled /\ AllSearches
  BY DEF SerialInv
<1>1. /\ job[w].kind = "found" /\ search \in Searching /\ Current(search)
      /\ SearchingOK(search) /\ queue = << >>
  <2>1. job[w].kind = "found"
    BY DEF SearchCollect
  <2>2. job[w] \in Found
    BY <2>1, SessionFacts, JobsByKind
  <2>3. Current(search)
    BY <2>1 DEF SearchInv, AllCurrent, CurrentJob
  <2>4. SearchingOK(search) /\ queue = << >>
    BY <1>0, <2>1 DEF AllSearches, SearchJobOK
  <2> QED BY <2>1, <2>2, <2>3, <2>4 DEF Found, LinesLeft
<1>2. Turn(w, j) /\ UNCHANGED <<queue, answer>> /\ Unmoved
  BY DEF SearchCollect, Become, Turn
<1>3. refs \subseteq tables.infos
  OBVIOUS
<1> HIDE DEF refs
<1>4. /\ j.kind = "searching" /\ j.request = search.request /\ j.late = search.late
      /\ j.refs = search.refs \cup refs
  BY <1>1 DEF Searching
<1> HIDE DEF j
<1>5. ASSUME ~search.late, search.request.open,
             NEW info \in refs, info.file = search.request.file
      PROVE  info.line \in ParsedLines(parserState, search.request.text)
  <2> DEFINE f == search.request.file
  <2>1. f \in TextFiles /\ docs[UriOf[f]] # None /\ docs[UriOf[f]].text = search.request.text
    BY <1>1, <1>5 DEF SearchingOK, RequestOK
  <2>2. parserState \in Parsers /\ appliedGen = rebuildGen
    BY <1>1, <1>5 DEF Current
  <2>3. info \in FileLines(tables, f)
    BY <1>3, <1>5 DEF FileLines
  <2>4. InWorkspace(roots, f)
    BY <2>1, <2>3, LinesAreIndexed, SessionFacts, PathAssumption
  <2>5. \A v \in Workers : \A g : ~Touches(job[v], g)
    BY <1>1, IdleTouchesNothing DEF Touches
  <2>6. Shows(tables, f, parserState, search.request.text)
    BY <1>0, <1>1, <2>1, <2>2, <2>4, <2>5, OpenFileShown DEF Holds
  <2>7. search.request.text \in Texts
    BY <1>1 DEF Searching, SearchTask
  <2> QED BY <2>2, <2>3, <2>6, <2>7, ShownLines
<1>6. SearchingOK(j)
  BY <1>1, <1>4, <1>5 DEF SearchingOK, SeesEdits
<1>7. SearchJobOK(j) /\ j.kind \in SearchKinds \ {"search"} /\ job[w].kind \in SearchKinds
  BY <1>1, <1>4, <1>6 DEF SearchJobOK, SearchKinds
<1> QED BY <1>2, <1>7, SearchTurn

LEMMA SearchStepSerial ==
  ASSUME SearchInv, SerialInv, NEW w \in Workers, SearchStep(w),
         \A v \in Workers \ {w} : job[v] = Idle
  PROVE  SerialInv'
<1>0. SearchJobOK(job[w])
  BY DEF SerialInv, AllSearches
<1>1. CASE SearchBegin(w)
  <2>1. job[w].kind = "search" /\ job[w].kind \in SearchKinds /\ RequestOK(job[w])
        /\ UNCHANGED queue /\ Unmoved
    BY <1>0, <1>1 DEF SearchBegin, SearchKinds, SearchJobOK
  <2>2. CASE job[w].file \notin TextFiles
    <3>1. Turn(w, Idle) /\ Answer(job[w], {}, FALSE)
      BY <1>1, <2>2 DEF SearchBegin, Become, Turn
    <3>2. AnswersSeeEdits'
      BY <3>1 DEF Answer, AnswersSeeEdits
    <3> QED BY <2>1, <3>1, <3>2, SearchTurn
  <2>3. CASE job[w].file \in TextFiles /\ parserState # None /\ appliedGen < rebuildGen
    <3> DEFINE j == [kind |-> "waiting", request |-> job[w], gen |-> rebuildGen]
    <3>1. Turn(w, j) /\ UNCHANGED answer
      BY <1>1, <2>3 DEF SearchBegin, Become, Turn
    <3>2. SearchJobOK(j) /\ j.kind \in SearchKinds \ {"search"}
      BY <2>1, <2>3 DEF SearchJobOK, SearchKinds
    <3> HIDE DEF j
    <3> QED BY <2>1, <3>1, <3>2, SearchTurn
  <2>4. CASE job[w].file \in TextFiles /\ ~(parserState # None /\ appliedGen < rebuildGen)
    <3>1. BeginLines(w, job[w], FALSE)
      BY <1>1, <2>4 DEF SearchBegin
    <3> QED BY <2>1, <2>4, <3>1, BeginTurn
  <2> QED BY <2>2, <2>3, <2>4
<1>2. CASE SearchWake(w) \/ SearchTimeout(w)
  <2>1. job[w].kind = "waiting" /\ \E late \in BOOLEAN : EndWait(w, late)
    BY <1>2 DEF SearchWake, SearchTimeout
  <2>2. RequestOK(job[w].request) /\ job[w].request.file \in TextFiles
        /\ job[w].kind \in SearchKinds
    BY <1>0, <2>1 DEF SearchJobOK, SearchKinds
  <2> QED BY <2>1, <2>2, BeginTurn DEF EndWait
<1>3. CASE SearchIndex(w)
  <2>1. job[w].kind = "searching" /\ SearchingOK(job[w]) /\ job[w].kind \in SearchKinds
        /\ UNCHANGED <<queue, answer>> /\ Unmoved
    BY <1>0, <1>3 DEF SearchIndex, SearchJobOK, SearchKinds
  <2>2. PICK n \in ScoringTasks :
          job' = [job EXCEPT ![w] =
            [kind |-> "scoring", search |-> job[w], tasks |-> n,
             found |-> {info.id : info \in {i \in tables.infos :
                          <<Head(job[w].lines), i.line>> \in Similar}}]]
    BY <1>3 DEF SearchIndex, Become
  <2> DEFINE j == [kind |-> "scoring", search |-> job[w], tasks |-> n,
                   found |-> {info.id : info \in {i \in tables.infos :
                                <<Head(job[w].lines), i.line>> \in Similar}}]
  <2>3. Turn(w, j)
    BY <2>2 DEF Turn
  <2>4. SearchJobOK(j) /\ j.kind \in SearchKinds \ {"search"}
    BY <2>1 DEF SearchJobOK, SearchKinds
  <2> HIDE DEF j
  <2> QED BY <2>1, <2>3, <2>4, SearchTurn
<1>4. CASE ScoreCandidates(w)
  <2> DEFINE j == [job[w] EXCEPT !.tasks = @ - 1]
  <2>1. job[w].kind = "scoring" /\ SearchingOK(job[w].search) /\ job[w].kind \in SearchKinds
        /\ UNCHANGED <<queue, answer>> /\ Unmoved
    BY <1>0, <1>4 DEF ScoreCandidates, SearchJobOK, SearchKinds
  <2>2. job[w] \in Scoring
    BY <2>1, SessionFacts, JobsByKind
  <2>3. j.kind = "scoring" /\ j.search = job[w].search
    BY <2>2 DEF Scoring
  <2>4. Turn(w, j)
    BY <1>4, SessionFacts DEF ScoreCandidates, Turn
  <2> HIDE DEF j
  <2>5. SearchJobOK(j) /\ j.kind \in SearchKinds \ {"search"}
    BY <2>1, <2>3 DEF SearchJobOK, SearchKinds
  <2> QED BY <2>1, <2>4, <2>5, SearchTurn
<1>5. CASE ScoringDone(w)
  <2> DEFINE j == [kind |-> "found", search |-> job[w].search, found |-> job[w].found]
  <2>1. job[w].kind = "scoring" /\ SearchingOK(job[w].search) /\ job[w].kind \in SearchKinds
        /\ UNCHANGED <<queue, answer>> /\ Unmoved /\ Turn(w, j)
    BY <1>0, <1>5 DEF ScoringDone, SearchJobOK, SearchKinds, Become, Turn
  <2>2. SearchJobOK(j) /\ j.kind \in SearchKinds \ {"search"}
    BY <2>1 DEF SearchJobOK, SearchKinds
  <2> HIDE DEF j
  <2> QED BY <2>1, <2>2, SearchTurn
<1>6. CASE SearchCollect(w)
  BY <1>6, CollectStep
<1>7. CASE SearchFinish(w)
  <2>1. job[w].kind = "searching" /\ SearchingOK(job[w]) /\ job[w].kind \in SearchKinds
        /\ UNCHANGED queue /\ Unmoved /\ Turn(w, Idle)
    BY <1>0, <1>7 DEF SearchFinish, SearchJobOK, SearchKinds, Become, Turn
  <2>2. answer' = [request |-> job[w].request, parser |-> parserState,
                   refs |-> job[w].refs, late |-> job[w].late]
    BY <1>7 DEF SearchFinish, Answer
  <2>3. AnswersSeeEdits'
    BY <2>1, <2>2 DEF AnswersSeeEdits, SearchingOK, SeesEdits
  <2> QED BY <2>1, <2>3, SearchTurn
<1> QED BY <1>1, <1>2, <1>3, <1>4, <1>5, <1>6, <1>7 DEF SearchStep

-----------------------------------------------------------------------------
(* The invariant of the patient editor. *)

LEMMA ServiceStepSerial ==
  ASSUME SearchInv, SerialInv, NEW w \in Workers, ServiceStep(w),
         \A v \in Workers \ {w} : job[v] = Idle
  PROVE  SerialInv'
<1>1. PoolStep(w) /\ UNCHANGED <<sessionVars, answer>>
  BY DEF ServiceStep, SessionPoolStep
<1> QED BY <1>1, StartStep, ScanStep, IngestStep, ApplyStep, FailStep, OpenStep, ReadStep,
           RefreshStep DEF PoolStep

LEMMA SerialIsSearch == SearchInv /\ SerialNext => SearchNext
<1> SUFFICES ASSUME SearchInv, SerialNext PROVE SearchNext
  OBVIOUS
<1>1. CASE PatientMessage
  <2>1. SessionMessage
    <3>1. ASSUME NEW f \in Files, NEW version \in Versions, NEW text \in Texts,
                 PatientOpen(f, version, text)
          PROVE  SessionMessage
      <4>1. UriOf[f] \in Uris /\ DidOpen(UriOf[f], version, text)
        BY <3>1, PathAssumption DEF PatientOpen
      <4> QED BY <4>1 DEF SessionMessage
    <3>2. ASSUME NEW u \in Uris, PatientSave(u) PROVE SessionMessage
      BY <3>2 DEF PatientSave, SessionMessage
    <3> QED BY <1>1, <3>1, <3>2 DEF PatientMessage, SessionMessage
  <2> QED BY <1>1, <2>1 DEF PatientMessage, HandleMessage, SearchNext
<1>2. ASSUME NEW u \in Uris, GetSimilarText(u) PROVE SearchNext
  BY <1>2 DEF SearchNext
<1>3. ASSUME NEW w \in Workers, SerialStep(w) PROVE SearchNext
  BY <1>3 DEF SerialStep, SearchNext
<1>4. ASSUME NEW u \in Uris, EditorWrites(u) PROVE SearchNext
  <2>1. docs[u].text \in Texts /\ PathOf[u] \in Files
    BY <1>4, SessionFacts, PathAssumption DEF EditorWrites
  <2>2. DiskChange(PathOf[u], docs[u].text) /\ UNCHANGED <<sessionVars, answer>>
    BY <1>4 DEF EditorWrites
  <2> QED BY <2>1, <2>2 DEF SessionBackground, SearchNext
<1>5. ASSUME NEW u \in Uris, SyncWindowPasses(u), UNCHANGED answer PROVE SearchNext
  BY <1>5 DEF SessionBackground, SearchNext
<1> QED BY <1>1, <1>2, <1>3, <1>4, <1>5 DEF SerialNext, SerialBackground

LEMMA InitSerialInv == SearchInit => SerialInv
<1> SUFFICES ASSUME SearchInit PROVE SerialInv
  OBVIOUS
<1>1. /\ tables = EmptyTables /\ parserState = None /\ queue = << >> /\ submitted = {}
      /\ job = [w \in Workers |-> Idle] /\ docs = [u \in Uris |-> None] /\ answer = None
  BY DEF SearchInit, SessionInit, Init
<1>2. DOMAIN queue = {} /\ \A w \in Workers : job[w] = Idle /\ job[w].kind = "idle"
  BY <1>1 DEF Idle
<1>3. Alone /\ OpenOK /\ Settled /\ AnswersSeeEdits
  BY <1>1, <1>2 DEF Alone, OpenOK, Settled, AnswersSeeEdits, Answered
<1>4. AllNoted
  BY <1>1, <1>2 DEF AllNoted, Noted, EmptyTables
<1>5. AllRebuilds /\ AllSearches
  BY <1>2 DEF AllRebuilds, RebuildOK, AllSearches, SearchJobOK
<1> QED BY <1>3, <1>4, <1>5 DEF SerialInv

LEMMA StepSerialInv ==
  SearchInv /\ SerialInv /\ [SerialNext]_searchVars => SearchInv' /\ SerialInv'
<1> SUFFICES ASSUME SearchInv, SerialInv, [SerialNext]_searchVars
             PROVE  SearchInv' /\ SerialInv'
  OBVIOUS
<1>1. SearchInv'
  BY SerialIsSearch, StepSearchInv
<1>2. ASSUME PatientMessage PROVE SerialInv'
  BY <1>2, PatientMessageStep
<1>3. ASSUME NEW u \in Uris, GetSimilarText(u) PROVE SerialInv'
  BY <1>3, AskStep
<1>4. ASSUME NEW w \in Workers, SerialStep(w) PROVE SerialInv'
  BY <1>4, SearchStepSerial, ServiceStepSerial DEF SerialStep
<1>5. ASSUME NEW u \in Uris, EditorWrites(u) PROVE SerialInv'
  BY <1>5, WriteStep
<1>6. ASSUME NEW u \in Uris, SyncWindowPasses(u), UNCHANGED answer PROVE SerialInv'
  BY <1>6, ApartStep DEF SyncWindowPasses
<1>7. ASSUME UNCHANGED searchVars PROVE SerialInv'
  <2>1. UNCHANGED <<vars, docs, answer>>
    BY <1>7 DEF searchVars, allVars, sessionVars
  <2> QED BY <2>1, ApartStep
<1>8. SerialInv'
  BY <1>2, <1>3, <1>4, <1>5, <1>6, <1>7 DEF SerialNext, SerialBackground
<1> QED BY <1>1, <1>8

LEMMA SerialInvAlways == SerialSpec => [](SearchInv /\ SerialInv)
BY InitSearchInv, InitSerialInv, StepSerialInv, PTL DEF SerialSpec

\* At rest every text file of the workspace shows what it should.
LEMMA AtRest ==
  ASSUME SearchInv, SerialInv, Quiet, NEW f \in TextFiles, InWorkspace(roots, f)
  PROVE  Holds(tables, f, parserState, docs[UriOf[f]], disk[f])
<1>1. Settled /\ queue = << >> /\ appliedGen = rebuildGen /\ parserState \in Parsers
  BY SessionFacts DEF SerialInv, Quiet
<1>2. \A w \in Workers : \A g : ~Touches(job[w], g)
  BY IdleTouchesNothing DEF Quiet
<1> QED BY <1>1, <1>2, OpenFileShown

LEMMA EditsAtRest == SearchInv /\ SerialInv => IndexFollowsEdits
<1> SUFFICES ASSUME SearchInv, SerialInv, Quiet, NEW u \in Uris, docs[u] # None,
                    PathOf[u] \in TextFiles, InWorkspace(roots, PathOf[u])
             PROVE  Shows(tables, PathOf[u], parserState, docs[u].text)
  BY DEF IndexFollowsEdits, OpenUris
<1>1. u = UriOf[PathOf[u]]
  BY OpenFacts DEF SerialInv
<1>2. Holds(tables, PathOf[u], parserState, docs[u], disk[PathOf[u]])
  BY <1>1, AtRest
<1> QED BY <1>2 DEF Holds

LEMMA DiskAtRest == SearchInv /\ SerialInv => ClosedFilesShowDisk
<1> SUFFICES ASSUME SearchInv, SerialInv, Quiet, NEW f \in Files,
                    \A u \in OpenUris : PathOf[u] # f, FileLines(tables, f) # {}
             PROVE  disk[f] # Absent /\ Shows(tables, f, parserState, disk[f])
  BY DEF ClosedFilesShowDisk
<1>1. f \in tables.indexed
  BY LinesAreIndexed, SessionFacts
<1>2. f \in TextFiles /\ InWorkspace(roots, f)
  BY <1>1, SessionFacts DEF SerialInv, AllNoted
<1>3. docs[UriOf[f]] = None
  BY PathAssumption DEF OpenUris
<1>4. Holds(tables, f, parserState, None, disk[f])
  BY <1>2, <1>3, AtRest
<1> QED BY <1>4, DiskAssumption DEF Holds

-----------------------------------------------------------------------------
(* The theorems. *)

\* A session that answers searches is a session of the service: a search, in
\* whatever order its sections fall between the updates, changes nothing.
THEOREM SearchesAreInvisible == SearchSpec => Service!Spec
BY InitSearchInv, StepSearchInv, PTL DEF SearchSpec, Service!Spec

\* What is proved of the service holds while searches run: the index search_json
\* reads never holds a line of an earlier configuration.
THEOREM SearchesReadCurrentLines == SearchSpec => []Service!OnlyCurrentParser
BY SearchesAreInvisible, Service!NoStaleParser, ParseAssumption, NoneAssumption,
   PathAssumption, FolderAssumption, DiskAssumption, DocumentAssumption, PTL

\* An answer that did not give up waiting for a rebuild reports only lines the
\* parser of the configuration it is given under extracts.
THEOREM AnswersOfCurrentParser == SearchSpec => []AnswersCurrentParser
<1>1. SearchInv => AnswersCurrentParser
  BY DEF SearchInv
<1> QED BY <1>1, SearchInvAlways, PTL

\* With a patient editor and one task at a time, the index follows the edits:
\* at rest it shows of every open text file of the workspace the text the editor
\* shows.
THEOREM IndexFollowsPatientEditor == SerialSpec => []IndexFollowsEdits
BY SerialInvAlways, EditsAtRest, PTL

\* In the same behaviours, at rest a closed file shows nothing but the text on
\* disk.
THEOREM ClosedFilesFollowDisk == SerialSpec => []ClosedFilesShowDisk
BY SerialInvAlways, DiskAtRest, PTL

\* In the same behaviours, an answer that did not give up waiting reports, of the
\* file of an open document, only lines of the text the request was made for.
THEOREM AnswersOfShownText == SerialSpec => []AnswersSeeEdits
<1>1. SerialInv => AnswersSeeEdits
  BY DEF SerialInv
<1> QED BY <1>1, SerialInvAlways, PTL
=============================================================================
