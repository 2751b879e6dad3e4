--------------------------- MODULE IndexedSession ---------------------------
(***************************************************************************)
(* The session handler with its DocumentManager, driving the               *)
(* cross-reference service: what the bridge does with the document and     *)
(* workspace messages of one editor window.  handle_local_session handles  *)
(* one message at a time on the main thread; an action is the handling of  *)
(* one message, up to and including what it schedules.                     *)
(*                                                                         *)
(* The editor numbers the versions of a document upwards while it is open  *)
(* and starts again when it opens it anew.                                 *)
(***************************************************************************)
EXTENDS CrossrefService, Integers

\* The documents are those of the session, and versions are integers.
ASSUME SessionAssumption ==
  /\ Document = [uri : Uris, version : Versions, text : Texts]
  /\ None \notin Document
  /\ Versions \subseteq Int

VARIABLES
  docs,     \* open_documents_: per URI the open document, or None
  synced,   \* URIs whose last_full_sync_at_ is less than a minute old
  folders   \* workspace_folders_

sessionVars == <<docs, synced, folders>>
allVars == <<vars, sessionVars>>

OpenUris == {u \in Uris : docs[u] # None}

SessionInit ==
  /\ Init
  /\ docs = [u \in Uris |-> None]
  /\ synced = {}
  /\ folders = {}

\* open_documents_snapshot
OpenDocuments == {docs[u] : u \in OpenUris}

MakeDocument(u, version, text) == [uri |-> u, version |-> version, text |-> text]

-----------------------------------------------------------------------------
(* Workspace messages. *)

\* initialize: the folders the window has open.
Initialize(fs) ==
  /\ folders' = fs
  /\ UNCHANGED <<vars, docs, synced>>

\* workspace/didChangeWorkspaceFolders changes the list of the DocumentManager
\* and nothing else.
DidChangeWorkspaceFolders(added, removed) ==
  /\ folders' = (folders \cup added) \ removed
  /\ UNCHANGED <<vars, docs, synced>>

\* dltxt/set_parser_regex
SetParserRegex(p) ==
  /\ UpdateParserConfig(p, folders, OpenDocuments)
  /\ UNCHANGED sessionVars

-----------------------------------------------------------------------------
(* Document messages.  Each changes the DocumentManager and then schedules   *)
(* an update with a snapshot of the document, or a refresh of its file.      *)

\* textDocument/didOpen: open_from_lsp
DidOpen(u, version, text) ==
  /\ docs[u] = None
  /\ docs' = [docs EXCEPT ![u] = MakeDocument(u, version, text)]
  /\ synced' = synced \ {u}
  /\ ScheduleOpenDocumentUpdate(MakeDocument(u, version, text))
  /\ UNCHANGED folders

\* textDocument/didChange: apply_lsp_changes.  The text is the one the applied
\* changes leave: all of them, or those before one that is out of range.
DidChange(u, version, text) ==
  /\ docs[u] # None
  /\ version > docs[u].version
  /\ docs' = [docs EXCEPT ![u] = MakeDocument(u, version, text)]
  /\ ScheduleOpenDocumentUpdate(MakeDocument(u, version, text))
  /\ UNCHANGED <<synced, folders>>

\* textDocument/didChange whose first change is out of range.
DidChangeRejected(u) ==
  /\ docs[u] # None
  /\ ScheduleOpenDocumentUpdate(docs[u])
  /\ UNCHANGED sessionVars

\* textDocument/didSave: update_saved_document_text, or
\* update_saved_document_from_disk, gives the document the saved text under
\* the version it has; within a minute of the last such sync it is skipped.
DidSave(u) ==
  /\ docs[u] # None
  /\ \/ /\ u \notin synced
        /\ \E text \in (Texts \cap Loads(PathOf[u])) :
             LET saved == MakeDocument(u, docs[u].version, text)
             IN  /\ docs' = [docs EXCEPT ![u] = saved]
                 /\ synced' = synced \cup {u}
                 /\ ScheduleOpenDocumentUpdate(saved)
     \/ /\ u \in synced \/ Loads(PathOf[u]) \cap {Absent, Unreadable} # {}
        /\ UNCHANGED <<docs, synced>>
        /\ ScheduleOpenDocumentUpdate(docs[u])
  /\ UNCHANGED folders

\* textDocument/didClose
DidClose(u) ==
  /\ docs[u] # None
  /\ docs' = [docs EXCEPT ![u] = None]
  /\ synced' = synced \ {u}
  /\ ScheduleClosedDocumentRefresh(u)
  /\ UNCHANGED folders

\* saved_document_sync_debounce_window has passed since the last sync of u.
SyncWindowPasses(u) ==
  /\ u \in synced
  /\ synced' = synced \ {u}
  /\ UNCHANGED <<vars, docs, folders>>

SessionPoolStep(w) == PoolStep(w) /\ UNCHANGED sessionVars

SessionMessage ==
  \/ \E fs \in SUBSET Folders : Initialize(fs)
  \/ \E added, removed \in SUBSET Folders : DidChangeWorkspaceFolders(added, removed)
  \/ \E p \in Parsers : SetParserRegex(p)
  \/ \E u \in Uris, version \in Versions, text \in Texts :
       \/ DidOpen(u, version, text)
       \/ DidChange(u, version, text)
  \/ \E u \in Uris : DidChangeRejected(u) \/ DidSave(u) \/ DidClose(u)

\* What happens by itself.
SessionBackground ==
  \/ \E u \in Uris : SyncWindowPasses(u)
  \/ \E f \in Files, text \in Texts \cup {Absent} :
       DiskChange(f, text) /\ UNCHANGED sessionVars

SessionNext ==
  \/ SessionMessage
  \/ SessionBackground
  \/ \E w \in Workers : SessionPoolStep(w)

SessionSpec == SessionInit /\ [][SessionNext]_allVars

-----------------------------------------------------------------------------
(* Properties. *)

\* Nothing is scheduled, nothing runs, and the last configuration is applied.
Quiet ==
  /\ queue = << >>
  /\ \A w \in Workers : job[w] = Idle
  /\ parserState # None
  /\ appliedGen = rebuildGen

\* Once the pool has come to rest, the index holds the sentences of the text
\* the editor shows for every open text file of the workspace.
IndexFollowsEdits ==
  Quiet => \A u \in OpenUris :
    LET f == PathOf[u]
    IN  f \in TextFiles /\ InWorkspace(roots, f) =>
          Shows(tables, f, parserState, docs[u].text)

\* Once the pool has come to rest, a file that is not open shows nothing but
\* the text on disk.
ClosedFilesShowDisk ==
  Quiet => \A f \in Files :
    (\A u \in OpenUris : PathOf[u] # f) /\ FileLines(tables, f) # {} =>
      disk[f] # Absent /\ Shows(tables, f, parserState, disk[f])
=============================================================================
