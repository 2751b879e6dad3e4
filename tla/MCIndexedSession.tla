-------------------------- MODULE MCIndexedSession --------------------------
(***************************************************************************)
(* IndexedSession with one text file f1 (its canonical URI u1, an equally  *)
(* valid spelling x1) and a choice of the messages the editor sends.       *)
(* MaxCalls bounds the messages and the changes of the disk.               *)
(***************************************************************************)
EXTENDS IndexedSession, TLC

CONSTANTS f1, u1, x1, a, b, c, p1, p2, w1, l1, l2, l3, t1, t2,
  Ops,        \* messages the editor sends in this instance
  MaxCalls

VARIABLE calls

MCPathOf == [u \in Uris |-> f1]
MCUriOf == (f1 :> u1)
MCTree == [w \in Folders |-> {f1}]
MCNothing == [w \in Folders |-> {}]
MCParse ==
  [p \in Parsers |->
     IF p = p1 THEN [t \in Texts |-> IF t = a THEN <<l1, l2>> ELSE IF t = b THEN <<l3>>
                                     ELSE ParseError]
     ELSE [t \in Texts |-> IF t = a THEN <<l2>> ELSE <<l1>>]]
MCDocument == [uri : Uris, version : Versions, text : Texts]

MCInit ==
  /\ SessionInit
  /\ folders = {} /\ disk[f1] = a
  /\ calls = 0

\* A message of the editor; an opened document has the text on disk
\* and version 1, and versions go up by one.
Message ==
  \/ "initialize" \in Ops /\ calls = 0 /\ Initialize(Folders)
  \/ "folders" \in Ops /\ calls > 0
       /\ \E added, removed \in SUBSET Folders : DidChangeWorkspaceFolders(added, removed)
  \/ "config" \in Ops /\ folders # {} /\ \E p \in Parsers : SetParserRegex(p)
  \/ "open" \in Ops /\ OpenUris = {} /\ ("reopen" \in Ops \/ submitted = {})
       /\ \E u \in Uris, text \in Texts : text = disk[f1] /\ DidOpen(u, 1, text)
  \/ "change" \in Ops /\ \E u \in OpenUris, version \in Versions, text \in Texts :
       /\ version = docs[u].version + 1 /\ text # docs[u].text
       /\ DidChange(u, version, text)
  \/ "reject" \in Ops /\ \E u \in OpenUris : DidChangeRejected(u)
  \/ "save" \in Ops /\ \E u \in OpenUris : DidSave(u)
  \/ "close" \in Ops /\ \E u \in OpenUris : DidClose(u)

MCMessage == calls < MaxCalls /\ Message /\ calls' = calls + 1

\* A patient editor sends nothing while a rebuild is under way: it waits for
\* dltxt/crossref_index_ready.
MCPatientMessage == appliedGen = rebuildGen /\ MCMessage

\* Changes of the disk are counted as messages are.
MCByItself ==
  \/ "minute" \in Ops /\ UNCHANGED calls /\ \E u \in Uris : SyncWindowPasses(u)
  \/ "disk" \in Ops /\ calls < MaxCalls /\ calls' = calls + 1
       /\ \E text \in Texts \cup {Absent} : DiskChange(f1, text) /\ UNCHANGED sessionVars

Background ==
  \/ MCByItself
  \/ UNCHANGED calls /\ \E w \in Workers : SessionPoolStep(w)

MCPatientSpec == MCInit /\ [][MCPatientMessage \/ Background]_<<allVars, calls>>
=============================================================================
