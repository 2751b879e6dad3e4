-------------------------- MODULE MCCrossrefSearch --------------------------
(***************************************************************************)
(* CrossrefSearch with two text files of one folder: f1, which the editor  *)
(* may open, and f2, which stays on disk.  The messages are those of       *)
(* MCIndexedSession; requests for similar text count as messages.          *)
(***************************************************************************)
EXTENDS MCIndexedSession, CrossrefSearch

CONSTANTS f2, u2

MCPaths == [u \in Uris |-> IF u = u2 THEN f2 ELSE f1]
MCUris == (f1 :> u1 @@ f2 :> u2)
MCFiles == [w \in Folders |-> {f1, f2}]
MCSimilar == Lines \X Lines
MCNumberOf == [line \in Lines |-> IF line = l2 THEN 2 ELSE 1]
MCBaseName == [f \in Files |-> f]

MCSearchInit ==
  /\ SearchInit
  /\ folders = {} /\ disk[f1] = a /\ disk[f2] = b
  /\ calls = 0

EditorOpensOnly == \A u \in OpenUris' : u # u2

MCHandleMessage ==
  /\ answer # Pending
  /\ MCMessage /\ EditorOpensOnly
  /\ UNCHANGED answer

MCGetSimilarText ==
  /\ folders # {}
  /\ calls < MaxCalls /\ calls' = calls + 1
  /\ GetSimilarText(u1)

MCSearchBackground ==
  \/ UNCHANGED calls /\ \E w \in Workers : SearchStep(w) \/ ServiceStep(w)
  \/ MCByItself /\ UNCHANGED answer

searchMCVars == <<searchVars, calls>>

MCSearchSpec ==
  MCSearchInit /\ [][MCHandleMessage \/ MCGetSimilarText \/ MCSearchBackground]_searchMCVars

\* The patient editor.
MCSerialMessage ==
  /\ calls < MaxCalls /\ calls' = calls + 1
  /\ \/ PatientMessage /\ EditorOpensOnly
     \/ GetSimilarText(u1)

MCSerialSpec ==
  MCSearchInit /\ [][MCSerialMessage \/ (UNCHANGED calls /\ SerialBackground)]_searchMCVars

MCThreads == Permutations(Workers)

MCFairSearchSpec ==
  /\ MCSearchSpec
  /\ \A w \in Workers :
       /\ WF_searchMCVars(UNCHANGED calls /\ SearchStep(w))
       /\ WF_searchMCVars(UNCHANGED calls /\ ServiceStep(w))
=============================================================================
