---------------------------- MODULE LineTables ----------------------------
(***************************************************************************)
(* The line tables of the cross-reference service: the members of          *)
(* BuildState (and the members of CrossrefService they are moved into by   *)
(* apply_rebuild_unlocked), and the operations that edit them while        *)
(* mutex_ is held or while a rebuild owns them.                            *)
(*                                                                         *)
(* A text is a model value; what a parser extracts from it is the value of *)
(* the constant Parse: a sequence of paired lines, or ParseError when      *)
(* parse_paired_lines throws.  The line a pair carries (its number, the    *)
(* Japanese and the translated text) is one value.                         *)
(***************************************************************************)
EXTENDS Naturals, Sequences

CONSTANTS
  Files,        \* paths of text files (path_to_utf8)
  Texts,        \* document contents
  Parsers,      \* parser configurations; a configuration is its stamp
  Lines,        \* what one ParsedPair records of a line
  Parse,        \* Parse[p][t]: the pairs parser p extracts from text t
  ParseError,   \* parse_paired_lines throws
  Versions,     \* LSP document versions
  None          \* an empty optional, an absent map entry

ASSUME ParseAssumption ==
  /\ Parse \in [Parsers -> [Texts -> Seq(Lines) \cup {ParseError}]]
  /\ ParseError \notin Seq(Lines)

ASSUME NoneAssumption ==
  /\ None \notin Versions
  /\ None \notin Parsers

LineId == Nat

\* line_infos_: one record per line id; an unordered_map keyed by id.
LineInfo == [id : LineId, file : Files, line : Lines]

Tables ==
  [index    : SUBSET LineId,                \* ids held by the SimilarityIndex
   infos    : SUBSET LineInfo,              \* line_infos_
   fileIds  : [Files -> SUBSET LineId],     \* file_line_ids_, {} when absent
   versions : [Files -> Versions \cup {None}], \* open_document_versions_
   stamped  : SUBSET Files,                 \* keys of disk_file_timestamps_
   indexed  : SUBSET Files,                 \* indexed_file_paths_
   nextId   : LineId \ {0}]                 \* next_line_id_

\* Mutant of EmptyTables: line ids start at 0.
EmptyTablesFromZero ==
  [index |-> {}, infos |-> {}, fileIds |-> [f \in Files |-> {}],
   versions |-> [f \in Files |-> None], stamped |-> {}, indexed |-> {},
   nextId |-> 0]

\* A new BuildState, and the tables after reset_unlocked.
EmptyTables ==
  [index |-> {}, infos |-> {}, fileIds |-> [f \in Files |-> {}],
   versions |-> [f \in Files |-> None], stamped |-> {}, indexed |-> {},
   nextId |-> 1]

Parses(p, text) == Parse[p][text] # ParseError

\* The pairs an update installs; the catch branches install no line.
Pairs(p, text) == IF Parses(p, text) THEN Parse[p][text] ELSE << >>

\* Mutants of EraseFile: the records of the lines stay; the version stays.
EraseFileKeepingInfos(t, f) ==
  [t EXCEPT !.index = @ \ t.fileIds[f], !.fileIds = [@ EXCEPT ![f] = {}],
            !.versions = [@ EXCEPT ![f] = None],
            !.stamped = @ \ {f}, !.indexed = @ \ {f}]

EraseFileKeepingVersion(t, f) ==
  [t EXCEPT !.index = @ \ t.fileIds[f], !.fileIds = [@ EXCEPT ![f] = {}],
            !.infos = {info \in @ : info.id \notin t.fileIds[f]},
            !.stamped = @ \ {f}, !.indexed = @ \ {f}]

\* erase_file_unlocked
EraseFile(t, f) ==
  [index    |-> t.index \ t.fileIds[f],
   infos    |-> {info \in t.infos : info.id \notin t.fileIds[f]},
   fileIds  |-> [t.fileIds EXCEPT ![f] = {}],
   versions |-> [t.versions EXCEPT ![f] = None],
   stamped  |-> t.stamped \ {f},
   indexed  |-> t.indexed \ {f},
   nextId   |-> t.nextId]

\* The loop that gives every pair the next line id and enters it in the index.
AddLines(t, f, pairs) ==
  LET ids == t.nextId .. (t.nextId + Len(pairs) - 1)
  IN  [index    |-> t.index \cup ids,
       infos    |-> t.infos \cup
                      {[id |-> t.nextId + k - 1, file |-> f, line |-> pairs[k]] :
                          k \in 1 .. Len(pairs)},
       fileIds  |-> [t.fileIds EXCEPT ![f] = @ \cup ids],
       versions |-> t.versions,
       stamped  |-> t.stamped,
       indexed  |-> t.indexed \cup {f},
       nextId   |-> t.nextId + Len(pairs)]

\* Mutant of ReplaceDocument: the old lines are not erased first.
AppendDocument(t, f, pairs) == AddLines(t, f, pairs)

\* replace_document_unlocked
ReplaceDocument(t, f, pairs) == AddLines(EraseFile(t, f), f, pairs)

TagOpen(t, f, version) ==
  [t EXCEPT !.versions = [@ EXCEPT ![f] = version], !.stamped = @ \ {f}]

TagDisk(t, f, hasTimestamp) ==
  [t EXCEPT !.versions = [@ EXCEPT ![f] = None],
            !.stamped = IF hasTimestamp THEN @ \cup {f} ELSE @]

\* ingest_document of an open document and of a file read from disk: a text
\* that does not parse leaves no trace.
IngestOpen(t, f, p, text, version) ==
  IF Parses(p, text)
  THEN TagOpen(AddLines(t, f, Pairs(p, text)), f, version)
  ELSE t

IngestDisk(t, f, p, text, hasTimestamp) ==
  IF Parses(p, text)
  THEN TagDisk(AddLines(t, f, Pairs(p, text)), f, hasTimestamp)
  ELSE t

-----------------------------------------------------------------------------
(* What the tables promise. *)

FileLines(t, f) == {info \in t.infos : info.file = f}

\* Every table agrees with every other: the similarity index, line_infos_ and
\* file_line_ids_ hold the same ids, no id names two lines, a fresh id is never
\* in use, and a file is tagged as open or as read from disk, never both.
TablesConsistent(t) ==
  /\ t.index = {info.id : info \in t.infos}
  /\ \A a, b \in t.infos : a.id = b.id => a = b
  /\ \A f \in Files : t.fileIds[f] = {info.id : info \in FileLines(t, f)}
  /\ \A i \in t.index : i < t.nextId
  /\ \A f \in Files : t.fileIds[f] # {} => f \in t.indexed
  /\ \A f \in Files : t.versions[f] # None => f \in t.indexed /\ f \notin t.stamped
  /\ t.stamped \subseteq t.indexed

\* The lines of f are exactly those parser p extracts from one text, in order
\* and under consecutive ids: nothing of another text is left behind.
Shows(t, f, p, text) ==
  \E first \in 1 .. t.nextId :
    FileLines(t, f) =
      {[id |-> first + k - 1, file |-> f, line |-> Pairs(p, text)[k]] :
          k \in 1 .. Len(Pairs(p, text))}
=============================================================================
