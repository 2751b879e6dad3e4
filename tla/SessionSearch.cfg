CONSTANTS
  f1 = f1
  u1 = u1
  x1 = x1
  a = a
  b = b
  c = c
  p1 = p1
  p2 = p2
  w1 = w1
  l1 = l1
  l2 = l2
  l3 = l3
  t1 = t1
  t2 = t2
  f2 = f2
  u2 = u2
  Files = {f1, f2}
  TextFiles = {f1, f2}
  Uris = {u1, x1, u2}
  PathOf <- MCPaths
  UriOf <- MCUris
  Folders = {w1}
  Tree <- MCFiles
  Ignored <- MCNothing
  Unscanned <- MCNothing
  Texts = {a, b}
  Parsers = {p1, p2}
  Lines = {l1, l2, l3}
  Parse <- MCParse
  ParseError = ParseError
  Versions = {1, 2, 3}
  None = None
  Absent = Absent
  Unreadable = Unreadable
  Document <- MCDocument
  Workers = {t1, t2}
  Faults = {"rebuild"}
  Similar <- MCSimilar
  NumberOf <- MCNumberOf
  BaseName <- MCBaseName
  ScoringTasks = {0, 2}
  Pending = Pending
  Ops = {"initialize", "folders", "config", "open", "change", "reject", "save", "close", "reopen", "disk", "minute"}
  MaxCalls = 5
SPECIFICATION MCFairSearchSpec
CHECK_DEADLOCK FALSE
INVARIANTS AnswersCurrentParser
PROPERTY EveryRequestAnswered
