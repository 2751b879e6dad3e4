CONSTANTS
  f1 = f1
  u1 = u1
  x1 = x1
  a = a
  b = b
  c = c
  p1 = p1
  p2 = p2
  w1 = w1
  l1 = l1
  l2 = l2
  l3 = l3
  t1 = t1
  t2 = t2
  Files = {f1}
  TextFiles = {f1}
  Uris = {u1}
  PathOf <- MCPathOf
  UriOf <- MCUriOf
  Folders = {w1}
  Tree <- MCTree
  Ignored <- MCNothing
  Unscanned <- MCNothing
  Texts = {a, b}
  Parsers = {p1}
  Lines = {l1, l2, l3}
  Parse <- MCParse
  ParseError = ParseError
  Versions = {1, 2, 3}
  None = None
  Absent = Absent
  Unreadable = Unreadable
  Document <- MCDocument
  Workers = {t1, t2}
  Faults = {}
  Ops = {"initialize", "config", "open", "change"}
  MaxCalls = 5
SPECIFICATION MCPatientSpec
CHECK_DEADLOCK FALSE
INVARIANT IndexFollowsEdits
