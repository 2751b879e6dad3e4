CONSTANTS
  f1 = f1
  f2 = f2
  f3 = f3
  u1 = u1
  u2 = u2
  u3 = u3
  a = a
  b = b
  p1 = p1
  p2 = p2
  w1 = w1
  l1 = l1
  l2 = l2
  l3 = l3
  t1 = t1
  t2 = t2
  Files = {f1, f2, f3}
  TextFiles = {f1, f2, f3}
  Uris = {u1, u2, u3}
  PathOf <- MCPathOf
  UriOf <- MCUriOf
  Folders = {w1}
  Tree <- MCTree
  Ignored <- MCIgnored
  Unscanned <- MCUnscanned
  Texts = {a, b}
  Parsers = {p1, p2}
  Lines = {l1, l2, l3}
  Parse <- MCParse
  ParseError = ParseError
  Versions = {1, 2}
  None = None
  Absent = Absent
  Unreadable = Unreadable
  Document <- MCDocument
  Workers = {t1, t2}
  Faults = {"load", "timestamp"}
  MaxCalls = 3
SPECIFICATION MCFairSpec
INVARIANTS TypeOK TablesInv WholeDocuments OnlyCurrentParser VersionsNameContent IndexedWithinWorkspace
PROPERTIES GenerationsApplyInOrder RebuildEventuallyApplied
