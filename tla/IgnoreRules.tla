---------------------------- MODULE IgnoreRules ----------------------------
(***************************************************************************)
(* The ignore rules of a workspace (.dltxt/ignore and every .gitignore)    *)
(* and the scan that collects its text files by them: parse, order and     *)
(* match the rules, then walk the folders.  Characters are strings of one  *)
(* character, a name is a sequence of them, a path a sequence of names.    *)
(***************************************************************************)
EXTENDS Naturals, FiniteSets, FiniteSetsExt, SequencesExt

CONSTANTS
  Characters, \* of names and ignore files
  Entries,    \* paths of the directories and files, from the root of the disk
  KindOf,     \* "directory", "skipped" (a directory that is hidden, an archive or
              \* a link), "text" (a file that is not hidden, .txt) or "file"
  Roots       \* workspace folders: paths

Path == Seq(Seq(Characters))
Below(path, dir) == IsStrictPrefix(dir, path)
Within(path, dir) == IsPrefix(dir, path)

\* An entry is no disk, and the directories above it are entries.
TreeAssumption ==
  /\ "/" \in Characters
  /\ Entries \subseteq Path \ {<< >>} /\ IsFiniteSet(Entries) /\ Roots \subseteq Path
  /\ KindOf \in [Entries -> {"directory", "skipped", "text", "file"}]
  /\ \A root \in Roots : \A e \in Entries :
       Below(e, root) => \A k \in Len(root) + 1 .. Len(e) - 1 :
         SubSeq(e, 1, k) \in Entries /\ KindOf[SubSeq(e, 1, k)] \in {"directory", "skipped"}

ASSUME TreeAssumption

VARIABLES
  ignoreFiles,  \* per directory the lines of its .gitignore
  dltxtIgnore,  \* per folder the lines of its .dltxt/ignore
  rules,        \* per folder its ordered rules, once they are built
  todo,         \* entries the walk has yet to visit
  collected,    \* the files found
  stopped       \* a folder's walk ended with an error

scanVars == <<ignoreFiles, dltxtIgnore, rules, todo, collected, stopped>>

NoRules == << >>

-----------------------------------------------------------------------------
(* Rules. *)

DropTrailing(line, char) ==
  IF line # << >> /\ Last(line) = char THEN Front(line) ELSE line
DropLeading(line, char) ==
  IF line # << >> /\ Head(line) = char THEN Tail(line) ELSE line

\* A line of an ignore file is a rule unless it is empty or a comment.
Escaped(line) == Len(line) > 1 /\ line[1] = "\\" /\ line[2] \in {"#", "!"}
IsRuleLine(line) == line # << >> /\ (line[1] # "#")

\* The rule of the order-th such line; its pattern may come out empty.  A
\* backslash before # or ! is dropped first, and any other becomes a slash.
RuleOf(base, line, order) ==
  LET bare == IF Escaped(line) THEN Tail(line) ELSE line
      body == DropLeading(bare, "!")
      slashed == [k \in DOMAIN body |-> IF body[k] = "\\" THEN "/" ELSE body[k]]
      pattern == DropLeading(DropTrailing(slashed, "/"), "/")
  IN  [base |-> base, order |-> order, pattern |-> pattern,
       negated |-> Head(bare) = "!",
       directoryOnly |-> slashed # << >> /\ Last(slashed) = "/",
       basenameOnly |-> ~Contains(pattern, "/")]

\* trim_gitignore_line: the line up to the CRs at its end.
Trimmed(line) ==
  SubSeq(line, 1, Max({0} \cup {k \in DOMAIN line : line[k] # "CR"}))

\* parse_ignore_rules_content
ParseIgnoreRules(base, lines) ==
  LET numbered == {k \in DOMAIN lines : IsRuleLine(Trimmed(lines[k]))}
      Order(k) == Cardinality({j \in numbered : j <= k})
  IN  {rule \in {RuleOf(base, Trimmed(lines[k]), Order(k)) : k \in numbered} :
         rule.pattern # << >>}

\* A walk enters no directory that is skipped.
Between(root, path) == {d \in Entries : Below(d, root) /\ Below(path, d)}
Unskipped(root, path) == \A d \in Between(root, path) : KindOf[d] # "skipped"

\* build_workspace_gitignore_rules of one folder: the rules of its .dltxt/ignore
\* have the folder itself as their base.
RulesOfFolder(root) ==
  LET dirs == {root} \cup {d \in Entries : Below(d, root) /\ KindOf[d] = "directory"
                                             /\ Unskipped(root, d)}
  IN  [file : {"dltxt"}, rule : ParseIgnoreRules(root, dltxtIgnore[root])] \cup
      [file : {"gitignore"}, rule : UNION {ParseIgnoreRules(d, ignoreFiles[d]) : d \in dirs}]

\* The comparison of the sort: depth, then directory, then order.  Rules of one
\* directory's two files with the same order compare equal, and std::sort leaves
\* them either way.
Before(a, b) ==
  \/ Len(a.base) < Len(b.base)
  \/ a.base = b.base /\ a.order < b.order

\* Mutant of SortedRules: the order within the files decides alone.
SortedByOrder(found) ==
  {s \in SetToSeqs(found) : \A i, j \in DOMAIN s : s[i].rule.order < s[j].rule.order => i < j}

\* The orders the sort may leave.  How it orders directories of one depth is
\* left open: no path is below two of them.
SortedRules(found) ==
  {s \in SetToSeqs(found) : \A i, j \in DOMAIN s : Before(s[i].rule, s[j].rule) => i < j}

-----------------------------------------------------------------------------
(* Matching. *)

\* Mutant of WildcardMatch: two stars are two single ones.
WildcardMatchSingle(pattern, text) ==
  LET n == Len(pattern)
      m == Len(text)
      match[i \in 1 .. n + 1] == [j \in 1 .. m + 1 |->
        IF i > n THEN j > m
        ELSE IF pattern[i] = "*"
        THEN \E k \in j .. m + 1 : (\A l \in j .. k - 1 : text[l] # "/") /\ match[i + 1][k]
        ELSE /\ j <= m
             /\ IF pattern[i] = "?" THEN text[j] # "/" ELSE pattern[i] = text[j]
             /\ match[i + 1][j + 1]]
  IN  match[1][1]

\* wildcard_match: * stands for anything within a name, ** for anything, ? for
\* one character of a name.  No pattern has a backslash left.
WildcardMatch(pattern, text) ==
  LET n == Len(pattern)
      m == Len(text)
      match[i \in 1 .. n + 1] == [j \in 1 .. m + 1 |->
        IF i > n THEN j > m
        ELSE IF pattern[i] = "*"
        THEN LET double == i < n /\ pattern[i + 1] = "*"
                 rest == IF double THEN i + 2 ELSE i + 1
             IN  \E k \in j .. m + 1 :
                   /\ double \/ \A l \in j .. k - 1 : text[l] # "/"
                   /\ match[rest][k]
        ELSE /\ j <= m
             /\ IF pattern[i] = "?" THEN text[j] # "/" ELSE pattern[i] = text[j]
             /\ match[i + 1][j + 1]]
  IN  match[1][1]

Joined(path) ==
  path[1] \o FlattenSeq([k \in 1 .. Len(path) - 1 |-> <<"/">> \o path[k + 1]])

\* lexically_relative; the base itself is "." .
Relative(path, base) ==
  IF path = base THEN <<<<".">>>> ELSE SubSeq(path, Len(base) + 1, Len(path))

\* Mutant of DirectoryCandidates: only the directory the entry lies in.
ParentCandidate(relative, isDirectory) ==
  LET n == IF isDirectory THEN Len(relative) ELSE Len(relative) - 1
  IN  {SubSeq(relative, 1, k) : k \in {n} \ {0}}

\* build_directory_candidates
DirectoryCandidates(relative, isDirectory) ==
  {SubSeq(relative, 1, k) : k \in 1 .. (IF isDirectory THEN Len(relative) ELSE Len(relative) - 1)}

\* matches_rule
MatchesRule(rule, relative, isDirectory) ==
  LET subject(path) == IF rule.basenameOnly THEN Last(path) ELSE Joined(path)
      candidates == DirectoryCandidates(relative, isDirectory)
                      \cup (IF rule.directoryOnly THEN {} ELSE {relative})
  IN  \E c \in candidates : WildcardMatch(rule.pattern, subject(c))

\* ignores: the last rule that matches decides.
Ignores(ordered, path, isDirectory) ==
  LET hits == {k \in DOMAIN ordered :
                 /\ Within(path, ordered[k].rule.base)
                 /\ MatchesRule(ordered[k].rule, Relative(path, ordered[k].rule.base), isDirectory)}
  IN  \E k \in hits : (\A j \in hits : j <= k) /\ ~ordered[k].rule.negated

\* is_gitignored
IsGitignored(path, isDirectory) ==
  \E root \in Roots : Within(path, root) /\ Ignores(rules[root], path, isDirectory)

-----------------------------------------------------------------------------
(* The scan. *)

ScanInit ==
  /\ ignoreFiles \in [Roots \cup {d \in Entries : KindOf[d] = "directory"} -> Path]
  /\ dltxtIgnore \in [Roots -> Path]
  /\ rules = NoRules /\ todo = {} /\ collected = {} /\ stopped = FALSE

Children(dir) == {e \in Entries : Below(e, dir) /\ Len(e) = Len(dir) + 1}

\* The rules of all folders are built, and the walk of each folder starts.
BuildRules ==
  /\ rules = NoRules
  /\ rules' \in {r \in [Roots -> UNION {SortedRules(RulesOfFolder(root)) : root \in Roots}] :
                   \A root \in Roots : r[root] \in SortedRules(RulesOfFolder(root))}
  /\ todo' = UNION {Children(root) : root \in Roots}
  /\ UNCHANGED <<ignoreFiles, dltxtIgnore, collected, stopped>>

\* A directory is entered unless it is skipped or ignored.
VisitDirectory(e) ==
  /\ e \in todo /\ KindOf[e] \in {"directory", "skipped"}
  /\ todo' = (todo \ {e}) \cup
       (IF KindOf[e] = "skipped" \/ IsGitignored(e, TRUE) THEN {} ELSE Children(e))
  /\ UNCHANGED <<ignoreFiles, dltxtIgnore, rules, collected, stopped>>

VisitFile(e) ==
  /\ e \in todo /\ KindOf[e] \in {"text", "file"}
  /\ todo' = todo \ {e}
  /\ collected' = IF KindOf[e] = "text" /\ ~IsGitignored(e, FALSE)
                  THEN collected \cup {e} ELSE collected
  /\ UNCHANGED <<ignoreFiles, dltxtIgnore, rules, stopped>>

\* The iterator reports an error: the walk of the folder ends with what it has.
WalkFails(root) ==
  /\ todo # {}
  /\ todo' = {e \in todo : \E other \in Roots \ {root} : Below(e, other)}
  /\ stopped' = TRUE
  /\ UNCHANGED <<ignoreFiles, dltxtIgnore, rules, collected>>

ScanNext ==
  \/ BuildRules
  \/ \E e \in Entries : VisitDirectory(e) \/ VisitFile(e)
  \/ \E root \in Roots : WalkFails(root)

ScanSpec == ScanInit /\ [][ScanNext]_scanVars

-----------------------------------------------------------------------------
(* Properties. *)

\* A file the check of a single path keeps (is_in_workspace_unlocked, which every
\* edit asks) and a walk may reach.
Keeps(e) ==
  /\ KindOf[e] = "text" /\ ~IsGitignored(e, FALSE)
  /\ \E root \in Roots : Below(e, root) /\ Unskipped(root, e)

Negated == \E root \in Roots : \E k \in DOMAIN rules[root] : rules[root][k].rule.negated

\* The rules a directory holds are matched against the directory itself, as "." :
\* a rule such as .* in its own .gitignore hides it from the walk.
HidesItself(d) ==
  \E root \in Roots : \E k \in DOMAIN rules[root] :
    /\ rules[root][k].rule.base = d
    /\ MatchesRule(rules[root][k].rule, Relative(d, d), TRUE)

\* The scan and the check of single paths agree: what is collected passes the
\* check, and unless a rule is negated, leaving out ignored directories loses no
\* file that the check would keep, but for those below a directory that one of
\* its own rules hides.
ScanAgreesWithCheck ==
  rules # NoRules =>
    /\ \A e \in collected : Keeps(e)
    /\ todo = {} /\ ~stopped /\ ~Negated =>
         \A e \in Entries :
           Keeps(e) /\ (\A d \in Entries : Below(e, d) => ~HidesItself(d)) => e \in collected

\* Whatever order the sort leaves, the deepest directory with a rule for a path
\* decides, and in it the last rule, if that is one.
DeepestDecides ==
  rules # NoRules =>
    \A root \in Roots : \A e \in Entries :
      LET isDirectory == KindOf[e] \in {"directory", "skipped"}
          hits == {r \in {found.rule : found \in ToSet(rules[root])} :
                     /\ Within(e, r.base)
                     /\ MatchesRule(r, Relative(e, r.base), isDirectory)}
          deepest == {r \in hits : \A q \in hits : Len(q.base) <= Len(r.base)}
          last == {r \in deepest : \A q \in deepest : q.order <= r.order}
      IN  \A r \in last : (\A q \in last : q.negated = r.negated) =>
            (Ignores(rules[root], e, isDirectory) <=> ~r.negated)

\* A text fits a pattern if it can be cut into one piece per character of the
\* pattern; stars side by side take anything, one by itself no slash.
Fits(pattern, text) ==
  \E cut \in [0 .. Len(pattern) -> 0 .. Len(text)] :
    /\ cut[0] = 0 /\ cut[Len(pattern)] = Len(text)
    /\ \A k \in DOMAIN pattern :
         LET piece == SubSeq(text, cut[k - 1] + 1, cut[k])
             Star(j) == j \in DOMAIN pattern /\ pattern[j] = "*"
         IN  /\ cut[k - 1] <= cut[k]
             /\ CASE Star(k) -> Star(k - 1) \/ Star(k + 1) \/ ~Contains(piece, "/")
                  [] pattern[k] = "?" -> Len(piece) = 1 /\ piece[1] # "/"
                  [] OTHER -> piece = <<pattern[k]>>

\* wildcard_match accepts what the pattern means, for every rule and path.
WildcardsExact ==
  rules # NoRules =>
    \A root \in Roots : \A k \in DOMAIN rules[root] : \A e \in Entries :
      LET pattern == rules[root][k].rule.pattern
      IN  WildcardMatch(pattern, Joined(e)) <=> Fits(pattern, Joined(e))

\* Rules match what their patterns mean, and the right one decides.
RulesExact == WildcardsExact /\ DeepestDecides
=============================================================================
