-------------------------- MODULE WorkspaceProofs --------------------------
(***************************************************************************)
(* What the server reads from a workspace.  Of its files: for any tree,    *)
(* ignore files and workspace folders, the scan collects what the check of *)
(* single paths keeps; rules match what their patterns mean, and of those  *)
(* that match the last of the deepest directory decides.  Of their text:   *)
(* for any lines and matches, the parsers pair the lines that belong       *)
(* together and move the outer quotes alone.                               *)
(***************************************************************************)
EXTENDS TextParser, IgnoreRules, FiniteSetTheorems, SequenceTheorems, TLAPS

-----------------------------------------------------------------------------
(* Numbers and finite sets. *)

\* Every set of numbers that is not empty has a least one, found among the
\* intervals from 1 to its members.
LEMMA Least ==
  ASSUME NEW T, T \subseteq Nat, T # {}
  PROVE  \E x \in T : \A y \in T : x <= y
<1> DEFINE I == {1 .. n : n \in T}
<1>1. I # {} /\ I \subseteq FiniteSubsetsOf(Nat)
  <2>1. ASSUME NEW n \in T PROVE 1 .. n \subseteq Nat /\ IsFiniteSet(1 .. n)
    BY FS_Interval
  <2> QED  BY <2>1 DEF FiniteSubsetsOf
<1>2. IsWellFoundedOn(StrictSubsetOrdering(Nat), FiniteSubsetsOf(Nat))
  BY FS_StrictSubsetOrderingWellFounded
<1>3. \E s \in I : \A r \in I : ~ (<<r, s>> \in StrictSubsetOrdering(Nat))
  <2> HIDE DEF I
  <2> QED  BY <1>1, <1>2, WFMin
<1>4. PICK x \in T : \A y \in T : ~ (<<1 .. y, 1 .. x>> \in StrictSubsetOrdering(Nat))
  BY <1>3
<1>5. ASSUME NEW y \in T, y < x PROVE FALSE
  <2>1. 1 .. y \subseteq 1 .. x /\ 1 .. y # 1 .. x
    <3>1. x \in 1 .. x /\ x \notin 1 .. y
      BY <1>5
    <3> QED  BY <1>5, <3>1
  <2>2. <<1 .. y, 1 .. x>> \in StrictSubsetOrdering(Nat)
    <3>1. 1 .. y \in SUBSET Nat /\ 1 .. x \in SUBSET Nat
      OBVIOUS
    <3> QED  BY <2>1, <3>1 DEF StrictSubsetOrdering
  <2> QED  BY <2>2, <1>4, <1>5
<1> QED  BY <1>5

LEMMA Greatest ==
  ASSUME NEW n \in Nat, NEW T, T \subseteq 1 .. n, T # {}
  PROVE  \E x \in T : \A y \in T : y <= x
<1>1. PICK m \in {n - x : x \in T} : \A y \in {n - x : x \in T} : m <= y
  <2>1. \A x \in T : n - x \in Nat
    OBVIOUS
  <2>2. {n - x : x \in T} \subseteq Nat /\ {n - x : x \in T} # {}
    BY <2>1
  <2> QED  BY <2>2, Least
<1>2. PICK x \in T : m = n - x
  OBVIOUS
<1>3. ASSUME NEW y \in T PROVE y <= x
  <2>1. n - x <= n - y
    BY <1>1, <1>2
  <2> QED  BY <2>1
<1> QED  BY <1>3

LEMMA ImageFinite ==
  ASSUME NEW S, IsFiniteSet(S), NEW f, DOMAIN f = S, f = [x \in S |-> f[x]]
  PROVE  IsFiniteSet({f[x] : x \in S})
<1>1. f \in Surjection(S, {f[x] : x \in S})
  BY DEF Surjection
<1> QED  BY <1>1, FS_Surjection

-----------------------------------------------------------------------------
(* Paths. *)

LEMMA PrefixMeans ==
  ASSUME NEW s \in Path, NEW t \in Path
  PROVE  /\ Within(t, s) <=> Len(s) <= Len(t) /\ \A i \in 1 .. Len(s) : s[i] = t[i]
         /\ Below(t, s) <=> Len(s) < Len(t) /\ \A i \in 1 .. Len(s) : s[i] = t[i]
<1>1. Len(s) \in Nat /\ Len(t) \in Nat
  BY DEF Path
<1>2. Within(t, s) <=> Len(s) <= Len(t) /\ \A i \in 1 .. Len(s) : s[i] = t[i]
  <2>1. SubSeq(s, 1, Len(s)) = [i \in 1 .. Len(s) |-> s[i]]
    BY DEF Path
  <2>2. Len(s) <= Len(t) => SubSeq(t, 1, Len(s)) = [i \in 1 .. Len(s) |-> t[i]]
    BY DEF Path
  <2> QED  BY <2>1, <2>2 DEF Within, IsPrefix
<1>3. Len(s) = Len(t) /\ (\A i \in 1 .. Len(s) : s[i] = t[i]) <=> s = t
  <2>1. s = [i \in 1 .. Len(s) |-> s[i]] /\ t = [i \in 1 .. Len(t) |-> t[i]]
    BY DEF Path
  <2> QED  BY <2>1
<1>4. Len(s) <= Len(t) /\ Len(s) # Len(t) <=> Len(s) < Len(t)
  BY <1>1
<1> QED  BY <1>2, <1>3, <1>4 DEF Within, Below, IsStrictPrefix

\* The beginnings of a path.
LEMMA Beginning ==
  ASSUME NEW t \in Path, NEW n \in 0 .. Len(t)
  PROVE  /\ SubSeq(t, 1, n) \in Path /\ Len(SubSeq(t, 1, n)) = n
         /\ \A i \in 1 .. n : SubSeq(t, 1, n)[i] = t[i]
BY DEF Path

\* Two paths above one path lie one in the other.
LEMMA Above ==
  ASSUME NEW s \in Path, NEW t \in Path, NEW e \in Path, Within(e, s), Within(e, t)
  PROVE  /\ Len(s) < Len(t) => Below(t, s)
         /\ Len(s) <= Len(t) => Within(t, s)
         /\ Len(s) = Len(t) => s = t
<1>1. Len(s) \in Nat /\ Len(t) \in Nat
  BY DEF Path
<1>2. \A i \in 1 .. Len(s) : s[i] = e[i]
  BY PrefixMeans
<1>3. \A i \in 1 .. Len(t) : t[i] = e[i]
  BY PrefixMeans
<1>4. Len(s) <= Len(t) => \A i \in 1 .. Len(s) : s[i] = t[i]
  BY <1>1, <1>2, <1>3
<1>5. Len(s) = Len(t) => s = t
  <2>1. s = [i \in 1 .. Len(s) |-> s[i]] /\ t = [i \in 1 .. Len(t) |-> t[i]]
    BY DEF Path
  <2> QED  BY <2>1, <1>4
<1> QED  BY <1>1, <1>4, <1>5, PrefixMeans

LEMMA WithinTransitive ==
  ASSUME NEW s \in Path, NEW t \in Path, NEW e \in Path
  PROVE  /\ Within(t, s) /\ Below(e, t) => Below(e, s)
         /\ Within(t, s) /\ Within(e, t) => Within(e, s)
         /\ Below(t, s) /\ Within(e, t) => Below(e, s)
         /\ Below(t, s) => Within(t, s)
         /\ Within(t, s) => Below(t, s) \/ t = s
<1>1. Len(s) \in Nat /\ Len(t) \in Nat /\ Len(e) \in Nat
  BY DEF Path
<1>2. s = [i \in 1 .. Len(s) |-> s[i]] /\ t = [i \in 1 .. Len(t) |-> t[i]]
  BY DEF Path
<1>3. Within(t, s) => Below(t, s) \/ t = s
  BY <1>1, <1>2, PrefixMeans
<1> QED  BY <1>1, <1>3, PrefixMeans

-----------------------------------------------------------------------------
(* Texts. *)

\* The names of a path are joined to a text.
IsFlat(g, A) == g = [i \in 1 .. Len(A) |-> IF i = 1 THEN A[i] ELSE g[i - 1] \o A[i]]

LEMMA FlattenTable ==
  ASSUME NEW S, NEW A \in Seq(Seq(S)), Len(A) # 0
  PROVE  FlattenSeq(A) = (CHOOSE g : IsFlat(g, A))[Len(A)]
BY Zenon DEF FlattenSeq, IsFlat

LEMMA FlattenType ==
  ASSUME NEW S, NEW A \in Seq(Seq(S))
  PROVE  FlattenSeq(A) \in Seq(S)
<1> DEFINE n == Len(A)
           Step(g, i) == IF i = 1 THEN A[i] ELSE g[i - 1] \o A[i]
           Built(m, g) == g \in [1 .. m -> Seq(S)] /\ \A i \in 1 .. m : g[i] = Step(g, i)
<1>0. n \in Nat /\ \A i \in 1 .. n : A[i] \in Seq(S)
  OBVIOUS
<1>1. CASE n = 0
  <2>1. A = << >> /\ << >> \in Seq(S)
    BY <1>1
  <2> QED  BY <2>1, <1>1 DEF FlattenSeq
<1>2. CASE n # 0
  <2> DEFINE unbuilt == {m \in 1 .. n : ~ \E g : Built(m, g)}
  <2>1. ASSUME unbuilt # {} PROVE FALSE
    <3>1. PICK m \in unbuilt : \A y \in unbuilt : m <= y
      <4>1. unbuilt \subseteq Nat
        BY <1>0
      <4> HIDE DEF unbuilt
      <4> QED  BY <4>1, <2>1, Least
    <3>2. m \in 1 .. n /\ m \in Nat
      BY <1>0
    <3>3. \E g : Built(m, g)
      <4>1. CASE m = 1
        <5> DEFINE g == [i \in 1 .. 1 |-> A[1]]
        <5>1. g \in [1 .. 1 -> Seq(S)] /\ g[1] = A[1]
          BY <1>0, <1>2
        <5> HIDE DEF g, n
        <5>2. \A i \in 1 .. 1 : i = 1
          OBVIOUS
        <5>3. Built(1, g)
          BY <5>1, <5>2
        <5> QED  BY <4>1, <5>3
      <4>2. CASE m # 1
        <5>1. m - 1 \in 1 .. n /\ ~ (m <= m - 1)
          BY <3>2, <4>2, <1>0
        <5>2. PICK h : Built(m - 1, h)
          BY <5>1, <3>1
        <5> DEFINE g == [i \in 1 .. m |-> IF i = m THEN h[m - 1] \o A[m] ELSE h[i]]
        <5>3. /\ h \in [1 .. m - 1 -> Seq(S)]
              /\ \A i \in 1 .. m - 1 : h[i] = IF i = 1 THEN A[i] ELSE h[i - 1] \o A[i]
          BY <5>2
        <5> HIDE DEF Built, unbuilt, n
        <5>4. \A i \in 1 .. m : i # m => i \in 1 .. m - 1
          BY <3>2
        <5>5. m - 1 \in 1 .. m - 1 /\ m \in 1 .. m /\ m - 1 # m /\ m - 1 \in 1 .. m
          BY <3>2, <4>2
        <5>6. h[m - 1] \o A[m] \in Seq(S)
          <6>1. h[m - 1] \in Seq(S) /\ A[m] \in Seq(S)
            BY <5>3, <5>5, <3>2, <1>0
          <6> QED  BY <6>1
        <5>7. g \in [1 .. m -> Seq(S)]
          BY <5>3, <5>4, <5>6
        <5>8. g[m] = h[m - 1] \o A[m] /\ g[m - 1] = h[m - 1] /\ \A i \in 1 .. m - 1 : g[i] = h[i]
          <6>1. \A i \in 1 .. m - 1 : i \in 1 .. m /\ i # m
            BY <3>2
          <6> QED  BY <5>5, <6>1
        <5> HIDE DEF g
        <5>9. ASSUME NEW i \in 1 .. m PROVE g[i] = IF i = 1 THEN A[i] ELSE g[i - 1] \o A[i]
          <6>1. CASE i = m
            BY <6>1, <5>8, <4>2
          <6>2. CASE i # m
            <7>1. i \in 1 .. m - 1 /\ (i # 1 => i - 1 \in 1 .. m - 1)
              BY <6>2, <3>2
            <7> QED  BY <7>1, <5>3, <5>8
          <6> QED  BY <6>1, <6>2
        <5>10. Built(m, g)
          BY <5>7, <5>9 DEF Built
        <5> QED  BY <5>10
      <4> QED  BY <4>1, <4>2
    <3> QED  BY <3>1, <3>3
  <2>2. PICK g : Built(n, g)
    <3>1. n \in 1 .. n
      BY <1>0, <1>2
    <3> HIDE DEF Built, n
    <3> QED  BY <2>1, <3>1
  <2>3. IsFlat(g, A)
    BY <2>2 DEF IsFlat
  <2>4. ASSUME NEW f, IsFlat(f, A) PROVE f[n] \in Seq(S)
    <3> DEFINE odd == {i \in 1 .. n : f[i] \notin Seq(S)}
    <3>1. \A i \in 1 .. n : f[i] = IF i = 1 THEN A[i] ELSE f[i - 1] \o A[i]
      BY <2>4, Zenon DEF IsFlat
    <3>2. ASSUME odd # {} PROVE FALSE
      <4>1. PICK i \in odd : \A y \in odd : i <= y
        <5>1. odd \subseteq Nat
          BY <1>0
        <5> HIDE DEF odd
        <5> QED  BY <5>1, <3>2, Least
      <4>2. i \in 1 .. n /\ f[i] \notin Seq(S) /\ A[i] \in Seq(S)
        BY <1>0
      <4>3. i # 1
        BY <4>2, <3>1
      <4>4. i - 1 \in 1 .. n /\ ~ (i <= i - 1)
        BY <4>2, <4>3, <1>0
      <4>5. f[i - 1] \in Seq(S)
        BY <4>1, <4>4
      <4>6. f[i] = f[i - 1] \o A[i]
        BY <3>1, <4>2, <4>3
      <4> HIDE DEF odd, n
      <4>7. f[i - 1] \o A[i] \in Seq(S)
        BY <4>2, <4>5
      <4> QED  BY <4>2, <4>6, <4>7
    <3> QED  BY <3>2, <1>0, <1>2
  <2>5. IsFlat(CHOOSE f : IsFlat(f, A), A)
    BY <2>3, Zenon
  <2>6. (CHOOSE f : IsFlat(f, A))[n] \in Seq(S)
    BY <2>4, <2>5, Zenon
  <2> QED  BY <2>6, <1>2, FlattenTable
<1> QED  BY <1>1, <1>2

LEMMA JoinedType == ASSUME NEW path \in Path, path # << >> PROVE Joined(path) \in Seq(Characters)
<1> DEFINE others == [k \in 1 .. Len(path) - 1 |-> <<"/">> \o path[k + 1]]
<1>1. Len(path) \in Nat /\ Len(path) >= 1 /\ \A k \in 1 .. Len(path) : path[k] \in Seq(Characters)
  BY DEF Path
<1>2. Len(path) - 1 \in Nat /\ \A k \in 1 .. Len(path) - 1 : k + 1 \in 1 .. Len(path)
  BY <1>1
<1>3. \A k \in 1 .. Len(path) - 1 : <<"/">> \o path[k + 1] \in Seq(Characters)
  <2>1. <<"/">> \in Seq(Characters)
    BY TreeAssumption DEF TreeAssumption
  <2>2. \A s, t \in Seq(Characters) : s \o t \in Seq(Characters)
    OBVIOUS
  <2> QED  BY <1>1, <1>2, <2>1, <2>2
<1>4. others \in Seq(Seq(Characters))
  BY <1>2, <1>3
<1> HIDE DEF others
<1>5. FlattenSeq(others) \in Seq(Characters)
  BY <1>4, FlattenType
<1>6. path[1] \in Seq(Characters)
  BY <1>1
<1>7. path[1] \o FlattenSeq(others) \in Seq(Characters)
  BY <1>5, <1>6
<1> QED  BY <1>7 DEF Joined, others

\* A pattern is a sequence of characters.
LEMMA DropTypes ==
  ASSUME NEW line \in Seq(Characters), NEW char
  PROVE  DropTrailing(line, char) \in Seq(Characters) /\ DropLeading(line, char) \in Seq(Characters)
<1>1. CASE line = << >>
  BY <1>1 DEF DropTrailing, DropLeading
<1>2. CASE line # << >>
  <2>1. Front(line) \in Seq(Characters) /\ Tail(line) \in Seq(Characters)
    BY <1>2 DEF Front
  <2> QED  BY <2>1 DEF DropTrailing, DropLeading
<1> QED  BY <1>1, <1>2

LEMMA TrimmedType == ASSUME NEW line \in Seq(Characters) PROVE Trimmed(line) \in Seq(Characters)
<1> DEFINE ends == {0} \cup {k \in DOMAIN line : line[k] # "CR"}
<1>1. Max(ends) \in 0 .. Len(line)
  <2>1. PICK x \in {e + 1 : e \in ends} : \A y \in {e + 1 : e \in ends} : y <= x
    <3>1. {e + 1 : e \in ends} \subseteq 1 .. Len(line) + 1 /\ {e + 1 : e \in ends} # {}
          /\ Len(line) + 1 \in Nat
      OBVIOUS
    <3> QED  BY <3>1, Greatest
  <2>2. PICK e \in ends : x = e + 1
    OBVIOUS
  <2>3. ends \subseteq 0 .. Len(line) /\ ends \subseteq Nat
    OBVIOUS
  <2>4. ASSUME NEW y \in ends PROVE e >= y
    <3>1. y + 1 <= e + 1
      BY <2>1, <2>2
    <3> QED  BY <3>1, <2>3
  <2> HIDE DEF ends
  <2>5. Max(ends) \in ends
    BY <2>4, Zenon DEF Max
  <2> QED  BY <2>3, <2>5
<1>2. \A n \in 0 .. Len(line) : SubSeq(line, 1, n) \in Seq(Characters)
  OBVIOUS
<1>3. Trimmed(line) = SubSeq(line, 1, Max(ends))
  BY DEF Trimmed
<1> HIDE DEF ends
<1> QED  BY <1>1, <1>2, <1>3

LEMMA PatternType ==
  ASSUME NEW base, NEW line \in Seq(Characters), line # << >>, NEW order
  PROVE  RuleOf(base, line, order).pattern \in Seq(Characters)
<1> DEFINE bare == IF Escaped(line) THEN Tail(line) ELSE line
           body == DropLeading(bare, "!")
           slashed == [k \in DOMAIN body |-> IF body[k] = "\\" THEN "/" ELSE body[k]]
<1>1. bare \in Seq(Characters)
  <2>1. Tail(line) \in Seq(Characters)
    OBVIOUS
  <2> QED  BY <2>1
<1> HIDE DEF bare
<1>2. body \in Seq(Characters)
  BY <1>1, DropTypes
<1> HIDE DEF body
<1>3. slashed \in Seq(Characters)
  <2>1. Len(body) \in Nat /\ DOMAIN body = 1 .. Len(body) /\ \A k \in 1 .. Len(body) : body[k] \in Characters
    BY <1>2
  <2>2. "/" \in Characters
    BY TreeAssumption DEF TreeAssumption
  <2>3. slashed \in [1 .. Len(body) -> Characters]
    BY <2>1, <2>2
  <2> HIDE DEF slashed
  <2> QED  BY <2>1, <2>3
<1> HIDE DEF slashed
<1>4. DropTrailing(slashed, "/") \in Seq(Characters)
  BY <1>3, DropTypes
<1>5. DropLeading(DropTrailing(slashed, "/"), "/") \in Seq(Characters)
  BY <1>4, DropTypes
<1> QED  BY <1>5 DEF RuleOf, slashed, body, bare

-----------------------------------------------------------------------------
(* Rules. *)

Files == /\ ignoreFiles \in [Roots \cup {d \in Entries : KindOf[d] = "directory"} -> Path]
         /\ dltxtIgnore \in [Roots -> Path]

\* A rule belongs to a directory, has a number and a pattern of characters.
WellTyped(rule) == rule.base \in Path /\ rule.order \in Nat /\ rule.pattern \in Seq(Characters)

\* A file has finitely many rules.
LEMMA ParsedRules ==
  ASSUME NEW base \in Path, NEW content \in Path
  PROVE  /\ IsFiniteSet(ParseIgnoreRules(base, content))
         /\ \A rule \in ParseIgnoreRules(base, content) : WellTyped(rule)
<1> DEFINE numbered == {k \in DOMAIN content : IsRuleLine(Trimmed(content[k]))}
           Order(k) == Cardinality({j \in numbered : j <= k})
           ruleAt == [k \in numbered |-> RuleOf(base, Trimmed(content[k]), Order(k))]
<1>1. IsFiniteSet(numbered)
  <2>1. IsFiniteSet(DOMAIN content)
    BY FS_Interval DEF Path
  <2> QED  BY <2>1, FS_Subset
<1>2. \A k \in numbered : Order(k) \in Nat
  <2>1. ASSUME NEW k \in numbered PROVE IsFiniteSet({j \in numbered : j <= k})
    BY <1>1, FS_Subset
  <2> QED  BY <2>1, FS_CardinalityType
<1>3. IsFiniteSet({ruleAt[k] : k \in numbered})
  <2> HIDE DEF numbered
  <2>1. DOMAIN ruleAt = numbered /\ ruleAt = [k \in numbered |-> ruleAt[k]]
    OBVIOUS
  <2> HIDE DEF ruleAt
  <2> QED  BY <1>1, <2>1, ImageFinite
<1>4. ParseIgnoreRules(base, content) = {r \in {ruleAt[k] : k \in numbered} : r.pattern # << >>}
  BY DEF ParseIgnoreRules
<1>5. \A k \in numbered : ruleAt[k].base = base /\ ruleAt[k].order = Order(k)
  BY DEF RuleOf
<1>6. \A k \in numbered : ruleAt[k].pattern \in Seq(Characters)
  <2>1. \A k \in numbered : Trimmed(content[k]) \in Seq(Characters) /\ Trimmed(content[k]) # << >>
    <3>1. \A k \in numbered : content[k] \in Seq(Characters)
      BY DEF Path
    <3> QED  BY <3>1, TrimmedType DEF IsRuleLine
  <2>2. \A k \in numbered : ruleAt[k] = RuleOf(base, Trimmed(content[k]), Order(k))
    OBVIOUS
  <2> HIDE DEF numbered, Order, ruleAt
  <2> QED  BY <2>1, <2>2, PatternType
<1> HIDE DEF numbered, Order, ruleAt
<1>7. \A k \in numbered : WellTyped(ruleAt[k])
  BY <1>2, <1>5, <1>6 DEF WellTyped
<1> QED  BY <1>3, <1>4, <1>7, FS_Subset

\* So are the rules of a folder.
LEMMA FoundRules ==
  ASSUME Files, NEW root \in Roots
  PROVE  /\ IsFiniteSet(RulesOfFolder(root))
         /\ \A found \in RulesOfFolder(root) : WellTyped(found.rule)
<1> DEFINE dirs == {root} \cup {d \in Entries : Below(d, root) /\ KindOf[d] = "directory"
                                                  /\ Unskipped(root, d)}
           own == ParseIgnoreRules(root, dltxtIgnore[root])
           Of == [d \in dirs |-> ParseIgnoreRules(d, ignoreFiles[d])]
           all == UNION {Of[d] : d \in dirs}
<1>0. RulesOfFolder(root) = [file : {"dltxt"}, rule : own] \cup [file : {"gitignore"}, rule : all]
  BY DEF RulesOfFolder
<1>1. IsFiniteSet(dirs) /\ dirs \subseteq Path
  <2>1. IsFiniteSet({d \in Entries : Below(d, root) /\ KindOf[d] = "directory" /\ Unskipped(root, d)})
    BY TreeAssumption, FS_Subset DEF TreeAssumption
  <2>2. IsFiniteSet(dirs)
    BY <2>1, FS_Singleton, FS_Union
  <2> QED  BY <2>2, TreeAssumption DEF TreeAssumption
<1>2. \A d \in dirs : ignoreFiles[d] \in Path
  BY DEF Files
<1>3. /\ IsFiniteSet(own)
      /\ \A r \in own : WellTyped(r)
  BY ParsedRules, TreeAssumption DEF Files, TreeAssumption
<1>4. \A d \in dirs : /\ IsFiniteSet(Of[d])
                       /\ \A r \in Of[d] : WellTyped(r)
  BY <1>1, <1>2, ParsedRules
<1>5. DOMAIN Of = dirs /\ Of = [d \in dirs |-> Of[d]]
  OBVIOUS
<1> HIDE DEF dirs, own, Of
<1>6. IsFiniteSet(all) /\ \A r \in all : WellTyped(r)
  <2>1. IsFiniteSet({Of[d] : d \in dirs})
    BY <1>1, <1>5, ImageFinite
  <2> QED  BY <2>1, <1>4, FS_UNION
<1> HIDE DEF all
<1>7. ASSUME NEW S, IsFiniteSet(S), NEW name PROVE IsFiniteSet([file : {name}, rule : S])
  <2> DEFINE f == [r \in S |-> [file |-> name, rule |-> r]]
  <2>1. DOMAIN f = S /\ f = [x \in S |-> f[x]]
    OBVIOUS
  <2>2. \A r \in S : f[r] = [file |-> name, rule |-> r]
    OBVIOUS
  <2> HIDE DEF f
  <2>3. [file : {name}, rule : S] = {f[r] : r \in S}
    <3>1. ASSUME NEW x \in [file : {name}, rule : S] PROVE x \in {f[r] : r \in S}
      <4>1. x.rule \in S /\ x = [file |-> name, rule |-> x.rule]
        OBVIOUS
      <4> QED  BY <4>1, <2>2
    <3>2. ASSUME NEW r \in S PROVE f[r] \in [file : {name}, rule : S]
      <4>1. [file |-> name, rule |-> r] \in [file : {name}, rule : S]
        OBVIOUS
      <4> QED  BY <4>1, <2>2
    <3> QED  BY <3>1, <3>2
  <2>4. IsFiniteSet({f[r] : r \in S})
    BY <1>7, <2>1, ImageFinite
  <2> QED  BY <2>3, <2>4
<1>8. IsFiniteSet(RulesOfFolder(root))
  <2>1. IsFiniteSet([file : {"dltxt"}, rule : own]) /\ IsFiniteSet([file : {"gitignore"}, rule : all])
    BY <1>3, <1>6, <1>7
  <2>2. IsFiniteSet([file : {"dltxt"}, rule : own] \cup [file : {"gitignore"}, rule : all])
    BY <2>1, FS_Union
  <2> QED  BY <1>0, <2>2
<1> QED  BY <1>0, <1>3, <1>6, <1>8

\* The rules of a folder in order.
Ordered(s, root) == s \in SortedRules(RulesOfFolder(root))

LEMMA OrderedRules ==
  ASSUME Files, NEW root \in Roots, NEW s, Ordered(s, root)
  PROVE  \E n \in Nat :
           /\ DOMAIN s = 1 .. n
           /\ \A k \in 1 .. n : WellTyped(s[k].rule)
           /\ \A i, j \in 1 .. n : Before(s[i].rule, s[j].rule) => i < j
<1> DEFINE n == Cardinality(RulesOfFolder(root))
<1>1. n \in Nat
  BY FoundRules, FS_CardinalityType
<1>2. /\ s \in [1 .. n -> RulesOfFolder(root)]
      /\ \A i, j \in DOMAIN s : Before(s[i].rule, s[j].rule) => i < j
  BY DEF Ordered, SortedRules, SetToSeqs
<1>3. \A k \in 1 .. n : WellTyped(s[k].rule)
  BY SMTT(60), <1>2, FoundRules
<1> HIDE DEF n
<1> QED  BY <1>1, <1>2, <1>3

-----------------------------------------------------------------------------
(* Matching. *)

\* What matches a directory matches all that lies below it, as the directory
\* is one of the candidates.
LEMMA CandidatesBelow ==
  ASSUME NEW b \in Path, NEW d \in Path, NEW e \in Path, Below(d, b), Below(e, d)
  PROVE  /\ Relative(d, b) \in DirectoryCandidates(Relative(e, b), FALSE)
         /\ DirectoryCandidates(Relative(d, b), TRUE)
              \subseteq DirectoryCandidates(Relative(e, b), FALSE)
<1> DEFINE rd == SubSeq(d, Len(b) + 1, Len(d))
           re == SubSeq(e, Len(b) + 1, Len(e))
<1>1. /\ Len(b) \in Nat /\ Len(d) \in Nat /\ Len(e) \in Nat
      /\ Len(b) < Len(d) /\ Len(d) < Len(e)
      /\ \A i \in 1 .. Len(d) : d[i] = e[i]
  BY PrefixMeans DEF Path
<1>2. Relative(d, b) = rd /\ Relative(e, b) = re
  BY <1>1 DEF Relative
<1>3. /\ Len(rd) = Len(d) - Len(b) /\ \A i \in 1 .. Len(rd) : rd[i] = d[Len(b) + i]
      /\ rd \in Path
  BY <1>1 DEF Path
<1>4. /\ Len(re) = Len(e) - Len(b) /\ \A i \in 1 .. Len(re) : re[i] = e[Len(b) + i]
      /\ re \in Path
  BY <1>1 DEF Path
<1> HIDE DEF rd, re
<1>5. /\ Len(rd) \in Nat /\ Len(re) \in Nat /\ Len(rd) < Len(re) /\ Len(rd) >= 1
      /\ \A i \in 1 .. Len(rd) : rd[i] = re[i]
  <2>1. Len(rd) \in Nat /\ Len(re) \in Nat /\ Len(rd) < Len(re) /\ Len(rd) >= 1
    BY <1>1, <1>3, <1>4
  <2>2. ASSUME NEW i \in 1 .. Len(rd) PROVE rd[i] = re[i]
    <3>1. Len(b) + i \in 1 .. Len(d) /\ i \in 1 .. Len(re)
      BY <1>1, <1>3, <1>4
    <3> QED  BY <3>1, <1>1, <1>3, <1>4
  <2> QED  BY <2>1, <2>2
<1>6. ASSUME NEW k \in 1 .. Len(rd)
      PROVE  SubSeq(rd, 1, k) = SubSeq(re, 1, k) /\ k \in 1 .. Len(re) - 1
  <2>1. k \in 1 .. Len(re) - 1 /\ k <= Len(rd) /\ k <= Len(re)
    BY <1>5
  <2>2. SubSeq(rd, 1, k) = [i \in 1 .. k |-> rd[i]]
    BY <2>1, <1>3 DEF Path
  <2>3. SubSeq(re, 1, k) = [i \in 1 .. k |-> re[i]]
    BY <2>1, <1>4 DEF Path
  <2>4. \A i \in 1 .. k : rd[i] = re[i]
    BY <1>5
  <2> QED  BY <2>1, <2>2, <2>3, <2>4
<1>7. rd = SubSeq(rd, 1, Len(rd)) /\ Len(rd) \in 1 .. Len(rd)
  BY <1>3, <1>5 DEF Path
<1> QED  BY <1>2, <1>5, <1>6, <1>7 DEF DirectoryCandidates

LEMMA MatchBelow ==
  ASSUME NEW rule, NEW b \in Path, NEW d \in Path, NEW e \in Path, Below(d, b), Below(e, d),
         MatchesRule(rule, Relative(d, b), TRUE)
  PROVE  MatchesRule(rule, Relative(e, b), FALSE)
BY CandidatesBelow DEF MatchesRule

Hits(ordered, path, isDirectory) ==
  {k \in DOMAIN ordered :
     /\ Within(path, ordered[k].rule.base)
     /\ MatchesRule(ordered[k].rule, Relative(path, ordered[k].rule.base), isDirectory)}

LEMMA IgnoresMeans ==
  ASSUME NEW ordered, NEW path, NEW isDirectory
  PROVE  Ignores(ordered, path, isDirectory) <=>
           \E k \in Hits(ordered, path, isDirectory) :
             (\A j \in Hits(ordered, path, isDirectory) : j <= k) /\ ~ordered[k].rule.negated
BY DEF Ignores, Hits

\* Without negated rules what lies below an ignored directory is ignored, but
\* for a directory that hides itself.
LEMMA IgnoredBelow ==
  ASSUME Files, NEW root \in Roots, NEW s, Ordered(s, root),
         \A k \in DOMAIN s : ~s[k].rule.negated,
         NEW d \in Path, NEW e \in Path, Below(e, d),
         \A k \in DOMAIN s : s[k].rule.base = d => ~MatchesRule(s[k].rule, Relative(d, d), TRUE),
         Ignores(s, d, TRUE)
  PROVE  Ignores(s, e, FALSE)
<1>1. PICK n \in Nat : DOMAIN s = 1 .. n /\ \A k \in 1 .. n : s[k].rule.base \in Path
  BY OrderedRules DEF WellTyped
<1>2. PICK k \in Hits(s, d, TRUE) : TRUE
  BY IgnoresMeans
<1>3. /\ k \in DOMAIN s /\ s[k].rule.base \in Path /\ Within(d, s[k].rule.base)
      /\ MatchesRule(s[k].rule, Relative(d, s[k].rule.base), TRUE)
  BY <1>1, <1>2 DEF Hits
<1>4. Below(d, s[k].rule.base)
  BY <1>3, WithinTransitive
<1>5. k \in Hits(s, e, FALSE)
  <2>1. Within(e, s[k].rule.base)
    BY <1>3, <1>4, WithinTransitive
  <2>2. MatchesRule(s[k].rule, Relative(e, s[k].rule.base), FALSE)
    BY <1>3, <1>4, MatchBelow
  <2> QED  BY <1>3, <2>1, <2>2 DEF Hits
<1>6. PICK m \in Hits(s, e, FALSE) : \A j \in Hits(s, e, FALSE) : j <= m
  <2>1. Hits(s, e, FALSE) \subseteq 1 .. n
    BY <1>1 DEF Hits
  <2> QED  BY <2>1, <1>5, Greatest
<1>7. m \in DOMAIN s
  BY DEF Hits
<1> QED  BY <1>6, <1>7, IgnoresMeans

-----------------------------------------------------------------------------
(* The walk. *)

\* The entry below a directory through which the walk reaches a path.
LEMMA NextBelow ==
  ASSUME NEW root \in Roots, NEW d \in Path, NEW e \in Entries, d = root \/ Below(d, root),
         Below(e, d)
  PROVE  \E c \in Children(d) : Within(e, c)
<1> DEFINE c == SubSeq(e, 1, Len(d) + 1)
<1>0. root \in Path /\ e \in Path
  BY TreeAssumption DEF TreeAssumption
<1>1. /\ Len(root) \in Nat /\ Len(d) \in Nat /\ Len(e) \in Nat
      /\ Len(root) <= Len(d) /\ Len(d) < Len(e) /\ \A i \in 1 .. Len(d) : d[i] = e[i]
      /\ Len(d) + 1 \in 0 .. Len(e)
  BY <1>0, PrefixMeans DEF Path
<1>2. c \in Path /\ Len(c) = Len(d) + 1 /\ \A i \in 1 .. Len(d) + 1 : c[i] = e[i]
  BY <1>0, <1>1, Beginning
<1>3. c \in Entries
  <2>1. CASE Len(d) + 1 = Len(e)
    <3>1. SubSeq(e, 1, Len(e)) = e
      BY <1>0 DEF Path
    <3> QED  BY <2>1, <3>1
  <2>2. CASE Len(d) + 1 # Len(e)
    <3>1. Len(d) + 1 \in Len(root) + 1 .. Len(e) - 1
      BY <2>2, <1>1
    <3>2. Below(e, root)
      BY <1>0, WithinTransitive
    <3> QED  BY <3>1, <3>2, TreeAssumption DEF TreeAssumption
  <2> QED  BY <2>1, <2>2
<1> HIDE DEF c
<1>4. Below(c, d)
  BY <1>1, <1>2, PrefixMeans
<1>5. Within(e, c)
  BY <1>0, <1>1, <1>2, PrefixMeans
<1> QED  BY <1>2, <1>3, <1>4, <1>5 DEF Children

\* No directory on the way to what a directory holds is skipped.
LEMMA ChildrenUnskipped ==
  ASSUME NEW root \in Roots, NEW d \in Path, NEW c \in Children(d),
         \/ d = root
         \/ d \in Entries /\ Below(d, root) /\ Unskipped(root, d) /\ KindOf[d] # "skipped"
  PROVE  Below(c, root) /\ Unskipped(root, c)
<1>0. root \in Path /\ Entries \subseteq Path
  BY TreeAssumption DEF TreeAssumption
<1>1. c \in Entries /\ c \in Path /\ Below(c, d) /\ Len(c) = Len(d) + 1
  BY <1>0 DEF Children
<1>2. Below(c, root)
  BY <1>0, <1>1, WithinTransitive
<1>3. ASSUME NEW x \in Between(root, c) PROVE Below(d, x) \/ x = d
  <2>1. x \in Path /\ Below(c, x)
    BY <1>0 DEF Between
  <2>2. Len(x) < Len(c) /\ Len(x) \in Nat /\ Len(d) \in Nat
    BY <2>1, <1>1, PrefixMeans DEF Path
  <2>3. Len(x) <= Len(d)
    BY <2>2, <1>1
  <2>4. Within(c, x) /\ Within(c, d)
    BY <1>1, <2>1, WithinTransitive
  <2> QED  BY <1>1, <2>1, <2>3, <2>4, Above, WithinTransitive
<1>4. ASSUME NEW x \in Between(root, c) PROVE KindOf[x] # "skipped"
  <2>1. x \in Entries /\ x \in Path /\ Below(x, root)
    BY <1>0 DEF Between
  <2>2. d # root
    <3>1. \A y \in Path, z \in Path : Below(y, z) => Len(z) < Len(y) /\ Len(z) \in Nat /\ Len(y) \in Nat
      BY PrefixMeans DEF Path
    <3> QED  BY <3>1, <1>0, <1>3, <2>1
  <2> QED  BY <2>1, <2>2, <1>3 DEF Between, Unskipped
<1> QED  BY <1>2, <1>4 DEF Unskipped

\* What is still to be reached, and from where.
Shown(e) == \A d \in Entries : Below(e, d) => ~HidesItself(d)
Reachable(e) == \E root \in Roots : Below(e, root) /\ Unskipped(root, e)
Ahead(e, left) ==
  \E root \in Roots : \E t \in left : Below(t, root) /\ Within(e, t) /\ Unskipped(root, e)

\* What is kept and not hidden is collected or ahead of the walk.
ScanInv ==
  /\ Files
  /\ rules = NoRules => todo = {} /\ collected = {}
  /\ rules # NoRules => \A root \in Roots : Ordered(rules[root], root)
  /\ \A e \in todo : e \in Entries /\ Reachable(e)
  /\ \A e \in collected : Keeps(e)
  /\ rules # NoRules /\ ~stopped /\ ~Negated =>
       \A e \in Entries : Keeps(e) /\ Shown(e) => e \in collected \/ Ahead(e, todo)

LEMMA SameRules ==
  ASSUME rules' = rules
  PROVE  /\ \A e : Keeps(e)' <=> Keeps(e)
         /\ \A e : Shown(e)' <=> Shown(e)
         /\ Negated' <=> Negated
<1>1. \A e : Keeps(e)' <=> Keeps(e)
  BY DEF Keeps, IsGitignored
<1>2. \A e : Shown(e)' <=> Shown(e)
  BY DEF Shown, HidesItself
<1>3. Negated' <=> Negated
  BY DEF Negated
<1> QED  BY <1>1, <1>2, <1>3

LEMMA InitScan == ScanInit => ScanInv
BY DEF ScanInit, ScanInv, Files

LEMMA SameFiles ==
  ASSUME Files, UNCHANGED <<ignoreFiles, dltxtIgnore>>
  PROVE  /\ Files'
         /\ \A s, root : Ordered(s, root)' <=> Ordered(s, root)
BY DEF Files, Ordered, RulesOfFolder

\* A directory that is ignored, and hides itself not, holds nothing that is kept.
LEMMA NothingKeptBelow ==
  ASSUME ScanInv, rules # NoRules, ~Negated, NEW d \in Entries, NEW e \in Entries,
         Below(e, d), ~HidesItself(d), IsGitignored(d, TRUE)
  PROVE  ~Keeps(e)
<1>0. d \in Path /\ e \in Path /\ Roots \subseteq Path
  BY TreeAssumption DEF TreeAssumption
<1>1. PICK root \in Roots : Within(d, root) /\ Ignores(rules[root], d, TRUE)
  BY DEF IsGitignored
<1>2. Files /\ Ordered(rules[root], root)
  BY DEF ScanInv
<1>3. /\ \A k \in DOMAIN rules[root] : ~rules[root][k].rule.negated
      /\ \A k \in DOMAIN rules[root] : rules[root][k].rule.base = d =>
                                       ~MatchesRule(rules[root][k].rule, Relative(d, d), TRUE)
  BY DEF Negated, HidesItself
<1>4. Ignores(rules[root], e, FALSE)
  BY <1>0, <1>1, <1>2, <1>3, IgnoredBelow
<1>5. Within(e, root)
  BY <1>0, <1>1, WithinTransitive
<1> QED  BY <1>4, <1>5 DEF Keeps, IsGitignored

\* One step of the walk keeps what is ahead: each kept entry below an entry that
\* is visited is below one of its children.
LEMMA BuildRulesStep == ScanInv /\ BuildRules => ScanInv'
<1> SUFFICES ASSUME ScanInv, BuildRules PROVE ScanInv'
  OBVIOUS
<1>0. Roots \subseteq Path /\ Entries \subseteq Path
  BY TreeAssumption DEF TreeAssumption
<1>1. /\ rules = NoRules /\ collected = {} /\ Files
      /\ UNCHANGED <<ignoreFiles, dltxtIgnore, collected, stopped>>
      /\ DOMAIN rules' = Roots
      /\ \A root \in Roots : rules'[root] \in SortedRules(RulesOfFolder(root))
      /\ todo' = UNION {Children(root) : root \in Roots}
  BY DEF BuildRules, ScanInv
<1>2. Files' /\ \A s, root : Ordered(s, root)' <=> Ordered(s, root)
  BY <1>1, SameFiles
<1>3. rules' = NoRules => todo' = {} /\ collected' = {}
  <2>1. DOMAIN NoRules = {}
    BY DEF NoRules
  <2> QED  BY <1>1, <2>1
<1>4. \A root \in Roots : Ordered(rules'[root], root)
  BY <1>1 DEF Ordered
<1>5. \A root \in Roots : Ordered(rules[root], root)'
  BY <1>4, <1>2
<1>6. ASSUME NEW e \in todo' PROVE e \in Entries /\ Reachable(e)
  <2>1. PICK root \in Roots : e \in Children(root)
    BY <1>1
  <2> QED  BY <2>1, <1>0, ChildrenUnskipped DEF Children, Reachable
<1>7. ASSUME NEW e \in Entries, Keeps(e)' PROVE Ahead(e, todo')
  <2>1. PICK root \in Roots : Below(e, root) /\ Unskipped(root, e)
    BY <1>7 DEF Keeps
  <2>2. PICK c \in Children(root) : Within(e, c)
    BY <2>1, <1>0, NextBelow
  <2>3. Below(c, root)
    BY <2>2, <1>0, ChildrenUnskipped
  <2>4. c \in todo'
    BY <1>1
  <2> QED  BY <2>1, <2>2, <2>3, <2>4 DEF Ahead
<1> QED  BY <1>1, <1>2, <1>3, <1>5, <1>6, <1>7 DEF ScanInv, Ahead, Reachable

LEMMA VisitDirectoryStep == ASSUME NEW e \in Entries PROVE ScanInv /\ VisitDirectory(e) => ScanInv'
<1> SUFFICES ASSUME ScanInv, VisitDirectory(e) PROVE ScanInv'
  OBVIOUS
<1>0. Roots \subseteq Path /\ Entries \subseteq Path
  BY TreeAssumption DEF TreeAssumption
<1>1. /\ e \in todo /\ KindOf[e] # "text" /\ rules # NoRules
      /\ UNCHANGED <<ignoreFiles, dltxtIgnore, rules, collected, stopped>>
      /\ todo' = (todo \ {e}) \cup
           (IF KindOf[e] = "skipped" \/ IsGitignored(e, TRUE) THEN {} ELSE Children(e))
  BY DEF VisitDirectory, ScanInv
<1>2. Files' /\ \A s, root : Ordered(s, root)' <=> Ordered(s, root)
  BY <1>1, SameFiles DEF ScanInv
<1>3. /\ \A x : Keeps(x)' <=> Keeps(x)
      /\ \A x : Shown(x)' <=> Shown(x)
      /\ Negated' <=> Negated
  BY <1>1, SameRules
<1>4. PICK root \in Roots : Below(e, root) /\ Unskipped(root, e)
  BY <1>1 DEF ScanInv, Reachable
<1>5. ASSUME NEW x \in todo' PROVE x \in Entries /\ Reachable(x)
  <2>1. CASE x \in todo
    BY <2>1 DEF ScanInv
  <2>2. CASE x \notin todo
    <3>1. KindOf[e] # "skipped" /\ x \in Children(e)
      BY <2>2, <1>1
    <3> QED  BY <3>1, <1>0, <1>4, ChildrenUnskipped DEF Children, Reachable
  <2> QED  BY <2>1, <2>2
<1>6. ASSUME ~stopped, ~Negated, NEW x \in Entries, Keeps(x), Shown(x)
      PROVE  x \in collected \/ Ahead(x, todo')
  <2>1. CASE x \in collected
    BY <2>1
  <2>2. CASE \E r \in Roots : \E t \in todo \ {e} : Below(t, r) /\ Within(x, t) /\ Unskipped(r, x)
    BY <2>2, <1>1 DEF Ahead
  <2>3. CASE \E r \in Roots : Below(e, r) /\ Within(x, e) /\ Unskipped(r, x)
    <3>1. PICK r \in Roots : Below(e, r) /\ Within(x, e) /\ Unskipped(r, x)
      BY <2>3
    <3>2. KindOf[x] = "text"
      BY <1>6 DEF Keeps
    <3>3. Below(x, e)
      BY <3>1, <3>2, <1>0, <1>1, WithinTransitive
    <3>4. ~HidesItself(e)
      BY <1>6, <3>3 DEF Shown
    <3>5. ~IsGitignored(e, TRUE)
      BY <1>1, <1>6, <3>3, <3>4, NothingKeptBelow
    <3>6. KindOf[e] # "skipped"
      BY <3>1, <3>3 DEF Unskipped, Between
    <3>7. PICK c \in Children(e) : Within(x, c)
      BY <1>0, <3>1, <3>3, NextBelow
    <3>8. Below(c, r)
      <4>1. c \in Path /\ Below(c, e)
        BY <1>0 DEF Children
      <4>2. Within(e, r)
        BY <3>1, <1>0, WithinTransitive
      <4> QED  BY <4>1, <4>2, <1>0, WithinTransitive
    <3>9. c \in todo'
      BY <1>1, <3>5, <3>6
    <3> QED  BY <3>1, <3>7, <3>8, <3>9 DEF Ahead
  <2>4. Ahead(x, todo) \/ x \in collected
    BY <1>1, <1>6 DEF ScanInv
  <2> QED  BY <2>1, <2>2, <2>3, <2>4 DEF Ahead
<1>7. \A root_1 \in Roots : Ordered(rules[root_1], root_1)'
  BY <1>1, <1>2 DEF ScanInv
<1>8. \A x \in collected' : Keeps(x)'
  BY <1>1, <1>3 DEF ScanInv
<1> QED  BY <1>1, <1>2, <1>3, <1>5, <1>6, <1>7, <1>8 DEF ScanInv, Ahead, Reachable

LEMMA VisitFileStep == ASSUME NEW e \in Entries PROVE ScanInv /\ VisitFile(e) => ScanInv'
<1> SUFFICES ASSUME ScanInv, VisitFile(e) PROVE ScanInv'
  OBVIOUS
<1>0. Roots \subseteq Path /\ Entries \subseteq Path
  BY TreeAssumption DEF TreeAssumption
<1>1. /\ e \in todo /\ KindOf[e] \in {"text", "file"} /\ rules # NoRules
      /\ UNCHANGED <<ignoreFiles, dltxtIgnore, rules, stopped>>
      /\ todo' = todo \ {e}
      /\ collected' = IF KindOf[e] = "text" /\ ~IsGitignored(e, FALSE)
                      THEN collected \cup {e} ELSE collected
  BY DEF VisitFile, ScanInv
<1>2. Files' /\ \A s, root : Ordered(s, root)' <=> Ordered(s, root)
  BY <1>1, SameFiles DEF ScanInv
<1>3. /\ \A x : Keeps(x)' <=> Keeps(x)
      /\ \A x : Shown(x)' <=> Shown(x)
      /\ Negated' <=> Negated
  BY <1>1, SameRules
<1>4. KindOf[e] = "text" /\ ~IsGitignored(e, FALSE) => Keeps(e)
  BY <1>1 DEF ScanInv, Reachable, Keeps
<1>5. \A x \in collected' : Keeps(x)
  BY <1>1, <1>4 DEF ScanInv
<1>6. ASSUME ~stopped, ~Negated, NEW x \in Entries, Keeps(x), Shown(x)
      PROVE  x \in collected' \/ Ahead(x, todo')
  <2>1. CASE x \in collected
    BY <2>1, <1>1
  <2>2. CASE \E r \in Roots : \E t \in todo \ {e} : Below(t, r) /\ Within(x, t) /\ Unskipped(r, x)
    BY <2>2, <1>1 DEF Ahead
  <2>3. CASE \E r \in Roots : Below(e, r) /\ Within(x, e) /\ Unskipped(r, x)
    <3>1. PICK r \in Roots : Below(e, r) /\ Within(x, e)
      BY <2>3
    <3>2. ~Below(x, e)
      <4>1. ASSUME Below(x, e) PROVE FALSE
        <5>0. Below(x, r)
          BY <1>0, <3>1, WithinTransitive
        <5>1. Len(e) \in Len(r) + 1 .. Len(x) - 1
          <6>1. Len(e) \in Nat /\ Len(r) \in Nat /\ Len(x) \in Nat
            BY <1>0 DEF Path
          <6>2. Len(e) < Len(x) /\ Len(r) < Len(e)
            BY <4>1, <3>1, <1>0, PrefixMeans
          <6> QED  BY <6>1, <6>2
        <5>2. SubSeq(x, 1, Len(e)) = e
          <6>1. /\ Len(e) \in 0 .. Len(x) /\ \A i \in 1 .. Len(e) : e[i] = x[i]
            BY <4>1, <1>0, <5>1, PrefixMeans DEF Path
          <6>2. SubSeq(x, 1, Len(e)) = [i \in 1 .. Len(e) |-> x[i]]
            BY <6>1, <1>0 DEF Path
          <6>3. e = [i \in 1 .. Len(e) |-> e[i]]
            BY <1>0 DEF Path
          <6> QED  BY <6>1, <6>2, <6>3
        <5>3. KindOf[e] \in {"directory", "skipped"}
          BY <5>0, <5>1, <5>2, TreeAssumption DEF TreeAssumption
        <5> QED  BY <5>3, <1>1
      <4> QED  BY <4>1
    <3>3. x = e
      BY <1>0, <3>1, <3>2, WithinTransitive
    <3> QED  BY <3>3, <1>1, <1>6 DEF Keeps
  <2>4. Ahead(x, todo) \/ x \in collected
    BY <1>1, <1>6 DEF ScanInv
  <2> QED  BY <2>1, <2>2, <2>3, <2>4 DEF Ahead
<1>7. \A root \in Roots : Ordered(rules[root], root)'
  BY <1>1, <1>2 DEF ScanInv
<1>8. \A x \in todo' : x \in Entries /\ Reachable(x)
  BY <1>1 DEF ScanInv
<1> QED  BY <1>1, <1>2, <1>3, <1>5, <1>6, <1>7, <1>8 DEF ScanInv, Ahead, Reachable

LEMMA OtherScanStep ==
  ScanInv /\ ((\E root \in Roots : WalkFails(root)) \/ UNCHANGED scanVars) => ScanInv'
<1> SUFFICES ASSUME ScanInv, (\E root \in Roots : WalkFails(root)) \/ UNCHANGED scanVars
             PROVE  ScanInv'
  OBVIOUS
<1>1. /\ UNCHANGED <<ignoreFiles, dltxtIgnore, rules, collected>>
      /\ todo' \subseteq todo
      /\ stopped' \/ (~stopped' /\ stopped' = stopped /\ todo' = todo)
      /\ todo' = todo \/ rules # NoRules
  <2>1. CASE UNCHANGED scanVars
    BY <2>1 DEF scanVars, ScanInv
  <2>2. CASE \E root \in Roots : WalkFails(root)
    BY <2>2 DEF WalkFails, ScanInv
  <2> QED  BY <2>1, <2>2
<1>2. Files' /\ \A s, root : Ordered(s, root)' <=> Ordered(s, root)
  BY <1>1, SameFiles DEF ScanInv
<1>3. /\ \A x : Keeps(x)' <=> Keeps(x)
      /\ \A x : Shown(x)' <=> Shown(x)
      /\ Negated' <=> Negated
  BY <1>1, SameRules
<1>4. rules # NoRules => \A root \in Roots : Ordered(rules[root], root)'
  BY <1>1, <1>2 DEF ScanInv
<1> QED  BY <1>1, <1>2, <1>3, <1>4 DEF ScanInv, Ahead, Reachable

LEMMA ScanAlways == ScanSpec => []ScanInv
<1>1. ScanInv /\ [ScanNext]_scanVars => ScanInv'
  BY BuildRulesStep, VisitDirectoryStep, VisitFileStep, OtherScanStep DEF ScanNext
<1> QED  BY <1>1, InitScan, PTL DEF ScanSpec

\* The walk collects only what the check of single paths keeps, and without
\* negated rules all of it that no directory hides by a rule of its own.
THEOREM ScanAgreesWithCheckAlways == ScanSpec => []ScanAgreesWithCheck
<1>1. ScanInv => ScanAgreesWithCheck
  BY DEF ScanInv, ScanAgreesWithCheck, Ahead, Shown
<1> QED  BY <1>1, ScanAlways, PTL

-----------------------------------------------------------------------------
(* The order of the rules. *)

HitRules(s, e, isDirectory) ==
  {r \in {found.rule : found \in ToSet(s)} :
     /\ Within(e, r.base)
     /\ MatchesRule(r, Relative(e, r.base), isDirectory)}
DeepestIn(hits) == {r \in hits : \A q \in hits : Len(q.base) <= Len(r.base)}
LastIn(deepest) == {r \in deepest : \A q \in deepest : q.order <= r.order}

\* Of the rules that match a path the last of the deepest directory decides,
\* whatever order the sort leaves where its comparison leaves it open.
LEMMA DeepestOf ==
  ASSUME Files, NEW root \in Roots, NEW s, Ordered(s, root), NEW e \in Path,
         NEW isDirectory, NEW r \in LastIn(DeepestIn(HitRules(s, e, isDirectory))),
         \A q \in LastIn(DeepestIn(HitRules(s, e, isDirectory))) : q.negated = r.negated
  PROVE  Ignores(s, e, isDirectory) <=> ~r.negated
<1> DEFINE hits == HitRules(s, e, isDirectory)
           deepest == DeepestIn(hits)
           last == LastIn(deepest)
<1>1. PICK n \in Nat :
        /\ DOMAIN s = 1 .. n
        /\ \A k \in 1 .. n : s[k].rule.base \in Path /\ s[k].rule.order \in Nat
        /\ \A i, j \in 1 .. n : Before(s[i].rule, s[j].rule) => i < j
  BY OrderedRules DEF WellTyped
<1> DEFINE H == Hits(s, e, isDirectory)
<1>2. H \subseteq 1 .. n
  BY <1>1 DEF Hits
<1>3. hits = {s[k].rule : k \in H}
  <2>1. {found.rule : found \in ToSet(s)} = {s[k].rule : k \in DOMAIN s}
    BY DEF ToSet
  <2> QED  BY <2>1 DEF Hits, HitRules
<1>4. H # {}
  BY <1>3 DEF DeepestIn, LastIn
<1>5. \A k \in H : /\ s[k].rule.base \in Path /\ Len(s[k].rule.base) \in Nat
                   /\ s[k].rule.order \in Nat /\ Within(e, s[k].rule.base)
  <2>1. \A b \in Path : Len(b) \in Nat
    BY DEF Path
  <2> QED  BY <2>1, <1>1, <1>2 DEF Hits
<1> HIDE DEF H
<1>6. PICK m \in H : \A j \in H : j <= m
  BY <1>2, <1>4, Greatest
<1>7. s[m].rule \in deepest
  <2>1. ASSUME NEW k \in H PROVE Len(s[k].rule.base) <= Len(s[m].rule.base)
    <3>1. Len(s[k].rule.base) \in Nat /\ Len(s[m].rule.base) \in Nat
      BY <1>5
    <3>2. ~ (m < k) /\ m \in 1 .. n /\ k \in 1 .. n
      BY <1>2, <1>6
    <3>3. ~ (Len(s[m].rule.base) < Len(s[k].rule.base))
      BY <3>2, <1>1 DEF Before
    <3> QED  BY <3>1, <3>3
  <2> QED  BY <2>1, <1>3 DEF DeepestIn
<1>8. s[m].rule \in last
  <2>1. ASSUME NEW k \in H, s[k].rule \in deepest PROVE s[k].rule.order <= s[m].rule.order
    <3>1. /\ Len(s[m].rule.base) <= Len(s[k].rule.base) /\ Len(s[k].rule.base) <= Len(s[m].rule.base)
          /\ Len(s[m].rule.base) \in Nat /\ Len(s[k].rule.base) \in Nat
      BY <2>1, <1>3, <1>5, <1>7 DEF DeepestIn
    <3>2. Len(s[m].rule.base) = Len(s[k].rule.base)
      BY <3>1
    <3>3. s[m].rule.base = s[k].rule.base
      BY <3>2, <1>5, Above
    <3>4. ~ (m < k) /\ m \in 1 .. n /\ k \in 1 .. n
      BY <1>2, <1>6
    <3>5. ~ (s[m].rule.order < s[k].rule.order)
      BY <3>3, <3>4, <1>1 DEF Before
    <3>6. s[m].rule.order \in Nat /\ s[k].rule.order \in Nat
      BY <1>5
    <3> QED  BY <3>5, <3>6
  <2>2. \A q \in deepest : \E k \in H : q = s[k].rule
    BY <1>3 DEF DeepestIn
  <2>3. \A q \in deepest : q.order <= s[m].rule.order
    BY <2>1, <2>2
  <2> QED  BY <2>3, <1>7 DEF LastIn
<1>9. s[m].rule.negated = r.negated
  BY <1>8
<1>10. Ignores(s, e, isDirectory) <=> ~s[m].rule.negated
  <2>1. ASSUME NEW k \in H, \A j \in H : j <= k PROVE k = m
    BY <2>1, <1>2, <1>6
  <2> QED  BY <2>1, <1>6, IgnoresMeans DEF H
<1> QED  BY <1>9, <1>10

-----------------------------------------------------------------------------
(* Wildcards.  A text fits a pattern from position j on, with the pattern     *)
(* from i on, if it can be cut into pieces from there; star i stands alone    *)
(* unless a star follows it.  The matcher's table satisfies the equations of  *)
(* FitsFrom, and these have one solution.                                     *)

OneFits(c, d) == IF c = "?" THEN d # "/" ELSE c = d

PieceFits(P, T, i, k, a, b) ==
  IF P[k] = "*"
  THEN \/ k > i /\ P[k - 1] = "*"
       \/ k < Len(P) /\ P[k + 1] = "*"
       \/ \A l \in a + 1 .. b : T[l] # "/"
  ELSE b = a + 1 /\ OneFits(P[k], T[b])

IsCut(cut, P, T, i, j) ==
  /\ cut \in [i - 1 .. Len(P) -> 0 .. Len(T)]
  /\ cut[i - 1] = j - 1 /\ cut[Len(P)] = Len(T)
  /\ \A k \in i .. Len(P) : cut[k - 1] <= cut[k] /\ PieceFits(P, T, i, k, cut[k - 1], cut[k])

FitsFrom(P, T, i, j) == \E cut : IsCut(cut, P, T, i, j)

LEMMA PieceMeans ==
  ASSUME NEW P \in Seq(Characters), NEW T \in Seq(Characters), NEW k \in 1 .. Len(P),
         NEW a \in 0 .. Len(T), NEW b \in 0 .. Len(T), a <= b
  PROVE  PieceFits(P, T, 1, k, a, b) <=>
           LET piece == SubSeq(T, a + 1, b)
               Star(j) == j \in DOMAIN P /\ P[j] = "*"
           IN  CASE Star(k) -> Star(k - 1) \/ Star(k + 1) \/ ~Contains(piece, "/")
                 [] P[k] = "?" -> Len(piece) = 1 /\ piece[1] # "/"
                 [] OTHER -> piece = <<P[k]>>
<1> DEFINE piece == SubSeq(T, a + 1, b)
<1>1. /\ piece \in Seq(Characters) /\ Len(piece) = b - a
      /\ \A l \in 1 .. b - a : piece[l] = T[a + l]
  OBVIOUS
<1>2. Contains(piece, "/") <=> \E l \in a + 1 .. b : T[l] = "/"
  <2>1. ASSUME NEW l \in a + 1 .. b, T[l] = "/" PROVE Contains(piece, "/")
    <3>1. l - a \in 1 .. b - a /\ a + (l - a) = l
      OBVIOUS
    <3>2. piece[l - a] = "/"
      BY <3>1, <2>1, <1>1
    <3> QED  BY <3>1, <3>2, <1>1 DEF Contains
  <2>2. ASSUME NEW l \in 1 .. Len(piece), piece[l] = "/" PROVE \E x \in a + 1 .. b : T[x] = "/"
    <3>1. a + l \in a + 1 .. b /\ l \in 1 .. b - a
      BY <1>1
    <3> QED  BY <3>1, <2>2, <1>1
  <2> QED  BY <2>1, <2>2 DEF Contains
<1>3. DOMAIN P = 1 .. Len(P) /\ Len(P) \in Nat
  OBVIOUS
<1>4. Len(piece) = 1 <=> b = a + 1
  BY <1>1
<1>5. b = a + 1 => piece[1] = T[b]
  BY <1>1
<1>6. \A c : piece = <<c>> <=> b = a + 1 /\ c = T[b]
  <2>1. \A c : Len(<<c>>) = 1 /\ <<c>>[1] = c
    OBVIOUS
  <2>2. b = a + 1 => piece = <<T[b]>>
    <3>1. b = a + 1 => piece = [l \in 1 .. 1 |-> T[b]]
      <4>1. piece = [l \in 1 .. Len(piece) |-> piece[l]]
        BY <1>1
      <4>2. b = a + 1 => Len(piece) = 1 /\ \A l \in 1 .. 1 : l = 1
        BY <1>1
      <4>3. b = a + 1 => piece = [l \in 1 .. 1 |-> piece[1]]
        <5> HIDE DEF piece
        <5> QED  BY <4>1, <4>2
      <4> QED  BY <4>3, <1>5
    <3>2. <<T[b]>> = [l \in 1 .. 1 |-> T[b]]
      OBVIOUS
    <3> QED  BY <3>1, <3>2
  <2> QED  BY <2>1, <2>2, <1>4, <1>5
<1> HIDE DEF piece
<1>7. CASE P[k] = "*"
  <2>1. /\ (k - 1 \in DOMAIN P <=> k > 1) /\ (k + 1 \in DOMAIN P <=> k < Len(P)) /\ k \in DOMAIN P
    BY <1>3
  <2> QED  BY <1>7, <2>1, <1>2 DEF PieceFits, piece
<1>8. CASE P[k] # "*"
  BY <1>8, <1>4, <1>5, <1>6 DEF PieceFits, OneFits, piece
<1> QED  BY <1>7, <1>8

LEMMA FitsMeans ==
  ASSUME NEW P \in Seq(Characters), NEW T \in Seq(Characters)
  PROVE  Fits(P, T) <=> FitsFrom(P, T, 1, 1)
<1> DEFINE Good(cut, k) ==
      LET piece == SubSeq(T, cut[k - 1] + 1, cut[k])
          Star(j) == j \in DOMAIN P /\ P[j] = "*"
      IN  /\ cut[k - 1] <= cut[k]
          /\ CASE Star(k) -> Star(k - 1) \/ Star(k + 1) \/ ~Contains(piece, "/")
               [] P[k] = "?" -> Len(piece) = 1 /\ piece[1] # "/"
               [] OTHER -> piece = <<P[k]>>
<1>1. Fits(P, T) <=> \E cut \in [0 .. Len(P) -> 0 .. Len(T)] :
                       /\ cut[0] = 0 /\ cut[Len(P)] = Len(T)
                       /\ \A k \in 1 .. Len(P) : Good(cut, k)
  <2>1. DOMAIN P = 1 .. Len(P)
    OBVIOUS
  <2> QED  BY <2>1, Zenon DEF Fits
<1>2. ASSUME NEW cut \in [0 .. Len(P) -> 0 .. Len(T)], NEW k \in 1 .. Len(P)
      PROVE  Good(cut, k) <=> cut[k - 1] <= cut[k] /\ PieceFits(P, T, 1, k, cut[k - 1], cut[k])
  <2>1. cut[k - 1] \in 0 .. Len(T) /\ cut[k] \in 0 .. Len(T)
    <3>1. Len(P) \in Nat /\ k - 1 \in 0 .. Len(P) /\ k \in 0 .. Len(P)
      OBVIOUS
    <3> QED  BY <3>1
  <2> QED  BY <2>1, PieceMeans
<1> HIDE DEF Good
<1>3. FitsFrom(P, T, 1, 1) <=> \E cut \in [0 .. Len(P) -> 0 .. Len(T)] :
        /\ cut[0] = 0 /\ cut[Len(P)] = Len(T)
        /\ \A k \in 1 .. Len(P) : cut[k - 1] <= cut[k] /\ PieceFits(P, T, 1, k, cut[k - 1], cut[k])
  BY DEF FitsFrom, IsCut
<1> QED  BY <1>1, <1>2, <1>3

\* A piece is judged alike whatever its position, but for the first one, which
\* has no star before it.
LEMMA PieceFrom ==
  ASSUME NEW P, NEW T, NEW i \in Nat, NEW h \in Nat, NEW k \in Nat, NEW a, NEW b, i <= h, h <= k
  PROVE  /\ PieceFits(P, T, h, k, a, b) => PieceFits(P, T, i, k, a, b)
         /\ k > h \/ P[k] # "*" \/ i = h \/ P[k - 1] # "*" =>
              (PieceFits(P, T, h, k, a, b) <=> PieceFits(P, T, i, k, a, b))
BY DEF PieceFits

\* What a cut says of a single position.
LEMMA CutTypes ==
  ASSUME NEW P \in Seq(Characters), NEW T \in Seq(Characters), NEW i \in 1 .. Len(P) + 1, NEW j,
         NEW cut, IsCut(cut, P, T, i, j), NEW k \in i - 1 .. Len(P)
  PROVE  cut[k] \in 0 .. Len(T)
BY DEF IsCut

LEMMA EndFits ==
  ASSUME NEW P \in Seq(Characters), NEW T \in Seq(Characters), NEW j \in 1 .. Len(T) + 1
  PROVE  FitsFrom(P, T, Len(P) + 1, j) <=> j > Len(T)
<1> DEFINE n == Len(P)
           m == Len(T)
<1>0. n \in Nat /\ m \in Nat
  OBVIOUS
<1> HIDE DEF n, m
<1>1. ASSUME NEW cut, IsCut(cut, P, T, n + 1, j) PROVE j > m
  <2>1. cut[n + 1 - 1] = j - 1 /\ cut[n] = m
    BY <1>1 DEF IsCut, n, m
  <2> QED  BY <2>1, <1>0
<1>2. ASSUME j > m PROVE \E cut : IsCut(cut, P, T, n + 1, j)
  <2> DEFINE cut == [x \in n .. n |-> m]
  <2>1. n + 1 - 1 = n /\ j - 1 = m /\ n + 1 .. n = {} /\ n \in n .. n /\ m \in 0 .. m
    BY <1>0, <1>2 DEF m
  <2>2. cut \in [n .. n -> 0 .. m] /\ cut[n] = m
    BY <2>1
  <2> HIDE DEF cut
  <2>3. IsCut(cut, P, T, n + 1, j)
    <3>1. cut \in [n + 1 - 1 .. n -> 0 .. m] /\ cut[n + 1 - 1] = j - 1 /\ cut[n] = m
      BY <2>1, <2>2
    <3>2. \A k \in n + 1 .. n : FALSE
      BY <2>1
    <3> QED  BY <3>1, <3>2 DEF IsCut, n, m
  <2> QED  BY <2>3
<1> QED  BY <1>1, <1>2 DEF FitsFrom, n, m

\* A position that is not the first of two stars takes one piece.
LEMMA SingleFits ==
  ASSUME NEW P \in Seq(Characters), NEW T \in Seq(Characters), NEW i \in 1 .. Len(P),
         NEW j \in 1 .. Len(T) + 1, ~ (P[i] = "*" /\ i < Len(P) /\ P[i + 1] = "*")
  PROVE  FitsFrom(P, T, i, j) <=>
           \E k \in j .. Len(T) + 1 :
             PieceFits(P, T, i, i, j - 1, k - 1) /\ FitsFrom(P, T, i + 1, k)
<1> DEFINE n == Len(P)
           m == Len(T)
<1>0. n \in Nat /\ m \in Nat /\ i \in 1 .. n /\ j \in 1 .. m + 1
  OBVIOUS
<1>1. ASSUME NEW cut, IsCut(cut, P, T, i, j)
      PROVE  \E k \in j .. m + 1 : PieceFits(P, T, i, i, j - 1, k - 1) /\ FitsFrom(P, T, i + 1, k)
  <2> DEFINE rest == [x \in i .. n |-> cut[x]]
             k == cut[i] + 1
  <2> HIDE DEF n, m
  <2>1. /\ cut \in [i - 1 .. n -> 0 .. m] /\ cut[i - 1] = j - 1 /\ cut[n] = m
        /\ \A x \in i .. n : cut[x - 1] <= cut[x] /\ PieceFits(P, T, i, x, cut[x - 1], cut[x])
    BY <1>1 DEF IsCut, n, m
  <2>2. i \in i .. n /\ n \in i .. n /\ i .. n \subseteq i - 1 .. n /\ i + 1 - 1 = i
    BY <1>0
  <2>3. cut[i] \in 0 .. m /\ j - 1 <= cut[i]
    BY <2>1, <2>2
  <2>4. k \in j .. m + 1 /\ k - 1 = cut[i]
    BY <1>0, <2>3
  <2>5. PieceFits(P, T, i, i, j - 1, k - 1)
    BY <2>1, <2>2, <2>4
  <2>6. rest \in [i .. n -> 0 .. m] /\ rest[i] = k - 1 /\ rest[n] = m
    BY <2>1, <2>2, <2>4
  <2>7. ASSUME NEW x \in i + 1 .. n
        PROVE  rest[x - 1] <= rest[x] /\ PieceFits(P, T, i + 1, x, rest[x - 1], rest[x])
    <3>1. x \in i .. n /\ x - 1 \in i .. n /\ x \in Nat /\ i + 1 <= x /\ i + 1 \in Nat /\ i \in Nat
      BY <1>0
    <3>2. rest[x] = cut[x] /\ rest[x - 1] = cut[x - 1]
      BY <3>1
    <3>3. x > i + 1 \/ P[x] # "*" \/ P[x - 1] # "*"
      BY <3>1, <1>0 DEF n
    <3>4. PieceFits(P, T, i + 1, x, cut[x - 1], cut[x])
      BY <2>1, <3>1, <3>3, PieceFrom
    <3> QED  BY <2>1, <3>1, <3>2, <3>4
  <2> HIDE DEF rest, k
  <2>8. IsCut(rest, P, T, i + 1, k)
    BY <2>2, <2>6, <2>7 DEF IsCut, n, m
  <2> QED  BY <2>4, <2>5, <2>8 DEF FitsFrom
<1>2. ASSUME NEW k \in j .. m + 1, PieceFits(P, T, i, i, j - 1, k - 1),
             NEW rest, IsCut(rest, P, T, i + 1, k)
      PROVE  FitsFrom(P, T, i, j)
  <2> DEFINE cut == [x \in i - 1 .. n |-> IF x = i - 1 THEN j - 1 ELSE rest[x]]
  <2> HIDE DEF n, m
  <2>1. /\ rest \in [i .. n -> 0 .. m] /\ rest[i] = k - 1 /\ rest[n] = m
        /\ \A x \in i + 1 .. n : /\ rest[x - 1] <= rest[x]
                                /\ PieceFits(P, T, i + 1, x, rest[x - 1], rest[x])
    <3>1. i + 1 - 1 = i
      BY <1>0
    <3> QED  BY <3>1, <1>2 DEF IsCut, n, m
  <2>2. j - 1 \in 0 .. m /\ j - 1 <= k - 1 /\ i - 1 \in i - 1 .. n /\ n \in i - 1 .. n /\ n # i - 1
    BY <1>0
  <2>3. \A x \in i .. n : x \in i - 1 .. n /\ x # i - 1
    BY <1>0
  <2>4. cut \in [i - 1 .. n -> 0 .. m]
    <3>1. \A x \in i - 1 .. n : x # i - 1 => x \in i .. n
      BY <1>0
    <3> QED  BY <2>1, <2>2, <3>1
  <2>5. cut[i - 1] = j - 1 /\ cut[n] = m /\ \A x \in i .. n : cut[x] = rest[x]
    BY <2>1, <2>2, <2>3
  <2> HIDE DEF cut
  <2>6. ASSUME NEW x \in i .. n
        PROVE  cut[x - 1] <= cut[x] /\ PieceFits(P, T, i, x, cut[x - 1], cut[x])
    <3>1. CASE x = i
      BY <3>1, <1>2, <2>1, <2>2, <2>5
    <3>2. CASE x # i
      <4>1. x \in i + 1 .. n /\ x - 1 \in i .. n /\ x \in Nat /\ i + 1 <= x /\ i + 1 \in Nat /\ i \in Nat /\ i <= i + 1
        BY <1>0, <3>2
      <4>2. cut[x] = rest[x] /\ cut[x - 1] = rest[x - 1]
        BY <4>1, <2>5
      <4>3. PieceFits(P, T, i, x, rest[x - 1], rest[x])
        BY <2>1, <4>1, PieceFrom
      <4> QED  BY <2>1, <4>1, <4>2, <4>3
    <3> QED  BY <3>1, <3>2
  <2>7. IsCut(cut, P, T, i, j)
    BY <2>4, <2>5, <2>6 DEF IsCut, n, m
  <2> QED  BY <2>7 DEF FitsFrom
<1> QED  BY <1>1, <1>2 DEF FitsFrom

\* Two stars take anything, and leave none to a third.
LEMMA DoubleFits ==
  ASSUME NEW P \in Seq(Characters), NEW T \in Seq(Characters), NEW i \in 1 .. Len(P),
         NEW j \in 1 .. Len(T) + 1, P[i] = "*", i < Len(P), P[i + 1] = "*"
  PROVE  FitsFrom(P, T, i, j) <=> \E k \in j .. Len(T) + 1 : FitsFrom(P, T, i + 2, k)
<1> DEFINE n == Len(P)
           m == Len(T)
<1>0. n \in Nat /\ m \in Nat /\ i \in 1 .. n /\ j \in 1 .. m + 1 /\ i < n
  OBVIOUS
<1>1. ASSUME NEW cut, IsCut(cut, P, T, i, j)
      PROVE  \E k \in j .. m + 1 : FitsFrom(P, T, i + 2, k)
  <2> DEFINE third == i + 2 <= n /\ P[i + 2] = "*"
             k == (IF third THEN cut[i + 2] ELSE cut[i + 1]) + 1
             rest == [x \in i + 1 .. n |-> IF x = i + 1 THEN k - 1 ELSE cut[x]]
  <2> HIDE DEF n, m
  <2>1. /\ cut \in [i - 1 .. n -> 0 .. m] /\ cut[i - 1] = j - 1 /\ cut[n] = m
        /\ \A x \in i .. n : cut[x - 1] <= cut[x] /\ PieceFits(P, T, i, x, cut[x - 1], cut[x])
    BY <1>1 DEF IsCut, n, m
  <2>2. \A x \in i - 1 .. n : cut[x] \in 0 .. m
    BY <2>1
  <2>3. cut[i - 1] <= cut[i] /\ cut[i] <= cut[i + 1] /\ (i + 2 <= n => cut[i + 1] <= cut[i + 2])
    <3>1. i \in i .. n /\ i + 1 \in i .. n /\ i + 1 - 1 = i
      BY <1>0
    <3>2. i + 2 <= n => i + 2 \in i .. n /\ i + 2 - 1 = i + 1
      BY <1>0
    <3> QED  BY <2>1, <3>1, <3>2
  <2>4. /\ k - 1 \in 0 .. m /\ k \in j .. m + 1
        /\ i + 2 <= n /\ ~third => k - 1 = cut[i + 1]
        /\ third => k - 1 = cut[i + 2]
        /\ i + 1 = n => k - 1 = m
    <3>1. cut[i - 1] \in 0 .. m /\ cut[i] \in 0 .. m /\ cut[i + 1] \in 0 .. m
          /\ (i + 2 <= n => cut[i + 2] \in 0 .. m)
      <4>1. i - 1 \in i - 1 .. n /\ i \in i - 1 .. n /\ i + 1 \in i - 1 .. n
            /\ (i + 2 <= n => i + 2 \in i - 1 .. n)
        BY <1>0
      <4> QED  BY <4>1, <2>2
    <3>2. i + 1 = n => cut[i + 1] = m
      BY <2>1
    <3> HIDE DEF rest
    <3>3. CASE third
      <4>0. k = cut[i + 2] + 1
        BY <3>3
      <4>1. i + 2 <= n /\ i + 1 # n
        BY <3>3, <1>0
      <4>2. cut[i - 1] <= cut[i + 2]
        BY <2>3, <3>1, <4>1
      <4> HIDE DEF k, third
      <4>3. cut[i + 2] \in 0 .. m /\ j - 1 <= cut[i + 2]
        BY <2>1, <3>1, <4>1, <4>2
      <4>4. k - 1 = cut[i + 2] /\ k \in j .. m + 1
        <5>1. \A c \in 0 .. m : j - 1 <= c => c + 1 - 1 = c /\ c + 1 \in j .. m + 1
          BY <1>0
        <5> QED  BY <4>0, <4>3, <5>1
      <4> QED  BY <3>3, <4>1, <4>3, <4>4
    <3>4. CASE ~third
      <4>1. k = cut[i + 1] + 1
        BY <3>4
      <4>2. cut[i - 1] <= cut[i + 1]
        BY <2>3, <3>1
      <4> HIDE DEF k, third
      <4>3. cut[i + 1] \in 0 .. m /\ j - 1 <= cut[i + 1]
        BY <2>1, <3>1, <4>1, <4>2
      <4>4. k - 1 = cut[i + 1] /\ k \in j .. m + 1
        BY <1>0, <4>1, <4>3
      <4> QED  BY <3>2, <3>4, <4>3, <4>4
    <3> HIDE DEF k, third
    <3> QED  BY <3>3, <3>4
  <2> HIDE DEF k
  <2>5. rest \in [i + 1 .. n -> 0 .. m]
    <3>1. \A x \in i + 1 .. n : x \in i - 1 .. n
      BY <1>0
    <3> QED  BY <2>2, <2>4, <3>1
  <2>6. rest[i + 1] = k - 1 /\ rest[n] = m
    <3>1. i + 1 \in i + 1 .. n /\ n \in i + 1 .. n
      BY <1>0
    <3> QED  BY <2>1, <2>4, <3>1
  <2>7. \A x \in i + 2 .. n : rest[x] = cut[x]
    <3>1. \A x \in i + 2 .. n : x \in i + 1 .. n /\ x # i + 1
      BY <1>0
    <3> QED  BY <3>1
  <2> HIDE DEF rest
  <2>8. ASSUME NEW x \in i + 2 .. n
        PROVE  rest[x - 1] <= rest[x] /\ PieceFits(P, T, i + 2, x, rest[x - 1], rest[x])
    <3>0. /\ x \in i .. n /\ x \in Nat /\ i + 2 \in Nat /\ i \in Nat /\ i <= i + 2 /\ i + 2 <= x
          /\ x \in i - 1 .. n
      BY <1>0
    <3>1. CASE x = i + 2 /\ third
      <4>1. rest[x] = cut[x] /\ rest[x - 1] = cut[x]
        <5>1. x - 1 = i + 1
          BY <1>0, <3>1
        <5> QED  BY <2>4, <2>6, <2>7, <3>1, <5>1
      <4>2. cut[x] \in 0 .. m
        BY <2>2, <3>0
      <4>3. cut[x] + 1 .. cut[x] = {} /\ cut[x] <= cut[x]
        BY <4>2
      <4>4. P[x] = "*"
        BY <3>1
      <4> QED  BY <4>1, <4>3, <4>4 DEF PieceFits
    <3>2. CASE x = i + 2 /\ ~third
      <4>1. rest[x] = cut[x] /\ rest[x - 1] = cut[x - 1]
        <5>1. x - 1 = i + 1 /\ i + 2 <= n
          BY <1>0, <3>0, <3>2
        <5> QED  BY <2>4, <2>6, <2>7, <3>2, <5>1
      <4>2. P[x] # "*"
        BY <3>0, <3>2, <1>0
      <4>3. cut[x - 1] <= cut[x] /\ PieceFits(P, T, i, x, cut[x - 1], cut[x])
        BY <2>1, <3>0
      <4> QED  BY <4>1, <4>2, <4>3, <3>0, PieceFrom
    <3>3. CASE x # i + 2
      <4>1. x > i + 2 /\ x - 1 \in i + 2 .. n
        BY <1>0, <3>3
      <4>2. rest[x] = cut[x] /\ rest[x - 1] = cut[x - 1]
        BY <2>7, <4>1
      <4>3. cut[x - 1] <= cut[x] /\ PieceFits(P, T, i, x, cut[x - 1], cut[x])
        BY <2>1, <3>0
      <4> QED  BY <4>1, <4>2, <4>3, <3>0, PieceFrom
    <3> QED  BY <3>1, <3>2, <3>3
  <2>9. IsCut(rest, P, T, i + 2, k)
    <3>1. i + 2 - 1 = i + 1
      BY <1>0
    <3> QED  BY <3>1, <2>5, <2>6, <2>8 DEF IsCut, n, m
  <2> QED  BY <2>4, <2>9 DEF FitsFrom
<1>2. ASSUME NEW k \in j .. m + 1, NEW rest, IsCut(rest, P, T, i + 2, k)
      PROVE  FitsFrom(P, T, i, j)
  <2> DEFINE cut == [x \in i - 1 .. n |-> IF x = i - 1 THEN j - 1 ELSE IF x = i THEN k - 1 ELSE rest[x]]
  <2> HIDE DEF n, m
  <2>1. /\ rest \in [i + 1 .. n -> 0 .. m] /\ rest[i + 1] = k - 1 /\ rest[n] = m
        /\ \A x \in i + 2 .. n : /\ rest[x - 1] <= rest[x]
                                /\ PieceFits(P, T, i + 2, x, rest[x - 1], rest[x])
    <3>1. i + 2 - 1 = i + 1
      BY <1>0
    <3> QED  BY <3>1, <1>2 DEF IsCut, n, m
  <2>2. /\ j - 1 \in 0 .. m /\ k - 1 \in 0 .. m /\ j - 1 <= k - 1 /\ k - 1 <= k - 1
    BY <1>0
  <2>3. \A x \in i + 1 .. n : x \in i - 1 .. n /\ x # i - 1 /\ x # i
    BY <1>0
  <2>4. cut \in [i - 1 .. n -> 0 .. m]
    <3>1. \A x \in i - 1 .. n : x # i - 1 /\ x # i => x \in i + 1 .. n
      BY <1>0
    <3> QED  BY <2>1, <2>2, <3>1
  <2>5. cut[i - 1] = j - 1 /\ cut[i] = k - 1 /\ \A x \in i + 1 .. n : cut[x] = rest[x]
    <3>1. i - 1 \in i - 1 .. n /\ i \in i - 1 .. n /\ i # i - 1
      BY <1>0
    <3> QED  BY <2>3, <3>1
  <2> HIDE DEF cut
  <2>6. cut[n] = m /\ cut[i + 1] = k - 1
    <3>1. n \in i + 1 .. n /\ i + 1 \in i + 1 .. n
      BY <1>0
    <3> QED  BY <2>1, <2>5, <3>1
  <2>7. ASSUME NEW x \in i .. n
        PROVE  cut[x - 1] <= cut[x] /\ PieceFits(P, T, i, x, cut[x - 1], cut[x])
    <3>1. CASE x = i
      <4>1. PieceFits(P, T, i, i, j - 1, k - 1)
        BY DEF PieceFits
      <4> QED  BY <3>1, <4>1, <2>2, <2>5
    <3>2. CASE x = i + 1
      <4>1. PieceFits(P, T, i, i + 1, k - 1, k - 1)
        <5>1. i + 1 > i /\ i + 1 - 1 = i
          BY <1>0
        <5> QED  BY <5>1 DEF PieceFits
      <4>2. x - 1 = i
        BY <3>2, <1>0
      <4> QED  BY <3>2, <4>1, <4>2, <2>2, <2>5, <2>6
    <3>3. CASE x # i /\ x # i + 1
      <4>1. /\ x \in i + 2 .. n /\ x \in i + 1 .. n /\ x - 1 \in i + 1 .. n
            /\ x \in Nat /\ i + 2 <= x /\ i + 2 \in Nat /\ i \in Nat /\ i <= i + 2
        BY <1>0, <3>3
      <4>2. cut[x] = rest[x] /\ cut[x - 1] = rest[x - 1]
        BY <4>1, <2>5
      <4>3. PieceFits(P, T, i, x, rest[x - 1], rest[x])
        BY <2>1, <4>1, PieceFrom
      <4> QED  BY <2>1, <4>1, <4>2, <4>3
    <3> QED  BY <3>1, <3>2, <3>3
  <2>8. IsCut(cut, P, T, i, j)
    BY <2>4, <2>5, <2>6, <2>7 DEF IsCut, n, m
  <2> QED  BY <2>8 DEF FitsFrom
<1> QED  BY <1>1, <1>2 DEF FitsFrom

\* An entry of the matcher's table, from those after it.
Entry(g, P, T, i, j) ==
  IF i > Len(P) THEN j > Len(T)
  ELSE IF P[i] = "*"
  THEN LET double == i < Len(P) /\ P[i + 1] = "*"
           rest == IF double THEN i + 2 ELSE i + 1
       IN  \E k \in j .. Len(T) + 1 :
             /\ double \/ \A l \in j .. k - 1 : T[l] # "/"
             /\ g[rest][k]
  ELSE /\ j <= Len(T)
       /\ IF P[i] = "?" THEN T[j] # "/" ELSE P[i] = T[j]
       /\ g[i + 1][j + 1]

IsTable(g, P, T) == g = [i \in 1 .. Len(P) + 1 |-> [j \in 1 .. Len(T) + 1 |-> Entry(g, P, T, i, j)]]

LEMMA MatchTable ==
  ASSUME NEW P, NEW T
  PROVE  WildcardMatch(P, T) = (CHOOSE g : IsTable(g, P, T))[1][1]
BY Zenon DEF WildcardMatch, IsTable, Entry

LEMMA EntryMeans ==
  ASSUME NEW P \in Seq(Characters), NEW T \in Seq(Characters),
         NEW i \in 1 .. Len(P) + 1, NEW j \in 1 .. Len(T) + 1, NEW g,
         \A x \in i + 1 .. Len(P) + 1 : \A y \in 1 .. Len(T) + 1 : g[x][y] = FitsFrom(P, T, x, y)
  PROVE  Entry(g, P, T, i, j) <=> FitsFrom(P, T, i, j)
<1> DEFINE n == Len(P)
           m == Len(T)
<1>0. n \in Nat /\ m \in Nat /\ i \in 1 .. n + 1 /\ j \in 1 .. m + 1
  OBVIOUS
<1> HIDE DEF n, m
<1>1. \A x \in i + 1 .. n + 1 : \A y \in 1 .. m + 1 : g[x][y] = FitsFrom(P, T, x, y)
  BY DEF n, m
<1>2. CASE i = n + 1
  <2>1. i > n
    BY <1>0, <1>2
  <2> QED  BY <2>1, <1>2, EndFits DEF Entry, n, m
<1>3. CASE i \in 1 .. n /\ P[i] # "*"
  <2>1. Entry(g, P, T, i, j) <=> j <= m /\ OneFits(P[i], T[j]) /\ g[i + 1][j + 1]
    <3>1. ~ (i > n)
      BY <1>0, <1>3
    <3> QED  BY <3>1, <1>3 DEF Entry, OneFits, n, m
  <2>2. FitsFrom(P, T, i, j) <=>
          \E k \in j .. m + 1 : PieceFits(P, T, i, i, j - 1, k - 1) /\ FitsFrom(P, T, i + 1, k)
    BY <1>3, SingleFits DEF n, m
  <2>3. ASSUME NEW k \in j .. m + 1
        PROVE  PieceFits(P, T, i, i, j - 1, k - 1) <=> k = j + 1 /\ OneFits(P[i], T[j])
    <3>1. k - 1 = j - 1 + 1 <=> k = j + 1
      BY <1>0
    <3>2. k = j + 1 => k - 1 = j
      BY <1>0
    <3> QED  BY <3>1, <3>2, <1>3 DEF PieceFits
  <2>4. j <= m <=> j + 1 \in j .. m + 1
    BY <1>0
  <2>5. j <= m => g[i + 1][j + 1] = FitsFrom(P, T, i + 1, j + 1)
    <3>1. i + 1 \in i + 1 .. n + 1
      BY <1>0, <1>3
    <3>2. j <= m => j + 1 \in 1 .. m + 1
      BY <1>0
    <3> QED  BY <3>1, <3>2, <1>1
  <2> QED  BY <2>1, <2>2, <2>3, <2>4, <2>5
<1>4. CASE i \in 1 .. n /\ P[i] = "*" /\ ~ (i < n /\ P[i + 1] = "*")
  <2>1. Entry(g, P, T, i, j) <=>
          \E k \in j .. m + 1 : (\A l \in j .. k - 1 : T[l] # "/") /\ g[i + 1][k]
    <3>1. ~ (i > n)
      BY <1>0, <1>4
    <3> QED  BY <3>1, <1>4 DEF Entry, n, m
  <2>2. FitsFrom(P, T, i, j) <=>
          \E k \in j .. m + 1 : PieceFits(P, T, i, i, j - 1, k - 1) /\ FitsFrom(P, T, i + 1, k)
    BY <1>4, SingleFits DEF n, m
  <2>3. ASSUME NEW k \in j .. m + 1
        PROVE  PieceFits(P, T, i, i, j - 1, k - 1) <=> \A l \in j .. k - 1 : T[l] # "/"
    <3>1. j - 1 + 1 = j /\ ~ (i > i)
      BY <1>0
    <3> QED  BY <3>1, <1>4 DEF PieceFits, n
  <2>4. ASSUME NEW k \in j .. m + 1 PROVE g[i + 1][k] = FitsFrom(P, T, i + 1, k)
    <3>1. i + 1 \in i + 1 .. n + 1 /\ k \in 1 .. m + 1
      BY <1>0, <1>4
    <3> QED  BY <3>1, <1>1
  <2> QED  BY <2>1, <2>2, <2>3, <2>4
<1>5. CASE i \in 1 .. n /\ P[i] = "*" /\ i < n /\ P[i + 1] = "*"
  <2>1. Entry(g, P, T, i, j) <=> \E k \in j .. m + 1 : g[i + 2][k]
    <3>1. ~ (i > n)
      BY <1>0, <1>5
    <3> QED  BY <3>1, <1>5 DEF Entry, n, m
  <2>2. FitsFrom(P, T, i, j) <=> \E k \in j .. m + 1 : FitsFrom(P, T, i + 2, k)
    BY <1>5, DoubleFits DEF n, m
  <2>3. ASSUME NEW k \in j .. m + 1 PROVE g[i + 2][k] = FitsFrom(P, T, i + 2, k)
    <3>1. i + 2 \in i + 1 .. n + 1 /\ k \in 1 .. m + 1
      BY <1>0, <1>5
    <3> QED  BY <3>1, <1>1
  <2> QED  BY <2>1, <2>2, <2>3
<1>6. i = n + 1 \/ i \in 1 .. n
  BY <1>0
<1> QED  BY <1>2, <1>3, <1>4, <1>5, <1>6

LEMMA EntryBoolean ==
  ASSUME NEW P, NEW T \in Seq(Characters), NEW i, NEW j \in Nat, NEW g
  PROVE  Entry(g, P, T, i, j) \in BOOLEAN
<1>1. CASE i > Len(P)
  <2>1. Entry(g, P, T, i, j) = (j > Len(T))
    BY <1>1, Zenon DEF Entry
  <2>2. (j > Len(T)) \in BOOLEAN
    OBVIOUS
  <2> QED  BY <2>1, <2>2, Zenon
<1>2. CASE ~ (i > Len(P)) /\ P[i] = "*"
  BY <1>2, Zenon DEF Entry
<1>3. CASE ~ (i > Len(P)) /\ P[i] # "*"
  BY <1>3, Zenon DEF Entry
<1> QED  BY <1>1, <1>2, <1>3

LEMMA EntryFits ==
  ASSUME NEW P \in Seq(Characters), NEW T \in Seq(Characters),
         NEW i \in 1 .. Len(P) + 1, NEW j \in 1 .. Len(T) + 1, NEW g,
         \A x \in i + 1 .. Len(P) + 1 : \A y \in 1 .. Len(T) + 1 : g[x][y] = FitsFrom(P, T, x, y)
  PROVE  Entry(g, P, T, i, j) = FitsFrom(P, T, i, j)
<1>1. Entry(g, P, T, i, j) <=> FitsFrom(P, T, i, j)
  BY EntryMeans
<1>2. FitsFrom(P, T, i, j) \in BOOLEAN
  BY DEF FitsFrom
<1>3. Entry(g, P, T, i, j) \in BOOLEAN
  BY EntryBoolean
<1> QED  BY <1>1, <1>2, <1>3, Zenon

\* There is a table, and in every table an entry says whether the text fits.
LEMMA TableFits ==
  ASSUME NEW P \in Seq(Characters), NEW T \in Seq(Characters)
  PROVE  /\ \E g : IsTable(g, P, T)
         /\ \A g : IsTable(g, P, T) => g[1][1] = FitsFrom(P, T, 1, 1)
<1> DEFINE n == Len(P)
           m == Len(T)
<1>0. n \in Nat /\ m \in Nat
  OBVIOUS
<1>1. \E g : IsTable(g, P, T)
  <2> DEFINE g == [i \in 1 .. n + 1 |-> [j \in 1 .. m + 1 |-> FitsFrom(P, T, i, j)]]
  <2>1. \A i \in 1 .. n + 1 : \A j \in 1 .. m + 1 : g[i][j] = FitsFrom(P, T, i, j)
    OBVIOUS
  <2> HIDE DEF g, n, m
  <2>2. ASSUME NEW i \in 1 .. n + 1, NEW j \in 1 .. m + 1
        PROVE  Entry(g, P, T, i, j) = FitsFrom(P, T, i, j)
    <3>1. \A x \in i + 1 .. n + 1 : x \in 1 .. n + 1
      BY <1>0
    <3> QED  BY <2>1, <3>1, EntryFits DEF n, m
  <2>3. [i \in 1 .. n + 1 |-> [j \in 1 .. m + 1 |-> Entry(g, P, T, i, j)]] =
        [i \in 1 .. n + 1 |-> [j \in 1 .. m + 1 |-> FitsFrom(P, T, i, j)]]
    BY <2>2, Zenon
  <2> QED  BY <2>3 DEF IsTable, g, n, m
<1>2. ASSUME NEW g, IsTable(g, P, T) PROVE g[1][1] = FitsFrom(P, T, 1, 1)
  <2> DEFINE wrong == {x \in 0 .. n : \E j \in 1 .. m + 1 :
                         g[n + 1 - x][j] # FitsFrom(P, T, n + 1 - x, j)}
  <2>1. ASSUME NEW i \in 1 .. n + 1, NEW j \in 1 .. m + 1 PROVE g[i][j] = Entry(g, P, T, i, j)
    <3>1. g = [x \in 1 .. n + 1 |-> [y \in 1 .. m + 1 |-> Entry(g, P, T, x, y)]]
      BY <1>2, Zenon DEF IsTable
    <3>2. g[i] = [y \in 1 .. m + 1 |-> Entry(g, P, T, i, y)]
      BY <3>1, Zenon
    <3> QED  BY <3>2, Zenon
  <2> HIDE DEF n, m
  <2>2. ASSUME wrong # {} PROVE FALSE
    <3>1. PICK x \in wrong : \A y \in wrong : x <= y
      <4>1. wrong \subseteq Nat
        BY <1>0
      <4> HIDE DEF wrong
      <4> QED  BY <4>1, <2>2, Least
    <3>2. PICK j \in 1 .. m + 1 : g[n + 1 - x][j] # FitsFrom(P, T, n + 1 - x, j)
      OBVIOUS
    <3>3. x \in 0 .. n /\ n + 1 - x \in 1 .. n + 1
      BY <1>0
    <3>4. ASSUME NEW z \in n + 1 - x + 1 .. n + 1, NEW y \in 1 .. m + 1
          PROVE  g[z][y] = FitsFrom(P, T, z, y)
      <4>1. n + 1 - z \in 0 .. n /\ n + 1 - (n + 1 - z) = z /\ ~ (x <= n + 1 - z)
        BY <1>0, <3>3
      <4> QED  BY <4>1, <3>1
    <3>5. Entry(g, P, T, n + 1 - x, j) = FitsFrom(P, T, n + 1 - x, j)
      BY ZenonT(60), <3>3, <3>4, EntryFits DEF n, m
    <3>6. g[n + 1 - x][j] = Entry(g, P, T, n + 1 - x, j)
      BY <2>1, <3>3
    <3> HIDE DEF wrong
    <3> QED  BY <3>2, <3>5, <3>6
  <2>3. n \in 0 .. n /\ n + 1 - n = 1 /\ 1 \in 1 .. m + 1
    BY <1>0
  <2> QED  BY <2>2, <2>3
<1> QED  BY <1>1, <1>2

\* The matcher accepts what the pattern means.
LEMMA MatchFits ==
  ASSUME NEW P \in Seq(Characters), NEW T \in Seq(Characters)
  PROVE  WildcardMatch(P, T) <=> Fits(P, T)
<1>1. IsTable(CHOOSE g : IsTable(g, P, T), P, T)
  BY TableFits, Zenon
<1>2. (CHOOSE g : IsTable(g, P, T))[1][1] = FitsFrom(P, T, 1, 1)
  BY <1>1, TableFits, Zenon
<1> QED  BY <1>2, MatchTable, FitsMeans, Zenon

-----------------------------------------------------------------------------

\* RulesExact: of the rules that match a path the last of the deepest directory
\* decides, and a rule matches the texts its pattern means.
THEOREM RulesAlwaysExact == ScanSpec => []RulesExact
<1>1. ScanInv => DeepestDecides
  <2>1. ASSUME ScanInv, rules # NoRules, NEW root \in Roots, NEW e \in Entries, NEW isDirectory,
               NEW r \in LastIn(DeepestIn(HitRules(rules[root], e, isDirectory))),
               \A q \in LastIn(DeepestIn(HitRules(rules[root], e, isDirectory))) :
                 q.negated = r.negated
        PROVE  Ignores(rules[root], e, isDirectory) <=> ~r.negated
    <3>1. Files /\ Ordered(rules[root], root) /\ e \in Path
      BY <2>1, TreeAssumption DEF ScanInv, TreeAssumption
    <3> QED  BY <2>1, <3>1, DeepestOf
  <2> QED  BY <2>1 DEF DeepestDecides, HitRules, DeepestIn, LastIn
<1>2. ScanInv => WildcardsExact
  <2>1. ASSUME ScanInv, rules # NoRules, NEW root \in Roots, NEW k \in DOMAIN rules[root],
               NEW e \in Entries
        PROVE  WildcardMatch(rules[root][k].rule.pattern, Joined(e))
                 <=> Fits(rules[root][k].rule.pattern, Joined(e))
    <3>1. Files /\ Ordered(rules[root], root)
      BY <2>1 DEF ScanInv
    <3>2. rules[root][k].rule.pattern \in Seq(Characters)
      <4>1. WellTyped(rules[root][k].rule)
        BY <3>1, OrderedRules
      <4> QED  BY <4>1 DEF WellTyped
    <3>3. Joined(e) \in Seq(Characters)
      BY JoinedType, TreeAssumption DEF TreeAssumption
    <3> QED  BY <3>2, <3>3, MatchFits
  <2> QED  BY <2>1 DEF WildcardsExact
<1>3. ScanInv => RulesExact
  BY <1>1, <1>2 DEF RulesExact
<1> QED  BY <1>3, ScanAlways, PTL

-----------------------------------------------------------------------------
(* Counting quotes. *)

LEMMA CornerQuotes == Corner.open # Corner.close /\ Corner.open \in Char /\ Corner.close \in Char
BY DEF Corner, Char

LEMMA CountFacts ==
  ASSUME NEW text \in Seq(Char), NEW i \in Nat, NEW k \in Nat, NEW char
  PROVE  /\ Count(text, i, k, char) \in Nat
         /\ k + 1 < i => Count(text, i, k + 1, char) = 0
         /\ i <= k + 1 =>
              Count(text, i, k + 1, char) = Count(text, i, k, char) + IF text[k + 1] = char THEN 1 ELSE 0
         /\ k < i => Count(text, i, k, char) = 0
<1> DEFINE X(m) == {x \in i .. m : text[x] = char}
<1>1. ASSUME NEW m \in Nat PROVE IsFiniteSet(X(m)) /\ Cardinality(X(m)) \in Nat
  <2>1. IsFiniteSet(i .. m) /\ X(m) \subseteq i .. m
    BY FS_Interval
  <2> HIDE DEF X
  <2>2. IsFiniteSet(X(m))
    BY <2>1, FS_Subset
  <2> QED  BY <2>2, FS_CardinalityType
<1>2. ASSUME NEW m \in Nat PROVE Count(text, i, m, char) = Cardinality(X(m))
  BY DEF Count
<1>3. ASSUME NEW m \in Nat, m < i PROVE Cardinality(X(m)) = 0
  <2>1. X(m) = {}
    BY <1>3
  <2> QED  BY <2>1, FS_EmptySet
<1>4. ASSUME i <= k + 1, text[k + 1] = char PROVE Cardinality(X(k + 1)) = Cardinality(X(k)) + 1
  <2>1. X(k + 1) = X(k) \cup {k + 1} /\ k + 1 \notin X(k)
    BY <1>4
  <2> HIDE DEF X
  <2> QED  BY <1>1, <2>1, FS_AddElement
<1>5. ASSUME i <= k + 1, text[k + 1] # char PROVE Cardinality(X(k + 1)) = Cardinality(X(k))
  <2>1. X(k + 1) = X(k)
    BY <1>5
  <2> QED  BY <2>1
<1>6. k + 1 \in Nat
  OBVIOUS
<1> HIDE DEF X
<1>7. Cardinality(X(k)) \in Nat
  BY <1>1
<1> QED  BY <1>2, <1>3, <1>4, <1>5, <1>6, <1>7

\* How many of the quotes opened from position i on are open after position k.
Depth(text, i, k) ==
  Count(text, i, k, Corner.open) - Count(text, i, k, Corner.close)

LEMMA DepthMeans ==
  ASSUME NEW text \in Seq(Char), NEW i \in Nat, NEW k \in Nat
  PROVE  /\ Depth(text, i, k) \in Int
         /\ Depth(text, i, k) >= 1 <=>
              Count(text, i, k, Corner.open) > Count(text, i, k, Corner.close)
         /\ k < i => Depth(text, i, k) = 0
<1> DEFINE o == Count(text, i, k, Corner.open)
           c == Count(text, i, k, Corner.close)
<1>1. o \in Nat /\ c \in Nat /\ (k < i => o = 0 /\ c = 0)
  BY CountFacts
<1>2. Depth(text, i, k) = o - c
  BY DEF Depth
<1> HIDE DEF o, c
<1>3. o - c \in Int /\ (o - c >= 1 <=> o > c) /\ (k < i => o - c = 0)
  BY <1>1
<1> QED  BY <1>2, <1>3 DEF o, c

LEMMA DepthStep ==
  ASSUME NEW text \in Seq(Char), NEW i \in Nat, NEW k \in Nat \ {0}, i <= k
  PROVE  Depth(text, i, k) =
           Depth(text, i, k - 1) + IF text[k] = Corner.open THEN 1
                                   ELSE IF text[k] = Corner.close THEN 0 - 1 ELSE 0
<1>1. PICK m \in Nat : k = m + 1 /\ k - 1 = m
  <2>1. k - 1 \in Nat /\ k = (k - 1) + 1
    OBVIOUS
  <2> QED  BY <2>1
<1> DEFINE o == Count(text, i, m, Corner.open)
           c == Count(text, i, m, Corner.close)
           p == Count(text, i, k, Corner.open)
           d == Count(text, i, k, Corner.close)
<1>2. o \in Nat /\ c \in Nat
  BY CountFacts
<1>3. /\ Count(text, i, m + 1, Corner.open) = o + IF text[m + 1] = Corner.open THEN 1 ELSE 0
      /\ Count(text, i, m + 1, Corner.close) = c + IF text[m + 1] = Corner.close THEN 1 ELSE 0
  BY <1>1, CountFacts
<1>4. /\ p = o + IF text[k] = Corner.open THEN 1 ELSE 0
      /\ d = c + IF text[k] = Corner.close THEN 1 ELSE 0
  BY <1>1, <1>3
<1>5. Depth(text, i, k - 1) = o - c /\ Depth(text, i, k) = p - d
  BY <1>1 DEF Depth
<1> HIDE DEF o, c, p, d
<1> QED  BY <1>2, <1>4, <1>5, CornerQuotes

\* Position i has a quote that none up to position n closes.
Unclosed(text, i, n) ==
  /\ i \in 1 .. n /\ text[i] = Corner.open
  /\ \A k \in i .. n : Depth(text, i, k) >= 1

\* A quote that is open after n - 1 characters is open after the next one, unless
\* that closes it; another one can only be the next one.
LEMMA UnclosedStep ==
  ASSUME NEW text \in Seq(Char), NEW n \in Nat \ {0}, NEW i \in 1 .. n
  PROVE  Unclosed(text, i, n) <=>
           IF i = n THEN text[n] = Corner.open
           ELSE Unclosed(text, i, n - 1) /\ Depth(text, i, n) >= 1
<1>1. CASE i = n
  <2>1. n - 1 \in Nat /\ n - 1 < n /\ n <= n /\ n \in Nat
    OBVIOUS
  <2>2. Depth(text, n, n - 1) = 0
    BY <2>1, DepthMeans
  <2>3. text[n] = Corner.open => Depth(text, n, n) = Depth(text, n, n - 1) + 1
    BY <2>1, DepthStep
  <2>4. text[n] = Corner.open => Depth(text, n, n) >= 1
    BY <2>2, <2>3
  <2>5. n .. n = {n} /\ n \in 1 .. n
    OBVIOUS
  <2> QED  BY <1>1, <2>4, <2>5 DEF Unclosed
<1>2. CASE i # n
  <2>1. i \in 1 .. n - 1 /\ i .. n = (i .. n - 1) \cup {n}
    BY <1>2
  <2> QED  BY <1>2, <2>1 DEF Unclosed
<1> QED  BY <1>1, <1>2

\* The opening quote at the start is open at the end unless one is its partner.
LEMMA FirstUnclosed ==
  ASSUME NEW text \in Seq(Char), NEW n \in Nat \ {0}
  PROVE  Unclosed(text, 1, n) <=>
           text[1] = Corner.open /\ \A j \in 2 .. n : ~Partners(text, 1, j)
<1>0. ASSUME NEW k \in Nat
      PROVE  /\ Depth(text, 1, k) \in Int
             /\ Depth(text, 1, k) >= 1 <=>
                  Count(text, 1, k, Corner.open) > Count(text, 1, k, Corner.close)
  BY DepthMeans
<1>1. ASSUME Unclosed(text, 1, n), NEW j \in 2 .. n PROVE ~Partners(text, 1, j)
  <2>1. Depth(text, 1, j) >= 1 /\ j \in 1 .. j /\ j \in Nat
    BY <1>1 DEF Unclosed
  <2>2. Count(text, 1, j, Corner.open) > Count(text, 1, j, Corner.close)
    BY <1>0, <2>1
  <2> QED  BY <2>1, <2>2 DEF Partners
<1>2. ASSUME text[1] = Corner.open, ~Unclosed(text, 1, n) PROVE \E j \in 2 .. n : Partners(text, 1, j)
  <2> DEFINE T == {k \in 1 .. n : ~(Depth(text, 1, k) >= 1)}
  <2>1. T \subseteq Nat /\ T # {}
    BY <1>2 DEF Unclosed
  <2>2. PICK j \in T : \A k \in T : j <= k
    <3> HIDE DEF T
    <3> QED  BY <2>1, Least
  <2>3. j \in 1 .. n /\ ~(Depth(text, 1, j) >= 1) /\ \A k \in 1 .. j - 1 : Depth(text, 1, k) >= 1
    BY <2>2
  <2> HIDE DEF T
  <2>4. j # 1
    <3>1. Depth(text, 1, 1 - 1) = 0 /\ Depth(text, 1, 1) = Depth(text, 1, 1 - 1) + 1
      <4>1. 1 - 1 \in Nat /\ 1 - 1 < 1
        OBVIOUS
      <4> QED  BY <1>2, <4>1, DepthMeans, DepthStep
    <3>2. Depth(text, 1, 1) >= 1
      BY <3>1
    <3> QED  BY <2>3, <3>2
  <2>5. j - 1 \in 1 .. j - 1 /\ j - 1 \in Nat /\ 1 <= j /\ j \in Nat \ {0}
    BY <2>3, <2>4
  <2>6. Depth(text, 1, j - 1) >= 1 /\ Depth(text, 1, j - 1) \in Int
    BY <1>0, <2>3, <2>5
  <2>7. text[j] = Corner.close
    <3> SUFFICES ASSUME text[j] # Corner.close PROVE FALSE
      OBVIOUS
    <3>1. Depth(text, 1, j) = Depth(text, 1, j - 1) + IF text[j] = Corner.open THEN 1
                                   ELSE IF text[j] = Corner.close THEN 0 - 1 ELSE 0
      BY <2>5, DepthStep
    <3> QED  BY <2>3, <2>6, <3>1
  <2>8. \A k \in 1 .. j : Count(text, 1, k, Corner.open) > Count(text, 1, k, Corner.close) <=> k # j
    <3> SUFFICES ASSUME NEW k \in 1 .. j
                 PROVE  Count(text, 1, k, Corner.open) > Count(text, 1, k, Corner.close) <=> k # j
      OBVIOUS
    <3>1. Depth(text, 1, k) >= 1 <=> k # j
      BY <2>3, <2>5
    <3>2. k \in Nat
      OBVIOUS
    <3> HIDE <2>3, <2>6
    <3> QED  BY <1>0, <3>1, <3>2
  <2>9. j \in 2 .. n /\ 1 < j
    BY <2>3, <2>4
  <2> QED  BY <1>2, <2>7, <2>8, <2>9 DEF Partners
<1>3. Unclosed(text, 1, n) => text[1] = Corner.open
  BY DEF Unclosed
<1> QED  BY <1>1, <1>2, <1>3

\* What the stack of check_valid holds after n characters: the positions of the
\* quotes that are open, each below those opened after it.
StackOf(st, text, n) ==
  /\ st \in Seq(Nat)
  /\ \A i, j \in 1 .. Len(st) : i < j => st[i] < st[j]
  /\ \A j \in 1 .. n : Unclosed(text, j, n) <=> \E i \in 1 .. Len(st) : st[i] = j
  /\ \A i \in 1 .. Len(st) : st[i] \in 1 .. n /\ Depth(text, st[i], n) = Len(st) - i + 1

Pushed(st, text, n) ==
  IF text[n] = Corner.open THEN Append(st, n)
  ELSE IF text[n] = Corner.close /\ st # << >> THEN Front(st)
  ELSE st

LEMMA BeginningOf ==
  ASSUME NEW st \in Seq(Nat), NEW i \in 1 .. Len(st)
  PROVE  /\ SubSeq(st, 1, i - 1) \in Seq(Nat) /\ Len(SubSeq(st, 1, i - 1)) = i - 1
         /\ \A j \in 1 .. i - 1 : SubSeq(st, 1, i - 1)[j] = st[j]
OBVIOUS

LEMMA FrontFacts ==
  ASSUME NEW st \in Seq(Nat), st # << >>
  PROVE  /\ Front(st) \in Seq(Nat) /\ Len(Front(st)) = Len(st) - 1
         /\ \A i \in 1 .. Len(st) - 1 : Front(st)[i] = st[i]
         /\ Last(st) = st[Len(st)] /\ Len(st) \in 1 .. Len(st)
<1>1. Len(st) \in Nat \ {0} /\ Len(st) \in 1 .. Len(st)
  OBVIOUS
<1>2. Front(st) = SubSeq(st, 1, Len(st) - 1) /\ Last(st) = st[Len(st)]
  BY DEF Front, Last
<1>3. /\ SubSeq(st, 1, Len(st) - 1) \in Seq(Nat) /\ Len(SubSeq(st, 1, Len(st) - 1)) = Len(st) - 1
      /\ \A i \in 1 .. Len(st) - 1 : SubSeq(st, 1, Len(st) - 1)[i] = st[i]
  BY <1>1, BeginningOf
<1> QED  BY <1>1, <1>2, <1>3

LEMMA StackStep ==
  ASSUME NEW text \in Seq(Char), NEW n \in 1 .. Len(text), NEW st, StackOf(st, text, n - 1)
  PROVE  StackOf(Pushed(st, text, n), text, n)
<1>1. /\ n \in Nat \ {0} /\ n - 1 \in Nat
      /\ st \in Seq(Nat) /\ Len(st) \in Nat
  BY DEF StackOf
<1>2. /\ \A i, j \in 1 .. Len(st) : i < j => st[i] < st[j]
      /\ \A j \in 1 .. n - 1 : Unclosed(text, j, n - 1) <=> \E i \in 1 .. Len(st) : st[i] = j
      /\ \A i \in 1 .. Len(st) : st[i] \in 1 .. n - 1 /\ st[i] \in Nat
                                 /\ Depth(text, st[i], n - 1) = Len(st) - i + 1
  BY <1>1 DEF StackOf
<1>3. ASSUME NEW j \in 1 .. n - 1
      PROVE  /\ Unclosed(text, j, n) <=> Unclosed(text, j, n - 1) /\ Depth(text, j, n) >= 1
             /\ Unclosed(text, j, n - 1) => Depth(text, j, n - 1) >= 1
             /\ Depth(text, j, n - 1) \in Int
             /\ text[n] = Corner.open => Depth(text, j, n) = Depth(text, j, n - 1) + 1
             /\ text[n] = Corner.close => Depth(text, j, n) = Depth(text, j, n - 1) - 1
             /\ text[n] \notin {Corner.open, Corner.close} => Depth(text, j, n) = Depth(text, j, n - 1)
  <2>1. j \in 1 .. n /\ j # n /\ j \in Nat /\ j <= n /\ n - 1 \in j .. n - 1
    BY <1>1
  <2>2. Unclosed(text, j, n) <=> Unclosed(text, j, n - 1) /\ Depth(text, j, n) >= 1
    BY <1>1, <2>1, UnclosedStep
  <2>3. Unclosed(text, j, n - 1) => Depth(text, j, n - 1) >= 1
    BY <2>1 DEF Unclosed
  <2>4. Depth(text, j, n - 1) \in Int
    BY <1>1, <2>1, DepthMeans
  <2>5. Depth(text, j, n) = Depth(text, j, n - 1) + IF text[n] = Corner.open THEN 1
                                   ELSE IF text[n] = Corner.close THEN 0 - 1 ELSE 0
    BY <1>1, <2>1, DepthStep
  <2>6. /\ text[n] = Corner.open => Depth(text, j, n) = Depth(text, j, n - 1) + 1
        /\ text[n] = Corner.close => Depth(text, j, n) = Depth(text, j, n - 1) - 1
        /\ text[n] \notin {Corner.open, Corner.close} => Depth(text, j, n) = Depth(text, j, n - 1)
    BY <2>4, <2>5, CornerQuotes
  <2> QED  BY <2>2, <2>3, <2>4, <2>6
<1>4. Unclosed(text, n, n) <=> text[n] = Corner.open
  BY <1>1, UnclosedStep
<1>5. ASSUME NEW j \in 1 .. n PROVE j = n \/ j \in 1 .. n - 1
  BY <1>1
<1>6. CASE text[n] = Corner.open
  <2> DEFINE s == Append(st, n)
  <2>1. /\ s \in Seq(Nat) /\ Len(s) = Len(st) + 1 /\ s[Len(st) + 1] = n
        /\ \A i \in 1 .. Len(st) : s[i] = st[i]
    BY <1>1
  <2> HIDE DEF s
  <2>2. \A i \in 1 .. Len(s) : i = Len(st) + 1 \/ i \in 1 .. Len(st)
    BY <1>1, <2>1
  <2>3. \A i, j \in 1 .. Len(s) : i < j => s[i] < s[j]
    <3> SUFFICES ASSUME NEW i \in 1 .. Len(s), NEW j \in 1 .. Len(s), i < j PROVE s[i] < s[j]
      OBVIOUS
    <3>1. i \in 1 .. Len(st) /\ (j = Len(st) + 1 \/ j \in 1 .. Len(st))
      <4>1. Len(st) \in Nat /\ Len(s) = Len(st) + 1 /\ i \in Nat /\ j \in Nat
        BY <1>1, <2>1
      <4>2. i # Len(st) + 1
        BY <4>1
      <4> QED  BY <2>2, <4>2
    <3>2. s[i] = st[i] /\ st[i] < n
      <4>1. st[i] \in 1 .. n - 1 /\ s[i] = st[i]
        BY <1>2, <2>1, <3>1
      <4> QED  BY <1>1, <4>1
    <3> QED  BY <1>2, <2>1, <3>1, <3>2
  <2>4. ASSUME NEW j \in 1 .. n PROVE Unclosed(text, j, n) <=> \E i \in 1 .. Len(s) : s[i] = j
    <3>1. CASE j = n
      <4>1. Len(st) + 1 \in 1 .. Len(s)
        BY <1>1, <2>1
      <4> QED  BY <1>4, <1>6, <2>1, <3>1, <4>1
    <3>2. CASE j \in 1 .. n - 1
      <4>1. Unclosed(text, j, n) <=> Unclosed(text, j, n - 1)
        BY <1>3, <1>6, <3>2
      <4>2. (\E i \in 1 .. Len(st) : st[i] = j) <=> \E i \in 1 .. Len(s) : s[i] = j
        <5>1. j # n
          BY <1>1, <3>2
        <5>2. \A i \in 1 .. Len(st) : i \in 1 .. Len(s)
          BY <1>1, <2>1
        <5> QED  BY <2>1, <2>2, <5>1, <5>2
      <4> QED  BY <1>2, <3>2, <4>1, <4>2
    <3> QED  BY <1>5, <3>1, <3>2
  <2>5. ASSUME NEW i \in 1 .. Len(s)
        PROVE  s[i] \in 1 .. n /\ Depth(text, s[i], n) = Len(s) - i + 1
    <3>1. CASE i = Len(st) + 1
      <4>1. n - 1 < n /\ n <= n /\ n \in Nat /\ n - 1 \in Nat
        BY <1>1
      <4>2. Depth(text, n, n - 1) = 0
        BY <4>1, DepthMeans
      <4>3. Depth(text, n, n) = Depth(text, n, n - 1) + 1
        BY <1>1, <1>6, <4>1, DepthStep
      <4>4. Depth(text, n, n) = 1 /\ s[i] = n /\ n \in 1 .. n
        BY <1>1, <2>1, <3>1, <4>2, <4>3
      <4>5. Len(s) - i + 1 = 1
        BY <1>1, <2>1, <3>1
      <4> QED  BY <4>4, <4>5
    <3>2. CASE i \in 1 .. Len(st)
      <4>1. s[i] = st[i] /\ st[i] \in 1 .. n - 1 /\ Depth(text, st[i], n - 1) = Len(st) - i + 1
        BY <1>2, <2>1, <3>2
      <4>2. Depth(text, st[i], n) = Depth(text, st[i], n - 1) + 1
        BY <1>3, <1>6, <4>1
      <4> QED  BY SMTT(60), <1>1, <2>1, <3>2, <4>1, <4>2
    <3> QED  BY <2>2, <3>1, <3>2
  <2>6. Pushed(st, text, n) = s
    BY <1>6 DEF Pushed, s
  <2> QED  BY <2>1, <2>3, <2>4, <2>5, <2>6 DEF StackOf
<1>7. CASE text[n] = Corner.close /\ st # << >>
  <2> DEFINE s == Front(st)
  <2>1. /\ s \in Seq(Nat) /\ Len(s) = Len(st) - 1 /\ Len(st) \in 1 .. Len(st)
        /\ \A i \in 1 .. Len(s) : s[i] = st[i]
    BY <1>1, <1>7, FrontFacts
  <2> HIDE DEF s
  <2>2. \A i \in 1 .. Len(s) : i \in 1 .. Len(st) /\ i # Len(st)
    BY <1>1, <2>1
  <2>3. \A i \in 1 .. Len(st) : i # Len(st) => i \in 1 .. Len(s)
    BY <1>1, <2>1
  <2>4. \A i, j \in 1 .. Len(s) : i < j => s[i] < s[j]
    BY <1>2, <2>1, <2>2
  <2>5. ASSUME NEW i \in 1 .. Len(st) PROVE Depth(text, st[i], n) = Len(st) - i
    <3>1. st[i] \in 1 .. n - 1 /\ Depth(text, st[i], n - 1) = Len(st) - i + 1
      BY <1>2
    <3>2. Depth(text, st[i], n) = Depth(text, st[i], n - 1) - 1
      BY <1>3, <1>7, <3>1
    <3> QED  BY <1>1, <3>1, <3>2
  <2>6. ASSUME NEW j \in 1 .. n PROVE Unclosed(text, j, n) <=> \E i \in 1 .. Len(s) : s[i] = j
    <3>1. CASE j = n
      <4>1. ~Unclosed(text, j, n)
        BY <1>4, <1>7, <3>1, CornerQuotes
      <4>2. \A i \in 1 .. Len(s) : s[i] \in 1 .. n - 1
        BY <1>2, <2>1, <2>2
      <4>3. n \notin 1 .. n - 1
        BY <1>1
      <4> QED  BY <3>1, <4>1, <4>2, <4>3
    <3>2. CASE j \in 1 .. n - 1
      <4>1. ASSUME NEW i \in 1 .. Len(st), st[i] = j
            PROVE  Depth(text, j, n) >= 1 <=> i \in 1 .. Len(s)
        <5>1. Depth(text, j, n) = Len(st) - i /\ i \in Nat
          BY <2>5, <4>1
        <5> QED  BY <1>1, <2>1, <5>1
      <4>2. ASSUME Unclosed(text, j, n) PROVE \E i \in 1 .. Len(s) : s[i] = j
        <5>1. Unclosed(text, j, n - 1) /\ Depth(text, j, n) >= 1
          BY <1>3, <3>2, <4>2
        <5>2. PICK i \in 1 .. Len(st) : st[i] = j
          BY <1>2, <3>2, <5>1
        <5> QED  BY <2>1, <4>1, <5>1, <5>2
      <4>3. ASSUME NEW i \in 1 .. Len(s), s[i] = j PROVE Unclosed(text, j, n)
        <5>1. i \in 1 .. Len(st) /\ st[i] = j
          BY <2>1, <2>2, <4>3
        <5>2. Depth(text, j, n) >= 1
          BY <4>1, <5>1
        <5> QED  BY <1>2, <1>3, <3>2, <5>1, <5>2
      <4> QED  BY <4>2, <4>3
    <3> QED  BY <1>5, <3>1, <3>2
  <2>7. ASSUME NEW i \in 1 .. Len(s)
        PROVE  s[i] \in 1 .. n /\ Depth(text, s[i], n) = Len(s) - i + 1
    <3>1. i \in 1 .. Len(st) /\ s[i] = st[i] /\ st[i] \in 1 .. n - 1
      BY <1>2, <2>1, <2>2
    <3>2. Depth(text, s[i], n) = Len(st) - i
      BY <2>5, <3>1
    <3> QED  BY <1>1, <2>1, <3>1, <3>2
  <2>8. Pushed(st, text, n) = s
    BY <1>7, CornerQuotes DEF Pushed, s
  <2> QED  BY <2>1, <2>4, <2>6, <2>7, <2>8 DEF StackOf
<1>8. CASE text[n] # Corner.open /\ ~(text[n] = Corner.close /\ st # << >>)
  <2>1. \A i \in 1 .. Len(st) : text[n] \notin {Corner.open, Corner.close}
    BY <1>1, <1>8
  <2>2. ASSUME NEW j \in 1 .. n PROVE Unclosed(text, j, n) <=> \E i \in 1 .. Len(st) : st[i] = j
    <3>1. CASE j = n
      <4>1. \A i \in 1 .. Len(st) : st[i] # n
        BY <1>1, <1>2
      <4> QED  BY <1>4, <1>8, <3>1, <4>1
    <3>2. CASE j \in 1 .. n - 1
      <4>1. ASSUME Unclosed(text, j, n) PROVE \E i \in 1 .. Len(st) : st[i] = j
        BY <1>2, <1>3, <3>2, <4>1
      <4>2. ASSUME NEW i \in 1 .. Len(st), st[i] = j PROVE Unclosed(text, j, n)
        <5>1. Unclosed(text, j, n - 1) /\ Depth(text, j, n) = Depth(text, j, n - 1)
          BY <1>2, <1>3, <2>1, <3>2, <4>2
        <5> QED  BY <1>3, <3>2, <5>1
      <4> QED  BY <4>1, <4>2
    <3> QED  BY <1>5, <3>1, <3>2
  <2>3. ASSUME NEW i \in 1 .. Len(st)
        PROVE  st[i] \in 1 .. n /\ Depth(text, st[i], n) = Len(st) - i + 1
    <3>1. st[i] \in 1 .. n - 1 /\ Depth(text, st[i], n - 1) = Len(st) - i + 1
      BY <1>2
    <3>2. Depth(text, st[i], n) = Depth(text, st[i], n - 1)
      BY <1>3, <2>1, <3>1
    <3> QED  BY <1>1, <3>1, <3>2
  <2>4. Pushed(st, text, n) = st
    BY <1>8 DEF Pushed
  <2> QED  BY <1>1, <1>2, <2>2, <2>3, <2>4 DEF StackOf
<1> QED  BY <1>6, <1>7, <1>8

\* stack holds what check_valid's stack is after each of the first n characters.
Stacks(stack, text, n) ==
  stack = [m \in 0 .. n |->
             IF m = 0 THEN << >>
             ELSE IF text[m] = Corner.open THEN Append(stack[m - 1], m)
             ELSE IF text[m] = Corner.close /\ stack[m - 1] # << >> THEN Front(stack[m - 1])
             ELSE stack[m - 1]]

\* check_valid has such stacks: if it had none for some number of characters,
\* there would be a least such number.
LEMMA StacksExist ==
  ASSUME NEW text \in Seq(Char)
  PROVE  Stacks(OpenQuotes(text), text, Len(text))
<1> DEFINE T == {n \in Nat : ~ \E f : Stacks(f, text, n)}
<1>1. T = {}
  <2> SUFFICES ASSUME T # {} PROVE FALSE
    OBVIOUS
  <2>1. PICK m \in T : \A n \in T : m <= n
    <3>1. T \subseteq Nat
      OBVIOUS
    <3> HIDE DEF T
    <3> QED  BY <3>1, Least
  <2>2. m \in Nat /\ ~ \E f : Stacks(f, text, m)
    OBVIOUS
  <2>3. CASE m = 0
    <3> DEFINE g == [i \in 0 .. 0 |-> << >>]
    <3>1. Stacks(g, text, 0)
      BY DEF Stacks
    <3> QED  BY <2>2, <2>3, <3>1
  <2>4. CASE m # 0
    <3>1. m - 1 \in Nat /\ ~(m <= m - 1)
      BY <2>2, <2>4
    <3>2. m - 1 \notin T
      BY <2>1, <3>1
    <3>3. PICK f : Stacks(f, text, m - 1)
      BY <3>1, <3>2
    <3> DEFINE g == [i \in 0 .. m |-> IF i = m THEN Pushed(f[m - 1], text, m) ELSE f[i]]
    <3>4. ASSUME NEW i \in 0 .. m
          PROVE  g[i] = IF i = 0 THEN << >> ELSE Pushed(g[i - 1], text, i)
      <4>1. i = 0 => g[i] = << >>
        BY <2>2, <2>4, <3>3 DEF Stacks
      <4>2. ASSUME i # 0, i # m PROVE g[i] = Pushed(g[i - 1], text, i)
        <5>1. i \in 0 .. m - 1 /\ i - 1 \in 0 .. m /\ i - 1 # m
          BY <2>2, <4>2
        <5>2. g[i] = f[i] /\ g[i - 1] = f[i - 1]
          BY <4>2, <5>1
        <5> HIDE DEF g
        <5>3. f[i] = Pushed(f[i - 1], text, i)
          BY <3>3, <4>2, <5>1 DEF Stacks, Pushed
        <5> QED  BY <5>2, <5>3
      <4>3. i = m => g[i] = Pushed(g[i - 1], text, i)
        <5>1. m \in 0 .. m /\ m - 1 \in 0 .. m /\ m - 1 # m
          BY <2>2, <3>1
        <5>2. g[m] = Pushed(f[m - 1], text, m) /\ g[m - 1] = f[m - 1]
          BY <5>1
        <5> QED  BY <5>2
      <4> HIDE DEF g
      <4> QED  BY <4>1, <4>2, <4>3
    <3>5. g = [i \in 0 .. m |-> g[i]]
      OBVIOUS
    <3> HIDE DEF g
    <3>6. Stacks(g, text, m)
      BY <3>4, <3>5 DEF Stacks, Pushed
    <3> QED  BY <2>2, <3>6
  <2> QED  BY <2>3, <2>4
<1> DEFINE F == CHOOSE f : Stacks(f, text, Len(text))
<1>2. Len(text) \in Nat
  OBVIOUS
<1>3. \E f : Stacks(f, text, Len(text))
  BY <1>1, <1>2
<1>4. Stacks(F, text, Len(text))
  BY <1>3
<1>5. OpenQuotes(text) = F
  BY DEF OpenQuotes, Stacks
<1> QED  BY <1>4, <1>5

LEMMA StackFacts ==
  ASSUME NEW text \in Seq(Char), NEW n \in 0 .. Len(text)
  PROVE  StackOf(OpenQuotes(text)[n], text, n)
<1> DEFINE stack == OpenQuotes(text)
           T == {m \in 0 .. Len(text) : ~StackOf(stack[m], text, m)}
<1>1. Stacks(stack, text, Len(text))
  BY StacksExist
<1> HIDE DEF stack
<1>2. SUFFICES ASSUME T # {} PROVE FALSE
  BY DEF stack
<1>3. PICK m \in T : \A k \in T : m <= k
  <2>1. T \subseteq Nat
    OBVIOUS
  <2> HIDE DEF T
  <2> QED  BY <1>2, <2>1, Least
<1>4. m \in 0 .. Len(text) /\ m \in Nat /\ ~StackOf(stack[m], text, m)
  BY <1>3
<1>5. CASE m = 0
  <2>1. stack[0] = << >>
    BY <1>1, <1>4, <1>5 DEF Stacks
  <2>2. << >> \in Seq(Nat) /\ Len(<< >>) = 0 /\ 1 .. 0 = {}
    OBVIOUS
  <2>3. StackOf(<< >>, text, 0)
    BY <2>2 DEF StackOf
  <2> QED  BY <1>4, <1>5, <2>1, <2>3
<1>6. CASE m # 0
  <2>1. m \in 1 .. Len(text) /\ m - 1 \in 0 .. Len(text) /\ ~(m <= m - 1)
    BY <1>4, <1>6
  <2>2. StackOf(stack[m - 1], text, m - 1)
    BY <1>3, <2>1
  <2>3. stack[m] = Pushed(stack[m - 1], text, m)
    BY <1>1, <1>4, <1>6 DEF Stacks, Pushed
  <2> QED  BY <1>4, <2>1, <2>2, <2>3, StackStep
<1> QED  BY <1>5, <1>6

\* The closing quote at position n has as its partner what the stack has on top.
LEMMA LastIsPartner ==
  ASSUME NEW text \in Seq(Char), NEW n \in 1 .. Len(text), NEW st, StackOf(st, text, n - 1),
         text[n] = Corner.close, NEW i \in 1 .. n - 1
  PROVE  Partners(text, i, n) <=> st # << >> /\ Last(st) = i
<1>1. /\ n \in Nat \ {0} /\ n - 1 \in Nat /\ i \in Nat /\ i <= n /\ i < n
      /\ st \in Seq(Nat) /\ Len(st) \in Nat
  BY DEF StackOf
<1>2. /\ Unclosed(text, i, n - 1) <=> \E j \in 1 .. Len(st) : st[j] = i
      /\ \A j \in 1 .. Len(st) : st[j] \in 1 .. n - 1 /\ Depth(text, st[j], n - 1) = Len(st) - j + 1
  BY <1>1 DEF StackOf
<1>3. ASSUME NEW k \in Nat
      PROVE  /\ Depth(text, i, k) \in Int
             /\ Depth(text, i, k) >= 1 <=>
                  Count(text, i, k, Corner.open) > Count(text, i, k, Corner.close)
  BY <1>1, DepthMeans
<1>4. Depth(text, i, n) = Depth(text, i, n - 1) - 1
  <2>1. Depth(text, i, n) = Depth(text, i, n - 1) + IF text[n] = Corner.open THEN 1
                                   ELSE IF text[n] = Corner.close THEN 0 - 1 ELSE 0
    BY <1>1, DepthStep
  <2>2. Depth(text, i, n - 1) \in Int
    BY <1>1, <1>3
  <2> QED  BY <2>1, <2>2, CornerQuotes
<1>5. Partners(text, i, n) <=> Unclosed(text, i, n - 1) /\ ~(Depth(text, i, n) >= 1)
  <2>1. i .. n = (i .. n - 1) \cup {n} /\ \A k \in i .. n - 1 : k # n /\ k \in Nat
    BY <1>1
  <2>2. Partners(text, i, n) <=>
          text[i] = Corner.open /\ \A k \in i .. n : Depth(text, i, k) >= 1 <=> k # n
    <3>1. \A k \in i .. n : k \in Nat
      BY <1>1
    <3>2. Partners(text, i, n) <=>
            /\ text[i] = Corner.open
            /\ \A k \in i .. n :
                 Count(text, i, k, Corner.open) > Count(text, i, k, Corner.close) <=> k # n
      BY <1>1 DEF Partners
    <3> QED  BY <1>3, <3>1, <3>2
  <2> QED  BY <2>1, <2>2 DEF Unclosed
<1>6. ASSUME Unclosed(text, i, n - 1), ~(Depth(text, i, n) >= 1)
      PROVE  st # << >> /\ Last(st) = i
  <2>1. PICK j \in 1 .. Len(st) : st[j] = i
    BY <1>2, <1>6
  <2>2. Depth(text, i, n - 1) = Len(st) - j + 1 /\ j \in Nat /\ j <= Len(st)
    BY <1>1, <1>2, <2>1
  <2>3. j = Len(st)
    BY <1>1, <1>4, <1>6, <2>2
  <2>4. st # << >>
    BY <2>1
  <2> QED  BY <1>1, <2>1, <2>3, <2>4, FrontFacts
<1>7. ASSUME st # << >>, Last(st) = i
      PROVE  Unclosed(text, i, n - 1) /\ ~(Depth(text, i, n) >= 1)
  <2>1. st[Len(st)] = i /\ Len(st) \in 1 .. Len(st)
    BY <1>1, <1>7, FrontFacts
  <2>2. Depth(text, i, n - 1) = Len(st) - Len(st) + 1 /\ Unclosed(text, i, n - 1)
    BY <1>2, <2>1
  <2>3. Depth(text, i, n - 1) = 1
    BY <1>1, <2>2
  <2> QED  BY <1>4, <2>2, <2>3
<1> QED  BY <1>5, <1>6, <1>7

\* The first character is at the bottom of the stack as long as it is open.
LEMMA HeadIsFirst ==
  ASSUME NEW text, NEW n \in Nat \ {0}, NEW st, StackOf(st, text, n)
  PROVE  st # << >> /\ Head(st) = 1 <=> Unclosed(text, 1, n)
<1>1. /\ st \in Seq(Nat) /\ Len(st) \in Nat /\ 1 \in 1 .. n
      /\ \A i, j \in 1 .. Len(st) : i < j => st[i] < st[j]
      /\ Unclosed(text, 1, n) <=> \E i \in 1 .. Len(st) : st[i] = 1
      /\ \A i \in 1 .. Len(st) : st[i] \in 1 .. n
  BY DEF StackOf
<1>2. st # << >> => 1 \in 1 .. Len(st) /\ Head(st) = st[1]
  BY <1>1
<1>3. ASSUME NEW i \in 1 .. Len(st), st[i] = 1 PROVE st # << >> /\ Head(st) = 1
  <2>1. st # << >>
    BY <1>3
  <2>2. ~(1 < i)
    <3>1. 1 < i => st[1] < 1 /\ st[1] \in 1 .. n
      BY <1>1, <1>2, <1>3, <2>1
    <3> QED  BY <3>1
  <2>3. i = 1
    BY <2>2
  <2> QED  BY <1>2, <1>3, <2>1, <2>3
<1> QED  BY <1>1, <1>2, <1>3

\* The first character has no partner inside the text, and the last has none.
Opens(text) ==
  text[1] = Corner.open /\ \A j \in 2 .. Len(text) - 1 : ~Partners(text, 1, j)
Closes(text) ==
  text[Len(text)] = Corner.close /\ \A i \in 2 .. Len(text) - 1 : ~Partners(text, i, Len(text))

\* check_valid decides as the definition of partners does.
LEMMA CheckValidMeans ==
  ASSUME NEW text \in Seq(Char), text # << >>
  PROVE  /\ CheckValid(text).prefix <=> Opens(text)
         /\ CheckValid(text).suffix <=> Closes(text)
<1> DEFINE n == Len(text)
           before == OpenQuotes(text)[n - 1]
           after == OpenQuotes(text)[n]
<1>1. n \in Nat \ {0} /\ n - 1 \in 0 .. n /\ n \in 0 .. n /\ n \in 1 .. n /\ n - 1 \in Nat
  OBVIOUS
<1>2. StackOf(before, text, n - 1) /\ StackOf(after, text, n)
  BY <1>1, StackFacts
<1>3. CheckValid(text) =
        IF text[n] = Corner.close /\ before # << >> /\ Last(before) = 1
        THEN [prefix |-> TRUE, suffix |-> TRUE]
        ELSE IF text[n] = Corner.close /\ before = << >>
        THEN [prefix |-> FALSE, suffix |-> TRUE]
        ELSE [prefix |-> after # << >> /\ Head(after) = 1, suffix |-> FALSE]
  BY Zenon DEF CheckValid
<1> HIDE DEF n, before, after
<1>4. ASSUME text[n] = Corner.close, NEW i \in 1 .. n - 1
      PROVE  Partners(text, i, n) <=> before # << >> /\ Last(before) = i
  <2>1. n \in 1 .. Len(text)
    BY <1>1 DEF n
  <2> QED  BY <1>2, <1>4, <2>1, LastIsPartner
<1>5. Unclosed(text, 1, n) <=> text[1] = Corner.open /\ \A j \in 2 .. n : ~Partners(text, 1, j)
  BY <1>1, FirstUnclosed
<1>6. Opens(text) <=> text[1] = Corner.open /\ \A j \in 2 .. n - 1 : ~Partners(text, 1, j)
  BY DEF Opens, n
<1>7. Closes(text) <=> text[n] = Corner.close /\ \A i \in 2 .. n - 1 : ~Partners(text, i, n)
  BY DEF Closes, n
<1>8. before # << >> => Last(before) \in 1 .. n - 1
  <2>1. before \in Seq(Nat) /\ \A i \in 1 .. Len(before) : before[i] \in 1 .. n - 1
    BY <1>2 DEF StackOf
  <2> QED  BY <2>1, FrontFacts
<1>9. n = 1 => before = << >>
  <2>1. n = 1 => 1 .. n - 1 = {}
    OBVIOUS
  <2> QED  BY <1>8, <2>1
<1>10. CASE text[n] = Corner.close /\ before # << >> /\ Last(before) = 1
  <2>1. CheckValid(text).prefix /\ CheckValid(text).suffix
    BY <1>3, <1>10
  <2>2. 1 \in 1 .. n - 1 /\ n - 1 \in Nat \ {0}
    BY <1>1, <1>8, <1>10
  <2>3. Unclosed(text, 1, n - 1)
    <3>1. before \in Seq(Nat) /\ \A j \in 1 .. n - 1 : Unclosed(text, j, n - 1) <=> \E i \in 1 .. Len(before) : before[i] = j
      BY <1>2 DEF StackOf
    <3>2. before[Len(before)] = 1 /\ Len(before) \in 1 .. Len(before)
      BY <1>10, <3>1, FrontFacts
    <3> QED  BY <2>2, <3>1, <3>2
  <2>4. Opens(text)
    BY <1>6, <2>2, <2>3, FirstUnclosed
  <2>5. \A i \in 2 .. n - 1 : ~Partners(text, i, n)
    <3>1. \A i \in 2 .. n - 1 : i \in 1 .. n - 1 /\ i # 1
      OBVIOUS
    <3> QED  BY <1>4, <1>10, <3>1
  <2> QED  BY <1>7, <1>10, <2>1, <2>4, <2>5
<1>11. CASE text[n] = Corner.close /\ before = << >>
  <2>1. ~CheckValid(text).prefix /\ CheckValid(text).suffix
    BY <1>3, <1>11
  <2>2. \A i \in 2 .. n - 1 : i \in 1 .. n - 1
    OBVIOUS
  <2>3. Closes(text)
    BY <1>4, <1>7, <1>11, <2>2
  <2>4. ~Opens(text)
    <3>1. CASE n = 1
      BY <1>6, <1>11, <3>1, CornerQuotes
    <3>2. CASE n # 1
      <4>1. n - 1 \in Nat \ {0} /\ 1 \in 1 .. n - 1
        BY <1>1, <3>2
      <4>2. ~Unclosed(text, 1, n - 1)
        <5>1. Unclosed(text, 1, n - 1) <=> before # << >> /\ Head(before) = 1
          BY <1>2, <4>1, HeadIsFirst
        <5> QED  BY <1>11, <5>1
      <4> QED  BY <1>6, <4>1, <4>2, FirstUnclosed
    <3> QED  BY <3>1, <3>2
  <2> QED  BY <2>1, <2>3, <2>4
<1>12. CASE ~(text[n] = Corner.close /\ (before = << >> \/ Last(before) = 1))
  <2>1. /\ CheckValid(text).prefix <=> after # << >> /\ Head(after) = 1
        /\ ~CheckValid(text).suffix
    <3> DEFINE open == after # << >> /\ Head(after) = 1
    <3>1. CheckValid(text) = [prefix |-> open, suffix |-> FALSE]
      BY <1>3, <1>12, Zenon
    <3>2. open \in BOOLEAN
      OBVIOUS
    <3> HIDE DEF open
    <3>3. CheckValid(text).prefix = open /\ CheckValid(text).suffix = FALSE
      BY <3>1
    <3>4. (CheckValid(text).prefix <=> open) /\ ~CheckValid(text).suffix
      BY <3>2, <3>3
    <3> QED  BY <3>4 DEF open
  <2>2. CheckValid(text).prefix <=> Unclosed(text, 1, n)
    BY <1>1, <1>2, <2>1, HeadIsFirst
  <2>3. n # 1 => ~Partners(text, 1, n)
    <3>1. n # 1 => 1 \in 1 .. n - 1
      BY <1>1
    <3>2. text[n] # Corner.close => ~Partners(text, 1, n)
      BY DEF Partners
    <3> QED  BY <1>4, <1>12, <3>1, <3>2
  <2>4. \A j \in 2 .. n : j \in 2 .. n - 1 \/ (j = n /\ n # 1)
    BY <1>1
  <2>5. \A j \in 2 .. n - 1 : j \in 2 .. n
    BY <1>1
  <2>6. Unclosed(text, 1, n) <=> Opens(text)
    BY <1>5, <1>6, <2>3, <2>4, <2>5
  <2>7. ~Closes(text)
    <3>1. CASE text[n] # Corner.close
      BY <1>7, <3>1
    <3>2. CASE text[n] = Corner.close
      <4>1. Last(before) \in 1 .. n - 1 /\ Last(before) # 1 /\ before # << >>
        BY <1>8, <1>12, <3>2
      <4>2. Last(before) \in 2 .. n - 1
        BY <4>1
      <4> QED  BY <1>4, <1>7, <3>2, <4>1, <4>2
    <3> QED  BY <3>1, <3>2
  <2> QED  BY <2>1, <2>2, <2>6, <2>7
<1> QED  BY <1>10, <1>11, <1>12

-----------------------------------------------------------------------------
(* Moving quotes. *)

LEMMA GroupsChanged ==
  ASSUME NEW g \in Groups, NEW x, NEW y
  PROVE  /\ [g EXCEPT !.white = x, !.text = y] = [white |-> x, text |-> y, suffix |-> g.suffix]
         /\ [g EXCEPT !.suffix = x, !.text = y] = [white |-> g.white, text |-> y, suffix |-> x]
<1> DEFINE w == g.white
           t == g.text
           s == g.suffix
<1>1. g = [white |-> w, text |-> t, suffix |-> s]
  BY DEF Groups
<1> HIDE DEF w, t, s
<1>2. /\ [[white |-> w, text |-> t, suffix |-> s] EXCEPT !.white = x]
           = [white |-> x, text |-> t, suffix |-> s]
      /\ [[white |-> w, text |-> t, suffix |-> s] EXCEPT !.suffix = x]
           = [white |-> w, text |-> t, suffix |-> x]
  OBVIOUS
<1>3. [[white |-> x, text |-> t, suffix |-> s] EXCEPT !.text = y]
        = [white |-> x, text |-> y, suffix |-> s]
  OBVIOUS
<1>4. [[white |-> w, text |-> t, suffix |-> x] EXCEPT !.text = y]
        = [white |-> w, text |-> y, suffix |-> x]
  OBVIOUS
<1>5. /\ [g EXCEPT !.white = x, !.text = y] = [[g EXCEPT !.white = x] EXCEPT !.text = y]
      /\ [g EXCEPT !.suffix = x, !.text = y] = [[g EXCEPT !.suffix = x] EXCEPT !.text = y]
  BY Zenon
<1> QED  BY <1>1, <1>2, <1>3, <1>4, <1>5, Zenon DEF w, s

LEMMA Associative ==
  ASSUME NEW a \in Seq(Char), NEW b \in Seq(Char), NEW c \in Seq(Char)
  PROVE  (a \o b) \o c = a \o (b \o c)
BY ConcatAssociative

LEMMA MovedFirst ==
  ASSUME NEW g \in Groups, g.text # << >>
  PROVE  /\ MoveFirst(g) \in Groups
         /\ MoveFirst(g).text = SubSeq(g.text, 2, Len(g.text))
         /\ MoveFirst(g).suffix = g.suffix
         /\ WholeText(MoveFirst(g)) = WholeText(g)
<1> DEFINE w == g.white
           t == g.text
           s == g.suffix
           x == Append(w, Head(t))
           y == Tail(t)
           b == <<Head(t)>>
           h == MoveFirst(g)
<1>1. w \in Seq(Char) /\ t \in Seq(Char) /\ s \in Seq(Char) /\ t # << >>
  BY DEF Groups
<1>2. h = [white |-> x, text |-> y, suffix |-> s]
  <2>1. h = [g EXCEPT !.white = x, !.text = y]
    BY Zenon DEF MoveFirst
  <2> HIDE DEF h, x, y
  <2> QED  BY <2>1, GroupsChanged
<1> HIDE DEF w, t, s, h
<1>3. Head(t) \in Char /\ y \in Seq(Char) /\ t = b \o y /\ y = SubSeq(t, 2, Len(t))
  <2>1. Head(t) \in Char /\ Tail(t) \in Seq(Char) /\ Tail(t) = SubSeq(t, 2, Len(t)) /\ Head(t) = t[1]
    BY <1>1, HeadTailProperties, TailIsSubSeq
  <2>2. Len(t) \in Nat /\ 1 \in 1 .. Len(t) /\ Len(t) \in 1 .. Len(t)
    BY <1>1
  <2>3. SubSeq(t, 1, Len(t)) = <<t[1]>> \o SubSeq(t, 1 + 1, Len(t))
    BY <1>1, <2>2, SubSeqRecursiveFirst
  <2>4. SubSeq(t, 1, Len(t)) = t
    BY <1>1, SubSeqFull
  <2>5. 1 + 1 = 2
    OBVIOUS
  <2> QED  BY <2>1, <2>3, <2>4, <2>5
<1>4. x \in Seq(Char) /\ x = w \o b /\ b \in Seq(Char)
  BY <1>1, <1>3
<1> HIDE DEF x, y, b
<1>5. h.white = x /\ h.text = y /\ h.suffix = s
  BY <1>2
<1>6. h \in Groups
  BY <1>1, <1>2, <1>3, <1>4 DEF Groups
<1>7. (w \o b) \o y = w \o t
  BY ZenonT(60), <1>1, <1>3, <1>4, Associative
<1>8. WholeText(h) = (x \o y) \o s /\ WholeText(g) = (w \o t) \o s
  BY <1>5, Zenon DEF WholeText, w, t, s
<1> QED  BY <1>3, <1>4, <1>5, <1>6, <1>7, <1>8 DEF t, s, h

LEMMA MovedLast ==
  ASSUME NEW g \in Groups, g.text # << >>
  PROVE  /\ MoveLast(g) \in Groups
         /\ MoveLast(g).text = SubSeq(g.text, 1, Len(g.text) - 1)
         /\ MoveLast(g).white = g.white
         /\ WholeText(MoveLast(g)) = WholeText(g)
<1> DEFINE w == g.white
           t == g.text
           s == g.suffix
           b == <<Last(t)>>
           x == b \o s
           y == Front(t)
           h == MoveLast(g)
<1>1. w \in Seq(Char) /\ t \in Seq(Char) /\ s \in Seq(Char) /\ t # << >>
  BY DEF Groups
<1>2. h = [white |-> w, text |-> y, suffix |-> x]
  <2>1. h = [g EXCEPT !.suffix = x, !.text = y]
    BY Zenon DEF MoveLast
  <2> HIDE DEF h, x, y
  <2> QED  BY <2>1, GroupsChanged
<1> HIDE DEF w, t, s, h
<1>3. Len(t) \in Nat \ {0} /\ 1 \in 1 .. Len(t) /\ Len(t) \in 1 .. Len(t)
  BY <1>1
<1>4. Last(t) \in Char /\ Last(t) = t[Len(t)] /\ y = SubSeq(t, 1, Len(t) - 1)
  BY <1>1, <1>3 DEF Last, Front
<1>5. t = y \o b
  <2>1. SubSeq(t, 1, Len(t)) = SubSeq(t, 1, Len(t) - 1) \o <<t[Len(t)]>>
    BY <1>1, <1>3, SubSeqRecursiveSecond
  <2>2. SubSeq(t, 1, Len(t)) = t
    BY <1>1, SubSeqFull
  <2> QED  BY <1>4, <2>1, <2>2
<1>6. y \in Seq(Char)
  <2>1. \A i \in 1 .. Len(t) - 1 : t[i] \in Char
    BY <1>1, <1>3
  <2>2. Len(t) - 1 \in Int /\ 1 \in Int
    BY <1>3
  <2> QED  BY <1>4, <2>1, <2>2, SubSeqProperties
<1>7. b \in Seq(Char)
  BY <1>4
<1> HIDE DEF b
<1>8. x \in Seq(Char)
  BY <1>1, <1>7, ConcatProperties
<1>9. (w \o t) \o s = (w \o y) \o x
  <2>1. w \o y \in Seq(Char)
    BY <1>1, <1>6, ConcatProperties
  <2>2. ((w \o y) \o b) \o s = (w \o y) \o (b \o s)
    BY <1>1, <1>7, <2>1, Associative
  <2>3. (w \o y) \o b = w \o (y \o b)
    BY ZenonT(60), <1>1, <1>6, <1>7, Associative
  <2> QED  BY <1>5, <2>2, <2>3 DEF x
<1> HIDE DEF x, y
<1>10. h.white = w /\ h.text = y /\ h.suffix = x
  BY <1>2
<1>11. h \in Groups
  BY <1>1, <1>2, <1>6, <1>8 DEF Groups
<1>12. WholeText(h) = (w \o y) \o x /\ WholeText(g) = (w \o t) \o s
  BY <1>10, Zenon DEF WholeText, w, t, s
<1> QED  BY <1>4, <1>9, <1>10, <1>11, <1>12 DEF t, w, h

LEMMA MiddleOf ==
  ASSUME NEW s \in Seq(Char), NEW n \in Nat, n = Len(s), n > 1
  PROVE  /\ SubSeq(s, 2, n - 1) \in Seq(Char) /\ Len(SubSeq(s, 2, n - 1)) = n - 2
         /\ \A i \in 1 .. n - 2 : SubSeq(s, 2, n - 1)[i] = s[i + 1]
<1>1. 2 \in Int /\ n - 1 \in Int /\ \A i \in 2 .. n - 1 : s[i] \in Char
  OBVIOUS
<1> DEFINE v == SubSeq(s, 2, n - 1)
<1>2. /\ v \in Seq(Char)
      /\ Len(v) = IF 2 <= n - 1 THEN (n - 1) - 2 + 1 ELSE 0
      /\ \A i \in 1 .. (n - 1) - 2 + 1 : v[i] = s[2 + i - 1]
  BY <1>1, SubSeqProperties
<1> HIDE DEF v
<1>3. (IF 2 <= n - 1 THEN (n - 1) - 2 + 1 ELSE 0) = n - 2
  OBVIOUS
<1>4. \A i \in 1 .. n - 2 : i \in 1 .. (n - 1) - 2 + 1 /\ 2 + i - 1 = i + 1
  OBVIOUS
<1> QED  BY <1>2, <1>3, <1>4 DEF v

\* What adjust makes of a pair: the groups of both keep their types, and the
\* quotes that it moves are those at the ends that have no partner inside.
LEMMA AdjustFacts ==
  ASSUME NEW original \in Groups, NEW translated \in Groups, NEW o \in Nat, NEW t \in Nat
  PROVE  /\ AdjustedPair(original, translated, o, t) \in Pair
         /\ AdjustedPair(original, translated, o, t).originalLine = o
         /\ AdjustedPair(original, translated, o, t).translatedLine = t
         /\ MovesQuotesOf(AdjustedPair(original, translated, o, t), original, translated)
<1> DEFINE a == Adjust(original, translated)
           p == AdjustedPair(original, translated, o, t)
           text == original.text
           n == Len(text)
           alone == Contains(original.white, Kagi.open) \/ Contains(original.suffix, Kagi.close)
           opens == /\ n > 0 /\ ~alone /\ text[1] = Corner.open
                    /\ \A j \in 2 .. n - 1 : ~Partners(text, 1, j)
           closes == /\ n > 0 /\ ~alone /\ text[n] = Corner.close
                     /\ \A i \in 2 .. n - 1 : ~Partners(text, i, n)
<1>1. p = [original |-> a.original, translated |-> a.translated, originalLine |-> o, translatedLine |-> t]
  BY DEF AdjustedPair
<1>2. text \in Seq(Char) /\ n \in Nat /\ (text # << >> <=> n > 0)
  BY DEF Groups
<1>3. text # << >> => Head(text) = text[1] /\ Last(text) = text[n]
  BY <1>2 DEF Last
<1>4. (text # << >> /\ ~alone) => (opens <=> Opens(text)) /\ (closes <=> Closes(text))
  BY <1>2 DEF Opens, Closes
<1>5. SUFFICES /\ a.original \in Groups /\ a.translated \in Groups
               /\ a.original.text = SubSeq(text, IF opens THEN 2 ELSE 1, IF closes THEN n - 1 ELSE n)
               /\ WholeText(a.original) = WholeText(original)
               /\ WholeText(a.translated) = WholeText(translated)
               /\ a.translated.white # translated.white => opens
               /\ a.translated.suffix # translated.suffix => closes
  <2> HIDE DEF a, p
  <2>1. p.original = a.original /\ p.translated = a.translated /\ p.originalLine = o /\ p.translatedLine = t
    BY <1>1
  <2>2. ASSUME a.original \in Groups, a.translated \in Groups PROVE p \in Pair
    BY <1>1, <2>2 DEF Pair
  <2>3. MovesQuotesOf(p, original, translated) <=>
          /\ p.original.text = SubSeq(text, IF opens THEN 2 ELSE 1, IF closes THEN n - 1 ELSE n)
          /\ WholeText(p.original) = WholeText(original)
          /\ WholeText(p.translated) = WholeText(translated)
          /\ p.translated.white # translated.white => opens
          /\ p.translated.suffix # translated.suffix => closes
    BY Zenon DEF MovesQuotesOf
  <2> HIDE DEF opens, closes
  <2> QED  BY <2>1, <2>2, <2>3 DEF a, p
<1>6. CASE LeftAlone(original)
  <2>1. a.original = original /\ a.translated = translated
    BY <1>6 DEF Adjust
  <2>2. ~opens /\ ~closes
    <3>1. alone \/ text = << >> \/ (Head(text) # Corner.open /\ Last(text) # Corner.close)
      BY <1>6 DEF LeftAlone
    <3> QED  BY <1>2, <1>3, <3>1
  <2> HIDE DEF opens, closes, a
  <2>3. SubSeq(text, 1, n) = text
    BY <1>2, SubSeqFull
  <2> QED  BY <2>1, <2>2, <2>3
<1>7. CASE ~LeftAlone(original)
  <2> DEFINE move == CheckValid(text)
             first == IF move.prefix THEN MoveFirst(original) ELSE original
             opened == IF move.prefix /\ StartsWithOneOf(translated, {Corner.open, Chinese.open})
                       THEN MoveFirst(translated) ELSE translated
             m == SubSeq(text, 2, n)
  <2>1. text # << >> /\ ~alone
    BY <1>7 DEF LeftAlone
  <2>2. (move.prefix <=> opens) /\ (move.suffix <=> closes)
    BY <1>2, <1>4, <2>1, CheckValidMeans
  <2>3. a = [original |-> IF move.suffix /\ first.text # << >> THEN MoveLast(first) ELSE first,
             translated |-> IF move.suffix /\ EndsWithOneOf(opened, {Corner.close, Chinese.close})
                            THEN MoveLast(opened) ELSE opened]
    BY <1>7, Zenon DEF Adjust
  <2>4. a.original = IF move.suffix /\ first.text # << >> THEN MoveLast(first) ELSE first
    <3> HIDE DEF move, first, opened, a
    <3> QED  BY <2>3
  <2>5. a.translated = IF move.suffix /\ EndsWithOneOf(opened, {Corner.close, Chinese.close})
                       THEN MoveLast(opened) ELSE opened
    <3> HIDE DEF move, first, opened, a
    <3> QED  BY <2>3
  <2>6. /\ opened \in Groups /\ WholeText(opened) = WholeText(translated)
        /\ opened.suffix = translated.suffix
        /\ opened.white # translated.white => move.prefix
    <3>1. CASE move.prefix /\ StartsWithOneOf(translated, {Corner.open, Chinese.open})
      <4>1. opened = MoveFirst(translated) /\ translated.text # << >>
        BY <3>1 DEF StartsWithOneOf
      <4> HIDE DEF opened, move
      <4> QED  BY <3>1, <4>1, MovedFirst
    <3>2. CASE ~(move.prefix /\ StartsWithOneOf(translated, {Corner.open, Chinese.open}))
      <4>1. opened = translated
        BY <3>2
      <4> HIDE DEF opened
      <4> QED  BY <4>1
    <3> QED  BY <3>1, <3>2
  <2>7. /\ a.translated \in Groups /\ WholeText(a.translated) = WholeText(translated)
        /\ a.translated.white = opened.white
        /\ a.translated.suffix # translated.suffix => move.suffix
    <3> HIDE DEF opened, move, a
    <3>1. CASE move.suffix /\ EndsWithOneOf(opened, {Corner.close, Chinese.close})
      <4>1. opened.text # << >>
        BY <3>1 DEF EndsWithOneOf
      <4>2. a.translated = MoveLast(opened)
        BY <2>5, <3>1
      <4> QED  BY <2>6, <3>1, <4>1, <4>2, MovedLast
    <3>2. CASE ~(move.suffix /\ EndsWithOneOf(opened, {Corner.close, Chinese.close}))
      <4>1. a.translated = opened
        BY <2>5, <3>2
      <4> QED  BY <2>6, <4>1
    <3> QED  BY <3>1, <3>2
  <2>8. /\ first \in Groups /\ WholeText(first) = WholeText(original)
        /\ first.text = IF move.prefix THEN m ELSE text
    <3>1. CASE move.prefix
      <4>1. first = MoveFirst(original)
        BY <3>1
      <4> HIDE DEF first, move
      <4> QED  BY <2>1, <3>1, <4>1, MovedFirst
    <3>2. CASE ~move.prefix
      <4>1. first = original
        BY <3>2
      <4> HIDE DEF first, move
      <4> QED  BY <3>2, <4>1
    <3> QED  BY <3>1, <3>2
  <2>9. /\ a.original \in Groups /\ WholeText(a.original) = WholeText(original)
        /\ a.original.text = IF move.suffix /\ first.text # << >>
                             THEN SubSeq(first.text, 1, Len(first.text) - 1) ELSE first.text
    <3> HIDE DEF first, move, a
    <3>1. CASE move.suffix /\ first.text # << >>
      <4>1. a.original = MoveLast(first)
        BY <2>4, <3>1
      <4> QED  BY <2>8, <3>1, <4>1, MovedLast
    <3>2. CASE ~(move.suffix /\ first.text # << >>)
      <4>1. a.original = first
        BY <2>4, <3>2
      <4> QED  BY <2>8, <3>2, <4>1
    <3> QED  BY <3>1, <3>2
  <2> HIDE DEF first, move, a, opened
  <2>10. opens /\ closes => n > 1
    BY <1>2, CornerQuotes
  <2>11. SubSeq(text, 1, n) = text
    BY <1>2, SubSeqFull
  <2>12. opens /\ closes => m # << >> /\ SubSeq(m, 1, Len(m) - 1) = SubSeq(text, 2, n - 1)
    <3> SUFFICES ASSUME n > 1
                 PROVE  m # << >> /\ SubSeq(m, 1, Len(m) - 1) = SubSeq(text, 2, n - 1)
      BY <2>10
    <3>1. /\ m \in Seq(Char) /\ Len(m) = n - 1 /\ \A i \in 1 .. n - 1 : m[i] = text[i + 1]
      BY <1>2
    <3> HIDE DEF m, text
    <3>2. m # << >>
      BY <1>2, <3>1
    <3> DEFINE u == SubSeq(m, 1, (n - 1) - 1)
               v == SubSeq(text, 2, n - 1)
    <3>3. u \in Seq(Char) /\ Len(u) = n - 2 /\ \A i \in 1 .. n - 2 : u[i] = m[i]
      BY <1>2, <3>1
    <3>4. v \in Seq(Char) /\ Len(v) = n - 2 /\ \A i \in 1 .. n - 2 : v[i] = text[i + 1]
      BY <1>2, MiddleOf
    <3> HIDE DEF u, v
    <3>5. \A i \in 1 .. n - 2 : u[i] = v[i]
      BY <1>2, <3>1, <3>3, <3>4
    <3>6. u = v
      BY <3>3, <3>4, <3>5, SeqEqual
    <3> QED  BY <3>1, <3>2, <3>6 DEF u, v
  <2>13. a.original.text = SubSeq(text, IF opens THEN 2 ELSE 1, IF closes THEN n - 1 ELSE n)
    <3> HIDE DEF opens, closes, alone
    <3>1. CASE opens /\ closes
      BY <2>2, <2>8, <2>9, <2>12, <3>1
    <3>2. CASE opens /\ ~closes
      BY <2>2, <2>8, <2>9, <3>2
    <3>3. CASE ~opens /\ closes
      BY <2>1, <2>2, <2>8, <2>9, <3>3
    <3>4. CASE ~opens /\ ~closes
      BY <2>2, <2>8, <2>9, <2>11, <3>4
    <3> QED  BY <3>1, <3>2, <3>3, <3>4
  <2> HIDE DEF opens, closes
  <2> QED  BY <2>2, <2>6, <2>7, <2>9, <2>13
<1> QED  BY <1>6, <1>7

-----------------------------------------------------------------------------
(* The pairs. *)

\* Line o waits for its translation.
Waits(o) ==
  /\ o \in 0 .. next - 1 /\ IsOriginal(o)
  /\ \A k \in o + 1 .. next - 1 : ~IsOriginal(k) /\ ~IsTranslation(k)

InputOK ==
  /\ parser \in {"standard", "text-block"}
  /\ lines \in Seq(Line) /\ isBreak \in Seq(BOOLEAN) /\ blocks \in Seq(Block)
  /\ \A b \in ToSet(blocks) :
       /\ b.at < Len(isBreak) /\ b.at <= b.jp /\ b.at <= b.cn
       /\ b.jp <= Len(isBreak) /\ b.cn <= Len(isBreak)

\* What pending_original holds: the original line that waits, if there is one.
PendingOK ==
  /\ pending \in Seq([groups : Groups, line : Nat])
  /\ pending # << >> =>
       /\ Len(pending) = 1 /\ pending[1].line \in 0 .. Len(lines) - 1
       /\ lines[pending[1].line + 1].original # NoMatch
       /\ pending[1].groups = lines[pending[1].line + 1].original
  /\ parser = "standard" => \A o \in Nat : Waits(o) <=> pending # << >> /\ pending[1].line = o

PairInv ==
  /\ InputOK /\ PendingOK
  /\ next \in Nat /\ parsed \in Seq(Pair)
  /\ StandardPairsExact /\ StandardTextsKept /\ BlockPairsExact

LEMMA PairsHold == PairInv => PairsExact
BY DEF PairInv, PairsExact, ParserTypeOK, InputOK, PendingOK

LEMMA ParsingStarts == ParserInit => PairInv
<1> SUFFICES ASSUME ParserInit PROVE PairInv
  OBVIOUS
<1>1. InputOK /\ next = 0 /\ pending = << >> /\ parsed = << >>
  BY DEF ParserInit, InputOK
<1>2. ToSet(parsed) = {} /\ Len(parsed) = 0 /\ 2 .. 0 = {} /\ 0 .. next - 1 = {} /\ 1 .. next = {}
  BY <1>1 DEF ToSet
<1>3. PendingOK
  BY <1>1, <1>2 DEF PendingOK, Waits
<1>4. StandardPairsExact
  BY <1>2 DEF StandardPairsExact
<1>5. StandardTextsKept /\ BlockPairsExact
  BY <1>2 DEF StandardTextsKept, BlockPairsExact
<1> QED  BY <1>1, <1>3, <1>4, <1>5 DEF PairInv

LEMMA OneMore ==
  ASSUME NEW S, NEW s \in Seq(S), NEW x \in S
  PROVE  /\ Append(s, x) \in Seq(S) /\ Len(Append(s, x)) = Len(s) + 1
         /\ ToSet(Append(s, x)) = ToSet(s) \cup {x}
         /\ \A i \in 1 .. Len(s) : Append(s, x)[i] = s[i]
         /\ Append(s, x)[Len(s) + 1] = x
<1> DEFINE a == Append(s, x)
<1>1. /\ a \in Seq(S) /\ Len(a) = Len(s) + 1 /\ DOMAIN a = 1 .. Len(s) + 1
      /\ \A i \in 1 .. Len(s) : a[i] = s[i]
      /\ a[Len(s) + 1] = x
      /\ DOMAIN s = 1 .. Len(s) /\ Len(s) \in Nat
  OBVIOUS
<1> HIDE DEF a
<1>2. 1 .. Len(s) + 1 = 1 .. Len(s) \cup {Len(s) + 1}
  BY <1>1
<1>3. ToSet(a) = ToSet(s) \cup {x}
  BY <1>1, <1>2 DEF ToSet
<1> QED  BY <1>1, <1>3 DEF a

\* A step leaves every line what it is.
LEMMA SameLines ==
  ASSUME lines' = lines
  PROVE  \A k : (IsOriginal(k)' <=> IsOriginal(k)) /\ (IsTranslation(k)' <=> IsTranslation(k))
BY DEF IsOriginal, IsTranslation

LinePairs(n) == {p \in (0 .. n - 1) \X (0 .. n - 1) : p[1] < p[2] /\ Translates(p[1], p[2])}

\* The pairs of one more line: it ends the wait of the line that waits.
LEMMA LinePairsNext ==
  ASSUME next \in Nat
  PROVE  LinePairs(next + 1) =
           LinePairs(next) \cup {<<o, next>> : o \in {k \in Nat : Waits(k) /\ IsTranslation(next)}}
<1>1. ASSUME NEW p \in LinePairs(next + 1), p \notin LinePairs(next)
      PROVE  p \in {<<o, next>> : o \in {k \in Nat : Waits(k) /\ IsTranslation(next)}}
  <2>1. PICK o \in 0 .. next, t \in 0 .. next : p = <<o, t>>
    BY DEF LinePairs
  <2>2. o < t /\ Translates(o, t)
    BY <2>1 DEF LinePairs
  <2>3. o \in 0 .. next - 1 /\ o \in Nat
    BY <2>2
  <2>4. t = next
    <3> SUFFICES ASSUME t # next PROVE FALSE
      OBVIOUS
    <3>1. t \in 0 .. next - 1
      BY <2>1
    <3> QED  BY <1>1, <2>1, <2>2, <2>3, <3>1 DEF LinePairs
  <2>5. Waits(o) /\ IsTranslation(next)
    BY <2>2, <2>3, <2>4 DEF Translates, Waits
  <2> QED  BY <2>1, <2>3, <2>4, <2>5
<1>2. ASSUME NEW p \in LinePairs(next) PROVE p \in LinePairs(next + 1)
  <2>1. 0 .. next - 1 \subseteq 0 .. (next + 1) - 1
    OBVIOUS
  <2> QED  BY <2>1 DEF LinePairs
<1>3. ASSUME NEW o \in Nat, Waits(o), IsTranslation(next) PROVE <<o, next>> \in LinePairs(next + 1)
  <2>1. o \in 0 .. (next + 1) - 1 /\ next \in 0 .. (next + 1) - 1 /\ o < next
    BY <1>3 DEF Waits
  <2>2. Translates(o, next)
    BY <1>3 DEF Translates, Waits
  <2> QED  BY <2>1, <2>2 DEF LinePairs
<1> QED  BY <1>1, <1>2, <1>3

LEMMA WaitsNext ==
  ASSUME next \in Nat, next' = next + 1, lines' = lines, NEW o \in Nat
  PROVE  Waits(o)' <=> \/ o = next /\ IsOriginal(next)
                       \/ Waits(o) /\ ~IsOriginal(next) /\ ~IsTranslation(next)
<1>1. Waits(o)' <=> /\ o \in 0 .. next /\ IsOriginal(o)
                    /\ \A k \in o + 1 .. next : ~IsOriginal(k) /\ ~IsTranslation(k)
  <2>1. 0 .. next' - 1 = 0 .. next /\ o + 1 .. next' - 1 = o + 1 .. next
    OBVIOUS
  <2>2. (IsOriginal(o)' <=> IsOriginal(o)) /\ \A k : (IsOriginal(k)' <=> IsOriginal(k)) /\ (IsTranslation(k)' <=> IsTranslation(k))
    BY SameLines
  <2> QED  BY <2>1, <2>2 DEF Waits
<1>2. CASE o = next
  <2>1. next + 1 .. next = {} /\ next \in 0 .. next /\ next \notin 0 .. next - 1
    OBVIOUS
  <2> QED  BY <1>1, <1>2, <2>1 DEF Waits
<1>3. CASE o # next
  <2>1. o \in 0 .. next <=> o \in 0 .. next - 1
    BY <1>3
  <2>2. o \in 0 .. next - 1 => o + 1 .. next = (o + 1 .. next - 1) \cup {next}
    OBVIOUS
  <2> QED  BY <1>1, <1>3, <2>1, <2>2 DEF Waits
<1> QED  BY <1>2, <1>3

LEMMA LinePairsSame ==
  ASSUME lines' = lines, NEW n
  PROVE  {p \in (0 .. n - 1) \X (0 .. n - 1) : p[1] < p[2] /\ Translates(p[1], p[2])'} = LinePairs(n)
<1>1. \A o, t : Translates(o, t)' <=> Translates(o, t)
  BY DEF Translates, IsOriginal, IsTranslation
<1> QED  BY <1>1 DEF LinePairs

PairsOf(pairs) == {<<p.originalLine, p.translatedLine>> : p \in pairs}

\* A step of the standard parser.
LEMMA ParseLineStep == PairInv /\ ParseLine => PairInv'
<1> SUFFICES ASSUME PairInv, ParseLine PROVE PairInv'
  OBVIOUS
<1> DEFINE line == lines[next + 1]
<1>1. /\ InputOK /\ PendingOK /\ next \in Nat /\ parsed \in Seq(Pair)
      /\ StandardPairsExact /\ StandardTextsKept
  BY DEF PairInv
<1>2. /\ parser = "standard" /\ next < Len(lines) /\ next' = next + 1
      /\ parser' = parser /\ lines' = lines /\ isBreak' = isBreak /\ blocks' = blocks
  BY DEF ParseLine
<1>3. /\ line.original # NoMatch =>
           pending' = <<[groups |-> line.original, line |-> next]>> /\ parsed' = parsed
      /\ line.original = NoMatch /\ pending # << >> /\ line.translated # NoMatch =>
           /\ parsed' = Append(parsed,
                AdjustedPair(pending[1].groups, line.translated, pending[1].line, next))
           /\ pending' = << >>
      /\ line.original = NoMatch /\ ~(pending # << >> /\ line.translated # NoMatch) =>
           pending' = pending /\ parsed' = parsed
  BY DEF ParseLine
<1>4. /\ IsOriginal(next) <=> line.original # NoMatch
      /\ IsTranslation(next) <=> line.original = NoMatch /\ line.translated # NoMatch
  BY DEF IsOriginal, IsTranslation
<1>5. lines \in Seq(Line) /\ Len(lines) \in Nat /\ next + 1 \in 1 .. Len(lines)
  BY <1>1, <1>2 DEF InputOK
<1>6. line \in Line /\ line = lines[next + 1]
  BY <1>5
<1>7. /\ line.original # NoMatch => line.original \in Groups
      /\ line.translated # NoMatch => line.translated \in Groups
  BY <1>6 DEF Line
<1> HIDE DEF line
<1>8. InputOK'
  BY <1>1, <1>2 DEF InputOK
<1>9. next' \in Nat
  BY <1>1, <1>2
<1>10. PairsOf(ToSet(parsed)) = LinePairs(next)
       /\ \A i \in 2 .. Len(parsed) : parsed[i - 1].translatedLine < parsed[i].originalLine
  BY <1>1, <1>2 DEF StandardPairsExact, LinePairs, PairsOf
<1>11. LinePairs(next + 1) =
         LinePairs(next) \cup {<<o, next>> : o \in {k \in Nat : Waits(k) /\ IsTranslation(next)}}
  BY <1>1, LinePairsNext
<1>12. ASSUME NEW o \in Nat
       PROVE  /\ Waits(o)' <=> \/ o = next /\ IsOriginal(next)
                               \/ Waits(o) /\ ~IsOriginal(next) /\ ~IsTranslation(next)
              /\ Waits(o) <=> pending # << >> /\ pending[1].line = o
  <2>1. Waits(o) <=> pending # << >> /\ pending[1].line = o
    BY <1>1, <1>2 DEF PendingOK
  <2> QED  BY <1>1, <1>2, <2>1, WaitsNext
<1>13. ASSUME /\ PairsOf(ToSet(parsed')) = LinePairs(next + 1)
              /\ \A i \in 2 .. Len(parsed') : parsed'[i - 1].translatedLine < parsed'[i].originalLine
       PROVE  StandardPairsExact'
  <2>1. {p \in (0 .. next' - 1) \X (0 .. next' - 1) : p[1] < p[2] /\ Translates(p[1], p[2])'}
          = LinePairs(next + 1)
    BY <1>2, LinePairsSame
  <2> QED  BY <1>13, <2>1 DEF StandardPairsExact, PairsOf
<1>14. \A p \in ToSet(parsed) :
         MovesQuotesOf(p, lines[p.originalLine + 1].original, lines[p.translatedLine + 1].translated)
  BY <1>1, <1>2 DEF StandardTextsKept
<1>15. BlockPairsExact'
  <2>1. parser' # "text-block"
    BY <1>2
  <2> QED  BY <2>1 DEF BlockPairsExact
<1>16. ASSUME parsed' = parsed PROVE StandardTextsKept'
  BY <1>2, <1>14, <1>16 DEF StandardTextsKept
<1>17. ASSUME parsed' = parsed, LinePairs(next + 1) = LinePairs(next)
       PROVE  parsed' \in Seq(Pair) /\ StandardPairsExact'
  BY <1>1, <1>10, <1>13, <1>17
<1>18. CASE line.original # NoMatch
  <2> DEFINE held == [groups |-> line.original, line |-> next]
  <2>1. pending' = <<held>> /\ parsed' = parsed /\ held \in [groups : Groups, line : Nat]
        /\ held.groups = line.original /\ held.line = next
    BY <1>1, <1>3, <1>7, <1>18
  <2> HIDE DEF held
  <2>2. pending' \in Seq([groups : Groups, line : Nat]) /\ Len(pending') = 1 /\ pending'[1] = held
        /\ pending' # << >>
    BY <2>1
  <2>3. ASSUME NEW o \in Nat PROVE Waits(o)' <=> pending' # << >> /\ pending'[1].line = o
    BY <1>4, <1>12, <1>18, <2>1, <2>2
  <2>4. /\ next \in 0 .. Len(lines') - 1 /\ lines'[next + 1].original # NoMatch
        /\ held.groups = lines'[next + 1].original
    <3>1. next \in 0 .. Len(lines) - 1
      BY <1>1, <1>2, <1>5
    <3>2. line = lines'[next + 1]
      BY <1>2 DEF line
    <3> QED  BY <1>2, <1>18, <2>1, <3>1, <3>2
  <2>5. PendingOK'
    <3>1. /\ pending'[1].line \in 0 .. Len(lines') - 1
          /\ lines'[pending'[1].line + 1].original # NoMatch
          /\ pending'[1].groups = lines'[pending'[1].line + 1].original
      BY <2>1, <2>2, <2>4
    <3> QED  BY <2>2, <2>3, <3>1 DEF PendingOK
  <2>6. LinePairs(next + 1) = LinePairs(next)
    BY <1>4, <1>11, <1>18
  <2> QED  BY <1>8, <1>9, <1>15, <1>16, <1>17, <2>1, <2>5, <2>6 DEF PairInv
<1>19. CASE line.original = NoMatch /\ pending # << >> /\ line.translated # NoMatch
  <2> DEFINE o == pending[1].line
             groups == pending[1].groups
             p == AdjustedPair(groups, line.translated, o, next)
  <2>1. parsed' = Append(parsed, p) /\ pending' = << >>
    BY <1>3, <1>19
  <2>2. /\ o \in 0 .. Len(lines) - 1 /\ IsOriginal(o) /\ groups = lines[o + 1].original
        /\ groups \in Groups /\ o \in Nat
    <3>1. /\ pending \in Seq([groups : Groups, line : Nat]) /\ Len(pending) = 1
          /\ o \in 0 .. Len(lines) - 1 /\ lines[o + 1].original # NoMatch
          /\ groups = lines[o + 1].original
      BY <1>1, <1>19 DEF PendingOK
    <3>2. pending[1] \in [groups : Groups, line : Nat]
      <4> DEFINE Waiting == [groups : Groups, line : Nat]
      <4>1. pending \in Seq(Waiting) /\ 1 \in 1 .. Len(pending)
        BY <3>1
      <4> HIDE DEF Waiting
      <4>2. pending[1] \in Waiting
        BY <4>1
      <4> QED  BY <4>2 DEF Waiting
    <3> QED  BY <3>1, <3>2 DEF IsOriginal
  <2>3. Waits(o)
    BY <1>12, <1>19, <2>2
  <2>4. /\ p \in Pair /\ p.originalLine = o /\ p.translatedLine = next
        /\ MovesQuotesOf(p, groups, line.translated)
    BY <1>1, <1>7, <1>19, <2>2, AdjustFacts
  <2> HIDE DEF o, groups, p
  <2>5. /\ parsed' \in Seq(Pair) /\ Len(parsed') = Len(parsed) + 1
        /\ ToSet(parsed') = ToSet(parsed) \cup {p}
        /\ \A i \in 1 .. Len(parsed) : parsed'[i] = parsed[i]
        /\ parsed'[Len(parsed) + 1] = p
    BY <1>1, <2>1, <2>4, OneMore
  <2>6. PairsOf(ToSet(parsed')) = LinePairs(next + 1)
    <3>1. PairsOf(ToSet(parsed')) = PairsOf(ToSet(parsed)) \cup {<<o, next>>}
      BY <2>4, <2>5 DEF PairsOf
    <3>2. {k \in Nat : Waits(k) /\ IsTranslation(next)} = {o}
      BY <1>4, <1>12, <1>19, <2>2, <2>3 DEF o
    <3> QED  BY <1>10, <1>11, <3>1, <3>2
  <2>7. ASSUME NEW q \in ToSet(parsed) PROVE q.translatedLine < o
    <3> DEFINE t == q.translatedLine
    <3>1. <<q.originalLine, t>> \in LinePairs(next)
      BY <1>10 DEF PairsOf
    <3>2. t \in 0 .. next - 1 /\ IsTranslation(t)
      BY <3>1 DEF LinePairs, Translates
    <3>3. t \notin o + 1 .. next - 1 /\ IsOriginal(o) /\ o \in 0 .. next - 1
      BY <2>3, <3>2 DEF Waits
    <3>4. t # o
      BY <3>2, <3>3 DEF IsTranslation
    <3> HIDE DEF t
    <3>5. t < o
      BY <1>1, <3>2, <3>3, <3>4
    <3> QED  BY <3>5 DEF t
  <2>8. ASSUME NEW i \in 2 .. Len(parsed')
        PROVE  parsed'[i - 1].translatedLine < parsed'[i].originalLine
    <3>1. Len(parsed) \in Nat /\ \A k \in 1 .. Len(parsed) : parsed[k] \in ToSet(parsed)
      BY <1>1 DEF ToSet
    <3>2. i - 1 \in 1 .. Len(parsed)
      BY <2>5, <3>1
    <3>3. CASE i = Len(parsed) + 1
      BY <2>4, <2>5, <2>7, <3>1, <3>2, <3>3
    <3>4. CASE i # Len(parsed) + 1
      <4>1. i \in 2 .. Len(parsed) /\ i \in 1 .. Len(parsed)
        BY <2>5, <3>1, <3>4
      <4> QED  BY <1>10, <2>5, <3>2, <4>1
    <3> QED  BY <3>3, <3>4
  <2>9. StandardTextsKept'
    <3>1. p.originalLine = o /\ p.translatedLine = next
          /\ MovesQuotesOf(p, lines[o + 1].original, lines[next + 1].translated)
      BY <1>6, <2>2, <2>4
    <3>2. \A q \in ToSet(parsed') :
            MovesQuotesOf(q, lines[q.originalLine + 1].original, lines[q.translatedLine + 1].translated)
      BY <1>14, <2>5, <3>1
    <3> QED  BY <1>2, <3>2 DEF StandardTextsKept
  <2>10. PendingOK'
    <3>1. << >> \in Seq([groups : Groups, line : Nat])
      OBVIOUS
    <3>2. \A k \in Nat : ~Waits(k)'
      BY <1>4, <1>12, <1>19
    <3> QED  BY <2>1, <3>1, <3>2 DEF PendingOK
  <2>11. StandardPairsExact'
    BY <1>13, <2>6, <2>8
  <2> QED  BY <1>8, <1>9, <1>15, <2>5, <2>9, <2>10, <2>11 DEF PairInv
<1>20. CASE line.original = NoMatch /\ ~(pending # << >> /\ line.translated # NoMatch)
  <2>1. pending' = pending /\ parsed' = parsed
    BY <1>3, <1>20
  <2>2. ~IsOriginal(next) /\ \A o \in Nat : Waits(o) => ~IsTranslation(next)
    BY <1>4, <1>12, <1>20
  <2>3. LinePairs(next + 1) = LinePairs(next)
    BY <1>11, <2>2
  <2>4. ASSUME NEW o \in Nat PROVE Waits(o)' <=> pending' # << >> /\ pending'[1].line = o
    BY <1>12, <2>1, <2>2
  <2>5. PendingOK'
    <3>1. pending \in Seq([groups : Groups, line : Nat])
      BY <1>1 DEF PendingOK
    <3>2. pending # << >> =>
            /\ Len(pending) = 1 /\ pending[1].line \in 0 .. Len(lines) - 1
            /\ lines[pending[1].line + 1].original # NoMatch
            /\ pending[1].groups = lines[pending[1].line + 1].original
      BY <1>1 DEF PendingOK
    <3>3. pending' # << >> =>
            /\ Len(pending') = 1 /\ pending'[1].line \in 0 .. Len(lines') - 1
            /\ lines'[pending'[1].line + 1].original # NoMatch
            /\ pending'[1].groups = lines'[pending'[1].line + 1].original
      BY <1>2, <2>1, <3>2
    <3> QED  BY <2>1, <2>4, <3>1, <3>3 DEF PendingOK
  <2> QED  BY <1>8, <1>9, <1>15, <1>16, <1>17, <2>1, <2>3, <2>5 DEF PairInv
<1> QED  BY <1>18, <1>19, <1>20

-----------------------------------------------------------------------------
(* Line numbers. *)

LEMMA CountedBreaks ==
  ASSUME NEW from \in Nat, NEW to \in Nat
  PROVE  /\ IsFiniteSet({k \in from + 1 .. to : isBreak[k]})
         /\ CountNewlines(from, to) \in Nat
<1> DEFINE X == {k \in from + 1 .. to : isBreak[k]}
<1>1. IsFiniteSet(from + 1 .. to) /\ X \subseteq from + 1 .. to
  <2>1. from + 1 \in Int /\ to \in Int
    OBVIOUS
  <2> QED  BY <2>1, FS_Interval
<1> HIDE DEF X
<1>2. IsFiniteSet(X)
  BY <1>1, FS_Subset
<1>3. Cardinality(X) \in Nat
  BY <1>2, FS_CardinalityType
<1> QED  BY <1>2, <1>3 DEF CountNewlines, X

\* The line starts up to a position inside the text number it as its LFs do.
LEMMA LineOfPosition ==
  ASSUME NEW at \in Nat, Len(isBreak) \in Nat, at < Len(isBreak)
  PROVE  QueryLineNumber(at) = CountNewlines(0, at)
<1> DEFINE X == {k \in 0 + 1 .. at : isBreak[k]}
           starts == {k \in BuildLineStarts : k <= at}
<1>1. starts = X \cup {0} /\ 0 \notin X
  <2>1. 0 + 1 .. at \subseteq 1 .. Len(isBreak) - 1
    OBVIOUS
  <2>2. \A k \in 1 .. Len(isBreak) - 1 : k <= at => k \in 0 + 1 .. at
    OBVIOUS
  <2>3. \A k \in 0 + 1 .. at : k <= at /\ k # 0
    OBVIOUS
  <2>4. 0 <= at
    OBVIOUS
  <2> QED  BY <2>1, <2>2, <2>3, <2>4 DEF BuildLineStarts
<1>2. IsFiniteSet(X) /\ CountNewlines(0, at) = Cardinality(X) /\ Cardinality(X) \in Nat
  <2>1. 0 \in Nat
    OBVIOUS
  <2> QED  BY <2>1, CountedBreaks DEF CountNewlines
<1>3. QueryLineNumber(at) = Cardinality(starts) - 1
  BY DEF QueryLineNumber
<1> HIDE DEF X, starts
<1>4. Cardinality(X \cup {0}) = Cardinality(X) + 1
  BY <1>1, <1>2, FS_AddElement
<1> QED  BY <1>1, <1>2, <1>3, <1>4

LEMMA BreaksAddUp ==
  ASSUME NEW at \in Nat, NEW to \in Nat, at <= to
  PROVE  CountNewlines(0, at) + CountNewlines(at, to) = CountNewlines(0, to)
<1> DEFINE X == {k \in 0 + 1 .. at : isBreak[k]}
           Y == {k \in at + 1 .. to : isBreak[k]}
           Z == {k \in 0 + 1 .. to : isBreak[k]}
<1>1. Z = X \cup Y /\ X \cap Y = {}
  <2>1. 0 + 1 .. to = (0 + 1 .. at) \cup (at + 1 .. to)
    OBVIOUS
  <2>2. (0 + 1 .. at) \cap (at + 1 .. to) = {}
    OBVIOUS
  <2> QED  BY <2>1, <2>2
<1>2. /\ IsFiniteSet(X) /\ IsFiniteSet(Y)
      /\ CountNewlines(0, at) \in Nat /\ CountNewlines(at, to) \in Nat
  <2>1. 0 \in Nat
    OBVIOUS
  <2> QED  BY <2>1, CountedBreaks
<1>3. /\ CountNewlines(0, at) = Cardinality(X) /\ CountNewlines(at, to) = Cardinality(Y)
      /\ CountNewlines(0, to) = Cardinality(Z)
  BY DEF CountNewlines
<1> HIDE DEF X, Y, Z
<1>4. Cardinality(X \cup Y) = Cardinality(X) + Cardinality(Y) - Cardinality(X \cap Y)
  BY <1>2, FS_Union
<1>5. Cardinality({}) = 0
  BY FS_EmptySet
<1>6. Cardinality(Z) = Cardinality(X) + Cardinality(Y) - 0
  BY <1>1, <1>4, <1>5, Zenon
<1>7. Cardinality(X) \in Nat /\ Cardinality(Y) \in Nat
  BY <1>2, <1>3
<1> QED  BY <1>3, <1>6, <1>7

\* A step of the text-block parser.
LEMMA ParseBlockStep == PairInv /\ ParseBlock => PairInv'
<1> SUFFICES ASSUME PairInv, ParseBlock PROVE PairInv'
  OBVIOUS
<1> DEFINE block == blocks[next + 1]
           line == block.line
           first == QueryLineNumber(block.at)
           o == first + CountNewlines(block.at, block.jp)
           t == first + CountNewlines(block.at, block.cn)
           p == AdjustedPair(line.original, line.translated, o, t)
<1>1. /\ InputOK /\ PendingOK /\ next \in Nat /\ parsed \in Seq(Pair)
      /\ BlockPairsExact
  BY DEF PairInv
<1>2. /\ parser = "text-block" /\ next < Len(blocks) /\ next' = next + 1
      /\ parser' = parser /\ lines' = lines /\ isBreak' = isBreak /\ blocks' = blocks
      /\ pending' = pending
  BY DEF ParseBlock
<1>3. \/ /\ line.original = NoMatch \/ line.translated = NoMatch
         /\ parsed' = parsed
      \/ /\ line.original # NoMatch /\ line.translated # NoMatch
         /\ parsed' = Append(parsed, p)
  BY DEF ParseBlock
<1>4. block \in ToSet(blocks) /\ block \in Block
  <2>1. blocks \in Seq(Block) /\ Len(blocks) \in Nat /\ next + 1 \in 1 .. Len(blocks)
    BY <1>1, <1>2 DEF InputOK
  <2>2. blocks[next + 1] \in Block
    BY <2>1
  <2> QED  BY <2>1, <2>2 DEF ToSet
<1>5. /\ block.at \in Nat /\ block.jp \in Nat /\ block.cn \in Nat /\ line \in Line
      /\ Len(isBreak) \in Nat
      /\ block.at < Len(isBreak) /\ block.at <= block.jp /\ block.at <= block.cn
  <2>1. block.at \in Nat /\ block.jp \in Nat /\ block.cn \in Nat /\ line \in Line
    BY <1>4 DEF Block
  <2>2. /\ isBreak \in Seq(BOOLEAN)
        /\ block.at < Len(isBreak) /\ block.at <= block.jp /\ block.at <= block.cn
    BY <1>1, <1>4 DEF InputOK
  <2> QED  BY <2>1, <2>2
<1>6. block = blocks[next + 1] /\ line = block.line
  OBVIOUS
<1> HIDE DEF block
<1>7. /\ o = CountNewlines(0, block.jp) /\ t = CountNewlines(0, block.cn)
      /\ o \in Nat /\ t \in Nat
  <2>1. first = CountNewlines(0, block.at)
    BY <1>5, LineOfPosition
  <2>2. /\ CountNewlines(0, block.at) + CountNewlines(block.at, block.jp) = CountNewlines(0, block.jp)
        /\ CountNewlines(0, block.at) + CountNewlines(block.at, block.cn) = CountNewlines(0, block.cn)
    BY <1>5, BreaksAddUp
  <2>3. CountNewlines(0, block.jp) \in Nat /\ CountNewlines(0, block.cn) \in Nat
    <3>1. 0 \in Nat
      OBVIOUS
    <3> QED  BY <1>5, <3>1, CountedBreaks
  <2> HIDE DEF first
  <2> QED  BY <2>1, <2>2, <2>3
<1> HIDE DEF line, o, t
<1>8. InputOK'
  BY <1>1, <1>2 DEF InputOK
<1>9. next' \in Nat
  BY <1>1, <1>2
<1>10. PendingOK'
  <2>1. parser' # "standard"
    BY <1>2
  <2>2. /\ pending' \in Seq([groups : Groups, line : Nat])
        /\ pending' # << >> =>
             /\ Len(pending') = 1 /\ pending'[1].line \in 0 .. Len(lines') - 1
             /\ lines'[pending'[1].line + 1].original # NoMatch
             /\ pending'[1].groups = lines'[pending'[1].line + 1].original
    BY <1>1, <1>2 DEF PendingOK
  <2> QED  BY <2>1, <2>2 DEF PendingOK
<1>11. StandardPairsExact'
  <2>1. parser' # "standard"
    BY <1>2
  <2> QED  BY <2>1 DEF StandardPairsExact
<1>12. StandardTextsKept'
  <2>1. parser' # "standard"
    BY <1>2
  <2> QED  BY <2>1 DEF StandardTextsKept
<1>13. /\ \A q \in ToSet(parsed) : \E i \in 1 .. next : PairOfBlock(q, blocks[i])
       /\ \A i \in 1 .. next :
            blocks[i].line.original # NoMatch /\ blocks[i].line.translated # NoMatch =>
              \E q \in ToSet(parsed) : PairOfBlock(q, blocks[i])
  BY <1>1, <1>2 DEF BlockPairsExact
<1>14. ASSUME /\ \A q \in ToSet(parsed') : \E i \in 1 .. next' : PairOfBlock(q, blocks[i])
              /\ \A i \in 1 .. next' :
                   blocks[i].line.original # NoMatch /\ blocks[i].line.translated # NoMatch =>
                     \E q \in ToSet(parsed') : PairOfBlock(q, blocks[i])
       PROVE  BlockPairsExact'
  <2>1. ASSUME NEW q, NEW b PROVE PairOfBlock(q, b)' <=> PairOfBlock(q, b)
    BY <1>2 DEF PairOfBlock, CountNewlines
  <2> QED  BY <1>2, <1>14, <2>1 DEF BlockPairsExact
<1>15. 1 .. next' = (1 .. next) \cup {next + 1}
  BY <1>1, <1>2
<1>16. CASE (line.original = NoMatch \/ line.translated = NoMatch) /\ parsed' = parsed
  <2>1. BlockPairsExact'
    BY <1>6, <1>13, <1>14, <1>15, <1>16
  <2> QED  BY <1>1, <1>8, <1>9, <1>10, <1>11, <1>12, <1>16, <2>1 DEF PairInv
<1>17. CASE line.original # NoMatch /\ line.translated # NoMatch /\ parsed' = Append(parsed, p)
  <2>1. line.original \in Groups /\ line.translated \in Groups
    BY <1>5, <1>17 DEF Line
  <2>2. /\ p \in Pair /\ p.originalLine = o /\ p.translatedLine = t
        /\ MovesQuotesOf(p, line.original, line.translated)
    BY <1>7, <2>1, AdjustFacts
  <2> HIDE DEF p
  <2>3. parsed' \in Seq(Pair) /\ ToSet(parsed') = ToSet(parsed) \cup {p}
    BY <1>1, <1>17, <2>2, OneMore
  <2>4. PairOfBlock(p, block)
    BY <1>6, <1>7, <1>17, <2>2 DEF PairOfBlock
  <2>5. BlockPairsExact'
    BY <1>6, <1>13, <1>14, <1>15, <2>3, <2>4
  <2> QED  BY <1>8, <1>9, <1>10, <1>11, <1>12, <2>3, <2>5 DEF PairInv
<1> QED  BY <1>3, <1>16, <1>17

LEMMA PairInvAlways == ParserSpec => []PairInv
<1>1. PairInv /\ [ParserNext]_parserVars => PairInv'
  <2>1. PairInv /\ UNCHANGED parserVars => PairInv'
    <3> SUFFICES ASSUME PairInv, UNCHANGED parserVars PROVE PairInv'
      OBVIOUS
    <3>1. InputOK' /\ next' \in Nat /\ parsed' \in Seq(Pair)
      BY DEF parserVars, PairInv, InputOK
    <3>2. PendingOK'
      BY DEF parserVars, PairInv, PendingOK, Waits, IsOriginal, IsTranslation
    <3>3. StandardPairsExact'
      BY DEF parserVars, PairInv, StandardPairsExact, Translates, IsOriginal, IsTranslation
    <3>4. StandardTextsKept'
      BY DEF parserVars, PairInv, StandardTextsKept
    <3>5. BlockPairsExact'
      <4>1. ASSUME NEW q, NEW b PROVE PairOfBlock(q, b)' <=> PairOfBlock(q, b)
        BY DEF parserVars, PairOfBlock, CountNewlines
      <4>2. /\ parser' = parser /\ parsed' = parsed /\ next' = next /\ blocks' = blocks
            /\ BlockPairsExact
        BY DEF parserVars, PairInv
      <4> QED  BY <4>1, <4>2 DEF BlockPairsExact
    <3> QED  BY <3>1, <3>2, <3>3, <3>4, <3>5 DEF PairInv
  <2> QED  BY <2>1, ParseLineStep, ParseBlockStep DEF ParserNext
<1> QED  BY <1>1, ParsingStarts, PTL DEF ParserSpec

\* For any lines and any text with any matches, either parser pairs exactly the
\* lines that belong together, numbers them as the text does, and moves the outer
\* quotes alone.
THEOREM PairsAlwaysExact == ParserSpec => []PairsExact
BY PairInvAlways, PairsHold, PTL

=============================================================================
