----------------------------- MODULE TextParser -----------------------------
(***************************************************************************)
(* The two parsers of bridge_text: pairs of an original and a translated   *)
(* line.  What trim_right and the regular expressions make of a line is    *)
(* part of the input: its groups as an original line and as a translated   *)
(* one, if it matches.  The standard parser goes through the lines, the    *)
(* text-block parser through the matches of its pattern in the text.       *)
(* Lines are numbered from 0.                                              *)
(***************************************************************************)
EXTENDS Naturals, FiniteSets, SequencesExt

\* Characters that mean something to the parsers; any other is "x".
Corner == [open |-> "corner open", close |-> "corner close"]
Kagi == [open |-> "kagi open", close |-> "kagi close"]
Chinese == [open |-> "chinese open", close |-> "chinese close"]
Char == {"corner open", "corner close", "kagi open", "kagi close",
         "chinese open", "chinese close", "x"}

\* MatchedGroups without the prefix, which nothing looks at; NoMatch otherwise.
Groups == [white : Seq(Char), text : Seq(Char), suffix : Seq(Char)]
NoMatch == [white |-> "no match"]
Line == [original : Groups \cup {NoMatch}, translated : Groups \cup {NoMatch}]

\* A match of the pattern: the positions of the match and of its groups jp and cn
\* in the text, and what the line expressions make of the two.
Block == [at : Nat, jp : Nat, cn : Nat, line : Line]

VARIABLES
  parser,   \* "standard" or "text-block"
  lines,    \* of the standard parser
  isBreak,  \* of the text-block parser: which characters of the text are LFs
  blocks,   \* the matches of its pattern
  next,     \* the line or match to be looked at, from 0
  pending,  \* pending_original with its line, as a sequence of at most one
  parsed    \* the pairs

parserVars == <<parser, lines, isBreak, blocks, next, pending, parsed>>

Pair == [original : Groups, translated : Groups, originalLine : Nat, translatedLine : Nat]

ParserTypeOK ==
  /\ parser \in {"standard", "text-block"}
  /\ lines \in Seq(Line) /\ isBreak \in Seq(BOOLEAN) /\ blocks \in Seq(Block)
  /\ next \in Nat
  /\ pending \in Seq([groups : Groups, line : Nat])
  /\ parsed \in Seq(Pair)

-----------------------------------------------------------------------------
(* Quotes. *)

\* The stack of check_valid after n characters: positions of open quotes.
OpenQuotes(text) ==
  LET stack[n \in 0 .. Len(text)] ==
        IF n = 0 THEN << >>
        ELSE IF text[n] = Corner.open THEN Append(stack[n - 1], n)
        ELSE IF text[n] = Corner.close /\ stack[n - 1] # << >> THEN Front(stack[n - 1])
        ELSE stack[n - 1]
  IN  stack

\* Mutant of CheckValid: a closing quote without an opening one is not moved.
CheckValidPairsOnly(text) ==
  LET n == Len(text)
      before == OpenQuotes(text)[n - 1]
      after == OpenQuotes(text)[n]
  IN  IF text[n] = Corner.close /\ before # << >> /\ Last(before) = 1
      THEN [prefix |-> TRUE, suffix |-> TRUE]
      ELSE [prefix |-> after # << >> /\ Head(after) = 1, suffix |-> FALSE]

\* check_valid of a text that is not empty; its returns within the loop are those
\* of the last character.
CheckValid(text) ==
  LET n == Len(text)
      before == OpenQuotes(text)[n - 1]
      after == OpenQuotes(text)[n]
  IN  IF text[n] = Corner.close /\ before # << >> /\ Last(before) = 1
      THEN [prefix |-> TRUE, suffix |-> TRUE]
      ELSE IF text[n] = Corner.close /\ before = << >>
      THEN [prefix |-> FALSE, suffix |-> TRUE]
      ELSE [prefix |-> after # << >> /\ Head(after) = 1, suffix |-> FALSE]

\* The first character of the text goes to the white space, or the last to the
\* suffix.
MoveFirst(g) == [g EXCEPT !.white = Append(@, Head(g.text)), !.text = Tail(@)]
MoveLast(g) == [g EXCEPT !.suffix = <<Last(g.text)>> \o @, !.text = Front(@)]
StartsWithOneOf(g, chars) == g.text # << >> /\ Head(g.text) \in chars
EndsWithOneOf(g, chars) == g.text # << >> /\ Last(g.text) \in chars

\* The early returns of adjust.
LeftAlone(original) ==
  \/ Contains(original.white, Kagi.open)
  \/ Contains(original.suffix, Kagi.close)
  \/ original.text = << >>
  \/ Head(original.text) # Corner.open /\ Last(original.text) # Corner.close

Adjust(original, translated) ==
  IF LeftAlone(original) THEN [original |-> original, translated |-> translated]
  ELSE
    LET move == CheckValid(original.text)
        first == IF move.prefix THEN MoveFirst(original) ELSE original
        opened == IF move.prefix /\ StartsWithOneOf(translated, {Corner.open, Chinese.open})
                  THEN MoveFirst(translated) ELSE translated
    IN  [original |-> IF move.suffix /\ first.text # << >> THEN MoveLast(first) ELSE first,
         translated |->
           IF move.suffix /\ EndsWithOneOf(opened, {Corner.close, Chinese.close})
           THEN MoveLast(opened) ELSE opened]

AdjustedPair(original, translated, o, t) ==
  LET adjusted == Adjust(original, translated)
  IN  [original |-> adjusted.original, translated |-> adjusted.translated,
       originalLine |-> o, translatedLine |-> t]

-----------------------------------------------------------------------------
(* StandardTextParser::parse_paired_lines *)

\* Mutant of ParseLine: an original line that waits for its translation is not
\* replaced by a later one.
ParseLineKeepingFirst ==
  /\ parser = "standard" /\ next < Len(lines)
  /\ next' = next + 1
  /\ LET line == lines[next + 1]
     IN  IF line.original # NoMatch /\ pending = << >>
         THEN pending' = <<[groups |-> line.original, line |-> next]>> /\ UNCHANGED parsed
         ELSE IF pending # << >> /\ line.translated # NoMatch
         THEN /\ parsed' = Append(parsed,
                   AdjustedPair(pending[1].groups, line.translated, pending[1].line, next))
              /\ pending' = << >>
         ELSE UNCHANGED <<pending, parsed>>
  /\ UNCHANGED <<parser, lines, isBreak, blocks>>

ParseLine ==
  /\ parser = "standard" /\ next < Len(lines)
  /\ next' = next + 1
  /\ LET line == lines[next + 1]
     IN  IF line.original # NoMatch
         THEN pending' = <<[groups |-> line.original, line |-> next]>> /\ UNCHANGED parsed
         ELSE IF pending # << >> /\ line.translated # NoMatch
         THEN /\ parsed' = Append(parsed,
                   AdjustedPair(pending[1].groups, line.translated, pending[1].line, next))
              /\ pending' = << >>
         ELSE UNCHANGED <<pending, parsed>>
  /\ UNCHANGED <<parser, lines, isBreak, blocks>>

-----------------------------------------------------------------------------
(* TextBlockParser::parse_paired_lines *)

\* build_line_starts: where the lines begin; an LF at the very end begins none.
BuildLineStarts == {0} \cup {k \in 1 .. Len(isBreak) - 1 : isBreak[k]}

\* query_line_number: upper_bound in the line starts.
QueryLineNumber(index) == Cardinality({k \in BuildLineStarts : k <= index}) - 1

\* count_newlines between two positions
CountNewlines(from, to) == Cardinality({k \in from + 1 .. to : isBreak[k]})

ParseBlock ==
  /\ parser = "text-block" /\ next < Len(blocks)
  /\ next' = next + 1
  /\ LET block == blocks[next + 1]
         line == block.line
         first == QueryLineNumber(block.at)
     IN  IF line.original = NoMatch \/ line.translated = NoMatch THEN UNCHANGED parsed
         ELSE parsed' = Append(parsed,
                AdjustedPair(line.original, line.translated,
                             first + CountNewlines(block.at, block.jp),
                             first + CountNewlines(block.at, block.cn)))
  /\ UNCHANGED <<parser, lines, isBreak, blocks, pending>>

ParserNext == ParseLine \/ ParseBlock

\* A call of either.  A match is not empty, so that it begins in a line of its own
\* number even at the end of the text, and its groups do not begin ahead of it.
ParserInit ==
  /\ parser \in {"standard", "text-block"}
  /\ lines \in Seq(Line) /\ isBreak \in Seq(BOOLEAN) /\ blocks \in Seq(Block)
  /\ \A b \in ToSet(blocks) :
       /\ b.at < Len(isBreak) /\ b.at <= b.jp /\ b.at <= b.cn
       /\ b.jp <= Len(isBreak) /\ b.cn <= Len(isBreak)
  /\ next = 0 /\ pending = << >> /\ parsed = << >>

ParserSpec == ParserInit /\ [][ParserNext]_parserVars

-----------------------------------------------------------------------------
(* Properties. *)

IsOriginal(k) == lines[k + 1].original # NoMatch
IsTranslation(k) == ~IsOriginal(k) /\ lines[k + 1].translated # NoMatch

\* Line t translates line o: nothing between them is original or translation.
Translates(o, t) ==
  /\ IsOriginal(o) /\ IsTranslation(t)
  /\ \A k \in o + 1 .. t - 1 : ~IsOriginal(k) /\ ~IsTranslation(k)

\* The standard parser pairs each original line with the translation that
\* follows it before any other original, and with no other; a dangling original
\* or a translation of nothing costs no other pair.
StandardPairsExact ==
  parser = "standard" =>
    /\ {<<p.originalLine, p.translatedLine>> : p \in ToSet(parsed)} =
         {p \in (0 .. next - 1) \X (0 .. next - 1) : p[1] < p[2] /\ Translates(p[1], p[2])}
    /\ \A i \in 2 .. Len(parsed) : parsed[i - 1].translatedLine < parsed[i].originalLine

\* Quotes that belong together: everything opened between them is closed there.
Count(text, from, to, char) == Cardinality({k \in from .. to : text[k] = char})
Partners(text, i, j) ==
  /\ i < j /\ text[i] = Corner.open /\ text[j] = Corner.close
  /\ \A k \in i .. j :
       Count(text, i, k, Corner.open) > Count(text, i, k, Corner.close) <=> k # j

WholeText(g) == g.white \o g.text \o g.suffix

\* The corner quotes at the ends of an original text leave it exactly when they
\* belong together or to nothing; a quote that belongs to one inside stays.  The
\* translation loses a quote only where the original does, and no character of
\* either line is lost.
MovesQuotesOf(p, original, translated) ==
  LET text == original.text
      n == Len(text)
      alone == Contains(original.white, Kagi.open) \/ Contains(original.suffix, Kagi.close)
      opens == /\ n > 0 /\ ~alone /\ text[1] = Corner.open
               /\ \A j \in 2 .. n - 1 : ~Partners(text, 1, j)
      closes == /\ n > 0 /\ ~alone /\ text[n] = Corner.close
                /\ \A i \in 2 .. n - 1 : ~Partners(text, i, n)
  IN  /\ p.original.text = SubSeq(text, IF opens THEN 2 ELSE 1, IF closes THEN n - 1 ELSE n)
      /\ WholeText(p.original) = WholeText(original)
      /\ WholeText(p.translated) = WholeText(translated)
      /\ p.translated.white # translated.white => opens
      /\ p.translated.suffix # translated.suffix => closes

\* A pair of the standard parser says what its own two lines say.
StandardTextsKept ==
  parser = "standard" =>
    \A p \in ToSet(parsed) :
      MovesQuotesOf(p, lines[p.originalLine + 1].original, lines[p.translatedLine + 1].translated)

\* A pair that comes from a match: both of its lines match their expressions, and
\* their numbers are those of the text.
PairOfBlock(p, block) ==
  /\ block.line.original # NoMatch /\ block.line.translated # NoMatch
  /\ p.originalLine = CountNewlines(0, block.jp)
  /\ p.translatedLine = CountNewlines(0, block.cn)
  /\ MovesQuotesOf(p, block.line.original, block.line.translated)

\* The text-block parser has a pair for each match whose lines match, and no other.
BlockPairsExact ==
  parser = "text-block" =>
    /\ \A p \in ToSet(parsed) : \E i \in 1 .. next : PairOfBlock(p, blocks[i])
    /\ \A i \in 1 .. next :
         blocks[i].line.original # NoMatch /\ blocks[i].line.translated # NoMatch =>
           \E p \in ToSet(parsed) : PairOfBlock(p, blocks[i])

\* The pairs are those of the text, in either format, and each keeps what its
\* lines say but for the quotes around them.
PairsExact == ParserTypeOK /\ StandardPairsExact /\ StandardTextsKept /\ BlockPairsExact
=============================================================================
