--------------------------- MODULE MessageProofs ---------------------------
(***************************************************************************)
(* Messages, from the bytes to the answers.  Whatever a client sends, and  *)
(* however its stream is cut into reads, its messages are returned whole   *)
(* and in order.  Whatever messages come: each is answered as JSON-RPC     *)
(* asks for, and leaves nothing half done.  Whatever edits notifications   *)
(* tell of: the copy of a document is a text that the editor showed.       *)
(***************************************************************************)
EXTENDS Framing, MessageHandling, DocumentSync, FiniteSetTheorems, SequenceTheorems, TLAPS

-----------------------------------------------------------------------------
(* Sequences. *)

\* Named, so that the provers use it of these three sequences and no others.
Associate(s, t, u) == (s \o t) \o u = s \o (t \o u)

LEMMA TokensAssociative ==
  ASSUME NEW s \in Seq(Token), NEW t \in Seq(Token), NEW u \in Seq(Token)
  PROVE  Associate(s, t, u)
BY ConcatAssociative DEF Associate

LEMMA TokensJoined ==
  ASSUME NEW s \in Seq(Token), NEW t \in Seq(Token)
  PROVE  /\ s \o t \in Seq(Token)
         /\ Len(s \o t) = Len(s) + Len(t) /\ Len(s) \in Nat /\ Len(t) \in Nat
BY ConcatProperties

\* The first n of a sequence, and what is left without them.
Initial(s, n) == SubSeq(s, 1, n)
Remainder(s, n) == SubSeq(s, n + 1, Len(s))

LEMMA Halves ==
  ASSUME NEW s \in Seq(Token), NEW n \in Nat, n <= Len(s)
  PROVE  /\ Initial(s, n) \in Seq(Token) /\ Len(Initial(s, n)) = n
         /\ \A i \in 1 .. n : Initial(s, n)[i] = s[i]
         /\ Remainder(s, n) \in Seq(Token) /\ Len(Remainder(s, n)) = Len(s) - n
         /\ Initial(s, n) \o Remainder(s, n) = s
<1>1. Len(s) \in Nat
  OBVIOUS
<1>2. /\ SubSeq(s, 1, n) \in Seq(Token) /\ Len(SubSeq(s, 1, n)) = n
      /\ \A i \in 1 .. n : SubSeq(s, 1, n)[i] = s[i]
  BY <1>1
<1>3. SubSeq(s, n + 1, Len(s)) \in Seq(Token) /\ Len(SubSeq(s, n + 1, Len(s))) = Len(s) - n
  BY <1>1
<1>4. 1 \in 1 .. Len(s) + 1 /\ n \in 1 - 1 .. Len(s) /\ Len(s) \in n .. Len(s)
  BY <1>1
<1>5. SubSeq(s, 1, n) \o SubSeq(s, n + 1, Len(s)) = SubSeq(s, 1, Len(s))
  BY <1>4, ConcatAdjacentSubSeq
<1>6. SubSeq(s, 1, Len(s)) = s
  BY SubSeqFull
<1>7. Initial(s, n) \o Remainder(s, n) = s
  BY <1>5, <1>6, Zenon DEF Initial, Remainder
<1> QED  BY <1>2, <1>3, <1>7 DEF Initial, Remainder

\* b and c together are h and r together, and h is in b.
Cuts(b, c, h, r) == b \o c = h \o r /\ Len(h) <= Len(b)

\* What a sequence begins with can be taken off a part of it that holds it.
LEMMA TakenOff ==
  ASSUME NEW b \in Seq(Token), NEW c \in Seq(Token), NEW h \in Seq(Token), NEW r \in Seq(Token),
         Cuts(b, c, h, r)
  PROVE  Initial(b, Len(h)) = h /\ Remainder(b, Len(h)) \in Seq(Token) /\ Remainder(b, Len(h)) \o c = r
<1> DEFINE e == Initial(b, Len(h))
           f == Remainder(b, Len(h))
<1>1. b \o c = h \o r /\ Len(b) \in Nat /\ Len(h) \in Nat /\ Len(h) <= Len(b)
  BY DEF Cuts
<1>2. /\ e \in Seq(Token) /\ Len(e) = Len(h) /\ \A i \in 1 .. Len(h) : e[i] = b[i]
      /\ f \in Seq(Token) /\ e \o f = b
  BY <1>1, Halves
<1>3. /\ \A i \in 1 .. Len(b) : (b \o c)[i] = b[i]
      /\ \A i \in 1 .. Len(h) : (h \o r)[i] = h[i]
  BY ConcatProperties
<1>4. \A i \in 1 .. Len(h) : i \in 1 .. Len(b)
  BY <1>1
<1> HIDE DEF e, f
<1>5. e = h
  <2>1. ASSUME NEW i \in 1 .. Len(h) PROVE e[i] = h[i]
    <3>1. e[i] = b[i]
      BY <1>2, Zenon
    <3>2. (b \o c)[i] = b[i] /\ (h \o r)[i] = h[i]
      BY <1>3, <1>4, Zenon
    <3>3. (b \o c)[i] = (h \o r)[i]
      BY <1>1, Zenon
    <3> QED  BY <3>1, <3>2, <3>3, Zenon
  <2> QED  BY <1>2, <2>1, SeqEqual
<1>6. e \o (f \o c) = h \o r
  <2>1. e \in Seq(Token) /\ f \in Seq(Token)
    BY <1>2
  <2>2. (e \o f) \o c = e \o (f \o c)
    <3>1. Associate(e, f, c)
      BY <2>1, TokensAssociative
    <3> QED  BY <3>1, Zenon DEF Associate
  <2>3. e \o f = b
    BY <1>2
  <2> QED  BY <1>1, <2>2, <2>3, Zenon
<1>7. f \o c \in Seq(Token)
  <2>1. f \in Seq(Token)
    BY <1>2
  <2> QED  BY <2>1, TokensJoined
<1>8. h \o (f \o c) = h \o r
  BY <1>5, <1>6, Zenon
<1>9. f \o c = r
  <2> DEFINE u == f \o c
  <2>1. u \in Seq(Token) /\ h \o u = h \o r
    BY <1>7, <1>8
  <2> HIDE DEF u
  <2>2. u = r
    BY <2>1, ConcatSimplifications
  <2> QED  BY <2>2 DEF u
<1> QED  BY <1>2, <1>5, <1>9 DEF e, f

\* A read moves tokens from one sequence to the other.
LEMMA Moved ==
  ASSUME NEW b \in Seq(Token), NEW c \in Seq(Token), NEW n \in Nat, n <= Len(c)
  PROVE  /\ b \o SubSeq(c, 1, n) \in Seq(Token) /\ SubSeq(c, n + 1, Len(c)) \in Seq(Token)
         /\ (b \o SubSeq(c, 1, n)) \o SubSeq(c, n + 1, Len(c)) = b \o c
<1> DEFINE e == Initial(c, n)
           f == Remainder(c, n)
<1>1. e \in Seq(Token) /\ f \in Seq(Token) /\ e \o f = c
  BY Halves
<1> HIDE DEF e, f
<1>2. (b \o e) \o f = b \o (e \o f)
  <2>1. Associate(b, e, f)
    BY <1>1, TokensAssociative
  <2> QED  BY <2>1, Zenon DEF Associate
<1>3. (b \o e) \o f = b \o c
  <2>1. e \o f = c
    BY <1>1
  <2> QED  BY <1>2, <2>1, Zenon
<1>4. b \o e \in Seq(Token)
  BY <1>1, TokensJoined
<1> QED  BY <1>1, <1>3, <1>4 DEF e, f, Initial, Remainder

\* Every set of numbers that is not empty has a least one, found among the
\* intervals from 1 to its members.
LEMMA LeastOf ==
  ASSUME NEW T, T \subseteq Nat, T # {}
  PROVE  \E x \in T : \A y \in T : x <= y
<1> DEFINE I == {1 .. n : n \in T}
<1>1. I # {} /\ I \subseteq FiniteSubsetsOf(Nat)
  <2>1. ASSUME NEW n \in T PROVE 1 .. n \subseteq Nat /\ IsFiniteSet(1 .. n)
    BY FS_Interval
  <2> QED  BY <2>1 DEF FiniteSubsetsOf
<1>2. IsWellFoundedOn(StrictSubsetOrdering(Nat), FiniteSubsetsOf(Nat))
  BY FS_StrictSubsetOrderingWellFounded
<1>3. \E s \in I : \A r \in I : ~ (<<r, s>> \in StrictSubsetOrdering(Nat))
  <2> HIDE DEF I
  <2> QED  BY <1>1, <1>2, WFMin
<1>4. PICK x \in T : \A y \in T : ~ (<<1 .. y, 1 .. x>> \in StrictSubsetOrdering(Nat))
  BY <1>3
<1>5. ASSUME NEW y \in T, y < x PROVE FALSE
  <2>1. 1 .. y \subseteq 1 .. x /\ 1 .. y # 1 .. x
    <3>1. x \in 1 .. x /\ x \notin 1 .. y
      BY <1>5
    <3> QED  BY <1>5, <3>1
  <2>2. <<1 .. y, 1 .. x>> \in StrictSubsetOrdering(Nat)
    <3>1. 1 .. y \in SUBSET Nat /\ 1 .. x \in SUBSET Nat
      OBVIOUS
    <3> QED  BY <2>1, <3>1 DEF StrictSubsetOrdering
  <2> QED  BY <2>2, <1>4, <1>5
<1> QED  BY <1>5

-----------------------------------------------------------------------------
(* Delimiters. *)

LEMMA DelimiterAt ==
  ASSUME NEW s \in Seq(Token), NEW k
  PROVE  k \in DelimiterEnds(s) <=>
           /\ k \in 4 .. Len(s)
           /\ s[k - 3] = "CR" /\ s[k - 2] = "LF" /\ s[k - 1] = "CR" /\ s[k] = "LF"
<1> SUFFICES ASSUME k \in 4 .. Len(s)
             PROVE  SubSeq(s, k - 3, k) = Delimiter <=>
                      s[k - 3] = "CR" /\ s[k - 2] = "LF" /\ s[k - 1] = "CR" /\ s[k] = "LF"
  BY DEF DelimiterEnds
<1> DEFINE d == SubSeq(s, k - 3, k)
<1>1. /\ k \in Int /\ k - 3 \in Int /\ k - 3 <= k /\ Len(s) \in Nat
      /\ \A i \in k - 3 .. k : i \in 1 .. Len(s)
  OBVIOUS
<1>2. /\ d \in Seq(Token) /\ Len(d) = IF k - 3 <= k THEN k - (k - 3) + 1 ELSE 0
      /\ \A i \in 1 .. k - (k - 3) + 1 : d[i] = s[k - 3 + i - 1]
  <2>1. \A i \in k - 3 .. k : s[i] \in Token
    BY <1>1
  <2> QED  BY <1>1, <2>1, SubSeqProperties
<1> HIDE DEF d
<1>3. (IF k - 3 <= k THEN k - (k - 3) + 1 ELSE 0) = 4 /\ k - (k - 3) + 1 = 4
  BY <1>1
<1>4. /\ k - 3 + 1 - 1 = k - 3 /\ k - 3 + 2 - 1 = k - 2
      /\ k - 3 + 3 - 1 = k - 1 /\ k - 3 + 4 - 1 = k
  BY <1>1
<1>5. d[1] = s[k - 3] /\ d[2] = s[k - 2] /\ d[3] = s[k - 1] /\ d[4] = s[k]
  <2>1. \A i \in 1 .. 4 : d[i] = s[k - 3 + i - 1]
    BY <1>2, <1>3
  <2>2. 1 \in 1 .. 4 /\ 2 \in 1 .. 4 /\ 3 \in 1 .. 4 /\ 4 \in 1 .. 4
    OBVIOUS
  <2> QED  BY <1>4, <2>1, <2>2
<1>6. d \in Seq(Token) /\ Len(d) = 4
  BY <1>2, <1>3
<1>7. /\ Delimiter \in Seq(Token) /\ Len(Delimiter) = 4
      /\ Delimiter[1] = "CR" /\ Delimiter[2] = "LF" /\ Delimiter[3] = "CR" /\ Delimiter[4] = "LF"
  BY DEF Delimiter, Token
<1>8. \A i \in 1 .. 4 : i = 1 \/ i = 2 \/ i = 3 \/ i = 4
  OBVIOUS
<1>9. ASSUME d[1] = "CR", d[2] = "LF", d[3] = "CR", d[4] = "LF" PROVE d = Delimiter
  <2> HIDE DEF Delimiter
  <2>1. \A i \in 1 .. 4 : d[i] = Delimiter[i]
    BY <1>7, <1>8, <1>9
  <2> QED  BY <1>6, <1>7, <2>1, SeqEqual
<1> QED  BY <1>5, <1>7, <1>9 DEF d

\* Sequences that begin alike have the same delimiters there.
LEMMA SameDelimiters ==
  ASSUME NEW s \in Seq(Token), NEW t \in Seq(Token), NEW k,
         \A i \in 1 .. k : s[i] = t[i], k <= Len(t), k \in DelimiterEnds(s)
  PROVE  k \in DelimiterEnds(t)
<1>1. /\ k \in 4 .. Len(s)
      /\ s[k - 3] = "CR" /\ s[k - 2] = "LF" /\ s[k - 1] = "CR" /\ s[k] = "LF"
  BY DelimiterAt
<1>2. /\ k \in 4 .. Len(t) /\ k - 3 \in 1 .. k /\ k - 2 \in 1 .. k /\ k - 1 \in 1 .. k
      /\ k \in 1 .. k
  <2>1. Len(t) \in Nat /\ Len(s) \in Nat
    OBVIOUS
  <2> QED  BY <1>1, <2>1
<1>3. t[k - 3] = "CR" /\ t[k - 2] = "LF" /\ t[k - 1] = "CR" /\ t[k] = "LF"
  BY <1>1, <1>2
<1> QED  BY <1>2, <1>3, DelimiterAt

\* The buffer has a header block as soon as it has all of the one that comes
\* first, and the first delimiter in it ends that one.
LEMMA FirstHeader ==
  ASSUME NEW b \in Seq(Token), NEW c \in Seq(Token), NEW h \in Seq(Token), NEW r \in Seq(Token),
         b \o c = h \o r, IsHeader(h)
  PROVE  /\ DelimiterEnds(b) # {} => Len(h) <= Len(b)
         /\ Len(h) <= Len(b) =>
              Len(h) \in DelimiterEnds(b) /\ \A k \in DelimiterEnds(b) : Len(h) <= k
<1>1. /\ Len(b) \in Nat /\ Len(h) \in Nat
      /\ \A i \in 1 .. Len(b) : (b \o c)[i] = b[i]
      /\ \A i \in 1 .. Len(h) : (h \o r)[i] = h[i]
  BY ConcatProperties
<1>2. \A i : i \in 1 .. Len(b) /\ i \in 1 .. Len(h) => b[i] = h[i]
  BY <1>1
<1>3. ASSUME NEW k \in DelimiterEnds(b), k < Len(h) PROVE FALSE
  <2>1. k \in 4 .. Len(b)
    BY DelimiterAt
  <2>2. \A i \in 1 .. k : i \in 1 .. Len(b) /\ i \in 1 .. Len(h)
    BY <1>1, <1>3, <2>1
  <2>3. \A i \in 1 .. k : b[i] = h[i]
    BY <1>2, <2>2
  <2>4. k <= Len(h)
    BY <1>1, <1>3, <2>1
  <2>5. k \in DelimiterEnds(h)
    BY <2>3, <2>4, SameDelimiters
  <2>6. k = Len(h)
    BY <2>5 DEF IsHeader
  <2> QED  BY <1>1, <1>3, <2>6
<1>4. \A k \in DelimiterEnds(b) : k \in Nat /\ k <= Len(b) /\ Len(h) <= k
  <2>1. \A k \in DelimiterEnds(b) : k \in 4 .. Len(b)
    BY DelimiterAt
  <2>2. \A k \in DelimiterEnds(b) : k \in Nat /\ k <= Len(b)
    BY <1>1, <2>1
  <2> QED  BY <1>1, <1>3, <2>2
<1>5. ASSUME Len(h) <= Len(b) PROVE Len(h) \in DelimiterEnds(b)
  <2>1. Len(h) \in DelimiterEnds(h)
    BY DEF IsHeader
  <2>2. \A i \in 1 .. Len(h) : h[i] = b[i]
    <3>1. \A i \in 1 .. Len(h) : i \in 1 .. Len(b)
      BY <1>1, <1>5
    <3> QED  BY <1>2, <3>1
  <2> QED  BY <1>5, <2>1, <2>2, SameDelimiters
<1>6. DelimiterEnds(b) # {} => Len(h) <= Len(b)
  BY <1>1, <1>4
<1> QED  BY <1>4, <1>5, <1>6

LEMMA FirstDelimiter ==
  ASSUME buffer \in Seq(Token), HasHeader
  PROVE  /\ HeaderLength \in DelimiterEnds(buffer)
         /\ \A k \in DelimiterEnds(buffer) : HeaderLength <= k
         /\ HeaderLength \in Nat /\ HeaderLength <= Len(buffer)
<1>1. \A k \in DelimiterEnds(buffer) : k \in Nat /\ k <= Len(buffer)
  <2>1. \A k \in DelimiterEnds(buffer) : k \in 4 .. Len(buffer)
    BY DelimiterAt
  <2> QED  BY <2>1
<1>2. \E k \in DelimiterEnds(buffer) : \A j \in DelimiterEnds(buffer) : k <= j
  <2>1. DelimiterEnds(buffer) \subseteq Nat /\ DelimiterEnds(buffer) # {}
    BY <1>1 DEF HasHeader
  <2> QED  BY <2>1, LeastOf
<1>3. /\ HeaderLength \in DelimiterEnds(buffer)
      /\ \A k \in DelimiterEnds(buffer) : HeaderLength <= k
  BY <1>2 DEF HeaderLength
<1> QED  BY <1>1, <1>3

\* The header block that is taken is the one that comes first.
LEMMA HeaderTaken ==
  ASSUME buffer \in Seq(Token), coming \in Seq(Token), HasHeader,
         NEW h \in Seq(Token), NEW r \in Seq(Token), buffer \o coming = h \o r, IsHeader(h)
  PROVE  /\ SubSeq(buffer, 1, HeaderLength) = h
         /\ SubSeq(buffer, HeaderLength + 1, Len(buffer)) \in Seq(Token)
         /\ SubSeq(buffer, HeaderLength + 1, Len(buffer)) \o coming = r
<1>1. Len(h) <= Len(buffer)
  BY FirstHeader DEF HasHeader
<1>2. Len(h) \in DelimiterEnds(buffer) /\ \A k \in DelimiterEnds(buffer) : Len(h) <= k
  BY <1>1, FirstHeader
<1>3. HeaderLength \in DelimiterEnds(buffer) /\ HeaderLength \in Nat /\ HeaderLength <= Len(h)
  BY <1>2, FirstDelimiter
<1>4. HeaderLength = Len(h)
  <2>1. Len(h) \in Nat /\ Len(h) <= HeaderLength
    BY <1>2, <1>3
  <2> QED  BY <1>3, <2>1
<1>5. /\ SubSeq(buffer, 1, Len(h)) = h
      /\ SubSeq(buffer, Len(h) + 1, Len(buffer)) \in Seq(Token)
      /\ SubSeq(buffer, Len(h) + 1, Len(buffer)) \o coming = r
  <2>1. Cuts(buffer, coming, h, r)
    BY <1>1 DEF Cuts
  <2>2. /\ Initial(buffer, Len(h)) = h
        /\ Remainder(buffer, Len(h)) \in Seq(Token)
        /\ Remainder(buffer, Len(h)) \o coming = r
    BY <2>1, TakenOff
  <2> QED  BY <2>2 DEF Initial, Remainder
<1> QED  BY <1>4, <1>5

\* Whatever comes, what is taken is a header block with which it begins.
LEMMA SomeHeaderTaken ==
  ASSUME buffer \in Seq(Token), coming \in Seq(Token), HasHeader
  PROVE  /\ HeaderLength \in 0 .. Len(buffer \o coming)
         /\ SubSeq(buffer, 1, HeaderLength) = SubSeq(buffer \o coming, 1, HeaderLength)
         /\ SubSeq(buffer, 1, HeaderLength) \in Seq(Token)
         /\ IsHeader(SubSeq(buffer, 1, HeaderLength))
         /\ SubSeq(buffer, HeaderLength + 1, Len(buffer)) \in Seq(Token)
         /\ Len(SubSeq(buffer, HeaderLength + 1, Len(buffer))) + Len(coming)
              = Len(buffer \o coming) - HeaderLength
<1> DEFINE m == HeaderLength
           h == SubSeq(buffer, 1, m)
           s == buffer \o coming
           v == SubSeq(s, 1, m)
<1>1. /\ m \in DelimiterEnds(buffer) /\ m \in Nat /\ m <= Len(buffer)
      /\ \A k \in DelimiterEnds(buffer) : m <= k
  BY FirstDelimiter
<1> HIDE DEF m
<1>2. Len(buffer) \in Nat /\ Len(coming) \in Nat
  OBVIOUS
<1>3. /\ s \in Seq(Token) /\ Len(s) = Len(buffer) + Len(coming)
      /\ \A i \in 1 .. Len(buffer) + Len(coming) :
           s[i] = IF i <= Len(buffer) THEN buffer[i] ELSE coming[i - Len(buffer)]
  BY ConcatProperties
<1>4. h \in Seq(Token) /\ Len(h) = m /\ \A i \in 1 .. m : h[i] = buffer[i]
  BY <1>1, <1>2
<1> HIDE DEF h, s
<1>5. m <= Len(s) /\ \A i \in 1 .. m : s[i] = buffer[i]
  <2>1. \A i \in 1 .. m : i <= Len(buffer) /\ i \in 1 .. Len(buffer) + Len(coming)
    BY <1>1, <1>2
  <2> QED  BY <1>1, <1>2, <1>3, <2>1
<1>6. v \in Seq(Token) /\ Len(v) = m /\ \A i \in 1 .. m : v[i] = s[i]
  BY <1>1, <1>3, <1>5
<1> HIDE DEF v
<1>7. h = v
  <2>1. \A i \in 1 .. m : h[i] = v[i]
    BY <1>4, <1>5, <1>6
  <2> QED  BY <1>4, <1>6, <2>1, SeqEqual
<1>8. IsHeader(h)
  <2>1. m \in DelimiterEnds(h)
    <3>1. \A i \in 1 .. m : buffer[i] = h[i]
      BY <1>4
    <3>2. m <= Len(h)
      BY <1>1, <1>4
    <3> QED  BY <1>1, <1>4, <3>1, <3>2, SameDelimiters
  <2>2. ASSUME NEW k \in DelimiterEnds(h) PROVE k = m
    <3>1. k \in 4 .. Len(h)
      BY <1>4, DelimiterAt
    <3>2. k <= m /\ k <= Len(buffer) /\ k \in Nat /\ \A i \in 1 .. k : i \in 1 .. m
      BY <1>1, <1>2, <1>4, <3>1
    <3>3. \A i \in 1 .. k : h[i] = buffer[i]
      BY <1>4, <3>2
    <3>4. k \in DelimiterEnds(buffer)
      BY <1>4, <3>2, <3>3, SameDelimiters
    <3> QED  BY <1>1, <3>2, <3>4
  <2> QED  BY <1>4, <2>1, <2>2 DEF IsHeader
<1>9. m \in 0 .. Len(s)
  BY <1>1, <1>2, <1>3, <1>5
<1> DEFINE w == SubSeq(buffer, m + 1, Len(buffer))
<1>10. w \in Seq(Token) /\ Len(w) = Len(buffer) - m
  BY <1>1, <1>2
<1> HIDE DEF w
<1>11. Len(w) + Len(coming) = Len(s) - m
  <2>1. Len(w) + Len(coming) = (Len(buffer) + Len(coming)) - m
    BY <1>1, <1>2, <1>10
  <2> QED  BY <1>3, <2>1
<1> QED  BY <1>4, <1>7, <1>8, <1>9, <1>10, <1>11 DEF m, h, s, v, w

LEMMA ContentLengthType ==
  ASSUME NEW header \in Seq(Token), ContentLength(header) # "none"
  PROVE  ContentLength(header) \in LengthLines
<1> DEFINE found == {k \in LineStarts(header) : header[k] \in LengthLines \cup {"badLength"}}
           first == CHOOSE k \in found : \A j \in found : k <= j
<1>1. ContentLength(header) =
        IF found = {} \/ header[first] = "badLength" THEN "none" ELSE header[first]
  BY DEF ContentLength
<1>2. found # {} /\ header[first] # "badLength" /\ ContentLength(header) = header[first]
  BY <1>1
<1>3. found \subseteq Nat
  <2>1. LineStarts(header) \subseteq DOMAIN header /\ DOMAIN header \subseteq Nat
    BY DEF LineStarts
  <2> QED  BY <2>1
<1>4. first \in found
  <2> HIDE DEF found
  <2>1. \E k \in found : \A j \in found : k <= j
    BY <1>2, <1>3, LeastOf
  <2> QED  BY <2>1
<1> HIDE DEF first
<1> QED  BY <1>2, <1>4

\* What frame_message writes is a message to the reader, whatever follows it.
THEOREM FrameIsRead ==
  ASSUME NEW payload \in Seq(Token), NEW after \in Seq(Token),
         \E line \in LengthLines : LengthOf[line] = Len(payload)
  PROVE  MessageAhead(FrameMessage(payload) \o after, payload, after)
<1> DEFINE line == CHOOSE l \in LengthLines : LengthOf[l] = Len(payload)
           header == <<line>> \o Delimiter
           s == FrameMessage(payload) \o after
<1>1. line \in LengthLines /\ LengthOf[line] = Len(payload)
  OBVIOUS
<1>2. FrameMessage(payload) = header \o payload
  BY DEF FrameMessage
<1> HIDE DEF line
<1>3. /\ line \in Token /\ line \notin {"CR", "LF", "blank", "other", "badLength", "none"}
  BY <1>1, LengthAssumption DEF Token
<1>4. /\ header \in Seq(Token) /\ Len(header) = 5 /\ header[1] = line
      /\ header[2] = "CR" /\ header[3] = "LF" /\ header[4] = "CR" /\ header[5] = "LF"
  BY <1>3 DEF Delimiter, Token
<1> HIDE DEF header
<1>5. IsHeader(header)
  <2>1. 5 \in DelimiterEnds(header)
    <3>1. 5 \in 4 .. 5 /\ 5 - 3 = 2 /\ 5 - 2 = 3 /\ 5 - 1 = 4
      OBVIOUS
    <3>2. header \in Seq(Token)
      BY <1>4
    <3>3. /\ 5 \in 4 .. Len(header) /\ header[5 - 3] = "CR" /\ header[5 - 2] = "LF"
          /\ header[5 - 1] = "CR" /\ header[5] = "LF"
      BY <1>4, <3>1
    <3> QED  BY <3>2, <3>3, DelimiterAt, Zenon
  <2>2. ASSUME NEW k \in DelimiterEnds(header) PROVE k = 5
    <3> header \in Seq(Token) /\ Len(header) = 5
      BY <1>4
    <3>1. k \in 4 .. Len(header) /\ header[k - 3] = "CR"
      BY DelimiterAt, Zenon
    <3>4. k \in 4 .. 5
      BY <3>1
    <3>2. k # 4
      <4>1. 4 - 3 = 1
        OBVIOUS
      <4>2. header[1] # "CR"
        BY <1>3, <1>4
      <4> QED  BY <3>1, <4>1, <4>2
    <3> QED  BY <3>2, <3>4
  <2> QED  BY <1>4, <2>1, <2>2 DEF IsHeader
<1>6. ~Ignorable(header)
  <2>1. 1 \in 1 .. Len(header) /\ DOMAIN header = 1 .. Len(header)
    BY <1>4
  <2>2. line \in ToSet(header)
    BY <1>4, <2>1 DEF ToSet
  <2> QED  BY <1>3, <2>2 DEF Ignorable
<1>7. ContentLength(header) = line
  <2> DEFINE found == {k \in LineStarts(header) : header[k] \in LengthLines \cup {"badLength"}}
             first == CHOOSE k \in found : \A j \in found : k <= j
  <2>1. ContentLength(header) =
          IF found = {} \/ header[first] = "badLength" THEN "none" ELSE header[first]
    BY DEF ContentLength
  <2>2. found = {1}
    <3>1. DOMAIN header = 1 .. 5 /\ 1 \in LineStarts(header)
      BY <1>4 DEF LineStarts
    <3>2. ASSUME NEW k \in found PROVE k = 1
      <4>1. k \in 1 .. 5 /\ header[k] \in LengthLines \cup {"badLength"}
        BY <3>1 DEF LineStarts
      <4>2. "CR" \notin LengthLines /\ "LF" \notin LengthLines
        BY LengthAssumption
      <4>3. k \notin {2, 3, 4, 5}
        BY <1>4, <4>1, <4>2
      <4> QED  BY <4>1, <4>3
    <3>3. 1 \in found
      BY <1>1, <1>4, <3>1
    <3> HIDE DEF found
    <3> QED  BY <3>2, <3>3
  <2> HIDE DEF found
  <2>3. first = 1
    BY <2>2
  <2> HIDE DEF first
  <2> QED  BY <1>3, <1>4, <2>1, <2>2, <2>3
<1>8. s = header \o (payload \o after) /\ s \in Seq(Token)
  <2>1. (header \o payload) \o after = header \o (payload \o after)
    <3>1. header \in Seq(Token)
      BY <1>4
    <3>2. Associate(header, payload, after)
      BY <3>1, TokensAssociative
    <3> QED  BY <3>2, Zenon DEF Associate
  <2>2. header \o payload \in Seq(Token)
    BY <1>4, ConcatProperties
  <2>3. (header \o payload) \o after \in Seq(Token)
    BY <2>2, ConcatProperties
  <2> QED  BY <1>2, <2>1, <2>3
<1> HIDE DEF s
<1>9. Len(header) \in 0 .. Len(s) /\ SubSeq(s, 1, Len(header)) = header
  <2>1. payload \o after \in Seq(Token)
    BY ConcatProperties
  <2>2. Len(s) = 5 + Len(payload \o after) /\ Len(payload \o after) \in Nat
    <3> DEFINE q == payload \o after
    <3>1. q \in Seq(Token) /\ s = header \o q
      BY <1>8, <2>1
    <3> HIDE DEF q
    <3>2. Len(header \o q) = Len(header) + Len(q) /\ Len(q) \in Nat
      BY <1>4, <3>1, TokensJoined
    <3>3. Len(s) = 5 + Len(q) /\ Len(q) \in Nat
      BY <1>4, <3>1, <3>2
    <3> QED  BY <3>3 DEF q
  <2>3. << >> \in Seq(Token) /\ s \o << >> = s
    BY <1>8, ConcatEmptySeq
  <2>4. Len(header) <= Len(s) /\ Len(header) \in 0 .. Len(s)
    BY <1>4, <2>2
  <2>5. Cuts(s, << >>, header, payload \o after)
    BY <1>8, <2>3, <2>4 DEF Cuts
  <2>6. Initial(s, Len(header)) = header
    BY <1>4, <1>8, <2>1, <2>3, <2>5, TakenOff
  <2> QED  BY <2>4, <2>6 DEF Initial
<1>10. MessageAhead(s, payload, after)
  BY <1>1, <1>3, <1>5, <1>6, <1>7, <1>8, <1>9 DEF MessageAhead
<1> QED  BY <1>10 DEF s

-----------------------------------------------------------------------------
(* The reader in its stream. *)

\* After k of the n blocks and messages: the messages among them were returned,
\* and the reader is ahead of the next one or within it.
Place(n, left, count, k) ==
  /\ received = SubSeq(sent, 1, count[k])
  /\ outcome # "reading" => k = n
  /\ outcome = "reading" /\ need = "none" => buffer \o coming = left[k]
  /\ outcome = "reading" /\ need # "none" =>
       \/ /\ k < n /\ count[k + 1] = count[k] + 1
          /\ LengthOf[need] = Len(sent[count[k + 1]])
          /\ buffer \o coming = sent[count[k + 1]] \o left[k + 1]
       \/ k = n /\ LengthOf[need] > Len(buffer) + Len(coming)

FrameInv ==
  /\ FramingTypeOK /\ sent \in Seq(Seq(Token))
  /\ \E n \in Nat : \E left \in [0 .. n -> Seq(Token)], count \in [0 .. n -> Nat] :
       StreamOf(sent, n, left, count) /\ \E k \in 0 .. n : Place(n, left, count, k)

LEMMA FirstOnes ==
  ASSUME NEW S, NEW s \in Seq(S), NEW k \in 0 .. Len(s)
  PROVE  /\ SubSeq(s, 1, k) \in Seq(S) /\ Len(SubSeq(s, 1, k)) = k
         /\ k < Len(s) => SubSeq(s, 1, k + 1) = Append(SubSeq(s, 1, k), s[k + 1])
<1>1. Len(s) \in Nat /\ k \in Nat
  OBVIOUS
<1>2. SubSeq(s, 1, k) \in Seq(S) /\ Len(SubSeq(s, 1, k)) = k
  BY <1>1
<1>3. ASSUME k < Len(s) PROVE SubSeq(s, 1, k + 1) = Append(SubSeq(s, 1, k), s[k + 1])
  <2>1. 1 \in 1 .. Len(s) /\ k + 1 \in 1 .. Len(s) /\ (k + 1) - 1 = k /\ s[k + 1] \in S
    BY <1>1, <1>3
  <2>2. SubSeq(s, 1, k + 1) = SubSeq(s, 1, (k + 1) - 1) \o <<s[k + 1]>>
    BY <2>1, SubSeqRecursiveSecond
  <2>3. Append(SubSeq(s, 1, k), s[k + 1]) = SubSeq(s, 1, k) \o <<s[k + 1]>>
    BY <1>2, <2>1, AppendIsConcat
  <2> QED  BY <2>1, <2>2, <2>3
<1> QED  BY <1>2, <1>3

LEMMA FramesHold == FrameInv => FramesExact
<1> SUFFICES ASSUME FrameInv PROVE FramesExact
  OBVIOUS
<1>1. FramingTypeOK /\ sent \in Seq(Seq(Token)) /\ Len(sent) \in Nat
  BY DEF FrameInv
<1>0. PICK n \in Nat :
        \E left \in [0 .. n -> Seq(Token)], count \in [0 .. n -> Nat] :
          StreamOf(sent, n, left, count) /\ \E k \in 0 .. n : Place(n, left, count, k)
  BY DEF FrameInv
<1>2. PICK left \in [0 .. n -> Seq(Token)], count \in [0 .. n -> Nat], k \in 0 .. n :
        StreamOf(sent, n, left, count) /\ Place(n, left, count, k)
  BY <1>0
<1>3. count[k] \in 0 .. Len(sent) /\ count[n] = Len(sent)
  BY <1>2 DEF StreamOf
<1>4. received = SubSeq(sent, 1, count[k]) /\ (outcome # "reading" => k = n)
  BY <1>2 DEF Place
<1>5. Len(received) = count[k]
  BY <1>1, <1>3, <1>4, FirstOnes
<1>6. IsPrefix(received, sent)
  <2>1. SubSeq(received, 1, Len(received)) = received
    BY <1>1, SubSeqFull DEF FramingTypeOK
  <2>2. SubSeq(sent, 1, Len(received)) = received
    BY <1>4, <1>5
  <2>3. Len(received) <= Len(sent)
    BY <1>1, <1>3, <1>5
  <2>4. SubSeq(received, 1, Len(received)) = SubSeq(sent, 1, Len(received))
    BY <2>1, <2>2
  <2> QED  BY <2>3, <2>4 DEF IsPrefix
<1>7. outcome # "reading" => received = sent
  <2>1. SubSeq(sent, 1, Len(sent)) = sent
    BY <1>1, SubSeqFull
  <2> QED  BY <1>3, <1>4, <2>1
<1> QED  BY <1>1, <1>6, <1>7 DEF FramesExact

LEMMA FramingStarts == ClientStarts => FrameInv
<1> SUFFICES ASSUME ClientStarts PROVE FrameInv
  OBVIOUS
<1>1. sent \in Seq(Seq(Token))
  BY DEF ClientStarts
<1>0. PICK n \in Nat : \E left \in [0 .. n -> Seq(Token)], count \in [0 .. n -> Nat] :
        StreamOf(sent, n, left, count) /\ FramingInit(left[0])
  BY DEF ClientStarts
<1>2. PICK left \in [0 .. n -> Seq(Token)], count \in [0 .. n -> Nat] :
        StreamOf(sent, n, left, count) /\ FramingInit(left[0])
  BY <1>0
<1>3. /\ coming = left[0] /\ broken \in BOOLEAN
      /\ buffer = << >> /\ need = "none" /\ received = << >> /\ outcome = "reading"
  BY <1>2 DEF FramingInit
<1>4. 0 \in 0 .. n /\ left[0] \in Seq(Token) /\ count[0] = 0
  BY <1>2 DEF StreamOf
<1>5. FramingTypeOK
  BY <1>3, <1>4 DEF FramingTypeOK
<1>6. buffer \o coming = left[0]
  BY <1>3, <1>4, ConcatEmptySeq
<1>7. SubSeq(sent, 1, 0) = << >>
  BY SubSeqEmpty
<1>8. Place(n, left, count, 0)
  BY <1>3, <1>4, <1>6, <1>7 DEF Place
<1> QED  BY <1>1, <1>2, <1>4, <1>5, <1>8 DEF FrameInv

\* A step that keeps the stream has to keep the types and find a place.
LEMMA FrameStep ==
  ASSUME sent' = sent, FramingTypeOK', sent \in Seq(Seq(Token)),
         NEW n \in Nat, NEW left \in [0 .. n -> Seq(Token)], NEW count \in [0 .. n -> Nat],
         StreamOf(sent, n, left, count), NEW k \in 0 .. n, Place(n, left, count, k)'
  PROVE  FrameInv'
<1>1. StreamOf(sent', n, left, count) /\ sent' \in Seq(Seq(Token))
  OBVIOUS
<1> QED  BY <1>1 DEF FrameInv

LEMMA ReadChunkStep ==
  ASSUME FrameInv, sent' = sent, NEW n \in Nat, ReadChunk(n)
  PROVE  FrameInv'
<1>1. FramingTypeOK /\ sent \in Seq(Seq(Token))
  BY DEF FrameInv
<1>0. PICK m \in Nat :
        \E left \in [0 .. m -> Seq(Token)], count \in [0 .. m -> Nat] :
          StreamOf(sent, m, left, count) /\ \E k \in 0 .. m : Place(m, left, count, k)
  BY DEF FrameInv
<1>2. PICK left \in [0 .. m -> Seq(Token)], count \in [0 .. m -> Nat], k \in 0 .. m :
        StreamOf(sent, m, left, count) /\ Place(m, left, count, k)
  BY <1>0
<1>3. /\ n <= Len(coming)
      /\ buffer' = buffer \o SubSeq(coming, 1, n)
      /\ coming' = SubSeq(coming, n + 1, Len(coming))
      /\ broken' = broken /\ need' = need /\ received' = received /\ outcome' = outcome
  BY DEF ReadChunk
<1>4. buffer \in Seq(Token) /\ coming \in Seq(Token)
  BY <1>1 DEF FramingTypeOK
<1>5. /\ buffer' \in Seq(Token) /\ coming' \in Seq(Token)
      /\ buffer' \o coming' = buffer \o coming
  BY <1>3, <1>4, Moved
<1>6. Len(buffer') + Len(coming') = Len(buffer) + Len(coming)
  <2>1. Len(buffer' \o coming') = Len(buffer') + Len(coming')
    BY <1>5, TokensJoined
  <2>2. Len(buffer \o coming) = Len(buffer) + Len(coming)
    BY <1>4, TokensJoined
  <2> QED  BY <1>5, <2>1, <2>2
<1>7. FramingTypeOK'
  BY <1>1, <1>3, <1>5 DEF FramingTypeOK
<1>8. Place(m, left, count, k)'
  BY <1>2, <1>3, <1>5, <1>6 DEF Place
<1> QED  BY <1>1, <1>2, <1>7, <1>8, FrameStep

LEMMA ReadEndsStep ==
  ASSUME FrameInv, sent' = sent, ReadEnds
  PROVE  FrameInv'
<1>1. FramingTypeOK /\ sent \in Seq(Seq(Token)) /\ buffer \in Seq(Token) /\ coming \in Seq(Token)
  BY DEF FrameInv, FramingTypeOK
<1>0. PICK n \in Nat :
        \E left \in [0 .. n -> Seq(Token)], count \in [0 .. n -> Nat] :
          StreamOf(sent, n, left, count) /\ \E k \in 0 .. n : Place(n, left, count, k)
  BY DEF FrameInv
<1>2. PICK left \in [0 .. n -> Seq(Token)], count \in [0 .. n -> Nat], k \in 0 .. n :
        StreamOf(sent, n, left, count) /\ Place(n, left, count, k)
  BY <1>0
<1>3. /\ outcome = "reading" /\ coming = << >>
      /\ need = "none" => ~HasHeader
      /\ need # "none" => Len(buffer) < LengthOf[need]
      /\ outcome' \in {"error", "end"}
      /\ coming' = coming /\ broken' = broken /\ buffer' = buffer /\ need' = need
      /\ received' = received
  BY DEF ReadEnds, Waiting
<1>4. FramingTypeOK'
  BY <1>1, <1>3 DEF FramingTypeOK
<1>5. buffer \o coming = buffer
  BY <1>1, <1>3, ConcatEmptySeq
<1>6. CASE need = "none" /\ k # n
  <2>1. k + 1 \in 1 .. n /\ (k + 1) - 1 = k /\ k + 1 \in 0 .. n
    BY <1>6
  <2>2. \/ BlankAhead(left[k], left[k + 1])
        \/ MessageAhead(left[k], sent[count[k + 1]], left[k + 1])
    BY <1>2, <2>1 DEF StreamOf
  <2>3. PICK j \in 0 .. Len(left[k]) : IsHeader(SubSeq(left[k], 1, j))
    BY <2>2 DEF BlankAhead, MessageAhead
  <2>4. left[k] = buffer
    BY <1>2, <1>3, <1>5, <1>6 DEF Place
  <2>5. Len(SubSeq(buffer, 1, j)) \in DelimiterEnds(SubSeq(buffer, 1, j))
    BY <2>3, <2>4 DEF IsHeader
  <2>6. j \in 0 .. Len(buffer)
    BY <2>4
  <2> DEFINE h == SubSeq(buffer, 1, j)
  <2>7. h \in Seq(Token) /\ Len(h) = j /\ \A i \in 1 .. j : h[i] = buffer[i]
    BY <1>1, <2>6
  <2> HIDE DEF h
  <2>8. j \in DelimiterEnds(buffer)
    <3>1. j \in DelimiterEnds(h) /\ j <= Len(buffer)
      BY <2>5, <2>6, <2>7 DEF h
    <3> QED  BY <1>1, <2>7, <3>1, SameDelimiters
  <2> QED  BY <1>3, <1>6, <2>8 DEF HasHeader
<1>7. CASE need # "none" /\ k # n
  <2>1. /\ k < n /\ LengthOf[need] = Len(sent[count[k + 1]])
        /\ buffer \o coming = sent[count[k + 1]] \o left[k + 1]
    BY <1>2, <1>3, <1>7 DEF Place
  <2>2. k + 1 \in 1 .. n /\ k + 1 \in 0 .. n
    BY <2>1
  <2>3. count[k + 1] \in 1 .. Len(sent)
    <3>1. count[k + 1] = count[k] + 1 /\ count[k] \in Nat
      BY <1>2, <1>3, <1>7 DEF Place
    <3>2. count[k + 1] \in 0 .. Len(sent)
      BY <1>2, <2>2 DEF StreamOf
    <3> QED  BY <3>1, <3>2
  <2> DEFINE payload == sent[count[k + 1]]
             after == left[k + 1]
  <2>4. payload \in Seq(Token) /\ after \in Seq(Token)
    BY <1>1, <2>2, <2>3
  <2>5. buffer = payload \o after /\ LengthOf[need] = Len(payload)
    BY <1>5, <2>1
  <2> HIDE DEF payload, after
  <2>6. Len(buffer) = Len(payload) + Len(after) /\ Len(payload) \in Nat /\ Len(after) \in Nat
    BY <2>4, <2>5, TokensJoined
  <2> QED  BY <1>3, <1>7, <2>5, <2>6
<1>8. CASE k = n
  <2>1. received' = SubSeq(sent', 1, count[k]) /\ outcome' # "reading"
    BY <1>2, <1>3 DEF Place
  <2>2. Place(n, left, count, k)'
    BY <1>8, <2>1 DEF Place
  <2> QED  BY <1>1, <1>2, <1>4, <2>2, FrameStep
<1> QED  BY <1>6, <1>7, <1>8

LEMMA TakeBodyStep ==
  ASSUME FrameInv, sent' = sent, TakeBody
  PROVE  FrameInv'
<1>1. FramingTypeOK /\ sent \in Seq(Seq(Token)) /\ buffer \in Seq(Token) /\ coming \in Seq(Token)
  BY DEF FrameInv, FramingTypeOK
<1>0. PICK n \in Nat :
        \E left \in [0 .. n -> Seq(Token)], count \in [0 .. n -> Nat] :
          StreamOf(sent, n, left, count) /\ \E k \in 0 .. n : Place(n, left, count, k)
  BY DEF FrameInv
<1>2. PICK left \in [0 .. n -> Seq(Token)], count \in [0 .. n -> Nat], k \in 0 .. n :
        StreamOf(sent, n, left, count) /\ Place(n, left, count, k)
  BY <1>0
<1>3. /\ outcome = "reading" /\ need # "none" /\ Len(buffer) >= LengthOf[need]
      /\ received' = Append(received, SubSeq(buffer, 1, LengthOf[need]))
      /\ buffer' = SubSeq(buffer, LengthOf[need] + 1, Len(buffer))
      /\ need' = "none" /\ coming' = coming /\ broken' = broken /\ outcome' = outcome
  BY DEF TakeBody
<1>4. LengthOf[need] \in Nat /\ Len(buffer) \in Nat /\ Len(coming) \in Nat
  <2>1. need \in LengthLines
    BY <1>1, <1>3 DEF FramingTypeOK
  <2> QED  BY <1>1, <2>1, LengthAssumption
<1>5. /\ k < n /\ count[k + 1] = count[k] + 1
      /\ LengthOf[need] = Len(sent[count[k + 1]])
      /\ buffer \o coming = sent[count[k + 1]] \o left[k + 1]
  <2>1. ~(LengthOf[need] > Len(buffer) + Len(coming))
    BY <1>3, <1>4
  <2> QED  BY <1>2, <1>3, <2>1 DEF Place
<1>6. k + 1 \in 1 .. n /\ k + 1 \in 0 .. n /\ k \in 0 .. n
  BY <1>5
<1>7. count[k] \in 0 .. Len(sent) /\ count[k] < Len(sent) /\ count[k + 1] \in 1 .. Len(sent)
  <2>1. count[k] \in 0 .. Len(sent) /\ count[k + 1] \in 0 .. Len(sent)
    BY <1>2, <1>6 DEF StreamOf
  <2> QED  BY <1>5, <2>1
<1> DEFINE payload == sent[count[k + 1]]
           after == left[k + 1]
<1>8. payload \in Seq(Token) /\ after \in Seq(Token)
  <2>1. sent \in Seq(Seq(Token)) /\ \A i \in 1 .. Len(sent) : sent[i] \in Seq(Token)
    BY <1>1
  <2>2. \A i \in 0 .. n : left[i] \in Seq(Token)
    OBVIOUS
  <2> QED  BY <1>6, <1>7, <2>1, <2>2, Zenon
<1>9. buffer \o coming = payload \o after /\ LengthOf[need] = Len(payload)
  BY <1>5
<1> HIDE DEF payload, after
<1>10. /\ SubSeq(buffer, 1, LengthOf[need]) = payload
       /\ buffer' \in Seq(Token) /\ buffer' \o coming = after
  <2>1. Len(payload) <= Len(buffer)
    BY <1>3, <1>4, <1>9
  <2>2. /\ SubSeq(buffer, 1, Len(payload)) = payload
        /\ SubSeq(buffer, Len(payload) + 1, Len(buffer)) \in Seq(Token)
        /\ SubSeq(buffer, Len(payload) + 1, Len(buffer)) \o coming = after
    <3>1. Cuts(buffer, coming, payload, after)
      BY <1>9, <2>1 DEF Cuts
    <3>2. buffer \in Seq(Token) /\ coming \in Seq(Token)
      BY <1>1
    <3>3. /\ Initial(buffer, Len(payload)) = payload
          /\ Remainder(buffer, Len(payload)) \in Seq(Token)
          /\ Remainder(buffer, Len(payload)) \o coming = after
      BY <1>8, <3>1, <3>2, TakenOff
    <3> QED  BY <3>3 DEF Initial, Remainder
  <2> QED  BY <1>3, <1>9, <2>2
<1>11. received' = SubSeq(sent, 1, count[k + 1])
  <2>1. received = SubSeq(sent, 1, count[k])
    BY <1>2 DEF Place
  <2>2. SubSeq(sent, 1, count[k] + 1) = Append(SubSeq(sent, 1, count[k]), sent[count[k] + 1])
    BY <1>1, <1>7, FirstOnes
  <2> QED  BY <1>3, <1>5, <1>10, <2>1, <2>2 DEF payload
<1>12. FramingTypeOK'
  <2>1. received' \in Seq(Seq(Token))
    <3>1. count[k + 1] \in 0 .. Len(sent)
      BY <1>7
    <3> QED  BY <1>1, <1>11, <3>1, FirstOnes
  <2> QED  BY <1>1, <1>3, <1>10, <2>1 DEF FramingTypeOK
<1>13. Place(n, left, count, k + 1)'
  <2>1. buffer' \o coming' = left[k + 1]
    BY <1>3, <1>10 DEF after
  <2> QED  BY <1>3, <1>11, <2>1 DEF Place
<1> QED  BY <1>1, <1>2, <1>6, <1>12, <1>13, FrameStep

LEMMA TakeHeaderStep ==
  ASSUME FrameInv, sent' = sent, TakeHeader
  PROVE  FrameInv'
<1>1. FramingTypeOK /\ sent \in Seq(Seq(Token)) /\ buffer \in Seq(Token) /\ coming \in Seq(Token)
  BY DEF FrameInv, FramingTypeOK
<1>0. PICK n \in Nat :
        \E left \in [0 .. n -> Seq(Token)], count \in [0 .. n -> Nat] :
          StreamOf(sent, n, left, count) /\ \E k \in 0 .. n : Place(n, left, count, k)
  BY DEF FrameInv
<1>2. PICK left \in [0 .. n -> Seq(Token)], count \in [0 .. n -> Nat], k \in 0 .. n :
        StreamOf(sent, n, left, count) /\ Place(n, left, count, k)
  BY <1>0
<1> DEFINE header == SubSeq(buffer, 1, HeaderLength)
<1>3. /\ outcome = "reading" /\ need = "none" /\ HasHeader
      /\ buffer' = SubSeq(buffer, HeaderLength + 1, Len(buffer))
      /\ coming' = coming /\ broken' = broken /\ received' = received
  BY DEF TakeHeader
<1>4. /\ Ignorable(header) => need' = "none" /\ outcome' = "reading"
      /\ ~Ignorable(header) =>
           /\ need' = ContentLength(header)
           /\ outcome' = IF need' = "none" THEN "invalid" ELSE outcome
  BY DEF TakeHeader
<1>5. buffer \o coming = left[k] /\ received = SubSeq(sent, 1, count[k]) /\ left[k] \in Seq(Token)
  BY <1>2, <1>3 DEF Place
<1>6. /\ HeaderLength \in 0 .. Len(left[k]) /\ header = SubSeq(left[k], 1, HeaderLength)
      /\ header \in Seq(Token) /\ IsHeader(header)
      /\ buffer' \in Seq(Token)
      /\ Len(buffer') + Len(coming) = Len(left[k]) - HeaderLength
  BY <1>1, <1>3, <1>5, SomeHeaderTaken
<1>7. ASSUME NEW j \in 0 .. Len(left[k]), NEW r \in Seq(Token),
             IsHeader(SubSeq(left[k], 1, j)), left[k] = SubSeq(left[k], 1, j) \o r
      PROVE  header = SubSeq(left[k], 1, j) /\ buffer' \o coming = r
  <2> DEFINE h == SubSeq(left[k], 1, j)
  <2>1. h \in Seq(Token)
    BY <1>5, FirstOnes
  <2>2. buffer \o coming = h \o r /\ IsHeader(h)
    BY <1>5, <1>7
  <2> HIDE DEF h
  <2>3. /\ SubSeq(buffer, 1, HeaderLength) = h
        /\ SubSeq(buffer, HeaderLength + 1, Len(buffer)) \o coming = r
    BY <1>1, <1>3, <2>1, <2>2, HeaderTaken
  <2> QED  BY <1>3, <2>3 DEF h
<1> HIDE DEF header
<1>8. FramingTypeOK'
  <2>1. need' \in LengthLines \cup {"none"} /\ outcome' \in {"reading", "invalid"}
    BY <1>3, <1>4, <1>6, ContentLengthType
  <2> QED  BY <1>1, <1>3, <1>6, <2>1 DEF FramingTypeOK
<1>9. CASE k # n
  <2>1. k < n /\ k + 1 \in 1 .. n /\ (k + 1) - 1 = k /\ k + 1 \in 0 .. n
    BY <1>9
  <2>2. left[k + 1] \in Seq(Token) /\ count[k + 1] \in 0 .. Len(sent)
    BY <1>2, <2>1 DEF StreamOf
  <2>3. \/ BlankAhead(left[k], left[k + 1]) /\ count[k + 1] = count[k]
        \/ /\ count[k + 1] = count[k] + 1
           /\ MessageAhead(left[k], sent[count[k + 1]], left[k + 1])
    BY <1>2, <2>1 DEF StreamOf
  <2>4. CASE BlankAhead(left[k], left[k + 1]) /\ count[k + 1] = count[k]
    <3>1. PICK j \in 0 .. Len(left[k]) :
            /\ IsHeader(SubSeq(left[k], 1, j)) /\ Ignorable(SubSeq(left[k], 1, j))
            /\ left[k] = SubSeq(left[k], 1, j) \o left[k + 1]
      BY <2>4 DEF BlankAhead
    <3>2. Ignorable(header) /\ buffer' \o coming = left[k + 1]
      BY <1>7, <2>2, <3>1
    <3>3. Place(n, left, count, k + 1)'
      BY <1>3, <1>4, <1>5, <2>4, <3>2 DEF Place
    <3> QED  BY <1>1, <1>2, <1>8, <2>1, <3>3, FrameStep
  <2>5. CASE /\ count[k + 1] = count[k] + 1
             /\ MessageAhead(left[k], sent[count[k + 1]], left[k + 1])
    <3> DEFINE payload == sent[count[k + 1]]
    <3>1. payload \in Seq(Token)
      <4>1. count[k + 1] \in 1 .. Len(sent)
        <5>1. count[k] \in Nat
          OBVIOUS
        <5> QED  BY <2>2, <2>5, <5>1
      <4> QED  BY SMTT(60), <1>1, <4>1
    <3> HIDE DEF payload
    <3>2. PICK j \in 0 .. Len(left[k]) :
            /\ IsHeader(SubSeq(left[k], 1, j)) /\ ~Ignorable(SubSeq(left[k], 1, j))
            /\ ContentLength(SubSeq(left[k], 1, j)) # "none"
            /\ LengthOf[ContentLength(SubSeq(left[k], 1, j))] = Len(payload)
            /\ left[k] = SubSeq(left[k], 1, j) \o (payload \o left[k + 1])
      BY <2>5 DEF MessageAhead, payload
    <3>3. payload \o left[k + 1] \in Seq(Token)
      BY <2>2, <3>1, TokensJoined
    <3>4. header = SubSeq(left[k], 1, j) /\ buffer' \o coming = payload \o left[k + 1]
      BY <1>7, <3>2, <3>3
    <3>5. need' # "none" /\ outcome' = "reading" /\ LengthOf[need'] = Len(payload)
      BY <1>3, <1>4, <3>2, <3>4
    <3>6. Place(n, left, count, k)'
      <4>1. received' = SubSeq(sent', 1, count[k])
        BY <1>3, <1>5
      <4>2. /\ k < n /\ count[k + 1] = count[k] + 1
            /\ LengthOf[need'] = Len(sent'[count[k + 1]])
            /\ buffer' \o coming' = sent'[count[k + 1]] \o left[k + 1]
        BY <1>3, <2>1, <2>5, <3>4, <3>5 DEF payload
      <4> QED  BY <3>5, <4>1, <4>2 DEF Place
    <3> QED  BY <1>1, <1>2, <1>8, <3>6, FrameStep
  <2> QED  BY <2>3, <2>4, <2>5
<1>10. CASE k = n
  <2>1. NothingWhole(left[k])
    BY <1>2, <1>10 DEF StreamOf
  <2>2. /\ ~Ignorable(header)
        /\ ContentLength(header) # "none" =>
             LengthOf[ContentLength(header)] > Len(left[k]) - HeaderLength
    BY <1>6, <2>1 DEF NothingWhole
  <2>3. /\ need' = ContentLength(header)
        /\ outcome' = "reading" => need' # "none" /\ LengthOf[need'] > Len(buffer') + Len(coming')
    BY <1>3, <1>4, <1>6, <2>2
  <2>4. received' = SubSeq(sent', 1, count[k])
    BY <1>3, <1>5
  <2>5. Place(n, left, count, k)'
    BY <1>10, <2>3, <2>4 DEF Place
  <2> QED  BY <1>1, <1>2, <1>8, <2>5, FrameStep
<1> QED  BY <1>9, <1>10

LEMMA FrameInvAlways == FramingSpec => []FrameInv
<1>1. FrameInv /\ [FramingNext /\ UNCHANGED sent]_<<frameVars, sent>> => FrameInv'
  <2> SUFFICES ASSUME FrameInv, [FramingNext /\ UNCHANGED sent]_<<frameVars, sent>>
               PROVE  FrameInv'
    OBVIOUS
  <2>1. sent' = sent
    OBVIOUS
  <2>2. ASSUME NEW n \in 1 .. MaxChunk, ReadChunk(n) PROVE FrameInv'
    <3>1. n \in Nat
      BY <2>2
    <3> QED  BY <2>1, <2>2, <3>1, ReadChunkStep
  <2>3. CASE ReadEnds
    BY <2>1, <2>3, ReadEndsStep
  <2>4. CASE TakeHeader
    BY <2>1, <2>4, TakeHeaderStep
  <2>5. CASE TakeBody
    BY <2>1, <2>5, TakeBodyStep
  <2>6. CASE UNCHANGED <<frameVars, sent>>
    <3>1. /\ coming' = coming /\ broken' = broken /\ buffer' = buffer /\ need' = need
          /\ received' = received /\ outcome' = outcome
      BY <2>6 DEF frameVars
    <3>2. FramingTypeOK /\ sent \in Seq(Seq(Token))
      BY DEF FrameInv
    <3>3. FramingTypeOK'
      BY <3>1, <3>2 DEF FramingTypeOK
    <3>4. PICK n \in Nat :
            \E left \in [0 .. n -> Seq(Token)], count \in [0 .. n -> Nat] :
              StreamOf(sent, n, left, count) /\ \E k \in 0 .. n : Place(n, left, count, k)
      BY DEF FrameInv
    <3>5. PICK left \in [0 .. n -> Seq(Token)], count \in [0 .. n -> Nat], k \in 0 .. n :
            StreamOf(sent, n, left, count) /\ Place(n, left, count, k)
      BY <3>4
    <3>6. Place(n, left, count, k)'
      BY <2>1, <3>1, <3>5 DEF Place
    <3> QED  BY <2>1, <3>2, <3>3, <3>5, <3>6, FrameStep
  <2> QED  BY <2>2, <2>3, <2>4, <2>5, <2>6 DEF FramingNext
<1> QED  BY <1>1, FramingStarts, PTL DEF FramingSpec

\* For any stream of blank blocks and messages, whatever their header lines and
\* bodies hold, and any cut of it into reads: what read_message returns is what was
\* sent, and it gives up only behind the last whole message.
THEOREM FramesAlwaysExact == FramingSpec => []FramesExact
BY FrameInvAlways, FramesHold, PTL

-----------------------------------------------------------------------------
(* Handling.  The invariant is the typing of the session's state; each     *)
(* handler keeps it, leaves a whole step and an answer that fits its       *)
(* message.                                                                *)

\* The answer of a step fits the message m that it handles.
AnswerFits(m) ==
  \/ /\ answers' = << >>
     /\ m.id = Missing \/ ~m.jsonrpc \/ m.body # "none" \/ m.method \notin Requests
  \/ /\ m.id # Missing /\ ~LooksLikeResponse(m)
     /\ \E what : answers' = <<[id |-> m.id, what |-> what]>>

HandledWell(m) == HandlingTypeOK' /\ StepIsWhole /\ AnswerFits(m)

LEMMA ElementInSet ==
  ASSUME NEW S, NEW s \in Seq(S), NEW k \in DOMAIN s
  PROVE  s[k] \in S
OBVIOUS

\* A result is no error.
LEMMA ResultIsNoError ==
  ASSUME NEW m, Answer(m, "result")
  PROVE  ~ \E i \in DOMAIN answers' : answers'[i].what \in ErrorCodes
<1> DEFINE result == [id |-> m.id, what |-> "result"]
<1>1. CASE answers' = << >>
  BY <1>1
<1>2. CASE answers' = <<result>>
  <2>1. DOMAIN answers' = {1} /\ answers'[1] = result
    BY <1>2
  <2>2. result.what = "result"
    OBVIOUS
  <2>3. "result" \notin ErrorCodes
    BY DEF ErrorCodes
  <2> HIDE DEF result
  <2> QED
    BY <2>1, <2>2, <2>3
<1> QED
  BY <1>1, <1>2 DEF Answer

\* A message that is answered at once, by a result or an error, is handled well.
LEMMA ReplyHandles ==
  ASSUME HandlingTypeOK, NEW m, NEW what, Reply(m, what), ~LooksLikeResponse(m)
  PROVE  HandledWell(m)
<1>1. UNCHANGED <<openDocuments, folders, sessionParser, indexParser, ended>> /\ handed' = << >>
  BY DEF Reply, stateVars
<1>2. HandlingTypeOK'
  BY <1>1 DEF HandlingTypeOK
<1>3. StepIsWhole
  BY <1>1 DEF StepIsWhole, stateVars
<1>4. AnswerFits(m)
  BY DEF Reply, Answer, AnswerFits
<1> QED
  BY <1>2, <1>3, <1>4 DEF HandledWell

\* So is one that gets no answer, if it is not a request or has no id.
LEMMA NoReplyHandles ==
  ASSUME HandlingTypeOK, NEW m, NoReply, m.id = Missing \/ m.method \notin Requests
  PROVE  HandledWell(m)
<1>1. UNCHANGED <<openDocuments, folders, sessionParser, indexParser, ended>> /\ handed' = << >>
  BY DEF NoReply, stateVars
<1>2. HandlingTypeOK'
  BY <1>1 DEF HandlingTypeOK
<1>3. StepIsWhole
  BY <1>1 DEF StepIsWhole, stateVars
<1>4. AnswerFits(m)
  BY DEF NoReply, AnswerFits
<1> QED
  BY <1>2, <1>3, <1>4 DEF HandledWell

\* So is one that changes at most one document and gives it to the index.
LEMMA DocumentHandles ==
  ASSUME HandlingTypeOK, NEW m, DocumentHandled, m.method \notin Requests,
         openDocuments' \in [Uris -> Document \cup {Missing}],
         \A u \in Uris : openDocuments'[u] # openDocuments[u] =>
           handed' = <<DocumentTask(u, openDocuments'[u])>>
  PROVE  HandledWell(m)
<1>1. HandlingTypeOK'
  BY DEF HandlingTypeOK, DocumentHandled
<1>2. StepIsWhole
  BY DEF StepIsWhole, DocumentHandled
<1>3. AnswerFits(m)
  BY DEF AnswerFits, DocumentHandled
<1> QED
  BY <1>1, <1>2, <1>3 DEF HandledWell

\* Setting the document at a URI and scheduling its update is such a change.
LEMMA SetAndSchedule ==
  ASSUME HandlingTypeOK, NEW m, DocumentHandled, m.method \notin Requests,
         NEW uri, NEW document \in Document,
         SetDocument(uri, document), ScheduleUpdate(uri)
  PROVE  HandledWell(m)
<1>1. openDocuments' \in [Uris -> Document \cup {Missing}]
  BY DEF HandlingTypeOK, SetDocument
<1>2. ASSUME NEW u \in Uris, openDocuments'[u] # openDocuments[u]
      PROVE  handed' = <<DocumentTask(u, openDocuments'[u])>>
  <2>1. uri \in Uris /\ u = uri /\ openDocuments'[u] = document
    BY <1>2 DEF HandlingTypeOK, SetDocument
  <2>2. document # Missing
    BY MessagesAssumption
  <2> QED
    BY <2>1, <2>2 DEF ScheduleUpdate, DocumentTask
<1> QED
  BY <1>1, <1>2, DocumentHandles

\* Leaving the documents alone is another.
LEMMA KeepAndSchedule ==
  ASSUME HandlingTypeOK, NEW m, DocumentHandled, m.method \notin Requests,
         UNCHANGED openDocuments
  PROVE  HandledWell(m)
<1>1. openDocuments' \in [Uris -> Document \cup {Missing}]
  BY DEF HandlingTypeOK
<1> QED
  BY <1>1, DocumentHandles

-----------------------------------------------------------------------------
(* The handlers. *)

LEMMA ResponseHandled ==
  ASSUME HandlingTypeOK, NEW m, TakeResponse(m)
  PROVE  HandledWell(m)
<1>1. UNCHANGED <<openDocuments, folders, sessionParser, indexParser, ended>>
  BY DEF TakeResponse, stateVars
<1>2. HandlingTypeOK'
  BY <1>1 DEF HandlingTypeOK
<1>3. answers' = << >> /\ m.body # "none"
  BY DEF TakeResponse, LooksLikeResponse
<1>4. StepIsWhole
  BY <1>1, <1>3 DEF StepIsWhole
<1>5. AnswerFits(m)
  BY <1>3 DEF AnswerFits
<1> QED
  BY <1>2, <1>4, <1>5 DEF HandledWell

LEMMA DidOpenHandled ==
  ASSUME HandlingTypeOK, NEW m \in Messages, DidOpen(m)
  PROVE  HandledWell(m)
<1>0. ~LooksLikeResponse(m) /\ m.method \notin Requests
  BY DEF DidOpen, Calls, Requests
<1> DEFINE p == m.params
           opened == IsString(p.docUri) /\ IsString(p.docText)
<1>1. CASE Reply(m, "Internal error")
  BY <1>0, <1>1, ReplyHandles
<1>2. CASE /\ opened /\ p.version # Wrong
           /\ SetDocument(p.docUri, [version |-> Version(p), text |-> p.docText])
           /\ ScheduleUpdate(TextDocumentUri(p)) /\ DocumentHandled
  <2>1. [version |-> Version(p), text |-> p.docText] \in Document
    BY <1>2, MessagesAssumption DEF ParamsOK, Version, IsString, Document
  <2>2. TextDocumentUri(p) = p.docUri
    BY <1>2 DEF TextDocumentUri
  <2> QED
    BY <1>0, <1>2, <2>1, <2>2, SetAndSchedule
<1>3. CASE UNCHANGED openDocuments /\ DocumentHandled
  BY <1>0, <1>3, KeepAndSchedule
<1> QED
  BY <1>1, <1>2, <1>3 DEF DidOpen

LEMMA DidChangeHandled ==
  ASSUME HandlingTypeOK, NEW m \in Messages, DidChange(m)
  PROVE  HandledWell(m)
<1>0. ~LooksLikeResponse(m) /\ m.method \notin Requests
  BY DEF DidChange, Calls, Requests
<1> DEFINE p == m.params
           changes == p.contentChanges
           Replaced(k) == [version |-> Version(p), text |-> changes[k].text]
<1>1. CASE Reply(m, "Internal error")
  BY <1>0, <1>1, ReplyHandles
<1>2. ASSUME NEW last \in ChangesMade(changes), p.version # Wrong,
             SetDocument(TextDocumentUri(p), Replaced(last)),
             ScheduleUpdate(TextDocumentUri(p)), DocumentHandled
      PROVE  HandledWell(m)
  <2>1. /\ changes \in Seq([range : {"whole", "fits", "outside"}, text : Texts \cup {Missing, Wrong}])
        /\ Version(p) \in Nat
    BY <1>2, MessagesAssumption DEF ParamsOK, Version
  <2>2. last \in DOMAIN changes /\ changes[last].text \in Texts
    <3>1. last \in DOMAIN changes /\ IsString(changes[last].text)
      BY <1>2 DEF ChangesMade
    <3>2. changes[last] \in [range : {"whole", "fits", "outside"}, text : Texts \cup {Missing, Wrong}]
      BY <2>1, <3>1, ElementInSet
    <3>3. changes[last].text \in Texts \cup {Missing, Wrong}
      BY <3>2
    <3>4. changes[last].text \notin {Missing, Wrong}
      BY <3>1 DEF IsString
    <3> HIDE DEF changes
    <3> QED
      BY <3>1, <3>3, <3>4
  <2>3. Replaced(last) \in Document
    BY <2>1, <2>2 DEF Document
  <2> QED
    BY <1>0, <1>2, <2>3, SetAndSchedule
<1>3. CASE UNCHANGED openDocuments /\ DocumentHandled
  BY <1>0, <1>3, KeepAndSchedule
<1> QED
  BY <1>1, <1>2, <1>3 DEF DidChange

LEMMA DidSaveHandled ==
  ASSUME HandlingTypeOK, NEW m \in Messages, DidSave(m)
  PROVE  HandledWell(m)
<1>0. m.method \notin Requests /\ DocumentHandled /\ ScheduleUpdate(TextDocumentUri(m.params))
  BY DEF DidSave, Calls, Requests
<1> DEFINE uri == TextDocumentUri(m.params)
<1>1. CASE UNCHANGED openDocuments
  BY <1>0, <1>1, KeepAndSchedule
<1>2. ASSUME NEW text \in Texts, DocumentAt(uri) # Missing,
             SetDocument(uri, [openDocuments[uri] EXCEPT !.text = text])
      PROVE  HandledWell(m)
  <2>1. uri \in Uris /\ openDocuments[uri] \in Document
    BY <1>2 DEF DocumentAt, HandlingTypeOK
  <2>2. [openDocuments[uri] EXCEPT !.text = text] \in Document
    BY <2>1 DEF Document
  <2> QED
    BY <1>0, <1>2, <2>2, SetAndSchedule
<1>3. IsString(m.params.text) => m.params.text \in Texts
  BY MessagesAssumption DEF ParamsOK, IsString
<1> QED
  BY <1>1, <1>2, <1>3 DEF DidSave

LEMMA DidCloseHandled ==
  ASSUME HandlingTypeOK, NEW m, DidClose(m)
  PROVE  HandledWell(m)
<1>0. m.method \notin Requests /\ DocumentHandled
  BY DEF DidClose, Calls, Requests
<1> DEFINE uri == TextDocumentUri(m.params)
<1>1. SetDocument(uri, Missing) /\ handed' = <<[op |-> "refresh", uri |-> uri]>>
  BY DEF DidClose
<1>2. openDocuments' \in [Uris -> Document \cup {Missing}]
  BY <1>1 DEF HandlingTypeOK, SetDocument
<1>3. ASSUME NEW u \in Uris, openDocuments'[u] # openDocuments[u]
      PROVE  handed' = <<DocumentTask(u, openDocuments'[u])>>
  <2>1. u = uri /\ openDocuments'[u] = Missing
    BY <1>1, <1>3 DEF HandlingTypeOK, SetDocument
  <2> QED
    BY <1>1, <2>1 DEF DocumentTask
<1> QED
  BY <1>0, <1>2, <1>3, DocumentHandles

LEMMA WorkspaceHandled ==
  ASSUME HandlingTypeOK, NEW m \in Messages, Initialize(m) \/ DidChangeWorkspaceFolders(m)
  PROVE  HandledWell(m)
<1>0. ~LooksLikeResponse(m)
  BY DEF Initialize, DidChangeWorkspaceFolders, Calls
<1>1. CASE Initialize(m) /\ m.id = Missing
  BY <1>1, NoReplyHandles DEF Initialize
<1>2. CASE Initialize(m) /\ m.id # Missing
  <2>1. /\ folders' = m.params.rootFolders /\ answers' = <<[id |-> m.id, what |-> "result"]>>
        /\ UNCHANGED <<openDocuments, sessionParser, indexParser, ended>>
    BY <1>2 DEF Initialize, Answer
  <2>2. HandlingTypeOK'
    BY <2>1, MessagesAssumption DEF HandlingTypeOK, ParamsOK
  <2>3. StepIsWhole
    BY <1>2, <2>1, ResultIsNoError DEF StepIsWhole, Initialize
  <2> QED
    BY <1>0, <1>2, <2>1, <2>2, <2>3 DEF HandledWell, AnswerFits
<1>3. CASE DidChangeWorkspaceFolders(m)
  <2>1. /\ folders' = (folders \cup m.params.added) \ m.params.removed /\ answers' = << >>
        /\ UNCHANGED <<openDocuments, sessionParser, indexParser, ended>>
        /\ m.method \notin Requests
    BY <1>3 DEF DidChangeWorkspaceFolders, Calls, Requests
  <2>2. HandlingTypeOK'
    BY <2>1, MessagesAssumption DEF HandlingTypeOK, ParamsOK
  <2>3. StepIsWhole
    BY <2>1 DEF StepIsWhole
  <2> QED
    BY <2>1, <2>2, <2>3 DEF HandledWell, AnswerFits
<1> QED
  BY <1>1, <1>2, <1>3

LEMMA SetParserRegexHandled ==
  ASSUME HandlingTypeOK, NEW m, SetParserRegex(m)
  PROVE  HandledWell(m)
<1>0. ~LooksLikeResponse(m)
  BY DEF SetParserRegex, Calls
<1> DEFINE given == m.params.parserRegex
<1>1. ASSUME NEW what, Reply(m, what)
      PROVE  HandledWell(m)
  BY <1>0, <1>1, ReplyHandles
<1>2. CASE /\ given \in Parsers /\ sessionParser' = given /\ indexParser' = given
           /\ Answer(m, "result") /\ UNCHANGED <<openDocuments, folders, ended>>
  <2>1. HandlingTypeOK'
    BY <1>2 DEF HandlingTypeOK
  <2>2. StepIsWhole
    BY <1>2, ResultIsNoError DEF StepIsWhole
  <2>3. AnswerFits(m)
    BY <1>0, <1>2 DEF AnswerFits, Answer
  <2> QED
    BY <2>1, <2>2, <2>3 DEF HandledWell
<1> QED
  BY <1>1, <1>2 DEF SetParserRegex

\* The handlers that change nothing: the rest, and the rejection of what is no
\* request.
LEMMA OthersHandled ==
  ASSUME HandlingTypeOK, NEW m,
         \/ RejectRequest(m) \/ GetSimilarText(m) \/ GetDocument(m) \/ AnswerAtOnce(m)
         \/ Acknowledge(m) \/ RefuseUnknown(m)
  PROVE  HandledWell(m)
<1>1. ~LooksLikeResponse(m)
  BY DEF RejectRequest, GetSimilarText, GetDocument, AnswerAtOnce, Acknowledge, RefuseUnknown, Calls
<1>2. \/ \E what : Reply(m, what)
      \/ NoReply /\ m.id = Missing
      \/ NoReply /\ m.method \notin Requests
  BY DEF RejectRequest, GetSimilarText, GetDocument, AnswerAtOnce, Acknowledge, RefuseUnknown,
         Calls, Requests
<1> QED
  BY <1>1, <1>2, ReplyHandles, NoReplyHandles

LEMMA ExitHandled ==
  ASSUME HandlingTypeOK, NEW m, Exit(m)
  PROVE  HandledWell(m)
<1>1. /\ UNCHANGED <<openDocuments, folders, sessionParser, indexParser>>
      /\ ended' = TRUE /\ answers' = << >> /\ m.method \notin Requests
  BY DEF Exit, stateVars, Calls, Requests
<1>2. HandlingTypeOK'
  BY <1>1 DEF HandlingTypeOK
<1> QED
  BY <1>1, <1>2 DEF HandledWell, StepIsWhole, AnswerFits

\* Every step handles its message well.
LEMMA EveryMessageHandled ==
  ASSUME HandlingTypeOK, HandlingNext
  PROVE  \E m \in Messages : message' = m /\ HandledWell(m)
<1>1. PICK m \in Messages : Handle(m)
  BY DEF HandlingNext
<1>2. HandledWell(m)
  BY <1>1, ResponseHandled, DidOpenHandled, DidChangeHandled, DidSaveHandled, DidCloseHandled,
     WorkspaceHandled, SetParserRegexHandled, OthersHandled, ExitHandled DEF Handle
<1> QED
  BY <1>1, <1>2 DEF Handle

-----------------------------------------------------------------------------

\* A message is answered once if it is a request, and at most once whatever it
\* is: handle_local_session, for any messages, URIs, texts and parsers.
THEOREM AnsweredOnceAlways == HandlingSpec => []AnsweredOnce
<1>1. HandlingInit => AnsweredOnce
  <2> SUFFICES ASSUME HandlingInit PROVE AnsweredOnce
    OBVIOUS
  <2>1. HandlingTypeOK
    BY DEF HandlingInit, HandlingStarts, HandlingTypeOK
  <2>2. answers = << >> /\ message.jsonrpc = FALSE
    BY DEF HandlingInit, HandlingStarts
  <2> QED
    BY <2>1, <2>2 DEF AnsweredOnce
<1>2. AnsweredOnce /\ [HandlingNext]_handlingVars => AnsweredOnce'
  <2> SUFFICES ASSUME AnsweredOnce, [HandlingNext]_handlingVars PROVE AnsweredOnce'
    OBVIOUS
  <2>1. CASE UNCHANGED handlingVars
    BY <2>1 DEF AnsweredOnce, HandlingTypeOK, handlingVars, stateVars
  <2>2. CASE HandlingNext
    <3>1. PICK m \in Messages : message' = m /\ HandledWell(m)
      BY <2>2, EveryMessageHandled DEF AnsweredOnce
    <3>2. CASE answers' = << >>
      BY <3>1, <3>2 DEF HandledWell, AnswerFits, AnsweredOnce
    <3>3. CASE answers' # << >>
      <4>1. PICK what : answers' = <<[id |-> m.id, what |-> what]>>
        BY <3>1, <3>3 DEF HandledWell, AnswerFits
      <4>2. m.id # Missing /\ ~LooksLikeResponse(m)
        BY <3>1, <3>3 DEF HandledWell, AnswerFits
      <4>3. Len(answers') = 1 /\ DOMAIN answers' = {1} /\ answers'[1].id = m.id
        BY <4>1
      <4> QED
        BY <3>1, <3>3, <4>2, <4>3 DEF HandledWell, AnsweredOnce, LooksLikeResponse
    <3> QED
      BY <3>2, <3>3
  <2> QED
    BY <2>1, <2>2
<1> QED
  BY <1>1, <1>2, PTL DEF HandlingSpec

\* No message leaves its work half done: documents, folders, both parsers and
\* what is scheduled for the index change together or not at all.
THEOREM NothingHalfDoneEver == HandlingSpec => NothingHalfDone
<1>1. AnsweredOnce /\ [HandlingNext]_handlingVars => [StepIsWhole]_handlingVars
  BY EveryMessageHandled DEF AnsweredOnce, HandledWell
<1> QED
  BY <1>1, AnsweredOnceAlways, PTL DEF HandlingSpec, NothingHalfDone

-----------------------------------------------------------------------------
(* Sequences that grow at their end. *)

LEMMA FrontAndLast ==
  ASSUME NEW I, NEW s \in Seq(I), s # << >>
  PROVE  /\ Front(s) \in Seq(I) /\ Last(s) \in I
         /\ Len(s) \in Nat \ {0} /\ Len(Front(s)) = Len(s) - 1
         /\ s = Append(Front(s), Last(s))
<1>1. Len(s) \in Nat \ {0}
  OBVIOUS
<1>2. Front(s) \in Seq(I) /\ Len(Front(s)) = Len(s) - 1 /\ Last(s) \in I
  <2>1. SubSeq(s, 1, Len(s) - 1) \in Seq(I) /\ Len(SubSeq(s, 1, Len(s) - 1)) = Len(s) - 1
    <3>1. ASSUME NEW n \in Nat, n <= Len(s)
          PROVE  SubSeq(s, 1, n) \in Seq(I) /\ Len(SubSeq(s, 1, n)) = n
      BY <3>1
    <3>2. Len(s) - 1 \in Nat /\ Len(s) - 1 <= Len(s)
      BY <1>1
    <3> QED  BY <3>1, <3>2
  <2>2. s[Len(s)] \in I
    BY <1>1
  <2> QED  BY <2>1, <2>2, Zenon DEF Front, Last
<1>3. \A i \in 1 .. Len(s) - 1 : Front(s)[i] = s[i]
  BY <1>1 DEF Front
<1>4. Append(Front(s), Last(s)) \in Seq(I) /\ Len(Append(Front(s), Last(s))) = Len(s)
  BY <1>1, <1>2
<1>5. ASSUME NEW i \in 1 .. Len(s) PROVE Append(Front(s), Last(s))[i] = s[i]
  BY <1>1, <1>2, <1>3, <1>5 DEF Last
<1> QED  BY <1>1, <1>2, <1>4, <1>5, SeqEqual

LEMMA Appended ==
  ASSUME NEW I, NEW s \in Seq(I), NEW x \in I
  PROVE  /\ Append(s, x) \in Seq(I) /\ Append(s, x) # << >>
         /\ Len(s) \in Nat /\ Len(Append(s, x)) = Len(s) + 1
         /\ Front(Append(s, x)) = s /\ Last(Append(s, x)) = x
<1>1. /\ Append(s, x) \in Seq(I) /\ Len(s) \in Nat /\ Len(Append(s, x)) = Len(s) + 1
      /\ Append(s, x)[Len(s) + 1] = x
      /\ \A i \in 1 .. Len(s) : Append(s, x)[i] = s[i]
  OBVIOUS
<1>2. Append(s, x) # << >>
  BY <1>1
<1>3. Front(Append(s, x)) \in Seq(I) /\ Len(Front(Append(s, x))) = Len(s)
  <2> DEFINE u == Append(s, x)
  <2>1. u \in Seq(I) /\ u # << >> /\ Len(u) = Len(s) + 1 /\ Len(s) \in Nat
    BY <1>1, <1>2
  <2> HIDE DEF u
  <2>2. Front(u) \in Seq(I) /\ Len(Front(u)) = Len(u) - 1
    BY <2>1, FrontAndLast
  <2>3. Len(Front(u)) = Len(s)
    BY <2>1, <2>2
  <2> QED  BY <2>2, <2>3 DEF u
<1>4. \A i \in 1 .. Len(s) : Front(Append(s, x))[i] = s[i]
  BY <1>1 DEF Front
<1> QED  BY <1>1, <1>2, <1>3, <1>4, SeqEqual DEF Last

\* A set of sequences that holds the empty one and, with a sequence, those one
\* longer holds them all.
LEMMA AllSequences ==
  ASSUME NEW I, NEW T, << >> \in T,
         \A s \in Seq(I), x \in I : s \in T => Append(s, x) \in T
  PROVE  Seq(I) \subseteq T
<1> DEFINE U == {s \in Seq(I) : s \notin T}
           L == {Len(s) : s \in U}
<1>1. ASSUME U # {} PROVE FALSE
  <2>1. L \subseteq Nat /\ L # {}
    <3>1. \A s \in Seq(I) : Len(s) \in Nat
      OBVIOUS
    <3>2. \A s \in U : Len(s) \in Nat
      BY <3>1, Zenon
    <3> HIDE DEF U
    <3> QED  BY <1>1, <3>2
  <2>2. PICK n \in L : \A y \in L : n <= y
    <3> HIDE DEF L
    <3> QED  BY <2>1, LeastOf
  <2>3. PICK s \in U : n = Len(s)
    OBVIOUS
  <2>4. s \in Seq(I) /\ s # << >>
    OBVIOUS
  <2>5. /\ Front(s) \in Seq(I) /\ Last(s) \in I /\ Len(s) \in Nat /\ Len(Front(s)) = Len(s) - 1
        /\ s = Append(Front(s), Last(s))
    BY <2>4, FrontAndLast
  <2>6. Front(s) \in T
    <3>1. Front(s) \notin U
      <4>1. ASSUME Front(s) \in U PROVE FALSE
        <5>1. Len(Front(s)) \in L
          BY <4>1
        <5> QED  BY <5>1, <2>2, <2>3, <2>5
      <4> QED  BY <4>1
    <3> QED  BY <3>1, <2>5
  <2> QED  BY <2>5, <2>6
<1> QED  BY <1>1

-----------------------------------------------------------------------------
(* Functions of sequences, defined from their value without the last item. *)

\* The value at s, where f says what the last item does: h at the empty
\* sequence is a.
Follows(h, s, f, a) == h[s] = IF s = << >> THEN a ELSE f[<<Front(s), h[Front(s)], Last(s)>>]

UpTo(I, n) == {s \in Seq(I) : Len(s) <= n}
Runs(h, n, I, S, f, a) == h \in [UpTo(I, n) -> S] /\ \A s \in UpTo(I, n) : Follows(h, s, f, a)

LEMMA RunsExist ==
  ASSUME NEW I, NEW S, NEW a \in S, NEW f \in [Seq(I) \X S \X I -> S], NEW n \in Nat
  PROVE  \E h : Runs(h, n, I, S, f, a)
<1> DEFINE T == {m \in Nat : ~ \E h : Runs(h, m, I, S, f, a)}
<1>1. ASSUME T # {} PROVE FALSE
  <2>1. PICK m \in T : \A y \in T : m <= y
    <3>1. T \subseteq Nat
      OBVIOUS
    <3> HIDE DEF T
    <3> QED  BY <3>1, <1>1, LeastOf
  <2>2. m \in Nat
    OBVIOUS
  <2>3. CASE m = 0
    <3> DEFINE h == [s \in UpTo(I, 0) |-> a]
    <3>1. ASSUME NEW s \in UpTo(I, 0) PROVE s = << >>
      BY <3>1 DEF UpTo
    <3>2. Runs(h, 0, I, S, f, a)
      BY <3>1 DEF Runs, Follows
    <3> HIDE DEF h
    <3> QED  BY <3>2, <2>3, <2>1
  <2>4. CASE m # 0
    <3>1. m - 1 \in Nat /\ m - 1 \notin T
      BY <2>1, <2>2, <2>4
    <3>2. PICK k : Runs(k, m - 1, I, S, f, a)
      BY <3>1
    <3> DEFINE h == [s \in UpTo(I, m) |->
                       IF s = << >> THEN a ELSE f[<<Front(s), k[Front(s)], Last(s)>>]]
    <3>3. ASSUME NEW s \in UpTo(I, m), s # << >>
          PROVE  s \in Seq(I) /\ Front(s) \in UpTo(I, m - 1) /\ Last(s) \in I
      <4>1. s \in Seq(I) /\ Len(s) <= m
        BY DEF UpTo
      <4>2. Front(s) \in Seq(I) /\ Last(s) \in I /\ Len(s) \in Nat /\ Len(Front(s)) = Len(s) - 1
        BY <4>1, <3>3, FrontAndLast
      <4>3. Len(Front(s)) <= m - 1
        BY <4>1, <4>2, <2>2
      <4> QED  BY <4>1, <4>2, <4>3 DEF UpTo
    <3>4. UpTo(I, m - 1) \subseteq UpTo(I, m) /\ UpTo(I, m - 1) \subseteq Seq(I)
      BY <2>2 DEF UpTo
    <3>5. k \in [UpTo(I, m - 1) -> S] /\ \A s \in UpTo(I, m - 1) : Follows(k, s, f, a)
      BY <3>2 DEF Runs
    <3>6. ASSUME NEW s \in UpTo(I, m), s # << >>
          PROVE  f[<<Front(s), k[Front(s)], Last(s)>>] \in S
      <4>1. Front(s) \in Seq(I) /\ k[Front(s)] \in S /\ Last(s) \in I
        BY <3>3, <3>4, <3>5, <3>6
      <4> QED  BY <4>1
    <3>7. h \in [UpTo(I, m) -> S]
      BY <3>6
    <3>8. ASSUME NEW s \in UpTo(I, m - 1) PROVE h[s] = k[s]
      BY <3>4, <3>5 DEF Follows
    <3>9. ASSUME NEW s \in UpTo(I, m) PROVE Follows(h, s, f, a)
      <4>1. s # << >> => h[Front(s)] = k[Front(s)]
        BY <3>3, <3>8
      <4> QED  BY <4>1 DEF Follows
    <3>10. Runs(h, m, I, S, f, a)
      <4> HIDE DEF h
      <4> QED  BY <3>7, <3>9 DEF Runs
    <3> HIDE DEF h
    <3> QED  BY <3>10, <2>1
  <2> QED  BY <2>3, <2>4
<1> QED  BY <1>1

LEMMA RunsAgree ==
  ASSUME NEW I, NEW S, NEW a \in S, NEW f, NEW m \in Nat, NEW n \in Nat,
         NEW h, Runs(h, m, I, S, f, a), NEW k, Runs(k, n, I, S, f, a),
         NEW s \in Seq(I), s \in UpTo(I, m), s \in UpTo(I, n)
  PROVE  h[s] = k[s]
<1> DEFINE T == {t \in Seq(I) : t \in UpTo(I, m) /\ t \in UpTo(I, n) => h[t] = k[t]}
<1>1. << >> \in T
  <2>1. ASSUME << >> \in UpTo(I, m), << >> \in UpTo(I, n) PROVE h[<< >>] = k[<< >>]
    <3>1. h[<< >>] = a /\ k[<< >>] = a
      BY <2>1 DEF Runs, Follows
    <3> QED  BY <3>1
  <2>2. << >> \in Seq(I)
    OBVIOUS
  <2> QED  BY <2>1, <2>2
<1>2. ASSUME NEW t \in Seq(I), NEW x \in I, t \in T PROVE Append(t, x) \in T
  <2> DEFINE u == Append(t, x)
  <2>1. /\ u \in Seq(I) /\ u # << >> /\ Len(t) \in Nat /\ Len(u) = Len(t) + 1
        /\ Front(u) = t /\ Last(u) = x
    BY Appended
  <2> HIDE DEF u
  <2>2. ASSUME u \in UpTo(I, m), u \in UpTo(I, n) PROVE h[u] = k[u]
    <3>1. t \in UpTo(I, m) /\ t \in UpTo(I, n)
      BY <2>1, <2>2 DEF UpTo
    <3>2. h[t] = k[t]
      BY <3>1, <1>2
    <3>3. h[u] = f[<<t, h[t], x>>] /\ k[u] = f[<<t, k[t], x>>]
      BY <2>1, <2>2 DEF Runs, Follows
    <3> QED  BY <3>2, <3>3
  <2>3. u \in T
    BY <2>1, <2>2
  <2> QED  BY <2>3 DEF u
<1> HIDE DEF T
<1>3. Seq(I) \subseteq T
  BY <1>1, <1>2, AllSequences
<1> QED  BY <1>3 DEF T

\* So a definition by the last item of a sequence defines a function.
LEMMA SequenceRecursion ==
  ASSUME NEW I, NEW S, NEW a \in S, NEW f \in [Seq(I) \X S \X I -> S]
  PROVE  \E h \in [Seq(I) -> S] : \A s \in Seq(I) : Follows(h, s, f, a)
<1> DEFINE Run(n) == CHOOSE h : Runs(h, n, I, S, f, a)
           g == [s \in Seq(I) |-> Run(Len(s))[s]]
<1>1. ASSUME NEW n \in Nat PROVE Runs(Run(n), n, I, S, f, a)
  BY RunsExist
<1> HIDE DEF Run
<1>2. ASSUME NEW s \in Seq(I) PROVE g[s] = Run(Len(s))[s] /\ g[s] \in S
  <2>1. Len(s) \in Nat /\ s \in UpTo(I, Len(s))
    BY DEF UpTo
  <2> QED  BY <2>1, <1>1 DEF Runs
<1>3. g \in [Seq(I) -> S]
  BY <1>2
<1>4. ASSUME NEW s \in Seq(I) PROVE Follows(g, s, f, a)
  <2>1. Len(s) \in Nat /\ s \in UpTo(I, Len(s))
    BY DEF UpTo
  <2>2. Follows(Run(Len(s)), s, f, a)
    BY <2>1, <1>1 DEF Runs
  <2>3. ASSUME s # << >> PROVE g[Front(s)] = Run(Len(s))[Front(s)]
    <3>1. Front(s) \in Seq(I) /\ Len(Front(s)) \in Nat /\ Len(Front(s)) = Len(s) - 1
      BY <2>3, <2>1, FrontAndLast
    <3>2. Front(s) \in UpTo(I, Len(Front(s))) /\ Front(s) \in UpTo(I, Len(s))
      BY <3>1, <2>1 DEF UpTo
    <3>3. Runs(Run(Len(s)), Len(s), I, S, f, a)
          /\ Runs(Run(Len(Front(s))), Len(Front(s)), I, S, f, a)
      BY <3>1, <2>1, <1>1
    <3>4. Run(Len(s))[Front(s)] = Run(Len(Front(s)))[Front(s)]
      BY <3>1, <3>2, <3>3, <2>1, RunsAgree
    <3> QED  BY <3>1, <3>4, <1>2
  <2>4. g[s] = Run(Len(s))[s]
    BY <1>2
  <2> HIDE DEF g
  <2> QED  BY <2>2, <2>3, <2>4 DEF Follows
<1> HIDE DEF g
<1> QED  BY <1>3, <1>4

-----------------------------------------------------------------------------
(* Lines. *)

Line == Seq(Char \ {LF, CR})
Lines == Seq(Line) \ {<< >>}

LEMMA LinesAreTexts ==
  /\ Line \subseteq Text /\ Line \subseteq Plain /\ Plain \subseteq Text
  /\ Lines \subseteq Seq(Text) /\ Seq(Line) \subseteq Seq(Text)
<1>1. Char \ {LF, CR} \subseteq Char /\ Char \ {LF, CR} \subseteq Char \ {CR} /\ Char \ {CR} \subseteq Char
  OBVIOUS
<1>2. Line \subseteq Text
  BY <1>1, SeqMonotonic DEF Line, Text
<1>3. Line \subseteq Plain /\ Plain \subseteq Text
  BY <1>1, SeqMonotonic DEF Line, Text, Plain
<1>4. Seq(Line) \subseteq Seq(Text)
  BY <1>2, SeqMonotonic
<1> QED  BY <1>2, <1>3, <1>4 DEF Lines

\* A character after the last line.
Extended(lines, c) == [lines EXCEPT ![Len(lines)] = Append(@, c)]

LEMMA ExtendedType ==
  ASSUME NEW lines \in Lines, NEW c \in Char \ {LF, CR}
  PROVE  /\ Extended(lines, c) \in Lines /\ Len(lines) \in Nat \ {0}
         /\ Len(Extended(lines, c)) = Len(lines)
         /\ Extended(lines, c)[Len(lines)] = Append(lines[Len(lines)], c)
         /\ \A i \in 1 .. Len(lines) - 1 : Extended(lines, c)[i] = lines[i]
<1>1. lines \in Seq(Line) /\ Len(lines) \in Nat \ {0} /\ lines[Len(lines)] \in Line
  BY DEF Lines
<1>2. Append(lines[Len(lines)], c) \in Line
  BY <1>1 DEF Line
<1> DEFINE x == Append(lines[Len(lines)], c)
<1>3. Extended(lines, c) = [lines EXCEPT ![Len(lines)] = x]
  BY DEF Extended
<1> HIDE DEF x
<1>4. x \in Line
  BY <1>2 DEF x
<1>5. /\ Extended(lines, c) \in Seq(Line) /\ Len(Extended(lines, c)) = Len(lines)
      /\ Extended(lines, c)[Len(lines)] = x
      /\ \A i \in 1 .. Len(lines) - 1 : Extended(lines, c)[i] = lines[i]
  BY <1>1, <1>3, <1>4
<1>6. Extended(lines, c) # << >>
  BY <1>1, <1>5
<1> QED  BY <1>1, <1>5, <1>6 DEF x, Lines

LEMMA ReadType ==
  ASSUME NEW lines \in Lines, NEW afterCR \in BOOLEAN, NEW c \in Char
  PROVE  ReadCharacter(lines, afterCR, c) \in Lines
<1>1. CASE c \in {LF, CR}
  <2>1. << >> \in Line /\ lines \in Seq(Line)
    BY DEF Line, Lines
  <2>2. Append(lines, << >>) \in Seq(Line) /\ Append(lines, << >>) # << >>
    BY <2>1, Appended
  <2> QED  BY <1>1, <2>2 DEF ReadCharacter, Lines
<1>2. CASE c \notin {LF, CR}
  <2>1. ReadCharacter(lines, afterCR, c) = Extended(lines, c)
    BY <1>2 DEF ReadCharacter, Extended
  <2> QED  BY <1>2, <2>1, ExtendedType
<1> QED  BY <1>1, <1>2

LEMMA SplitEquation ==
  \A t \in Text :
    SplitLines[t] = IF t = << >> THEN << << >> >>
                    ELSE ReadCharacter(SplitLines[Front(t)], EndsInCR(Front(t)), Last(t))
<1> DEFINE f == [p \in Text \X Lines \X Char |-> ReadCharacter(p[2], EndsInCR(p[1]), p[3])]
<1>1. << << >> >> \in Lines
  BY DEF Lines, Line
<1>2. f \in [Text \X Lines \X Char -> Lines]
  <2>1. ASSUME NEW p \in Text \X Lines \X Char
        PROVE  ReadCharacter(p[2], EndsInCR(p[1]), p[3]) \in Lines
    BY ReadType DEF EndsInCR
  <2> QED  BY <2>1
<1>3. \A t \in Text, lines \in Lines, c \in Char :
        f[<<t, lines, c>>] = ReadCharacter(lines, EndsInCR(t), c)
  OBVIOUS
<1> HIDE DEF f
<1>4. PICK h \in [Text -> Lines] : \A s \in Text : Follows(h, s, f, << << >> >>)
  BY <1>1, <1>2, SequenceRecursion DEF Text
<1>5. ASSUME NEW s \in Text
      PROVE  h[s] = IF s = << >> THEN << << >> >>
                    ELSE ReadCharacter(h[Front(s)], EndsInCR(Front(s)), Last(s))
  <2>1. s # << >> => Front(s) \in Text /\ Last(s) \in Char
    BY FrontAndLast DEF Text
  <2> QED  BY <2>1, <1>3, <1>4 DEF Follows
<1>6. h = [text \in Text |-> IF text = << >> THEN << << >> >>
             ELSE ReadCharacter(h[Front(text)], EndsInCR(Front(text)), Last(text))]
  BY <1>5
<1>7. SplitLines = [text \in Text |-> IF text = << >> THEN << << >> >>
        ELSE ReadCharacter(SplitLines[Front(text)], EndsInCR(Front(text)), Last(text))]
  BY <1>6, Zenon DEF SplitLines
<1> QED  BY <1>7

LEMMA SplitEmpty == SplitLines[<< >>] = << << >> >>
<1>1. << >> \in Text
  BY DEF Text
<1> QED  BY <1>1, SplitEquation

LEMMA SplitAppend ==
  ASSUME NEW t \in Text, NEW c \in Char
  PROVE  SplitLines[Append(t, c)] = ReadCharacter(SplitLines[t], EndsInCR(t), c)
<1>1. Append(t, c) \in Text /\ Append(t, c) # << >> /\ Front(Append(t, c)) = t /\ Last(Append(t, c)) = c
  BY Appended DEF Text
<1> QED  BY <1>1, SplitEquation

LEMMA SplitType == \A t \in Text : SplitLines[t] \in Lines
<1> DEFINE T == {t \in Text : SplitLines[t] \in Lines}
<1>1. << >> \in T
  <2>1. << >> \in Text /\ << << >> >> \in Lines
    BY DEF Text, Lines, Line
  <2> QED  BY <2>1, SplitEmpty
<1>2. ASSUME NEW t \in Text, NEW c \in Char, t \in T PROVE Append(t, c) \in T
  <2>1. Append(t, c) \in Text
    BY Appended DEF Text
  <2>2. ReadCharacter(SplitLines[t], EndsInCR(t), c) \in Lines
    BY <1>2, ReadType DEF EndsInCR
  <2> QED  BY <2>1, <2>2, SplitAppend
<1>3. Seq(Char) \subseteq T
  <2> HIDE DEF T
  <2> QED  BY <1>1, <1>2, AllSequences DEF Text
<1> QED  BY <1>3 DEF Text

-----------------------------------------------------------------------------
(* The text that lines are. *)

LEMMA ContentEquation ==
  \A s \in Seq(Text) :
    Content[s] = IF s = << >> THEN << >>
                 ELSE IF Len(s) = 1 THEN s[1] ELSE Content[Front(s)] \o <<LF>> \o Last(s)
<1> DEFINE f == [p \in Seq(Text) \X Text \X Text |-> IF p[1] = << >> THEN p[3] ELSE p[2] \o <<LF>> \o p[3]]
<1>1. << >> \in Text
  BY DEF Text
<1>2. f \in [Seq(Text) \X Text \X Text -> Text]
  <2>1. ASSUME NEW u \in Text, NEW v \in Text PROVE u \o <<LF>> \o v \in Text
    BY CharAssumption DEF Text
  <2> QED  BY <2>1
<1>3. \A s \in Seq(Text), u \in Text, v \in Text :
        f[<<s, u, v>>] = IF s = << >> THEN v ELSE u \o <<LF>> \o v
  OBVIOUS
<1> HIDE DEF f
<1>4. PICK h \in [Seq(Text) -> Text] : \A s \in Seq(Text) : Follows(h, s, f, << >>)
  BY <1>1, <1>2, SequenceRecursion
<1>5. ASSUME NEW s \in Seq(Text)
      PROVE  h[s] = IF s = << >> THEN << >>
                    ELSE IF Len(s) = 1 THEN s[1] ELSE h[Front(s)] \o <<LF>> \o Last(s)
  <2>1. CASE s = << >>
    BY <2>1, <1>4 DEF Follows
  <2>2. CASE s # << >>
    <3>1. /\ Front(s) \in Seq(Text) /\ Last(s) \in Text
          /\ Len(s) \in Nat /\ Len(Front(s)) = Len(s) - 1
      BY <2>2, FrontAndLast
    <3>2. Front(s) = << >> <=> Len(s) = 1
      <4>1. \A u \in Seq(Text) : u = << >> <=> Len(u) = 0
        OBVIOUS
      <4>2. Front(s) = << >> <=> Len(Front(s)) = 0
        BY <3>1, <4>1, Zenon
      <4> QED  BY <3>1, <4>2
    <3>3. h[s] = f[<<Front(s), h[Front(s)], Last(s)>>]
      BY <2>2, <1>4 DEF Follows
    <3>4. f[<<Front(s), h[Front(s)], Last(s)>>]
            = IF Front(s) = << >> THEN Last(s) ELSE h[Front(s)] \o <<LF>> \o Last(s)
      BY <3>1, <1>3
    <3>5. Len(s) = 1 => Last(s) = s[1]
      BY DEF Last
    <3> QED  BY <2>2, <3>2, <3>3, <3>4, <3>5, Zenon
  <2> QED  BY <2>1, <2>2
<1>6. h = [lines \in Seq(Text) |-> IF lines = << >> THEN << >>
             ELSE IF Len(lines) = 1 THEN lines[1] ELSE h[Front(lines)] \o <<LF>> \o Last(lines)]
  BY <1>5, Zenon
<1>7. Content = [lines \in Seq(Text) |-> IF lines = << >> THEN << >>
        ELSE IF Len(lines) = 1 THEN lines[1] ELSE Content[Front(lines)] \o <<LF>> \o Last(lines)]
  BY <1>6, Zenon DEF Content
<1> QED  BY <1>7, Zenon

LEMMA ContentFew ==
  /\ Content[<< >>] = << >>
  /\ \A x \in Text : Content[<<x>>] = x
<1>1. << >> \in Seq(Text)
  OBVIOUS
<1>2. ASSUME NEW x \in Text PROVE Content[<<x>>] = x
  <2>1. <<x>> \in Seq(Text) /\ <<x>> # << >> /\ Len(<<x>>) = 1 /\ <<x>>[1] = x
    OBVIOUS
  <2> QED  BY <2>1, ContentEquation, Zenon
<1> QED  BY <1>1, <1>2, ContentEquation

LEMMA ContentAppend ==
  ASSUME NEW s \in Seq(Text), s # << >>, NEW x \in Text
  PROVE  Content[Append(s, x)] = Content[s] \o <<LF>> \o x
<1>1. /\ Append(s, x) \in Seq(Text) /\ Append(s, x) # << >>
      /\ Len(s) \in Nat /\ Len(Append(s, x)) = Len(s) + 1
      /\ Front(Append(s, x)) = s /\ Last(Append(s, x)) = x
  BY Appended
<1>2. Len(Append(s, x)) # 1
  BY <1>1
<1> QED  BY <1>1, <1>2, ContentEquation, Zenon

LEMMA ContentType ==
  /\ \A s \in Seq(Text) : Content[s] \in Text
  /\ \A s \in Seq(Line) : Content[s] \in Plain
<1>1. \A s \in Seq(Text) : Content[s] \in Text
  <2> DEFINE T == {s \in Seq(Text) : Content[s] \in Text}
  <2>1. << >> \in T
    <3>1. << >> \in Seq(Text) /\ << >> \in Text
      BY DEF Text
    <3> QED  BY <3>1, ContentFew
  <2>2. ASSUME NEW s \in Seq(Text), NEW x \in Text, s \in T PROVE Append(s, x) \in T
    <3>1. Append(s, x) \in Seq(Text)
      BY Appended
    <3>2. CASE s = << >>
      <4>1. Append(s, x) = <<x>>
        BY <3>2
      <4> QED  BY <3>1, <4>1, ContentFew
    <3>3. CASE s # << >>
      <4>1. Content[s] \o <<LF>> \o x \in Text
        BY <2>2, CharAssumption DEF Text
      <4> QED  BY <3>1, <3>3, <4>1, ContentAppend
    <3> QED  BY <3>2, <3>3
  <2> HIDE DEF T
  <2>3. Seq(Text) \subseteq T
    BY <2>1, <2>2, AllSequences
  <2> QED  BY <2>3 DEF T
<1>2. \A s \in Seq(Line) : Content[s] \in Plain
  <2> DEFINE T == {s \in Seq(Line) : Content[s] \in Plain}
  <2>1. << >> \in T
    <3>1. << >> \in Seq(Line) /\ << >> \in Plain
      BY DEF Plain
    <3> QED  BY <3>1, ContentFew
  <2>2. ASSUME NEW s \in Seq(Line), NEW x \in Line, s \in T PROVE Append(s, x) \in T
    <3>1. Append(s, x) \in Seq(Line) /\ s \in Seq(Text) /\ x \in Text /\ x \in Plain
      BY Appended, LinesAreTexts
    <3>2. CASE s = << >>
      <4>1. Append(s, x) = <<x>>
        BY <3>2
      <4> QED  BY <3>1, <4>1, ContentFew
    <3>3. CASE s # << >>
      <4>1. Content[s] \o <<LF>> \o x \in Plain
        BY <2>2, <3>1, CharAssumption DEF Plain
      <4> QED  BY <3>1, <3>3, <4>1, ContentAppend
    <3> QED  BY <3>2, <3>3
  <2> HIDE DEF T
  <2>3. Seq(Line) \subseteq T
    BY <2>1, <2>2, AllSequences
  <2> QED  BY <2>3 DEF T
<1> QED  BY <1>1, <1>2

-----------------------------------------------------------------------------
(* Lines that go on in the middle of a line. *)

LEMMA TextsAssociative ==
  ASSUME NEW s \in Text, NEW t \in Text, NEW u \in Text
  PROVE  Associate(s, t, u)
BY ConcatAssociative DEF Associate, Text

LEMMA TextsJoined ==
  ASSUME NEW s \in Text, NEW t \in Text
  PROVE  s \o t \in Text /\ Len(s \o t) = Len(s) + Len(t) /\ Len(s) \in Nat /\ Len(t) \in Nat
BY ConcatProperties DEF Text

\* The last line of p and the first of q are one.
Join(p, q) ==
  [i \in 1 .. Len(p) + Len(q) - 1 |->
     IF i < Len(p) THEN p[i] ELSE IF i = Len(p) THEN p[i] \o q[1] ELSE q[i - Len(p) + 1]]

LEMMA JoinType ==
  ASSUME NEW C, NEW p \in Seq(Seq(C)), p # << >>, NEW q \in Seq(Seq(C)), q # << >>
  PROVE  /\ Join(p, q) \in Seq(Seq(C)) /\ Join(p, q) # << >>
         /\ Len(p) \in Nat \ {0} /\ Len(q) \in Nat \ {0}
         /\ Len(Join(p, q)) = Len(p) + Len(q) - 1
<1>1. Len(p) \in Nat \ {0} /\ Len(q) \in Nat \ {0}
  OBVIOUS
<1> DEFINE n == Len(p) + Len(q) - 1
           At(i) == IF i < Len(p) THEN p[i] ELSE IF i = Len(p) THEN p[i] \o q[1] ELSE q[i - Len(p) + 1]
<1>2. n \in Nat \ {0}
  BY <1>1
<1>3. ASSUME NEW i \in 1 .. n PROVE At(i) \in Seq(C)
  <2>1. CASE i < Len(p)
    BY <1>1, <2>1
  <2>2. CASE i = Len(p)
    <3>1. p[i] \in Seq(C) /\ q[1] \in Seq(C)
      BY <1>1, <2>2
    <3> QED  BY <3>1, <2>2, <1>1
  <2>3. CASE i > Len(p)
    BY <1>1, <2>3
  <2> QED  BY <1>1, <2>1, <2>2, <2>3
<1>4. Join(p, q) = [i \in 1 .. n |-> At(i)]
  BY DEF Join
<1> HIDE DEF n, At
<1>5. Join(p, q) \in Seq(Seq(C)) /\ Len(Join(p, q)) = n
  BY <1>2, <1>3, <1>4
<1>6. Join(p, q) # << >>
  BY <1>2, <1>5
<1> QED  BY <1>1, <1>5, <1>6 DEF n

LEMMA JoinOne ==
  ASSUME NEW p \in Seq(Text), p # << >>, NEW x \in Text
  PROVE  Content[Join(p, <<x>>)] = Content[p] \o x
<1>1. <<x>> \in Seq(Text) /\ <<x>> # << >> /\ Len(<<x>>) = 1 /\ <<x>>[1] = x
  OBVIOUS
<1>2. /\ Join(p, <<x>>) \in Seq(Text) /\ Join(p, <<x>>) # << >>
      /\ Len(p) \in Nat \ {0} /\ Len(Join(p, <<x>>)) = Len(p)
  <2>1. /\ Join(p, <<x>>) \in Seq(Text) /\ Join(p, <<x>>) # << >>
        /\ Len(p) \in Nat \ {0} /\ Len(Join(p, <<x>>)) = Len(p) + Len(<<x>>) - 1
    BY <1>1, JoinType DEF Text
  <2> QED  BY <1>1, <2>1
<1>3. Join(p, <<x>>)[Len(p)] = p[Len(p)] \o x /\ \A i \in 1 .. Len(p) - 1 : Join(p, <<x>>)[i] = p[i]
  <2> DEFINE q == <<x>>
  <2>1. Len(p) + Len(q) - 1 = Len(p) /\ q[1] = x
    BY <1>1, <1>2
  <2> HIDE DEF q
  <2>2. \A i \in 1 .. Len(p) :
          Join(p, q)[i] = IF i < Len(p) THEN p[i] ELSE IF i = Len(p) THEN p[i] \o q[1] ELSE q[i - Len(p) + 1]
    BY <2>1 DEF Join
  <2>3. Len(p) \in 1 .. Len(p) /\ ~ (Len(p) < Len(p)) /\ \A i \in 1 .. Len(p) - 1 : i \in 1 .. Len(p) /\ i < Len(p)
    BY <1>2
  <2>4. Join(p, q)[Len(p)] = p[Len(p)] \o x
    BY <2>1, <2>2, <2>3, Zenon
  <2>5. \A i \in 1 .. Len(p) - 1 : Join(p, q)[i] = p[i]
    BY <2>2, <2>3, Zenon
  <2> QED  BY <2>4, <2>5 DEF q
<1>4. CASE Len(p) = 1
  <2>1. p = <<p[1]>> /\ p[1] \in Text
    BY <1>4
  <2>2. Join(p, <<x>>) = <<p[1] \o x>> /\ p[1] \o x \in Text
    <3>1. p[1] \o x \in Text
      BY <2>1, TextsJoined
    <3>2. <<p[1] \o x>> \in Seq(Text) /\ Len(<<p[1] \o x>>) = 1 /\ <<p[1] \o x>>[1] = p[1] \o x
      BY <3>1
    <3>3. \A i \in 1 .. 1 : i = 1
      OBVIOUS
    <3> QED  BY <3>1, <3>2, <3>3, <1>2, <1>3, <1>4, SeqEqual
  <2>3. Content[<<p[1] \o x>>] = p[1] \o x /\ Content[<<p[1]>>] = p[1]
    BY <2>1, <2>2, ContentFew
  <2> QED  BY <2>1, <2>2, <2>3
<1>5. CASE Len(p) # 1
  <2>1. /\ Front(p) \in Seq(Text) /\ Last(p) \in Text /\ Len(Front(p)) = Len(p) - 1
        /\ p = Append(Front(p), Last(p))
    BY FrontAndLast
  <2>2. Front(p) # << >>
    BY <1>2, <1>5, <2>1
  <2>3. Last(p) \o x \in Text
    BY <2>1, TextsJoined
  <2>4. Join(p, <<x>>) = Append(Front(p), Last(p) \o x)
    <3> DEFINE w == Last(p) \o x
               r == Append(Front(p), w)
    <3>1. /\ r \in Seq(Text) /\ Len(r) = Len(p) /\ r[Len(p)] = w
          /\ \A i \in 1 .. Len(p) - 1 : r[i] = Front(p)[i]
      <4> HIDE DEF w
      <4> QED  BY <2>1, <2>3, <1>2 DEF w
    <3>2. \A i \in 1 .. Len(p) - 1 : Front(p)[i] = p[i]
      BY <1>2 DEF Front
    <3>3. Last(p) = p[Len(p)]
      BY DEF Last
    <3> HIDE DEF r
    <3>4. \A i \in 1 .. Len(p) : i = Len(p) \/ i \in 1 .. Len(p) - 1
      BY <1>2
    <3>5. \A i \in 1 .. Len(p) : r[i] = Join(p, <<x>>)[i]
      BY <3>1, <3>2, <3>3, <3>4, <1>3, Zenon DEF w
    <3>6. r = Join(p, <<x>>)
      BY <3>1, <3>5, <1>2, SeqEqual
    <3> QED  BY <3>6 DEF r, w
  <2>5. Content[Join(p, <<x>>)] = (Content[Front(p)] \o <<LF>>) \o (Last(p) \o x)
    BY <2>1, <2>2, <2>3, <2>4, ContentAppend
  <2>6. Content[p] = (Content[Front(p)] \o <<LF>>) \o Last(p)
    BY <2>1, <2>2, ContentAppend
  <2>7. Content[Front(p)] \o <<LF>> \in Text
    <3>1. Content[Front(p)] \in Text /\ <<LF>> \in Text
      BY <2>1, ContentType, CharAssumption DEF Text
    <3> QED  BY <3>1, TextsJoined
  <2>8. Associate(Content[Front(p)] \o <<LF>>, Last(p), x)
    BY <2>1, <2>7, TextsAssociative
  <2> QED  BY <2>5, <2>6, <2>8, Zenon DEF Associate
<1> QED  BY <1>4, <1>5

LEMMA JoinAppend ==
  ASSUME NEW p \in Seq(Text), p # << >>, NEW q \in Seq(Text), q # << >>, NEW x \in Text
  PROVE  Join(p, Append(q, x)) = Append(Join(p, q), x)
<1> DEFINE r == Append(q, x)
           j == Join(p, q)
<1>1. /\ r \in Seq(Text) /\ r # << >> /\ Len(r) = Len(q) + 1 /\ r[Len(q) + 1] = x
      /\ \A i \in 1 .. Len(q) : r[i] = q[i]
  BY Appended
<1>2. /\ j \in Seq(Text) /\ Len(j) = Len(p) + Len(q) - 1
      /\ Len(p) \in Nat \ {0} /\ Len(q) \in Nat \ {0}
  BY JoinType DEF Text
<1>3. \A i \in 1 .. Len(p) + Len(q) - 1 :
        j[i] = IF i < Len(p) THEN p[i] ELSE IF i = Len(p) THEN p[i] \o q[1] ELSE q[i - Len(p) + 1]
  BY DEF Join
<1> HIDE DEF j, r
<1>4. Append(j, x) \in Seq(Text) /\ Len(Append(j, x)) = Len(p) + Len(q)
      /\ Append(j, x)[Len(p) + Len(q)] = x
      /\ \A i \in 1 .. Len(p) + Len(q) - 1 : Append(j, x)[i] = j[i]
  BY <1>2
<1>5. Join(p, r) \in Seq(Text) /\ Len(Join(p, r)) = Len(p) + Len(q)
  <2>1. Join(p, r) \in Seq(Text) /\ Len(Join(p, r)) = Len(p) + Len(r) - 1
    BY <1>1, JoinType DEF Text
  <2> QED  BY <1>1, <1>2, <2>1
<1>6. \A i \in 1 .. Len(p) + Len(q) :
        Join(p, r)[i] = IF i < Len(p) THEN p[i] ELSE IF i = Len(p) THEN p[i] \o r[1] ELSE r[i - Len(p) + 1]
  <2>1. Len(p) + Len(r) - 1 = Len(p) + Len(q)
    BY <1>1, <1>2
  <2> QED  BY <2>1 DEF Join
<1>7. ASSUME NEW i \in 1 .. Len(p) + Len(q) PROVE Join(p, r)[i] = Append(j, x)[i]
  <2>1. CASE i < Len(p)
    <3>1. i \in 1 .. Len(p) + Len(q) - 1
      BY <1>2, <2>1
    <3> QED  BY <3>1, <2>1, <1>3, <1>4, <1>6
  <2>2. CASE i = Len(p)
    <3>1. i \in 1 .. Len(p) + Len(q) - 1 /\ ~ (i < Len(p)) /\ 1 \in 1 .. Len(q)
      BY <1>2, <2>2
    <3>2. r[1] = q[1]
      BY <3>1, <1>1
    <3>3. Join(p, r)[i] = p[i] \o r[1]
      BY <3>1, <2>2, <1>6, Zenon
    <3>4. j[i] = p[i] \o q[1]
      BY <3>1, <2>2, <1>3, Zenon
    <3> QED  BY <3>1, <3>2, <3>3, <3>4, <1>4
  <2>3. CASE i > Len(p) /\ i < Len(p) + Len(q)
    <3>1. /\ i \in 1 .. Len(p) + Len(q) - 1 /\ ~ (i < Len(p)) /\ i # Len(p)
          /\ i - Len(p) + 1 \in 1 .. Len(q)
      BY <1>2, <2>3
    <3>2. Join(p, r)[i] = r[i - Len(p) + 1]
      BY <3>1, <1>6, Zenon
    <3>3. j[i] = q[i - Len(p) + 1]
      BY <3>1, <1>3, Zenon
    <3> QED  BY <3>1, <3>2, <3>3, <1>1, <1>4
  <2>4. CASE i = Len(p) + Len(q)
    <3>1. ~ (i < Len(p)) /\ i # Len(p) /\ i - Len(p) + 1 = Len(q) + 1
      BY <1>2, <2>4
    <3>2. Join(p, r)[i] = r[i - Len(p) + 1]
      BY <3>1, <1>6, Zenon
    <3> QED  BY <3>1, <3>2, <2>4, <1>1, <1>4, Zenon
  <2> QED  BY <1>2, <2>1, <2>2, <2>3, <2>4
<1>8. Join(p, r) = Append(j, x)
  BY <1>4, <1>5, <1>7, SeqEqual
<1> QED  BY <1>8 DEF j, r

\* The text of joined lines is the two texts one after the other.
LEMMA ContentJoin ==
  ASSUME NEW p \in Seq(Text), p # << >>, NEW q \in Seq(Text), q # << >>
  PROVE  Content[Join(p, q)] = Content[p] \o Content[q]
<1> DEFINE T == {s \in Seq(Text) : s # << >> => Content[Join(p, s)] = Content[p] \o Content[s]}
<1>1. << >> \in T
  OBVIOUS
<1>2. ASSUME NEW s \in Seq(Text), NEW x \in Text, s \in T PROVE Append(s, x) \in T
  <2>1. Append(s, x) \in Seq(Text) /\ Append(s, x) # << >>
    BY Appended
  <2>2. CASE s = << >>
    <3>1. Append(s, x) = <<x>>
      BY <2>2
    <3>2. Content[Join(p, <<x>>)] = Content[p] \o Content[<<x>>]
      BY JoinOne, ContentFew
    <3> QED  BY <2>1, <3>1, <3>2
  <2>3. CASE s # << >>
    <3> DEFINE P == Content[p]
               Q == Content[s]
               L == <<LF>>
    <3>1. P \in Text /\ Q \in Text /\ L \in Text /\ Join(p, s) \in Seq(Text) /\ Join(p, s) # << >>
      BY <2>3, ContentType, CharAssumption, JoinType DEF Text
    <3>2. Content[Join(p, Append(s, x))] = Content[Join(p, s)] \o L \o x
      BY <2>3, <3>1, JoinAppend, ContentAppend
    <3>3. Content[Join(p, s)] = P \o Q
      BY <1>2, <2>3
    <3>4. Content[Append(s, x)] = (Q \o L) \o x
      BY <2>3, ContentAppend
    <3> HIDE DEF P, Q, L
    <3>5. Associate(P, Q, L)
      BY <3>1, TextsAssociative
    <3>6. Q \o L \in Text
      BY <3>1, TextsJoined
    <3>7. Associate(P, Q \o L, x)
      BY <3>1, <3>6, TextsAssociative
    <3>8. Content[Join(p, Append(s, x))] = P \o Content[Append(s, x)]
      BY <3>2, <3>3, <3>4, <3>5, <3>7, Zenon DEF Associate
    <3> QED  BY <2>1, <3>8 DEF P
  <2> QED  BY <2>2, <2>3
<1> HIDE DEF T
<1>3. Seq(Text) \subseteq T
  BY <1>1, <1>2, AllSequences
<1> QED  BY <1>3 DEF T

-----------------------------------------------------------------------------
(* What the editor sends is what it shows. *)

LEMMA OneMore ==
  ASSUME NEW t \in Text, NEW c \in Char
  PROVE  t \o <<c>> = Append(t, c)
BY AppendIsConcat DEF Text

LEMMA ContentExtended ==
  ASSUME NEW lines \in Lines, NEW c \in Char \ {LF, CR}
  PROVE  Content[Extended(lines, c)] = Append(Content[lines], c)
<1>1. lines \in Seq(Text) /\ lines # << >> /\ <<c>> \in Text
  BY LinesAreTexts DEF Lines, Text
<1>2. /\ Extended(lines, c) \in Seq(Text) /\ Len(lines) \in Nat \ {0}
      /\ Len(Extended(lines, c)) = Len(lines)
      /\ Extended(lines, c)[Len(lines)] = Append(lines[Len(lines)], c)
      /\ \A i \in 1 .. Len(lines) - 1 : Extended(lines, c)[i] = lines[i]
  BY ExtendedType, LinesAreTexts
<1>3. lines[Len(lines)] \in Text
  BY <1>1, <1>2
<1>4. Append(lines[Len(lines)], c) = lines[Len(lines)] \o <<c>>
  BY <1>3, OneMore
<1> DEFINE q == << <<c>> >>
           e == Extended(lines, c)
<1>5. q \in Seq(Text) /\ q # << >> /\ Len(q) = 1 /\ q[1] = <<c>>
  BY <1>1
<1> HIDE DEF q, e
<1>6. Join(lines, q) \in Seq(Text) /\ Len(Join(lines, q)) = Len(lines)
  <2>1. Join(lines, q) \in Seq(Text) /\ Len(Join(lines, q)) = Len(lines) + Len(q) - 1
    BY <1>1, <1>5, JoinType DEF Text
  <2> QED  BY <2>1, <1>2, <1>5
<1>7. ASSUME NEW i \in 1 .. Len(lines) PROVE Join(lines, q)[i] = e[i]
  <2>1. Len(lines) + Len(q) - 1 = Len(lines)
    BY <1>2, <1>5
  <2>2. Join(lines, q)[i] =
          IF i < Len(lines) THEN lines[i] ELSE IF i = Len(lines) THEN lines[i] \o q[1] ELSE q[i - Len(lines) + 1]
    BY <2>1 DEF Join
  <2>3. CASE i = Len(lines)
    <3>1. ~ (i < Len(lines))
      BY <1>2, <2>3
    <3> QED  BY <3>1, <2>2, <2>3, <1>2, <1>4, <1>5, Zenon DEF e
  <2>4. CASE i # Len(lines)
    <3>1. i < Len(lines) /\ i \in 1 .. Len(lines) - 1
      BY <1>2, <2>4
    <3> QED  BY <3>1, <2>2, <1>2, Zenon DEF e
  <2> QED  BY <2>3, <2>4
<1>8. Join(lines, q) = e
  <2>1. e \in Seq(Text) /\ Len(e) = Len(lines)
    BY <1>2 DEF e
  <2> QED  BY <2>1, <1>6, <1>7, SeqEqual
<1>9. Content[Join(lines, q)] = Content[lines] \o <<c>>
  BY <1>1, JoinOne DEF q
<1>10. Content[lines] \in Text
  BY <1>1, ContentType
<1>11. Content[lines] \o <<c>> = Append(Content[lines], c)
  BY <1>10, OneMore
<1> QED  BY <1>8, <1>9, <1>11 DEF e

LEMMA ContentNewLine ==
  ASSUME NEW lines \in Lines
  PROVE  /\ Append(lines, << >>) \in Lines
         /\ Content[Append(lines, << >>)] = Append(Content[lines], LF)
<1>1. lines \in Seq(Text) /\ lines # << >> /\ << >> \in Text /\ << >> \in Line /\ lines \in Seq(Line)
  BY LinesAreTexts DEF Lines, Text, Line
<1>2. Append(lines, << >>) \in Lines
  BY <1>1, Appended DEF Lines
<1>3. Content[Append(lines, << >>)] = (Content[lines] \o <<LF>>) \o << >>
  BY <1>1, ContentAppend
<1>4. Content[lines] \in Text /\ Append(Content[lines], LF) \in Text
  BY <1>1, ContentType, CharAssumption, Appended DEF Text
<1>5. Content[lines] \o <<LF>> = Append(Content[lines], LF)
  BY <1>4, CharAssumption, OneMore
<1>6. Append(Content[lines], LF) \o << >> = Append(Content[lines], LF)
  BY <1>4, ConcatEmptySeq DEF Text
<1> QED  BY <1>2, <1>3, <1>5, <1>6

OnWire(c) == IF c = LF THEN Eol ELSE <<c>>

LEMMA OnWireType == \A c \in Char : OnWire(c) \in Text
<1>1. << LF >> \in Text /\ <<CR, LF>> \in Text
  BY CharAssumption DEF Text
<1>2. ASSUME NEW c \in Char PROVE <<c>> \in Text
  BY DEF Text
<1> QED  BY <1>1, <1>2, SyncAssumption DEF OnWire

LEMMA WireEquation ==
  \A t \in Text : Wire[t] = IF t = << >> THEN << >> ELSE Wire[Front(t)] \o OnWire(Last(t))
<1> DEFINE f == [p \in Text \X Text \X Char |-> p[2] \o OnWire(p[3])]
<1>1. << >> \in Text
  BY DEF Text
<1>2. f \in [Text \X Text \X Char -> Text]
  BY OnWireType, TextsJoined
<1>3. \A t \in Text, u \in Text, c \in Char : f[<<t, u, c>>] = u \o OnWire(c)
  OBVIOUS
<1> HIDE DEF f
<1>4. PICK h \in [Text -> Text] : \A s \in Text : Follows(h, s, f, << >>)
  BY <1>1, <1>2, SequenceRecursion DEF Text
<1>5. ASSUME NEW s \in Text
      PROVE  h[s] = IF s = << >> THEN << >> ELSE h[Front(s)] \o OnWire(Last(s))
  <2>1. s # << >> => Front(s) \in Text /\ Last(s) \in Char
    BY FrontAndLast DEF Text
  <2> QED  BY <2>1, <1>3, <1>4 DEF Follows
<1>6. h = [text \in Text |-> IF text = << >> THEN << >> ELSE h[Front(text)] \o OnWire(Last(text))]
  BY <1>5
<1>7. Wire = [text \in Text |-> IF text = << >> THEN << >> ELSE Wire[Front(text)] \o OnWire(Last(text))]
  BY <1>6, Zenon DEF Wire, OnWire
<1> QED  BY <1>7

LEMMA WireAppend ==
  ASSUME NEW t \in Text, NEW c \in Char
  PROVE  Wire[Append(t, c)] = Wire[t] \o OnWire(c)
<1>1. Append(t, c) \in Text /\ Append(t, c) # << >> /\ Front(Append(t, c)) = t /\ Last(Append(t, c)) = c
  BY Appended DEF Text
<1> QED  BY <1>1, WireEquation

LEMMA WireType == Wire[<< >>] = << >> /\ \A t \in Text : Wire[t] \in Text
<1> DEFINE T == {t \in Text : Wire[t] \in Text}
<1>1. << >> \in Text
  BY DEF Text
<1>2. Wire[<< >>] = << >>
  BY <1>1, WireEquation
<1>3. << >> \in T
  BY <1>1, <1>2
<1>4. ASSUME NEW t \in Text, NEW c \in Char, t \in T PROVE Append(t, c) \in T
  <2>1. Append(t, c) \in Text
    BY Appended DEF Text
  <2>2. Wire[t] \o OnWire(c) \in Text
    BY <1>4, OnWireType, TextsJoined
  <2> QED  BY <2>1, <2>2, WireAppend
<1>5. Seq(Char) \subseteq T
  <2> HIDE DEF T
  <2> QED  BY <1>3, <1>4, AllSequences DEF Text
<1> QED  BY <1>2, <1>5 DEF Text

\* The ends of lines on the wire are LF, or CR LF.
LEMMA WireOfOne ==
  ASSUME NEW t \in Text, NEW c \in Char
  PROVE  /\ Wire[t] \in Text
         /\ c # LF => Wire[Append(t, c)] = Append(Wire[t], c)
         /\ c = LF => \/ Wire[Append(t, c)] = Append(Wire[t], LF)
                      \/ Wire[Append(t, c)] = Append(Append(Wire[t], CR), LF)
<1>1. Wire[t] \in Text
  BY WireType
<1>2. ASSUME c # LF PROVE Wire[Append(t, c)] = Append(Wire[t], c)
  BY <1>1, <1>2, WireAppend, OneMore DEF OnWire
<1>3. ASSUME c = LF
      PROVE  \/ Wire[Append(t, c)] = Append(Wire[t], LF)
             \/ Wire[Append(t, c)] = Append(Append(Wire[t], CR), LF)
  <2>1. Wire[Append(t, c)] = Wire[t] \o Eol
    BY <1>3, WireAppend DEF OnWire
  <2>2. CASE Eol = <<LF>>
    BY <1>1, <2>1, <2>2, CharAssumption, OneMore
  <2>3. CASE Eol = <<CR, LF>>
    <3>1. /\ <<CR>> \in Text /\ <<LF>> \in Text /\ Append(Wire[t], CR) \in Text
          /\ <<CR>> \o <<LF>> = <<CR, LF>>
      <4>1. <<CR>> \in Text /\ <<LF>> \in Text
        BY CharAssumption DEF Text
      <4>2. <<CR>> \o <<LF>> = Append(<<CR>>, LF)
        BY <4>1, CharAssumption, OneMore
      <4>3. Append(<<CR>>, LF) = <<CR, LF>>
        <5>1. /\ Append(<<CR>>, LF) \in Seq(Char) /\ Len(Append(<<CR>>, LF)) = 2
              /\ Append(<<CR>>, LF)[1] = CR /\ Append(<<CR>>, LF)[2] = LF
          BY CharAssumption
        <5>2. <<CR, LF>> \in Seq(Char) /\ Len(<<CR, LF>>) = 2 /\ <<CR, LF>>[1] = CR /\ <<CR, LF>>[2] = LF
          BY CharAssumption
        <5>3. \A i \in 1 .. 2 : i = 1 \/ i = 2
          OBVIOUS
        <5> QED  BY <5>1, <5>2, <5>3, SeqEqual
      <4>4. Append(Wire[t], CR) \in Text
        BY <1>1, CharAssumption, Appended DEF Text
      <4> QED  BY <4>1, <4>2, <4>3, <4>4
    <3>2. Associate(Wire[t], <<CR>>, <<LF>>)
      BY <1>1, <3>1, TextsAssociative
    <3>3. Wire[t] \o <<CR>> = Append(Wire[t], CR)
      BY <1>1, CharAssumption, OneMore
    <3>4. Append(Wire[t], CR) \o <<LF>> = Append(Append(Wire[t], CR), LF)
      BY <3>1, CharAssumption, OneMore
    <3> QED  BY <2>1, <2>3, <3>1, <3>2, <3>3, <3>4, Zenon DEF Associate
  <2> QED  BY <2>2, <2>3, SyncAssumption
<1> QED  BY <1>1, <1>2, <1>3

\* However the editor ends its lines, the bridge reads the text it shows.
LEMMA SplitWire == \A t \in Plain : ~ EndsInCR(Wire[t]) /\ Content[SplitLines[Wire[t]]] = t
<1> DEFINE T == {t \in Plain : ~ EndsInCR(Wire[t]) /\ Content[SplitLines[Wire[t]]] = t}
<1>1. << >> \in T
  <2>1. << >> \in Plain /\ << >> \in Text
    BY DEF Plain, Text
  <2>2. Content[SplitLines[<< >>]] = << >>
    BY <2>1, SplitEmpty, ContentFew
  <2> QED  BY <2>1, <2>2, WireType DEF EndsInCR
<1>2. ASSUME NEW t \in Plain, NEW c \in Char \ {CR}, t \in T PROVE Append(t, c) \in T
  <2> DEFINE w == Wire[t]
             v == Wire[Append(t, c)]
             lines == SplitLines[w]
  <2>1. t \in Text /\ Append(t, c) \in Plain
    BY LinesAreTexts, Appended DEF Plain
  <2>2. w \in Text /\ ~ EndsInCR(w) /\ Content[lines] = t
    BY <1>2, <2>1, WireType
  <2>3. lines \in Lines
    BY <2>2, SplitType
  <2>4. /\ c # LF => v = Append(w, c)
        /\ c = LF => v = Append(w, LF) \/ v = Append(Append(w, CR), LF)
    BY <2>1, WireOfOne
  <2>5. LF \in Char /\ CR \in Char /\ LF # CR
    BY CharAssumption
  <2>6. \A u \in Text, d \in Char : Append(u, d) \in Text /\ (EndsInCR(Append(u, d)) <=> d = CR)
    <3>1. ASSUME NEW u \in Text, NEW d \in Char
          PROVE  Append(u, d) \in Text /\ Append(u, d) # << >> /\ Last(Append(u, d)) = d
      BY Appended DEF Text
    <3> QED  BY <3>1, Zenon DEF EndsInCR
  <2> HIDE DEF v
  <2>7. ~ EndsInCR(v)
    BY <2>2, <2>4, <2>5, <2>6
  <2>8. CASE c # LF
    <3>1. SplitLines[v] = ReadCharacter(lines, EndsInCR(w), c)
      BY <2>2, <2>4, <2>8, SplitAppend
    <3>2. SplitLines[v] = Extended(lines, c)
      BY <2>8, <3>1 DEF ReadCharacter, Extended
    <3>3. Content[SplitLines[v]] = Append(t, c)
      <4> HIDE DEF lines, w
      <4> QED  BY <2>2, <2>3, <2>8, <3>2, ContentExtended
    <3> QED  BY <3>3, <2>1, <2>7 DEF v
  <2>9. CASE c = LF
    <3>1. Content[Append(lines, << >>)] = Append(t, c)
      <4> HIDE DEF lines, w
      <4> QED  BY <2>2, <2>3, <2>9, ContentNewLine
    <3>2. SplitLines[v] = Append(lines, << >>)
      <4>1. CASE v = Append(w, LF)
        <5>1. SplitLines[v] = ReadCharacter(lines, EndsInCR(w), LF)
          BY <4>1, <2>2, <2>5, SplitAppend
        <5> QED  BY <5>1, <2>2 DEF ReadCharacter
      <4>2. CASE v = Append(Append(w, CR), LF)
        <5>1. SplitLines[Append(w, CR)] = Append(lines, << >>)
          <6>1. SplitLines[Append(w, CR)] = ReadCharacter(lines, EndsInCR(w), CR)
            BY <2>2, <2>5, SplitAppend
          <6> QED  BY <6>1, <2>5 DEF ReadCharacter
        <5>2. Append(w, CR) \in Text /\ EndsInCR(Append(w, CR))
          BY <2>2, <2>5, <2>6
        <5>3. SplitLines[v] = ReadCharacter(SplitLines[Append(w, CR)], EndsInCR(Append(w, CR)), LF)
          BY <4>2, <5>2, <2>5, SplitAppend
        <5> QED  BY <5>1, <5>2, <5>3, Zenon DEF ReadCharacter
      <4> QED  BY <2>4, <2>9, <4>1, <4>2
    <3> QED  BY <3>1, <3>2, <2>1, <2>7 DEF v
  <2> QED  BY <2>8, <2>9
<1> HIDE DEF T
<1>3. Plain \subseteq T
  BY <1>1, <1>2, AllSequences DEF Plain
<1> QED  BY <1>3 DEF T

-----------------------------------------------------------------------------
(* Positions. *)

NextPosition(at, c) ==
  IF c = LF THEN [line |-> at.line + 1, character |-> 0] ELSE [at EXCEPT !.character = @ + 1]

LEMMA NextPositionIs ==
  ASSUME NEW at \in Position, NEW c \in Char
  PROVE  /\ NextPosition(at, c) \in Position
         /\ c = LF => NextPosition(at, c).line = at.line + 1 /\ NextPosition(at, c).character = 0
         /\ c # LF => /\ NextPosition(at, c).line = at.line
                      /\ NextPosition(at, c).character = at.character + 1
BY DEF NextPosition, Position

LEMMA PositionEquation ==
  \A t \in Text :
    PositionAfter[t] = IF t = << >> THEN [line |-> 0, character |-> 0]
                       ELSE NextPosition(PositionAfter[Front(t)], Last(t))
<1> DEFINE f == [p \in Text \X Position \X Char |-> NextPosition(p[2], p[3])]
           zero == [line |-> 0, character |-> 0]
<1>1. zero \in Position
  BY DEF Position
<1>2. f \in [Text \X Position \X Char -> Position]
  BY NextPositionIs
<1>3. \A t \in Text, p \in Position, c \in Char : f[<<t, p, c>>] = NextPosition(p, c)
  OBVIOUS
<1> HIDE DEF f, zero
<1>4. PICK h \in [Text -> Position] : \A s \in Text : Follows(h, s, f, zero)
  BY <1>1, <1>2, SequenceRecursion DEF Text
<1>5. ASSUME NEW s \in Text
      PROVE  h[s] = IF s = << >> THEN zero ELSE NextPosition(h[Front(s)], Last(s))
  <2>1. s # << >> => Front(s) \in Text /\ Last(s) \in Char
    BY FrontAndLast DEF Text
  <2> QED  BY <2>1, <1>3, <1>4 DEF Follows
<1>6. h = [text \in Text |-> IF text = << >> THEN zero ELSE NextPosition(h[Front(text)], Last(text))]
  BY <1>5
<1>7. PositionAfter =
        [text \in Text |-> IF text = << >> THEN zero ELSE NextPosition(PositionAfter[Front(text)], Last(text))]
  BY <1>6, Zenon DEF PositionAfter, NextPosition, zero
<1> QED  BY <1>7 DEF zero

LEMMA PositionAppend ==
  ASSUME NEW t \in Text, NEW c \in Char
  PROVE  PositionAfter[Append(t, c)] = NextPosition(PositionAfter[t], c)
<1>1. Append(t, c) \in Text /\ Append(t, c) # << >> /\ Front(Append(t, c)) = t /\ Last(Append(t, c)) = c
  BY Appended DEF Text
<1> QED  BY <1>1, PositionEquation

LEMMA PositionType == \A t \in Text : PositionAfter[t] \in Position
<1> DEFINE T == {t \in Text : PositionAfter[t] \in Position}
<1>1. << >> \in T
  <2>1. << >> \in Text
    BY DEF Text
  <2>2. PositionAfter[<< >>] = [line |-> 0, character |-> 0]
    BY <2>1, PositionEquation
  <2> QED  BY <2>1, <2>2 DEF Position
<1>2. ASSUME NEW t \in Text, NEW c \in Char, t \in T PROVE Append(t, c) \in T
  <2>1. Append(t, c) \in Text
    BY Appended DEF Text
  <2> QED  BY <2>1, <1>2, PositionAppend, NextPositionIs
<1>3. Seq(Char) \subseteq T
  <2> HIDE DEF T
  <2> QED  BY <1>1, <1>2, AllSequences DEF Text
<1> QED  BY <1>3 DEF Text

NotAfter(p, q) == p.line <= q.line /\ (p.line = q.line => p.character <= q.character)

\* Reading on never moves back.
LEMMA PositionsGrow ==
  ASSUME NEW b \in Text
  PROVE  \A r \in Text : NotAfter(PositionAfter[b], PositionAfter[b \o r])
<1> DEFINE p == PositionAfter[b]
           T == {r \in Text : NotAfter(p, PositionAfter[b \o r])}
<1>0. p \in Position /\ p.line \in Nat /\ p.character \in Nat
  BY PositionType DEF Position
<1>1. << >> \in T
  <2>1. << >> \in Text
    BY DEF Text
  <2>2. b \o << >> = b
    BY ConcatEmptySeq DEF Text
  <2> QED  BY <2>1, <2>2, <1>0 DEF NotAfter
<1>2. ASSUME NEW r \in Text, NEW c \in Char, r \in T PROVE Append(r, c) \in T
  <2>1. Append(r, c) \in Text /\ b \o r \in Text /\ <<c>> \in Text
    BY Appended, TextsJoined DEF Text
  <2>2. b \o Append(r, c) = Append(b \o r, c)
    <3>1. Append(r, c) = r \o <<c>> /\ Append(b \o r, c) = (b \o r) \o <<c>>
      BY <2>1, OneMore
    <3>2. Associate(b, r, <<c>>)
      BY <2>1, TextsAssociative
    <3> QED  BY <3>1, <3>2, Zenon DEF Associate
  <2> DEFINE q == PositionAfter[b \o r]
  <2>3. q \in Position /\ q.line \in Nat /\ q.character \in Nat
    BY <2>1, PositionType DEF Position
  <2>4. PositionAfter[b \o Append(r, c)] = NextPosition(q, c)
    BY <2>1, <2>2, PositionAppend
  <2>5. NotAfter(p, q)
    BY <1>2
  <2> HIDE DEF p, q
  <2>6. NotAfter(p, NextPosition(q, c))
    <3>1. \/ NextPosition(q, c).line = q.line + 1
          \/ NextPosition(q, c).line = q.line /\ NextPosition(q, c).character = q.character + 1
      BY <2>3, NextPositionIs
    <3> QED  BY <3>1, <2>3, <2>5, <1>0 DEF NotAfter
  <2> QED  BY <2>1, <2>4, <2>6 DEF p
<1> HIDE DEF T
<1>3. Text \subseteq T
  BY <1>1, <1>2, AllSequences DEF Text
<1> QED  BY <1>3 DEF T, p

\* A place in the lines, and the lines cut in two there.
IsAt(lines, at) ==
  at \in Position /\ at.line < Len(lines) /\ at.character <= Len(lines[at.line + 1])
HeadOfLine(lines, at) == SubSeq(lines[at.line + 1], 1, at.character)
TailOfLine(lines, at) == SubSeq(lines[at.line + 1], at.character + 1, Len(lines[at.line + 1]))
Ahead(lines, at) == [i \in 1 .. at.line + 1 |-> IF i = at.line + 1 THEN HeadOfLine(lines, at) ELSE lines[i]]
Behind(lines, at) ==
  [i \in 1 .. Len(lines) - at.line |-> IF i = 1 THEN TailOfLine(lines, at) ELSE lines[at.line + i]]

LEMMA CutLine ==
  ASSUME NEW C, NEW s \in Seq(C), NEW k \in Nat, k <= Len(s)
  PROVE  /\ SubSeq(s, 1, k) \in Seq(C) /\ Len(SubSeq(s, 1, k)) = k
         /\ SubSeq(s, k + 1, Len(s)) \in Seq(C) /\ Len(SubSeq(s, k + 1, Len(s))) = Len(s) - k
         /\ SubSeq(s, 1, k) \o SubSeq(s, k + 1, Len(s)) = s
         /\ k < Len(s) => /\ s[k + 1] \in C /\ SubSeq(s, k + 1, Len(s))[1] = s[k + 1]
                          /\ SubSeq(s, 1, k + 1) = Append(SubSeq(s, 1, k), s[k + 1])
         /\ k = Len(s) => SubSeq(s, 1, k) = s /\ SubSeq(s, k + 1, Len(s)) = << >>
<1>1. Len(s) \in Nat
  OBVIOUS
<1>2. /\ SubSeq(s, 1, k) \in Seq(C) /\ Len(SubSeq(s, 1, k)) = k
      /\ \A i \in 1 .. k : SubSeq(s, 1, k)[i] = s[i]
  BY <1>1
<1>3. SubSeq(s, k + 1, Len(s)) \in Seq(C) /\ Len(SubSeq(s, k + 1, Len(s))) = Len(s) - k
  BY <1>1
<1>4. SubSeq(s, 1, k) \o SubSeq(s, k + 1, Len(s)) = s
  <2>1. 1 \in 1 .. Len(s) + 1 /\ k \in 1 - 1 .. Len(s) /\ Len(s) \in k .. Len(s)
    BY <1>1
  <2>2. SubSeq(s, 1, k) \o SubSeq(s, k + 1, Len(s)) = SubSeq(s, 1, Len(s))
    BY <2>1, ConcatAdjacentSubSeq
  <2>3. SubSeq(s, 1, Len(s)) = s
    BY SubSeqFull
  <2> QED  BY <2>2, <2>3, Zenon
<1>5. ASSUME k < Len(s)
      PROVE  /\ s[k + 1] \in C /\ SubSeq(s, k + 1, Len(s))[1] = s[k + 1]
             /\ SubSeq(s, 1, k + 1) = Append(SubSeq(s, 1, k), s[k + 1])
  <2>1. s[k + 1] \in C /\ SubSeq(s, k + 1, Len(s))[1] = s[k + 1]
    BY <1>1, <1>5
  <2> DEFINE x == s[k + 1]
             h == SubSeq(s, 1, k)
             r == SubSeq(s, 1, k + 1)
  <2>2. r \in Seq(C) /\ Len(r) = k + 1 /\ \A i \in 1 .. k + 1 : r[i] = s[i]
    BY <1>1, <1>5
  <2>3. h \in Seq(C) /\ Len(h) = k /\ \A i \in 1 .. k : h[i] = s[i]
    BY <1>2
  <2>4. x \in C
    BY <2>1
  <2> HIDE DEF h, r
  <2>5. /\ Append(h, x) \in Seq(C) /\ Len(Append(h, x)) = k + 1 /\ Append(h, x)[k + 1] = x
        /\ \A i \in 1 .. k : Append(h, x)[i] = h[i]
    <3> HIDE DEF x
    <3> QED  BY <2>3, <2>4
  <2>6. ASSUME NEW i \in 1 .. k + 1 PROVE Append(h, x)[i] = r[i]
    <3>1. i = k + 1 \/ i \in 1 .. k
      OBVIOUS
    <3> QED  BY <3>1, <2>2, <2>3, <2>5, Zenon DEF x
  <2>7. Append(h, x) = r
    BY <2>2, <2>5, <2>6, SeqEqual
  <2> QED  BY <2>1, <2>7 DEF h, r
<1>6. ASSUME k = Len(s) PROVE SubSeq(s, 1, k) = s /\ SubSeq(s, k + 1, Len(s)) = << >>
  <2>1. SubSeq(s, 1, k) = s
    BY <1>6, SubSeqFull
  <2>2. Len(SubSeq(s, k + 1, Len(s))) = 0
    BY <1>1, <1>3, <1>6
  <2> QED  BY <2>1, <2>2, <1>3, EmptySeq
<1> QED  BY <1>2, <1>3, <1>4, <1>5, <1>6

LEMMA CutLines ==
  ASSUME NEW lines \in Lines, NEW at, IsAt(lines, at)
  PROVE  /\ Ahead(lines, at) \in Lines /\ Behind(lines, at) \in Lines
         /\ Len(Ahead(lines, at)) = at.line + 1 /\ Len(Behind(lines, at)) = Len(lines) - at.line
         /\ Join(Ahead(lines, at), Behind(lines, at)) = lines
<1>1. /\ lines \in Seq(Line) /\ Len(lines) \in Nat \ {0} /\ at.line \in Nat /\ at.character \in Nat
      /\ at.line < Len(lines) /\ at.character <= Len(lines[at.line + 1])
      /\ lines[at.line + 1] \in Line
  BY DEF Lines, IsAt, Position
<1> DEFINE n == at.line
           k == at.character
           l == lines[n + 1]
           h == HeadOfLine(lines, at)
           t == TailOfLine(lines, at)
           a == Ahead(lines, at)
           b == Behind(lines, at)
<1>2. h \in Line /\ t \in Line /\ h \o t = l
  <2>1. l \in Seq(Char \ {LF, CR}) /\ k \in Nat /\ k <= Len(l)
    BY <1>1 DEF Line
  <2>2. /\ SubSeq(l, 1, k) \in Seq(Char \ {LF, CR}) /\ SubSeq(l, k + 1, Len(l)) \in Seq(Char \ {LF, CR})
        /\ SubSeq(l, 1, k) \o SubSeq(l, k + 1, Len(l)) = l
    <3> HIDE DEF l, k
    <3> QED  BY <2>1, CutLine
  <2> QED  BY <2>2, Zenon DEF HeadOfLine, TailOfLine, Line
<1>3. a = [i \in 1 .. n + 1 |-> IF i = n + 1 THEN h ELSE lines[i]]
  BY DEF Ahead
<1>4. b = [i \in 1 .. Len(lines) - n |-> IF i = 1 THEN t ELSE lines[n + i]]
  BY DEF Behind
<1>0. lines \in Seq(Line) /\ Len(lines) \in Nat \ {0} /\ n \in Nat /\ n < Len(lines)
  BY <1>1
<1> HIDE DEF a, b, h, t, l, n, k
<1>5. a \in Seq(Line) /\ Len(a) = n + 1 /\ a[n + 1] = h /\ \A i \in 1 .. n : a[i] = lines[i]
  BY <1>0, <1>2, <1>3
<1>6. b \in Seq(Line) /\ Len(b) = Len(lines) - n /\ b[1] = t
      /\ \A i \in 2 .. Len(lines) - n : b[i] = lines[n + i]
  BY <1>0, <1>2, <1>4
<1>7. a # << >> /\ b # << >>
  BY <1>0, <1>5, <1>6
<1>8. Join(a, b) \in Seq(Line) /\ Len(Join(a, b)) = Len(lines)
  <2>1. Join(a, b) \in Seq(Line) /\ Len(Join(a, b)) = Len(a) + Len(b) - 1
    BY <1>5, <1>6, <1>7, JoinType DEF Line
  <2> QED  BY <2>1, <1>0, <1>5, <1>6
<1>9. ASSUME NEW i \in 1 .. Len(lines) PROVE Join(a, b)[i] = lines[i]
  <2>1. Len(a) + Len(b) - 1 = Len(lines)
    BY <1>0, <1>5, <1>6
  <2>2. Join(a, b)[i] = IF i < Len(a) THEN a[i] ELSE IF i = Len(a) THEN a[i] \o b[1] ELSE b[i - Len(a) + 1]
    BY <2>1 DEF Join
  <2>3. CASE i < n + 1
    <3>1. i \in 1 .. n /\ i < Len(a)
      BY <2>3, <1>0, <1>5
    <3> QED  BY <3>1, <2>2, <1>5, Zenon
  <2>4. CASE i = n + 1
    <3>1. ~ (i < Len(a)) /\ i = Len(a)
      BY <2>4, <1>0, <1>5
    <3> QED  BY <3>1, <2>2, <2>4, <1>2, <1>5, <1>6, Zenon DEF l
  <2>5. CASE i > n + 1
    <3>1. /\ ~ (i < Len(a)) /\ i # Len(a) /\ i - Len(a) + 1 \in 2 .. Len(lines) - n
          /\ n + (i - Len(a) + 1) = i
      BY <2>5, <1>0, <1>5
    <3>2. Join(a, b)[i] = b[i - Len(a) + 1]
      BY <3>1, <2>2, Zenon
    <3> QED  BY <3>1, <3>2, <1>6, Zenon
  <2> QED  BY <1>0, <2>3, <2>4, <2>5
<1>10. Join(a, b) = lines
  BY <1>0, <1>8, <1>9, SeqEqual
<1> QED  BY <1>5, <1>6, <1>7, <1>10 DEF a, b, n, Lines

LEMMA FirstOfTwo ==
  ASSUME NEW s \in Text, NEW t \in Text
  PROVE  /\ s # << >> => s \o t # << >> /\ (s \o t)[1] = s[1]
         /\ s = << >> => s \o t = t
<1>1. s \o t \in Text /\ Len(s \o t) = Len(s) + Len(t) /\ Len(s) \in Nat /\ Len(t) \in Nat
  BY TextsJoined
<1>2. ASSUME s # << >> PROVE s \o t # << >> /\ (s \o t)[1] = s[1]
  <2>1. Len(s) # 0
    BY <1>2, EmptySeq DEF Text
  <2>2. Len(s \o t) # 0
    BY <1>1, <2>1
  <2>3. (s \o t)[1] = s[1]
    BY <1>1, <2>1 DEF Text
  <2> QED  BY <2>2, <2>3
<1>3. ASSUME s = << >> PROVE s \o t = t
  BY <1>3, ConcatEmptySeq DEF Text
<1> QED  BY <1>2, <1>3

\* What the text of lines begins with.
LEMMA FirstCharacter ==
  ASSUME NEW q \in Seq(Text), q # << >>
  PROVE  /\ q[1] # << >> => Content[q] # << >> /\ Content[q][1] = q[1][1]
         /\ q[1] = << >> /\ Content[q] # << >> => Len(q) >= 2 /\ Content[q][1] = LF
<1> DEFINE Claim(s) ==
             /\ s[1] # << >> => Content[s] # << >> /\ Content[s][1] = s[1][1]
             /\ s[1] = << >> /\ Content[s] # << >> => Len(s) >= 2 /\ Content[s][1] = LF
           T == {s \in Seq(Text) : s # << >> => Claim(s)}
<1>1. << >> \in T
  OBVIOUS
<1>2. ASSUME NEW s \in Seq(Text), NEW x \in Text, s \in T PROVE Append(s, x) \in T
  <2> DEFINE r == Append(s, x)
  <2>1. r \in Seq(Text) /\ r # << >> /\ Len(s) \in Nat /\ Len(r) = Len(s) + 1
    BY Appended
  <2>2. CASE s = << >>
    <3>1. r = <<x>>
      BY <2>2
    <3>2. r[1] = x /\ Content[r] = x
      BY <3>1, ContentFew
    <3> HIDE DEF r
    <3>3. r \in T
      BY <2>1, <3>2
    <3> QED  BY <3>3 DEF r
  <2>3. CASE s # << >>
    <3>1. Len(s) # 0
      BY <2>3, EmptySeq
    <3>2. r[1] = s[1] /\ s[1] \in Text
      BY <3>1, <2>1
    <3>3. Content[s] \in Text /\ <<LF>> \in Text /\ <<LF>> # << >> /\ <<LF>>[1] = LF
      BY ContentType, CharAssumption DEF Text
    <3> DEFINE c == Content[s] \o <<LF>>
    <3>4. Content[r] = c \o x
      BY <2>3, ContentAppend
    <3>5. c \in Text
      BY <3>3, TextsJoined
    <3>6. c # << >> /\ (Content[s] # << >> => c[1] = Content[s][1]) /\ (Content[s] = << >> => c[1] = LF)
      BY <3>3, FirstOfTwo
    <3> HIDE DEF c
    <3>7. Content[r] # << >> /\ Content[r][1] = c[1]
      BY <3>4, <3>5, <3>6, FirstOfTwo
    <3> HIDE DEF r
    <3>8. Claim(s)
      BY <1>2, <2>3
    <3>9. Len(r) >= 2
      BY <2>1, <3>1
    <3>10. Claim(r)
      BY <3>2, <3>6, <3>7, <3>8, <3>9, Zenon
    <3>11. r \in T
      BY <2>1, <3>10
    <3> QED  BY <3>11 DEF r
  <2> QED  BY <2>2, <2>3
<1> HIDE DEF T
<1>3. Seq(Text) \subseteq T
  BY <1>1, <1>2, AllSequences
<1> QED  BY <1>3 DEF T

LEMMA Cancel ==
  ASSUME NEW b \in Text, NEW s \in Text, NEW t \in Text, b \o s = b \o t
  PROVE  s = t
BY ConcatSimplifications DEF Text

\* Where the text b ends that the lines begin with.
LEMMA PositionFound ==
  ASSUME NEW lines \in Lines
  PROVE  \A b \in Text : (\E r \in Text : Content[lines] = b \o r) =>
           IsAt(lines, PositionAfter[b]) /\ Content[Ahead(lines, PositionAfter[b])] = b
<1> DEFINE Begins(b) == \E r \in Text : Content[lines] = b \o r
           Found(b) == IsAt(lines, PositionAfter[b]) /\ Content[Ahead(lines, PositionAfter[b])] = b
           T == {b \in Text : Begins(b) => Found(b)}
<1>0. lines \in Seq(Line) /\ lines \in Seq(Text) /\ Len(lines) \in Nat \ {0}
  BY LinesAreTexts DEF Lines
<1>1. << >> \in T
  <2>1. << >> \in Text
    BY DEF Text
  <2> DEFINE at == PositionAfter[<< >>]
  <2>2. at.line = 0 /\ at.character = 0 /\ at \in Position
    <3>1. at = [line |-> 0, character |-> 0]
      BY <2>1, PositionEquation
    <3> QED  BY <3>1 DEF Position
  <2> HIDE DEF at
  <2>3. lines[1] \in Text /\ Len(lines[1]) \in Nat
    BY <1>0 DEF Text
  <2>4. IsAt(lines, at)
    BY <2>2, <2>3, <1>0 DEF IsAt
  <2>5. HeadOfLine(lines, at) = << >>
    <3>1. SubSeq(lines[1], 1, 0) = << >>
      BY <2>3 DEF Text
    <3> QED  BY <2>2, <3>1 DEF HeadOfLine
  <2>6. Ahead(lines, at) = << << >> >>
    <3> DEFINE a == Ahead(lines, at)
    <3>1. a \in Lines /\ Len(a) = 1 /\ a[1] = << >>
      <4>1. a \in Lines /\ Len(a) = at.line + 1
        BY <2>4, CutLines
      <4>2. 1 \in 1 .. at.line + 1 /\ 1 = at.line + 1
        BY <2>2
      <4>3. a[1] = HeadOfLine(lines, at)
        BY <4>2, Zenon DEF Ahead
      <4> QED  BY <4>1, <4>2, <4>3, <2>5
    <3> HIDE DEF a
    <3>2. a \in Seq(Line) /\ << << >> >> \in Seq(Line) /\ Len(<< << >> >>) = 1 /\ << << >> >>[1] = << >>
      BY <3>1 DEF Lines, Line
    <3>3. \A i \in 1 .. 1 : i = 1
      OBVIOUS
    <3>4. a = << << >> >>
      BY <3>1, <3>2, <3>3, SeqEqual
    <3> QED  BY <3>4 DEF a
  <2>7. Found(<< >>)
    BY <2>1, <2>4, <2>6, ContentFew DEF at
  <2> QED  BY <2>1, <2>7
<1>2. ASSUME NEW b \in Text, NEW c \in Char, b \in T PROVE Append(b, c) \in T
  <2>0. Append(b, c) \in Text
    BY Appended DEF Text
  <2>1. ASSUME NEW r \in Text, Content[lines] = Append(b, c) \o r PROVE Found(Append(b, c))
    <3> DEFINE at == PositionAfter[b]
               to == PositionAfter[Append(b, c)]
               a == Ahead(lines, at)
               z == Behind(lines, at)
               l == lines[at.line + 1]
    <3>1. <<c>> \in Text /\ <<c>> \o r \in Text /\ <<c>> # << >> /\ <<c>>[1] = c
      BY TextsJoined DEF Text
    <3>2. Content[lines] = b \o (<<c>> \o r)
      <4>1. Append(b, c) = b \o <<c>>
        BY OneMore
      <4>2. Associate(b, <<c>>, r)
        BY <3>1, TextsAssociative
      <4> QED  BY <2>1, <4>1, <4>2, Zenon DEF Associate
    <3>3. IsAt(lines, at) /\ Content[a] = b
      BY <1>2, <3>1, <3>2
    <3>4. /\ at \in Position /\ at.line \in Nat /\ at.character \in Nat
          /\ at.line < Len(lines) /\ at.character <= Len(l) /\ l \in Line
      BY <3>3, <1>0 DEF IsAt, Position
    <3>5. a \in Lines /\ z \in Lines /\ Join(a, z) = lines /\ Len(a) = at.line + 1
          /\ Len(z) = Len(lines) - at.line
      BY <3>3, CutLines
    <3>6. /\ a \in Seq(Text) /\ a # << >> /\ z \in Seq(Text) /\ z # << >>
          /\ Len(z) \in Nat /\ z[1] = TailOfLine(lines, at)
      <4>1. z[1] = TailOfLine(lines, at)
        BY <3>4, <1>0 DEF Behind
      <4> QED  BY <3>5, <4>1, LinesAreTexts DEF Lines
    <3>7. Content[z] = <<c>> \o r
      <4>1. Content[lines] = b \o Content[z]
        BY <3>3, <3>5, <3>6, ContentJoin
      <4>2. Content[z] \in Text
        BY <3>6, ContentType
      <4> QED  BY <3>1, <3>2, <4>1, <4>2, Cancel
    <3>8. Content[z] # << >> /\ Content[z][1] = c
      BY <3>1, <3>7, FirstOfTwo
    <3>9. /\ z[1] # << >> => z[1][1] = c
          /\ z[1] = << >> => Len(z) >= 2 /\ c = LF
      BY <3>6, <3>8, FirstCharacter
    <3>10. to = NextPosition(at, c)
      BY PositionAppend
    <3>11. /\ to \in Position
           /\ c = LF => to.line = at.line + 1 /\ to.character = 0
           /\ c # LF => to.line = at.line /\ to.character = at.character + 1
      BY <3>4, <3>10, NextPositionIs
    <3>12. l \in Seq(Char \ {LF, CR}) /\ Len(l) \in Nat
      BY <3>4 DEF Line
    <3> DEFINE k == at.character
               n == at.line
    <3>13. /\ Len(TailOfLine(lines, at)) = Len(l) - k
           /\ k < Len(l) => l[k + 1] \in Char \ {LF, CR} /\ TailOfLine(lines, at)[1] = l[k + 1]
           /\ k = Len(l) => TailOfLine(lines, at) = << >>
      <4>1. k \in Nat /\ k <= Len(l)
        BY <3>4
      <4>2. /\ Len(SubSeq(l, k + 1, Len(l))) = Len(l) - k
            /\ k < Len(l) => l[k + 1] \in Char \ {LF, CR} /\ SubSeq(l, k + 1, Len(l))[1] = l[k + 1]
            /\ k = Len(l) => SubSeq(l, k + 1, Len(l)) = << >>
        <5> HIDE DEF k, l
        <5> QED  BY <4>1, <3>12, CutLine
      <4> QED  BY <4>2, Zenon DEF TailOfLine
    <3>14. CASE c = LF
      <4>1. z[1] = << >> /\ Len(z) >= 2 /\ k = Len(l)
        <5>1. ASSUME k < Len(l) PROVE FALSE
          <6>1. z[1][1] = l[k + 1] /\ l[k + 1] # LF
            BY <5>1, <3>6, <3>13
          <6>2. Len(z[1]) # 0
            BY <5>1, <3>4, <3>6, <3>12, <3>13
          <6>3. z[1] # << >>
            BY <6>2
          <6> QED  BY <6>1, <6>3, <3>9, <3>14
        <5>2. k = Len(l)
          BY <5>1, <3>4, <3>12
        <5> QED  BY <5>2, <3>6, <3>9, <3>13
      <4>2. at.line + 1 < Len(lines)
        BY <4>1, <3>4, <3>5, <1>0
      <4>3. lines[to.line + 1] \in Line /\ to.line + 1 \in 1 .. Len(lines)
        <5>1. to.line + 1 \in 1 .. Len(lines)
          BY <4>2, <3>4, <3>11, <3>14, <1>0
        <5> QED  BY <5>1, <1>0
      <4>4. IsAt(lines, to)
        BY <4>2, <4>3, <3>4, <3>11, <3>14, <1>0 DEF IsAt, Line
      <4>5. Ahead(lines, to) = Append(a, << >>)
        <5> DEFINE e == Ahead(lines, to)
                   d == Append(a, << >>)
        <5>1. e \in Seq(Line) /\ Len(e) = n + 2
          <6>1. e \in Lines /\ Len(e) = to.line + 1
            BY <4>4, CutLines
          <6> QED  BY <6>1, <3>4, <3>11, <3>14 DEF Lines
        <5>2. a \in Seq(Line) /\ << >> \in Line
          BY <3>5 DEF Lines, Line
        <5>3. /\ d \in Seq(Line) /\ Len(d) = n + 2 /\ d[n + 2] = << >>
              /\ \A i \in 1 .. n + 1 : d[i] = a[i]
          <6> HIDE DEF a
          <6> QED  BY <5>2, <3>4, <3>5
        <5>4. HeadOfLine(lines, to) = << >>
          <6>1. \A s \in Line : SubSeq(s, 1, 0) = << >>
            BY DEF Line
          <6> QED  BY <6>1, <4>3, <3>11, <3>14 DEF HeadOfLine
        <5>5. HeadOfLine(lines, at) = lines[n + 1]
          <6>1. SubSeq(l, 1, Len(l)) = l
            BY <3>12, SubSeqFull
          <6> QED  BY <6>1, <4>1 DEF HeadOfLine
        <5>6. \A i \in 1 .. n + 1 : a[i] = lines[i]
          <6>1. \A i \in 1 .. n + 1 : a[i] = IF i = n + 1 THEN HeadOfLine(lines, at) ELSE lines[i]
            BY DEF Ahead
          <6> QED  BY <6>1, <5>5, Zenon
        <5>7. \A i \in 1 .. n + 2 : e[i] = IF i = n + 2 THEN << >> ELSE lines[i]
          <6>1. to.line + 1 = n + 2
            BY <3>4, <3>11, <3>14
          <6>2. \A i \in 1 .. to.line + 1 : e[i] = IF i = to.line + 1 THEN HeadOfLine(lines, to) ELSE lines[i]
            BY DEF Ahead
          <6> QED  BY <6>1, <6>2, <5>4, Zenon
        <5>8. ASSUME NEW i \in 1 .. n + 2 PROVE e[i] = d[i]
          <6>1. i = n + 2 \/ (i # n + 2 /\ i \in 1 .. n + 1)
            BY <3>4
          <6> QED  BY <6>1, <5>3, <5>6, <5>7, Zenon
        <5> HIDE DEF e, d
        <5>9. e = d
          BY <5>1, <5>3, <5>8, SeqEqual
        <5> QED  BY <5>9 DEF e, d
      <4>6. Content[Append(a, << >>)] = Append(b, c)
        <5> HIDE DEF a
        <5> QED  BY <3>3, <3>5, <3>14, ContentNewLine
      <4> QED  BY <4>4, <4>5, <4>6
    <3>15. CASE c # LF
      <4>1. k < Len(l) /\ c = l[k + 1] /\ c \in Char \ {LF, CR}
        <5>1. z[1] # << >> /\ z[1][1] = c
          BY <3>9, <3>15
        <5>2. k < Len(l)
          BY <5>1, <3>4, <3>6, <3>12, <3>13
        <5> QED  BY <5>1, <5>2, <3>6, <3>13
      <4>2. IsAt(lines, to)
        BY <4>1, <3>4, <3>11, <3>12, <3>15 DEF IsAt
      <4>3. Ahead(lines, to) = Extended(a, c)
        <5> DEFINE e == Ahead(lines, to)
                   d == Extended(a, c)
        <5>1. e \in Seq(Line) /\ Len(e) = n + 1
          <6>1. e \in Lines /\ Len(e) = to.line + 1
            BY <4>2, CutLines
          <6> QED  BY <6>1, <3>4, <3>11, <3>15 DEF Lines
        <5>2. /\ d \in Seq(Line) /\ Len(d) = n + 1 /\ d[n + 1] = Append(a[n + 1], c)
              /\ \A i \in 1 .. n : d[i] = a[i]
          <6>1. /\ d \in Lines /\ Len(d) = Len(a) /\ d[Len(a)] = Append(a[Len(a)], c)
                /\ \A i \in 1 .. Len(a) - 1 : d[i] = a[i]
            <7> HIDE DEF a
            <7> QED  BY <4>1, <3>5, ExtendedType
          <6>2. Len(a) - 1 = n
            BY <3>4, <3>5
          <6> QED  BY <6>1, <6>2, <3>5 DEF Lines
        <5>3. HeadOfLine(lines, to) = Append(HeadOfLine(lines, at), c)
          <6>1. k \in Nat /\ k <= Len(l)
            BY <3>4
          <6>2. SubSeq(l, 1, k + 1) = Append(SubSeq(l, 1, k), l[k + 1])
            <7> HIDE DEF k, l
            <7> QED  BY <6>1, <4>1, <3>12, CutLine
          <6> QED  BY <6>2, <4>1, <3>11, <3>15 DEF HeadOfLine
        <5>4. \A i \in 1 .. n + 1 : a[i] = IF i = n + 1 THEN HeadOfLine(lines, at) ELSE lines[i]
          BY DEF Ahead
        <5>5. \A i \in 1 .. n + 1 : e[i] = IF i = n + 1 THEN HeadOfLine(lines, to) ELSE lines[i]
          <6>1. to.line + 1 = n + 1
            BY <3>4, <3>11, <3>15
          <6>2. \A i \in 1 .. to.line + 1 : e[i] = IF i = to.line + 1 THEN HeadOfLine(lines, to) ELSE lines[i]
            BY DEF Ahead
          <6> QED  BY <6>1, <6>2, Zenon
        <5>6. ASSUME NEW i \in 1 .. n + 1 PROVE e[i] = d[i]
          <6>1. i = n + 1 \/ (i # n + 1 /\ i \in 1 .. n)
            BY <3>4
          <6> QED  BY <6>1, <5>2, <5>3, <5>4, <5>5, Zenon
        <5> HIDE DEF e, d
        <5>7. e = d
          BY <5>1, <5>2, <5>6, SeqEqual
        <5> QED  BY <5>7 DEF e, d
      <4>4. Content[Extended(a, c)] = Append(b, c)
        <5> HIDE DEF a
        <5> QED  BY <4>1, <3>3, <3>5, ContentExtended
      <4> QED  BY <4>2, <4>3, <4>4
    <3> QED  BY <3>14, <3>15
  <2> QED  BY <2>0, <2>1
<1> HIDE DEF T
<1>3. Text \subseteq T
  BY <1>1, <1>2, AllSequences DEF Text
<1> QED  BY <1>3 DEF T

-----------------------------------------------------------------------------
(* Edits. *)

LEMMA RangeIsAt ==
  ASSUME NEW lines \in Lines, NEW from \in Position, NEW to \in Position, RangeFits(lines, from, to)
  PROVE  IsAt(lines, from) /\ IsAt(lines, to) /\ from.line <= to.line
BY DEF RangeFits, IsAt, Position, Lines

\* What ReplaceRange leaves: the lines up to the range, the patch, the lines
\* from its end on.
LEMMA ReplacedLines ==
  ASSUME NEW lines \in Lines, NEW from \in Position, NEW to \in Position, RangeFits(lines, from, to),
         NEW text \in Text
  PROVE  ReplaceRange(lines, from, to, text)
           = Join(Join(Ahead(lines, from), SplitLines[text]), Behind(lines, to))
<1> DEFINE n == from.line
           p == to.line
           N == Len(lines)
           patch == SplitLines[text]
           m == Len(patch)
           h == HeadOfLine(lines, from)
           t == TailOfLine(lines, to)
           joined == [patch EXCEPT ![1] = h \o @]
           J == [joined EXCEPT ![Len(joined)] = @ \o t]
           A == SubSeq(lines, 1, n)
           B == SubSeq(lines, p + 2, N)
           a == Ahead(lines, from)
           z == Behind(lines, to)
           X == Join(a, patch)
<1>1. /\ lines \in Seq(Line) /\ N \in Nat \ {0} /\ n \in Nat /\ p \in Nat /\ n <= p /\ p < N
      /\ IsAt(lines, from) /\ IsAt(lines, to)
  BY RangeIsAt DEF RangeFits, Position, Lines
<1>2. patch \in Lines /\ patch \in Seq(Line) /\ m \in Nat \ {0} /\ \A i \in 1 .. m : patch[i] \in Line
  BY SplitType DEF Lines
<1>3. a \in Lines /\ a \in Seq(Line) /\ a # << >> /\ Len(a) = n + 1
  BY <1>1, CutLines DEF Lines
<1>4. z \in Lines /\ z \in Seq(Line) /\ z # << >> /\ Len(z) = N - p
  BY <1>1, CutLines DEF Lines
<1>5. /\ \A i \in 1 .. n + 1 : a[i] = IF i = n + 1 THEN h ELSE lines[i]
      /\ \A i \in 1 .. N - p : z[i] = IF i = 1 THEN t ELSE lines[p + i]
  BY DEF Ahead, Behind
<1>6. h \in Line /\ t \in Line
  <2>1. n + 1 \in 1 .. n + 1 /\ 1 \in 1 .. N - p /\ a[n + 1] \in Line /\ z[1] \in Line
    BY <1>1, <1>3, <1>4
  <2> QED  BY <2>1, <1>5, Zenon
<1>7. ReplaceRange(lines, from, to, text) = (A \o J) \o B
  BY Zenon DEF ReplaceRange, HeadOfLine, TailOfLine
<1> HIDE DEF n, p, N, patch, m, h, t, a, z
<1>8. /\ X \in Seq(Line) /\ X # << >> /\ Len(X) = n + m
      /\ \A i \in 1 .. n + m :
           X[i] = IF i < n + 1 THEN a[i] ELSE IF i = n + 1 THEN a[i] \o patch[1] ELSE patch[i - (n + 1) + 1]
  <2>1. patch # << >>
    BY <1>2 DEF Lines
  <2>2. X \in Seq(Line) /\ X # << >> /\ Len(X) = Len(a) + Len(patch) - 1
    BY <1>2, <1>3, <2>1, JoinType DEF Line
  <2>3. Len(a) + Len(patch) - 1 = n + m
    BY <1>1, <1>2, <1>3 DEF m
  <2>4. \A i \in 1 .. Len(a) + Len(patch) - 1 :
          X[i] = IF i < Len(a) THEN a[i] ELSE IF i = Len(a) THEN a[i] \o patch[1] ELSE patch[i - Len(a) + 1]
    BY DEF Join
  <2> QED  BY <2>2, <2>3, <2>4, <1>3, Zenon
<1> HIDE DEF X
<1> DEFINE Y == Join(X, z)
<1>9. /\ Y \in Seq(Line) /\ Len(Y) = n + m + N - p - 1
      /\ \A i \in 1 .. n + m + N - p - 1 :
           Y[i] = IF i < n + m THEN X[i] ELSE IF i = n + m THEN X[i] \o z[1] ELSE z[i - (n + m) + 1]
  <2>1. Y \in Seq(Line) /\ Len(Y) = Len(X) + Len(z) - 1
    BY <1>4, <1>8, JoinType DEF Line
  <2>2. Len(X) + Len(z) - 1 = n + m + N - p - 1
    BY <1>1, <1>2, <1>4, <1>8
  <2>3. \A i \in 1 .. Len(X) + Len(z) - 1 :
          Y[i] = IF i < Len(X) THEN X[i] ELSE IF i = Len(X) THEN X[i] \o z[1] ELSE z[i - Len(X) + 1]
    BY DEF Join
  <2> QED  BY <2>1, <2>2, <2>3, <1>8, Zenon
<1> HIDE DEF Y
<1>10. /\ joined \in Seq(Line) /\ Len(joined) = m /\ joined[1] = h \o patch[1]
       /\ \A i \in 2 .. m : joined[i] = patch[i]
  <2>1. h \o patch[1] \in Line
    <3>1. \A u \in Line, v \in Line : u \o v \in Line
      BY DEF Line
    <3>2. patch[1] \in Line
      BY <1>2
    <3> QED  BY <1>6, <3>1, <3>2
  <2> DEFINE w == h \o patch[1]
  <2>2. joined = [patch EXCEPT ![1] = w]
    OBVIOUS
  <2> HIDE DEF w, joined
  <2>3. w \in Line
    BY <2>1 DEF w
  <2>4. Len(patch) = m
    BY DEF m
  <2> QED  BY <2>2, <2>3, <2>4, <1>2 DEF w
<1> HIDE DEF joined
<1>11. /\ J \in Seq(Line) /\ Len(J) = m /\ J[m] = joined[m] \o t
       /\ \A i \in 1 .. m - 1 : J[i] = joined[i]
  <2>1. joined[m] \in Line
    BY <1>2, <1>10
  <2>2. joined[m] \o t \in Line
    <3>1. \A u \in Line, v \in Line : u \o v \in Line
      BY DEF Line
    <3> QED  BY <1>6, <2>1, <3>1
  <2> DEFINE w == joined[m] \o t
  <2>3. J = [joined EXCEPT ![m] = w]
    BY <1>10
  <2> HIDE DEF w, J
  <2>4. w \in Line
    BY <2>2 DEF w
  <2> QED  BY <2>3, <2>4, <1>2, <1>10 DEF w
<1> HIDE DEF J
<1>12. ASSUME NEW i \in 1 .. m PROVE n + i \in 1 .. n + m /\ X[n + i] = joined[i]
  <2>1. n + i \in 1 .. n + m /\ ~ (n + i < n + 1)
    BY <1>1, <1>2
  <2>2. CASE i = 1
    <3>1. n + 1 \in 1 .. n + 1 /\ n + i = n + 1
      BY <1>1, <2>2
    <3>2. X[n + 1] = a[n + 1] \o patch[1] /\ a[n + 1] = h
      BY <2>1, <3>1, <1>5, <1>8, Zenon
    <3> QED  BY <2>1, <2>2, <3>1, <3>2, <1>10
  <2>3. CASE i # 1
    <3>1. n + i # n + 1 /\ (n + i) - (n + 1) + 1 = i /\ i \in 2 .. m
      BY <1>1, <1>2, <2>3
    <3>2. X[n + i] = patch[i]
      BY <2>1, <3>1, <1>8, Zenon
    <3> QED  BY <2>1, <3>1, <3>2, <1>10
  <2> QED  BY <2>2, <2>3
<1>13. A \in Seq(Line) /\ Len(A) = n /\ \A i \in 1 .. n : A[i] = lines[i]
  <2>1. Len(lines) = N
    BY DEF N
  <2> QED  BY <1>1, <2>1
<1>14. B \in Seq(Line) /\ Len(B) = N - p - 1 /\ \A i \in 1 .. N - p - 1 : B[i] = lines[p + 1 + i]
  <2>1. Len(lines) = N /\ p + 2 \in 1 .. N + 1
    BY <1>1 DEF N
  <2>2. B \in Seq(Line) /\ Len(B) = (IF p + 2 <= N THEN N - (p + 2) + 1 ELSE 0)
    BY <1>1, <2>1, SubSeqProperties
  <2>3. Len(B) = N - p - 1
    BY <2>2, <1>1
  <2>4. \A i \in 1 .. N - p - 1 : B[i] = lines[p + 1 + i]
    BY <1>1, <2>1
  <2> QED  BY <2>2, <2>3, <2>4
<1> HIDE DEF A, B
<1>15. /\ A \o J \in Seq(Line) /\ Len(A \o J) = n + m
       /\ \A i \in 1 .. n + m : (A \o J)[i] = IF i <= n THEN A[i] ELSE J[i - n]
  BY <1>1, <1>2, <1>11, <1>13, ConcatProperties
<1> DEFINE F == A \o J
           R == F \o B
<1>16. /\ F \in Seq(Line) /\ Len(F) = n + m
       /\ \A i \in 1 .. n + m : F[i] = IF i <= n THEN A[i] ELSE J[i - n]
  BY <1>15
<1> HIDE DEF F
<1>17. /\ R \in Seq(Line) /\ Len(R) = n + m + N - p - 1
       /\ \A i \in 1 .. n + m + N - p - 1 : R[i] = IF i <= n + m THEN F[i] ELSE B[i - (n + m)]
  <2>1. R \in Seq(Line) /\ Len(R) = Len(F) + Len(B)
        /\ \A i \in 1 .. Len(F) + Len(B) : R[i] = IF i <= Len(F) THEN F[i] ELSE B[i - Len(F)]
    BY <1>14, <1>16, ConcatProperties
  <2>2. Len(F) + Len(B) = n + m + N - p - 1
    BY <1>1, <1>2, <1>14, <1>16
  <2> QED  BY <2>1, <2>2, <1>16, Zenon
<1> HIDE DEF R
<1>18. ASSUME NEW i \in 1 .. n + m + N - p - 1 PROVE R[i] = Y[i]
  <2>1. i \in Nat \ {0}
    BY <1>1, <1>2
  <2>2. CASE i <= n
    <3>1. i <= n + m /\ i < n + m /\ i \in 1 .. n + m /\ i \in 1 .. n /\ i < n + 1 /\ i \in 1 .. n + 1 /\ i # n + 1
      BY <1>1, <1>2, <2>1, <2>2
    <3>2. R[i] = lines[i]
      BY <3>1, <2>2, <1>13, <1>16, <1>17, Zenon
    <3>3. Y[i] = lines[i]
      BY <3>1, <1>5, <1>8, <1>9, Zenon
    <3> QED  BY <3>2, <3>3
  <2>3. CASE i > n /\ i < n + m
    <3>1. i <= n + m /\ ~ (i <= n) /\ i \in 1 .. n + m /\ i - n \in 1 .. m - 1 /\ i - n \in 1 .. m
          /\ n + (i - n) = i
      BY <1>1, <1>2, <2>1, <2>3
    <3>2. R[i] = joined[i - n]
      BY <3>1, <1>11, <1>16, <1>17, Zenon
    <3>3. Y[i] = X[n + (i - n)]
      BY <3>1, <2>3, <1>9, Zenon
    <3> QED  BY <3>1, <3>2, <3>3, <1>12, Zenon
  <2>4. CASE i = n + m
    <3>1. i <= n + m /\ ~ (i <= n) /\ ~ (i < n + m) /\ i \in 1 .. n + m /\ i - n = m /\ m \in 1 .. m
          /\ n + m = i /\ 1 \in 1 .. N - p
      BY <1>1, <1>2, <2>1, <2>4
    <3>2. R[i] = joined[m] \o t
      BY <3>1, <1>11, <1>16, <1>17, Zenon
    <3>3. Y[i] = X[n + m] \o t
      BY <3>1, <2>4, <1>5, <1>9, Zenon
    <3> QED  BY <3>1, <3>2, <3>3, <1>12, Zenon
  <2>5. CASE i > n + m
    <3>1. /\ ~ (i <= n + m) /\ ~ (i < n + m) /\ i # n + m
          /\ i - (n + m) \in 1 .. N - p - 1 /\ i - (n + m) + 1 \in 1 .. N - p /\ i - (n + m) + 1 # 1
          /\ p + (i - (n + m) + 1) = p + 1 + (i - (n + m))
      BY <1>1, <1>2, <2>1, <2>5
    <3>2. R[i] = lines[p + 1 + (i - (n + m))]
      BY <3>1, <1>14, <1>17, Zenon
    <3>3. Y[i] = lines[p + (i - (n + m) + 1)]
      BY <3>1, <1>5, <1>9, Zenon
    <3> QED  BY <3>1, <3>2, <3>3, Zenon
  <2>6. i <= n \/ (i > n /\ i < n + m) \/ i = n + m \/ i > n + m
    BY <1>1, <1>2, <2>1
  <2> QED  BY <2>2, <2>3, <2>4, <2>5, <2>6, Zenon
<1>19. R = Y
  BY <1>9, <1>17, <1>18, SeqEqual
<1> QED  BY <1>7, <1>19, Zenon DEF R, F, Y, X, J, joined, A, B, a, z, patch, h, t, n, p, N, m

LEMMA JoinOfLines ==
  ASSUME NEW p \in Lines, NEW q \in Lines
  PROVE  /\ Join(p, q) \in Lines
         /\ Content[p] \in Text /\ Content[q] \in Text
         /\ Content[Join(p, q)] = Content[p] \o Content[q]
<1>1. p \in Seq(Text) /\ q \in Seq(Text) /\ p # << >> /\ q # << >> /\ p \in Seq(Line) /\ q \in Seq(Line)
  BY LinesAreTexts DEF Lines
<1>2. Join(p, q) \in Seq(Line) /\ Join(p, q) # << >>
  BY <1>1, JoinType DEF Line
<1>3. Content[p] \in Text /\ Content[q] \in Text
  BY <1>1, ContentType
<1>4. Content[Join(p, q)] = Content[p] \o Content[q]
  BY <1>1, ContentJoin
<1> QED  BY <1>2, <1>3, <1>4 DEF Lines

LEMMA ReplacedContent ==
  ASSUME NEW lines \in Lines, NEW from \in Position, NEW to \in Position, RangeFits(lines, from, to),
         NEW text \in Text
  PROVE  /\ ReplaceRange(lines, from, to, text) \in Lines
         /\ Content[ReplaceRange(lines, from, to, text)]
              = (Content[Ahead(lines, from)] \o Content[SplitLines[text]]) \o Content[Behind(lines, to)]
<1>1. IsAt(lines, from) /\ IsAt(lines, to)
  BY RangeIsAt
<1>2. Ahead(lines, from) \in Lines /\ Behind(lines, to) \in Lines /\ SplitLines[text] \in Lines
  BY <1>1, CutLines, SplitType
<1> DEFINE a == Ahead(lines, from)
           z == Behind(lines, to)
           patch == SplitLines[text]
           X == Join(a, patch)
<1>3. ReplaceRange(lines, from, to, text) = Join(X, z)
  BY ReplacedLines
<1> HIDE DEF a, z, patch, X
<1>4. a \in Lines /\ z \in Lines /\ patch \in Lines
  BY <1>2 DEF a, z, patch
<1>5. X \in Lines /\ Content[X] = Content[a] \o Content[patch]
  BY <1>4, JoinOfLines DEF X
<1>6. Join(X, z) \in Lines /\ Content[Join(X, z)] = Content[X] \o Content[z]
  BY <1>4, <1>5, JoinOfLines
<1> QED  BY <1>3, <1>5, <1>6, Zenon DEF a, z, patch

NoPosition == \A p \in Position : p # NoRange

LEMMA RangesAreNotWhole == NoPosition
<1>1. ASSUME NEW p \in Position PROVE p # NoRange
  <2>1. DOMAIN p = {"line", "character"} /\ DOMAIN NoRange = {"line"}
    BY DEF Position, NoRange
  <2>2. "character" \notin {"line"}
    OBVIOUS
  <2> QED  BY <2>1, <2>2
<1> QED  BY <1>1 DEF NoPosition

\* One change is applied to the lines as the editor made it to the text.
Faithful(lines, change, left) ==
  Fits(lines, change) /\ Edit(lines, change) \in Lines /\ Content[Edit(lines, change)] = left

LEMMA EditMade ==
  ASSUME NEW lines \in Lines, NEW edit \in TextEdit, Applies(Content[lines], edit)
  PROVE  /\ Faithful(lines, AsChange(Content[lines], edit), edit.left)
         /\ edit.left \in Plain
         /\ AsChange(Content[lines], edit) \in Change
<1> DEFINE t == Content[lines]
           f == edit.from
           e == edit.to
           b1 == SubSeq(t, 1, f)
           b2 == SubSeq(t, 1, e)
           q == SubSeq(t, f + 1, e)
           r == SubSeq(t, e + 1, Len(t))
           from == PositionAfter[b1]
           to == PositionAfter[b2]
           change == AsChange(t, edit)
<1>1. t \in Plain /\ t \in Text /\ lines \in Seq(Line)
  BY ContentType, LinesAreTexts DEF Lines
<1>2. /\ e \in Nat /\ f \in Nat /\ f <= e /\ e <= Len(t) /\ Len(t) \in Nat
      /\ edit.text \in Plain /\ edit.text \in Text
      /\ edit.left = (b1 \o edit.text) \o r
  BY <1>1, LinesAreTexts DEF Applies, Splice, TextEdit, Text
<1>3. change.from = from /\ change.to = to /\ change.text = Wire[edit.text]
      /\ change = [from |-> from, to |-> to, text |-> Wire[edit.text]]
  BY DEF AsChange, PositionAt
<1> HIDE DEF t, f, e, change
<1>4. b1 \in Text /\ b2 \in Text /\ q \in Text /\ r \in Text
      /\ b1 \in Plain /\ r \in Plain
  <2>1. \A i, j \in Nat : i >= 1 /\ j <= Len(t) => SubSeq(t, i, j) \in Seq(Char \ {CR})
    BY <1>1 DEF Plain
  <2>2. f + 1 \in Nat /\ e + 1 \in Nat /\ f + 1 >= 1 /\ e + 1 >= 1 /\ f <= Len(t)
    BY <1>2
  <2>3. b1 \in Plain /\ b2 \in Plain /\ q \in Plain /\ r \in Plain
    BY <1>2, <2>1, <2>2 DEF Plain
  <2> QED  BY <2>3, LinesAreTexts
<1>5. b2 = b1 \o q /\ t = b2 \o r
  <2>1. t \in Seq(Char) /\ 1 \in 1 .. Len(t) + 1 /\ f \in 1 - 1 .. Len(t) /\ e \in f .. Len(t)
        /\ e \in 1 - 1 .. Len(t) /\ Len(t) \in e .. Len(t)
    BY <1>1, <1>2 DEF Text
  <2>2. b1 \o q = b2
    BY <2>1, ConcatAdjacentSubSeq
  <2>3. b2 \o r = SubSeq(t, 1, Len(t))
    BY <2>1, ConcatAdjacentSubSeq
  <2>4. SubSeq(t, 1, Len(t)) = t
    BY <2>1, SubSeqFull
  <2> QED  BY <2>2, <2>3, <2>4, Zenon
<1> HIDE DEF b1, b2, q, r
<1>6. t = b1 \o (q \o r) /\ q \o r \in Text
  <2>1. Associate(b1, q, r)
    BY <1>4, TextsAssociative
  <2>2. q \o r \in Text
    BY <1>4, TextsJoined
  <2> QED  BY <1>5, <2>1, <2>2, Zenon DEF Associate
<1>7. /\ IsAt(lines, from) /\ Content[Ahead(lines, from)] = b1
      /\ IsAt(lines, to) /\ Content[Ahead(lines, to)] = b2
  <2>1. \E u \in Text : Content[lines] = b1 \o u
    BY <1>6 DEF t
  <2>2. \E u \in Text : Content[lines] = b2 \o u
    BY <1>4, <1>5 DEF t
  <2> QED  BY <1>4, <2>1, <2>2, PositionFound
<1>8. Content[Behind(lines, to)] = r
  <2>1. Ahead(lines, to) \in Lines /\ Behind(lines, to) \in Lines
        /\ Join(Ahead(lines, to), Behind(lines, to)) = lines
    BY <1>7, CutLines
  <2>2. t = b2 \o Content[Behind(lines, to)] /\ Content[Behind(lines, to)] \in Text
    BY <1>7, <2>1, JoinOfLines DEF t
  <2> QED  BY <1>4, <1>5, <2>2, Cancel
<1>9. from \in Position /\ to \in Position /\ Wire[edit.text] \in Text
  BY <1>2, <1>4, PositionType, WireType
<1>10. NotAfter(from, to)
  BY <1>4, <1>5, PositionsGrow
<1> HIDE DEF from, to
<1>11. RangeFits(lines, from, to)
  BY <1>7, <1>9, <1>10 DEF RangeFits, IsAt, NotAfter, Position
<1>12. change.from # NoRange
  BY <1>3, <1>9, RangesAreNotWhole DEF NoPosition
<1>13. Edit(lines, change) = ReplaceRange(lines, from, to, Wire[edit.text])
  BY <1>3, <1>12, Zenon DEF Edit
<1>14. /\ Edit(lines, change) \in Lines
       /\ Content[Edit(lines, change)] = (b1 \o Content[SplitLines[Wire[edit.text]]]) \o r
  <2> DEFINE w == Wire[edit.text]
             x == ReplaceRange(lines, from, to, w)
  <2>1. x \in Lines
        /\ Content[x] = (Content[Ahead(lines, from)] \o Content[SplitLines[w]]) \o Content[Behind(lines, to)]
    <3>1. w \in Text
      BY <1>9
    <3> HIDE DEF w
    <3> QED  BY <3>1, <1>9, <1>11, ReplacedContent
  <2>2. Edit(lines, change) = x
    BY <1>13
  <2> HIDE DEF x
  <2> QED  BY <2>1, <2>2, <1>7, <1>8, Zenon
<1>15. Content[SplitLines[Wire[edit.text]]] = edit.text
  BY <1>2, SplitWire
<1>16. Fits(lines, change)
  BY <1>3, <1>11, Zenon DEF Fits
<1>17. Faithful(lines, change, edit.left)
  BY <1>2, <1>14, <1>15, <1>16, Zenon DEF Faithful
<1>18. edit.left \in Plain
  <2>1. \A u \in Plain, v \in Plain : u \o v \in Plain
    BY DEF Plain
  <2> QED  BY <1>2, <1>4, <2>1, Zenon
<1>19. change \in Change
  BY <1>3, <1>9 DEF Change
<1> QED  BY <1>17, <1>18, <1>19 DEF change, t

LEMMA WholeMade ==
  ASSUME NEW lines \in Lines, NEW t \in Plain
  PROVE  Faithful(lines, WholeText(t), t) /\ WholeText(t) \in Change
<1> DEFINE change == WholeText(t)
<1>1. change.from = NoRange /\ change.text = Wire[t] /\ change = [from |-> NoRange, to |-> NoRange, text |-> Wire[t]]
  BY DEF WholeText
<1> HIDE DEF change
<1>2. t \in Text /\ Wire[t] \in Text
  BY LinesAreTexts, WireType
<1>3. Edit(lines, change) = SplitLines[Wire[t]]
  BY <1>1, Zenon DEF Edit
<1>4. SplitLines[Wire[t]] \in Lines /\ Content[SplitLines[Wire[t]]] = t
  BY <1>2, SplitType, SplitWire
<1>5. change \in Change
  BY <1>1, <1>2 DEF Change
<1> QED  BY <1>1, <1>3, <1>4, <1>5 DEF Faithful, Fits, change

-----------------------------------------------------------------------------
(* The changes of one notification. *)

OpenDocument == [version : Nat, lines : Lines, open : Nat]
Progress == [doc : OpenDocument, failed : BOOLEAN]

Step(before, change, version) ==
  IF before.failed \/ ~Fits(before.doc.lines, change)
  THEN [doc |-> before.doc, failed |-> TRUE]
  ELSE [doc |-> Edited(before.doc, version, change), failed |-> FALSE]

IsApplied(g, doc, version) ==
  g = [list \in Seq(Change) |-> IF list = << >> THEN [doc |-> doc, failed |-> FALSE]
                                ELSE Step(g[Front(list)], Last(list), version)]

LEMMA ApplyAs ==
  ASSUME NEW doc, NEW version, NEW changes
  PROVE  ApplyChanges(doc, version, changes) = (CHOOSE g : IsApplied(g, doc, version))[changes].doc
BY Zenon DEF ApplyChanges, IsApplied, Step

LEMMA EditType ==
  ASSUME NEW lines \in Lines, NEW change \in Change, Fits(lines, change)
  PROVE  Edit(lines, change) \in Lines
<1>1. change.text \in Text
  BY DEF Change
<1>2. CASE change.from = NoRange
  BY <1>1, <1>2, SplitType DEF Edit
<1>3. CASE change.from # NoRange
  <2>1. change.from \in Position /\ change.to \in Position
    BY <1>3 DEF Change
  <2>2. RangeFits(lines, change.from, change.to)
    BY <1>3 DEF Fits
  <2>3. ReplaceRange(lines, change.from, change.to, change.text) \in Lines
    BY <1>1, <2>1, <2>2, ReplacedContent
  <2> QED  BY <1>3, <2>3 DEF Edit
<1> QED  BY <1>2, <1>3

\* The step of a document that is right so far, written out.
LEMMA StepIs ==
  ASSUME NEW d \in OpenDocument, NEW change, NEW version, Fits(d.lines, change)
  PROVE  Step([doc |-> d, failed |-> FALSE], change, version) =
           [doc |-> Edited(d, version, change), failed |-> FALSE]
BY Zenon DEF Step

LEMMA StepType ==
  ASSUME NEW before \in Progress, NEW change \in Change, NEW version \in Nat
  PROVE  Step(before, change, version) \in Progress
<1> DEFINE d == before.doc
<1>1. d \in OpenDocument /\ before.failed \in BOOLEAN /\ before = [doc |-> d, failed |-> before.failed]
  BY DEF Progress
<1>2. d.lines \in Lines /\ d.open \in Nat
  BY <1>1 DEF OpenDocument
<1>3. CASE before.failed \/ ~Fits(d.lines, change)
  <2>1. Step(before, change, version) = [doc |-> d, failed |-> TRUE]
    BY <1>3, Zenon DEF Step
  <2> QED  BY <1>1, <2>1 DEF Progress
<1>4. CASE ~ (before.failed \/ ~Fits(d.lines, change))
  <2> DEFINE x == Edit(d.lines, change)
             e == Edited(d, version, change)
  <2>1. before = [doc |-> d, failed |-> FALSE]
    BY <1>1, <1>4
  <2>2. Step(before, change, version) = [doc |-> e, failed |-> FALSE]
    <3> HIDE DEF d
    <3> QED  BY <1>1, <1>4, <2>1, StepIs
  <2>3. x \in Lines
    BY <1>2, <1>4, EditType
  <2>4. e \in OpenDocument
    <3>1. e = [version |-> version, lines |-> x, open |-> d.open]
      BY Zenon DEF Edited
    <3> HIDE DEF e, x
    <3> QED  BY <1>2, <2>3, <3>1 DEF OpenDocument
  <2> HIDE DEF e
  <2> QED  BY <2>2, <2>4 DEF Progress
<1> QED  BY <1>3, <1>4

LEMMA AppliedChosen ==
  ASSUME NEW doc \in OpenDocument, NEW version \in Nat
  PROVE  LET g == CHOOSE h : IsApplied(h, doc, version)
         IN  /\ g[<< >>] = [doc |-> doc, failed |-> FALSE]
             /\ \A s \in Seq(Change), c \in Change : g[Append(s, c)] = Step(g[s], c, version)
<1> DEFINE f == [p \in Seq(Change) \X Progress \X Change |-> Step(p[2], p[3], version)]
           zero == [doc |-> doc, failed |-> FALSE]
           g == CHOOSE h : IsApplied(h, doc, version)
<1>1. zero \in Progress
  BY DEF Progress
<1>2. f \in [Seq(Change) \X Progress \X Change -> Progress]
  BY StepType
<1>3. \A s \in Seq(Change), p \in Progress, c \in Change : f[<<s, p, c>>] = Step(p, c, version)
  OBVIOUS
<1> HIDE DEF f, zero
<1>4. PICK h \in [Seq(Change) -> Progress] : \A s \in Seq(Change) : Follows(h, s, f, zero)
  BY <1>1, <1>2, SequenceRecursion
<1>5. ASSUME NEW s \in Seq(Change)
      PROVE  h[s] = IF s = << >> THEN zero ELSE Step(h[Front(s)], Last(s), version)
  <2>1. s # << >> => Front(s) \in Seq(Change) /\ Last(s) \in Change
    BY FrontAndLast
  <2> QED  BY <2>1, <1>3, <1>4 DEF Follows
<1>6. h = [list \in Seq(Change) |-> IF list = << >> THEN zero ELSE Step(h[Front(list)], Last(list), version)]
  BY <1>5
<1>7. IsApplied(h, doc, version)
  BY <1>6, Zenon DEF IsApplied, zero
<1>8. IsApplied(g, doc, version)
  BY <1>7, Zenon
<1> HIDE DEF g
<1>9. \A s \in Seq(Change) : g[s] = IF s = << >> THEN zero ELSE Step(g[Front(s)], Last(s), version)
  BY <1>8, Zenon DEF IsApplied, zero
<1>10. << >> \in Seq(Change)
  OBVIOUS
<1>11. ASSUME NEW s \in Seq(Change), NEW c \in Change PROVE g[Append(s, c)] = Step(g[s], c, version)
  <2>1. Append(s, c) \in Seq(Change) /\ Append(s, c) # << >>
        /\ Front(Append(s, c)) = s /\ Last(Append(s, c)) = c
    BY Appended
  <2> QED  BY <2>1, <1>9
<1> QED  BY <1>9, <1>10, <1>11 DEF g, zero

\* What a list of changes makes of a document that has the text t: one that has
\* the text u, under the version of the notification.
Right(changes, version, t, u) ==
  \A doc \in OpenDocument : Content[doc.lines] = t =>
    \E l \in Lines : /\ Content[l] = u
                     /\ ApplyChanges(doc, version, changes) = [version |-> version, lines |-> l, open |-> doc.open]

LEMMA WholeTextRight ==
  ASSUME NEW version \in Nat, NEW t, NEW u \in Plain
  PROVE  <<WholeText(u)>> \in Seq(Change) /\ Right(<<WholeText(u)>>, version, t, u)
<1> DEFINE c == WholeText(u)
<1>1. ASSUME NEW doc \in OpenDocument
      PROVE  /\ c \in Change
             /\ \E l \in Lines : /\ Content[l] = u
                                 /\ ApplyChanges(doc, version, <<c>>) = [version |-> version, lines |-> l, open |-> doc.open]
  <2>1. doc.lines \in Lines
    BY DEF OpenDocument
  <2>2. Faithful(doc.lines, c, u) /\ c \in Change
    BY <2>1, WholeMade
  <2> DEFINE g == CHOOSE h : IsApplied(h, doc, version)
  <2>3. g[<< >>] = [doc |-> doc, failed |-> FALSE] /\ g[Append(<< >>, c)] = Step(g[<< >>], c, version)
    <3>1. << >> \in Seq(Change)
      OBVIOUS
    <3> QED  BY <2>2, <3>1, AppliedChosen
  <2>4. ApplyChanges(doc, version, <<c>>) = g[<<c>>].doc
    BY ApplyAs
  <2> HIDE DEF g, c
  <2>5. Append(<< >>, c) = <<c>>
    BY <2>2
  <2>6. g[<<c>>] = [doc |-> [version |-> version, lines |-> Edit(doc.lines, c), open |-> doc.open], failed |-> FALSE]
    <3>1. Fits(doc.lines, c)
      BY <2>2, Zenon DEF Faithful
    <3>2. Step([doc |-> doc, failed |-> FALSE], c, version) = [doc |-> Edited(doc, version, c), failed |-> FALSE]
      BY <3>1, StepIs, Zenon
    <3>3. g[<<c>>] = Step([doc |-> doc, failed |-> FALSE], c, version)
      BY <2>3, <2>5, Zenon
    <3> QED  BY <3>2, <3>3, Zenon DEF Edited
  <2>7. g[<<c>>].doc = [version |-> version, lines |-> Edit(doc.lines, c), open |-> doc.open]
    BY <2>6
  <2>8. Edit(doc.lines, c) \in Lines /\ Content[Edit(doc.lines, c)] = u
    BY <2>2 DEF Faithful
  <2> QED  BY <2>2, <2>4, <2>7, <2>8, Zenon
<1>2. c \in Change
  <2>1. << << >> >> \in Lines
    BY DEF Lines, Line
  <2> QED  BY <2>1, WholeMade
<1>3. <<c>> \in Seq(Change)
  <2> HIDE DEF c
  <2> QED  BY <1>2
<1> QED  BY <1>1, <1>3, Zenon DEF Right

\* The changes that describe edits made one after the other, each on the text
\* that the one before it left.
LEMMA EditsRight ==
  ASSUME NEW version \in Nat, NEW edits \in Seq(TextEdit), edits # << >>,
         NEW left \in [0 .. Len(edits) -> Plain],
         \A k \in 1 .. Len(edits) : Applies(left[k - 1], edits[k]) /\ left[k] = edits[k].left,
         NEW changes, changes = [k \in 1 .. Len(edits) |-> AsChange(left[k - 1], edits[k])]
  PROVE  changes \in Seq(Change) /\ Right(changes, version, left[0], left[Len(edits)])
<1> DEFINE n == Len(edits)
<1>1. n \in Nat \ {0} /\ \A k \in 1 .. n : edits[k] \in TextEdit /\ k - 1 \in 0 .. n /\ k \in 0 .. n
  BY EmptySeq
<1>2. ASSUME NEW k \in 1 .. n, NEW lines \in Lines, Content[lines] = left[k - 1]
      PROVE  Faithful(lines, changes[k], left[k]) /\ changes[k] \in Change
  <2>1. Applies(Content[lines], edits[k]) /\ left[k] = edits[k].left /\ edits[k] \in TextEdit
        /\ changes[k] = AsChange(Content[lines], edits[k])
    BY <1>1, <1>2
  <2> QED  BY <2>1, EditMade
<1>3. ASSUME NEW k \in 1 .. n PROVE changes[k] \in Change
  <2>1. left[k - 1] \in Plain
    BY <1>1
  <2>2. Content[SplitLines[Wire[left[k - 1]]]] = left[k - 1] /\ SplitLines[Wire[left[k - 1]]] \in Lines
    BY <2>1, SplitWire, SplitType, WireType, LinesAreTexts
  <2> QED  BY <2>2, <1>2
<1>0. n \in Nat \ {0}
  BY <1>1
<1> HIDE DEF n
<1>4. changes \in Seq(Change) /\ Len(changes) = n
  <2>1. changes = [k \in 1 .. n |-> changes[k]]
    BY DEF n
  <2>2. changes \in [1 .. n -> Change]
    BY <2>1, <1>3, Zenon
  <2> QED  BY <2>2, <1>0
<1>5. ASSUME NEW doc \in OpenDocument, Content[doc.lines] = left[0]
      PROVE  \E l \in Lines : /\ Content[l] = left[n]
                              /\ ApplyChanges(doc, version, changes)
                                   = [version |-> version, lines |-> l, open |-> doc.open]
  <2> DEFINE g == CHOOSE h : IsApplied(h, doc, version)
             Upto(k) == SubSeq(changes, 1, k)
             Reached(k, d) == /\ d \in OpenDocument /\ d.open = doc.open /\ Content[d.lines] = left[k]
                              /\ k # 0 => d.version = version
                              /\ g[Upto(k)] = [doc |-> d, failed |-> FALSE]
             T == {k \in 0 .. n : ~ \E d : Reached(k, d)}
  <2>1. g[<< >>] = [doc |-> doc, failed |-> FALSE]
        /\ \A s \in Seq(Change), c \in Change : g[Append(s, c)] = Step(g[s], c, version)
    BY AppliedChosen
  <2>2. ApplyChanges(doc, version, changes) = g[changes].doc
    BY ApplyAs
  <2> HIDE DEF g
  <2>3. ASSUME T # {} PROVE FALSE
    <3>1. PICK k \in T : \A y \in T : k <= y
      <4>1. T \subseteq Nat
        BY <1>1
      <4> HIDE DEF T
      <4> QED  BY <2>3, <4>1, LeastOf
    <3>2. k \in 0 .. n /\ k \in Nat
      BY <1>1
    <3>3. CASE k = 0
      <4>1. Upto(0) = << >>
        BY <1>4
      <4>2. Reached(0, doc)
        BY <1>5, <2>1, <4>1
      <4> QED  BY <3>1, <3>3, <4>2
    <3>4. CASE k # 0
      <4>1. k - 1 \in 0 .. n /\ k \in 1 .. n /\ ~ (k <= k - 1)
        BY <1>1, <3>2, <3>4
      <4>2. PICK d : Reached(k - 1, d)
        <5>1. k - 1 \notin T
          BY <3>1, <4>1
        <5> QED  BY <4>1, <5>1
      <4>3. d \in OpenDocument /\ d.lines \in Lines /\ d.open = doc.open /\ Content[d.lines] = left[k - 1]
            /\ g[Upto(k - 1)] = [doc |-> d, failed |-> FALSE]
        BY <4>2 DEF OpenDocument
      <4>4. Faithful(d.lines, changes[k], left[k]) /\ changes[k] \in Change
        BY <4>1, <4>3, <1>2
      <4>5. Upto(k) = Append(Upto(k - 1), changes[k]) /\ Upto(k - 1) \in Seq(Change)
        <5> DEFINE j == k - 1
        <5>1. j \in Nat /\ j < n /\ j + 1 = k
          <6>1. n \in Nat /\ k \in Nat /\ k <= n /\ k # 0
            BY <1>0, <3>2, <3>4
          <6> HIDE DEF Upto, Reached, T
          <6> QED  BY <6>1, SMTT(60)
        <5>2. j \in Nat /\ j < Len(changes) /\ j <= Len(changes)
          <6>1. j <= n
            BY <1>0, <5>1
          <6> QED  BY <5>1, <6>1, <1>4, Zenon
        <5> HIDE DEF j
        <5>3. changes \in Seq(Change)
          BY <1>4
        <5>4. SubSeq(changes, 1, j) \in Seq(Change)
              /\ SubSeq(changes, 1, j + 1) = Append(SubSeq(changes, 1, j), changes[j + 1])
          <6>1. \A C : \A s \in Seq(C) : \A i \in Nat : i < Len(s) /\ i <= Len(s) =>
                  SubSeq(s, 1, i) \in Seq(C) /\ SubSeq(s, 1, i + 1) = Append(SubSeq(s, 1, i), s[i + 1])
            BY CutLine, Zenon
          <6> QED  BY <5>2, <5>3, <6>1, Zenon
        <5>5. SubSeq(changes, 1, k) = Append(SubSeq(changes, 1, j), changes[k])
          BY <5>1, <5>4, Zenon
        <5> QED  BY <5>4, <5>5 DEF j
      <4> DEFINE e == Edited(d, version, changes[k])
      <4>6. g[Upto(k)] = [doc |-> e, failed |-> FALSE]
        <5>1. g[Upto(k)] = Step(g[Upto(k - 1)], changes[k], version)
          BY <2>1, <4>4, <4>5
        <5>2. Fits(d.lines, changes[k])
          BY <4>4 DEF Faithful
        <5>3. g[Upto(k)] = Step([doc |-> d, failed |-> FALSE], changes[k], version)
          BY <4>3, <5>1, Zenon
        <5>4. Step([doc |-> d, failed |-> FALSE], changes[k], version) = [doc |-> e, failed |-> FALSE]
          <6>1. d \in OpenDocument
            BY <4>3
          <6> QED  BY <5>2, <6>1, StepIs, Zenon
        <5> QED  BY <5>3, <5>4, Zenon
      <4>7. Edit(d.lines, changes[k]) \in Lines /\ Content[Edit(d.lines, changes[k])] = left[k]
            /\ d.open \in Nat
        BY <4>3, <4>4 DEF Faithful, OpenDocument
      <4>8. e \in OpenDocument /\ e.version = version /\ e.lines = Edit(d.lines, changes[k]) /\ e.open = d.open
        BY <4>7 DEF OpenDocument, Edited
      <4> HIDE DEF e, Upto
      <4>9. Reached(k, e)
        BY <4>3, <4>6, <4>7, <4>8
      <4> QED  BY <3>1, <4>9
    <3> QED  BY <3>3, <3>4
  <2>4. PICK d : Reached(n, d)
    <3>1. n \in 0 .. n
      BY <1>1
    <3> QED  BY <2>3, <3>1
  <2>5. Upto(n) = changes
    BY <1>4, SubSeqFull
  <2>6. g[changes].doc = d /\ d \in OpenDocument /\ d.version = version /\ d.open = doc.open /\ Content[d.lines] = left[n]
    <3>1. g[changes] = [doc |-> d, failed |-> FALSE]
      BY <2>4, <2>5, Zenon
    <3>2. n # 0
      BY <1>0
    <3>3. d \in OpenDocument /\ d.version = version /\ d.open = doc.open /\ Content[d.lines] = left[n]
      BY <2>4, <3>2, Zenon
    <3>4. g[changes].doc = d
      BY <3>1
    <3> QED  BY <3>3, <3>4
  <2>7. d.lines \in Lines /\ d = [version |-> d.version, lines |-> d.lines, open |-> d.open]
    BY <2>6 DEF OpenDocument
  <2> QED  BY <2>2, <2>6, <2>7, Zenon
<1> QED  BY <1>4, <1>5, Zenon DEF Right, n

-----------------------------------------------------------------------------
(* The notifications under way lead from the copy to what the editor shows. *)

Notification ==
  [kind : {"didOpen"}, open : 1 .. MaxOpens, version : 1 .. MaxVersion, text : Text]
    \cup [kind : {"didChange"}, version : 1 .. MaxVersion, changes : Seq(Change)]
    \cup [kind : {"didSave"}, text : Text \cup {NoText}]
    \cup [kind : {"didClose"}]

\* What the copy, or the editor, has open: nothing, or a text under a version of
\* an opening.
Shows(opening, version, text) == {[open |-> opening, version |-> version, text |-> text]}
CopyView(doc) == IF doc = Closed THEN {} ELSE Shows(doc.open, doc.version, Content[doc.lines])
EditorView(doc, opening) == IF doc = Closed THEN {} ELSE Shows(opening, doc.version, doc.text)

\* The notification makes "after" of a copy that has "before" open, when the
\* file holds the text "file".
OpenLeads(n, after) == n.kind = "didOpen" /\ after = Shows(n.open, n.version, Content[SplitLines[n.text]])
ChangeLeads(before, n, after) ==
  /\ n.kind = "didChange"
  /\ \E b, u : /\ before = {b}
               /\ after = Shows(b.open, n.version, u)
               /\ Right(n.changes, n.version, b.text, u)
SaveLeads(before, n, after, file) ==
  /\ n.kind = "didSave"
  /\ \E b : /\ before = {b} /\ after = before
            /\ Content[SplitLines[file]] = b.text
            /\ n.text # NoText => Content[SplitLines[n.text]] = b.text
CloseLeads(n, after) == n.kind = "didClose" /\ after = {}
Leads(before, n, after, file) ==
  \/ OpenLeads(n, after)
  \/ ChangeLeads(before, n, after)
  \/ SaveLeads(before, n, after, file)
  \/ CloseLeads(n, after)

\* The views pass from "first" to "last" as the queue is handled, and the
\* editor did show each of them.
Explains(views, queue, first, last, seen, file) ==
  /\ views[1] = first /\ views[Len(queue) + 1] = last
  /\ \A i \in 1 .. Len(queue) + 1 : views[i] \subseteq seen
  /\ \A i \in 1 .. Len(queue) : Leads(views[i], queue[i], views[i + 1], file)

DocumentTypes ==
  /\ display = Closed \/ (display \in [version : 1 .. MaxVersion, text : Plain] /\ opens \in 1 .. MaxOpens)
  /\ disk \in Text
  /\ copy = Closed \/ copy \in [version : 1 .. MaxVersion, lines : Lines, open : 1 .. MaxOpens]
  /\ synced \in BOOLEAN
  /\ opens \in 0 .. MaxOpens /\ saves \in 0 .. MaxSaves
  /\ inbox \in Seq(Notification)

QueueLeads ==
  \E views : Explains(views, inbox, CopyView(copy), EditorView(display, opens), shown, disk)

DocumentInv == DocumentTypes /\ QueueLeads

LEMMA QueueSent ==
  ASSUME NEW views, NEW queue \in Seq(Notification), NEW first, NEW last, NEW seen, NEW file,
         Explains(views, queue, first, last, seen, file),
         NEW n \in Notification, NEW next, NEW more, seen \subseteq more, next \subseteq more,
         Leads(last, n, next, file)
  PROVE  \E w : Explains(w, Append(queue, n), first, next, more, file)
<1> DEFINE k == Len(queue)
           q == Append(queue, n)
           w == [i \in 1 .. k + 2 |-> IF i = k + 2 THEN next ELSE views[i]]
<1>1. k \in Nat /\ Len(q) = k + 1 /\ q[k + 1] = n /\ \A i \in 1 .. k : q[i] = queue[i]
  OBVIOUS
<1>2. views[1] = first /\ views[k + 1] = last /\ \A i \in 1 .. k + 1 : views[i] \subseteq seen
  BY DEF Explains
<1>3. \A i \in 1 .. k : Leads(views[i], queue[i], views[i + 1], file)
  BY DEF Explains
<1> HIDE DEF k, q
<1>4. w[1] = first /\ w[k + 2] = next /\ w[k + 1] = last /\ \A i \in 1 .. k + 1 : w[i] = views[i]
  BY <1>1, <1>2
<1> HIDE DEF w
<1>5. ASSUME NEW i \in 1 .. Len(q) + 1 PROVE w[i] \subseteq more
  <2>1. i \in 1 .. k + 1 \/ i = k + 2
    BY <1>1
  <2>2. CASE i \in 1 .. k + 1
    BY <2>2, <1>2, <1>4, Zenon
  <2> QED  BY <2>1, <2>2, <1>4
<1>6. ASSUME NEW i \in 1 .. Len(q) PROVE Leads(w[i], q[i], w[i + 1], file)
  <2>1. \/ i \in 1 .. k /\ i \in 1 .. k + 1 /\ i + 1 \in 1 .. k + 1
        \/ i = k + 1 /\ i + 1 = k + 2
    BY <1>1
  <2>2. CASE i \in 1 .. k /\ i \in 1 .. k + 1 /\ i + 1 \in 1 .. k + 1
    BY <2>2, <1>1, <1>3, <1>4, Zenon
  <2>3. CASE i = k + 1 /\ i + 1 = k + 2
    <3>1. w[i] = last /\ q[i] = n /\ w[i + 1] = next
      BY <2>3, <1>1, <1>4, Zenon
    <3> QED  BY <3>1
  <2> QED  BY <2>1, <2>2, <2>3
<1>7. Len(q) + 1 = k + 2
  BY <1>1
<1>8. Explains(w, q, first, next, more, file)
  BY <1>4, <1>5, <1>6, <1>7, Zenon DEF Explains
<1> QED  BY <1>8, Zenon DEF q

LEMMA QueueReceived ==
  ASSUME NEW views, NEW queue \in Seq(Notification), queue # << >>,
         NEW first, NEW last, NEW seen, NEW file, Explains(views, queue, first, last, seen, file)
  PROVE  /\ Leads(first, Head(queue), views[2], file)
         /\ \E w : Explains(w, Tail(queue), views[2], last, seen, file)
<1> DEFINE k == Len(queue)
           q == Tail(queue)
           w == [i \in 1 .. k |-> views[i + 1]]
<1>1. /\ k \in Nat \ {0} /\ Len(q) = k - 1 /\ Head(queue) = queue[1]
      /\ \A i \in 1 .. k - 1 : q[i] = queue[i + 1]
  BY EmptySeq
<1>2. views[1] = first /\ views[k + 1] = last /\ \A i \in 1 .. k + 1 : views[i] \subseteq seen
  BY DEF Explains
<1>3. \A i \in 1 .. k : Leads(views[i], queue[i], views[i + 1], file)
  BY DEF Explains
<1> HIDE DEF k, q
<1>4. w[1] = views[2] /\ w[k] = last /\ \A i \in 1 .. k : w[i] = views[i + 1]
  BY <1>1, <1>2
<1> HIDE DEF w
<1>5. Leads(first, Head(queue), views[2], file)
  <2>1. 1 \in 1 .. k /\ 1 + 1 = 2
    BY <1>1
  <2>2. Leads(views[1], queue[1], views[1 + 1], file)
    BY <2>1, <1>3, Zenon
  <2> QED  BY <2>1, <2>2, <1>1, <1>2, Zenon
<1>6. ASSUME NEW i \in 1 .. Len(q) + 1 PROVE w[i] \subseteq seen
  <2>1. i \in 1 .. k /\ i + 1 \in 1 .. k + 1
    BY <1>1
  <2> QED  BY <2>1, <1>2, <1>4, Zenon
<1>7. ASSUME NEW i \in 1 .. Len(q) PROVE Leads(w[i], q[i], w[i + 1], file)
  <2>1. i \in 1 .. k /\ i \in 1 .. k - 1 /\ i + 1 \in 1 .. k
    BY <1>1
  <2>2. Leads(views[i + 1], queue[i + 1], views[(i + 1) + 1], file)
    BY <2>1, <1>3, Zenon
  <2>3. w[i] = views[i + 1] /\ q[i] = queue[i + 1] /\ w[i + 1] = views[(i + 1) + 1]
    BY <2>1, <1>1, <1>4, Zenon
  <2> QED  BY <2>2, <2>3, Zenon
<1>8. Len(q) + 1 = k
  BY <1>1
<1>9. Explains(w, q, views[2], last, seen, file)
  BY <1>4, <1>6, <1>7, <1>8, Zenon DEF Explains
<1> QED  BY <1>5, <1>9, Zenon DEF q

\* Where no save is queued, what the file holds does not matter.
LEMMA QueueAnyFile ==
  ASSUME NEW views, NEW queue, NEW first, NEW last, NEW seen, NEW file,
         Explains(views, queue, first, last, seen, file),
         \A i \in 1 .. Len(queue) : queue[i].kind # "didSave", NEW other
  PROVE  Explains(views, queue, first, last, seen, other)
<1>1. ASSUME NEW i \in 1 .. Len(queue) PROVE Leads(views[i], queue[i], views[i + 1], other)
  <2>1. Leads(views[i], queue[i], views[i + 1], file) /\ queue[i].kind # "didSave"
    BY Zenon DEF Explains
  <2> QED  BY <2>1, Zenon DEF Leads, SaveLeads
<1> QED  BY <1>1, Zenon DEF Explains

LEMMA NotificationKinds ==
  ASSUME NEW n \in Notification
  PROVE  /\ n.kind = "didOpen" => /\ n.open \in 1 .. MaxOpens /\ n.version \in 1 .. MaxVersion
                                  /\ n.text \in Text
         /\ n.kind = "didChange" => n.version \in 1 .. MaxVersion /\ n.changes \in Seq(Change)
         /\ n.kind = "didSave" => n.text \in Text \cup {NoText}
BY DEF Notification

LEMMA Shown ==
  ASSUME NEW v \in Nat, NEW t \in Text
  PROVE  [version |-> v, text |-> t] # Closed
<1>1. [version |-> v, text |-> t] \in [version : Nat, text : Text]
  OBVIOUS
<1> QED  BY <1>1, SyncAssumption

LEMMA Copied ==
  ASSUME NEW v \in Nat, NEW l \in Lines, NEW o \in Nat
  PROVE  [version |-> v, lines |-> l, open |-> o] # Closed
<1>1. l \in Seq(Text)
  BY LinesAreTexts
<1>2. [version |-> v, lines |-> l, open |-> o] \in [version : Nat, lines : Seq(Text), open : Nat]
  BY <1>1
<1> QED  BY <1>2, SyncAssumption

LEMMA ViewOfEditor ==
  ASSUME NEW v \in Nat, NEW t \in Text, NEW o
  PROVE  EditorView([version |-> v, text |-> t], o) = Shows(o, v, t)
<1> DEFINE d == [version |-> v, text |-> t]
<1>1. d # Closed
  BY Shown
<1>2. d.version = v /\ d.text = t
  OBVIOUS
<1> HIDE DEF d
<1>3. EditorView(d, o) = Shows(o, v, t)
  BY <1>1, <1>2, Zenon DEF EditorView
<1> QED  BY <1>3 DEF d

LEMMA ViewOfCopy ==
  ASSUME NEW v \in Nat, NEW l \in Lines, NEW o \in Nat
  PROVE  CopyView([version |-> v, lines |-> l, open |-> o]) = Shows(o, v, Content[l])
<1> DEFINE d == [version |-> v, lines |-> l, open |-> o]
<1>1. d # Closed
  BY Copied
<1>2. d.version = v /\ d.lines = l /\ d.open = o
  OBVIOUS
<1> HIDE DEF d
<1>3. CopyView(d) = Shows(o, v, Content[l])
  BY <1>1, <1>2, Zenon DEF CopyView
<1> QED  BY <1>3 DEF d

LEMMA NumbersOfSync ==
  /\ MaxVersion \in Nat \ {0} /\ MaxOpens \in Nat /\ MaxSaves \in Nat
  /\ \A v \in 1 .. MaxVersion : v \in Nat
  /\ \A o \in 1 .. MaxOpens : o \in Nat
BY SyncAssumption

\* What the editor does adds a notification that leads to what it shows next.
LEMMA EditorSends ==
  ASSUME DocumentInv, NEW n \in Notification, inbox' = Append(inbox, n), UNCHANGED <<copy, disk>>,
         shown \subseteq shown', EditorView(display', opens') \subseteq shown',
         Leads(EditorView(display, opens), n, EditorView(display', opens'), disk)
  PROVE  QueueLeads' /\ inbox' \in Seq(Notification)
<1>1. inbox \in Seq(Notification) /\ QueueLeads
  BY DEF DocumentInv, DocumentTypes
<1>2. PICK views : Explains(views, inbox, CopyView(copy), EditorView(display, opens), shown, disk)
  BY <1>1, Zenon DEF QueueLeads
<1>3. \E w : Explains(w, Append(inbox, n), CopyView(copy), EditorView(display', opens'), shown', disk)
  BY <1>1, <1>2, QueueSent
<1>4. QueueLeads'
  BY <1>3, Zenon DEF QueueLeads
<1>5. inbox' \in Seq(Notification)
  <2>1. Append(inbox, n) \in Seq(Notification)
    BY <1>1, Appended
  <2> QED  BY <2>1
<1> QED  BY <1>4, <1>5

LEMMA DocumentInit ==
  ASSUME Init PROVE DocumentInv
<1>1. disk \in Text
  <2>1. PICK t \in Originals : disk = Wire[t]
    BY DEF Init
  <2> QED  BY <2>1, WireType, SyncAssumption
<1>2. DocumentTypes
  <2>1. inbox \in Seq(Notification) /\ 0 \in 0 .. MaxOpens /\ 0 \in 0 .. MaxSaves
    BY NumbersOfSync DEF Init
  <2> QED  BY <1>1, <2>1, Zenon DEF Init, DocumentTypes
<1>3. QueueLeads
  <2> DEFINE views == [i \in 1 .. 1 |-> {}]
  <2>1. Len(inbox) = 0 /\ CopyView(copy) = {} /\ EditorView(display, opens) = {} /\ shown = {}
    BY DEF Init, CopyView, EditorView
  <2>2. views[1] = {} /\ views[Len(inbox) + 1] = {} /\ (\A i \in 1 .. Len(inbox) + 1 : views[i] \subseteq shown)
    BY <2>1
  <2>3. 1 .. Len(inbox) = {}
    BY <2>1
  <2> HIDE DEF views
  <2>4. Explains(views, inbox, CopyView(copy), EditorView(display, opens), shown, disk)
    BY <2>1, <2>2, <2>3, Zenon DEF Explains
  <2> QED  BY <2>4, Zenon DEF QueueLeads
<1> QED  BY <1>2, <1>3 DEF DocumentInv

LEMMA OpensKeeps ==
  ASSUME DocumentInv, EditorOpens PROVE DocumentInv'
<1> DEFINE o == opens + 1
           t == Content[SplitLines[disk]]
           n == [kind |-> "didOpen", open |-> o, version |-> 1, text |-> disk]
<1>1. disk \in Text /\ opens \in 0 .. MaxOpens /\ saves \in 0 .. MaxSaves /\ synced \in BOOLEAN
  BY DEF DocumentInv, DocumentTypes
<1>2. o \in 1 .. MaxOpens /\ o \in 0 .. MaxOpens /\ 1 \in 1 .. MaxVersion /\ 1 \in Nat
  BY <1>1, NumbersOfSync DEF EditorOpens
<1>3. t \in Plain /\ t \in Text
  <2>1. SplitLines[disk] \in Seq(Line)
    BY <1>1, SplitType DEF Lines
  <2> QED  BY <2>1, ContentType, LinesAreTexts
<1> HIDE DEF o, t
<1>4. n \in Notification
  BY <1>1, <1>2 DEF Notification
<1>5. n.kind = "didOpen" /\ n.open = o /\ n.version = 1 /\ n.text = disk
  OBVIOUS
<1>6. /\ display' = [version |-> 1, text |-> t] /\ opens' = o
      /\ shown' = shown \cup Shows(o, 1, t)
      /\ inbox' = Append(inbox, n)
      /\ UNCHANGED <<disk, copy, synced, saves>>
  BY Zenon DEF EditorOpens, Show, Send, Shows, o, t
<1> HIDE DEF n
<1>7. EditorView(display', opens') = Shows(o, 1, t)
  BY <1>2, <1>3, <1>6, ViewOfEditor
<1>8. Leads(EditorView(display, opens), n, EditorView(display', opens'), disk)
  BY <1>5, <1>7, Zenon DEF Leads, OpenLeads, t
<1>9. QueueLeads' /\ inbox' \in Seq(Notification)
  <2>1. shown \subseteq shown' /\ EditorView(display', opens') \subseteq shown'
    BY <1>6, <1>7
  <2> QED  BY <1>4, <1>6, <1>8, <2>1, EditorSends
<1>10. display' \in [version : 1 .. MaxVersion, text : Plain]
  BY <1>2, <1>3, <1>6
<1>11. DocumentTypes'
  <2>1. copy = Closed \/ copy \in [version : 1 .. MaxVersion, lines : Lines, open : 1 .. MaxOpens]
    BY DEF DocumentInv, DocumentTypes
  <2> QED  BY <1>1, <1>2, <1>6, <1>9, <1>10, <2>1, Zenon DEF DocumentTypes
<1> QED  BY <1>9, <1>11 DEF DocumentInv

LEMMA ClosesKeeps ==
  ASSUME DocumentInv, EditorCloses PROVE DocumentInv'
<1> DEFINE n == [kind |-> "didClose"]
<1>1. n \in Notification /\ n.kind = "didClose"
  BY DEF Notification
<1>2. display' = Closed /\ inbox' = Append(inbox, n) /\ UNCHANGED <<disk, copy, synced, shown, opens, saves>>
  BY Zenon DEF EditorCloses, Send
<1> HIDE DEF n
<1>3. EditorView(display', opens') = {}
  BY <1>2, Zenon DEF EditorView
<1>4. Leads(EditorView(display, opens), n, EditorView(display', opens'), disk)
  BY <1>1, <1>3, Zenon DEF Leads, CloseLeads
<1>5. QueueLeads' /\ inbox' \in Seq(Notification)
  <2>1. shown \subseteq shown' /\ EditorView(display', opens') \subseteq shown'
    BY <1>2, <1>3
  <2> QED  BY <1>1, <1>2, <1>4, <2>1, EditorSends
<1>6. DocumentTypes'
  BY <1>2, <1>5, Zenon DEF DocumentTypes, DocumentInv
<1> QED  BY <1>5, <1>6 DEF DocumentInv

LEMMA EditorHas ==
  ASSUME DocumentInv, display # Closed
  PROVE  /\ display.version \in 1 .. MaxVersion /\ display.version \in Nat
         /\ display.text \in Plain /\ display.text \in Text
         /\ opens \in 1 .. MaxOpens
         /\ EditorView(display, opens) = Shows(opens, display.version, display.text)
<1>1. display \in [version : 1 .. MaxVersion, text : Plain] /\ opens \in 1 .. MaxOpens
  BY DEF DocumentInv, DocumentTypes
<1>2. display.version \in 1 .. MaxVersion /\ display.text \in Plain
  BY <1>1
<1>3. EditorView(display, opens) = Shows(opens, display.version, display.text)
  BY Zenon DEF EditorView
<1> QED  BY <1>1, <1>2, <1>3, NumbersOfSync, LinesAreTexts

LEMMA SavesKeeps ==
  ASSUME DocumentInv, Patient, EditorSaves PROVE DocumentInv'
<1> DEFINE t == display.text
           v == EditorView(display, opens)
<1>1. display # Closed /\ saves \in 0 .. MaxSaves /\ saves < MaxSaves /\ saves' = saves + 1
  BY DEF DocumentInv, DocumentTypes, EditorSaves
<1>2. t \in Plain /\ t \in Text /\ v = Shows(opens, display.version, t)
  BY <1>1, EditorHas
<1>3. Wire[t] \in Text /\ Content[SplitLines[Wire[t]]] = t
  BY <1>2, WireType, SplitWire
<1> HIDE DEF v
<1>4. PICK text \in {Wire[t], NoText} : inbox' = Append(inbox, [kind |-> "didSave", text |-> text])
  BY Zenon DEF EditorSaves, Send
<1>5. disk' = Wire[t] /\ UNCHANGED <<display, copy, synced, shown, opens>>
  BY Zenon DEF EditorSaves
<1> HIDE DEF t
<1> DEFINE n == [kind |-> "didSave", text |-> text]
<1>6. n \in Notification /\ n.kind = "didSave" /\ n.text = text
  BY <1>3, <1>4 DEF Notification
<1> HIDE DEF n
<1>7. inbox \in Seq(Notification) /\ QueueLeads
  BY DEF DocumentInv, DocumentTypes
<1>8. PICK views : Explains(views, inbox, CopyView(copy), v, shown, disk)
  BY <1>7, Zenon DEF QueueLeads, v
<1>9. \A i \in 1 .. Len(inbox) : inbox[i].kind # "didSave"
  BY <1>7 DEF Patient
<1>10. Explains(views, inbox, CopyView(copy), v, shown, disk')
  BY <1>8, <1>9, QueueAnyFile
<1>11. v \subseteq shown
  <2>1. Len(inbox) + 1 \in 1 .. Len(inbox) + 1
    BY <1>7
  <2> QED  BY <1>10, <2>1, Zenon DEF Explains
<1>12. Leads(v, n, v, disk')
  <2> DEFINE b == [open |-> opens, version |-> display.version, text |-> t]
  <2>1. v = {b}
    BY <1>2, Zenon DEF Shows
  <2>2. b.text = t
    OBVIOUS
  <2> HIDE DEF b
  <2>3. n.text # NoText => n.text = Wire[t]
    BY <1>4, <1>6
  <2> QED  BY <1>3, <1>5, <1>6, <2>1, <2>2, <2>3, Zenon DEF Leads, SaveLeads
<1>13. \E w : Explains(w, Append(inbox, n), CopyView(copy), v, shown, disk')
  BY <1>6, <1>7, <1>10, <1>11, <1>12, QueueSent
<1>14. inbox' = Append(inbox, n) /\ inbox' \in Seq(Notification)
  <2>1. Append(inbox, n) \in Seq(Notification)
    BY <1>6, <1>7, Appended
  <2> QED  BY <1>4, <2>1 DEF n
<1>15. QueueLeads'
  BY <1>5, <1>13, <1>14, Zenon DEF QueueLeads, v
<1>16. DocumentTypes'
  <2>1. saves' \in 0 .. MaxSaves
    BY <1>1, NumbersOfSync
  <2> QED  BY <1>3, <1>5, <1>14, <2>1, Zenon DEF DocumentTypes, DocumentInv
<1> QED  BY <1>15, <1>16 DEF DocumentInv

\* A notification of changes that make u of the text shown.
LEMMA ChangesSent ==
  ASSUME DocumentInv, display # Closed, NEW v \in 1 .. MaxVersion, NEW u \in Plain,
         NEW changes \in Seq(Change), Right(changes, v, display.text, u),
         display' = [version |-> v, text |-> u], shown' = shown \cup Shows(opens, v, u),
         inbox' = Append(inbox, [kind |-> "didChange", version |-> v, changes |-> changes]),
         UNCHANGED <<disk, copy, synced, opens, saves>>
  PROVE  DocumentInv'
<1> DEFINE n == [kind |-> "didChange", version |-> v, changes |-> changes]
           b == [open |-> opens, version |-> display.version, text |-> display.text]
<1>1. n \in Notification /\ n.kind = "didChange" /\ n.version = v /\ n.changes = changes
  BY DEF Notification
<1>2. b.open = opens /\ b.text = display.text
  OBVIOUS
<1>3. EditorView(display, opens) = {b}
  BY EditorHas, Zenon DEF Shows
<1>4. v \in Nat /\ u \in Text
  BY NumbersOfSync, LinesAreTexts
<1>5. inbox' = Append(inbox, n)
  OBVIOUS
<1> HIDE DEF n, b
<1>6. EditorView(display', opens') = Shows(opens, v, u)
  BY <1>4, ViewOfEditor
<1>7. Leads(EditorView(display, opens), n, EditorView(display', opens'), disk)
  BY <1>1, <1>2, <1>3, <1>6, Zenon DEF Leads, ChangeLeads
<1>8. QueueLeads' /\ inbox' \in Seq(Notification)
  <2>1. shown \subseteq shown' /\ EditorView(display', opens') \subseteq shown'
    BY <1>6
  <2> QED  BY <1>1, <1>5, <1>7, <2>1, EditorSends
<1>9. DocumentTypes'
  <2>1. display' \in [version : 1 .. MaxVersion, text : Plain]
    OBVIOUS
  <2>2. opens \in 1 .. MaxOpens
    BY EditorHas
  <2> QED  BY <1>8, <2>1, <2>2, Zenon DEF DocumentTypes, DocumentInv
<1> QED  BY <1>8, <1>9 DEF DocumentInv

LEMMA EditsKeeps ==
  ASSUME DocumentInv, EditorEdits PROVE DocumentInv'
<1> DEFINE t == display.text
           v == display.version + 1
           Left(list, k) == IF k = 0 THEN t ELSE list[k].left
           Described(list) == [k \in DOMAIN list |-> AsChange(Left(list, k - 1), list[k])]
<1>1. /\ display # Closed /\ display.version < MaxVersion
      /\ UNCHANGED <<disk, copy, synced, opens, saves>>
  BY DEF EditorEdits
<1>2. PICK edits \in Changes(t) :
        /\ edits \in Seq(TextEdit) \ {<< >>}
        /\ \A k \in DOMAIN edits : Applies(Left(edits, k - 1), edits[k])
        /\ Show(opens, v, Left(edits, Len(edits)))
        /\ \E changes \in {Described(edits), <<WholeText(Left(edits, Len(edits)))>>} :
             Send([kind |-> "didChange", version |-> v, changes |-> changes])
  BY Zenon DEF EditorEdits
<1> DEFINE m == Len(edits)
           left == [k \in 0 .. m |-> Left(edits, k)]
           u == left[m]
<1>3. /\ edits \in Seq(TextEdit) /\ edits # << >> /\ m \in Nat \ {0} /\ DOMAIN edits = 1 .. m
      /\ \A k \in 1 .. m : edits[k] \in TextEdit
  BY <1>2, EmptySeq
<1>4. t \in Plain /\ display.version \in 1 .. MaxVersion
  BY <1>1, EditorHas
<1>5. v \in 1 .. MaxVersion /\ v \in Nat
  BY <1>1, <1>4, NumbersOfSync
<1>6. ASSUME NEW k \in 0 .. m PROVE Left(edits, k) \in Plain
  <2>1. CASE k = 0
    BY <2>1, <1>4
  <2>2. CASE k # 0
    <3>1. k \in 1 .. m
      BY <1>3, <2>2
    <3>2. edits[k].left \in Plain
      BY <1>3, <3>1 DEF TextEdit
    <3> QED  BY <2>2, <3>2
  <2> QED  BY <2>1, <2>2
<1>7. left \in [0 .. m -> Plain] /\ m \in 0 .. m /\ 0 \in 0 .. m
  BY <1>3, <1>6
<1>8. \A k \in 0 .. m : left[k] = Left(edits, k)
  OBVIOUS
<1>9. \A k \in 1 .. m : k - 1 \in 0 .. m /\ k \in 0 .. m /\ k # 0
  BY <1>3
<1>10. left[0] = t /\ u = Left(edits, m) /\ u \in Plain /\ \A k \in 1 .. m : left[k] = edits[k].left
  BY <1>7, <1>8, <1>9
<1> HIDE DEF left, m, t
<1>11. \A k \in 1 .. m : left[k - 1] = Left(edits, k - 1)
  BY <1>8, <1>9
<1>12. \A k \in 1 .. m : Applies(left[k - 1], edits[k])
  <2>1. \A k \in 1 .. m : Applies(Left(edits, k - 1), edits[k])
    BY <1>2, <1>3, Zenon
  <2> HIDE DEF Left
  <2> QED  BY <1>11, <2>1
<1>13. Described(edits) = [k \in 1 .. m |-> AsChange(left[k - 1], edits[k])]
  <2>1. Described(edits) = [k \in 1 .. m |-> AsChange(Left(edits, k - 1), edits[k])]
    BY <1>3, Zenon
  <2> HIDE DEF Described, Left
  <2> QED  BY <1>11, <2>1
<1> HIDE DEF Described, Left
<1>14. Described(edits) \in Seq(Change) /\ Right(Described(edits), v, t, u)
  <2> DEFINE d == Described(edits)
  <2>1. d = [k \in 1 .. Len(edits) |-> AsChange(left[k - 1], edits[k])]
    BY <1>13, Zenon DEF m
  <2>2. left \in [0 .. Len(edits) -> Plain]
    BY <1>7, Zenon DEF m
  <2>3. \A k \in 1 .. Len(edits) : Applies(left[k - 1], edits[k]) /\ left[k] = edits[k].left
    BY <1>10, <1>12, Zenon DEF m
  <2> HIDE DEF d, v
  <2>4. d \in Seq(Change) /\ Right(d, v, left[0], left[Len(edits)])
    BY <1>3, <1>5, <2>1, <2>2, <2>3, EditsRight
  <2> QED  BY <1>10, <2>4, Zenon DEF d, m
<1>15. <<WholeText(u)>> \in Seq(Change) /\ Right(<<WholeText(u)>>, v, t, u)
  BY <1>5, <1>10, WholeTextRight
<1>16. PICK changes \in {Described(edits), <<WholeText(u)>>} :
         inbox' = Append(inbox, [kind |-> "didChange", version |-> v, changes |-> changes])
  BY <1>2, <1>10, Zenon DEF Send, m
<1>17. display' = [version |-> v, text |-> u] /\ shown' = shown \cup Shows(opens, v, u)
  BY <1>2, <1>10, Zenon DEF Show, Shows, m
<1>18. changes \in Seq(Change) /\ Right(changes, v, t, u)
  BY <1>14, <1>15, <1>16
<1> HIDE DEF v, u
<1> QED  BY <1>1, <1>5, <1>10, <1>16, <1>17, <1>18, ChangesSent DEF t

-----------------------------------------------------------------------------
(* The bridge handles a notification: what it leads to is the copy then. *)

LEMMA ReceiveKeeps ==
  ASSUME DocumentInv, NEW kind, Receive(kind),
         copy' = Closed \/ copy' \in [version : 1 .. MaxVersion, lines : Lines, open : 1 .. MaxOpens],
         synced' \in BOOLEAN,
         \A after : Leads(CopyView(copy), Head(inbox), after, disk) => CopyView(copy') = after
  PROVE  DocumentInv'
<1>1. inbox \in Seq(Notification) /\ QueueLeads
  BY DEF DocumentInv, DocumentTypes
<1>2. inbox # << >> /\ inbox' = Tail(inbox) /\ UNCHANGED <<display, disk, shown, opens, saves>>
  BY DEF Receive
<1>3. PICK views : Explains(views, inbox, CopyView(copy), EditorView(display, opens), shown, disk)
  BY <1>1, Zenon DEF QueueLeads
<1>4. /\ Leads(CopyView(copy), Head(inbox), views[2], disk)
      /\ \E w : Explains(w, Tail(inbox), views[2], EditorView(display, opens), shown, disk)
  BY <1>1, <1>2, <1>3, QueueReceived
<1>5. CopyView(copy') = views[2]
  BY <1>4, Zenon
<1>6. QueueLeads'
  BY <1>2, <1>4, <1>5, Zenon DEF QueueLeads
<1>7. inbox' \in Seq(Notification)
  BY <1>1, <1>2
<1>8. DocumentTypes'
  BY <1>2, <1>7, Zenon DEF DocumentTypes, DocumentInv
<1> QED  BY <1>6, <1>8 DEF DocumentInv

LEMMA Oldest ==
  ASSUME DocumentInv, NEW kind, Receive(kind)
  PROVE  Head(inbox) \in Notification /\ Head(inbox).kind = kind
BY DEF DocumentInv, DocumentTypes, Receive

LEMMA HeadLeads ==
  ASSUME DocumentInv, NEW kind, Receive(kind)
  PROVE  \E after : Leads(CopyView(copy), Head(inbox), after, disk)
<1>1. inbox \in Seq(Notification) /\ QueueLeads /\ inbox # << >>
  BY DEF DocumentInv, DocumentTypes, Receive
<1>2. PICK views : Explains(views, inbox, CopyView(copy), EditorView(display, opens), shown, disk)
  BY <1>1, Zenon DEF QueueLeads
<1>3. Leads(CopyView(copy), Head(inbox), views[2], disk)
  BY <1>1, <1>2, QueueReceived
<1> QED  BY <1>3, Zenon

LEMMA CopyHas ==
  ASSUME DocumentInv, copy # Closed
  PROVE  /\ copy.version \in 1 .. MaxVersion /\ copy.lines \in Lines /\ copy.open \in 1 .. MaxOpens
         /\ copy.version \in Nat /\ copy.open \in Nat /\ copy \in OpenDocument
         /\ copy = [version |-> copy.version, lines |-> copy.lines, open |-> copy.open]
         /\ CopyView(copy) = Shows(copy.open, copy.version, Content[copy.lines])
<1>1. copy \in [version : 1 .. MaxVersion, lines : Lines, open : 1 .. MaxOpens]
  BY DEF DocumentInv, DocumentTypes
<1>2. copy.version \in 1 .. MaxVersion /\ copy.lines \in Lines /\ copy.open \in 1 .. MaxOpens
      /\ copy = [version |-> copy.version, lines |-> copy.lines, open |-> copy.open]
  BY <1>1
<1>3. copy.version \in Nat /\ copy.open \in Nat
  BY <1>2, NumbersOfSync
<1>4. copy \in OpenDocument
  BY <1>2, <1>3 DEF OpenDocument
<1>5. CopyView(copy) = Shows(copy.open, copy.version, Content[copy.lines])
  BY Zenon DEF CopyView
<1> QED  BY <1>2, <1>3, <1>4, <1>5

LEMMA HandleOpenKeeps ==
  ASSUME DocumentInv, HandleOpen PROVE DocumentInv'
<1> DEFINE n == Head(inbox)
           l == SplitLines[n.text]
<1>1. Receive("didOpen") /\ synced' = FALSE /\ copy' = [version |-> n.version, lines |-> l, open |-> n.open]
  BY DEF HandleOpen
<1>2. n \in Notification /\ n.kind = "didOpen"
  BY <1>1, Oldest
<1> HIDE DEF n
<1>3. n.open \in 1 .. MaxOpens /\ n.version \in 1 .. MaxVersion /\ n.text \in Text
      /\ n.open \in Nat /\ n.version \in Nat
  BY <1>2, NotificationKinds, NumbersOfSync
<1>4. l \in Lines
  BY <1>3, SplitType
<1> HIDE DEF l
<1>5. copy' \in [version : 1 .. MaxVersion, lines : Lines, open : 1 .. MaxOpens]
  BY <1>1, <1>3, <1>4
<1>6. CopyView(copy') = Shows(n.open, n.version, Content[l])
  BY <1>1, <1>3, <1>4, ViewOfCopy
<1>7. ASSUME NEW after, Leads(CopyView(copy), n, after, disk) PROVE CopyView(copy') = after
  <2>1. "didOpen" # "didChange" /\ "didOpen" # "didSave" /\ "didOpen" # "didClose"
    OBVIOUS
  <2>2. OpenLeads(n, after)
    BY <1>2, <1>7, <2>1, Zenon DEF Leads, ChangeLeads, SaveLeads, CloseLeads
  <2> QED  BY <1>6, <2>2, Zenon DEF OpenLeads, l
<1>8. synced' \in BOOLEAN
  BY <1>1
<1> QED  BY <1>1, <1>5, <1>7, <1>8, ReceiveKeeps DEF n

LEMMA HandleCloseKeeps ==
  ASSUME DocumentInv, HandleClose PROVE DocumentInv'
<1> DEFINE n == Head(inbox)
<1>1. Receive("didClose") /\ synced' = FALSE /\ copy' = Closed
  BY DEF HandleClose
<1>2. n \in Notification /\ n.kind = "didClose"
  BY <1>1, Oldest
<1> HIDE DEF n
<1>3. CopyView(copy') = {}
  BY <1>1, Zenon DEF CopyView
<1>4. ASSUME NEW after, Leads(CopyView(copy), n, after, disk) PROVE CopyView(copy') = after
  <2>1. "didClose" # "didChange" /\ "didClose" # "didSave" /\ "didClose" # "didOpen"
    OBVIOUS
  <2>2. CloseLeads(n, after)
    BY <1>2, <1>4, <2>1, Zenon DEF Leads, ChangeLeads, SaveLeads, OpenLeads
  <2> QED  BY <1>3, <2>2, Zenon DEF CloseLeads
<1>5. synced' \in BOOLEAN
  BY <1>1
<1> QED  BY <1>1, <1>4, <1>5, ReceiveKeeps DEF n

\* Only an open document is changed or saved.
LEMMA HandleChangeKeeps ==
  ASSUME DocumentInv, HandleChange PROVE DocumentInv'
<1> DEFINE n == Head(inbox)
<1>1. /\ Receive("didChange") /\ synced' = synced
      /\ copy' = IF copy = Closed THEN copy ELSE ApplyChanges(copy, n.version, n.changes)
  BY DEF HandleChange
<1>2. n \in Notification /\ n.kind = "didChange"
  BY <1>1, Oldest
<1> HIDE DEF n
<1>3. n.version \in 1 .. MaxVersion /\ n.version \in Nat
  BY <1>2, NotificationKinds, NumbersOfSync
<1>4. ASSUME NEW after, Leads(CopyView(copy), n, after, disk)
      PROVE  /\ CopyView(copy') = after
             /\ copy' \in [version : 1 .. MaxVersion, lines : Lines, open : 1 .. MaxOpens]
  <2>1. "didChange" # "didOpen" /\ "didChange" # "didSave" /\ "didChange" # "didClose"
    OBVIOUS
  <2>2. ChangeLeads(CopyView(copy), n, after)
    BY <1>2, <1>4, <2>1, Zenon DEF Leads, OpenLeads, SaveLeads, CloseLeads
  <2>3. PICK b, u : /\ CopyView(copy) = {b} /\ after = Shows(b.open, n.version, u)
                    /\ Right(n.changes, n.version, b.text, u)
    BY <2>2, Zenon DEF ChangeLeads
  <2>4. copy # Closed
    <3>1. CopyView(copy) # {}
      BY <2>3
    <3> QED  BY <3>1, Zenon DEF CopyView
  <2>5. b.open = copy.open /\ b.text = Content[copy.lines]
    <3>1. CopyView(copy) = {[open |-> copy.open, version |-> copy.version, text |-> Content[copy.lines]]}
      BY <2>4, CopyHas, Zenon DEF Shows
    <3>2. b = [open |-> copy.open, version |-> copy.version, text |-> Content[copy.lines]]
      BY <2>3, <3>1
    <3> QED  BY <3>2
  <2>6. PICK l \in Lines : /\ Content[l] = u
                           /\ ApplyChanges(copy, n.version, n.changes)
                                = [version |-> n.version, lines |-> l, open |-> copy.open]
    BY <2>3, <2>4, <2>5, CopyHas, Zenon DEF Right
  <2>7. copy' = [version |-> n.version, lines |-> l, open |-> copy.open]
    BY <1>1, <2>4, <2>6, Zenon
  <2>8. copy.open \in 1 .. MaxOpens /\ copy.open \in Nat
    BY <2>4, CopyHas
  <2>9. CopyView(copy') = Shows(copy.open, n.version, Content[l])
    BY <1>3, <2>7, <2>8, ViewOfCopy
  <2>10. copy' \in [version : 1 .. MaxVersion, lines : Lines, open : 1 .. MaxOpens]
    BY <1>3, <2>7, <2>8
  <2> QED  BY <2>3, <2>5, <2>6, <2>9, <2>10, Zenon
<1>5. \E after : Leads(CopyView(copy), n, after, disk)
  BY <1>1, HeadLeads DEF n
<1>6. synced' \in BOOLEAN
  BY <1>1 DEF DocumentInv, DocumentTypes
<1>7. copy' \in [version : 1 .. MaxVersion, lines : Lines, open : 1 .. MaxOpens]
  BY <1>4, <1>5, Zenon
<1>8. \A after : Leads(CopyView(copy), n, after, disk) => CopyView(copy') = after
  BY <1>4, Zenon
<1> QED  BY <1>1, <1>6, <1>7, <1>8, ReceiveKeeps DEF n

\* The save leads to a copy that already has the text it makes the bridge take.
LEMMA SavedAlready ==
  ASSUME NEW n, n.kind = "didSave", NEW before, NEW after, NEW file, Leads(before, n, after, file)
  PROVE  SaveLeads(before, n, after, file)
<1>1. "didSave" # "didChange" /\ "didSave" # "didOpen" /\ "didSave" # "didClose"
  OBVIOUS
<1> QED  BY <1>1, Zenon DEF Leads, ChangeLeads, OpenLeads, CloseLeads

LEMMA CopyKept ==
  ASSUME DocumentInv, Receive("didSave"), copy' = copy, synced' \in BOOLEAN
  PROVE  DocumentInv'
<1>1. Head(inbox).kind = "didSave"
  BY Oldest
<1>2. ASSUME NEW after, Leads(CopyView(copy), Head(inbox), after, disk) PROVE CopyView(copy') = after
  <2>1. SaveLeads(CopyView(copy), Head(inbox), after, disk)
    BY <1>1, <1>2, SavedAlready
  <2> QED  BY <2>1, Zenon DEF SaveLeads
<1>3. copy' = Closed \/ copy' \in [version : 1 .. MaxVersion, lines : Lines, open : 1 .. MaxOpens]
  BY DEF DocumentInv, DocumentTypes
<1> QED  BY <1>2, <1>3, ReceiveKeeps

LEMMA HandleSaveKeeps ==
  ASSUME DocumentInv, HandleSave PROVE DocumentInv'
<1> DEFINE n == Head(inbox)
           text == IF n.text = NoText THEN disk ELSE n.text
           l == SplitLines[text]
<1>1. /\ Receive("didSave")
      /\ \/ (copy = Closed \/ synced) /\ UNCHANGED <<copy, synced>>
         \/ copy # Closed /\ copy' = [copy EXCEPT !.lines = l] /\ synced' = TRUE
  BY Zenon DEF HandleSave
<1>2. n \in Notification /\ n.kind = "didSave"
  BY <1>1, Oldest
<1> HIDE DEF n
<1>3. n.text \in Text \cup {NoText} /\ disk \in Text
  BY <1>2, NotificationKinds DEF DocumentInv, DocumentTypes
<1>4. text \in Text
  BY <1>3
<1>5. CASE (copy = Closed \/ synced) /\ UNCHANGED <<copy, synced>>
  <2>1. synced' \in BOOLEAN
    BY <1>5 DEF DocumentInv, DocumentTypes
  <2> QED  BY <1>1, <1>5, <2>1, CopyKept
<1>6. CASE copy # Closed /\ copy' = [copy EXCEPT !.lines = l] /\ synced' = TRUE
  <2> HIDE DEF text
  <2>1. l \in Lines
    BY <1>4, SplitType
  <2>2. /\ copy.version \in 1 .. MaxVersion /\ copy.open \in 1 .. MaxOpens
        /\ copy.version \in Nat /\ copy.open \in Nat
        /\ CopyView(copy) = {[open |-> copy.open, version |-> copy.version, text |-> Content[copy.lines]]}
    BY <1>6, CopyHas, Zenon DEF Shows
  <2>3. copy' = [version |-> copy.version, lines |-> l, open |-> copy.open]
    <3> HIDE DEF l
    <3>1. copy = [version |-> copy.version, lines |-> copy.lines, open |-> copy.open]
      BY <1>6, CopyHas
    <3> QED  BY <1>6, <3>1
  <2>4. CopyView(copy') = Shows(copy.open, copy.version, Content[l])
    <3> HIDE DEF l
    <3> QED  BY <2>1, <2>2, <2>3, ViewOfCopy
  <2>5. copy' \in [version : 1 .. MaxVersion, lines : Lines, open : 1 .. MaxOpens]
    <3> HIDE DEF l
    <3> QED  BY <2>1, <2>2, <2>3
  <2>6. ASSUME NEW after, Leads(CopyView(copy), n, after, disk) PROVE CopyView(copy') = after
    <3>1. PICK b : /\ CopyView(copy) = {b} /\ after = {b}
                   /\ Content[SplitLines[disk]] = b.text
                   /\ n.text # NoText => Content[SplitLines[n.text]] = b.text
      <4>1. SaveLeads(CopyView(copy), n, after, disk)
        BY <1>2, <2>6, SavedAlready
      <4> QED  BY <4>1, Zenon DEF SaveLeads
    <3>2. Content[l] = b.text
      BY <3>1, Zenon DEF text
    <3>3. b = [open |-> copy.open, version |-> copy.version, text |-> Content[copy.lines]]
      BY <2>2, <3>1
    <3>4. b.text = Content[copy.lines]
      BY <3>3
    <3> QED  BY <2>4, <3>1, <3>2, <3>3, <3>4, Zenon DEF Shows
  <2>7. synced' \in BOOLEAN
    BY <1>6
  <2> QED  BY <1>1, <2>5, <2>6, <2>7, ReceiveKeeps DEF n
<1> QED  BY <1>1, <1>5, <1>6

LEMMA HandleSaveUnreadableKeeps ==
  ASSUME DocumentInv, HandleSaveUnreadable PROVE DocumentInv'
<1>1. Receive("didSave") /\ copy' = copy /\ synced' \in BOOLEAN
  BY DEF HandleSaveUnreadable, DocumentInv, DocumentTypes
<1> QED  BY <1>1, CopyKept

LEMMA WindowKeeps ==
  ASSUME DocumentInv, synced' \in BOOLEAN, UNCHANGED <<display, disk, inbox, copy, shown, opens, saves>>
  PROVE  DocumentInv'
<1>1. DocumentTypes'
  BY Zenon DEF DocumentInv, DocumentTypes
<1>2. QueueLeads'
  BY Zenon DEF DocumentInv, QueueLeads
<1> QED  BY <1>1, <1>2 DEF DocumentInv

LEMMA DocumentStep ==
  ASSUME DocumentInv, [PatientNext]_vars PROVE DocumentInv'
<1>1. CASE Patient /\ Editor
  <2>1. CASE EditorOpens
    BY <2>1, OpensKeeps
  <2>2. CASE EditorEdits
    BY <2>2, EditsKeeps
  <2>3. CASE EditorSaves
    BY <1>1, <2>3, SavesKeeps
  <2>4. CASE EditorCloses
    BY <2>4, ClosesKeeps
  <2> QED  BY <1>1, <2>1, <2>2, <2>3, <2>4, Zenon DEF Editor
<1>2. CASE HandleNotification
  <2>1. CASE HandleOpen
    BY <2>1, HandleOpenKeeps
  <2>2. CASE HandleChange
    BY <2>2, HandleChangeKeeps
  <2>3. CASE HandleSave
    BY <2>3, HandleSaveKeeps
  <2>4. CASE HandleSaveUnreadable
    BY <2>4, HandleSaveUnreadableKeeps
  <2>5. CASE HandleClose
    BY <2>5, HandleCloseKeeps
  <2> QED  BY <1>2, <2>1, <2>2, <2>3, <2>4, <2>5, Zenon DEF HandleNotification
<1>3. CASE WindowPasses
  <2>1. synced' \in BOOLEAN /\ UNCHANGED <<display, disk, inbox, copy, shown, opens, saves>>
    BY <1>3 DEF WindowPasses
  <2> QED  BY <2>1, WindowKeeps
<1>4. CASE UNCHANGED vars
  <2>1. UNCHANGED <<display, disk, inbox, copy, shown, opens, saves>> /\ synced' \in BOOLEAN
    BY <1>4 DEF vars, DocumentInv, DocumentTypes
  <2> QED  BY <2>1, WindowKeeps
<1> QED  BY <1>1, <1>2, <1>3, <1>4, Zenon DEF PatientNext

LEMMA DocumentInvHolds == PatientSpec => []DocumentInv
<1>1. Init => DocumentInv
  BY DocumentInit
<1>2. DocumentInv /\ [PatientNext]_vars => DocumentInv'
  BY DocumentStep
<1> QED  BY <1>1, <1>2, PTL DEF PatientSpec

LEMMA InvNamesShownText ==
  ASSUME DocumentInv PROVE VersionNamesShownText
<1>1. TypeOK
  <2>1. display = Closed \/ display \in [version : 1 .. MaxVersion, text : Text]
    <3>1. CASE display # Closed
      <4>1. display \in [version : 1 .. MaxVersion, text : Plain]
        BY <3>1 DEF DocumentInv, DocumentTypes
      <4> QED  BY <4>1, LinesAreTexts
    <3> QED  BY <3>1
  <2>2. copy = Closed \/ copy \in [version : 1 .. MaxVersion, lines : Seq(Text), open : 1 .. MaxOpens]
    <3>1. CASE copy # Closed
      <4>1. copy \in [version : 1 .. MaxVersion, lines : Lines, open : 1 .. MaxOpens]
        BY <3>1 DEF DocumentInv, DocumentTypes
      <4> QED  BY <4>1, LinesAreTexts
    <3> QED  BY <3>1
  <2> QED  BY <2>1, <2>2, Zenon DEF TypeOK, DocumentInv, DocumentTypes
<1>2. ASSUME copy # Closed
      PROVE  [open |-> copy.open, version |-> copy.version, text |-> Content[copy.lines]] \in shown
  <2>1. PICK views : Explains(views, inbox, CopyView(copy), EditorView(display, opens), shown, disk)
    BY Zenon DEF DocumentInv, QueueLeads
  <2>2. 1 \in 1 .. Len(inbox) + 1
    BY DEF DocumentInv, DocumentTypes
  <2>3. CopyView(copy) \subseteq shown
    BY <2>1, <2>2, Zenon DEF Explains
  <2>4. CopyView(copy) = {[open |-> copy.open, version |-> copy.version, text |-> Content[copy.lines]]}
    BY <1>2, CopyHas, Zenon DEF Shows
  <2> QED  BY <2>3, <2>4
<1> QED  BY <1>1, <1>2, Zenon DEF VersionNamesShownText

LEMMA InvInStep ==
  ASSUME DocumentInv PROVE InStepWhenIdle
<1> SUFFICES ASSUME inbox = << >>
             PROVE  IF display = Closed THEN copy = Closed
                    ELSE /\ copy # Closed /\ copy.version = display.version
                         /\ Content[copy.lines] = display.text
  BY Zenon DEF InStepWhenIdle
<1>1. CopyView(copy) = EditorView(display, opens)
  <2>1. PICK views : Explains(views, inbox, CopyView(copy), EditorView(display, opens), shown, disk)
    BY Zenon DEF DocumentInv, QueueLeads
  <2>2. Len(inbox) + 1 = 1
    OBVIOUS
  <2> QED  BY <2>1, <2>2, Zenon DEF Explains
<1>2. CASE display = Closed
  <2>1. CopyView(copy) = {}
    BY <1>1, <1>2, Zenon DEF EditorView
  <2>2. copy = Closed
    <3>1. copy # Closed => CopyView(copy) # {}
      BY CopyHas DEF Shows
    <3> QED  BY <2>1, <3>1
  <2> QED  BY <1>2, <2>2
<1>3. CASE display # Closed
  <2> DEFINE e == [open |-> opens, version |-> display.version, text |-> display.text]
             c == [open |-> copy.open, version |-> copy.version, text |-> Content[copy.lines]]
  <2>1. EditorView(display, opens) = {e}
    BY <1>3, EditorHas, Zenon DEF Shows
  <2>2. copy # Closed
    <3>1. CopyView(copy) # {}
      BY <1>1, <2>1
    <3> QED  BY <3>1, Zenon DEF CopyView
  <2>3. CopyView(copy) = {c}
    BY <2>2, CopyHas, Zenon DEF Shows
  <2>4. e.version = display.version /\ e.text = display.text
        /\ c.version = copy.version /\ c.text = Content[copy.lines]
    OBVIOUS
  <2> HIDE DEF e, c
  <2>5. e = c
    BY <1>1, <2>1, <2>3
  <2> QED  BY <1>3, <2>2, <2>4, <2>5
<1> QED  BY <1>2, <1>3

\* Whatever texts, edits, openings, saves and closings: with an editor that waits
\* for its saves, the copy that apply_lsp_changes, update_saved_document_text and
\* open_from_lsp keep is at every moment a text the editor showed under the
\* version the copy has.
THEOREM CopyIsShownText == PatientSpec => []VersionNamesShownText
<1>1. DocumentInv => VersionNamesShownText
  BY InvNamesShownText
<1> QED  BY <1>1, DocumentInvHolds, PTL

\* And once no notification is under way, it is the text the editor shows.
THEOREM CopyCatchesUp == PatientSpec => []InStepWhenIdle
<1>1. DocumentInv => InStepWhenIdle
  BY InvInStep
<1> QED  BY <1>1, DocumentInvHolds, PTL
=============================================================================
