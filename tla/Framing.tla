------------------------------ MODULE Framing ------------------------------
(***************************************************************************)
(* lsp::read_message_blocking, and read_message which does the same over a *)
(* socket: messages taken out of a byte stream that arrives in chunks, in  *)
(* the loop of the reader thread.  The stream is one of tokens: CR and LF, *)
(* a blank (space or tab), any other byte, and the whole of a              *)
(* Content-Length line up to its end, which is a length or is bad (no      *)
(* number, or above max_content_length).                                   *)
(***************************************************************************)
EXTENDS Naturals, SequencesExt

CONSTANTS
  LengthOf,  \* per token that is a good Content-Length line its length
  MaxChunk   \* the most that one read_some returns

LengthLines == DOMAIN LengthOf
Token == {"CR", "LF", "blank", "other", "badLength"} \cup LengthLines

ASSUME LengthAssumption ==
  /\ LengthOf \in [LengthLines -> Nat]
  /\ LengthLines \cap {"CR", "LF", "blank", "other", "badLength", "none"} = {}

VARIABLES
  coming,    \* what the client has sent and the reader has not read
  broken,    \* after that read_some reports an error, not the end
  buffer,    \* the flat_buffer
  need,      \* the Content-Length line of the body being read; "none": a header
  received,  \* the messages returned
  outcome,   \* "reading", or how the reader ended: "end", "invalid", "error"
  sent       \* history: the messages that the client sent whole

frameVars == <<coming, broken, buffer, need, received, outcome>>

FramingTypeOK ==
  /\ coming \in Seq(Token) /\ broken \in BOOLEAN
  /\ buffer \in Seq(Token)
  /\ need \in LengthLines \cup {"none"}
  /\ received \in Seq(Seq(Token))
  /\ outcome \in {"reading", "end", "invalid", "error"}

FramingInit(stream) ==
  /\ coming = stream /\ broken \in BOOLEAN
  /\ buffer = << >> /\ need = "none" /\ received = << >>
  /\ outcome = "reading"

-----------------------------------------------------------------------------

Delimiter == <<"CR", "LF", "CR", "LF">>

\* frame_message
FrameMessage(payload) ==
  <<CHOOSE line \in LengthLines : LengthOf[line] = Len(payload)>> \o Delimiter \o payload

\* Where the end of a header block may be, and header_block_length: the first such
\* place in the buffer.
DelimiterEnds(s) == {k \in 4 .. Len(s) : SubSeq(s, k - 3, k) = Delimiter}
HasHeader == DelimiterEnds(buffer) # {}
HeaderLength == CHOOSE k \in DelimiterEnds(buffer) : \A j \in DelimiterEnds(buffer) : k <= j

\* is_ignorable_header_block
Ignorable(header) == ToSet(header) \subseteq {"CR", "LF", "blank"}

LineStarts(header) ==
  {k \in DOMAIN header : k = 1 \/ (k > 2 /\ header[k - 2] = "CR" /\ header[k - 1] = "LF")}

\* parse_content_length: the first line that starts with Content-Length; "none"
\* when it is bad or there is no such line.
ContentLength(header) ==
  LET found == {k \in LineStarts(header) : header[k] \in LengthLines \cup {"badLength"}}
      first == CHOOSE k \in found : \A j \in found : k <= j
  IN  IF found = {} \/ header[first] = "badLength" THEN "none" ELSE header[first]

\* The two loops read only while they have too little.
Waiting ==
  /\ outcome = "reading"
  /\ IF need = "none" THEN ~HasHeader ELSE Len(buffer) < LengthOf[need]

\* Mutant of ReadChunk: a read takes the place of what is left in the buffer.
ReadChunkOver(n) ==
  /\ Waiting /\ n <= Len(coming)
  /\ buffer' = SubSeq(coming, 1, n)
  /\ coming' = SubSeq(coming, n + 1, Len(coming))
  /\ UNCHANGED <<broken, need, received, outcome>>

ReadChunk(n) ==
  /\ Waiting /\ n <= Len(coming)
  /\ buffer' = buffer \o SubSeq(coming, 1, n)
  /\ coming' = SubSeq(coming, n + 1, Len(coming))
  /\ UNCHANGED <<broken, need, received, outcome>>

\* read_some returns nothing: the end of the input, or an error.
ReadEnds ==
  /\ Waiting /\ coming = << >>
  /\ outcome' = IF broken THEN "error" ELSE "end"
  /\ UNCHANGED <<coming, broken, buffer, need, received>>

\* A header block is taken off the buffer: blank, announcing a body, or invalid.
TakeHeader ==
  /\ outcome = "reading" /\ need = "none" /\ HasHeader
  /\ LET header == SubSeq(buffer, 1, HeaderLength)
     IN  /\ buffer' = SubSeq(buffer, HeaderLength + 1, Len(buffer))
         /\ IF Ignorable(header) THEN UNCHANGED <<need, outcome>>
            ELSE /\ need' = ContentLength(header)
                 /\ outcome' = IF need' = "none" THEN "invalid" ELSE outcome
  /\ UNCHANGED <<coming, broken, received>>

\* The payload is returned, and the reader thread calls again.
TakeBody ==
  /\ outcome = "reading" /\ need # "none" /\ Len(buffer) >= LengthOf[need]
  /\ received' = Append(received, SubSeq(buffer, 1, LengthOf[need]))
  /\ buffer' = SubSeq(buffer, LengthOf[need] + 1, Len(buffer))
  /\ need' = "none"
  /\ UNCHANGED <<coming, broken, outcome>>

FramingNext ==
  \/ \E n \in 1 .. MaxChunk : ReadChunk(n)
  \/ ReadEnds \/ TakeHeader \/ TakeBody

-----------------------------------------------------------------------------
(* Streams: blank blocks and messages with any header lines in any order,  *)
(* then something that holds no whole message.                             *)

\* A header block ends where its first delimiter does.
IsHeader(block) == DelimiterEnds(block) = {Len(block)}

\* A stream that goes on with a blank block, or with a message.
BlankAhead(stream, after) ==
  \E k \in 0 .. Len(stream) :
    LET header == SubSeq(stream, 1, k)
    IN  IsHeader(header) /\ Ignorable(header) /\ stream = header \o after

MessageAhead(stream, payload, after) ==
  \E k \in 0 .. Len(stream) :
    LET header == SubSeq(stream, 1, k)
    IN  /\ IsHeader(header) /\ ~Ignorable(header)
        /\ ContentLength(header) # "none" /\ LengthOf[ContentLength(header)] = Len(payload)
        /\ stream = header \o (payload \o after)

\* No blank block and no whole message: part of a header, a header without a
\* good length, or one that announces more than there is.
NothingWhole(stream) ==
  \A k \in 0 .. Len(stream) :
    LET header == SubSeq(stream, 1, k)
    IN  IsHeader(header) =>
          /\ ~Ignorable(header)
          /\ ContentLength(header) # "none" => LengthOf[ContentLength(header)] > Len(stream) - k

\* What is left of a stream after each of n blocks and messages, and how many of
\* these were messages.
StreamOf(messages, n, left, count) ==
  /\ left \in [0 .. n -> Seq(Token)] /\ count \in [0 .. n -> 0 .. Len(messages)]
  /\ count[0] = 0 /\ count[n] = Len(messages)
  /\ \A k \in 1 .. n :
       \/ BlankAhead(left[k - 1], left[k]) /\ count[k] = count[k - 1]
       \/ /\ count[k] = count[k - 1] + 1
          /\ MessageAhead(left[k - 1], messages[count[k]], left[k])
  /\ NothingWhole(left[n])

ClientStarts ==
  /\ sent \in Seq(Seq(Token))
  /\ \E n \in Nat : \E left \in [0 .. n -> Seq(Token)], count \in [0 .. n -> Nat] :
       StreamOf(sent, n, left, count) /\ FramingInit(left[0])

FramingSpec == ClientStarts /\ [][FramingNext /\ UNCHANGED sent]_<<frameVars, sent>>

-----------------------------------------------------------------------------
(* Properties. *)

\* However the stream is cut into reads, the messages returned are those sent,
\* in order and whole, whatever they contain; the reader gives up with an error
\* or an invalid header only after the last of them.
FramesExact ==
  /\ FramingTypeOK
  /\ IsPrefix(received, sent)
  /\ outcome # "reading" => received = sent
=============================================================================
