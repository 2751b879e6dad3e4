------------------------ MODULE BridgeSessionProofs ------------------------
(***************************************************************************)
(* BridgeSession for any number of messages, rebuilds and heartbeats.      *)
(*                                                                         *)
(* A message is found in one place at a time: what the reader has not read,*)
(* what it has posted, what the queue holds and what the handler is at are *)
(* four consecutive parts of what the client has sent, and everything      *)
(* before them has been handled (InTransit).  So a response is always to   *)
(* the first request that has none (Answered).                             *)
(***************************************************************************)
EXTENDS BridgeSession, Integers, TLAPS

\* The pushes among the posted functions: the close or fail that ends them is
\* posted with the end of the reader and closes the queue when it has run.
Pushes == Len(posted) - IF reader = "done" /\ ~input.closed THEN 1 ELSE 0

\* How many messages were read, came to the queue, were taken and were handled.
ReadCount == Len(sent) - Len(stream)
QueuedCount == ReadCount - Pushes
TakenCount == QueuedCount - Len(input.messages)
Busy == handler.at \in {"handling", "awaiting"}
HandledCount == TakenCount - IF Busy THEN 1 ELSE 0

\* Ids are positions.
Numbered == \A i \in 1 .. Len(sent) : sent[i].id = i

\* Where the messages are.
InStream == \A i \in 1 .. Len(stream) : stream[i] = sent[ReadCount + i]
InPosted ==
  /\ \A i \in 1 .. Pushes :
       posted[i] = [op |-> "push", message |-> sent[QueuedCount + i]]
  /\ \A i \in 1 .. Len(posted) : i > Pushes => posted[i].op # "push"
InQueue == \A i \in 1 .. Len(input.messages) : input.messages[i] = sent[TakenCount + i]
AtHandler == Busy => handler.message = sent[TakenCount]

InTransit ==
  /\ Numbered /\ InStream /\ InPosted /\ InQueue /\ AtHandler
  /\ Pushes >= 0 /\ HandledCount >= 0

\* After the end nothing is sent, posted or pushed.
Ended ==
  /\ reader = "done" => stream = << >> /\ streamEnd # "open"
  /\ input.closed => posted = << >> /\ reader = "done"
  /\ handler.at = "awaiting" => handler.message.kind = "pooled"

\* What has been answered: the requests that were handled, in their order.
Answered ==
  /\ \A j \in 1 .. Len(out) : out[j].what = "response" =>
       /\ out[j].id \in 1 .. HandledCount /\ IsRequest(sent[out[j].id])
       /\ \A k \in 1 .. Len(out) : out[k] = out[j] => k = j
       /\ \A id \in 1 .. out[j].id - 1 :
            IsRequest(sent[id]) => \E k \in 1 .. j : out[k] = Response(id)
  /\ handler.at # "ended" =>
       \A id \in 1 .. HandledCount :
         IsRequest(sent[id]) => \E k \in 1 .. Len(out) : out[k] = Response(id)

\* A notification comes of a rebuild, and waits for the handshake.
Noticed ==
  /\ notices + rebuilt.telling + (IF ready.pending THEN 1 ELSE 0) <= rebuilt.applied
  /\ ~ready.initialized => notices = 0

IInv == TypeOK /\ InTransit /\ Ended /\ Answered /\ Noticed /\ ReadyAfterInitialized

-----------------------------------------------------------------------------

\* What the types say of the parts.
LEMMA TypeFacts ==
  ASSUME TypeOK
  PROVE  /\ Len(sent) \in Nat /\ Len(stream) \in Nat /\ Len(posted) \in Nat
         /\ Len(input.messages) \in Nat /\ Len(out) \in Nat
         /\ Pushes \in Int /\ ReadCount \in Int /\ QueuedCount \in Int
         /\ TakenCount \in Int /\ HandledCount \in Int
         /\ rebuilt.applied \in Nat /\ rebuilt.telling \in Nat /\ notices \in Nat
  BY DEF TypeOK, Pushes, ReadCount, QueuedCount, TakenCount, HandledCount

\* The parts are consecutive and make up what was sent.
Lengths ==
  /\ Len(sent) \in Nat /\ Len(stream) \in Nat /\ Len(posted) \in Nat
  /\ Len(input.messages) \in Nat /\ Len(out) \in Nat
Counters ==
  /\ Pushes \in Nat /\ ReadCount \in Nat /\ QueuedCount \in Nat
  /\ TakenCount \in Nat /\ HandledCount \in Nat
Consecutive ==
  /\ Busy => TakenCount = HandledCount + 1
  /\ ~Busy => TakenCount = HandledCount
  /\ QueuedCount = TakenCount + Len(input.messages)
  /\ ReadCount = QueuedCount + Pushes
  /\ Len(sent) = ReadCount + Len(stream)

LEMMA Counts ==
  ASSUME IInv
  PROVE  Lengths /\ Counters /\ Consecutive
<1>1. TypeOK /\ Pushes >= 0 /\ HandledCount >= 0
  BY DEF IInv, InTransit
<1>2. /\ Busy => TakenCount = HandledCount + 1
      /\ ~Busy => TakenCount = HandledCount
      /\ TakenCount \in Nat
  BY <1>1, TypeFacts DEF HandledCount
<1>3. QueuedCount = TakenCount + Len(input.messages)
  BY <1>1, TypeFacts DEF TakenCount
<1>4. ReadCount = QueuedCount + Pushes
  BY <1>1, TypeFacts DEF QueuedCount
<1>5. Len(sent) = ReadCount + Len(stream)
  BY <1>1, TypeFacts DEF ReadCount
<1>6. /\ Len(sent) \in Nat /\ Len(stream) \in Nat /\ Len(posted) \in Nat
      /\ Len(input.messages) \in Nat /\ Len(out) \in Nat
  BY <1>1, TypeFacts
<1>7. Pushes \in Nat /\ HandledCount \in Nat
  BY <1>1, TypeFacts
<1>8. QueuedCount \in Nat
  BY <1>2, <1>3, <1>6
<1>9. ReadCount \in Nat
  BY <1>4, <1>7, <1>8
<1> QED BY <1>2, <1>3, <1>4, <1>5, <1>6, <1>7, <1>8, <1>9
        DEF Lengths, Counters, Consecutive

\* A handler that is at a message has one.
LEMMA BusyMessage ==
  ASSUME TypeOK
  PROVE  /\ Busy => /\ handler.message \in Message
                    /\ handler = [at |-> handler.at, message |-> handler.message]
         /\ ~Busy => handler.at \in {"ready", "waiting", "ended"}
  BY DEF TypeOK, Busy

\* The end of the session, or a message handled, out of InTransit's reach.
LEMMA HandlerStep ==
  ASSUME IInv, UNCHANGED <<sent, stream, reader, posted, input>>, Busy,
         handler' = [at |-> "ready"] \/ handler' = [at |-> "ended"]
  PROVE  InTransit' /\ HandledCount' = HandledCount + 1 /\ HandledCount' = TakenCount
<1>1. Pushes' = Pushes /\ ReadCount' = ReadCount /\ QueuedCount' = QueuedCount
      /\ TakenCount' = TakenCount /\ ~Busy'
  BY DEF Pushes, ReadCount, QueuedCount, TakenCount, Busy
<1>2. HandledCount = TakenCount - 1 /\ HandledCount' = TakenCount /\ TakenCount \in Int
  BY <1>1, TypeFacts DEF IInv, HandledCount
<1> QED BY <1>1, <1>2 DEF IInv, InTransit, Numbered, InStream, InPosted, InQueue, AtHandler

\* The response to the message that is handled is to the first request that has
\* none.
LEMMA RespondStep ==
  ASSUME IInv, UNCHANGED <<sent, stream, streamEnd, reader, posted, input>>, Busy,
         IsRequest(handler.message), Respond(handler.message.id)
  PROVE  InTransit' /\ Answered' /\ Ended'
<1> DEFINE n == HandledCount + 1
<1>1. handler' = [at |-> "ready"] \/ handler' = [at |-> "ended"]
  BY DEF Respond, EndSession
<1>2. InTransit' /\ HandledCount' = n /\ n = TakenCount
  BY <1>1, HandlerStep
<1>3. handler.message = sent[n] /\ HandledCount \in Nat /\ n \in 1 .. Len(sent)
      /\ handler.message.id = n
  <2>1. n <= Len(sent) /\ HandledCount \in Nat
    BY SMTT(60), <1>2, TypeFacts DEF IInv, InTransit, TakenCount, QueuedCount, ReadCount
  <2> QED BY <1>2, <2>1 DEF IInv, InTransit, Numbered, InStream, InPosted, InQueue, AtHandler
<1>4. Ended'
  BY <1>1 DEF IInv, Ended
<1>5. Answered'
  <2>1. CASE Writable
    <3>1. out' = Append(out, Response(n)) /\ handler'.at = "ready"
      BY <2>1, <1>3 DEF Respond
    <3>2. /\ Len(out') = Len(out) + 1 /\ out'[Len(out) + 1] = Response(n)
          /\ \A j \in 1 .. Len(out) : out'[j] = out[j]
      BY <3>1 DEF IInv, TypeOK
    <3>3. \A j \in 1 .. Len(out) : out[j] # Response(n)
      BY <1>3 DEF IInv, Answered, Response
    <3>4. \A id \in 1 .. HandledCount :
            IsRequest(sent[id]) => \E k \in 1 .. Len(out) : out[k] = Response(id)
      BY DEF IInv, Answered, Busy
    <3>5. Len(out) \in Nat
      BY TypeFacts DEF IInv
    <3>6. ASSUME NEW j \in 1 .. Len(out'), out'[j].what = "response"
          PROVE  /\ out'[j].id \in 1 .. n /\ IsRequest(sent[out'[j].id])
                 /\ \A k \in 1 .. Len(out') : out'[k] = out'[j] => k = j
                 /\ \A id \in 1 .. out'[j].id - 1 :
                      IsRequest(sent[id]) => \E k \in 1 .. j : out'[k] = Response(id)
      <4>1. CASE j = Len(out) + 1
        <5>1. out'[j].id = n
          BY <4>1, <3>2 DEF Response
        <5>2. \A k \in 1 .. Len(out') : out'[k] = out'[j] => k = j
          BY <4>1, <3>2, <3>3, <3>5
        <5>3. \A id \in 1 .. n - 1 :
                IsRequest(sent[id]) => \E k \in 1 .. j : out'[k] = Response(id)
          BY <4>1, <3>2, <3>4, <3>5, <1>3
        <5> QED BY <5>1, <5>2, <5>3, <1>3
      <4>2. CASE j \in 1 .. Len(out)
        <5>1. out'[j] = out[j] /\ out[j] # Response(n)
          BY <4>2, <3>2, <3>3
        <5>2. /\ out[j].id \in 1 .. HandledCount /\ IsRequest(sent[out[j].id])
              /\ \A k \in 1 .. Len(out) : out[k] = out[j] => k = j
              /\ \A id \in 1 .. out[j].id - 1 :
                   IsRequest(sent[id]) => \E k \in 1 .. j : out[k] = Response(id)
          BY <4>2, <3>6, <5>1 DEF IInv, Answered
        <5>3. \A k \in 1 .. j : k \in 1 .. Len(out) /\ out'[k] = out[k]
          BY <4>2, <3>2, <3>5
        <5>4. \A k \in 1 .. Len(out') : k \in 1 .. Len(out) \/ k = Len(out) + 1
          BY <3>2, <3>5
        <5> QED BY SMTT(60), <5>1, <5>2, <5>3, <5>4, <3>2, <1>3
      <4> QED BY <4>1, <4>2, <3>2, <3>5
    <3>7. \A id \in 1 .. n :
            IsRequest(sent[id]) => \E k \in 1 .. Len(out') : out'[k] = Response(id)
      BY <3>2, <3>4, <3>5, <1>3
    <3> QED BY <3>6, <3>7, <1>2 DEF Answered
  <2>2. CASE ~Writable
    <3>1. out' = out /\ handler'.at = "ended"
      BY <2>2 DEF Respond, EndSession
    <3> QED BY <3>1, <1>2, <1>3 DEF IInv, Answered
  <2> QED BY <2>1, <2>2
<1> QED BY <1>2, <1>4, <1>5

\* A message that needs no response is handled as it is.
LEMMA SilentStep ==
  ASSUME IInv, UNCHANGED <<sent, stream, streamEnd, reader, posted, input, out>>, Busy,
         ~IsRequest(handler.message) \/ handler'.at = "ended",
         handler' = [at |-> "ready"] \/ handler' = [at |-> "ended"]
  PROVE  InTransit' /\ Answered' /\ Ended'
<1>1. InTransit' /\ HandledCount' = HandledCount + 1 /\ HandledCount' = TakenCount
  BY HandlerStep
<1>2. HandledCount \in Nat
  BY Counts DEF Counters
<1>3. Ended'
  BY DEF IInv, Ended
<1>4. handler.message = sent[HandledCount + 1]
  BY <1>1 DEF IInv, InTransit, AtHandler
<1>5. Answered'
  <2>1. ASSUME handler'.at # "ended", NEW id \in 1 .. HandledCount', IsRequest(sent[id])
        PROVE  \E k \in 1 .. Len(out) : out[k] = Response(id)
    <3>1. id \in 1 .. HandledCount
      BY <1>1, <1>2, <1>4, <2>1
    <3>2. handler.at # "ended"
      BY DEF Busy
    <3> QED BY <2>1, <3>1, <3>2 DEF IInv, Answered
  <2>2. \A n \in 1 .. HandledCount : n \in 1 .. HandledCount'
    BY <1>1, <1>2
  <2> QED BY <2>1, <2>2 DEF IInv, Answered
<1> QED BY <1>1, <1>3, <1>5

\* Another frame, not a response, changes nothing of what is answered.
LEMMA FrameStep ==
  ASSUME IInv, UNCHANGED <<sent, stream, reader, posted, input, handler>>,
         NEW what \in {"ready", "heartbeat"}, out' = Append(out, [what |-> what])
  PROVE  Answered'
<1>1. /\ Len(out) \in Nat /\ Len(out') = Len(out) + 1
      /\ out'[Len(out) + 1] = [what |-> what]
      /\ \A j \in 1 .. Len(out) : out'[j] = out[j]
  BY DEF IInv, TypeOK
<1>2. HandledCount' = HandledCount
  BY DEF HandledCount, TakenCount, QueuedCount, ReadCount, Pushes, Busy
<1>3. \A j \in 1 .. Len(out') : out'[j].what = "response" => j \in 1 .. Len(out)
  BY <1>1
<1>4. \A j \in 1 .. Len(out) : \A k \in 1 .. j : k \in 1 .. Len(out)
  BY <1>1
<1>5. \A j \in 1 .. Len(out) : out[j].what = "response" => out[j] # [what |-> what]
  OBVIOUS
<1>6. \A k \in 1 .. Len(out') : k \in 1 .. Len(out) \/ out'[k] = [what |-> what]
  BY <1>1
<1> QED BY <1>1, <1>2, <1>3, <1>4, <1>5, <1>6 DEF IInv, Answered

-----------------------------------------------------------------------------
(* The messages on their way. *)

\* What InTransit, Ended and Answered speak of.
transitVars == <<sent, stream, streamEnd, reader, posted, input, handler, out>>

LEMMA NotInTransit ==
  ASSUME IInv, UNCHANGED transitVars
  PROVE  InTransit' /\ Ended' /\ Answered'
<1>1. UNCHANGED <<Pushes, ReadCount, QueuedCount, TakenCount, HandledCount, Busy>>
  BY DEF transitVars, Pushes, ReadCount, QueuedCount, TakenCount, HandledCount, Busy
<1>2. UNCHANGED <<sent, stream, streamEnd, reader, posted, input, handler, out>>
  BY DEF transitVars
<1>3. InTransit'
  BY <1>1, <1>2 DEF IInv, InTransit, Numbered, InStream, InPosted, InQueue, AtHandler
<1>4. Ended'
  BY <1>2 DEF IInv, Ended
<1>5. Answered'
  BY <1>1, <1>2 DEF IInv, Answered
<1> QED BY <1>3, <1>4, <1>5

\* While nothing is answered or handled, the messages handled stay the same.
LEMMA SameHandled ==
  ASSUME IInv, UNCHANGED <<out, handler>>, HandledCount' = HandledCount,
         \A i \in 1 .. HandledCount : sent'[i] = sent[i]
  PROVE  Answered'
<1>1. HandledCount \in Nat
  BY Counts DEF Counters
<1>2. \A j \in 1 .. Len(out) : out[j].what = "response" =>
        \A id \in 1 .. out[j].id - 1 : id \in 1 .. HandledCount
  BY <1>1 DEF IInv, Answered
<1> QED BY <1>2 DEF IInv, Answered

LEMMA ClientSendsStep ==
  ASSUME IInv, NEW kind \in Kinds, ClientSends(kind)
  PROVE  InTransit' /\ Ended' /\ Answered'
<1>0. TypeOK /\ InTransit /\ Ended /\ Answered
  BY DEF IInv
<1>1. Lengths /\ Counters /\ Consecutive
  BY Counts
<1>2. sent' = Append(sent, [kind |-> kind, id |-> Len(sent) + 1])
      /\ stream' = Append(stream, [kind |-> kind, id |-> Len(sent) + 1])
      /\ streamEnd = "open" /\ UNCHANGED <<streamEnd, reader, posted, input, handler, out>>
  BY DEF ClientSends
<1>3. sent \in Seq(Message) /\ stream \in Seq(Message)
  BY <1>0 DEF TypeOK
<1>4. Len(sent') = Len(sent) + 1 /\ Len(stream') = Len(stream) + 1
  BY <1>2, <1>3
<1>5. /\ sent'[Len(sent) + 1].id = Len(sent) + 1
      /\ stream'[Len(stream) + 1] = sent'[Len(sent) + 1]
      /\ \A i \in 1 .. Len(sent) : sent'[i] = sent[i]
      /\ \A i \in 1 .. Len(stream) : stream'[i] = stream[i]
  BY <1>2, <1>3
<1>6. ReadCount' = ReadCount
  BY <1>1, <1>4 DEF ReadCount, Lengths
<1>7. Pushes' = Pushes /\ QueuedCount' = QueuedCount
      /\ TakenCount' = TakenCount /\ HandledCount' = HandledCount /\ Busy' = Busy
  BY <1>2, <1>6 DEF Pushes, QueuedCount, TakenCount, HandledCount, Busy
<1>8. InTransit'
  <2>1. Numbered'
    BY <1>0, <1>1, <1>4, <1>5 DEF InTransit, Numbered, Lengths
  <2>2. InStream'
    <3>1. ASSUME NEW i \in 1 .. Len(stream') PROVE stream'[i] = sent'[ReadCount + i]
      <4>1. i \in 1 .. Len(stream) \/ i = Len(stream) + 1
        BY <1>1, <1>4 DEF Lengths, Counters, Consecutive
      <4>2. CASE i \in 1 .. Len(stream)
        <5>1. ReadCount + i \in 1 .. Len(sent)
          BY <1>1, <4>2 DEF Lengths, Counters, Consecutive
        <5>2. stream[i] = sent[ReadCount + i]
          BY <1>0, <4>2 DEF InTransit, InStream
        <5> QED BY <1>5, <4>2, <5>1, <5>2
      <4>3. CASE i = Len(stream) + 1
        <5>1. ReadCount + i = Len(sent) + 1
          <6>1. ReadCount + Len(stream) = Len(sent)
            BY <1>1 DEF Consecutive
          <6> QED BY <1>1, <4>3, <6>1 DEF Lengths, Counters
        <5> QED BY <1>5, <4>3, <5>1
      <4> QED BY <4>1, <4>2, <4>3
    <3> QED BY <3>1, <1>6 DEF InStream
  <2>3. InPosted'
    <3>1. \A i \in 1 .. Pushes : QueuedCount + i \in 1 .. Len(sent)
      BY <1>1 DEF Lengths, Counters, Consecutive
    <3> QED BY <1>0, <1>2, <1>5, <1>7, <3>1 DEF InTransit, InPosted
  <2>4. InQueue'
    <3>1. \A i \in 1 .. Len(input.messages) : TakenCount + i \in 1 .. Len(sent)
      BY <1>1 DEF Lengths, Counters, Consecutive
    <3> QED BY <1>0, <1>2, <1>5, <1>7, <3>1 DEF InTransit, InQueue
  <2>5. AtHandler'
    <3>1. Busy => TakenCount \in 1 .. Len(sent)
      BY <1>1 DEF Lengths, Counters, Consecutive
    <3> QED BY <1>0, <1>2, <1>5, <1>7, <3>1 DEF InTransit, AtHandler
  <2> QED BY <1>0, <1>7, <2>1, <2>2, <2>3, <2>4, <2>5 DEF InTransit
<1>9. Ended'
  BY <1>0, <1>2 DEF Ended
<1>10. Answered'
  <2>1. \A i \in 1 .. HandledCount : i \in 1 .. Len(sent)
    BY <1>1 DEF Lengths, Counters, Consecutive
  <2> QED BY <1>2, <1>5, <1>7, <2>1, SameHandled
<1> QED BY <1>8, <1>9, <1>10

LEMMA ReaderReadsStep ==
  ASSUME IInv, ReaderReads
  PROVE  InTransit' /\ Ended' /\ Answered'
<1>0. TypeOK /\ InTransit /\ Ended /\ Answered
  BY DEF IInv
<1>1. Lengths /\ Counters /\ Consecutive
  BY Counts
<1>2. /\ reader = "reading" /\ stream # << >>
      /\ posted' = Append(posted, [op |-> "push", message |-> Head(stream)])
      /\ stream' = Tail(stream)
      /\ UNCHANGED <<sent, streamEnd, reader, input, handler, out>>
  BY DEF ReaderReads
<1>3. stream \in Seq(Message) /\ posted \in Seq(Posted)
  BY <1>0 DEF TypeOK
<1>4. Len(stream') = Len(stream) - 1 /\ Len(stream) > 0 /\ Len(posted') = Len(posted) + 1
  BY <1>2, <1>3
<1>5. \A i \in 1 .. Len(stream') : stream'[i] = stream[i + 1]
  BY <1>2, <1>3
<1>6. /\ posted'[Len(posted) + 1] = [op |-> "push", message |-> stream[1]]
      /\ \A i \in 1 .. Len(posted) : posted'[i] = posted[i]
  BY <1>2, <1>3
<1>7. Pushes = Len(posted) /\ Pushes' = Pushes + 1
  BY <1>1, <1>2, <1>4 DEF Pushes, Lengths
<1>8. ReadCount' = ReadCount + 1
  BY <1>1, <1>2, <1>4 DEF ReadCount, Lengths
<1>9. QueuedCount' = QueuedCount
  BY <1>1, <1>7, <1>8 DEF QueuedCount, Counters
<1>10. TakenCount' = TakenCount /\ HandledCount' = HandledCount /\ Busy' = Busy
  BY <1>2, <1>9 DEF TakenCount, HandledCount, Busy
<1>11. InTransit'
  <2>1. InStream'
    <3>1. ASSUME NEW i \in 1 .. Len(stream') PROVE stream'[i] = sent[ReadCount' + i]
      <4>1. i + 1 \in 1 .. Len(stream)
        BY <1>1, <1>4 DEF Lengths
      <4>3. ReadCount + (i + 1) = ReadCount' + i
        BY <1>1, <1>8 DEF Counters
      <4>2. stream[i + 1] = sent[ReadCount + (i + 1)]
        BY <1>0, <4>1 DEF InTransit, InStream
      <4> QED BY <1>5, <4>2, <4>3
    <3> QED BY <3>1, <1>2 DEF InStream
  <2>2. InPosted'
    <3>1. stream[1] = sent[QueuedCount + (Pushes + 1)]
      <4>1. 1 \in 1 .. Len(stream)
        BY <1>1, <1>4 DEF Lengths
      <4>2. ReadCount + 1 = QueuedCount + (Pushes + 1)
        <5>1. ReadCount = QueuedCount + Pushes
          BY <1>1 DEF Consecutive
        <5> QED BY <1>1, <5>1 DEF Counters
      <4> QED BY <1>0, <4>1, <4>2 DEF InTransit, InStream
    <3>2. ASSUME NEW i \in 1 .. Pushes'
          PROVE  posted'[i] = [op |-> "push", message |-> sent[QueuedCount + i]]
      <4>1. i \in 1 .. Pushes \/ i = Pushes + 1
        BY <1>1, <1>7 DEF Lengths, Counters, Consecutive
      <4>2. CASE i \in 1 .. Pushes
        BY <1>0, <1>6, <1>7, <4>2 DEF InTransit, InPosted
      <4>3. CASE i = Pushes + 1
        BY <1>6, <1>7, <3>1, <4>3
      <4> QED BY <4>1, <4>2, <4>3
    <3>3. \A i \in 1 .. Len(posted') : ~ (i > Pushes')
      BY <1>1, <1>4, <1>7 DEF Lengths, Counters, Consecutive
    <3> QED BY <1>2, <1>9, <3>2, <3>3 DEF InPosted
  <2>3. Numbered' /\ InQueue' /\ AtHandler'
    BY <1>0, <1>2, <1>10 DEF InTransit, Numbered, InQueue, AtHandler
  <2>4. Pushes' >= 0
    BY <1>1, <1>7 DEF Lengths, Counters, Consecutive
  <2> QED BY <1>0, <1>10, <2>1, <2>2, <2>3, <2>4 DEF InTransit
<1>12. Ended'
  BY <1>0, <1>2 DEF Ended
<1>13. Answered'
  BY <1>2, <1>10, SameHandled
<1> QED BY <1>11, <1>12, <1>13

LEMMA ReaderEndsStep ==
  ASSUME IInv, ReaderEnds
  PROVE  InTransit' /\ Ended' /\ Answered'
<1>0. TypeOK /\ InTransit /\ Ended /\ Answered /\ Lengths
  BY Counts DEF IInv
<1>1. /\ reader = "reading" /\ stream = << >> /\ streamEnd # "open" /\ reader' = "done"
      /\ posted' = Append(posted, [op |-> IF streamEnd = "eof" THEN "close" ELSE "fail"])
      /\ UNCHANGED <<sent, stream, streamEnd, input, handler, out>>
  BY DEF ReaderEnds, clientVars
<1>2. /\ Len(posted') = Len(posted) + 1
      /\ posted'[Len(posted) + 1].op # "push"
      /\ \A i \in 1 .. Len(posted) : posted'[i] = posted[i]
  BY <1>0, <1>1 DEF TypeOK
<1>3. ~input.closed
  BY <1>0, <1>1 DEF Ended
<1>4. Pushes = Len(posted) /\ Pushes' = Pushes
  BY <1>0, <1>1, <1>2, <1>3 DEF Pushes, Lengths
<1>5. ReadCount' = ReadCount /\ QueuedCount' = QueuedCount
      /\ TakenCount' = TakenCount /\ HandledCount' = HandledCount /\ Busy' = Busy
  BY <1>1, <1>4 DEF ReadCount, QueuedCount, TakenCount, HandledCount, Busy
<1>6. InTransit'
  <2>1. InPosted'
    BY <1>0, <1>1, <1>2, <1>4, <1>5 DEF InTransit, InPosted
  <2>2. Numbered' /\ InStream' /\ InQueue' /\ AtHandler'
    BY <1>0, <1>1, <1>5 DEF InTransit, Numbered, InStream, InQueue, AtHandler
  <2> QED BY <1>0, <1>4, <1>5, <2>1, <2>2 DEF InTransit
<1>7. Ended'
  BY <1>0, <1>1, <1>3 DEF Ended
<1>8. Answered'
  BY <1>1, <1>5, SameHandled
<1> QED BY <1>6, <1>7, <1>8

\* A signal only wakes the handler.
LEMMA SignalFacts ==
  ASSUME IInv, Signal
  PROVE  /\ Busy' = Busy
         /\ handler'.at = "ended" <=> handler.at = "ended"
         /\ handler'.at = "awaiting" <=> handler.at = "awaiting"
         /\ Busy => handler' = handler
BY DEF Signal, Busy

LEMMA RunPostedStep ==
  ASSUME IInv, RunPosted
  PROVE  InTransit' /\ Ended' /\ Answered'
<1>0. TypeOK /\ InTransit /\ Ended /\ Answered
  BY DEF IInv
<1>1. Lengths /\ Counters /\ Consecutive
  BY Counts
<1>2. posted # << >> /\ posted' = Tail(posted)
      /\ UNCHANGED <<sent, stream, streamEnd, reader, out>>
  BY DEF RunPosted, clientVars
<1>3. posted \in Seq(Posted) /\ input.messages \in Seq(Message)
  BY <1>0 DEF TypeOK
<1>4. Len(posted') = Len(posted) - 1 /\ Len(posted) > 0
  BY <1>2, <1>3
<1>5. \A i \in 1 .. Len(posted') : posted'[i] = posted[i + 1]
  BY <1>2, <1>3
<1>6. ~input.closed
  BY <1>0, <1>2 DEF Ended
<1>7. /\ reader = "done" => Pushes = Len(posted) - 1
      /\ reader # "done" => Pushes = Len(posted)
  BY <1>1, <1>6 DEF Pushes, Lengths
<1>8. ReadCount' = ReadCount
  BY <1>2 DEF ReadCount
<1>9. CASE Head(posted).op = "push"
  <2>1. /\ input' = [input EXCEPT !.messages = Append(@, Head(posted).message)]
        /\ Signal
    BY <1>9, <1>6 DEF RunPosted
  <2>2. Pushes > 0 /\ Head(posted).message = sent[QueuedCount + 1]
    <3>1. 1 \in 1 .. Len(posted) /\ Head(posted) = posted[1]
      BY <1>2, <1>3
    <3>2. Pushes > 0
      <4>1. ~ (1 > Pushes)
        BY <1>0, <1>9, <3>1 DEF InTransit, InPosted
      <4> QED BY <4>1, <1>1 DEF Lengths, Counters, Consecutive
    <3>3. posted[1] = [op |-> "push", message |-> sent[QueuedCount + 1]]
      <4>1. 1 \in 1 .. Pushes
        BY <3>2, <1>1 DEF Lengths, Counters, Consecutive
      <4> QED BY <1>0, <4>1 DEF InTransit, InPosted
    <3> QED BY <3>1, <3>2, <3>3
  <2>3. input'.messages = Append(input.messages, Head(posted).message)
        /\ input'.closed = input.closed
    BY <1>0, <2>1 DEF TypeOK
  <2>4. Len(input'.messages) = Len(input.messages) + 1
    BY <1>3, <2>3
  <2>5. /\ input'.messages[Len(input.messages) + 1] = sent[QueuedCount + 1]
        /\ \A i \in 1 .. Len(input.messages) : input'.messages[i] = input.messages[i]
    BY <1>3, <2>2, <2>3
  <2>6. Pushes' = Pushes - 1
    <3>1. Len(posted') - (IF reader' = "done" /\ ~input'.closed THEN 1 ELSE 0)
            = Len(posted) - (IF reader = "done" THEN 1 ELSE 0) - 1
      BY <1>1, <1>2, <1>4, <1>6, <2>3 DEF Lengths
    <3> QED BY <3>1, <1>1, <1>7 DEF Pushes, Lengths
  <2>7. QueuedCount' = QueuedCount + 1
    BY <1>1, <1>8, <2>6 DEF QueuedCount, Counters
  <2>8. TakenCount' = TakenCount
    BY <1>1, <2>4, <2>7 DEF TakenCount, Lengths, Counters
  <2>9. Busy' = Busy /\ HandledCount' = HandledCount
    BY <2>1, <2>8, SignalFacts DEF HandledCount
  <2>10. InTransit'
    <3>1. ASSUME NEW i \in 1 .. Pushes'
          PROVE  posted'[i] = [op |-> "push", message |-> sent[QueuedCount' + i]]
      <4>1. i + 1 \in 1 .. Pushes /\ i \in 1 .. Len(posted')
            /\ QueuedCount' + i = QueuedCount + (i + 1)
        <5>1. i \in 1 .. Len(posted')
          BY <1>1, <1>4, <1>7, <2>6 DEF Lengths
        <5>2. i + 1 \in 1 .. Pushes
          BY <1>1, <2>6 DEF Counters
        <5>3. QueuedCount' + i = QueuedCount + (i + 1)
          BY <1>1, <2>7, <5>2 DEF Counters
        <5> QED BY <5>1, <5>2, <5>3
      <4>2. posted[i + 1] = [op |-> "push", message |-> sent[QueuedCount + (i + 1)]]
        BY <1>0, <4>1 DEF InTransit, InPosted
      <4> QED BY <1>5, <4>1, <4>2
    <3>2. ASSUME NEW i \in 1 .. Len(posted'), i > Pushes'
          PROVE  posted'[i].op # "push"
      <4>1. i + 1 \in 1 .. Len(posted) /\ i + 1 > Pushes
        BY <1>1, <1>4, <2>6, <3>2 DEF Lengths, Counters, Consecutive
      <4> QED BY <1>0, <1>5, <4>1 DEF InTransit, InPosted
    <3>3. InPosted'
      BY <1>2, <3>1, <3>2 DEF InPosted
    <3>4. ASSUME NEW i \in 1 .. Len(input'.messages)
          PROVE  input'.messages[i] = sent[TakenCount + i]
      <4>1. \/ i \in 1 .. Len(input.messages)
            \/ i = Len(input.messages) + 1 /\ TakenCount + i = QueuedCount + 1
        <5>1. TakenCount + (Len(input.messages) + 1) = QueuedCount + 1
          BY <1>1 DEF Lengths, Counters, Consecutive
        <5>2. i \in 1 .. Len(input.messages) \/ i = Len(input.messages) + 1
          BY <1>1, <2>4 DEF Lengths
        <5> QED BY <5>1, <5>2
      <4> QED BY <1>0, <2>5, <4>1 DEF InTransit, InQueue
    <3>5. InQueue'
      BY <1>2, <2>8, <3>4 DEF InQueue
    <3>6. Numbered' /\ InStream'
      BY <1>0, <1>2, <1>8 DEF InTransit, Numbered, InStream
    <3>7. AtHandler'
      BY <1>0, <1>2, <2>1, <2>8, <2>9, SignalFacts DEF InTransit, AtHandler
    <3>8. Pushes' >= 0 /\ HandledCount' >= 0
      BY <1>1, <2>2, <2>6, <2>9 DEF Lengths, Counters, Consecutive
    <3> QED BY <3>3, <3>5, <3>6, <3>7, <3>8 DEF InTransit
  <2>11. Ended'
    BY <1>0, <1>2, <1>6, <2>1, <2>3, SignalFacts DEF Ended, Busy
  <2>12. Answered'
    BY <1>0, <1>2, <2>1, <2>9, SignalFacts DEF Answered
  <2> QED BY <2>10, <2>11, <2>12
<1>10. CASE Head(posted).op # "push"
  <2>1. /\ input' = [input EXCEPT !.closed = TRUE, !.error = @ \/ Head(posted).op = "fail"]
        /\ Signal
    BY <1>10 DEF RunPosted
  <2>2. input'.messages = input.messages /\ input'.closed
    BY <1>0, <2>1 DEF TypeOK
  <2>3. reader = "done" /\ Len(posted) = 1 /\ Pushes = 0
    <3>1. Pushes = 0
      <4>1. posted[1].op # "push"
        BY <1>2, <1>3, <1>10
      <4>2. 1 \notin 1 .. Pushes
        <5>1. ASSUME 1 \in 1 .. Pushes PROVE posted[1].op = "push"
          <6>1. posted[1] = [op |-> "push", message |-> sent[QueuedCount + 1]]
            BY <1>0, <5>1 DEF InTransit, InPosted
          <6> QED BY <6>1
        <5> QED BY <4>1, <5>1
      <4> QED BY <4>2, <1>1 DEF Lengths, Counters, Consecutive
    <3> QED BY <3>1, <1>1, <1>4, <1>7 DEF Lengths, Counters, Consecutive
  <2>4. posted' = << >>
    <3>1. posted' \in Seq(Posted) /\ Len(posted') = 0
      BY <1>2, <1>3, <1>4, <2>3
    <3> QED BY <3>1
  <2>5. Pushes' = 0
    BY <1>2, <1>4, <2>2, <2>3 DEF Pushes
  <2>6. QueuedCount' = QueuedCount
    BY <1>8, <2>3, <2>5 DEF QueuedCount
  <2>7. TakenCount' = TakenCount
    BY <2>2, <2>6 DEF TakenCount
  <2>8. Busy' = Busy /\ HandledCount' = HandledCount
    BY <2>1, <2>7, SignalFacts DEF HandledCount
  <2>9. InTransit'
    <3>1. InPosted'
      BY <2>4, <2>5 DEF InPosted
    <3>2. Numbered' /\ InStream' /\ InQueue'
      BY <1>0, <1>2, <1>8, <2>2, <2>7 DEF InTransit, Numbered, InStream, InQueue
    <3>3. AtHandler'
      BY <1>0, <1>2, <2>1, <2>7, <2>8, SignalFacts DEF InTransit, AtHandler
    <3>4. Pushes' >= 0 /\ HandledCount' >= 0
      BY <1>0, <2>5, <2>8 DEF InTransit
    <3> QED BY <3>1, <3>2, <3>3, <3>4 DEF InTransit
  <2>10. Ended'
    BY <1>0, <1>2, <2>1, <2>2, <2>3, <2>4, SignalFacts DEF Ended, Busy
  <2>11. Answered'
    BY <1>0, <1>2, <2>1, <2>8, SignalFacts DEF Answered
  <2> QED BY <2>9, <2>10, <2>11
<1> QED BY <1>9, <1>10

LEMMA TakeMessageStep ==
  ASSUME IInv, TakeMessage
  PROVE  InTransit' /\ Ended' /\ Answered'
<1>0. TypeOK /\ InTransit /\ Ended /\ Answered
  BY DEF IInv
<1>1. Lengths /\ Counters /\ Consecutive
  BY Counts
<1>2. handler.at = "ready" /\ UNCHANGED <<sent, stream, streamEnd, reader, posted, out>>
      /\ ~Busy
  BY DEF TakeMessage, clientVars, Busy
<1>3. input.messages \in Seq(Message)
  BY <1>0 DEF TypeOK
<1>4. ReadCount' = ReadCount
  BY <1>2 DEF ReadCount
<1>5. CASE input.messages # << >>
  <2>1. /\ handler' = [at |-> "handling", message |-> Head(input.messages)]
        /\ input' = [input EXCEPT !.messages = Tail(@)]
    BY <1>5 DEF TakeMessage
  <2>2. input'.messages = Tail(input.messages) /\ input'.closed = input.closed
    BY <1>0, <2>1 DEF TypeOK
  <2>3. Len(input'.messages) = Len(input.messages) - 1 /\ Len(input.messages) > 0
    BY <1>3, <1>5, <2>2
  <2>4. Head(input.messages) = input.messages[1]
        /\ \A i \in 1 .. Len(input'.messages) : input'.messages[i] = input.messages[i + 1]
    BY <1>3, <1>5, <2>2
  <2>5. Pushes' = Pushes /\ QueuedCount' = QueuedCount
    BY <1>2, <1>4, <2>2 DEF Pushes, QueuedCount
  <2>6. TakenCount' = TakenCount + 1
    BY <1>1, <2>3, <2>5 DEF TakenCount, Lengths, Counters
  <2>7. Busy' /\ HandledCount' = HandledCount
    <3>1. Busy'
      BY <2>1 DEF Busy
    <3>2. HandledCount' = TakenCount' - 1
      BY <3>1 DEF HandledCount
    <3> QED BY <1>1, <1>2, <2>6, <3>1, <3>2 DEF Lengths, Counters, Consecutive
  <2>8. InTransit'
    <3>1. ASSUME NEW i \in 1 .. Len(input'.messages)
          PROVE  input'.messages[i] = sent[TakenCount' + i]
      <4>1. i + 1 \in 1 .. Len(input.messages) /\ TakenCount' + i = TakenCount + (i + 1)
        BY <1>1, <2>3, <2>6 DEF Lengths, Counters, Consecutive
      <4>2. input.messages[i + 1] = sent[TakenCount + (i + 1)]
        BY <1>0, <4>1 DEF InTransit, InQueue
      <4> QED BY <2>4, <4>1, <4>2
    <3>2. InQueue'
      BY <1>2, <3>1 DEF InQueue
    <3>3. AtHandler'
      <4>1. 1 \in 1 .. Len(input.messages)
        BY <1>1, <2>3 DEF Lengths, Counters, Consecutive
      <4>2. input.messages[1] = sent[TakenCount']
        BY <1>0, <2>6, <4>1 DEF InTransit, InQueue
      <4> QED BY <1>2, <2>1, <2>4, <4>2 DEF AtHandler
    <3>4. Numbered' /\ InStream' /\ InPosted'
      BY <1>0, <1>2, <1>4, <2>5 DEF InTransit, Numbered, InStream, InPosted
    <3> QED BY <1>0, <2>5, <2>7, <3>2, <3>3, <3>4 DEF InTransit
  <2>9. Ended'
    BY <1>0, <1>2, <2>1, <2>2 DEF Ended
  <2>10. Answered'
    BY <1>0, <1>2, <2>1, <2>7 DEF Answered
  <2> QED BY <2>8, <2>9, <2>10
<1>6. CASE input.messages = << >>
  <2>1. input' = input /\ (handler' = [at |-> "ended"] \/ handler' = [at |-> "waiting"])
    BY <1>6 DEF TakeMessage, EndSession
  <2>2. Pushes' = Pushes /\ QueuedCount' = QueuedCount /\ TakenCount' = TakenCount /\ ~Busy'
    BY <1>2, <1>4, <2>1 DEF Pushes, QueuedCount, TakenCount, Busy
  <2>3. HandledCount' = HandledCount
    BY <1>2, <2>2 DEF HandledCount
  <2>4. InTransit'
    BY <1>0, <1>2, <1>4, <2>1, <2>2, <2>3
       DEF InTransit, Numbered, InStream, InPosted, InQueue, AtHandler
  <2>5. Ended' /\ Answered'
    BY <1>0, <1>2, <2>1, <2>3 DEF Ended, Answered
  <2> QED BY <2>4, <2>5
<1> QED BY <1>5, <1>6

LEMMA HandlePooledStep ==
  ASSUME IInv, HandlePooled
  PROVE  InTransit' /\ Ended' /\ Answered'
<1>1. /\ Busy /\ Busy' /\ handler'.message = handler.message
      /\ handler'.at = "awaiting" /\ handler.message.kind = "pooled"
      /\ UNCHANGED <<sent, stream, streamEnd, reader, posted, input, out>>
  BY BusyMessage DEF IInv, HandlePooled, Handling, Busy, clientVars
<1>2. Pushes' = Pushes /\ ReadCount' = ReadCount /\ QueuedCount' = QueuedCount
      /\ TakenCount' = TakenCount /\ HandledCount' = HandledCount
  BY <1>1 DEF Pushes, ReadCount, QueuedCount, TakenCount, HandledCount
<1>3. InTransit'
  BY <1>1, <1>2 DEF IInv, InTransit, Numbered, InStream, InPosted, InQueue, AtHandler
<1>4. Ended'
  BY <1>1 DEF IInv, Ended
<1>5. Answered'
  BY <1>1, <1>2 DEF IInv, Answered, Busy
<1> QED BY <1>3, <1>4, <1>5

-----------------------------------------------------------------------------
(* Types, and the notifications. *)

\* What the actions of the session's handler leave to the other parts.
LEMMA RespondTypes ==
  ASSUME TypeOK, NEW id \in Nat, Respond(id)
  PROVE  /\ out' \in Seq(Frame) /\ isOpen' \in BOOLEAN
         /\ handler' \in [at : {"ready", "waiting", "ended"}]
         /\ \A j \in 1 .. Len(out') :
              (j \in 1 .. Len(out) /\ out'[j] = out[j]) \/ out'[j].what = "response"
<1>1. out \in Seq(Frame) /\ isOpen \in BOOLEAN
  BY DEF TypeOK
<1>2. CASE Writable
  <2>1. out' = Append(out, Response(id)) /\ handler' = [at |-> "ready"] /\ isOpen' = isOpen
    BY <1>2 DEF Respond
  <2>2. Response(id) \in Frame /\ Response(id).what = "response"
    BY DEF Response, Frame
  <2>3. Len(out') = Len(out) + 1 /\ out' \in Seq(Frame)
        /\ out'[Len(out) + 1] = Response(id) /\ \A j \in 1 .. Len(out) : out'[j] = out[j]
    BY <1>1, <2>1, <2>2
  <2>4. \A j \in 1 .. Len(out') : j \in 1 .. Len(out) \/ j = Len(out) + 1
    BY <1>1, <2>3
  <2> QED BY <1>1, <2>1, <2>2, <2>3, <2>4
<1>3. CASE ~Writable
  <2>1. out' = out /\ handler' = [at |-> "ended"] /\ isOpen' = FALSE
    BY <1>3 DEF Respond, EndSession
  <2> QED BY <1>1, <2>1
<1> QED BY <1>2, <1>3

LEMMA TypeStep ==
  ASSUME IInv, [Next]_vars
  PROVE  TypeOK'
<1>0. TypeOK /\ Noticed
  BY DEF IInv
<1>1. ASSUME NEW kind \in Kinds, ClientSends(kind) PROVE TypeOK'
  <2>1. [kind |-> kind, id |-> Len(sent) + 1] \in Message
    BY <1>0, SessionAssumption DEF TypeOK, Message
  <2> QED BY <1>0, <1>1, <2>1 DEF TypeOK, ClientSends
<1>2. CASE ClientStopsReading \/ \E how \in {"eof", "error"} : ClientEnds(how)
  BY <1>0, <1>2 DEF TypeOK, ClientStopsReading, ClientEnds
<1>3. CASE Reader
  <2>1. stream \in Seq(Message) /\ posted \in Seq(Posted)
    BY <1>0 DEF TypeOK
  <2>2. CASE ReaderReads
    <3>1. /\ stream # << >> /\ stream' = Tail(stream)
          /\ posted' = Append(posted, [op |-> "push", message |-> Head(stream)])
          /\ UNCHANGED <<sent, streamEnd, stdout, reader, input, handler, isOpen, ready,
                         notices, rebuilt, beats, out, owed>>
      BY <2>2 DEF ReaderReads
    <3>2. Head(stream) \in Message /\ stream' \in Seq(Message)
      BY <2>1, <3>1
    <3>3. [op |-> "push", message |-> Head(stream)] \in Posted
      BY <3>2 DEF Posted
    <3>4. posted' \in Seq(Posted)
      BY <2>1, <3>1, <3>3
    <3> QED BY <1>0, <3>1, <3>2, <3>4 DEF TypeOK
  <2>3. CASE ReaderEnds
    <3>1. \A op \in {"close", "fail"} : [op |-> op] \in Posted
      BY DEF Posted
    <3>2. posted' \in Seq(Posted)
      BY <2>1, <2>3, <3>1 DEF ReaderEnds
    <3> QED BY <1>0, <2>3, <3>2 DEF TypeOK, ReaderEnds, clientVars
  <2> QED BY <1>3, <2>2, <2>3 DEF Reader
<1>4. CASE RunPosted
  <2>1. /\ posted # << >> /\ posted' = Tail(posted)
        /\ UNCHANGED <<clientVars, reader, isOpen, ready, notices, rebuilt, beats, out, owed>>
    BY <1>4 DEF RunPosted
  <2>2. Head(posted) \in Posted /\ posted' \in Seq(Posted)
    BY <1>0, <2>1 DEF TypeOK
  <2>3. input' \in [messages : Seq(Message), closed : BOOLEAN, error : BOOLEAN]
        /\ (handler' = handler \/ handler' = [at |-> "ready"])
    <3>1. input \in [messages : Seq(Message), closed : BOOLEAN, error : BOOLEAN]
      BY <1>0 DEF TypeOK
    <3>2. CASE Head(posted).op = "push"
      <4>1. Head(posted).message \in Message
        BY <2>2, <3>2 DEF Posted
      <4> QED BY SMTT(60), <1>4, <3>1, <3>2, <4>1 DEF RunPosted, Signal
    <3>3. CASE Head(posted).op # "push"
      BY <1>4, <3>1, <3>3 DEF RunPosted, Signal
    <3> QED BY <3>2, <3>3
  <2> QED BY <1>0, <2>1, <2>2, <2>3 DEF TypeOK, clientVars
<1>5. CASE TakeMessage
  <2>1. input \in [messages : Seq(Message), closed : BOOLEAN, error : BOOLEAN]
    BY <1>0 DEF TypeOK
  <2>2. CASE input.messages # << >>
    <3>1. Head(input.messages) \in Message /\ Tail(input.messages) \in Seq(Message)
      BY <2>1, <2>2
    <3>2. handler' \in [at : {"handling", "awaiting"}, message : Message]
      BY <1>5, <2>2, <3>1 DEF TakeMessage
    <3>3. input' \in [messages : Seq(Message), closed : BOOLEAN, error : BOOLEAN]
      BY <1>5, <2>1, <2>2, <3>1 DEF TakeMessage
    <3> QED BY <1>0, <1>5, <2>2, <3>2, <3>3 DEF TypeOK, TakeMessage, clientVars
  <2>3. CASE input.messages = << >>
    <3>1. /\ UNCHANGED <<clientVars, input, reader, posted, ready, notices, rebuilt, beats, out, owed>>
          /\ handler' \in [at : {"ready", "waiting", "ended"}]
          /\ isOpen' = FALSE \/ isOpen' = isOpen
      BY <1>5, <2>3 DEF TakeMessage, EndSession
    <3> QED BY <1>0, <3>1 DEF TypeOK, clientVars
  <2> QED BY <2>2, <2>3
<1>6. CASE HandleRequest \/ PoolAnswers
  <2>1. handler.message.id \in Nat /\ Respond(handler.message.id)
        /\ UNCHANGED <<clientVars, reader, posted, input, ready, notices, rebuilt, beats, owed>>
    BY <1>0, <1>6, BusyMessage DEF HandleRequest, PoolAnswers, Handling, Busy, Message
  <2> QED BY <1>0, <2>1, RespondTypes DEF TypeOK, clientVars
<1>7. CASE HandlePooled
  <2>1. handler' \in [at : {"handling", "awaiting"}, message : Message]
    BY <1>0, <1>7, BusyMessage DEF HandlePooled, Handling, Busy
  <2> QED BY <1>0, <1>7, <2>1 DEF TypeOK, HandlePooled, clientVars
<1>8. CASE HandleSilently
  BY <1>0, <1>8 DEF TypeOK, HandleSilently, clientVars
<1>9. CASE HandleInitialized
  BY <1>0, <1>9 DEF TypeOK, Noticed, HandleInitialized, clientVars
<1>10. CASE HandleExit
  BY <1>0, <1>10 DEF TypeOK, HandleExit, EndSession, clientVars
<1>11. CASE RebuildApplied
  BY <1>0, <1>11 DEF TypeOK, RebuildApplied, clientVars
<1>12. CASE NotifyIndexReady
  <2>1. /\ ready' \in [initialized : BOOLEAN, pending : BOOLEAN]
        /\ rebuilt' = [rebuilt EXCEPT !.telling = @ - 1]
        /\ notices' = notices \/ (ready.initialized /\ notices' = notices + 1)
        /\ UNCHANGED <<clientVars, reader, posted, input, handler, isOpen, beats, out, owed>>
    <3>1. ready \in [initialized : BOOLEAN, pending : BOOLEAN]
      BY <1>0 DEF TypeOK
    <3>2. \/ ready.initialized /\ notices' = notices + 1 /\ ready' = ready
          \/ ready' = [ready EXCEPT !.pending = TRUE] /\ notices' = notices
          \/ ready' = ready /\ notices' = notices
      BY <1>12 DEF NotifyIndexReady, RequestDelivery
    <3>3. ready' \in [initialized : BOOLEAN, pending : BOOLEAN]
      BY <3>1, <3>2
    <3> QED BY <1>12, <3>2, <3>3 DEF NotifyIndexReady
  <2>2. rebuilt \in [applied : Nat, telling : Nat] /\ notices \in Nat /\ rebuilt.telling > 0
    BY <1>0, <1>12 DEF TypeOK, NotifyIndexReady
  <2>3. rebuilt' \in [applied : Nat, telling : Nat] /\ rebuilt'.applied = rebuilt.applied
    BY <2>1, <2>2
  <2>4. notices + rebuilt.telling <= rebuilt.applied
    BY <1>0, <2>2 DEF Noticed
  <2>5. notices' \in 0 .. rebuilt'.applied
    BY <2>1, <2>2, <2>3, <2>4
  <2> QED BY <1>0, <2>1, <2>3, <2>5 DEF TypeOK, clientVars
<1>13. CASE SendIndexReady
  <2>1. [what |-> "ready"] \in Frame
    BY DEF Frame
  <2>2. out' \in Seq(Frame) /\ owed' \in BOOLEAN
    <3>1. out \in Seq(Frame) /\ owed \in BOOLEAN
      BY <1>0 DEF TypeOK
    <3>2. \/ (out' = Append(out, [what |-> "ready"]) /\ owed' = FALSE)
          \/ (out' = out /\ owed' = owed)
      BY <1>13 DEF SendIndexReady
    <3>3. CASE out' = Append(out, [what |-> "ready"]) /\ owed' = FALSE
      <4>1. out' = Append(out, [what |-> "ready"])
        BY <3>3
      <4>2. out' \in Seq(Frame)
        BY <2>1, <3>1, <4>1
      <4> QED BY <3>3, <4>2
    <3> QED BY <3>1, <3>2, <3>3
  <2>3. notices' \in 0 .. rebuilt.applied
    BY <1>0, <1>13 DEF TypeOK, SendIndexReady
  <2> QED BY <1>0, <1>13, <2>2, <2>3 DEF TypeOK, SendIndexReady, clientVars
<1>14. CASE Heartbeat
  BY <1>0, <1>14 DEF TypeOK, Heartbeat, Frame, clientVars
<1>15. CASE UNCHANGED vars
  BY <1>0, <1>15 DEF TypeOK, vars, clientVars
<1> QED BY <1>1, <1>2, <1>3, <1>4, <1>5, <1>6, <1>7, <1>8, <1>9, <1>10, <1>11, <1>12,
           <1>13, <1>14, <1>15 DEF Next, Client, Handler, Notifier

LEMMA NoticeStep ==
  ASSUME IInv, [Next]_vars
  PROVE  Noticed' /\ ReadyAfterInitialized'
<1>0. TypeOK /\ Noticed /\ ReadyAfterInitialized
  BY DEF IInv
<1>1. ASSUME UNCHANGED <<ready, notices, rebuilt, out>> PROVE Noticed' /\ ReadyAfterInitialized'
  BY <1>0, <1>1 DEF Noticed, ReadyAfterInitialized
<1>2. CASE Client \/ Reader \/ RunPosted \/ TakeMessage \/ HandlePooled \/ HandleSilently
             \/ HandleExit \/ UNCHANGED vars
  BY <1>1, <1>2 DEF Client, ClientSends, ClientStopsReading, ClientEnds, Reader, ReaderReads,
       ReaderEnds, RunPosted, TakeMessage, HandlePooled, HandleSilently, HandleExit,
       vars, clientVars
<1>3. CASE HandleRequest \/ PoolAnswers
  <2>1. handler.message.id \in Nat /\ Respond(handler.message.id)
        /\ UNCHANGED <<ready, notices, rebuilt>>
    BY <1>0, <1>3, BusyMessage DEF HandleRequest, PoolAnswers, Handling, Busy, Message
  <2>2. out \in Seq(Frame) /\ out' \in Seq(Frame)
    BY <1>0, <2>1, RespondTypes DEF TypeOK
  <2> QED BY SMTT(60), <1>0, <2>1, <2>2, RespondTypes DEF Noticed, ReadyAfterInitialized
<1>4. CASE HandleInitialized
  BY <1>0, <1>4 DEF TypeOK, Noticed, HandleInitialized, ReadyAfterInitialized
<1>5. CASE RebuildApplied
  BY <1>0, <1>5 DEF TypeOK, Noticed, RebuildApplied, ReadyAfterInitialized
<1>6. CASE NotifyIndexReady
  BY <1>0, <1>6 DEF TypeOK, Noticed, NotifyIndexReady, RequestDelivery, ReadyAfterInitialized
<1>7. CASE SendIndexReady
  BY <1>0, <1>7 DEF TypeOK, Noticed, SendIndexReady, ReadyAfterInitialized
<1>8. CASE Heartbeat
  <2>1. out' = Append(out, [what |-> "heartbeat"]) /\ UNCHANGED <<ready, notices, rebuilt>>
    BY <1>8 DEF Heartbeat
  <2>2. \A j \in DOMAIN out' :
          (j \in DOMAIN out /\ out'[j] = out[j]) \/ out'[j].what = "heartbeat"
    <3>1. out \in Seq(Frame)
      BY <1>0 DEF TypeOK
    <3>2. /\ DOMAIN out' = 1 .. Len(out) + 1 /\ DOMAIN out = 1 .. Len(out)
          /\ out'[Len(out) + 1] = [what |-> "heartbeat"]
          /\ \A j \in 1 .. Len(out) : out'[j] = out[j]
      BY <2>1, <3>1
    <3> QED BY <3>1, <3>2
  <2> QED BY <1>0, <2>1, <2>2 DEF Noticed, ReadyAfterInitialized
<1> QED BY <1>2, <1>3, <1>4, <1>5, <1>6, <1>7, <1>8 DEF Next, Handler, Notifier

-----------------------------------------------------------------------------

LEMMA TransitStep ==
  ASSUME IInv, [Next]_vars
  PROVE  InTransit' /\ Ended' /\ Answered'
<1>1. ASSUME NEW kind \in Kinds, ClientSends(kind) PROVE InTransit' /\ Ended' /\ Answered'
  BY <1>1, ClientSendsStep
<1>2. CASE \E how \in {"eof", "error"} : ClientEnds(how)
  <2>1. /\ UNCHANGED <<sent, stream, reader, posted, input, handler, out>>
        /\ streamEnd' # "open"
    BY <1>2 DEF ClientEnds
  <2>2. UNCHANGED <<Pushes, ReadCount, QueuedCount, TakenCount, HandledCount, Busy>>
    BY <2>1 DEF Pushes, ReadCount, QueuedCount, TakenCount, HandledCount, Busy
  <2>3. InTransit'
    BY <2>1, <2>2 DEF IInv, InTransit, Numbered, InStream, InPosted, InQueue, AtHandler
  <2>4. Ended' /\ Answered'
    BY <2>1, <2>2 DEF IInv, Ended, Answered
  <2> QED BY <2>3, <2>4
<1>3. CASE ClientStopsReading \/ RebuildApplied \/ NotifyIndexReady \/ UNCHANGED vars
  BY <1>3, NotInTransit
     DEF ClientStopsReading, RebuildApplied, NotifyIndexReady, vars, clientVars, transitVars
<1>4. CASE Reader
  BY <1>4, ReaderReadsStep, ReaderEndsStep DEF Reader
<1>5. CASE RunPosted
  BY <1>5, RunPostedStep
<1>6. CASE TakeMessage
  BY <1>6, TakeMessageStep
<1>7. CASE HandlePooled
  BY <1>7, HandlePooledStep
<1>8. CASE HandleRequest \/ PoolAnswers
  <2>1. Busy /\ Respond(handler.message.id)
        /\ UNCHANGED <<sent, stream, streamEnd, reader, posted, input>>
    BY <1>8 DEF HandleRequest, PoolAnswers, Handling, Busy, clientVars
  <2>2. IsRequest(handler.message)
    BY <1>8 DEF HandleRequest, PoolAnswers, Handling, IsRequest, IInv, Ended
  <2> QED BY <2>1, <2>2, RespondStep
<1>9. CASE HandleSilently \/ HandleInitialized \/ HandleExit
  <2>1. Busy /\ ~IsRequest(handler.message)
    BY <1>9 DEF HandleSilently, HandleInitialized, HandleExit, Handling, Busy, IsRequest
  <2>2. UNCHANGED <<sent, stream, streamEnd, reader, posted, input, out>>
    BY <1>9 DEF HandleSilently, HandleInitialized, HandleExit, clientVars
  <2>3. handler' = [at |-> "ready"] \/ handler' = [at |-> "ended"]
    BY <1>9 DEF HandleSilently, HandleInitialized, HandleExit, EndSession
  <2>4. \/ ~IsRequest(handler.message)
        \/ handler'.at = "ended"
    BY <2>1
  <2> QED BY <2>1, <2>2, <2>3, <2>4, SilentStep
<1>10. CASE SendIndexReady \/ Heartbeat
  <2>1. UNCHANGED <<sent, stream, streamEnd, reader, posted, input, handler>>
    BY <1>10 DEF SendIndexReady, Heartbeat, clientVars
  <2>2. UNCHANGED <<Pushes, ReadCount, QueuedCount, TakenCount, HandledCount, Busy>>
    BY <2>1 DEF Pushes, ReadCount, QueuedCount, TakenCount, HandledCount, Busy
  <2>3. InTransit' /\ Ended'
    BY <2>1, <2>2
       DEF IInv, Ended, InTransit, Numbered, InStream, InPosted, InQueue, AtHandler
  <2>4. \/ out' = out
        \/ \E what \in {"ready", "heartbeat"} : out' = Append(out, [what |-> what])
    BY <1>10 DEF SendIndexReady, Heartbeat
  <2>5. CASE out' = out
    BY <2>1, <2>2, <2>3, <2>5 DEF IInv, Answered
  <2> QED BY <2>1, <2>3, <2>4, <2>5, FrameStep
<1> QED BY <1>1, <1>2, <1>3, <1>4, <1>5, <1>6, <1>7, <1>8, <1>9, <1>10
        DEF Next, Client, Handler, Notifier

LEMMA InitIInv == Init => IInv
<1> SUFFICES ASSUME Init PROVE IInv
  OBVIOUS
<1>1. TypeOK /\ Noticed /\ ReadyAfterInitialized /\ Ended
  <2>1. << >> \in Seq(Message) /\ << >> \in Seq(Posted) /\ << >> \in Seq(Frame)
    OBVIOUS
  <2>2. TypeOK
    <3>1. handler \in [at : {"ready", "waiting", "ended"}]
          /\ input \in [messages : Seq(Message), closed : BOOLEAN, error : BOOLEAN]
          /\ ready \in [initialized : BOOLEAN, pending : BOOLEAN]
          /\ rebuilt \in [applied : Nat, telling : Nat] /\ notices \in 0 .. rebuilt.applied
      BY <2>1 DEF Init
    <3> QED BY <2>1, <3>1 DEF Init, TypeOK
  <2>3. Noticed /\ ReadyAfterInitialized /\ Ended
    BY DEF Init, Noticed, ReadyAfterInitialized, Ended
  <2> QED BY <2>2, <2>3
<1>2. Pushes = 0 /\ ReadCount = 0 /\ ~Busy
  BY DEF Init, Pushes, ReadCount, Busy
<1>3. HandledCount = 0
  <2>1. QueuedCount = 0
    BY <1>2 DEF QueuedCount
  <2>2. input.messages = << >>
    BY DEF Init
  <2>3. Len(input.messages) = 0
    BY <2>2
  <2>4. TakenCount = 0
    BY <2>1, <2>3 DEF TakenCount
  <2>5. HandledCount = TakenCount - 0
    BY <1>2 DEF HandledCount
  <2> QED BY <2>4, <2>5
<1>4. InTransit
  BY <1>2, <1>3
     DEF Init, InTransit, Numbered, InStream, InPosted, InQueue, AtHandler
<1>5. Answered
  BY <1>3 DEF Init, Answered
<1> QED BY <1>1, <1>4, <1>5 DEF IInv

\* The inductive invariant.
THEOREM Inductive == Spec => []IInv
<1>1. IInv /\ [Next]_vars => IInv'
  BY TypeStep, NoticeStep, TransitStep DEF IInv
<1> QED BY InitIInv, <1>1, PTL DEF Spec

\* Requests are answered one at a time in the order in which they were sent, none
\* twice and nothing else, however many there are and however the reader, the
\* executor and the pool take turns.
THEOREM RequestsAnsweredInOrder == Spec => []AnswersInOrder
<1>1. ASSUME IInv PROVE AnswersInOrder
  <2>1. Lengths /\ Counters /\ Consecutive
    BY <1>1, Counts
  <2>2. TypeOK /\ Answered
    BY <1>1 DEF IInv
  <2>3. DOMAIN out = 1 .. Len(out) /\ DOMAIN sent = 1 .. Len(sent)
    BY <2>2 DEF TypeOK
  <2>4. \A n \in 1 .. HandledCount : n \in 1 .. Len(sent)
    BY <2>1 DEF Lengths, Counters, Consecutive
  <2> QED BY <2>2, <2>3, <2>4 DEF Answered, AnswersInOrder
<1> QED BY Inductive, <1>1, PTL

\* An index that is ready before the handshake is announced after it, whichever
\* thread comes first.
THEOREM ReadyWaitsForHandshake == Spec => []ReadyAfterInitialized
<1>1. IInv => ReadyAfterInitialized
  BY DEF IInv
<1> QED BY Inductive, <1>1, PTL
=============================================================================
