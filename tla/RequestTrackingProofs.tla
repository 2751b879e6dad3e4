----------------------- MODULE RequestTrackingProofs -----------------------
(***************************************************************************)
(* RequestTracking for any number of callers, requests and replies.        *)
(*                                                                         *)
(* PendingExact is inductive only with the numbering of the ids: a new id  *)
(* exceeds every id in use or on its way, so no reply to an older request  *)
(* can reach a newer one.                                                  *)
(***************************************************************************)
EXTENDS RequestTracking, TLAPS

\* Ids in use or on their way are not above the last one given out.
Numbered ==
  /\ \A c \in Callers : Active(c) => call[c].id <= lastId
  /\ \A r \in sent : r.id <= lastId
  /\ \A i \in 1 .. Len(inbox) : inbox[i] \in sent

\* A reply under the id of a request in progress is a reply to that request.
SentOwn ==
  \A r \in sent, c \in Callers : Active(c) /\ r.id = call[c].id => r.to = Current(c)

\* What was stored for a caller's last request answers that request, and is what
\* its tracker holds while it is in progress.
StoredOwn ==
  \A c \in Callers :
    /\ \A i \in 1 .. Len(stored[c]) : stored[c][i].to = Current(c)
    /\ Active(c) => call[c].responses = stored[c] /\ outcome[c].status = "none"

IInv ==
  /\ TypeOK /\ PendingExact /\ Numbered /\ SentOwn /\ StoredOwn
  /\ OwnAnswer /\ StoredReplyWins

-----------------------------------------------------------------------------

\* A call in progress has a tracker; where it is says that it is in progress.
LEMMA CallFacts ==
  ASSUME TypeOK, NEW c \in Callers
  PROVE  /\ Active(c) <=> call[c] \in Call
         /\ call[c].at \in {"writing", "waiting"} => Active(c)
  BY DEF TypeOK, Active, Call, NoCall

\* The end of a request that has a proper result keeps the invariant.
LEMMA EndStep ==
  ASSUME IInv, NEW c \in Callers, Active(c), NEW res \in Outcome,
         res.status # "none",
         res.status \in {"timed_out", "cancelled"} => stored[c] = << >>,
         res.status = "response_ready" =>
           stored[c] # << >> /\ res.reply = Head(stored[c]) /\ res.id = asked[c],
         End(c, res), UNCHANGED <<lastId, asked, sent, inbox, stored>>
  PROVE  IInv'
<1>1. /\ call' = [call EXCEPT ![c] = NoCall]
      /\ pending' = [id \in DOMAIN pending \ {call[c].id} |-> pending[id]]
      /\ outcome' = [outcome EXCEPT ![c] = res]
  BY DEF End, Cleanup, Restrict
<1>2. call \in [Callers -> Call \cup {NoCall}] /\ outcome \in [Callers -> Outcome]
  BY DEF IInv, TypeOK
<1>3. /\ ~Active(c)'
      /\ \A d \in Callers \ {c} : call'[d] = call[d] /\ outcome'[d] = outcome[d]
      /\ outcome'[c] = res
      /\ \A d \in Callers : Current(d)' = Current(d)
  BY <1>1, <1>2 DEF Active, Current
<1>4. TypeOK'
  <2>1. call' \in [Callers -> Call \cup {NoCall}] /\ outcome' \in [Callers -> Outcome]
    BY <1>1, <1>2
  <2>2. DOMAIN pending' \subseteq Nat /\ \A id \in DOMAIN pending' : pending'[id] \in Callers
    BY <1>1 DEF IInv, TypeOK
  <2> QED BY <2>1, <2>2 DEF IInv, TypeOK
<1>5. PendingExact'
  BY <1>1, <1>3 DEF IInv, PendingExact, Active
<1>6. Numbered' /\ SentOwn'
  BY <1>3 DEF IInv, Numbered, SentOwn, Active
<1>7. StoredOwn'
  BY <1>3 DEF IInv, StoredOwn, Active
<1>8. OwnAnswer'
  <2>1. ASSUME res.status = "response_ready"
        PROVE  res.reply.to = Current(c)
    <3>1. stored[c] \in Seq(Reply)
      BY DEF IInv, TypeOK
    <3>2. Head(stored[c]) = stored[c][1] /\ 1 \in 1 .. Len(stored[c])
      BY <2>1, <3>1
    <3> QED BY <2>1, <3>2 DEF IInv, StoredOwn
  <2> QED BY <1>3, <2>1 DEF IInv, OwnAnswer
<1>9. StoredReplyWins'
  BY <1>3 DEF IInv, StoredReplyWins
<1> QED BY <1>4, <1>5, <1>6, <1>7, <1>8, <1>9 DEF IInv

\* A step that only moves timers and waits keeps the invariant.
LEMMA WaitStep ==
  ASSUME IInv,
         call' \in [Callers -> Call \cup {NoCall}],
         \A d \in Callers :
           /\ Active(d)' <=> Active(d)
           /\ Active(d) => /\ call'[d].id = call[d].id
                           /\ call'[d].responses = call[d].responses,
         UNCHANGED <<lastId, asked, pending, sent, inbox, outcome, stored>>
  PROVE  IInv'
<1>1. \A d \in Callers : Current(d)' = Current(d)
  BY DEF Current
<1>2. TypeOK'
  BY DEF IInv, TypeOK
<1>3. PendingExact'
  BY DEF IInv, PendingExact, TypeOK
<1>4. Numbered' /\ SentOwn' /\ StoredOwn'
  BY <1>1 DEF IInv, Numbered, SentOwn, StoredOwn
<1>5. OwnAnswer' /\ StoredReplyWins'
  BY <1>1 DEF IInv, OwnAnswer, StoredReplyWins
<1> QED BY <1>2, <1>3, <1>4, <1>5 DEF IInv

LEMMA SendStep ==
  ASSUME IInv, NEW c \in Callers, Send(c)
  PROVE  IInv'
<1> DEFINE new == [at |-> "writing", id |-> lastId + 1, responses |-> << >>,
                   expired |-> FALSE, wait |-> "none"]
<1>1. /\ lastId \in Nat /\ lastId' = lastId + 1
      /\ ~Active(c)
      /\ asked' = [asked EXCEPT ![c] = @ + 1]
      /\ pending' = [id \in DOMAIN pending \cup {lastId + 1} |->
                       IF id = lastId + 1 THEN c ELSE pending[id]]
      /\ call' = [call EXCEPT ![c] = new]
      /\ outcome' = [outcome EXCEPT ![c] = [status |-> "none"]]
      /\ stored' = [stored EXCEPT ![c] = << >>]
      /\ UNCHANGED <<sent, inbox>>
  BY DEF Send, FreshId, IInv, TypeOK
<1>2. new \in Call /\ new # NoCall
  BY <1>1 DEF Call, NoCall
<1>3. /\ call \in [Callers -> Call \cup {NoCall}]
      /\ outcome \in [Callers -> Outcome]
      /\ stored \in [Callers -> Seq(Reply)]
      /\ asked \in [Callers -> 0 .. MaxAsked]
  BY DEF IInv, TypeOK
<1>4. /\ call'[c] = new /\ Active(c)' /\ outcome'[c] = [status |-> "none"]
      /\ stored'[c] = << >>
      /\ \A d \in Callers \ {c} :
           /\ call'[d] = call[d] /\ (Active(d)' <=> Active(d)) /\ Current(d)' = Current(d)
           /\ outcome'[d] = outcome[d] /\ stored'[d] = stored[d] /\ asked'[d] = asked[d]
  BY <1>1, <1>2, <1>3 DEF Active, Current
<1>5. TypeOK'
  <2>1. call' \in [Callers -> Call \cup {NoCall}]
    BY <1>1, <1>2, <1>3
  <2>2. outcome' \in [Callers -> Outcome] /\ stored' \in [Callers -> Seq(Reply)]
    BY <1>1, <1>3 DEF Outcome
  <2>3. asked' \in [Callers -> 0 .. MaxAsked]
    BY <1>1, <1>3, BoundAssumption DEF Send
  <2>4. DOMAIN pending' \subseteq Nat /\ \A id \in DOMAIN pending' : pending'[id] \in Callers
    BY <1>1 DEF IInv, TypeOK
  <2> QED BY <1>1, <2>1, <2>2, <2>3, <2>4 DEF IInv, TypeOK
<1>6. PendingExact'
  <2>1. \A d \in Callers : Active(d) => call[d].id # lastId + 1
    BY <1>1, <1>3 DEF IInv, Numbered, Active, Call
  <2>2. ASSUME NEW id \in DOMAIN pending'
        PROVE  call'[pending'[id]] # NoCall /\ call'[pending'[id]].id = id
    <3>1. CASE id = lastId + 1
      BY <3>1, <1>1, <1>2, <1>4
    <3>2. CASE id # lastId + 1
      <4>1. id \in DOMAIN pending /\ pending'[id] = pending[id]
        BY <3>2, <1>1
      <4>2. pending[id] \in Callers \ {c}
        BY <4>1, <1>1 DEF IInv, TypeOK, PendingExact
      <4> QED BY <4>1, <4>2, <1>4 DEF IInv, PendingExact, Active
    <3> QED BY <3>1, <3>2
  <2>3. ASSUME NEW d \in Callers, Active(d)'
        PROVE  call'[d].id \in DOMAIN pending' /\ pending'[call'[d].id] = d
    <3>1. CASE d = c
      BY <3>1, <1>1, <1>4
    <3>2. CASE d # c
      BY <3>2, <2>1, <2>3, <1>1, <1>4 DEF IInv, PendingExact
    <3> QED BY <3>1, <3>2
  <2> QED BY <2>2, <2>3 DEF PendingExact, Active
<1>7. Numbered'
  <2>1. \A d \in Callers : Active(d)' => call'[d].id <= lastId'
    BY <1>1, <1>3, <1>4 DEF IInv, Numbered, Active, Call
  <2>2. \A r \in sent : r.id <= lastId'
    BY <1>1 DEF IInv, Numbered, TypeOK, Reply
  <2> QED BY <1>1, <2>1, <2>2 DEF IInv, Numbered
<1>8. SentOwn'
  <2>1. \A r \in sent : r.id # lastId + 1
    BY <1>1 DEF IInv, Numbered, TypeOK, Reply
  <2> QED BY <1>1, <1>4, <2>1 DEF IInv, SentOwn
<1>9. StoredOwn'
  BY <1>4 DEF IInv, StoredOwn
<1>10. OwnAnswer' /\ StoredReplyWins'
  BY <1>4 DEF IInv, OwnAnswer, StoredReplyWins
<1> QED BY <1>5, <1>6, <1>7, <1>8, <1>9, <1>10 DEF IInv

LEMMA FrameStep ==
  ASSUME IInv, NEW c \in Callers, FrameWritten(c)
  PROVE  IInv'
<1> DEFINE frame == [id |-> call[c].id, to |-> Current(c)]
<1>1. /\ Active(c)
      /\ sent' = sent \cup {frame}
      /\ UNCHANGED <<lastId, asked, pending, call, inbox, outcome, stored>>
  BY CallFacts DEF IInv, FrameWritten
<1>2. frame \in Reply
  BY <1>1, CallFacts DEF IInv, TypeOK, Call, Reply, Request, Current
<1>3. \A d \in Callers : Current(d)' = Current(d) /\ (Active(d)' <=> Active(d))
  BY <1>1 DEF Current, Active
<1>4. TypeOK' /\ PendingExact' /\ Numbered'
  BY <1>1, <1>2, <1>3 DEF IInv, TypeOK, PendingExact, Numbered
<1>5. SentOwn'
  <2>1. ASSUME NEW d \in Callers, Active(d), call[d].id = call[c].id
        PROVE  d = c
    BY <1>1, <2>1 DEF IInv, PendingExact
  <2> QED BY <1>1, <1>3, <2>1 DEF IInv, SentOwn
<1>6. StoredOwn' /\ OwnAnswer' /\ StoredReplyWins'
  BY <1>1, <1>3 DEF IInv, StoredOwn, OwnAnswer, StoredReplyWins
<1> QED BY <1>4, <1>5, <1>6 DEF IInv

LEMMA ReplyStep ==
  ASSUME IInv, NEW reply \in sent, ClientReplies(reply)
  PROVE  IInv'
<1>1. /\ inbox' = Append(inbox, reply)
      /\ UNCHANGED <<lastId, asked, pending, call, sent, outcome, stored>>
      /\ inbox \in Seq(Reply) /\ reply \in Reply
  BY DEF ClientReplies, IInv, TypeOK
<1>2. inbox' \in Seq(Reply) /\ \A i \in 1 .. Len(inbox') : inbox'[i] \in sent
  BY <1>1 DEF IInv, Numbered
<1>3. \A d \in Callers : Current(d)' = Current(d) /\ (Active(d)' <=> Active(d))
  BY <1>1 DEF Current, Active
<1>4. TypeOK' /\ PendingExact' /\ Numbered' /\ SentOwn'
  BY <1>1, <1>2, <1>3 DEF IInv, TypeOK, PendingExact, Numbered, SentOwn
<1>5. StoredOwn' /\ OwnAnswer' /\ StoredReplyWins'
  BY <1>1, <1>3 DEF IInv, StoredOwn, OwnAnswer, StoredReplyWins
<1> QED BY <1>4, <1>5 DEF IInv

\* A call in progress is told apart from none.
LEMMA CallInProgress ==
  ASSUME NEW t \in Call
  PROVE  t # NoCall
BY DEF Call, NoCall

\* What store_response does to a tracker.
LEMMA TrackerGetsReply ==
  ASSUME NEW t \in Call, NEW reply \in Reply
  PROVE  LET k == [t EXCEPT !.responses = Append(@, reply)]
         IN  /\ CancelTimer(k) \in Call
             /\ CancelTimer(k).id = t.id
             /\ CancelTimer(k).responses = Append(t.responses, reply)
<1> DEFINE k == [t EXCEPT !.responses = Append(@, reply)]
<1>1. Append(t.responses, reply) \in Seq(Reply)
  BY DEF Call
<1>2. k \in Call /\ k.id = t.id /\ k.responses = Append(t.responses, reply)
  BY <1>1 DEF Call
<1> HIDE DEF k
<1>3. /\ CancelTimer(k) \in Call /\ CancelTimer(k).id = k.id
      /\ CancelTimer(k).responses = k.responses
  BY <1>2 DEF CancelTimer, Call
<1> QED BY <1>2, <1>3 DEF k

\* The case of StoreResponse in which the reply finds its tracker.
LEMMA AcceptStep ==
  ASSUME IInv, StoreResponse, Head(inbox).id \in DOMAIN pending
  PROVE  IInv'
<1> DEFINE reply == Head(inbox)
           c == pending[reply.id]
           k == [call[c] EXCEPT !.responses = Append(@, reply)]
<1>1. /\ inbox' = Tail(inbox)
      /\ call' = [call EXCEPT ![c] = CancelTimer(k)]
      /\ stored' = [stored EXCEPT ![c] = Append(@, reply)]
      /\ UNCHANGED <<lastId, asked, pending, sent, outcome>>
  BY DEF StoreResponse
<1>2. /\ inbox \in Seq(Reply) /\ inbox # << >>
      /\ reply \in sent /\ reply \in Reply
      /\ Tail(inbox) \in Seq(Reply)
      /\ \A i \in 1 .. Len(Tail(inbox)) : Tail(inbox)[i] \in sent
  <2>1. inbox \in Seq(Reply) /\ inbox # << >> /\ sent \subseteq Reply
    BY DEF StoreResponse, IInv, TypeOK
  <2>2. Head(inbox) = inbox[1] /\ 1 \in 1 .. Len(inbox) /\ Tail(inbox) \in Seq(Reply)
    BY <2>1
  <2>3. \A i \in 1 .. Len(Tail(inbox)) : Tail(inbox)[i] = inbox[i + 1] /\ i + 1 \in 1 .. Len(inbox)
    BY <2>1
  <2> QED BY <2>1, <2>2, <2>3 DEF IInv, Numbered
<1>3. c \in Callers /\ Active(c) /\ call[c].id = reply.id /\ call[c] \in Call
  BY CallFacts DEF IInv, TypeOK, PendingExact
<1>4. reply.to = Current(c)
  BY <1>2, <1>3 DEF IInv, SentOwn
<1>5. /\ CancelTimer(k) \in Call
      /\ CancelTimer(k).id = call[c].id
      /\ CancelTimer(k).responses = Append(call[c].responses, reply)
  BY <1>2, <1>3, TrackerGetsReply
<1>6. /\ call \in [Callers -> Call \cup {NoCall}] /\ stored \in [Callers -> Seq(Reply)]
      /\ outcome \in [Callers -> Outcome]
  BY DEF IInv, TypeOK
<1> HIDE DEF k, c, reply
<1>7. CancelTimer(k) # NoCall
  BY <1>5, CallInProgress
<1>8. /\ call'[c] = CancelTimer(k) /\ call'[c] # NoCall
      /\ stored'[c] = Append(stored[c], reply)
      /\ \A d \in Callers \ {c} : call'[d] = call[d] /\ stored'[d] = stored[d]
      /\ \A d \in Callers : /\ (Active(d)' <=> Active(d)) /\ Current(d)' = Current(d)
                            /\ call'[d].id = call[d].id
  <2>1. /\ call'[c] = CancelTimer(k) /\ stored'[c] = Append(stored[c], reply)
        /\ \A d \in Callers \ {c} : call'[d] = call[d] /\ stored'[d] = stored[d]
    BY <1>1, <1>3, <1>6
  <2>2. \A d \in Callers : Current(d)' = Current(d)
    BY <1>1 DEF Current
  <2>3. call'[c] # NoCall /\ call[c] # NoCall /\ call'[c].id = call[c].id
    BY <2>1, <1>3, <1>5, <1>7 DEF Active
  <2> QED BY <2>1, <2>2, <2>3 DEF Active
<1>9. TypeOK'
  <2>1. call' \in [Callers -> Call \cup {NoCall}]
    BY <1>1, <1>5, <1>6
  <2>2. stored' \in [Callers -> Seq(Reply)]
    BY <1>1, <1>2, <1>3, <1>6
  <2> QED BY <1>1, <1>2, <2>1, <2>2 DEF IInv, TypeOK
<1>10. PendingExact' /\ SentOwn'
  <2>1. PendingExact'
    <3>1. PendingExact /\ \A id \in DOMAIN pending : pending[id] \in Callers
      BY DEF IInv, TypeOK
    <3> QED BY <1>1, <1>8, <3>1 DEF PendingExact
  <2>2. SentOwn'
    BY <1>1, <1>8 DEF IInv, SentOwn
  <2> QED BY <2>1, <2>2
<1>11. Numbered'
  BY <1>1, <1>2, <1>8 DEF IInv, Numbered
<1>12. StoredOwn'
  <2>1. \A i \in 1 .. Len(stored'[c]) : stored'[c][i].to = Current(c)
    BY <1>2, <1>3, <1>4, <1>6, <1>8 DEF IInv, StoredOwn
  <2>2. call'[c].responses = stored'[c] /\ outcome'[c].status = "none"
    BY <1>1, <1>3, <1>5, <1>8 DEF IInv, StoredOwn
  <2> QED BY <1>1, <1>8, <2>1, <2>2 DEF IInv, StoredOwn
<1>13. OwnAnswer' /\ StoredReplyWins'
  <2>1. outcome[c].status = "none"
    BY <1>3 DEF IInv, StoredOwn
  <2> QED BY <1>1, <1>8, <2>1 DEF IInv, OwnAnswer, StoredReplyWins
<1> QED BY <1>9, <1>10, <1>11, <1>12, <1>13 DEF IInv

\* The case in which it finds none.
LEMMA IgnoreStep ==
  ASSUME IInv, StoreResponse, Head(inbox).id \notin DOMAIN pending
  PROVE  IInv'
<1>1. /\ inbox' = Tail(inbox) /\ inbox \in Seq(Reply) /\ inbox # << >>
      /\ UNCHANGED <<lastId, asked, pending, call, sent, outcome, stored>>
  BY DEF StoreResponse, IInv, TypeOK
<1>2. Tail(inbox) \in Seq(Reply) /\ \A i \in 1 .. Len(Tail(inbox)) : Tail(inbox)[i] \in sent
  BY <1>1 DEF IInv, Numbered
<1>3. \A d \in Callers : Current(d)' = Current(d) /\ (Active(d)' <=> Active(d))
  BY <1>1 DEF Current, Active
<1>4. TypeOK' /\ PendingExact' /\ Numbered' /\ SentOwn'
  BY SMTT(60), <1>1, <1>2, <1>3 DEF IInv, TypeOK, PendingExact, Numbered, SentOwn
<1>5. StoredOwn' /\ OwnAnswer' /\ StoredReplyWins'
  BY <1>1, <1>3 DEF IInv, StoredOwn, OwnAnswer, StoredReplyWins
<1> QED BY <1>4, <1>5 DEF IInv

LEMMA InitIInv == Init => IInv
<1> SUFFICES ASSUME Init PROVE IInv
  OBVIOUS
<1>1. TypeOK
  BY BoundAssumption DEF Init, TypeOK, Outcome
<1>2. \A c \in Callers : ~Active(c)
  BY DEF Init, Active
<1> QED BY <1>1, <1>2 DEF Init, IInv, PendingExact, Numbered, SentOwn, StoredOwn, OwnAnswer,
                          StoredReplyWins

LEMMA CallerStepIInv ==
  ASSUME IInv, NEW c \in Callers, CallerStep(c)
  PROVE  IInv'
<1>1. CASE WriteFails(c)
  <2>1. Active(c) /\ [status |-> "failed"] \in Outcome
    BY <1>1, CallFacts DEF IInv, WriteFails, Outcome
  <2> QED BY <1>1, <2>1, EndStep DEF WriteFails
<1>2. ASSUME Active(c), call[c].responses # << >>
      PROVE  /\ FirstResponse(c) \in Outcome
             /\ FirstResponse(c).status = "response_ready"
             /\ FirstResponse(c).reply = Head(stored[c])
             /\ FirstResponse(c).id = asked[c]
             /\ stored[c] # << >>
  <2>1. call[c].responses = stored[c] /\ stored[c] \in Seq(Reply)
    BY <1>2 DEF IInv, StoredOwn, TypeOK
  <2>2. Head(stored[c]) \in Reply /\ asked[c] \in Nat
    BY <1>2, <2>1, BoundAssumption DEF IInv, TypeOK
  <2> QED BY <1>2, <2>1, <2>2 DEF FirstResponse, Outcome
<1>3. CASE WriteReturns(c)
  <2>1. Active(c) /\ call[c] \in Call
    BY <1>3, CallFacts DEF IInv, WriteReturns
  <2>2. CASE call[c].responses # << >>
    BY <1>2, <1>3, <2>1, <2>2, EndStep DEF WriteReturns
  <2>3. CASE call[c].responses = << >>
    <3> DEFINE k == [call[c] EXCEPT !.at = "waiting",
                       !.wait = IF call[c].expired THEN "fired" ELSE "pending"]
    <3>1. call' = [call EXCEPT ![c] = k]
      BY <1>3, <2>3 DEF WriteReturns
    <3>2. k \in Call /\ k # NoCall /\ k.id = call[c].id /\ k.responses = call[c].responses
      BY <2>1 DEF Call, NoCall
    <3>3. UNCHANGED <<lastId, asked, pending, sent, inbox, outcome, stored>>
      BY <1>3, <2>3 DEF WriteReturns
    <3>4. call \in [Callers -> Call \cup {NoCall}]
      BY DEF IInv, TypeOK
    <3> HIDE DEF k
    <3> QED BY <2>1, <3>1, <3>2, <3>3, <3>4, WaitStep DEF Active
  <2> QED BY <2>2, <2>3
<1>4. CASE TimerExpires(c)
  <2> DEFINE k == [call[c] EXCEPT !.expired = TRUE,
                     !.wait = IF @ = "pending" THEN "fired" ELSE @]
  <2>1. Active(c) /\ call[c] \in Call
    BY <1>4, CallFacts DEF IInv, TimerExpires
  <2>2. call' = [call EXCEPT ![c] = k]
    BY <1>4 DEF TimerExpires
  <2>3. k \in Call /\ k # NoCall /\ k.id = call[c].id /\ k.responses = call[c].responses
    BY <2>1 DEF Call, NoCall
  <2>4. UNCHANGED <<lastId, asked, pending, sent, inbox, outcome, stored>>
    BY <1>4 DEF TimerExpires
  <2>5. call \in [Callers -> Call \cup {NoCall}]
    BY DEF IInv, TypeOK
  <2> HIDE DEF k
  <2> QED BY <2>1, <2>2, <2>3, <2>4, <2>5, WaitStep DEF Active
<1>5. CASE ResumeWait(c)
  <2>1. Active(c) /\ call[c].responses = stored[c]
    BY <1>5, CallFacts DEF IInv, ResumeWait, StoredOwn
  <2>2. CASE call[c].responses # << >>
    BY <1>2, <1>5, <2>1, <2>2, EndStep DEF ResumeWait
  <2>3. CASE call[c].responses = << >>
    <3>1. PICK res \in {[status |-> "timed_out"], [status |-> "cancelled"]} : End(c, res)
      BY <1>5, <2>3 DEF ResumeWait
    <3>2. res \in Outcome
      BY <3>1 DEF Outcome
    <3> QED BY <1>5, <2>1, <2>3, <3>1, <3>2, EndStep DEF ResumeWait
  <2> QED BY <2>2, <2>3
<1> QED BY <1>1, <1>3, <1>4, <1>5 DEF CallerStep

LEMMA CancelStep ==
  ASSUME IInv, CancelAll
  PROVE  IInv'
<1>1. call \in [Callers -> Call \cup {NoCall}]
  BY DEF IInv, TypeOK
<1>2. \A d \in Callers : call'[d] # call[d] => call[d] \in Call /\ call'[d] = CancelTimer(call[d])
  BY CallFacts DEF CancelAll, IInv, TypeOK, PendingExact
<1>3. ASSUME NEW k \in Call
      PROVE  /\ CancelTimer(k) \in Call /\ CancelTimer(k) # NoCall
             /\ CancelTimer(k).id = k.id /\ CancelTimer(k).responses = k.responses
  BY DEF CancelTimer, Call, NoCall
<1>4. call' \in [Callers -> Call \cup {NoCall}]
  <2>1. call' = [d \in Callers |-> call'[d]]
    BY DEF CancelAll
  <2>2. \A d \in Callers : call'[d] \in Call \cup {NoCall}
    BY <1>1, <1>2, <1>3
  <2> QED BY <2>1, <2>2
<1>5. \A d \in Callers :
        /\ Active(d)' <=> Active(d)
        /\ Active(d) => /\ call'[d].id = call[d].id
                        /\ call'[d].responses = call[d].responses
  BY <1>2, <1>3 DEF Active, Call, NoCall
<1> QED BY <1>4, <1>5, WaitStep DEF CancelAll

LEMMA NextIInv == IInv /\ [Next]_vars => IInv'
<1> SUFFICES ASSUME IInv, [Next]_vars PROVE IInv'
  OBVIOUS
<1>1. ASSUME NEW c \in Callers, Send(c) PROVE IInv'
  BY <1>1, SendStep
<1>2. ASSUME NEW c \in Callers, FrameWritten(c) PROVE IInv'
  BY <1>2, FrameStep
<1>3. ASSUME NEW c \in Callers, CallerStep(c) PROVE IInv'
  BY <1>3, CallerStepIInv
<1>4. ASSUME NEW reply \in sent, ClientReplies(reply) PROVE IInv'
  BY <1>4, ReplyStep
<1>5. CASE StoreResponse
  BY <1>5, AcceptStep, IgnoreStep
<1>6. CASE CancelAll
  BY <1>6, CancelStep
<1>7. CASE UNCHANGED vars
  <2>1. \A d \in Callers :
          call'[d] = call[d] /\ Current(d)' = Current(d) /\ (Active(d)' <=> Active(d))
    BY <1>7 DEF vars, Current, Active
  <2>2. TypeOK' /\ PendingExact' /\ Numbered' /\ SentOwn'
    BY <1>7, <2>1 DEF vars, IInv, TypeOK, PendingExact, Numbered, SentOwn
  <2>3. StoredOwn' /\ OwnAnswer' /\ StoredReplyWins'
    BY <1>7, <2>1 DEF vars, IInv, StoredOwn, OwnAnswer, StoredReplyWins
  <2> QED BY <2>2, <2>3 DEF IInv
<1> QED BY <1>1, <1>2, <1>3, <1>4, <1>5, <1>6, <1>7 DEF Next

LEMMA Invariance == Spec => []IInv
<1> QED BY InitIInv, NextIInv, PTL DEF Spec

\* No tracker outlives its request and every request in progress has one, for any
\* number of callers and requests.
THEOREM SpecPendingExact == Spec => []PendingExact
<1>1. IInv => PendingExact
  BY DEF IInv
<1> QED BY Invariance, <1>1, PTL

\* Every caller gets the reply to its own last request and to no other.
THEOREM SpecOwnAnswer == Spec => []OwnAnswer
<1>1. IInv => OwnAnswer
  BY DEF IInv
<1> QED BY Invariance, <1>1, PTL

\* No accepted reply is lost to a timer or to cancel_all.
THEOREM SpecStoredReplyWins == Spec => []StoredReplyWins
<1>1. IInv => StoredReplyWins
  BY DEF IInv
<1> QED BY Invariance, <1>1, PTL

-----------------------------------------------------------------------------
(* The promise.                                                            *)

pvars == <<Progress, Result>>

\* A step that changes no call's progress and no outcome is a stutter.
LEMMA PromiseStutter ==
  ASSUME UNCHANGED outcome,
         \A d \in Callers : /\ Active(d)' <=> Active(d)
                            /\ Active(d) => call'[d].responses = call[d].responses
  PROVE  UNCHANGED pvars
BY DEF pvars, Progress, Result, Active

\* A step that changes the progress and the outcome of one call only.
LEMMA PromiseOne ==
  ASSUME NEW c \in Callers, NEW p, NEW r,
         \A d \in Callers \ {c} : call'[d] = call[d] /\ outcome'[d] = outcome[d],
         p = IF call'[c] = NoCall THEN "ended"
             ELSE IF call'[c].responses = << >> THEN "open" ELSE "replied",
         r = outcome'[c].status
  PROVE  /\ Progress' = [Progress EXCEPT ![c] = p]
         /\ Result' = [Result EXCEPT ![c] = r]
BY DEF Progress, Result, Active

LEMMA PromiseSend ==
  ASSUME IInv, NEW c \in Callers, Send(c)
  PROVE  Promise!Ask(c)
<1>1. Progress[c] = "ended"
  BY DEF Send, Progress
<1>2. /\ call \in [Callers -> Call \cup {NoCall}] /\ outcome \in [Callers -> Outcome]
      /\ ~Active(c)
  BY DEF IInv, TypeOK, Send
<1>3. /\ \A d \in Callers \ {c} : call'[d] = call[d] /\ outcome'[d] = outcome[d]
      /\ call'[c].responses = << >> /\ call'[c].at = "writing"
      /\ outcome'[c].status = "none"
  BY <1>2 DEF Send
<1>4. call'[c] # NoCall
  BY <1>3 DEF NoCall
<1>5. Progress' = [Progress EXCEPT ![c] = "open"] /\ Result' = [Result EXCEPT ![c] = "none"]
  BY <1>3, <1>4, PromiseOne
<1> QED BY <1>1, <1>5 DEF Promise!Ask

LEMMA PromiseEnd ==
  ASSUME IInv, NEW c \in Callers, Active(c), NEW res, End(c, res),
         res.status \in IF call[c].responses # << >> THEN {"response_ready", "failed"}
                        ELSE {"failed", "timed_out", "cancelled"}
  PROVE  Promise!End(c)
<1>1. Progress[c] = IF call[c].responses # << >> THEN "replied" ELSE "open"
  BY DEF Progress
<1>2. call \in [Callers -> Call \cup {NoCall}] /\ outcome \in [Callers -> Outcome]
  BY DEF IInv, TypeOK
<1>3. /\ \A d \in Callers \ {c} : call'[d] = call[d] /\ outcome'[d] = outcome[d]
      /\ call'[c] = NoCall /\ outcome'[c] = res
  BY <1>2 DEF End, Cleanup
<1>4. /\ Progress' = [Progress EXCEPT ![c] = "ended"]
      /\ Result' = [Result EXCEPT ![c] = res.status]
  BY <1>3, PromiseOne
<1> QED BY <1>1, <1>4 DEF Promise!End

LEMMA PromiseAccept ==
  ASSUME IInv, StoreResponse
  PROVE  UNCHANGED pvars \/ \E c \in Callers : Promise!Accept(c)
<1>1. CASE Head(inbox).id \notin DOMAIN pending
  BY <1>1, PromiseStutter DEF StoreResponse, Active
<1>2. CASE Head(inbox).id \in DOMAIN pending
  <2>1. PICK c \in Callers :
          /\ c = pending[Head(inbox).id]
          /\ Active(c)
          /\ call[c] \in Call
    BY <1>2, CallFacts DEF IInv, TypeOK, PendingExact
  <2>2. Head(inbox) \in Reply
    BY DEF IInv, TypeOK, StoreResponse
  <2> DEFINE k == CancelTimer([call[c] EXCEPT !.responses = Append(@, Head(inbox))])
  <2>3. /\ call' = [call EXCEPT ![c] = k]
        /\ UNCHANGED outcome
    BY SMTT(60), <1>2, <2>1 DEF StoreResponse
  <2>4. k \in Call /\ k.responses = Append(call[c].responses, Head(inbox))
    BY <2>1, <2>2, TrackerGetsReply
  <2> HIDE DEF k
  <2>5. k.responses # << >> /\ k # NoCall
    <3>1. call[c].responses \in Seq(Reply)
      BY <2>1 DEF Call
    <3>2. k.responses # << >>
      BY <2>2, <2>4, <3>1
    <3> QED BY <2>4, <3>2 DEF Call, NoCall
  <2>6. /\ \A d \in Callers \ {c} : call'[d] = call[d] /\ outcome'[d] = outcome[d]
        /\ call'[c] = k /\ outcome'[c] = outcome[c]
    BY <2>3 DEF IInv, TypeOK
  <2>7. /\ Progress' = [Progress EXCEPT ![c] = "replied"]
        /\ Result' = [Result EXCEPT ![c] = outcome[c].status]
    BY <2>5, <2>6, PromiseOne
  <2>8. Result' = Result
    BY <2>7 DEF Result
  <2>9. CASE call[c].responses = << >>
    <3>1. Progress[c] = "open"
      BY <2>1, <2>9 DEF Progress
    <3> QED BY <2>7, <2>8, <3>1 DEF Promise!Accept
  <2>10. CASE call[c].responses # << >>
    <3>1. Progress[c] = "replied"
      BY <2>1, <2>10 DEF Progress
    <3>2. Progress' = Progress
      BY <2>7, <3>1 DEF Progress
    <3> QED BY <2>8, <3>2 DEF pvars
  <2> QED BY <2>9, <2>10
<1> QED BY <1>1, <1>2

LEMMA PromiseCaller ==
  ASSUME IInv, NEW c \in Callers, CallerStep(c)
  PROVE  UNCHANGED pvars \/ Promise!End(c)
<1>1. call \in [Callers -> Call \cup {NoCall}]
  BY DEF IInv, TypeOK
<1>2. CASE WriteFails(c)
  BY <1>2, CallFacts, PromiseEnd DEF IInv, WriteFails
<1>3. CASE WriteReturns(c)
  <2>1. Active(c) /\ call[c] \in Call
    BY <1>3, CallFacts DEF IInv, WriteReturns
  <2>2. CASE call[c].responses # << >>
    BY <1>3, <2>1, <2>2, PromiseEnd DEF WriteReturns, FirstResponse
  <2>3. CASE call[c].responses = << >>
    <3>1. UNCHANGED outcome /\ call'[c].responses = call[c].responses
                            /\ call'[c].at = "waiting"
      BY <1>1, <1>3, <2>1, <2>3 DEF WriteReturns, Call
    <3>2. \A d \in Callers \ {c} : call'[d] = call[d]
      BY <1>1, <1>3, <2>3 DEF WriteReturns
    <3>3. call'[c] # NoCall
      BY <3>1 DEF NoCall
    <3> QED BY <2>1, <3>1, <3>2, <3>3, PromiseStutter DEF Active
  <2> QED BY <2>2, <2>3
<1>4. CASE TimerExpires(c)
  <2>1. Active(c) /\ call[c] \in Call
    BY <1>4, CallFacts DEF IInv, TimerExpires
  <2>2. /\ UNCHANGED outcome /\ call'[c].responses = call[c].responses
        /\ call'[c].at = call[c].at
    BY <1>1, <1>4, <2>1 DEF TimerExpires, Call
  <2>3. \A d \in Callers \ {c} : call'[d] = call[d]
    BY <1>1, <1>4 DEF TimerExpires
  <2>4. call'[c] # NoCall
    BY <2>1, <2>2 DEF NoCall, Call
  <2> QED BY <2>1, <2>2, <2>3, <2>4, PromiseStutter DEF Active
<1>5. CASE ResumeWait(c)
  <2>1. Active(c)
    BY <1>5, CallFacts DEF IInv, ResumeWait
  <2>2. CASE call[c].responses # << >>
    BY <1>5, <2>1, <2>2, PromiseEnd DEF ResumeWait, FirstResponse
  <2>3. CASE call[c].responses = << >>
    <3>1. PICK res \in {[status |-> "timed_out"], [status |-> "cancelled"]} : End(c, res)
      BY <1>5, <2>3 DEF ResumeWait
    <3> QED BY <2>1, <2>3, <3>1, PromiseEnd
  <2> QED BY <2>2, <2>3
<1> QED BY <1>2, <1>3, <1>4, <1>5 DEF CallerStep

LEMMA PromiseNext == IInv /\ [Next]_vars => [Promise!Next]_pvars
<1> SUFFICES ASSUME IInv, [Next]_vars PROVE UNCHANGED pvars \/ Promise!Next
  BY DEF pvars
<1>1. ASSUME NEW c \in Callers, Send(c) PROVE Promise!Next
  BY <1>1, PromiseSend DEF Promise!Next
<1>2. ASSUME NEW c \in Callers, FrameWritten(c) PROVE UNCHANGED pvars
  BY <1>2, PromiseStutter DEF FrameWritten, Active
<1>3. ASSUME NEW c \in Callers, CallerStep(c) PROVE UNCHANGED pvars \/ Promise!Next
  BY <1>3, PromiseCaller DEF Promise!Next
<1>4. ASSUME NEW reply \in sent, ClientReplies(reply) PROVE UNCHANGED pvars
  BY <1>4, PromiseStutter DEF ClientReplies, Active
<1>5. CASE StoreResponse
  BY <1>5, PromiseAccept DEF Promise!Next
<1>6. CASE CancelAll
  <2>1. \A d \in Callers : call'[d] # call[d] => call[d] \in Call /\ call'[d] = CancelTimer(call[d])
    BY <1>6, CallFacts DEF CancelAll, IInv, TypeOK, PendingExact
  <2>2. \A k \in Call : CancelTimer(k).responses = k.responses /\ CancelTimer(k) # NoCall
    BY DEF CancelTimer, Call, NoCall
  <2>3. UNCHANGED outcome
    BY <1>6 DEF CancelAll
  <2> QED BY <2>1, <2>2, <2>3, PromiseStutter DEF Active, Call, NoCall
<1>7. CASE UNCHANGED vars
  BY <1>7, PromiseStutter DEF vars, Active
<1> QED BY <1>1, <1>2, <1>3, <1>4, <1>5, <1>6, <1>7 DEF Next

\* Trackers, timers, late, repeated and reordered replies implement what
\* send_request promises, for any number of callers and requests.
THEOREM SpecKeepsPromise == Spec => KeepsPromise
<1>1. Init => Promise!Init
  BY DEF Init, Promise!Init, Progress, Result, Active
<1> QED BY <1>1, Invariance, PromiseNext, PTL DEF Spec, KeepsPromise, Promise!Spec, pvars

=============================================================================
