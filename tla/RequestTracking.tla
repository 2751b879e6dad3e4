-------------------------- MODULE RequestTracking --------------------------
(***************************************************************************)
(* Requests the bridge sends to its client: LocalRequestDispatcher over    *)
(* ResponseManager.  Everything runs on the executor of the bridge, so an  *)
(* action is what a coroutine does between two suspensions.  A caller has  *)
(* a dispatcher of its own and numbers its requests itself: the numbers of *)
(* two callers coincide, the bridge ids must not.                          *)
(*                                                                         *)
(* A timer is cancelled by a reply or by cancel_all.  Cancelling releases  *)
(* a coroutine that waits on the timer, and nothing else: not one that is  *)
(* about to wait, and not one whose wait has already ended.                *)
(***************************************************************************)
EXTENDS Naturals, Sequences, FiniteSets, Functions

CONSTANTS
  Callers,     \* concurrent users of send_request
  MaxAsked,    \* bound: requests a caller makes
  MaxReplies   \* bound: replies on their way, and replies stored for a request

ASSUME BoundAssumption == MaxAsked \in Nat /\ MaxReplies \in Nat

VARIABLES
  lastId,      \* next_bridge_request_id_
  asked,       \* next_original_request_id_ of each dispatcher
  pending,     \* pending_responses_: bridge id -> the caller whose tracker it is
  call,        \* where each caller is, with its tracker
  sent,        \* requests the client has received
  inbox,       \* replies of the client not yet handled
  outcome,     \* what the last request of each caller ended with
  stored       \* history: replies store_response accepted for that request

vars == <<lastId, asked, pending, call, sent, inbox, outcome, stored>>

\* A request is known by its caller and the caller's number of it.
Request == [caller : Callers, number : 0 .. MaxAsked]
Reply == [id : Nat, to : Request]

NoCall == [at |-> "idle"]

\* A tracker belongs to the call that made it; wait is the state of the call's
\* async_wait on the tracker's timer.
Call ==
  [at : {"writing", "waiting"}, id : Nat, responses : Seq(Reply), expired : BOOLEAN,
   wait : {"none", "pending", "aborted", "fired"}]

Outcome ==
  [status : {"none", "failed", "timed_out", "cancelled"}]
    \cup [status : {"response_ready"}, reply : Reply, id : Nat]

TypeOK ==
  /\ lastId \in Nat
  /\ asked \in [Callers -> 0 .. MaxAsked]
  /\ DOMAIN pending \subseteq Nat /\ \A id \in DOMAIN pending : pending[id] \in Callers
  /\ call \in [Callers -> Call \cup {NoCall}]
  /\ sent \subseteq Reply
  /\ inbox \in Seq(Reply)
  /\ outcome \in [Callers -> Outcome]
  /\ stored \in [Callers -> Seq(Reply)]

Init ==
  /\ lastId = 0
  /\ asked = [c \in Callers |-> 0]
  /\ pending = << >>
  /\ call = [c \in Callers |-> NoCall]
  /\ sent = {}
  /\ inbox = << >>
  /\ outcome = [c \in Callers |-> [status |-> "none"]]
  /\ stored = [c \in Callers |-> << >>]

Active(c) == call[c] # NoCall
Current(c) == [caller |-> c, number |-> asked[c]]

\* Mutant of FreshId: ids are taken from the number of pending requests.
FreshIdByCount == Cardinality(DOMAIN pending) + 1

FreshId == lastId + 1

\* send_request up to its first suspension: create_bridge_request_id, and the
\* request handed to write_framed.
Send(c) ==
  /\ ~Active(c) /\ asked[c] < MaxAsked
  /\ asked' = [asked EXCEPT ![c] = @ + 1]
  /\ lastId' = lastId + 1
  /\ pending' = [id \in DOMAIN pending \cup {FreshId} |-> IF id = FreshId THEN c ELSE pending[id]]
  /\ call' = [call EXCEPT ![c] = [at |-> "writing", id |-> FreshId, responses |-> << >>,
                                  expired |-> FALSE, wait |-> "none"]]
  /\ outcome' = [outcome EXCEPT ![c] = [status |-> "none"]]
  /\ stored' = [stored EXCEPT ![c] = << >>]
  /\ UNCHANGED <<sent, inbox>>

\* The frame is on its way; the coroutine may not have resumed yet.
FrameWritten(c) ==
  /\ call[c].at = "writing"
  /\ sent' = sent \cup {[id |-> call[c].id, to |-> Current(c)]}
  /\ UNCHANGED <<lastId, asked, pending, call, inbox, outcome, stored>>

\* Mutant of Cleanup: a tracker is kept.
NoCleanup(c) == call' = [call EXCEPT ![c] = NoCall] /\ UNCHANGED pending

\* ResponseCleanup, on every way out of send_request.
Cleanup(c) ==
  /\ call' = [call EXCEPT ![c] = NoCall]
  /\ pending' = Restrict(pending, DOMAIN pending \ {call[c].id})

End(c, result) == Cleanup(c) /\ outcome' = [outcome EXCEPT ![c] = result]

FirstResponse(c) ==
  [status |-> "response_ready", reply |-> Head(call[c].responses), id |-> asked[c]]

\* write_framed throws.
WriteFails(c) ==
  /\ call[c].at = "writing"
  /\ End(c, [status |-> "failed"])
  /\ UNCHANGED <<lastId, asked, sent, inbox, stored>>

\* write_framed returns, and wait_for_response runs up to its co_await: a reply
\* may be there already, the timer may have expired.
WriteReturns(c) ==
  /\ call[c].at = "writing"
  /\ IF call[c].responses # << >>
     THEN End(c, FirstResponse(c))
     ELSE /\ call' = [call EXCEPT ![c].at = "waiting",
                        ![c].wait = IF call[c].expired THEN "fired" ELSE "pending"]
          /\ UNCHANGED <<pending, outcome>>
  /\ UNCHANGED <<lastId, asked, sent, inbox, stored>>

\* Mutant of TimerExpires: the timer never does.
TimerExpiresNever(c) == FALSE /\ UNCHANGED vars

\* The time of the request is over.
TimerExpires(c) ==
  /\ Active(c) /\ ~call[c].expired
  /\ call' = [call EXCEPT ![c].expired = TRUE,
                ![c].wait = IF @ = "pending" THEN "fired" ELSE @]
  /\ UNCHANGED <<lastId, asked, pending, sent, inbox, outcome, stored>>

\* Mutant of ResumeWait: the replies are not looked at again.
ResumeWaitStatusFirst(c) ==
  /\ call[c].at = "waiting" /\ call[c].wait \in {"aborted", "fired"}
  /\ End(c, IF call[c].wait = "fired" THEN [status |-> "timed_out"]
            ELSE IF call[c].responses # << >> THEN FirstResponse(c)
            ELSE [status |-> "cancelled"])
  /\ UNCHANGED <<lastId, asked, sent, inbox, stored>>

\* The wait has ended and its coroutine runs again.
ResumeWait(c) ==
  /\ call[c].at = "waiting" /\ call[c].wait \in {"aborted", "fired"}
  /\ End(c, IF call[c].responses # << >> THEN FirstResponse(c)
            ELSE IF call[c].wait = "fired" THEN [status |-> "timed_out"]
            ELSE [status |-> "cancelled"])
  /\ UNCHANGED <<lastId, asked, sent, inbox, stored>>

\* steady_timer::cancel
CancelTimer(k) == IF k.wait = "pending" THEN [k EXCEPT !.wait = "aborted"] ELSE k

\* The client answers a request it has, perhaps again.
ClientReplies(reply) ==
  /\ reply \in sent
  /\ Len(inbox) < MaxReplies /\ \A c \in Callers : Len(stored[c]) < MaxReplies
  /\ inbox' = Append(inbox, reply)
  /\ UNCHANGED <<lastId, asked, pending, call, sent, outcome, stored>>

\* try_store_jsonrpc_response and store_response; a reply to a request that is
\* not pending is ignored.
StoreResponse ==
  /\ inbox # << >>
  /\ inbox' = Tail(inbox)
  /\ LET reply == Head(inbox)
     IN  IF reply.id \in DOMAIN pending
         THEN LET c == pending[reply.id]
                  k == [call[c] EXCEPT !.responses = Append(@, reply)]
              IN  /\ call' = [call EXCEPT ![c] = CancelTimer(k)]
                  /\ stored' = [stored EXCEPT ![c] = Append(@, reply)]
         ELSE UNCHANGED <<call, stored>>
  /\ UNCHANGED <<lastId, asked, pending, sent, outcome>>

\* cancel_all
CancelAll ==
  /\ DOMAIN pending # {}
  /\ call' = [c \in Callers |->
                IF \E id \in DOMAIN pending : pending[id] = c THEN CancelTimer(call[c])
                ELSE call[c]]
  /\ UNCHANGED <<lastId, asked, pending, sent, inbox, outcome, stored>>

CallerStep(c) ==
  \/ WriteFails(c) \/ WriteReturns(c) \/ TimerExpires(c) \/ ResumeWait(c)

Next ==
  \/ \E c \in Callers : Send(c) \/ FrameWritten(c) \/ CallerStep(c)
  \/ \E reply \in sent : ClientReplies(reply)
  \/ StoreResponse
  \/ CancelAll

Spec == Init /\ [][Next]_vars

\* Writes end, timers expire and resumed coroutines run; replies are handled.
FairSpec == Spec /\ WF_vars(StoreResponse) /\ \A c \in Callers : WF_vars(CallerStep(c))

-----------------------------------------------------------------------------
(* Properties. *)

\* pending_responses_ holds the tracker of every request in progress, under
\* that request's own id, and no other: no tracker outlives its request.
PendingExact ==
  /\ \A id \in DOMAIN pending : Active(pending[id]) /\ call[pending[id]].id = id
  /\ \A c \in Callers :
       Active(c) => call[c].id \in DOMAIN pending /\ pending[call[c].id] = c

\* A caller gets the client's reply to the request it made last, under the id
\* it gave it, however late, often or out of order replies arrive.
OwnAnswer ==
  \A c \in Callers :
    outcome[c].status = "response_ready" =>
      outcome[c].reply.to = Current(c) /\ outcome[c].id = asked[c]

\* A reply that store_response accepted is not lost: unless the request could
\* not be written, it ends with the first one accepted, even when the timer
\* expired or was cancelled in between.
StoredReplyWins ==
  \A c \in Callers :
    LET replies == stored[c]
    IN  /\ outcome[c].status \in {"timed_out", "cancelled"} => replies = << >>
        /\ outcome[c].status = "response_ready" => outcome[c].reply = Head(replies)

\* Every request ends: no caller waits for a client that does not answer.
EveryRequestEnds == \A c \in Callers : Active(c) ~> ~Active(c)

\* What a caller sees of its requests.
Progress == [c \in Callers |-> IF ~Active(c) THEN "ended"
                               ELSE IF call[c].responses = << >> THEN "open" ELSE "replied"]
Result == [c \in Callers |-> outcome[c].status]

Promise == INSTANCE RequestPromise WITH progress <- Progress, result <- Result

\* Trackers, timers and replies in any order keep what send_request promises: a
\* request ends once, and with a reply if one was accepted.
KeepsPromise == Promise!Spec
=============================================================================
