--------------------------- MODULE BridgeSession ---------------------------
(***************************************************************************)
(* The path of a message through main.cpp: the reader thread posts what it *)
(* reads to the executor, LocalInputQueue hands it to the coroutine        *)
(* handle_local_session, and that writes the response.  Two more writers   *)
(* share the session with it: the heartbeat and the coroutine that tells   *)
(* the client that the index is ready.  A write to stdout does not suspend *)
(* the writer.  What a message does to documents and index is left to the  *)
(* modules of those parts; here it matters whether it has an id to answer, *)
(* and whether a thread of the pool computes the answer.                   *)
(***************************************************************************)
EXTENDS Naturals, Sequences

CONSTANTS
  Kinds,         \* kinds of messages the client sends
  MaxMessages,   \* bound: messages sent
  MaxRebuilds,   \* bound: rebuilds applied
  MaxBeats       \* bound: heartbeats

AllKinds ==
  {"request",        \* answered in place, with a result or an error
   "pooled",         \* dltxt/get_similar_text: answered by a pool thread
   "notification",   \* no id, or without an answer
   "initialized",
   "ignored",        \* empty, unparsable, or a response nobody waits for
   "exit"}

ASSUME SessionAssumption ==
  /\ Kinds \subseteq AllKinds
  /\ MaxMessages \in Nat /\ MaxRebuilds \in Nat /\ MaxBeats \in Nat

VARIABLES
  sent,       \* messages the client has sent
  stream,     \* those the reader has not read
  streamEnd,  \* "open", "eof", or "error": how reading ends behind them
  reader,     \* "reading", "done"
  posted,     \* functions posted to the executor and not run
  input,      \* LocalInputQueue
  handler,    \* where handle_local_session is
  isOpen,     \* is_open() of the session
  stdout,     \* "ok", "broken": whether a write goes through
  ready,      \* client_initialized_ and pending_crossref_index_ready_
  notices,    \* scheduled notifications that have not run
  rebuilt,    \* applied rebuilds, and those whose notifier has not run
  beats,      \* heartbeats written
  out,        \* frames written
  owed        \* history: a rebuild was applied since the last notification

clientVars == <<sent, stream, streamEnd, stdout>>
vars == <<clientVars, reader, posted, input, handler, isOpen, ready, notices, rebuilt,
          beats, out, owed>>

Message == [kind : AllKinds, id : Nat]
Posted == [op : {"push"}, message : Message] \cup [op : {"close", "fail"}]
IsRequest(message) == message.kind \in {"request", "pooled"}
Response(id) == [what |-> "response", id |-> id]
Frame == [what : {"response"}, id : Nat] \cup [what : {"ready", "heartbeat"}]

\* Types, and no more notifications than rebuilds.
TypeOK ==
  /\ sent \in Seq(Message) /\ stream \in Seq(Message)
  /\ streamEnd \in {"open", "eof", "error"} /\ reader \in {"reading", "done"}
  /\ posted \in Seq(Posted)
  /\ input \in [messages : Seq(Message), closed : BOOLEAN, error : BOOLEAN]
  /\ handler \in [at : {"ready", "waiting", "ended"}]
                   \cup [at : {"handling", "awaiting"}, message : Message]
  /\ isOpen \in BOOLEAN /\ stdout \in {"ok", "broken"}
  /\ ready \in [initialized : BOOLEAN, pending : BOOLEAN]
  /\ beats \in Nat /\ rebuilt \in [applied : Nat, telling : Nat]
  /\ notices \in 0 .. rebuilt.applied
  /\ out \in Seq(Frame) /\ owed \in BOOLEAN

Init ==
  /\ sent = << >> /\ stream = << >> /\ streamEnd = "open" /\ reader = "reading"
  /\ posted = << >>
  /\ input = [messages |-> << >>, closed |-> FALSE, error |-> FALSE]
  /\ handler = [at |-> "ready"]
  /\ isOpen = TRUE /\ stdout = "ok"
  /\ ready = [initialized |-> FALSE, pending |-> FALSE]
  /\ notices = 0 /\ beats = 0 /\ rebuilt = [applied |-> 0, telling |-> 0]
  /\ out = << >> /\ owed = FALSE

-----------------------------------------------------------------------------
(* The client. *)

ClientSends(kind) ==
  /\ streamEnd = "open" /\ Len(sent) < MaxMessages
  /\ LET message == [kind |-> kind, id |-> Len(sent) + 1]
     IN  sent' = Append(sent, message) /\ stream' = Append(stream, message)
  /\ UNCHANGED <<streamEnd, stdout, reader, posted, input, handler, isOpen, ready, notices,
                 rebuilt, beats, out, owed>>

\* It closes its end or sends something that is not a frame, which reads as the
\* end too; or reading fails.
ClientEnds(how) ==
  /\ streamEnd = "open"
  /\ streamEnd' = how
  /\ UNCHANGED <<sent, stream, stdout, reader, posted, input, handler, isOpen, ready, notices,
                 rebuilt, beats, out, owed>>

\* It no longer takes what the bridge writes.
ClientStopsReading ==
  /\ stdout = "ok" /\ stdout' = "broken"
  /\ UNCHANGED <<sent, stream, streamEnd, reader, posted, input, handler, isOpen, ready,
                 notices, rebuilt, beats, out, owed>>

-----------------------------------------------------------------------------
(* start_stdio_reader_thread *)

ReaderReads ==
  /\ reader = "reading" /\ stream # << >>
  /\ posted' = Append(posted, [op |-> "push", message |-> Head(stream)])
  /\ stream' = Tail(stream)
  /\ UNCHANGED <<sent, streamEnd, stdout, reader, input, handler, isOpen, ready, notices,
                 rebuilt, beats, out, owed>>

ReaderEnds ==
  /\ reader = "reading" /\ stream = << >> /\ streamEnd # "open"
  /\ posted' = Append(posted, [op |-> IF streamEnd = "eof" THEN "close" ELSE "fail"])
  /\ reader' = "done"
  /\ UNCHANGED <<clientVars, input, handler, isOpen, ready, notices, rebuilt, beats, out, owed>>

-----------------------------------------------------------------------------
(* LocalInputQueue, on the executor. *)

\* Mutant of Signal: the wait is not cancelled.
SignalNobody == handler' = handler

\* signal_.cancel: releases the coroutine if it waits.
Signal == handler' = IF handler.at = "waiting" THEN [at |-> "ready"] ELSE handler

\* push, close or fail
RunPosted ==
  /\ posted # << >>
  /\ posted' = Tail(posted)
  /\ LET f == Head(posted)
     IN  IF f.op = "push"
         THEN IF input.closed THEN UNCHANGED <<input, handler>>
              ELSE input' = [input EXCEPT !.messages = Append(@, f.message)] /\ Signal
         ELSE input' = [input EXCEPT !.closed = TRUE, !.error = @ \/ f.op = "fail"] /\ Signal
  /\ UNCHANGED <<clientVars, reader, isOpen, ready, notices, rebuilt, beats, out, owed>>

\* close and unregister, on every way out of handle_local_session
EndSession == handler' = [at |-> "ended"] /\ isOpen' = FALSE

\* Mutant of TakeMessage: it looks for the end of the input first.
TakeMessageUnlessClosed ==
  /\ handler.at = "ready"
  /\ IF input.closed THEN EndSession /\ UNCHANGED input
     ELSE IF input.messages # << >>
     THEN /\ handler' = [at |-> "handling", message |-> Head(input.messages)]
          /\ input' = [input EXCEPT !.messages = Tail(@)]
          /\ UNCHANGED isOpen
     ELSE handler' = [at |-> "waiting"] /\ UNCHANGED <<input, isOpen>>
  /\ UNCHANGED <<clientVars, reader, posted, ready, notices, rebuilt, beats, out, owed>>

\* wait_and_pop, up to its co_await
TakeMessage ==
  /\ handler.at = "ready"
  /\ IF input.messages # << >>
     THEN /\ handler' = [at |-> "handling", message |-> Head(input.messages)]
          /\ input' = [input EXCEPT !.messages = Tail(@)]
          /\ UNCHANGED isOpen
     ELSE IF input.error \/ input.closed THEN EndSession /\ UNCHANGED input
     ELSE handler' = [at |-> "waiting"] /\ UNCHANGED <<input, isOpen>>
  /\ UNCHANGED <<clientVars, reader, posted, ready, notices, rebuilt, beats, out, owed>>

-----------------------------------------------------------------------------
(* handle_local_session *)

Writable == isOpen /\ stdout = "ok"

\* The response is written; when that fails, so does the error response, and
\* the session ends.
Respond(id) ==
  IF Writable
  THEN /\ out' = Append(out, Response(id))
       /\ handler' = [at |-> "ready"] /\ UNCHANGED isOpen
  ELSE EndSession /\ UNCHANGED out

Handling(kinds) == handler.at = "handling" /\ handler.message.kind \in kinds

HandleRequest ==
  /\ Handling({"request"})
  /\ Respond(handler.message.id)
  /\ UNCHANGED <<clientVars, reader, posted, input, ready, notices, rebuilt, beats, owed>>

\* Mutant of HandlePooled: the session goes on while the pool works, and the
\* answer is written when there is one.
HandlePooledDetached ==
  /\ Handling({"pooled"})
  /\ input' = [input EXCEPT !.messages = Append(@, [handler.message EXCEPT !.kind = "request"])]
  /\ handler' = [at |-> "ready"]
  /\ UNCHANGED <<clientVars, reader, posted, isOpen, ready, notices, rebuilt, beats, out, owed>>

\* run_json_task_on_pool suspends the session ...
HandlePooled ==
  /\ Handling({"pooled"})
  /\ handler' = [handler EXCEPT !.at = "awaiting"]
  /\ UNCHANGED <<clientVars, reader, posted, input, isOpen, ready, notices, rebuilt, beats,
                 out, owed>>

\* ... until the task is done.
PoolAnswers ==
  /\ handler.at = "awaiting"
  /\ Respond(handler.message.id)
  /\ UNCHANGED <<clientVars, reader, posted, input, ready, notices, rebuilt, beats, owed>>

HandleSilently ==
  /\ Handling({"notification", "ignored"})
  /\ handler' = [at |-> "ready"]
  /\ UNCHANGED <<clientVars, reader, posted, input, isOpen, ready, notices, rebuilt, beats,
                 out, owed>>

\* mark_client_initialized, and the notification that was put off
HandleInitialized ==
  /\ Handling({"initialized"})
  /\ handler' = [at |-> "ready"]
  /\ ready' = [initialized |-> TRUE, pending |-> FALSE]
  /\ notices' = notices + IF ready.pending THEN 1 ELSE 0
  /\ UNCHANGED <<clientVars, reader, posted, input, isOpen, rebuilt, beats, out, owed>>

HandleExit ==
  /\ Handling({"exit"})
  /\ EndSession
  /\ UNCHANGED <<clientVars, reader, posted, input, ready, notices, rebuilt, beats, out, owed>>

-----------------------------------------------------------------------------
(* The other writers. *)

\* A rebuild is applied on a pool thread, which then calls the notifier.
RebuildApplied ==
  /\ rebuilt.applied < MaxRebuilds
  /\ rebuilt' = [applied |-> rebuilt.applied + 1, telling |-> rebuilt.telling + 1]
  /\ owed' = TRUE
  /\ UNCHANGED <<clientVars, reader, posted, input, handler, isOpen, ready, notices, beats, out>>

\* Mutants of RequestDelivery: not put off; put off and forgotten.
RequestDeliveryAtOnce == notices' = notices + 1 /\ UNCHANGED ready
RequestDeliveryOnlyNow ==
  notices' = notices + (IF ready.initialized THEN 1 ELSE 0) /\ UNCHANGED ready

\* request_crossref_index_ready_delivery, under state_mutex_
RequestDelivery ==
  IF ready.initialized THEN notices' = notices + 1 /\ UNCHANGED ready
  ELSE ready' = [ready EXCEPT !.pending = TRUE] /\ UNCHANGED notices

\* notify_crossref_index_ready
NotifyIndexReady ==
  /\ rebuilt.telling > 0
  /\ rebuilt' = [rebuilt EXCEPT !.telling = @ - 1]
  /\ IF isOpen THEN RequestDelivery ELSE UNCHANGED <<ready, notices>>
  /\ UNCHANGED <<clientVars, reader, posted, input, handler, isOpen, beats, out, owed>>

\* The coroutine of schedule_crossref_index_ready_notification; an exception of
\* the write is logged.
SendIndexReady ==
  /\ notices > 0 /\ notices' = notices - 1
  /\ IF Writable THEN out' = Append(out, [what |-> "ready"]) /\ owed' = FALSE
     ELSE UNCHANGED <<out, owed>>
  /\ UNCHANGED <<clientVars, reader, posted, input, handler, isOpen, ready, rebuilt, beats>>

\* heartbeat_loop, until a write fails or the session is closed
Heartbeat ==
  /\ beats < MaxBeats /\ Writable
  /\ beats' = beats + 1 /\ out' = Append(out, [what |-> "heartbeat"])
  /\ UNCHANGED <<clientVars, reader, posted, input, handler, isOpen, ready, notices, rebuilt, owed>>

-----------------------------------------------------------------------------

Reader == ReaderReads \/ ReaderEnds
Handler ==
  \/ TakeMessage \/ HandleRequest \/ HandlePooled \/ PoolAnswers
  \/ HandleSilently \/ HandleInitialized \/ HandleExit
Notifier == NotifyIndexReady \/ SendIndexReady
Client == (\E kind \in Kinds : ClientSends(kind)) \/ ClientStopsReading
            \/ \E how \in {"eof", "error"} : ClientEnds(how)

Next == Client \/ Reader \/ RunPosted \/ Handler \/ RebuildApplied \/ Notifier \/ Heartbeat

Spec == Init /\ [][Next]_vars

\* The reader thread, the executor and the pool keep running.
FairSpec ==
  Spec /\ WF_vars(Reader) /\ WF_vars(RunPosted) /\ WF_vars(Handler)
       /\ WF_vars(NotifyIndexReady) /\ WF_vars(SendIndexReady)

-----------------------------------------------------------------------------
(* Properties. *)

\* Requests are answered one by one in the order in which they were sent, none
\* twice, and nothing else is answered: one message is handled to its end, the
\* work of the pool included, before the next is taken.
AnswersInOrder ==
  /\ TypeOK
  /\ \A j \in DOMAIN out : out[j].what = "response" =>
       /\ out[j].id \in DOMAIN sent /\ IsRequest(sent[out[j].id])
       /\ \A k \in DOMAIN out : out[k] = out[j] => k = j
       /\ \A id \in 1 .. out[j].id - 1 :
            IsRequest(sent[id]) => \E k \in 1 .. j : out[k] = Response(id)

\* The client is not told that the index is ready before it said that it is
\* initialized, whichever thread comes first.
ReadyAfterInitialized ==
  ready.initialized \/ \A i \in DOMAIN out : out[i].what # "ready"

Exited == \E i \in DOMAIN sent : sent[i].kind = "exit"

\* Every request is answered, those that were sent just before the client closed
\* its end included, unless there is an exit or stdout fails.
EveryRequestAnswered ==
  \A id \in 1 .. MaxMessages :
    id \in DOMAIN sent /\ IsRequest(sent[id])
      ~> (\E k \in DOMAIN out : out[k] = Response(id)) \/ Exited \/ stdout = "broken"

\* A rebuild that is applied is announced to an initialized client, whether it
\* was applied before, during or after the handshake.
EveryRebuildAnnounced == owed /\ ready.initialized ~> ~owed \/ ~Writable

\* Once the client has closed its end, the session ends.
SessionEnds == streamEnd # "open" ~> handler.at = "ended"
=============================================================================
