--------------------------- MODULE SessionOutput ---------------------------
(***************************************************************************)
(* LocalSession over a socket: write_framed, called by coroutines that     *)
(* share the session.  A coroutine that finds another one writing leaves   *)
(* its frame in the queue and returns; the one that writes goes on until   *)
(* the queue is empty.  Only the socket's async_write suspends, so a       *)
(* coroutine's code between two suspensions is one step.                   *)
(***************************************************************************)
EXTENDS Naturals, SequencesExt

CONSTANTS
  Sessions,
  Coroutines,  \* those that call write_framed
  Frames

VARIABLES
  isOpen,      \* is_open() of the session's socket
  link,        \* "up", "broken": whether the peer can be reached
  queue,       \* write_queue_
  inProgress,  \* write_in_progress_
  flight,      \* the frame being written (next), as a sequence of at most one
  wire,        \* frames written
  call,        \* what each coroutine is doing
  returned,    \* history: frames whose write_framed returned
  threw        \* history: frames whose write_framed threw

outputVars == <<isOpen, link, queue, inProgress, flight, wire, call, returned, threw>>

Idle == [at |-> "idle"]
Calling == [at : {"called", "writing"}, session : Sessions, frame : Frames]

OutputTypeOK ==
  /\ isOpen \in [Sessions -> BOOLEAN]
  /\ link \in [Sessions -> {"up", "broken"}]
  /\ queue \in [Sessions -> Seq(Frames)]
  /\ inProgress \in [Sessions -> BOOLEAN]
  /\ flight \in [Sessions -> Seq(Frames)]
  /\ wire \in [Sessions -> Seq(Frames)]
  /\ call \in [Coroutines -> {Idle} \cup Calling]
  /\ returned \in [Sessions -> SUBSET Frames] /\ threw \in [Sessions -> SUBSET Frames]

OutputInit ==
  /\ isOpen = [s \in Sessions |-> TRUE]
  /\ link = [s \in Sessions |-> "up"]
  /\ queue = [s \in Sessions |-> << >>]
  /\ inProgress = [s \in Sessions |-> FALSE]
  /\ flight = [s \in Sessions |-> << >>]
  /\ wire = [s \in Sessions |-> << >>]
  /\ call = [c \in Coroutines |-> Idle]
  /\ returned = [s \in Sessions |-> {}] /\ threw = [s \in Sessions |-> {}]

-----------------------------------------------------------------------------

\* Frames are told apart: each is handed to a session once.
Fresh(s, f) ==
  /\ f \notin returned[s] \cup threw[s]
  /\ \A c \in Coroutines : call[c] # Idle => call[c].session # s \/ call[c].frame # f

\* write_framed is called: the coroutine goes to the session's strand.
Call(c, s, f) ==
  /\ call[c] = Idle /\ Fresh(s, f)
  /\ call' = [call EXCEPT ![c] = [at |-> "called", session |-> s, frame |-> f]]
  /\ UNCHANGED <<isOpen, link, queue, inProgress, flight, wire, returned, threw>>

\* write_framed of the coroutine ends, one way or the other.
Returns(c) ==
  /\ call' = [call EXCEPT ![c] = Idle]
  /\ returned' = [returned EXCEPT ![call[c].session] = @ \cup {call[c].frame}]
  /\ UNCHANGED threw

Throws(c) ==
  /\ call' = [call EXCEPT ![c] = Idle]
  /\ threw' = [threw EXCEPT ![call[c].session] = @ \cup {call[c].frame}]
  /\ UNCHANGED returned

\* Mutant of Enter: a coroutine writes although another one does.
EnterAnyway(c) ==
  /\ call[c].at = "called"
  /\ LET s == call[c].session
         frames == Append(queue[s], call[c].frame)
     IN  IF ~isOpen[s] THEN Throws(c) /\ UNCHANGED <<queue, inProgress, flight>>
         ELSE /\ inProgress' = [inProgress EXCEPT ![s] = TRUE]
              /\ flight' = [flight EXCEPT ![s] = <<Head(frames)>>]
              /\ queue' = [queue EXCEPT ![s] = Tail(frames)]
              /\ call' = [call EXCEPT ![c].at = "writing"]
              /\ UNCHANGED <<returned, threw>>
  /\ UNCHANGED <<isOpen, link, wire>>

\* On the strand, up to the first async_write.
Enter(c) ==
  /\ call[c].at = "called"
  /\ LET s == call[c].session
         frames == Append(queue[s], call[c].frame)
     IN  IF ~isOpen[s] THEN Throws(c) /\ UNCHANGED <<queue, inProgress, flight>>
         ELSE IF inProgress[s]
         THEN /\ queue' = [queue EXCEPT ![s] = frames]
              /\ Returns(c) /\ UNCHANGED <<inProgress, flight>>
         ELSE /\ inProgress' = [inProgress EXCEPT ![s] = TRUE]
              /\ flight' = [flight EXCEPT ![s] = <<Head(frames)>>]
              /\ queue' = [queue EXCEPT ![s] = Tail(frames)]
              /\ call' = [call EXCEPT ![c].at = "writing"]
              /\ UNCHANGED <<returned, threw>>
  /\ UNCHANGED <<isOpen, link, wire>>

\* Mutant of Written: the coroutine writes one frame and returns.
WrittenOnce(c) ==
  /\ call[c].at = "writing"
  /\ LET s == call[c].session
     IN  /\ isOpen[s] /\ link[s] = "up"
         /\ wire' = [wire EXCEPT ![s] = @ \o flight[s]]
         /\ flight' = [flight EXCEPT ![s] = << >>]
         /\ inProgress' = [inProgress EXCEPT ![s] = FALSE]
         /\ Returns(c)
  /\ UNCHANGED <<isOpen, link, queue>>

\* async_write completes: the next frame, or the end of the loop.
Written(c) ==
  /\ call[c].at = "writing"
  /\ LET s == call[c].session
     IN  /\ isOpen[s] /\ link[s] = "up"
         /\ wire' = [wire EXCEPT ![s] = @ \o flight[s]]
         /\ IF queue[s] # << >>
            THEN /\ flight' = [flight EXCEPT ![s] = <<Head(queue[s])>>]
                 /\ queue' = [queue EXCEPT ![s] = Tail(@)]
                 /\ UNCHANGED <<inProgress, call, returned, threw>>
            ELSE /\ flight' = [flight EXCEPT ![s] = << >>]
                 /\ inProgress' = [inProgress EXCEPT ![s] = FALSE]
                 /\ Returns(c) /\ UNCHANGED queue
  /\ UNCHANGED <<isOpen, link>>

\* Mutant of WriteFails: the flag stays set.
WriteFailsStillBusy(c) ==
  /\ call[c].at = "writing"
  /\ LET s == call[c].session
     IN  /\ ~isOpen[s] \/ link[s] = "broken"
         /\ flight' = [flight EXCEPT ![s] = << >>]
         /\ Throws(c)
  /\ UNCHANGED <<isOpen, link, queue, wire, inProgress>>

\* async_write throws: the frame is gone, those behind it stay in the queue.
WriteFails(c) ==
  /\ call[c].at = "writing"
  /\ LET s == call[c].session
     IN  /\ ~isOpen[s] \/ link[s] = "broken"
         /\ flight' = [flight EXCEPT ![s] = << >>]
         /\ inProgress' = [inProgress EXCEPT ![s] = FALSE]
         /\ Throws(c)
  /\ UNCHANGED <<isOpen, link, queue, wire>>

\* close
Close(s) ==
  /\ isOpen[s]
  /\ isOpen' = [isOpen EXCEPT ![s] = FALSE]
  /\ UNCHANGED <<link, queue, inProgress, flight, wire, call, returned, threw>>

\* The peer goes away.
Breaks(s) ==
  /\ link[s] = "up"
  /\ link' = [link EXCEPT ![s] = "broken"]
  /\ UNCHANGED <<isOpen, queue, inProgress, flight, wire, call, returned, threw>>

CoroutineStep(c) == Enter(c) \/ Written(c) \/ WriteFails(c)

OutputNext ==
  \/ \E c \in Coroutines :
       \/ \E s \in Sessions, f \in Frames : Call(c, s, f)
       \/ CoroutineStep(c)
  \/ \E s \in Sessions : Close(s) \/ Breaks(s)

OutputSpec == OutputInit /\ [][OutputNext]_outputVars

-----------------------------------------------------------------------------
(* Properties. *)

Up(s) == isOpen[s] /\ link[s] = "up"

\* Exactly one coroutine writes to a session that is being written to, and none
\* to another; a frame that waits in the queue of a live session has one that
\* will get to it, although the coroutine that left it there has returned.
OneWriter ==
  \A s \in Sessions :
    LET writers == {c \in Coroutines : call[c].at = "writing" /\ call[c].session = s}
    IN  /\ inProgress[s] <=> writers # {}
        /\ \A c, d \in writers : c = d
        /\ inProgress[s] <=> Len(flight[s]) = 1
        /\ ~inProgress[s] => flight[s] = << >>
        /\ Up(s) /\ queue[s] # << >> => inProgress[s]

\* write_framed throws only when the connection is lost, and what it says is no
\* more than that: until then every frame whose write_framed returned is on
\* the wire or about to be.
OutcomesHonest ==
  \A s \in Sessions :
    /\ threw[s] # {} => ~Up(s)
    /\ Up(s) => returned[s] \subseteq ToSet(wire[s]) \cup ToSet(flight[s]) \cup ToSet(queue[s])

Channel ==
  INSTANCE FrameChannel WITH waiting <- [s \in Sessions |-> flight[s] \o queue[s]],
                             up <- [s \in Sessions |-> Up(s)]

\* However the coroutines interleave, a session is a queue of frames that loses
\* none unless the connection is lost.
KeepsChannel == Channel!Spec
=============================================================================
