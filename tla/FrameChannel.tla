---------------------------- MODULE FrameChannel ----------------------------
(***************************************************************************)
(* What the output of a session promises: a queue of frames per session.   *)
(* A frame is put in once, goes out whole and in order, and none is lost   *)
(* unless the connection is.                                               *)
(***************************************************************************)
EXTENDS Sequences

CONSTANTS Sessions, Frames

VARIABLES
  waiting,  \* frames put in that have not gone out
  wire,     \* frames that have gone out
  up        \* the connection is there

Init ==
  /\ waiting = [s \in Sessions |-> << >>]
  /\ wire = [s \in Sessions |-> << >>]
  /\ up = [s \in Sessions |-> TRUE]

Put(s, f) ==
  /\ waiting' = [waiting EXCEPT ![s] = Append(@, f)]
  /\ UNCHANGED <<wire, up>>

GoesOut(s) ==
  /\ waiting[s] # << >> /\ up[s]
  /\ wire' = [wire EXCEPT ![s] = Append(@, Head(waiting[s]))]
  /\ waiting' = [waiting EXCEPT ![s] = Tail(@)]
  /\ UNCHANGED up

Loses(s) ==
  /\ waiting[s] # << >> /\ ~up[s]
  /\ waiting' = [waiting EXCEPT ![s] = Tail(@)]
  /\ UNCHANGED <<wire, up>>

GoesDown(s) ==
  /\ up' = [up EXCEPT ![s] = FALSE]
  /\ UNCHANGED <<waiting, wire>>

Next ==
  \E s \in Sessions :
    \/ \E f \in Frames : Put(s, f)
    \/ GoesOut(s) \/ Loses(s) \/ GoesDown(s)

Spec == Init /\ [][Next]_<<waiting, wire, up>>
=============================================================================
