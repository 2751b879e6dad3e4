-------------------------- MODULE MCSessionManager --------------------------
(***************************************************************************)
(* Two sessions, two coroutines that each write a frame to the first one,  *)
(* and a frame that is broadcast.  A session is unregistered while it is    *)
(* registered or after it was closed.                                      *)
(***************************************************************************)
EXTENDS SessionManager

Own(c) == IF c = "c1" THEN "m1" ELSE "m2"

MCWrites(c) == Writes(c, "s1", Own(c))

MCNext ==
  \/ \E c \in Coroutines : MCWrites(c) \/ OutputStep(c)
  \/ \E s \in Sessions :
       \/ Close(s) /\ UNCHANGED managerVars
       \/ s = "s1" /\ Breaks(s) /\ UNCHANGED managerVars
       \/ Register(s)
       \/ (s \in sessions \/ ~isOpen[s]) /\ Unregister(s)
  \/ TimerExpires \/ HandlerRuns
  \/ \E f \in News : CastStarts(f)
  \/ CastNext \/ CastEnds

MCFairSpec ==
  /\ Init /\ [][MCNext]_vars
  /\ \A c \in Coroutines : WF_vars(OutputStep(c))
  /\ WF_vars(TimerExpires) /\ WF_vars(HandlerRuns) /\ WF_vars(CastNext) /\ WF_vars(CastEnds)
=============================================================================
