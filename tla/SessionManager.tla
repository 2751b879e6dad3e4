--------------------------- MODULE SessionManager ---------------------------
(***************************************************************************)
(* LocalSessionManager: the registered sessions, broadcast, and the        *)
(* IdleShutdownMonitor that reports when there is none.  broadcast is a    *)
(* coroutine that suspends in write_framed, so sessions come and go while  *)
(* it runs; the rest of the class runs to its end on the executor.         *)
(***************************************************************************)
EXTENDS SessionOutput, FiniteSets

CONSTANTS
  Caster,      \* the coroutine that runs broadcast
  News,        \* the frames that are broadcast
  MaxUpdates   \* bound: changes of the number of sessions

ASSUME ManagerAssumption ==
  Caster \in Coroutines /\ News \subseteq Frames /\ IsFiniteSet(Sessions)

VARIABLES
  sessions,    \* the registered sessions
  generation,  \* generation_ of the monitor
  timer,       \* its timer: "armed", "off", or "expired": its handler is to run
  fired,       \* calls of on_timeout_
  cast         \* where broadcast is

managerVars == <<sessions, generation, timer, fired, cast>>
vars == <<outputVars, managerVars>>

NoCast == [at |-> "idle"]
Cast == [at : {"loop", "writing"}, frame : Frames, copy : SUBSET Sessions,
         todo : SUBSET Sessions, dead : SUBSET Sessions]

TypeOK ==
  /\ OutputTypeOK
  /\ sessions \subseteq Sessions
  /\ generation \in Nat /\ fired \in Nat
  /\ timer \in {"armed", "off", "expired"}
  /\ cast \in {NoCast} \cup Cast

\* The constructor with a timeout: arm_timer for the first generation.
Init ==
  /\ OutputInit
  /\ sessions = {}
  /\ generation = 1 /\ timer = "armed" /\ fired = 0
  /\ cast = NoCast

-----------------------------------------------------------------------------

\* Mutant of Update: a later generation waits for a timer that nobody starts.
UpdateArmingOnce(n) ==
  /\ generation' = generation + 1 /\ UNCHANGED fired
  /\ timer' = IF n # 0 /\ timer = "armed" THEN "off" ELSE timer

\* update: arm_timer, which after the first generation calls on_timeout_ at
\* once, or cancel_timer, which comes too late for a timer that has expired.
Update(n) ==
  /\ generation' = generation + 1
  /\ IF n = 0 THEN fired' = fired + 1 /\ UNCHANGED timer
     ELSE timer' = (IF timer = "armed" THEN "off" ELSE timer) /\ UNCHANGED fired

TimerExpires ==
  /\ timer = "armed" /\ timer' = "expired"
  /\ UNCHANGED <<outputVars, sessions, generation, fired, cast>>

\* Mutant of HandlerRuns: the generation is not looked at.
HandlerRunsAnyway ==
  /\ timer = "expired" /\ timer' = "off"
  /\ fired' = fired + 1
  /\ UNCHANGED <<outputVars, sessions, generation, cast>>

\* The handler of the timer armed by the constructor.
HandlerRuns ==
  /\ timer = "expired" /\ timer' = "off"
  /\ fired' = IF generation = 1 THEN fired + 1 ELSE fired
  /\ UNCHANGED <<outputVars, sessions, generation, cast>>

\* register_session, with a session that was not registered before
Register(s) ==
  /\ generation <= MaxUpdates
  /\ isOpen[s] /\ s \notin sessions
  /\ sessions' = sessions \cup {s}
  /\ Update(Cardinality(sessions'))
  /\ UNCHANGED <<outputVars, cast>>

\* unregister, which may come for a session that broadcast has erased
Unregister(s) ==
  /\ generation <= MaxUpdates
  /\ sessions' = sessions \ {s}
  /\ Update(Cardinality(sessions'))
  /\ UNCHANGED <<outputVars, cast>>

-----------------------------------------------------------------------------
(* broadcast *)

CastStarts(f) ==
  /\ cast = NoCast /\ generation <= MaxUpdates
  /\ \A s \in Sessions : Fresh(s, f)
  /\ cast' = [at |-> "loop", frame |-> f, copy |-> sessions, todo |-> sessions, dead |-> {}]
  /\ UNCHANGED <<outputVars, sessions, generation, timer, fired>>

\* Mutant of CastNext: the loop ends at the first session that is closed.
CastNextUntilClosed ==
  /\ cast.at = "loop"
  /\ \E s \in cast.todo :
       IF isOpen[s]
       THEN Call(Caster, s, cast.frame) /\ cast' = [cast EXCEPT !.at = "writing", !.todo = @ \ {s}]
       ELSE cast' = [cast EXCEPT !.todo = {}, !.dead = @ \cup {s}] /\ UNCHANGED outputVars
  /\ UNCHANGED <<sessions, generation, timer, fired>>

\* One turn of the loop, up to the write; the order is that of the vector.
CastNext ==
  /\ cast.at = "loop"
  /\ \E s \in cast.todo :
       IF isOpen[s]
       THEN Call(Caster, s, cast.frame) /\ cast' = [cast EXCEPT !.at = "writing", !.todo = @ \ {s}]
       ELSE cast' = [cast EXCEPT !.todo = @ \ {s}, !.dead = @ \cup {s}] /\ UNCHANGED outputVars
  /\ UNCHANGED <<sessions, generation, timer, fired>>

\* A step of a coroutine in write_framed; when it is broadcast's call that ends,
\* the loop goes on, a session whose write threw being dead.
OutputStep(c) ==
  /\ CoroutineStep(c)
  /\ IF c = Caster /\ cast # NoCast /\ call'[c] = Idle
     THEN LET s == call[c].session
          IN  cast' = [cast EXCEPT !.at = "loop",
                                   !.dead = IF cast.frame \in threw'[s] THEN @ \cup {s} ELSE @]
     ELSE UNCHANGED cast
  /\ UNCHANGED <<sessions, generation, timer, fired>>

\* The dead sessions are erased, and the monitor is told in any case.
CastEnds ==
  /\ cast.at = "loop" /\ cast.todo = {}
  /\ sessions' = sessions \ cast.dead
  /\ Update(Cardinality(sessions'))
  /\ cast' = NoCast
  /\ UNCHANGED outputVars

-----------------------------------------------------------------------------

\* Code that answers requests writes to its own session.
Writes(c, s, f) == c # Caster /\ f \notin News /\ Call(c, s, f) /\ UNCHANGED managerVars

Next ==
  \/ \E c \in Coroutines :
       \/ \E s \in Sessions, f \in Frames : Writes(c, s, f)
       \/ OutputStep(c)
  \/ \E s \in Sessions :
       \/ (Close(s) \/ Breaks(s)) /\ UNCHANGED managerVars
       \/ Register(s) \/ Unregister(s)
  \/ TimerExpires \/ HandlerRuns
  \/ \E f \in News : CastStarts(f)
  \/ CastNext \/ CastEnds

Spec == Init /\ [][Next]_vars

\* The executor runs what is ready, time passes, and the peer of a live
\* connection takes what is written to it.
FairSpec ==
  /\ Spec
  /\ \A c \in Coroutines : WF_vars(OutputStep(c))
  /\ WF_vars(TimerExpires) /\ WF_vars(HandlerRuns) /\ WF_vars(CastNext) /\ WF_vars(CastEnds)

-----------------------------------------------------------------------------
(* Properties. *)

\* on_timeout_ is only called when no session is registered, also by a timer
\* that expired just before one came, and at the end of a broadcast.
FiresOnlyWhenIdle == [][fired' # fired => sessions' = {}]_vars

\* Once no session is left for good, on_timeout_ is called.
IdleIsReported == <>[](sessions = {}) => <>(fired > 0)

\* A broadcast puts its frame to every session that was registered when it
\* began, except those whose connection is lost.
BroadcastReaches ==
  cast.at = "loop" =>
    \A s \in cast.copy \ cast.todo :
      Up(s) => cast.frame \in ToSet(wire[s]) \cup ToSet(flight[s]) \cup ToSet(queue[s])

\* What is handed in is on its way until the connection is lost, whoever handed
\* it in and whenever the call returned.
NothingLost == TypeOK /\ OutcomesHonest /\ BroadcastReaches

\* Every session comes to have nothing left to write, whoever was writing when
\* a frame was left in its queue, or its connection is lost.
EverythingGoesOut ==
  \A s \in Sessions : []<>(~Up(s) \/ (queue[s] = << >> /\ flight[s] = << >>))
=============================================================================
