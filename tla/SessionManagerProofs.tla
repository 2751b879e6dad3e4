------------------------ MODULE SessionManagerProofs ------------------------
(***************************************************************************)
(* Theorems about SessionManager for any number of sessions, coroutines    *)
(* and frames: one coroutine writes at a time, nothing that was handed in  *)
(* is lost while the connection lasts, the output implements FrameChannel, *)
(* and the idle report is right.                                           *)
(***************************************************************************)
EXTENDS SessionManager, FiniteSetTheorems, SequenceTheorems, TLAPS

-----------------------------------------------------------------------------
(* Sequences. *)

LEMMA InToSet ==
  ASSUME NEW S, NEW q \in Seq(S)
  PROVE  \A y : y \in ToSet(q) <=> \E i \in 1 .. Len(q) : q[i] = y
<1>1. DOMAIN q = 1 .. Len(q)
  OBVIOUS
<1> QED BY <1>1 DEF ToSet

LEMMA SetOfAppend ==
  ASSUME NEW S, NEW q \in Seq(S), NEW x \in S
  PROVE  /\ Append(q, x) \in Seq(S) /\ Append(q, x) # << >>
         /\ ToSet(Append(q, x)) = ToSet(q) \cup {x}
<1> DEFINE p == Append(q, x)
<1>1. p \in Seq(S) /\ Len(q) \in Nat /\ Len(p) = Len(q) + 1 /\ p # << >>
        /\ p[Len(q) + 1] = x /\ \A i \in 1 .. Len(q) : p[i] = q[i]
  OBVIOUS
<1> HIDE DEF p
<1>2. ASSUME NEW y PROVE y \in ToSet(p) <=> y \in ToSet(q) \cup {x}
  <2>1. y \in ToSet(p) <=> \E i \in 1 .. Len(q) + 1 : p[i] = y
    BY <1>1, InToSet
  <2>2. y \in ToSet(q) <=> \E i \in 1 .. Len(q) : q[i] = y
    BY InToSet
  <2>3. \A i \in 1 .. Len(q) + 1 : i = Len(q) + 1 \/ i \in 1 .. Len(q)
    BY <1>1
  <2>4. \A i \in 1 .. Len(q) : i \in 1 .. Len(q) + 1
    BY <1>1
  <2>5. Len(q) + 1 \in 1 .. Len(q) + 1
    BY <1>1
  <2> QED BY <1>1, <2>1, <2>2, <2>3, <2>4, <2>5
<1>3. ToSet(p) = ToSet(q) \cup {x}
  BY <1>2
<1> QED BY <1>1, <1>3 DEF p

LEMMA SetOfTail ==
  ASSUME NEW S, NEW q \in Seq(S), q # << >>
  PROVE  /\ Head(q) \in S /\ Tail(q) \in Seq(S)
         /\ ToSet(q) = {Head(q)} \cup ToSet(Tail(q))
         /\ q = <<Head(q)>> \o Tail(q)
<1>1. Len(q) \in Nat /\ Len(q) > 0 /\ Head(q) = q[1] /\ q[1] \in S
  OBVIOUS
<1>2. Tail(q) \in Seq(S) /\ Len(Tail(q)) = Len(q) - 1
        /\ \A i \in 1 .. Len(q) - 1 : Tail(q)[i] = q[i + 1]
  BY <1>1
<1>3. ToSet(q) = {Head(q)} \cup ToSet(Tail(q))
  <2>1. /\ \A y : y \in ToSet(q) <=> \E i \in 1 .. Len(q) : q[i] = y
        /\ \A y : y \in ToSet(Tail(q)) <=> \E i \in 1 .. Len(q) - 1 : Tail(q)[i] = y
    <3>1. \A y : y \in ToSet(Tail(q)) <=> \E i \in 1 .. Len(Tail(q)) : Tail(q)[i] = y
      BY <1>2, InToSet
    <3> QED BY <1>2, <3>1, InToSet
  <2>2. ASSUME NEW i \in 1 .. Len(q) PROVE q[i] = Head(q) \/ q[i] \in ToSet(Tail(q))
    <3>1. CASE i = 1
      BY <3>1, <1>1
    <3>2. CASE i # 1
      <4>1. i - 1 \in 1 .. Len(q) - 1 /\ Tail(q)[i - 1] = q[i]
        BY <3>2, <1>1, <1>2
      <4> QED BY <4>1, <2>1
    <3> QED BY <3>1, <3>2
  <2>3. ASSUME NEW i \in 1 .. Len(q) - 1 PROVE Tail(q)[i] \in ToSet(q)
    <3>1. i + 1 \in 1 .. Len(q) /\ Tail(q)[i] = q[i + 1]
      BY <1>1, <1>2
    <3> QED BY <3>1, <2>1
  <2>4. Head(q) \in ToSet(q)
    <3>1. 1 \in 1 .. Len(q)
      BY <1>1
    <3> QED BY <3>1, <1>1, <2>1
  <2> QED BY <2>1, <2>2, <2>3, <2>4
<1>4. q = <<Head(q)>> \o Tail(q)
  BY <1>1, <1>2
<1> QED BY <1>1, <1>2, <1>3, <1>4

\* A sequence of one element.
LEMMA SetOfOne ==
  ASSUME NEW S, NEW q \in Seq(S), Len(q) = 1
  PROVE  /\ q[1] \in S /\ q = <<q[1]>> /\ q # << >>
         /\ ToSet(q) = {q[1]}
         /\ \A w \in Seq(S) : w \o q = Append(w, q[1])
<1>1. q[1] \in S /\ q = <<q[1]>> /\ q # << >>
  BY SMTT(30)
<1>2. ToSet(q) = {q[1]}
  BY <1>1 DEF ToSet
<1>3. ASSUME NEW w \in Seq(S) PROVE w \o q = Append(w, q[1])
  BY <1>1, AppendIsConcat
<1> QED BY <1>1, <1>2, <1>3

LEMMA Concatenations ==
  ASSUME NEW S, NEW f \in Seq(S), NEW q \in Seq(S), NEW x \in S
  PROVE  /\ f \o Append(q, x) = Append(f \o q, x)
         /\ Len(f) = 1 => Head(f \o q) = f[1] /\ Tail(f \o q) = q /\ f \o q # << >>
         /\ << >> \o q = q
<1>1. f \o Append(q, x) = Append(f \o q, x)
  <2>1. <<x>> \in Seq(S) /\ f \o q \in Seq(S)
    BY ConcatProperties
  <2>2. Append(q, x) = q \o <<x>> /\ Append(f \o q, x) = (f \o q) \o <<x>>
    BY <2>1, AppendIsConcat
  <2> QED BY <2>1, <2>2, ConcatAssociative
<1>2. ASSUME Len(f) = 1 PROVE Head(f \o q) = f[1] /\ Tail(f \o q) = q /\ f \o q # << >>
  <2> DEFINE fq == f \o q
  <2>1. /\ fq \in Seq(S) /\ Len(q) \in Nat /\ Len(fq) = 1 + Len(q)
        /\ \A i \in 1 .. 1 + Len(q) : fq[i] = IF i <= 1 THEN f[i] ELSE q[i - 1]
    <3>1. Len(q) \in Nat /\ fq \in Seq(S) /\ Len(fq) = Len(f) + Len(q)
      BY ConcatProperties, LenProperties
    <3>2. \A i \in 1 .. Len(f) + Len(q) : fq[i] = IF i <= Len(f) THEN f[i] ELSE q[i - Len(f)]
      BY ConcatProperties
    <3> QED BY <3>1, <3>2, <1>2
  <2> HIDE DEF fq
  <2>2. fq # << >> /\ Head(fq) = f[1]
    BY <2>1, EmptySeq
  <2>3. /\ Tail(fq) \in Seq(S) /\ Len(Tail(fq)) = Len(q)
        /\ \A i \in 1 .. Len(q) : Tail(fq)[i] = fq[i + 1]
    BY <2>1, <2>2, HeadTailProperties
  <2>4. \A i \in 1 .. Len(q) : fq[i + 1] = q[i]
    BY <2>1
  <2>5. \A i \in 1 .. Len(Tail(fq)) : Tail(fq)[i] = q[i]
    BY <2>3, <2>4
  <2>6. Tail(fq) = q
    BY <2>3, <2>5, SeqEqual
  <2> QED BY <2>2, <2>6 DEF fq
<1>3. << >> \o q = q
  BY ConcatEmptySeq
<1> QED BY <1>1, <1>2, <1>3

-----------------------------------------------------------------------------
(* The output. *)

\* Frames of a session that are on the wire or about to be.
Handed(s) == ToSet(wire[s]) \cup ToSet(flight[s]) \cup ToSet(queue[s])

\* The inductive invariant of the output: who is writing, what is in flight, and
\* where a frame is until its writer has returned and after it.
WriterInv ==
  /\ \A c \in Coroutines : call[c].at = "writing" => inProgress[call[c].session]
  /\ \A s \in Sessions :
       inProgress[s] => \E c \in Coroutines : call[c].at = "writing" /\ call[c].session = s
  /\ \A c, d \in Coroutines :
       call[c].at = "writing" /\ call[d].at = "writing" /\ call[c].session = call[d].session => c = d
  /\ \A s \in Sessions : IF inProgress[s] THEN Len(flight[s]) = 1 ELSE flight[s] = << >>
  /\ \A s \in Sessions : Up(s) /\ queue[s] # << >> => inProgress[s]

FramesInv ==
  /\ \A s \in Sessions : threw[s] # {} => ~Up(s)
  /\ \A s \in Sessions : Up(s) => returned[s] \subseteq Handed(s)
  /\ \A c \in Coroutines :
       call[c].at = "writing" /\ Up(call[c].session) => call[c].frame \in Handed(call[c].session)

OutInv == OutputTypeOK /\ WriterInv /\ FramesInv

LEMMA CallFacts ==
  ASSUME OutputTypeOK, NEW c \in Coroutines, call[c].at \in {"called", "writing"}
  PROVE  call[c] \in Calling /\ call[c].session \in Sessions /\ call[c].frame \in Frames
<1>1. call[c] \in {Idle} \cup Calling
  BY DEF OutputTypeOK
<1>2. call[c] # Idle
  BY DEF Idle
<1> QED BY <1>1, <1>2 DEF Calling

LEMMA OutInvImplies == OutInv => OneWriter /\ OutcomesHonest
<1> SUFFICES ASSUME OutInv PROVE OneWriter /\ OutcomesHonest
  OBVIOUS
<1>1. OneWriter
  <2> SUFFICES ASSUME NEW s \in Sessions
               PROVE  LET writers == {c \in Coroutines : call[c].at = "writing" /\ call[c].session = s}
                      IN  /\ inProgress[s] <=> writers # {}
                          /\ \A c, d \in writers : c = d
                          /\ inProgress[s] <=> Len(flight[s]) = 1
                          /\ ~inProgress[s] => flight[s] = << >>
                          /\ Up(s) /\ queue[s] # << >> => inProgress[s]
    BY DEF OneWriter
  <2>1. Len(<< >>) # 1
    OBVIOUS
  <2> QED BY <2>1 DEF OutInv, WriterInv
<1>2. OutcomesHonest
  BY DEF OutInv, FramesInv, OutcomesHonest, Handed
<1> QED BY <1>1, <1>2

LEMMA InitOutInv == OutputInit => OutInv
<1> SUFFICES ASSUME OutputInit PROVE OutInv
  OBVIOUS
<1>1. OutputTypeOK
  BY DEF OutputInit, OutputTypeOK
<1>2. WriterInv
  BY DEF OutputInit, WriterInv, Idle
<1>3. FramesInv
  BY DEF OutputInit, FramesInv, Idle, Handed
<1> QED BY <1>1, <1>2, <1>3 DEF OutInv

LEMMA CallOutInv ==
  ASSUME OutInv, NEW c \in Coroutines, NEW s \in Sessions, NEW f \in Frames, Call(c, s, f)
  PROVE  OutInv'
<1>1. /\ call' = [call EXCEPT ![c] = [at |-> "called", session |-> s, frame |-> f]]
      /\ UNCHANGED <<isOpen, link, queue, inProgress, flight, wire, returned, threw>>
      /\ call[c] = Idle
      /\ OutputTypeOK /\ WriterInv /\ FramesInv
  BY DEF Call, OutInv
<1>2. OutputTypeOK'
  BY <1>1 DEF OutputTypeOK, Calling
<1>3. \A d \in Coroutines : call'[d].at = "writing" => call'[d] = call[d] /\ call[d].at = "writing"
  BY <1>1 DEF OutputTypeOK
<1>4. \A d \in Coroutines : call[d].at = "writing" => call'[d] = call[d]
  BY <1>1 DEF OutputTypeOK, Idle
<1>5. \A t : Up(t)' = Up(t) /\ Handed(t)' = Handed(t)
  BY <1>1 DEF Up, Handed
<1>6. WriterInv'
  BY <1>1, <1>3, <1>4, <1>5 DEF WriterInv
<1>7. FramesInv'
  BY <1>1, <1>3, <1>5 DEF FramesInv
<1> QED BY <1>2, <1>6, <1>7 DEF OutInv

\* A session that is closed or breaks.
LEMMA DownOutInv ==
  ASSUME OutInv, NEW s \in Sessions, Close(s) \/ Breaks(s)
  PROVE  OutInv'
<1>1. /\ UNCHANGED <<queue, inProgress, flight, wire, call, returned, threw>>
      /\ \A t \in Sessions : Up(t)' => Up(t)
      /\ OutputTypeOK /\ WriterInv /\ FramesInv
  BY DEF Close, Breaks, Up, OutInv, OutputTypeOK
<1>2. OutputTypeOK'
  BY <1>1 DEF Close, Breaks, OutputTypeOK
<1>3. \A t : Handed(t)' = Handed(t)
  BY <1>1 DEF Handed
<1>4. WriterInv'
  BY <1>1 DEF WriterInv
<1>5. \A c \in Coroutines : call[c].at = "writing" => call[c].session \in Sessions
  BY <1>1, CallFacts
<1>6. FramesInv'
  BY <1>1, <1>3, <1>5 DEF FramesInv
<1> QED BY <1>2, <1>4, <1>6 DEF OutInv


\* A coroutine's step is one of six, each on its session s and its frame f.
Refused(c, s, f) ==
  /\ call[c].at = "called" /\ ~isOpen[s]
  /\ call' = [call EXCEPT ![c] = Idle]
  /\ threw' = [threw EXCEPT ![s] = @ \cup {f}] /\ UNCHANGED returned
  /\ UNCHANGED <<queue, inProgress, flight, wire>>

LeavesFrame(c, s, f) ==
  /\ call[c].at = "called" /\ isOpen[s] /\ inProgress[s]
  /\ queue' = [queue EXCEPT ![s] = Append(queue[s], f)]
  /\ call' = [call EXCEPT ![c] = Idle]
  /\ returned' = [returned EXCEPT ![s] = @ \cup {f}] /\ UNCHANGED threw
  /\ UNCHANGED <<inProgress, flight, wire>>

Starts(c, s, f) ==
  /\ call[c].at = "called" /\ isOpen[s] /\ ~inProgress[s]
  /\ inProgress' = [inProgress EXCEPT ![s] = TRUE]
  /\ flight' = [flight EXCEPT ![s] = <<Head(Append(queue[s], f))>>]
  /\ queue' = [queue EXCEPT ![s] = Tail(Append(queue[s], f))]
  /\ call' = [call EXCEPT ![c] = [@ EXCEPT !.at = "writing"]]
  /\ UNCHANGED <<returned, threw, wire>>

GoesOn(c, s) ==
  /\ call[c].at = "writing" /\ Up(s) /\ queue[s] # << >>
  /\ wire' = [wire EXCEPT ![s] = wire[s] \o flight[s]]
  /\ flight' = [flight EXCEPT ![s] = <<Head(queue[s])>>]
  /\ queue' = [queue EXCEPT ![s] = Tail(queue[s])]
  /\ UNCHANGED <<inProgress, call, returned, threw>>

Ends(c, s, f) ==
  /\ call[c].at = "writing" /\ Up(s) /\ queue[s] = << >>
  /\ wire' = [wire EXCEPT ![s] = wire[s] \o flight[s]]
  /\ flight' = [flight EXCEPT ![s] = << >>]
  /\ inProgress' = [inProgress EXCEPT ![s] = FALSE]
  /\ call' = [call EXCEPT ![c] = Idle]
  /\ returned' = [returned EXCEPT ![s] = @ \cup {f}] /\ UNCHANGED threw
  /\ UNCHANGED queue

GivesUp(c, s, f) ==
  /\ call[c].at = "writing" /\ ~Up(s)
  /\ flight' = [flight EXCEPT ![s] = << >>]
  /\ inProgress' = [inProgress EXCEPT ![s] = FALSE]
  /\ call' = [call EXCEPT ![c] = Idle]
  /\ threw' = [threw EXCEPT ![s] = @ \cup {f}] /\ UNCHANGED returned
  /\ UNCHANGED <<queue, wire>>

Kinds(c, s, f) ==
  \/ Refused(c, s, f) \/ LeavesFrame(c, s, f) \/ Starts(c, s, f)
  \/ GoesOn(c, s) \/ Ends(c, s, f) \/ GivesUp(c, s, f)

LEMMA StepKinds ==
  ASSUME OutInv, NEW c \in Coroutines, CoroutineStep(c)
  PROVE  /\ call[c] \in Calling
         /\ UNCHANGED <<isOpen, link>>
         /\ \E s \in Sessions, f \in Frames :
              s = call[c].session /\ f = call[c].frame /\ Kinds(c, s, f)
<1> DEFINE s == call[c].session
           f == call[c].frame
<1>1. call[c].at \in {"called", "writing"}
  BY DEF CoroutineStep, Enter, Written, WriteFails
<1>2. s \in Sessions /\ f \in Frames /\ call[c] \in Calling
  BY <1>1, CallFacts DEF OutInv
<1>3. link[s] \in {"up", "broken"}
  BY <1>2 DEF OutInv, OutputTypeOK
<1>4. CASE Enter(c)
  <2>1. UNCHANGED <<isOpen, link, wire>> /\ call[c].at = "called"
    BY <1>4 DEF Enter
  <2>2. CASE ~isOpen[s]
    <3>1. Refused(c, s, f)
      BY <1>4, <2>2 DEF Enter, Throws, Refused, Up
    <3> QED BY <1>2, <2>1, <3>1 DEF Kinds
  <2>3. CASE isOpen[s] /\ inProgress[s]
    <3>1. LeavesFrame(c, s, f)
      BY <1>4, <2>3 DEF Enter, Returns, LeavesFrame
    <3> QED BY <1>2, <2>1, <3>1 DEF Kinds
  <2>4. CASE isOpen[s] /\ ~inProgress[s]
    <3>1. Starts(c, s, f)
      BY <1>4, <2>4 DEF Enter, Starts
    <3> QED BY <1>2, <2>1, <3>1 DEF Kinds
  <2> QED BY <2>2, <2>3, <2>4
<1>5. CASE Written(c)
  <2>1. UNCHANGED <<isOpen, link>>
    BY <1>5 DEF Written
  <2>2. CASE queue[s] # << >>
    <3>1. GoesOn(c, s)
      BY <1>5, <2>2 DEF Written, GoesOn, Up
    <3> QED BY <1>2, <2>1, <3>1 DEF Kinds
  <2>3. CASE queue[s] = << >>
    <3>1. Ends(c, s, f)
      BY <1>5, <2>3 DEF Written, Returns, Ends, Up
    <3> QED BY <1>2, <2>1, <3>1 DEF Kinds
  <2> QED BY <2>2, <2>3
<1>6. CASE WriteFails(c)
  <2>1. GivesUp(c, s, f) /\ UNCHANGED <<isOpen, link>>
    BY <1>3, <1>6 DEF WriteFails, Throws, GivesUp, Up
  <2> QED BY <1>2, <2>1 DEF Kinds
<1> QED BY <1>4, <1>5, <1>6 DEF CoroutineStep

LEMMA StepType ==
  ASSUME OutInv, NEW c \in Coroutines, CoroutineStep(c)
  PROVE  OutputTypeOK'
<1>1. PICK s \in Sessions, f \in Frames : s = call[c].session /\ f = call[c].frame /\ Kinds(c, s, f)
  BY StepKinds
<1>2. OutputTypeOK /\ call[c] \in Calling /\ UNCHANGED <<isOpen, link>>
  BY StepKinds DEF OutInv
<1>3. queue[s] \in Seq(Frames) /\ flight[s] \in Seq(Frames) /\ wire[s] \in Seq(Frames)
  BY <1>2 DEF OutputTypeOK
<1>4. /\ Append(queue[s], f) \in Seq(Frames)
      /\ Head(Append(queue[s], f)) \in Frames /\ Tail(Append(queue[s], f)) \in Seq(Frames)
  BY <1>3, SetOfAppend, SetOfTail
<1>5. queue[s] # << >> => Head(queue[s]) \in Frames /\ Tail(queue[s]) \in Seq(Frames)
  BY <1>3, SetOfTail
<1>6. wire[s] \o flight[s] \in Seq(Frames) /\ << >> \in Seq(Frames)
  BY <1>3, ConcatProperties, EmptySeq
<1>7. \A x \in Frames : <<x>> \in Seq(Frames)
  OBVIOUS
<1>8. [call[c] EXCEPT !.at = "writing"] \in Calling
  BY <1>2 DEF Calling
<1>9. returned[s] \cup {f} \in SUBSET Frames /\ threw[s] \cup {f} \in SUBSET Frames
  BY <1>2 DEF OutputTypeOK
<1>10. CASE Refused(c, s, f)
  BY <1>2, <1>9, <1>10 DEF Refused, OutputTypeOK
<1>11. CASE LeavesFrame(c, s, f)
  BY <1>2, <1>4, <1>9, <1>11 DEF LeavesFrame, OutputTypeOK
<1>12. CASE Starts(c, s, f)
  BY <1>2, <1>4, <1>7, <1>8, <1>12 DEF Starts, OutputTypeOK
<1>13. CASE GoesOn(c, s)
  BY <1>2, <1>5, <1>6, <1>7, <1>13 DEF GoesOn, OutputTypeOK
<1>14. CASE Ends(c, s, f)
  BY <1>2, <1>6, <1>9, <1>14 DEF Ends, OutputTypeOK
<1>15. CASE GivesUp(c, s, f)
  BY <1>2, <1>6, <1>9, <1>15 DEF GivesUp, OutputTypeOK
<1> QED BY <1>1, <1>10, <1>11, <1>12, <1>13, <1>14, <1>15 DEF Kinds

\* A coroutine that writes has the session to itself.
LEMMA StepWriter ==
  ASSUME OutInv, NEW c \in Coroutines, call[c].at = "writing"
  PROVE  inProgress[call[c].session]
BY DEF OutInv, WriterInv

\* What is handed in stays handed in while the session is up, and a frame that is
\* left or started with is.
LEMMA StepHanded ==
  ASSUME OutInv, NEW c \in Coroutines, NEW s \in Sessions, NEW f \in Frames,
         s = call[c].session, Kinds(c, s, f)
  PROVE  /\ \A t \in Sessions : t # s => Handed(t)' = Handed(t)
         /\ GivesUp(c, s, f) \/ Handed(s) \subseteq Handed(s)'
         /\ LeavesFrame(c, s, f) \/ Starts(c, s, f) => f \in Handed(s)'
<1>1. OutputTypeOK /\ WriterInv
  BY DEF OutInv
<1>2. queue[s] \in Seq(Frames) /\ flight[s] \in Seq(Frames) /\ wire[s] \in Seq(Frames)
  BY <1>1 DEF OutputTypeOK
<1>3. \A t \in Sessions : t # s => wire'[t] = wire[t] /\ flight'[t] = flight[t] /\ queue'[t] = queue[t]
  BY <1>1 DEF Kinds, Refused, LeavesFrame, Starts, GoesOn, Ends, GivesUp, OutputTypeOK
<1>4. \A t \in Sessions : t # s => Handed(t)' = Handed(t)
  BY <1>3 DEF Handed
<1>5. ToSet(<< >>) = {} /\ \A x \in Frames : ToSet(<<x>>) = {x}
  BY DEF ToSet
<1> DEFINE q == Append(queue[s], f)
<1>6. /\ q \in Seq(Frames) /\ q # << >> /\ ToSet(q) = ToSet(queue[s]) \cup {f}
  <2>1. \A p \in Seq(Frames) : /\ Append(p, f) \in Seq(Frames) /\ Append(p, f) # << >>
                               /\ ToSet(Append(p, f)) = ToSet(p) \cup {f}
    BY SetOfAppend
  <2> QED BY <1>2, <2>1
<1>7. Head(q) \in Frames /\ ToSet(q) = {Head(q)} \cup ToSet(Tail(q))
  BY <1>6, SetOfTail
<1>8. CASE Refused(c, s, f)
  BY <1>4, <1>8 DEF Refused, Handed, LeavesFrame, Starts
<1>9. CASE LeavesFrame(c, s, f)
  <2>1. Handed(s)' = Handed(s) \cup {f}
    BY <1>1, <1>6, <1>9 DEF LeavesFrame, Handed, OutputTypeOK
  <2> QED BY <1>4, <2>1
<1>10. CASE Starts(c, s, f)
  <2>1. flight[s] = << >>
    BY <1>1, <1>10 DEF Starts, WriterInv
  <2>2. wire'[s] = wire[s] /\ flight'[s] = <<Head(q)>> /\ queue'[s] = Tail(q)
    BY <1>1, <1>10 DEF Starts, OutputTypeOK
  <2>3. Handed(s)' = ToSet(wire[s]) \cup {Head(q)} \cup ToSet(Tail(q))
    BY <2>2, <1>5, <1>7 DEF Handed
  <2>4. Handed(s)' = ToSet(wire[s]) \cup ToSet(queue[s]) \cup {f}
    BY <2>3, <1>6, <1>7
  <2>5. Handed(s) = ToSet(wire[s]) \cup ToSet(queue[s])
    BY <2>1, <1>5 DEF Handed
  <2> QED BY <1>4, <2>4, <2>5
<1>11. ASSUME GoesOn(c, s) \/ Ends(c, s, f)
       PROVE  ToSet(wire'[s]) = ToSet(wire[s]) \cup ToSet(flight[s])
  <2>1. inProgress[s]
    BY <1>1, <1>11, StepWriter DEF GoesOn, Ends
  <2>2. Len(flight[s]) = 1
    BY <2>1, <1>1 DEF WriterInv
  <2>3. /\ wire[s] \o flight[s] = Append(wire[s], flight[s][1])
        /\ flight[s][1] \in Frames /\ ToSet(flight[s]) = {flight[s][1]}
    <3>1. \A p \in Seq(Frames) : Len(p) = 1 =>
            /\ p[1] \in Frames /\ ToSet(p) = {p[1]}
            /\ \A w \in Seq(Frames) : w \o p = Append(w, p[1])
      BY SetOfOne
    <3> QED BY <2>2, <1>2, <3>1
  <2>4. ToSet(wire[s] \o flight[s]) = ToSet(wire[s]) \cup {flight[s][1]}
    BY <2>3, <1>2, SetOfAppend
  <2>5. wire'[s] = wire[s] \o flight[s]
    BY <1>1, <1>11 DEF GoesOn, Ends, OutputTypeOK
  <2> QED BY <2>3, <2>4, <2>5
<1>12. CASE GoesOn(c, s)
  <2>1. Head(queue[s]) \in Frames /\ ToSet(queue[s]) = {Head(queue[s])} \cup ToSet(Tail(queue[s]))
    BY <1>2, <1>12, SetOfTail DEF GoesOn
  <2>2. flight'[s] = <<Head(queue[s])>> /\ queue'[s] = Tail(queue[s])
    BY <1>1, <1>12 DEF GoesOn, OutputTypeOK
  <2>3. Handed(s)' = Handed(s)
    BY <2>1, <2>2, <1>5, <1>11, <1>12 DEF Handed
  <2>4. ~LeavesFrame(c, s, f) /\ ~Starts(c, s, f)
    BY <1>12 DEF GoesOn, LeavesFrame, Starts
  <2> QED BY <1>4, <2>3, <2>4
<1>13. CASE Ends(c, s, f)
  <2>1. flight'[s] = << >> /\ queue'[s] = queue[s]
    BY <1>1, <1>13 DEF Ends, OutputTypeOK
  <2>2. Handed(s)' = Handed(s)
    BY <2>1, <1>5, <1>11, <1>13 DEF Handed
  <2>3. ~LeavesFrame(c, s, f) /\ ~Starts(c, s, f)
    BY <1>13 DEF Ends, LeavesFrame, Starts
  <2> QED BY <1>4, <2>2, <2>3
<1>14. CASE GivesUp(c, s, f)
  <2>1. ~LeavesFrame(c, s, f) /\ ~Starts(c, s, f)
    BY <1>14 DEF GivesUp, LeavesFrame, Starts
  <2> QED BY <1>4, <1>14, <2>1
<1> QED BY <1>8, <1>9, <1>10, <1>12, <1>13, <1>14 DEF Kinds

LEMMA StepOutInv ==
  ASSUME OutInv, NEW c \in Coroutines, CoroutineStep(c)
  PROVE  OutInv'
<1>1. PICK s \in Sessions, f \in Frames : s = call[c].session /\ f = call[c].frame /\ Kinds(c, s, f)
  BY StepKinds
<1>2. OutputTypeOK /\ WriterInv /\ FramesInv /\ call[c] \in Calling /\ UNCHANGED <<isOpen, link>>
  BY StepKinds DEF OutInv
<1>3. \A t : Up(t)' = Up(t)
  BY <1>2 DEF Up
<1>4. OutputTypeOK'
  BY StepType
<1>5. \A d \in Coroutines : d # c => call'[d] = call[d]
  BY <1>1, <1>2 DEF Kinds, Refused, LeavesFrame, Starts, GoesOn, Ends, GivesUp, OutputTypeOK
<1>6. \A t \in Sessions : t # s =>
        /\ flight'[t] = flight[t] /\ queue'[t] = queue[t] /\ inProgress'[t] = inProgress[t]
        /\ returned'[t] = returned[t] /\ threw'[t] = threw[t]
  BY <1>1, <1>2 DEF Kinds, Refused, LeavesFrame, Starts, GoesOn, Ends, GivesUp, OutputTypeOK
<1>7. \A d \in Coroutines : call[d].at = "writing" => call[d].session \in Sessions
  BY <1>2, CallFacts
<1>8. ASSUME call[c].at = "writing"
      PROVE  /\ inProgress[s] /\ \A d \in Coroutines : call[d].at = "writing" /\ call[d].session = s => d = c
  BY <1>1, <1>2, <1>8 DEF WriterInv
<1>9. [call[c] EXCEPT !.at = "writing"].session = s /\ [call[c] EXCEPT !.at = "writing"].frame = f
        /\ [call[c] EXCEPT !.at = "writing"].at = "writing"
  BY <1>1, <1>2 DEF Calling
<1>10. WriterInv'
  <2>1. CASE Refused(c, s, f)
    <3>1. call'[c] = Idle /\ UNCHANGED <<queue, inProgress, flight>> /\ call[c].at # "writing"
      BY <1>2, <2>1 DEF Refused, OutputTypeOK
    <3>2. \A d \in Coroutines : call'[d].at = "writing" => d # c
      BY <3>1 DEF Idle
    <3> QED BY <1>2, <1>3, <1>5, <3>1, <3>2 DEF WriterInv
  <2>2. CASE LeavesFrame(c, s, f)
    <3>1. call'[c] = Idle /\ UNCHANGED <<inProgress, flight>> /\ call[c].at # "writing" /\ inProgress[s]
      BY <1>2, <2>2 DEF LeavesFrame, OutputTypeOK
    <3>2. \A d \in Coroutines : call'[d].at = "writing" => d # c
      BY <3>1 DEF Idle
    <3>3. \A t \in Sessions : Up(t)' /\ queue'[t] # << >> => inProgress'[t]
      BY <1>2, <1>3, <1>6, <3>1 DEF WriterInv
    <3> QED BY <1>2, <1>5, <3>1, <3>2, <3>3 DEF WriterInv
  <2>3. CASE Starts(c, s, f)
    <3>1. /\ call'[c].at = "writing" /\ call'[c].session = s /\ inProgress'[s] /\ ~inProgress[s]
          /\ call[c].at # "writing" /\ Len(flight'[s]) = 1
      BY <1>2, <1>9, <2>3 DEF Starts, OutputTypeOK
    <3>2. \A d \in Coroutines : d # c /\ call'[d].at = "writing" => call'[d].session # s
      BY <1>2, <1>5, <3>1 DEF WriterInv
    <3>3. \A t \in Sessions : inProgress'[t] =>
            \E d \in Coroutines : call'[d].at = "writing" /\ call'[d].session = t
      <4> TAKE t \in Sessions
      <4>1. CASE t = s
        BY <4>1, <3>1
      <4>2. CASE t # s
        BY <4>2, <1>2, <1>5, <1>6, <3>1 DEF WriterInv
      <4> QED BY <4>1, <4>2
    <3>4. \A d \in Coroutines : call'[d].at = "writing" => inProgress'[call'[d].session]
      BY <1>2, <1>5, <1>6, <1>7, <3>1, <3>2 DEF WriterInv
    <3>5. \A d, e \in Coroutines : call'[d].at = "writing" /\ call'[e].at = "writing"
            /\ call'[d].session = call'[e].session => d = e
      BY <1>2, <1>5, <3>1, <3>2 DEF WriterInv
    <3>6. \A t \in Sessions : IF inProgress'[t] THEN Len(flight'[t]) = 1 ELSE flight'[t] = << >>
      BY <1>2, <1>6, <3>1 DEF WriterInv
    <3>7. \A t \in Sessions : Up(t)' /\ queue'[t] # << >> => inProgress'[t]
      BY <1>2, <1>3, <1>6, <3>1 DEF WriterInv
    <3> QED BY <3>3, <3>4, <3>5, <3>6, <3>7 DEF WriterInv
  <2>4. CASE GoesOn(c, s)
    <3>1. UNCHANGED <<inProgress, call>> /\ inProgress[s] /\ Len(flight'[s]) = 1
      BY <1>2, <1>8, <2>4 DEF GoesOn, OutputTypeOK
    <3>2. \A t \in Sessions : IF inProgress'[t] THEN Len(flight'[t]) = 1 ELSE flight'[t] = << >>
      BY <1>2, <1>6, <3>1 DEF WriterInv
    <3>3. \A t \in Sessions : Up(t)' /\ queue'[t] # << >> => inProgress'[t]
      BY <1>2, <1>3, <1>6, <3>1 DEF WriterInv
    <3> QED BY <1>2, <3>1, <3>2, <3>3 DEF WriterInv
  <2>5. CASE Ends(c, s, f) \/ GivesUp(c, s, f)
    <3>1. /\ call'[c] = Idle /\ ~inProgress'[s] /\ flight'[s] = << >> /\ call[c].at = "writing"
          /\ Up(s) => queue'[s] = << >>
      BY <1>2, <2>5 DEF Ends, GivesUp, OutputTypeOK
    <3>2. \A d \in Coroutines : call'[d].at = "writing" => d # c /\ call'[d] = call[d] /\ call[d].session # s
      BY <1>5, <1>8, <3>1 DEF Idle
    <3>3. \A t \in Sessions : inProgress'[t] => t # s /\ inProgress[t]
      BY <1>6, <3>1
    <3>4. \A t \in Sessions : inProgress'[t] =>
            \E d \in Coroutines : call'[d].at = "writing" /\ call'[d].session = t
      <4> TAKE t \in Sessions
      <4> HAVE inProgress'[t]
      <4>1. PICK d \in Coroutines : call[d].at = "writing" /\ call[d].session = t
        BY <1>2, <3>3 DEF WriterInv
      <4>2. d # c
        BY <1>1, <3>3, <4>1
      <4> QED BY <1>5, <4>1, <4>2
    <3>5. \A d \in Coroutines : call'[d].at = "writing" => inProgress'[call'[d].session]
      BY <1>2, <1>6, <1>7, <3>2 DEF WriterInv
    <3>6. \A d, e \in Coroutines : call'[d].at = "writing" /\ call'[e].at = "writing"
            /\ call'[d].session = call'[e].session => d = e
      BY <1>2, <3>2 DEF WriterInv
    <3>7. \A t \in Sessions : IF inProgress'[t] THEN Len(flight'[t]) = 1 ELSE flight'[t] = << >>
      BY <1>2, <1>6, <3>1 DEF WriterInv
    <3>8. \A t \in Sessions : Up(t)' /\ queue'[t] # << >> => inProgress'[t]
      BY <1>2, <1>3, <1>6, <3>1 DEF WriterInv
    <3> QED BY <3>4, <3>5, <3>6, <3>7, <3>8 DEF WriterInv
  <2> QED BY <1>1, <2>1, <2>2, <2>3, <2>4, <2>5 DEF Kinds
<1>11. FramesInv'
  <2>1. /\ \A t \in Sessions : t # s => Handed(t)' = Handed(t)
        /\ Up(s) => Handed(s) \subseteq Handed(s)'
        /\ LeavesFrame(c, s, f) \/ Starts(c, s, f) => f \in Handed(s)'
    BY <1>1, StepHanded DEF GivesUp
  <2>0. \/ call'[c] = Idle
        \/ Starts(c, s, f) /\ call'[c] = [call[c] EXCEPT !.at = "writing"]
        \/ GoesOn(c, s) /\ call'[c] = call[c]
    <3>1. Refused(c, s, f) \/ LeavesFrame(c, s, f) \/ Ends(c, s, f) \/ GivesUp(c, s, f) => call'[c] = Idle
      BY <1>2 DEF Refused, LeavesFrame, Ends, GivesUp, OutputTypeOK
    <3>2. Starts(c, s, f) => call'[c] = [call[c] EXCEPT !.at = "writing"]
      BY <1>2 DEF Starts, OutputTypeOK
    <3>3. GoesOn(c, s) => call'[c] = call[c]
      BY DEF GoesOn
    <3> QED BY <1>1, <3>1, <3>2, <3>3 DEF Kinds
  <2>2. \A t \in Sessions : threw'[t] # {} => ~Up(t)'
    <3>1. threw'[s] = threw[s] \/ ~Up(s)
      BY <1>1, <1>2 DEF Up, Kinds, Refused, LeavesFrame, Starts, GoesOn, Ends, GivesUp
    <3> QED BY SMTT(60), <1>2, <1>3, <1>6, <3>1 DEF FramesInv
  <2>3. Ends(c, s, f) /\ Up(s) => f \in Handed(s)
    BY <1>1, <1>2 DEF Ends, FramesInv
  <2>4. Up(s) => returned'[s] \subseteq Handed(s)'
    <3>1. returned'[s] = returned[s] \/ (returned'[s] = returned[s] \cup {f}
            /\ (LeavesFrame(c, s, f) \/ Ends(c, s, f)))
      BY <1>1, <1>2 DEF Kinds, Refused, LeavesFrame, Starts, GoesOn, Ends, GivesUp, OutputTypeOK
    <3> QED BY SMTT(60), <1>2, <2>1, <2>3, <3>1 DEF FramesInv
  <2>5. \A t \in Sessions : Up(t)' => returned'[t] \subseteq Handed(t)'
    BY <1>2, <1>3, <1>6, <2>1, <2>4 DEF FramesInv
  <2>6. ASSUME NEW d \in Coroutines, NEW t \in Sessions,
               call'[d].at = "writing", call'[d].session = t, Up(t)
        PROVE  call'[d].frame \in Handed(t)'
    <3>1. CASE d # c
      <4>1. call'[d] = call[d] /\ call[d].at = "writing"
        BY <1>5, <2>6, <3>1
      <4>2. call'[d].frame \in Handed(t)
        BY <1>2, <2>6, <4>1 DEF FramesInv
      <4>3. t = s \/ t # s
        OBVIOUS
      <4> QED BY <2>1, <2>6, <4>2, <4>3
    <3>2. CASE d = c
      <4>0. call'[c].at = "writing" /\ call'[c] # Idle
        BY <2>6, <3>2 DEF Idle
      <4>1. Starts(c, s, f) \/ (GoesOn(c, s) /\ call[c].at = "writing")
        BY <2>0, <4>0
      <4>2. call'[c].frame = f /\ call'[c].session = s
        BY <1>1, <1>9, <2>0, <4>0
      <4>3. GoesOn(c, s) => f \in Handed(s)
        BY <1>1, <1>2 DEF GoesOn, FramesInv
      <4>4. t = s /\ Up(s)
        BY <2>6, <3>2, <4>2
      <4> QED BY <2>1, <3>2, <4>1, <4>2, <4>3, <4>4
    <3> QED BY <3>1, <3>2
  <2>7. \A d \in Coroutines : call'[d].at = "writing" => call'[d].session \in Sessions
    <3> TAKE d \in Coroutines
    <3> HAVE call'[d].at = "writing"
    <3>1. CASE d # c
      BY <1>5, <1>7, <3>1
    <3>2. CASE d = c
      <4>1. call'[c] # Idle
        BY <3>2 DEF Idle
      <4> QED BY <1>1, <1>9, <2>0, <3>2, <4>1
    <3> QED BY <3>1, <3>2
  <2>8. \A d \in Coroutines :
          (call[d].at = "writing" /\ Up(call[d].session) => call[d].frame \in Handed(call[d].session))'
    <3> TAKE d \in Coroutines
    <3>1. SUFFICES ASSUME call'[d].at = "writing", Up(call[d].session)'
                   PROVE  (call[d].frame \in Handed(call[d].session))'
      OBVIOUS
    <3>2. PICK t \in Sessions : t = call'[d].session
      BY <2>7, <3>1
    <3>3. Up(t)'
      BY <3>1, <3>2
    <3>4. call'[d].frame \in Handed(t)'
      BY <1>3, <2>6, <3>1, <3>2, <3>3
    <3> QED BY <3>2, <3>4
  <2> QED BY <2>2, <2>5, <2>8 DEF FramesInv
<1> QED BY <1>4, <1>10, <1>11 DEF OutInv

-----------------------------------------------------------------------------
(* The manager. *)

\* The first generation is the one before any session came.
MonitorInv ==
  /\ sessions \subseteq Sessions
  /\ generation \in Nat /\ generation >= 1 /\ fired \in Nat
  /\ timer \in {"armed", "off", "expired"}
  /\ generation = 1 => sessions = {}

\* Where broadcast is: the session it is writing to, and those it has done with,
\* whose call has returned or whose connection is lost.
CastInv ==
  /\ cast \in {NoCast} \cup Cast
  /\ cast.at # "writing" => call[Caster] = Idle
  /\ cast.at = "writing" =>
       call[Caster] # Idle /\ call[Caster].frame = cast.frame
         /\ call[Caster].session \in Sessions
  /\ cast # NoCast =>
       \A s \in cast.copy \ cast.todo :
         \/ cast.at = "writing" /\ call[Caster].session = s
         \/ Up(s) => cast.frame \in returned[s]

IInv == OutInv /\ MonitorInv /\ CastInv

LEMMA IInvImplies == IInv => OneWriter /\ NothingLost
<1> SUFFICES ASSUME IInv PROVE OneWriter /\ NothingLost
  OBVIOUS
<1>1. OneWriter /\ OutcomesHonest
  BY OutInvImplies DEF IInv
<1>2. TypeOK
  BY DEF IInv, OutInv, MonitorInv, CastInv, TypeOK
<1>3. BroadcastReaches
  <2> SUFFICES ASSUME cast.at = "loop", NEW s \in cast.copy \ cast.todo, Up(s)
               PROVE  cast.frame \in Handed(s)
    BY DEF BroadcastReaches, Handed
  <2>1. cast # NoCast
    BY DEF NoCast
  <2>2. cast.copy \subseteq Sessions
    BY <2>1 DEF IInv, CastInv, Cast
  <2>3. cast.frame \in returned[s]
    BY <2>1 DEF IInv, CastInv
  <2> QED BY <2>2, <2>3 DEF IInv, OutInv, FramesInv
<1> QED BY <1>1, <1>2, <1>3 DEF NothingLost

LEMMA UpdateFacts ==
  ASSUME MonitorInv, sessions' \subseteq Sessions, Update(Cardinality(sessions'))
  PROVE  MonitorInv' /\ (fired' # fired => sessions' = {})
<1>1. IsFiniteSet(sessions')
  BY ManagerAssumption, FS_Subset
<1>2. Cardinality(sessions') = 0 => sessions' = {}
  BY <1>1, FS_EmptySet
<1>3. generation' = generation + 1 /\ generation' # 1
  BY DEF Update, MonitorInv
<1>4. fired' \in Nat /\ timer' \in {"armed", "off", "expired"}
  BY DEF Update, MonitorInv
<1> QED BY <1>2, <1>3, <1>4 DEF Update, MonitorInv

\* A change of the sessions' state that does not touch the caster's call.
LEMMA CastKept ==
  ASSUME CastInv, UNCHANGED cast, call'[Caster] = call[Caster],
         \A s \in Sessions : (Up(s)' => Up(s)) /\ returned[s] \subseteq returned'[s]
  PROVE  CastInv'
<1>1. cast # NoCast => cast.copy \subseteq Sessions
  BY DEF CastInv, Cast
<1>2. cast # NoCast =>
        \A s \in cast.copy \ cast.todo :
          \/ cast.at = "writing" /\ call[Caster].session = s
          \/ Up(s)' => cast.frame \in returned'[s]
  BY <1>1 DEF CastInv
<1> QED BY <1>2 DEF CastInv

LEMMA StepReturned ==
  ASSUME OutInv, NEW c \in Coroutines, CoroutineStep(c)
  PROVE  /\ \A s \in Sessions : Up(s)' = Up(s) /\ returned[s] \subseteq returned'[s]
         /\ \A d \in Coroutines : d # c => call'[d] = call[d]
         /\ call[c] # Idle
         /\ \/ call'[c] # Idle /\ call'[c].session = call[c].session /\ call'[c].frame = call[c].frame
            \/ /\ call'[c] = Idle
               /\ Up(call[c].session) => call[c].frame \in returned'[call[c].session]
<1>1. PICK s \in Sessions, f \in Frames : s = call[c].session /\ f = call[c].frame /\ Kinds(c, s, f)
  BY StepKinds
<1>2. OutputTypeOK /\ call[c] \in Calling /\ UNCHANGED <<isOpen, link>>
  BY StepKinds DEF OutInv
<1>3. \A t : Up(t)' = Up(t)
  BY SMTT(60), <1>2 DEF Up
<1>4. returned' = returned \/ returned' = [returned EXCEPT ![s] = @ \cup {f}]
  BY <1>1 DEF Kinds, Refused, LeavesFrame, Starts, GoesOn, Ends, GivesUp
<1>5. \A t \in Sessions : returned[t] \subseteq returned'[t]
  BY <1>2, <1>4 DEF OutputTypeOK
<1>6. \A d \in Coroutines : d # c => call'[d] = call[d]
  BY <1>1, <1>2 DEF Kinds, Refused, LeavesFrame, Starts, GoesOn, Ends, GivesUp, OutputTypeOK
<1>7. call[c] # Idle
  BY <1>2 DEF Calling, Idle
<1>8. CASE Refused(c, s, f) \/ GivesUp(c, s, f)
  BY <1>1, <1>2, <1>3, <1>5, <1>6, <1>7, <1>8 DEF Refused, GivesUp, OutputTypeOK, Up
<1>9. CASE LeavesFrame(c, s, f) \/ Ends(c, s, f)
  <2>1. call'[c] = Idle /\ f \in returned'[s]
    BY <1>2, <1>9 DEF LeavesFrame, Ends, OutputTypeOK
  <2> QED BY <1>1, <1>3, <1>5, <1>6, <1>7, <2>1
<1>10. CASE Starts(c, s, f) \/ GoesOn(c, s)
  <2>1. call'[c] = call[c] \/ call'[c] = [call[c] EXCEPT !.at = "writing"]
    BY <1>2, <1>10 DEF Starts, GoesOn, OutputTypeOK
  <2>2. call'[c] # Idle /\ call'[c].session = call[c].session /\ call'[c].frame = call[c].frame
    BY <1>2, <1>7, <2>1 DEF Calling, Idle
  <2> QED BY <1>3, <1>5, <1>6, <1>7, <2>2
<1> QED BY <1>1, <1>8, <1>9, <1>10 DEF Kinds

LEMMA InitIInv == Init => IInv
<1> SUFFICES ASSUME Init PROVE IInv
  OBVIOUS
<1>1. OutInv
  BY InitOutInv DEF Init
<1>2. MonitorInv
  BY DEF Init, MonitorInv
<1>3. CastInv
  BY ManagerAssumption DEF Init, OutputInit, CastInv, NoCast, Idle
<1> QED BY <1>1, <1>2, <1>3 DEF IInv

LEMMA NextIInv ==
  ASSUME IInv, [Next]_vars
  PROVE  IInv' /\ (fired' # fired => sessions' = {})
<1>1. OutInv /\ MonitorInv /\ CastInv /\ Caster \in Coroutines /\ News \subseteq Frames
  BY ManagerAssumption DEF IInv
<1>2. ASSUME UNCHANGED outputVars
      PROVE  /\ OutInv' /\ (cast' = cast => CastInv')
             /\ UNCHANGED <<isOpen, link, call, returned>> /\ \A s : Up(s)' = Up(s)
  <2>1. UNCHANGED <<isOpen, link, queue, inProgress, flight, wire, call, returned, threw>>
    BY <1>2 DEF outputVars
  <2>2. \A s : Up(s)' = Up(s) /\ Handed(s)' = Handed(s)
    BY <2>1 DEF Up, Handed
  <2>3. OutInv'
    BY <1>1, <2>1, <2>2 DEF OutInv, OutputTypeOK, WriterInv, FramesInv
  <2> QED BY <1>1, <2>1, <2>2, <2>3, CastKept
<1>3. ASSUME UNCHANGED <<sessions, generation, timer, fired>>
      PROVE  MonitorInv' /\ fired' = fired
  BY <1>1, <1>3 DEF MonitorInv
<1>4. ASSUME NEW c \in Coroutines, NEW s \in Sessions, NEW f \in Frames, Writes(c, s, f)
      PROVE  IInv' /\ fired' = fired
  <2>1. Call(c, s, f) /\ UNCHANGED managerVars /\ c # Caster
    BY <1>4 DEF Writes
  <2>2. OutInv'
    BY <1>1, <2>1, CallOutInv
  <2>3. UNCHANGED <<isOpen, link, returned, cast>> /\ call'[Caster] = call[Caster]
    BY <1>1, <2>1 DEF Call, managerVars, OutInv, OutputTypeOK
  <2>4. CastInv'
    BY <1>1, <2>3, CastKept DEF Up
  <2> QED BY <1>3, <2>1, <2>2, <2>4 DEF IInv, managerVars
<1>5. ASSUME NEW c \in Coroutines, OutputStep(c)
      PROVE  IInv' /\ fired' = fired
  <2>1. CoroutineStep(c) /\ UNCHANGED <<sessions, generation, timer, fired>>
    BY <1>5 DEF OutputStep
  <2>2. OutInv'
    BY <1>1, <2>1, StepOutInv
  <2>3. /\ \A s \in Sessions : Up(s)' = Up(s) /\ returned[s] \subseteq returned'[s]
        /\ \A d \in Coroutines : d # c => call'[d] = call[d]
        /\ call[c] # Idle
    BY <1>1, <2>1, StepReturned
  <2>4. CASE c # Caster
    <3>1. UNCHANGED cast /\ call'[Caster] = call[Caster]
      BY <1>1, <1>5, <2>3, <2>4 DEF OutputStep
    <3> QED BY <1>1, <1>3, <2>1, <2>2, <2>3, <3>1, CastKept DEF IInv
  <2>5. CASE c = Caster
    <3>1. cast.at = "writing" /\ cast \in Cast /\ cast # NoCast
            /\ call[c].session \in Sessions /\ call[c].frame = cast.frame
      BY <1>1, <2>3, <2>5 DEF CastInv, NoCast
    <3> DEFINE t == call[c].session
    <3>2. CASE call'[c] # Idle
      <4>1. UNCHANGED cast /\ call'[c].session = t /\ call'[c].frame = cast.frame
        BY <1>1, <1>5, <2>1, <3>1, <3>2, StepReturned DEF OutputStep
      <4>2. \A s \in cast.copy \ cast.todo :
              (cast.at = "writing" /\ t = s) \/ (Up(s)' => cast.frame \in returned'[s])
        BY <1>1, <2>3, <2>5, <3>1 DEF CastInv, Cast
      <4>3. CastInv'
        BY <1>1, <2>5, <3>1, <3>2, <4>1, <4>2 DEF CastInv
      <4> QED BY <1>3, <2>1, <2>2, <4>3 DEF IInv
    <3>3. CASE call'[c] = Idle
      <4>1. /\ cast' = [cast EXCEPT !.at = "loop",
                                    !.dead = IF cast.frame \in threw'[t] THEN @ \cup {t} ELSE @]
            /\ Up(t) => cast.frame \in returned'[t]
        BY <1>1, <1>5, <2>1, <2>5, <3>1, <3>3, StepReturned DEF OutputStep
      <4>2. /\ cast' \in Cast /\ cast'.at = "loop" /\ cast' # NoCast
            /\ cast'.copy = cast.copy /\ cast'.todo = cast.todo /\ cast'.frame = cast.frame
        BY <3>1, <4>1 DEF Cast, NoCast
      <4>3. \A s \in cast.copy \ cast.todo : Up(s)' => cast.frame \in returned'[s]
        BY <1>1, <2>3, <2>5, <3>1, <4>1 DEF CastInv, Cast
      <4>4. CastInv'
        BY <2>5, <3>3, <4>2, <4>3 DEF CastInv
      <4> QED BY <1>3, <2>1, <2>2, <4>4 DEF IInv
    <3> QED BY <3>2, <3>3
  <2> QED BY <2>4, <2>5
<1>6. ASSUME NEW s \in Sessions, (Close(s) \/ Breaks(s)) /\ UNCHANGED managerVars
      PROVE  IInv' /\ fired' = fired
  <2>1. OutInv'
    BY <1>1, <1>6, DownOutInv
  <2>2. UNCHANGED <<call, returned, cast>> /\ \A t \in Sessions : Up(t)' => Up(t)
    BY <1>1, <1>6 DEF Close, Breaks, managerVars, Up, OutInv, OutputTypeOK
  <2>3. CastInv'
    BY <1>1, <2>2, CastKept
  <2> QED BY <1>3, <1>6, <2>1, <2>3 DEF IInv, managerVars
<1>7. ASSUME NEW s \in Sessions, Register(s) \/ Unregister(s)
      PROVE  IInv' /\ (fired' # fired => sessions' = {})
  <2>1. UNCHANGED <<outputVars, cast>> /\ sessions' \subseteq Sessions
          /\ Update(Cardinality(sessions'))
    BY <1>1, <1>7 DEF Register, Unregister, MonitorInv
  <2> QED BY <1>1, <1>2, <2>1, UpdateFacts DEF IInv
<1>8. ASSUME TimerExpires
      PROVE  IInv' /\ fired' = fired
  BY <1>1, <1>2, <1>8 DEF TimerExpires, MonitorInv, IInv
<1>9. ASSUME HandlerRuns
      PROVE  IInv' /\ (fired' # fired => sessions' = {})
  BY <1>1, <1>2, <1>9 DEF HandlerRuns, MonitorInv, IInv
<1>10. ASSUME NEW f \in News, CastStarts(f)
       PROVE  IInv' /\ fired' = fired
  <2>1. /\ UNCHANGED <<outputVars, sessions, generation, timer, fired>> /\ cast = NoCast
        /\ cast' = [at |-> "loop", frame |-> f, copy |-> sessions, todo |-> sessions, dead |-> {}]
    BY <1>10 DEF CastStarts
  <2>2. cast' \in Cast /\ cast'.at = "loop" /\ cast' # NoCast /\ cast'.copy \ cast'.todo = {}
    BY <1>1, <2>1 DEF Cast, MonitorInv, NoCast
  <2>3. call[Caster] = Idle
    BY <1>1, <2>1 DEF CastInv, NoCast
  <2>4. CastInv'
    BY <1>2, <2>1, <2>2, <2>3 DEF CastInv
  <2> QED BY <1>2, <1>3, <2>1, <2>4 DEF IInv
<1>11. ASSUME CastNext
       PROVE  IInv' /\ fired' = fired
  <2>1. PICK s \in cast.todo :
          IF isOpen[s]
          THEN Call(Caster, s, cast.frame) /\ cast' = [cast EXCEPT !.at = "writing", !.todo = @ \ {s}]
          ELSE cast' = [cast EXCEPT !.todo = @ \ {s}, !.dead = @ \cup {s}] /\ UNCHANGED outputVars
    BY <1>11 DEF CastNext
  <2>2. UNCHANGED <<sessions, generation, timer, fired>> /\ cast.at = "loop"
    BY <1>11 DEF CastNext
  <2>3. cast \in Cast /\ cast # NoCast /\ call[Caster] = Idle
    BY <1>1, <2>2 DEF CastInv, NoCast
  <2>4. s \in Sessions /\ cast.frame \in Frames /\ cast.copy \subseteq Sessions
    BY <2>3 DEF Cast
  <2>5. \A t \in cast.copy \ cast.todo : Up(t) => cast.frame \in returned[t]
    BY <1>1, <2>2, <2>3 DEF CastInv
  <2>6. CASE isOpen[s]
    <3>1. Call(Caster, s, cast.frame) /\ cast' = [cast EXCEPT !.at = "writing", !.todo = @ \ {s}]
      BY <2>1, <2>6
    <3>2. OutInv'
      BY <1>1, <2>4, <3>1, CallOutInv
    <3>3. /\ cast' \in Cast /\ cast'.at = "writing" /\ cast' # NoCast
          /\ cast'.copy = cast.copy /\ cast'.todo = cast.todo \ {s} /\ cast'.frame = cast.frame
      BY <2>3, <3>1 DEF Cast, NoCast
    <3>4. /\ call'[Caster] = [at |-> "called", session |-> s, frame |-> cast.frame]
          /\ UNCHANGED <<isOpen, link, returned>>
      BY <1>1, <3>1 DEF Call, OutInv, OutputTypeOK
    <3>5. \A t \in cast'.copy \ cast'.todo : t = s \/ (Up(t)' => cast'.frame \in returned'[t])
      BY <2>5, <3>3, <3>4 DEF Up
    <3>6. call'[Caster] # Idle /\ call'[Caster].session = s /\ call'[Caster].frame = cast'.frame
      BY <3>3, <3>4 DEF Idle
    <3>7. CastInv'
      BY <2>4, <3>3, <3>5, <3>6 DEF CastInv
    <3> QED BY <1>3, <2>2, <3>2, <3>7 DEF IInv
  <2>7. CASE ~isOpen[s]
    <3>1. cast' = [cast EXCEPT !.todo = @ \ {s}, !.dead = @ \cup {s}] /\ UNCHANGED outputVars
      BY <2>1, <2>7
    <3>2. /\ cast' \in Cast /\ cast'.at = "loop" /\ cast' # NoCast
          /\ cast'.copy = cast.copy /\ cast'.todo = cast.todo \ {s} /\ cast'.frame = cast.frame
      BY <2>2, <2>3, <2>4, <3>1 DEF Cast, NoCast
    <3>3. UNCHANGED <<isOpen, link, call, returned>> /\ OutInv' /\ \A t : Up(t)' = Up(t)
      BY <1>2, <3>1
    <3>4. \A t \in cast'.copy \ cast'.todo : Up(t)' => cast'.frame \in returned'[t]
      BY <2>5, <2>7, <3>2, <3>3 DEF Up
    <3>5. CastInv'
      BY <2>3, <3>2, <3>3, <3>4 DEF CastInv
    <3> QED BY <1>3, <2>2, <3>3, <3>5 DEF IInv
  <2> QED BY <2>6, <2>7
<1>12. ASSUME CastEnds
       PROVE  IInv' /\ (fired' # fired => sessions' = {})
  <2>1. /\ UNCHANGED outputVars /\ cast' = NoCast /\ cast.at = "loop"
        /\ sessions' \subseteq Sessions /\ Update(Cardinality(sessions'))
    BY <1>1, <1>12 DEF CastEnds, MonitorInv
  <2>2. call'[Caster] = Idle
    BY <1>1, <1>2, <2>1 DEF CastInv
  <2>3. CastInv'
    BY <2>1, <2>2 DEF CastInv, NoCast
  <2> QED BY <1>1, <1>2, <2>1, <2>3, UpdateFacts DEF IInv
<1>13. ASSUME UNCHANGED vars
       PROVE  IInv' /\ fired' = fired
  BY <1>2, <1>3, <1>13 DEF vars, managerVars, IInv
<1> QED BY <1>4, <1>5, <1>6, <1>7, <1>8, <1>9, <1>10, <1>11, <1>12, <1>13 DEF Next

THEOREM SpecIInv == Spec => []IInv
<1>1. Init => IInv
  BY InitIInv
<1>2. IInv /\ [Next]_vars => IInv'
  BY NextIInv
<1> QED BY <1>1, <1>2, PTL DEF Spec

\* Whoever calls write_framed and however the calls interleave, one coroutine
\* writes to a session at a time, and a frame left in the queue has a writer.
THEOREM OneWriterAlways == Spec => []OneWriter
<1>1. IInv => OneWriter
  BY IInvImplies
<1> QED BY <1>1, SpecIInv, PTL

\* What write_framed and broadcast took is on its way until the connection is
\* lost, and every variable has its type.
THEOREM NothingLostEver == Spec => []NothingLost
<1>1. IInv => NothingLost
  BY IInvImplies
<1> QED BY <1>1, SpecIInv, PTL

\* Whatever order sessions come and go in, and whenever the first timer runs, the
\* monitor reports only when no session is registered.
THEOREM ReportsOnlyWhenIdle == Spec => FiresOnlyWhenIdle
<1>1. IInv /\ [Next]_vars => [fired' # fired => sessions' = {}]_vars
  BY NextIInv
<1> QED BY <1>1, SpecIInv, PTL DEF Spec, FiresOnlyWhenIdle

-----------------------------------------------------------------------------
(* The output implements FrameChannel. *)

Waiting == [s \in Sessions |-> flight[s] \o queue[s]]
Ups == [s \in Sessions |-> Up(s)]

\* A change of one session's frames.
LEMMA WaitingOf ==
  ASSUME NEW s \in Sessions, NEW w,
         flight'[s] \o queue'[s] = w,
         \A t \in Sessions : t # s => flight'[t] = flight[t] /\ queue'[t] = queue[t]
  PROVE  Waiting' = [Waiting EXCEPT ![s] = w]
BY DEF Waiting

LEMMA StepChannel ==
  ASSUME OutInv, NEW c \in Coroutines, CoroutineStep(c)
  PROVE  Channel!Next \/ UNCHANGED <<Waiting, wire, Ups>>
<1>1. PICK s \in Sessions, f \in Frames : s = call[c].session /\ f = call[c].frame /\ Kinds(c, s, f)
  BY StepKinds
<1>2. OutputTypeOK /\ WriterInv /\ UNCHANGED <<isOpen, link>>
  BY StepKinds DEF OutInv
<1>3. UNCHANGED Ups
  BY <1>2 DEF Ups, Up
<1>4. queue[s] \in Seq(Frames) /\ flight[s] \in Seq(Frames) /\ wire[s] \in Seq(Frames)
  BY <1>2 DEF OutputTypeOK
<1>5. \A t \in Sessions : t # s => flight'[t] = flight[t] /\ queue'[t] = queue[t]
  BY <1>1, <1>2 DEF Kinds, Refused, LeavesFrame, Starts, GoesOn, Ends, GivesUp, OutputTypeOK
<1>6. Waiting[s] = flight[s] \o queue[s] /\ Ups[s] = Up(s)
  BY DEF Waiting, Ups
<1>7. Channel!Put(s, f) <=> Waiting' = [Waiting EXCEPT ![s] = Append(Waiting[s], f)] /\ UNCHANGED <<wire, Ups>>
  BY DEF Channel!Put, Waiting, Ups
<1>8. Channel!GoesOut(s) <=> /\ Waiting[s] # << >> /\ Ups[s]
                             /\ wire' = [wire EXCEPT ![s] = Append(wire[s], Head(Waiting[s]))]
                             /\ Waiting' = [Waiting EXCEPT ![s] = Tail(Waiting[s])]
                             /\ UNCHANGED Ups
  BY DEF Channel!GoesOut, Waiting, Ups
<1>9. Channel!Loses(s) <=> /\ Waiting[s] # << >> /\ ~Ups[s]
                           /\ Waiting' = [Waiting EXCEPT ![s] = Tail(Waiting[s])]
                           /\ UNCHANGED <<wire, Ups>>
  BY DEF Channel!Loses, Waiting, Ups
<1>10. CASE Refused(c, s, f)
  BY <1>3, <1>10 DEF Refused, Waiting
<1>11. CASE LeavesFrame(c, s, f)
  <2>1. flight'[s] = flight[s] /\ queue'[s] = Append(queue[s], f) /\ UNCHANGED wire
    BY <1>2, <1>11 DEF LeavesFrame, OutputTypeOK
  <2>2. flight[s] \o Append(queue[s], f) = Append(flight[s] \o queue[s], f)
    <3>1. \A p, r \in Seq(Frames) : p \o Append(r, f) = Append(p \o r, f)
      BY Concatenations
    <3> QED BY <1>4, <3>1
  <2>3. flight'[s] \o queue'[s] = Append(Waiting[s], f)
    BY <1>6, <2>1, <2>2
  <2>4. Waiting' = [Waiting EXCEPT ![s] = Append(Waiting[s], f)]
    BY <1>5, <2>3, WaitingOf
  <2>5. Channel!Put(s, f)
    BY <1>3, <1>7, <2>1, <2>4
  <2> QED BY <2>5 DEF Channel!Next
<1>12. CASE Starts(c, s, f)
  <2> DEFINE q == Append(queue[s], f)
  <2>1. flight[s] = << >>
    BY <1>2, <1>12 DEF Starts, WriterInv
  <2>2. flight'[s] = <<Head(q)>> /\ queue'[s] = Tail(q) /\ UNCHANGED wire
    BY <1>2, <1>12 DEF Starts, OutputTypeOK
  <2>3. q = <<Head(q)>> \o Tail(q)
    BY <1>4, SetOfAppend, SetOfTail
  <2>4. Waiting[s] = queue[s]
    BY <1>4, <1>6, <2>1, Concatenations
  <2>5. flight'[s] \o queue'[s] = Append(Waiting[s], f)
    BY <2>2, <2>3, <2>4
  <2>6. Channel!Put(s, f)
    BY <1>3, <1>5, <1>7, <2>2, <2>5, WaitingOf
  <2> QED BY <2>6 DEF Channel!Next
<1>13. ASSUME call[c].at = "writing"
       PROVE  /\ Waiting[s] # << >> /\ Tail(Waiting[s]) = queue[s]
              /\ wire[s] \o flight[s] = Append(wire[s], Head(Waiting[s]))
  <2>1. Len(flight[s]) = 1
    BY <1>1, <1>2, <1>13 DEF WriterInv
  <2>2. Head(Waiting[s]) = flight[s][1] /\ Tail(Waiting[s]) = queue[s] /\ Waiting[s] # << >>
    <3>1. flight[s][1] \in Frames
      BY <1>4, <2>1, SetOfOne
    <3>2. \A p, r \in Seq(Frames) : Len(p) = 1 =>
            Head(p \o r) = p[1] /\ Tail(p \o r) = r /\ p \o r # << >>
      <4> TAKE p, r \in Seq(Frames)
      <4> QED BY <3>1, Concatenations
    <3> QED BY <1>4, <1>6, <2>1, <3>2
  <2>3. wire[s] \o flight[s] = Append(wire[s], flight[s][1])
    BY <1>4, <2>1, SetOfOne
  <2> QED BY <2>2, <2>3
<1>14. CASE GoesOn(c, s)
  <2>1. /\ flight'[s] = <<Head(queue[s])>> /\ queue'[s] = Tail(queue[s])
        /\ wire' = [wire EXCEPT ![s] = wire[s] \o flight[s]]
        /\ call[c].at = "writing" /\ Up(s) /\ queue[s] # << >>
    BY <1>2, <1>14 DEF GoesOn, OutputTypeOK
  <2>2. flight'[s] \o queue'[s] = Tail(Waiting[s])
    BY <1>4, <1>13, <2>1, SetOfTail
  <2>3. Waiting' = [Waiting EXCEPT ![s] = Tail(Waiting[s])]
    BY <1>5, <2>2, WaitingOf
  <2>4. Channel!GoesOut(s)
    BY <1>3, <1>6, <1>8, <1>13, <2>1, <2>3
  <2> QED BY <2>4 DEF Channel!Next
<1>15. ASSUME Ends(c, s, f) \/ GivesUp(c, s, f)
       PROVE  Waiting' = [Waiting EXCEPT ![s] = Tail(Waiting[s])] /\ call[c].at = "writing"
  <2>1. flight'[s] = << >> /\ queue'[s] = queue[s] /\ call[c].at = "writing"
    BY <1>2, <1>15 DEF Ends, GivesUp, OutputTypeOK
  <2>2. flight'[s] \o queue'[s] = Tail(Waiting[s])
    BY <1>1, <1>4, <1>13, <2>1, Concatenations
  <2> QED BY <1>5, <2>1, <2>2, WaitingOf
<1>16. CASE Ends(c, s, f)
  <2>1. wire' = [wire EXCEPT ![s] = wire[s] \o flight[s]] /\ Up(s)
    BY <1>16 DEF Ends
  <2>2. Channel!GoesOut(s)
    BY <1>3, <1>6, <1>8, <1>13, <1>15, <1>16, <2>1
  <2> QED BY <2>2 DEF Channel!Next
<1>17. CASE GivesUp(c, s, f)
  <2>1. UNCHANGED wire /\ ~Up(s)
    BY <1>17 DEF GivesUp
  <2>2. Channel!Loses(s)
    BY <1>3, <1>6, <1>9, <1>13, <1>15, <1>17, <2>1
  <2> QED BY <2>2 DEF Channel!Next
<1> QED BY <1>1, <1>10, <1>11, <1>12, <1>14, <1>16, <1>17 DEF Kinds

LEMMA DownChannel ==
  ASSUME OutInv, NEW s \in Sessions, Close(s) \/ Breaks(s)
  PROVE  Channel!Next
<1>1. UNCHANGED <<queue, flight, wire>> /\ UNCHANGED Waiting
  BY DEF Close, Breaks, Waiting
<1>2. \A t \in Sessions : t # s => Up(t)' = Up(t)
  BY DEF Close, Breaks, Up, OutInv, OutputTypeOK
<1>3. ~Up(s)'
  BY DEF Close, Breaks, Up, OutInv, OutputTypeOK
<1>4. Ups' = [Ups EXCEPT ![s] = FALSE]
  <2>1. \A t \in Sessions : Up(t) \in BOOLEAN /\ Up(t)' \in BOOLEAN
    BY DEF Up
  <2>2. \A t \in Sessions : Ups'[t] = [Ups EXCEPT ![s] = FALSE][t]
    BY <1>2, <1>3, <2>1 DEF Ups
  <2> QED BY <2>2 DEF Ups
<1>5. Channel!GoesDown(s)
  BY <1>1, <1>4 DEF Channel!GoesDown, Waiting, Ups
<1> QED BY <1>5 DEF Channel!Next

LEMMA InitChannel == Init => Channel!Init
<1> SUFFICES ASSUME OutputInit PROVE Channel!Init
  BY DEF Init
<1>1. << >> \o << >> = << >>
  OBVIOUS
<1> QED BY <1>1 DEF OutputInit, Channel!Init, Up

LEMMA NextChannel ==
  ASSUME IInv, [Next]_vars
  PROVE  [Channel!Next]_<<Waiting, wire, Ups>>
<1>1. OutInv
  BY DEF IInv
<1>2. ASSUME UNCHANGED outputVars
      PROVE  UNCHANGED <<Waiting, wire, Ups>>
  BY <1>2 DEF outputVars, Waiting, Ups, Up
<1>3. ASSUME NEW c, NEW s, NEW f, Call(c, s, f)
      PROVE  UNCHANGED <<Waiting, wire, Ups>>
  BY <1>3 DEF Call, Waiting, Ups, Up
<1>4. ASSUME NEW c \in Coroutines, NEW s \in Sessions, NEW f \in Frames, Writes(c, s, f)
      PROVE  UNCHANGED <<Waiting, wire, Ups>>
  BY <1>3, <1>4 DEF Writes
<1>5. ASSUME NEW c \in Coroutines, OutputStep(c)
      PROVE  [Channel!Next]_<<Waiting, wire, Ups>>
  BY <1>1, <1>5, StepChannel DEF OutputStep
<1>6. ASSUME NEW s \in Sessions, Close(s) \/ Breaks(s)
      PROVE  Channel!Next
  BY <1>1, <1>6, DownChannel
<1>7. ASSUME CastNext
      PROVE  UNCHANGED <<Waiting, wire, Ups>>
  BY <1>2, <1>3, <1>7 DEF CastNext
<1>8. \/ \E s \in Sessions : Register(s) \/ Unregister(s)
      \/ TimerExpires \/ HandlerRuns \/ CastEnds
      \/ \E f \in News : CastStarts(f)
      \/ UNCHANGED vars
      => UNCHANGED outputVars
  BY DEF Register, Unregister, TimerExpires, HandlerRuns, CastEnds, CastStarts, vars
<1> QED BY <1>2, <1>4, <1>5, <1>6, <1>7, <1>8 DEF Next

\* However many coroutines write to however many sessions, each session is a
\* queue of frames that loses none unless its connection is lost.
THEOREM OutputIsChannel == Spec => KeepsChannel
<1>1. Init => Channel!Init
  BY InitChannel
<1>2. IInv /\ [Next]_vars => [Channel!Next]_<<Waiting, wire, Ups>>
  BY NextChannel
<1> QED BY <1>1, <1>2, SpecIInv, PTL DEF Spec, KeepsChannel, Channel!Spec, Waiting, Ups
=============================================================================
