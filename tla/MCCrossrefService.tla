------------------------- MODULE MCCrossrefService -------------------------
(***************************************************************************)
(* CrossrefService on a small workspace: f1 is an ordinary text file, f2   *)
(* lies in a hidden directory, f3 is ignored.  Parser p1 extracts two      *)
(* lines from text a and one from text b; p2 one line from a and rejects   *)
(* b.  MaxCalls bounds the calls of the main thread, and with them the     *)
(* generations, the queue and the line ids.                                *)
(***************************************************************************)
EXTENDS CrossrefService, TLC

CONSTANTS f1, f2, f3, u1, u2, u3, a, b, p1, p2, w1, l1, l2, l3, t1, t2, MaxCalls

VARIABLE calls  \* calls made so far

Home == (u1 :> f1) @@ (u2 :> f2) @@ (u3 :> f3)
MCPathOf == [u \in Uris |-> Home[u]]
MCUriOf == [f \in Files |-> CHOOSE u \in Uris : Home[u] = f]
MCTree == (w1 :> Files)
MCIgnored == (w1 :> {f3} \cap Files)
MCUnscanned == (w1 :> {f2} \cap Files)
MCParse ==
  (p1 :> ((a :> <<l1, l2>>) @@ (b :> <<l3>>))) @@
  (p2 :> ((a :> <<l2>>) @@ (b :> ParseError)))
MCDocument ==
  {[uri |-> u1, version |-> 1, text |-> a], [uri |-> u1, version |-> 2, text |-> b]}

MCInit == Init /\ (\A f \in Files \ {f1} : disk[f] = a) /\ calls = 0

MCCall == calls < MaxCalls /\ Call /\ calls' = calls + 1
MCPool == UNCHANGED calls /\ \E w \in Workers : PoolStep(w)
MCDisk == UNCHANGED calls /\ \E text \in Texts \cup {Absent} : DiskChange(f1, text)

MCNext == MCCall \/ MCPool \/ MCDisk

MCSpec == MCInit /\ [][MCNext]_<<vars, calls>>

MCFairSpec ==
  MCSpec /\ \A w \in Workers : WF_<<vars, calls>>(UNCHANGED calls /\ PoolStep(w))
=============================================================================
