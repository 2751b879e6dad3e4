--------------------------- MODULE RequestPromise ---------------------------
(***************************************************************************)
(* What send_request promises each of its callers: a request ends once, in *)
(* one of four ways; once a reply was accepted for it, it ends with a      *)
(* reply, unless it could not be written; and its result stands until the  *)
(* caller asks again.                                                      *)
(***************************************************************************)
CONSTANT Callers

VARIABLES
  progress,   \* "ended", "open", or "replied": open with a reply accepted
  result

Init ==
  /\ progress = [c \in Callers |-> "ended"]
  /\ result = [c \in Callers |-> "none"]

Ask(c) ==
  /\ progress[c] = "ended"
  /\ progress' = [progress EXCEPT ![c] = "open"]
  /\ result' = [result EXCEPT ![c] = "none"]

Accept(c) ==
  /\ progress[c] = "open"
  /\ progress' = [progress EXCEPT ![c] = "replied"]
  /\ UNCHANGED result

End(c) ==
  /\ progress[c] # "ended"
  /\ progress' = [progress EXCEPT ![c] = "ended"]
  /\ \E how \in IF progress[c] = "replied" THEN {"response_ready", "failed"}
                ELSE {"failed", "timed_out", "cancelled"} :
       result' = [result EXCEPT ![c] = how]

Next == \E c \in Callers : Ask(c) \/ Accept(c) \/ End(c)

Spec == Init /\ [][Next]_<<progress, result>>
=============================================================================
