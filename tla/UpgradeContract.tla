--------------------------- MODULE UpgradeContract ---------------------------
(***************************************************************************)
(* What one rehydration promises (docs/ARCHITECTURE.md, docs/THREAT_MODEL  *)
(* safety invariants 1, 5 and 6), without how it keeps it: at most one     *)
(* Upgrade command, sent after the mutation boundary and before the        *)
(* verdict; and a verdict that never claims more than is known about it.   *)
(***************************************************************************)
VARIABLES
  boundary, \* the mutation boundary was crossed
  request,  \* "none", "sent", "completed" or "rejected"
  verdict   \* what the operator is told, "pending" before that

vars == <<boundary, request, verdict>>

Init == boundary = FALSE /\ request = "none" /\ verdict = "pending"

CrossBoundary ==
  /\ verdict = "pending" /\ ~boundary /\ boundary' = TRUE
  /\ UNCHANGED <<request, verdict>>

Send ==
  /\ verdict = "pending" /\ boundary /\ request = "none" /\ request' = "sent"
  /\ UNCHANGED <<boundary, verdict>>

\* The device answers when it likes, after the verdict too.
DeviceAnswers ==
  /\ request = "sent" /\ request' \in {"completed", "rejected"}
  /\ UNCHANGED <<boundary, verdict>>

Justified(v) ==
  \/ v = "not_sent" /\ ~boundary
  \/ v = "unknown" /\ boundary
  \/ v \in {"success", "mismatch"} /\ request = "completed"

Decide ==
  /\ verdict = "pending"
  /\ verdict' \in {v \in {"not_sent", "unknown", "success", "mismatch"} :
                     Justified(v)}
  /\ UNCHANGED <<boundary, request>>

Next == CrossBoundary \/ Send \/ DeviceAnswers \/ Decide

Spec == Init /\ [][Next]_vars
=============================================================================
