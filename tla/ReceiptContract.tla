--------------------------- MODULE ReceiptContract ---------------------------
(***************************************************************************)
(* What a receipt reservation promises its caller (docs/ARCHITECTURE.md,   *)
(* "Evidence writer"): the path is reserved before any work, evidence is   *)
(* written once, and a reservation is only removed while the operation it  *)
(* was made for has not started.                                           *)
(***************************************************************************)
VARIABLES
  evidence, \* "absent", "reserved", "written", "kept" or "removed"
  started   \* the operation may have changed the device

vars == <<evidence, started>>

Init == evidence = "absent" /\ started = FALSE

Reserve ==
  /\ evidence = "absent" /\ evidence' = "reserved" /\ UNCHANGED started

Start ==
  /\ evidence = "reserved" /\ ~started /\ started' = TRUE /\ UNCHANGED evidence

Write ==
  /\ evidence = "reserved" /\ evidence' = "written" /\ UNCHANGED started

\* Preserved as it is: empty, partial, or taken over by somebody else.
Keep ==
  /\ evidence = "reserved" /\ evidence' = "kept" /\ UNCHANGED started

Remove ==
  /\ evidence = "reserved" /\ ~started /\ evidence' = "removed"
  /\ UNCHANGED started

Next == Reserve \/ Start \/ Write \/ Keep \/ Remove

Spec == Init /\ [][Next]_vars
=============================================================================
