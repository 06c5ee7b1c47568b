----------------------------- MODULE Encryption -----------------------------
(***************************************************************************)
(* One call of enable_encryption (src/ios_rehydrate/backup.py) with the    *)
(* service and DeviceLink sessions it opens and closes (backup.py,         *)
(* _run_mobilebackup_service; safe_mobilebackup.py, device_link).          *)
(*                                                                         *)
(* The device may act on the request after the host gave up waiting, other *)
(* hosts may enable or disable encryption, and the task may be cancelled.  *)
(* As in Upgrade, a cancellation is delivered at the next await; here some *)
(* awaits swallow it, and others turn it into a second look at the device. *)
(* The module BackupCreate runs these steps and requests cancellations.    *)
(***************************************************************************)
EXTENDS Naturals

CONSTANTS
  MaxCancels, \* bound: cancellations requested during the call
  MaxOthers   \* bound: steps of other hosts and programs

VARIABLES
  pc,         \* the await enable_encryption is at
  failed,     \* primary: the exchange with the device raised
  linkClosed, \* device_link_connection_closed
  closed,     \* mobilebackup_connection_closed of the report
  removed,    \* scratch_removed
  result,     \* what the call ends with
  cancelling, \* a cancellation waits for the next await
  cancels,    \* cancellations requested so far
  sessions,   \* the sessions with the device that are open
  password,   \* whose backup password the device has
  request,    \* the ChangePassword request
  scratch,    \* the private scratch directory
  others      \* steps of others so far

hostVars   == <<pc, failed, linkClosed, closed, removed, result>>
deviceVars == <<sessions, password, request>>
vars == <<hostVars, cancelling, cancels, deviceVars, scratch, others>>

Labels == {"status", "recheck", "enter", "link", "request", "link_close",
           "exit", "reconcile", "final", "done"}

Interrupt == "OPERATION_INTERRUPTED"
\* Reasons that tell the operator no change was requested.
Refusals == {"BACKUP_ENCRYPTION_STATUS_UNAVAILABLE", "BACKUP_PARENT_INVALID",
  "BACKUP_PASSWORD_MISMATCH", "BACKUP_ENCRYPTION_STATE_CHANGED",
  "BACKUP_SCRATCH_CREATE_FAILED", Interrupt}
Unknown == "BACKUP_ENCRYPTION_OUTCOME_UNKNOWN"
Results == {"PENDING", "already", "enabled", Unknown,
  "BACKUP_ENCRYPTION_ENABLE_UNCONFIRMED"} \cup Refusals

Encrypted == password # "none"

Init ==
  /\ pc = "status" /\ failed = FALSE /\ linkClosed = TRUE /\ closed = FALSE
  /\ removed = FALSE /\ result = "PENDING"
  /\ cancelling = FALSE /\ cancels = 0
  /\ sessions = {} /\ password \in {"none", "theirs"} /\ request = "unsent"
  /\ scratch = "absent" /\ others = 0
-----------------------------------------------------------------------------
At(label)    == pc = label /\ ~cancelling /\ UNCHANGED <<cancelling, cancels>>
Cancelled(label) ==
  pc = label /\ cancelling /\ cancelling' = FALSE /\ UNCHANGED cancels

Goto(label)    == pc' = label /\ UNCHANGED result
Finish(reason) == pc' = "done" /\ result' = reason

Session == <<failed, linkClosed, closed, removed>>

\* encryption_status raises, or the await is cancelled.
StatusFails(label) ==
  \/ At(label) /\ Finish("BACKUP_ENCRYPTION_STATUS_UNAVAILABLE")
  \/ Cancelled(label) /\ Finish(Interrupt)
-----------------------------------------------------------------------------
(* Before the request                                                      *)

ReadsStatus ==
  /\ \/ At("status") /\ Encrypted /\ Finish("already")
     \/ At("status") /\ ~Encrypted
        /\ \/ Goto("recheck")
           \/ \E e \in {"BACKUP_PARENT_INVALID", "BACKUP_PASSWORD_MISMATCH"} :
                Finish(e)
     \/ StatusFails("status")
  /\ UNCHANGED <<Session, deviceVars, scratch, others>>

RechecksStatus ==
  /\ \/ At("recheck") /\ Encrypted /\ UNCHANGED scratch
        /\ Finish("BACKUP_ENCRYPTION_STATE_CHANGED")
     \/ At("recheck") /\ ~Encrypted
        /\ \/ scratch' = "empty" /\ Goto("enter")
           \/ scratch' \in {scratch, "empty"}
              /\ Finish("BACKUP_SCRATCH_CREATE_FAILED")
     \/ StatusFails("recheck") /\ UNCHANGED scratch
  /\ UNCHANGED <<Session, deviceVars, others>>
-----------------------------------------------------------------------------
(* The exchange with the device                                            *)

Raises(label, next) ==
  (At(label) \/ Cancelled(label)) /\ failed' = TRUE /\ Goto(next)

EntersService ==
  /\ \/ At("enter") /\ Goto("link") /\ sessions' = {"service"}
        /\ UNCHANGED failed
     \/ Raises("enter", "reconcile") /\ UNCHANGED sessions
  /\ UNCHANGED <<linkClosed, closed, removed, password, request, scratch,
                 others>>

\* A failed connect leaves no link to close, a failed exchange does.
OpensLink ==
  /\ \/ At("link") /\ Goto("request") /\ UNCHANGED failed
        /\ sessions' = sessions \cup {"link"}
     \/ Raises("link", "link_close") /\ sessions' = sessions \cup {"link"}
     \/ Raises("link", "exit") /\ UNCHANGED sessions
  /\ UNCHANGED <<linkClosed, closed, removed, password, request, scratch,
                 others>>

\* The bytes leave the host before the first suspension of the request.
TransmitsRequest ==
  /\ pc = "request" /\ request = "unsent" /\ request' = "in_flight"
  /\ UNCHANGED <<hostVars, cancelling, cancels, sessions, password, scratch,
                 others>>

RequestEnds ==
  /\ \/ At("request") /\ request = "applied" /\ Goto("link_close")
        /\ UNCHANGED failed
     \/ Raises("request", "link_close")
  /\ UNCHANGED <<linkClosed, closed, removed, deviceVars, scratch, others>>

\* Whatever the disconnect raises, a cancellation included, is swallowed.
ClosesLink ==
  /\ \/ At("link_close") /\ linkClosed' = TRUE
        /\ sessions' = sessions \ {"link"}
     \/ (At("link_close") \/ Cancelled("link_close"))
        /\ linkClosed' = FALSE /\ sessions' \in {sessions, sessions \ {"link"}}
  /\ Goto("exit")
  /\ UNCHANGED <<failed, closed, removed, password, request, scratch, others>>

\* _remove_empty_private_scratch, in the finally clause: rmdir, which refuses a
\* directory that holds something, of what lstat found to be the host's own.
RemovesScratch ==
  \/ scratch \in {"empty", "gone"} /\ scratch' = "gone" /\ removed' = TRUE
  \/ scratch # "gone" /\ UNCHANGED scratch /\ removed' = FALSE

\* After an exchange that returned the scratch is removed next.
ExitsService ==
  /\ \/ At("exit") /\ sessions' = sessions \ {"service"}
        /\ closed' = (~failed /\ linkClosed)
     \/ (At("exit") \/ Cancelled("exit"))
        /\ sessions' \in {sessions, sessions \ {"service"}} /\ closed' = FALSE
  /\ IF failed THEN Goto("reconcile") /\ UNCHANGED <<scratch, removed>>
     ELSE Goto("final") /\ RemovesScratch
  /\ UNCHANGED <<failed, linkClosed, password, request, others>>
-----------------------------------------------------------------------------
(* After the exchange                                                      *)

\* Mutant: a cancellation leaves as one.
ReconcilesInterrupted ==
  /\ \/ At("reconcile") /\ Encrypted /\ Finish("enabled")
     \/ At("reconcile") /\ Finish(Unknown)
     \/ Cancelled("reconcile") /\ Finish(Interrupt)
  /\ RemovesScratch
  /\ UNCHANGED <<failed, linkClosed, closed, deviceVars, others>>
\* _reconcile_encryption_enable; an unanswered look is as unknown as a no.
Reconciles ==
  /\ \/ At("reconcile") /\ Encrypted /\ Finish("enabled")
     \/ (At("reconcile") \/ Cancelled("reconcile")) /\ Finish(Unknown)
  /\ RemovesScratch
  /\ UNCHANGED <<failed, linkClosed, closed, deviceVars, others>>

ConfirmsStatus ==
  /\ \/ At("final") /\ Encrypted /\ Finish("enabled")
     \/ At("final") /\ ~Encrypted
        /\ Finish("BACKUP_ENCRYPTION_ENABLE_UNCONFIRMED")
     \/ (At("final") \/ Cancelled("final")) /\ Finish(Unknown)
  /\ UNCHANGED <<Session, deviceVars, scratch, others>>
-----------------------------------------------------------------------------
(* The device, other hosts and programs, the caller (external)             *)

\* A change that gives no old password is refused once there is one.
DeviceAnswers ==
  /\ request = "in_flight"
  /\ \/ ~Encrypted /\ password' = "ours" /\ request' = "applied"
     \/ request' = "refused" /\ UNCHANGED password
  /\ UNCHANGED <<hostVars, cancelling, cancels, sessions, scratch, others>>

DeviceFillsScratch ==
  /\ "link" \in sessions /\ scratch = "empty" /\ scratch' = "filled"
  /\ UNCHANGED <<hostVars, cancelling, cancels, deviceVars, others>>

OthersAct ==
  /\ others < MaxOthers /\ others' = others + 1
  /\ \/ password' = (IF Encrypted THEN "none" ELSE "theirs")
        /\ UNCHANGED scratch
     \/ scratch \in {"empty", "filled"} /\ scratch' \in {"replaced", "gone"}
        /\ UNCHANGED password
  /\ UNCHANGED <<hostVars, cancelling, cancels, sessions, request>>
-----------------------------------------------------------------------------
HostStep ==
  \/ ReadsStatus \/ RechecksStatus \/ EntersService \/ OpensLink
  \/ TransmitsRequest \/ RequestEnds \/ ClosesLink \/ ExitsService
  \/ Reconciles \/ ConfirmsStatus

WorldStep == DeviceAnswers \/ DeviceFillsScratch \/ OthersAct
-----------------------------------------------------------------------------
TypeOK ==
  /\ pc \in Labels /\ result \in Results
  /\ failed \in BOOLEAN /\ linkClosed \in BOOLEAN /\ closed \in BOOLEAN
  /\ removed \in BOOLEAN /\ cancelling \in BOOLEAN /\ cancels \in 0..MaxCancels
  /\ sessions \subseteq {"link", "service"}
  /\ password \in {"none", "ours", "theirs"}
  /\ request \in {"unsent", "in_flight", "applied", "refused"}
  /\ scratch \in {"absent", "empty", "filled", "replaced", "gone"}
  /\ others \in 0..MaxOthers

\* A reason that says no change was requested is only given when none was
\* (backup.py:137-171; the reasons from 180 on say that the outcome is open).
TruthfulRefusal == result \in Refusals => request = "unsent"

\* A report of success, also one reached by looking again after a timeout or
\* a cancellation, means that this request set the password, as long as no
\* other host changed the setting meanwhile (backup.py:181-219).
TruthfulEnable ==
  result = "enabled" /\ others = 0 => request = "applied" /\ password = "ours"

\* mobilebackup_connection_closed is only true when both sessions are closed,
\* although every failure to close them is swallowed (backup.py:374-386).
TruthfulClose == closed => sessions = {}

\* scratch_removed is true only of a directory that is gone
\* (backup.py:420-444).
TruthfulScratch == removed => scratch = "gone"
=============================================================================
