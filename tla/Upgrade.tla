------------------------------- MODULE Upgrade -------------------------------
(***************************************************************************)
(* One call of rehydrate_app (src/ios_rehydrate/upgrade.py): inspect the   *)
(* target, stage the package over AFC, inspect again, send the Upgrade     *)
(* command, remove the staged file, confirm the result.                    *)
(*                                                                         *)
(* The coroutine runs against a device that acts on its own: it works on   *)
(* the command after the host gave up waiting, its user installs or        *)
(* removes apps, the transport fails at any await, and the task may be     *)
(* cancelled.  A cancellation requested at any time is delivered at the    *)
(* next await, where it replaces whatever the await would have returned;   *)
(* code between two awaits is one step.                                    *)
(***************************************************************************)
EXTENDS Apps, Naturals

CONSTANTS
  Answers,             \* what the device may answer a lookup with
  POSTFLIGHT_ATTEMPTS, \* _POSTFLIGHT_ATTEMPTS
  MaxCancels,          \* bound: cancellations requested during the call
  MaxDrift             \* bound: changes of the app by somebody else

ASSUME AnswersAssumption  == Answers \subseteq Seq(Entries)
ASSUME AttemptsAssumption == POSTFLIGHT_ATTEMPTS \in Nat \ {0}
ASSUME BoundsAssumption   == MaxCancels \in Nat /\ MaxDrift \in Nat

VARIABLES
  pc,           \* the await (or callback) the coroutine is at
  error,        \* operation_error
  cleanupError, \* cleanup_error
  crossed,      \* send_boundary_crossed
  attempted,    \* staging_write_attempted
  removed,      \* staging_removed
  before,       \* the snapshot kept as evidence of the state before sending
  attempt,      \* postflight inspections that did not match so far
  result,       \* the reason the call ends with
  cancelling,   \* a cancellation waits for the next await
  cancels,      \* cancellations requested so far
  app,          \* the device's answer to a lookup of the target
  file,         \* the staged file on the device
  command,      \* the Upgrade command
  drift,        \* changes of the app by somebody else so far
  shown         \* history, until the command is sent: what the device would have
                \* answered a lookup with since the whole package lies on it

hostVars   == <<pc, error, cleanupError, crossed, attempted, removed, before,
                attempt, result>>
deviceVars == <<app, file, command, shown>>
vars == <<hostVars, cancelling, cancels, deviceVars, drift>>

Labels == {"preflight", "afc_open", "makedirs", "stage", "final_check",
           "proxy_open", "boundary", "send", "proxy_close", "cleanup",
           "afc_close", "postflight", "pause", "done"}

\* Exceptions that are not a RehydrateError are all EXCEPTION.
Interrupt       == "OPERATION_INTERRUPTED"
LookupErrors    == {"APP_LOOKUP_FAILED", "APP_LOOKUP_INVALID"}
RehydrateErrors == LookupErrors \cup {"TARGET_NOT_REHYDRATABLE",
                    "APP_PREFLIGHT_TIMEOUT", "APP_FINAL_PREFLIGHT_TIMEOUT",
                    "TARGET_CHANGED_DURING_STAGING", "BOUNDARY_REFUSED"}
Errors          == RehydrateErrors \cup {"NONE", "EXCEPTION", Interrupt}

\* Reasons that tell the operator the command was not sent.
NotSentReasons  == RehydrateErrors \cup
  {Interrupt, "STAGING_CLEANUP_UNCONFIRMED", "UPGRADE_START_FAILED",
   "INTERNAL_ERROR"}
SentReasons     ==
  {"SUCCESS", "UPGRADE_POSTCHECK_FAILED", "UPGRADE_OUTCOME_UNKNOWN"}
Results         == {"PENDING"} \cup NotSentReasons \cup SentReasons

InitHost ==
  /\ pc = "preflight" /\ error = "NONE" /\ cleanupError = "NONE"
  /\ crossed = FALSE /\ attempted = FALSE /\ removed = FALSE
  /\ before = EmptySnapshot("ABSENT") /\ attempt = 0 /\ result = "PENDING"
  /\ cancelling = FALSE /\ cancels = 0

InitDevice ==
  /\ app \in Answers /\ file = "none" /\ command = "unsent" /\ drift = 0
  /\ shown = {}

Init == InitHost /\ InitDevice
-----------------------------------------------------------------------------
(* Moving the coroutine                                                    *)

At(label)    == pc = label /\ ~cancelling /\ UNCHANGED <<cancelling, cancels>>
Cancelled(labels) ==
  pc \in labels /\ cancelling /\ cancelling' = FALSE /\ UNCHANGED cancels

Goto(label) == pc' = label /\ UNCHANGED result
Finish(reason) == pc' = "done" /\ result' = reason

\* Mutants: the staging flag, or the boundary flag, plays no part in it.
OuterReasonIgnoresStaging(e) ==
  IF crossed THEN "UPGRADE_OUTCOME_UNKNOWN"
  ELSE IF e \in RehydrateErrors \cup {Interrupt} THEN e
  ELSE "UPGRADE_START_FAILED"
OuterReasonIgnoresBoundary(e) ==
  IF attempted /\ ~removed THEN "STAGING_CLEANUP_UNCONFIRMED"
  ELSE IF e \in RehydrateErrors \cup {Interrupt} THEN e
  ELSE "UPGRADE_START_FAILED"

\* The outer "except BaseException" clause of rehydrate_app, or its absence.
OuterReason(e) ==
  IF crossed THEN "UPGRADE_OUTCOME_UNKNOWN"
  ELSE IF attempted /\ ~removed THEN "STAGING_CLEANUP_UNCONFIRMED"
  ELSE IF e \in RehydrateErrors \cup {Interrupt} THEN e
  ELSE "UPGRADE_START_FAILED"
Conclude(e) == IF e = "NONE" THEN Goto("postflight") ELSE Finish(OuterReason(e))

\* "except BaseException as error: operation_error = error".
Fail(e, label) == error' = e /\ Goto(label)

Locals == <<cleanupError, crossed, attempted, removed, before, attempt>>
-----------------------------------------------------------------------------
(* Preflight                                                               *)

\* inspect_app returns a snapshot.
Shows == InspectApp(app).state # "RAISED"

PreflightInspects ==
  /\ At("preflight") /\ Shows
  /\ IF EligibleTarget(InspectApp(app))
     THEN Goto("afc_open") ELSE Finish("TARGET_NOT_REHYDRATABLE")
  /\ before' = InspectApp(app)
  /\ UNCHANGED <<error, cleanupError, crossed, attempted, removed, attempt,
                 deviceVars, drift>>

\* Closing the lookup service may replace a cancellation by a lookup error.
PreflightFails ==
  /\ \/ /\ At("preflight")
        /\ \E e \in LookupErrors \cup
                    {"APP_PREFLIGHT_TIMEOUT", "INTERNAL_ERROR"} : Finish(e)
     \/ /\ Cancelled({"preflight"})
        /\ \E e \in {Interrupt, "APP_LOOKUP_FAILED"} : Finish(e)
  /\ UNCHANGED <<error, Locals, deviceVars, drift>>
-----------------------------------------------------------------------------
(* Staging                                                                 *)

OpensAfc ==
  /\ \/ At("afc_open") /\ Goto("makedirs")
     \/ At("afc_open") /\ Conclude("EXCEPTION")
     \/ Cancelled({"afc_open"}) /\ Conclude(Interrupt)
  /\ UNCHANGED <<error, Locals, deviceVars, drift>>

MakesDirectory ==
  /\ At("makedirs") /\ Goto("stage") /\ attempted' = TRUE
  /\ UNCHANGED <<error, cleanupError, crossed, removed, before, attempt,
                 deviceVars, drift>>

\* set_file_contents creates the file and fills it: two effects on the device.
DeviceCreatesFile ==
  /\ pc = "stage" /\ file = "none" /\ file' = "partial"
  /\ UNCHANGED <<hostVars, cancelling, cancels, app, command, shown, drift>>

StagesPackage ==
  /\ At("stage") /\ file = "partial" /\ file' = "full" /\ Goto("final_check")
  /\ shown' = {app}
  /\ UNCHANGED <<error, Locals, app, command, drift>>

\* Mutant: there is no second inspection, the first one stands for it.
FinalInspectsNothing ==
  /\ At("final_check") /\ Goto("proxy_open")
  /\ UNCHANGED <<error, Locals, deviceVars, drift>>

FinalInspects ==
  /\ At("final_check") /\ Shows
  /\ IF EligibleTarget(InspectApp(app))
     THEN before' = InspectApp(app) /\ Goto("proxy_open") /\ UNCHANGED error
     ELSE Fail("TARGET_CHANGED_DURING_STAGING", "cleanup") /\ UNCHANGED before
  /\ UNCHANGED <<cleanupError, crossed, attempted, removed, attempt,
                 deviceVars, drift>>

OpensProxy ==
  /\ At("proxy_open") /\ Goto("boundary")
  /\ UNCHANGED <<error, Locals, deviceVars, drift>>

\* Any await between makedirs and the boundary raises, or is cancelled.
StagingFails ==
  /\ \/ \E label \in {"makedirs", "stage", "proxy_open"} :
          At(label) /\ Fail("EXCEPTION", "cleanup")
     \/ At("final_check")
        /\ \E e \in LookupErrors \cup
                    {"APP_FINAL_PREFLIGHT_TIMEOUT", "EXCEPTION"} :
             Fail(e, "cleanup")
     \/ Cancelled({"final_check"}) /\ Fail("APP_LOOKUP_FAILED", "cleanup")
     \/ Cancelled({"makedirs", "stage", "final_check", "proxy_open"})
        /\ Fail(Interrupt, "cleanup")
  /\ UNCHANGED <<Locals, deviceVars, drift>>
-----------------------------------------------------------------------------
(* Mutation boundary and send                                              *)

\* Mutant: the flag is only set by a send that returned.
CrossesBoundaryUnmarked ==
  /\ pc = "boundary" /\ Goto("send")
  /\ UNCHANGED <<error, Locals, cancelling, cancels, deviceVars, drift>>

\* on_mutation_boundary is synchronous: a pending cancellation is not seen.
CrossesBoundary ==
  /\ pc = "boundary" /\ Goto("send") /\ crossed' = TRUE
  /\ UNCHANGED <<error, cleanupError, attempted, removed, before, attempt,
                 cancelling, cancels, deviceVars, drift>>

BoundaryRefuses(e) ==
  /\ pc = "boundary" /\ Fail(e, "proxy_close")
  /\ UNCHANGED <<Locals, cancelling, cancels, deviceVars, drift>>

\* The bytes leave the host before the first suspension of send_package, so a
\* cancellation that is already pending does not hold them back.
TransmitsCommand ==
  /\ pc = "send" /\ command = "unsent" /\ command' = "in_flight"
  /\ shown' = {}
  /\ UNCHANGED <<hostVars, cancelling, cancels, app, file, drift>>

SendReturns ==
  /\ At("send") /\ command \in {"complete", "installed"}
  /\ Goto("proxy_close")
  /\ UNCHANGED <<error, Locals, deviceVars, drift>>

\* Mutants: the error is dropped; or the send has no timeout.
SendFailsSilently ==
  /\ At("send") \/ Cancelled({"send"})
  /\ Goto("proxy_close")
  /\ UNCHANGED <<error, Locals, deviceVars, drift>>
SendFailsUntimed ==
  /\ \/ At("send") /\ command = "rejected" /\ Fail("EXCEPTION", "proxy_close")
     \/ Cancelled({"send"}) /\ Fail(Interrupt, "proxy_close")
  /\ UNCHANGED <<Locals, deviceVars, drift>>

\* The device's error, a lost connection, or the 15 minute timeout.
SendFails ==
  /\ \/ At("send") /\ Fail("EXCEPTION", "proxy_close")
     \/ Cancelled({"send"}) /\ Fail(Interrupt, "proxy_close")
  /\ UNCHANGED <<Locals, deviceVars, drift>>

\* __aexit__ of the installation proxy; what it raises replaces the error.
ClosesProxy ==
  /\ \/ At("proxy_close") /\ Goto("cleanup") /\ UNCHANGED error
     \/ At("proxy_close") /\ Fail("EXCEPTION", "cleanup")
     \/ Cancelled({"proxy_close"}) /\ Fail(Interrupt, "cleanup")
  /\ UNCHANGED <<Locals, deviceVars, drift>>
-----------------------------------------------------------------------------
(* _shielded_cleanup and the AFC session's __aexit__                       *)

\* The shielded task outlives the cancellation; only the first is recorded.
CleanupInterrupted ==
  /\ Cancelled({"cleanup"})
  /\ cleanupError' = IF cleanupError = "NONE" THEN Interrupt ELSE cleanupError
  /\ UNCHANGED <<pc, error, crossed, attempted, removed, before, attempt,
                 result, deviceVars, drift>>

\* rm_single answers True or False ...
CleanupAnswers ==
  /\ At("cleanup") /\ Goto("afc_close")
  /\ removed' \in BOOLEAN
  /\ file' = IF removed' THEN "none" ELSE file
  /\ UNCHANGED <<error, cleanupError, crossed, attempted, before, attempt,
                 app, command, shown, drift>>

\* ... or raises, its 15 second timeout included; the file may be gone.
CleanupRaises ==
  /\ At("cleanup") /\ Goto("afc_close")
  /\ file' \in {file, "none"}
  /\ cleanupError' = IF cleanupError = "NONE" THEN "EXCEPTION" ELSE cleanupError
  /\ UNCHANGED <<error, crossed, attempted, removed, before, attempt,
                 app, command, shown, drift>>

ClosesAfc ==
  /\ At("afc_close")
  /\ Conclude(IF error # "NONE" THEN error ELSE cleanupError)
  /\ UNCHANGED <<error, Locals, deviceVars, drift>>

AfcCloseFails ==
  /\ \/ At("afc_close") /\ Conclude("EXCEPTION")
     \/ Cancelled({"afc_close"}) /\ Conclude(Interrupt)
  /\ UNCHANGED <<error, Locals, deviceVars, drift>>
-----------------------------------------------------------------------------
(* _bounded_postflight                                                     *)

\* Mutants: the attempts are counted but not limited; or never counted.
PostflightInspectsUnlimited ==
  /\ At("postflight") /\ attempt' = attempt + 1
  /\ IF PostflightMatches(InspectApp(app)) THEN Finish("SUCCESS")
     ELSE Goto("pause")
  /\ UNCHANGED <<error, cleanupError, crossed, attempted, removed, before,
                 deviceVars, drift>>
PostflightInspectsUncounted ==
  /\ At("postflight")
  /\ IF PostflightMatches(InspectApp(app)) THEN Finish("SUCCESS")
     ELSE Goto("pause")
  /\ UNCHANGED <<error, Locals, deviceVars, drift>>

PostflightInspects ==
  /\ At("postflight") /\ Shows
  /\ LET s == InspectApp(app) IN
     IF s.state = "AMBIGUOUS"
     THEN Finish("UPGRADE_OUTCOME_UNKNOWN") /\ UNCHANGED attempt
     ELSE IF PostflightMatches(s)
     THEN Finish("SUCCESS") /\ UNCHANGED attempt
     ELSE /\ attempt' = attempt + 1
          /\ IF attempt' < POSTFLIGHT_ATTEMPTS
             THEN Goto("pause") ELSE Finish("UPGRADE_POSTCHECK_FAILED")
  /\ UNCHANGED <<error, cleanupError, crossed, attempted, removed, before,
                 deviceVars, drift>>

PostflightResumes ==
  /\ At("pause") /\ Goto("postflight")
  /\ UNCHANGED <<error, Locals, deviceVars, drift>>

PostflightFails ==
  /\ At("postflight") \/ Cancelled({"postflight", "pause"})
  /\ Finish("UPGRADE_OUTCOME_UNKNOWN")
  /\ UNCHANGED <<error, Locals, deviceVars, drift>>
-----------------------------------------------------------------------------
(* The device and the caller (external)                                    *)

\* The device reads the staged package and reports Complete ...
DeviceCompletes ==
  /\ command = "in_flight" /\ file = "full" /\ command' = "complete"
  /\ UNCHANGED <<hostVars, cancelling, cancels, app, file, shown, drift>>

\* ... and its app database shows the new version, perhaps later.
DeviceInstalls ==
  /\ command = "complete" /\ command' = "installed"
  /\ app' \in {a \in Answers : PostflightMatches(InspectApp(a))}
  /\ UNCHANGED <<hostVars, cancelling, cancels, file, shown, drift>>

DeviceRejects ==
  /\ command = "in_flight" /\ command' = "rejected"
  /\ UNCHANGED <<hostVars, cancelling, cancels, app, file, shown, drift>>

\* The device's user, or another host, changes the target.
AppDrifts ==
  /\ drift < MaxDrift /\ drift' = drift + 1
  /\ app' \in Answers
  /\ shown' = IF file = "full" /\ command = "unsent" THEN shown \cup {app'}
              ELSE shown
  /\ UNCHANGED <<hostVars, cancelling, cancels, file, command>>

\* task.cancel(): the first SIGINT, or the caller's own timeout.
RequestsCancel ==
  /\ pc # "done" /\ cancels < MaxCancels
  /\ cancelling' = TRUE /\ cancels' = cancels + 1
  /\ UNCHANGED <<hostVars, deviceVars, drift>>
-----------------------------------------------------------------------------
\* Everything but the two steps the caller's callback decides.
HostStep ==
  \/ PreflightInspects \/ PreflightFails \/ OpensAfc \/ MakesDirectory
  \/ StagesPackage \/ FinalInspects \/ OpensProxy \/ StagingFails
  \/ TransmitsCommand \/ SendReturns \/ SendFails \/ ClosesProxy
  \/ CleanupInterrupted \/ CleanupAnswers \/ CleanupRaises
  \/ ClosesAfc \/ AfcCloseFails
  \/ PostflightInspects \/ PostflightResumes \/ PostflightFails

DeviceStep ==
  \/ DeviceCreatesFile \/ DeviceCompletes \/ DeviceInstalls \/ DeviceRejects
  \/ AppDrifts

BoundaryRaises == \E e \in {"BOUNDARY_REFUSED", "EXCEPTION"} : BoundaryRefuses(e)

Next == HostStep \/ CrossesBoundary \/ BoundaryRaises \/ DeviceStep
        \/ RequestsCancel

Spec == Init /\ [][Next]_vars

\* Awaits under asyncio.timeout (or a sleep): they end whatever the device does.
TimedLabels ==
  {"preflight", "final_check", "send", "cleanup", "postflight", "pause"}
TimedSpec == Spec /\ WF_vars(pc \in TimedLabels /\ HostStep)

\* The transport answers or fails the other awaits, the callback returns.
TransportAnswers == WF_vars(HostStep \/ CrossesBoundary \/ BoundaryRaises)
-----------------------------------------------------------------------------
TypeOK ==
  /\ pc \in Labels /\ result \in Results
  /\ error \in Errors /\ cleanupError \in {"NONE", "EXCEPTION", Interrupt}
  /\ crossed \in BOOLEAN /\ attempted \in BOOLEAN /\ removed \in BOOLEAN
  /\ before \in AppSnapshots /\ attempt \in 0..POSTFLIGHT_ATTEMPTS
  /\ cancelling \in BOOLEAN /\ cancels \in 0..MaxCancels
  /\ app \in Answers /\ file \in {"none", "partial", "full"}
  /\ command \in {"unsent", "in_flight", "complete", "installed", "rejected"}
  /\ drift \in 0..MaxDrift /\ shown \subseteq Answers

\* A reason that tells the operator nothing was sent is only ever given when
\* no byte of the command left the host, wherever the failure or the
\* cancellation struck (upgrade.py:171-202).
TruthfulRefusal == result \in NotSentReasons => command = "unsent"

\* Success, and a known mismatch, are only reported of a command the device
\* itself reported complete (upgrade.py:173-183, 204-209).
TruthfulCompletion ==
  result \in {"SUCCESS", "UPGRADE_POSTCHECK_FAILED"} =>
    command \in {"complete", "installed"}

\* When the command leaves the host the whole package lies on the device, and
\* what the result reports as the state before it is an eligible target the
\* device showed after the package was there: an inspection that is older than
\* the staging, however the target changed since, does not do
\* (upgrade.py:150-167).
SendsWhatWasChecked ==
  [][command = "unsent" /\ command' # "unsent" =>
       /\ file = "full" /\ EligibleTarget(before)
       /\ \E answer \in shown : before = InspectApp(answer)]_vars

\* When the call ends with a staged file left on the device, its outcome says
\* that removal was not confirmed (upgrade.py:178-193, 67-68, 76-82, 214).
NoSilentLeftover ==
  pc = "done" /\ file # "none" =>
    \/ result = "STAGING_CLEANUP_UNCONFIRMED"
    \/ result \in SentReasons /\ ~removed

\* The awaits the code bounds end although the device never answers
\* (upgrade.py:52, 86, 120, 153, 172).
TimedAwaitsEnd == \A label \in TimedLabels : pc = label ~> pc # label

\* Every call ends with an outcome, however failures and cancellations fall,
\* as long as the transport does not leave the untimed awaits hanging.
Terminates == TransportAnswers => <>(pc = "done" /\ result # "PENDING")

\* docs/ARCHITECTURE.md:127-129: a failed cleanup leaves the separately
\* determined app outcome as it is, so a send that returned is confirmed.
CleanupKeepsOutcome ==
  [][ClosesAfc /\ error = "NONE" /\ cleanupError = "EXCEPTION" =>
       result' # "UPGRADE_OUTCOME_UNKNOWN"]_vars
-----------------------------------------------------------------------------
(* The inductive invariant behind the safety properties                    *)

Completed == command \in {"complete", "installed"}

AttemptsLeft == pc # "done" => attempt < POSTFLIGHT_ATTEMPTS

\* The flag the verdict depends on covers every byte that left the host.
BoundaryInv ==
  /\ ~crossed => command = "unsent"
  /\ pc \in {"preflight", "afc_open", "makedirs", "stage", "final_check",
            "proxy_open", "boundary"} => ~crossed
  /\ pc = "send" => crossed

\* Leaving the send without an error means the device reported completion.
SendInv ==
  /\ pc \in {"proxy_close", "cleanup", "afc_close"} /\ error = "NONE" =>
       crossed /\ Completed
  /\ pc \in {"postflight", "pause"} => crossed /\ Completed

VerdictInv ==
  /\ result = "PENDING" <=> pc # "done"
  /\ result \in NotSentReasons => ~crossed
  /\ result \in SentReasons => crossed
  /\ result \in {"SUCCESS", "UPGRADE_POSTCHECK_FAILED"} => Completed

\* A file on the device was written by this call and not removed by it.
StagingInv ==
  /\ file # "none" => attempted /\ ~removed
  /\ pc \in {"preflight", "afc_open", "makedirs"} => ~attempted
  /\ pc = "stage" => attempted
  /\ pc \in {"final_check", "proxy_open", "boundary", "send"} => file = "full"
  /\ pc = "final_check" => app \in shown
  /\ pc \in {"proxy_open", "boundary", "send"} /\ command = "unsent" =>
       /\ EligibleTarget(before)
       /\ \E answer \in shown : before = InspectApp(answer)
  /\ removed => pc \in {"afc_close", "postflight", "pause", "done"}
  /\ result \in NotSentReasons \ {"STAGING_CLEANUP_UNCONFIRMED"} =>
       file = "none"

\* What the coroutine knows of the command and of the staged file agrees with
\* the device at every step; implies the three safety properties above.
Inv == TypeOK /\ AttemptsLeft /\ BoundaryInv /\ SendInv /\ VerdictInv
       /\ StagingInv
-----------------------------------------------------------------------------
Request == CASE command = "unsent"    -> "none"
             [] command = "in_flight" -> "sent"
             [] command = "rejected"  -> "rejected"
             [] OTHER                 -> "completed"

Verdict == CASE result = "PENDING"        -> "pending"
             [] result \in NotSentReasons -> "not_sent"
             [] result = "SUCCESS"        -> "success"
             [] result = "UPGRADE_POSTCHECK_FAILED" -> "mismatch"
             [] OTHER                     -> "unknown"

Contract == INSTANCE UpgradeContract
            WITH boundary <- crossed, request <- Request, verdict <- Verdict

\* The call keeps the contract: one command at most, only past the boundary,
\* never after the verdict, and a verdict the command's fate allows.
ImplementsContract == Contract!Spec
=============================================================================
