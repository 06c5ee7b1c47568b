------------------------------ MODULE Rehydrate ------------------------------
(***************************************************************************)
(* The command `app rehydrate` (src/ios_rehydrate/cli.py, app_rehydrate):  *)
(* reserve the result receipt, validate the IPA, open the device, check    *)
(* the backup receipt, inspect, ask the operator, run rehydrate_app (the   *)
(* module Upgrade, on the same variables), close the device, and leave     *)
(* the receipt and the exit reason that tell what happened.                *)
(*                                                                         *)
(* The operator may press Ctrl-C at any time.  While asyncio.run is        *)
(* running, the first SIGINT cancels the main task and the second raises   *)
(* KeyboardInterrupt out of the event loop, which then cancels every task, *)
(* lets them finish and drops what they return; elsewhere a SIGINT raises  *)
(* at once.  The variable cancels counts them.                             *)
(***************************************************************************)
EXTENDS Apps, Naturals

CONSTANTS Answers, POSTFLIGHT_ATTEMPTS, MaxCancels, MaxDrift, \* see Upgrade
  MAX_RECEIPT_AGE,         \* in ticks of the clock
  MAX_RECEIPT_FUTURE_SKEW, \* in ticks
  MaxClock,                \* bound: the clock
  MaxReplaced              \* bound: changes of the backup receipt by others

ASSUME GateAssumption ==
  /\ MAX_RECEIPT_AGE \in Nat \ {0} /\ MAX_RECEIPT_FUTURE_SKEW \in Nat
  /\ MaxClock \in Nat /\ MaxReplaced \in Nat
ASSUME CancelsAssumption == MaxCancels \in Nat

VARIABLES pc, error, cleanupError, crossed, attempted, removed, before,
  attempt, result, cancelling, cancels, app, file, command, drift,
  shown
VARIABLES
  cli,      \* where the command is
  wanted,   \* --receipt was given
  evidence, \* the reserved receipt, as in ReceiptContract
  started,  \* reservation.operation_started
  recorded, \* what a written receipt says
  outcome,  \* what the operation ends with, before reporting
  reported, \* the reason the process exits with
  killed,   \* a KeyboardInterrupt left the event loop
  early,    \* Ctrl-C was pressed before rehydrate_app was called
  backup,   \* the backup verification receipt on disk
  read,     \* the bytes a running _validate_backup_gate has read
  reviewed, \* backup_digest
  now,      \* the clock, until the boundary has been crossed
  replaced, \* changes of the backup receipt so far
  lain      \* history, until the command is sent: the backup receipts on disk
            \* since the target was inspected with the package on the device

Upg == INSTANCE Upgrade
Res == INSTANCE ReceiptContract

hostVars    == <<pc, error, cleanupError, crossed, attempted, removed, before,
                 attempt, result>>
upgradeVars == <<hostVars, cancelling, cancels, app, file, command, drift,
                 shown>>
receiptVars == <<wanted, evidence, started, recorded>>
gateVars    == <<backup, read, reviewed, now, replaced, lain>>
vars == <<upgradeVars, cli, receiptVars, outcome, reported, killed, early, gateVars>>

\* The awaits and prompts of operation(), run by asyncio.run.
InLoop  == {"open", "gate", "inspect", "prompt", "rehydrate", "close"}
Places  == InLoop \cup {"reserve", "validate", "report", "exit"}

Refusals == {"RECEIPT_RESERVATION_FAILED", "IPA_INVALID", "DEVICE_UNAVAILABLE",
  "BACKUP_RECEIPT_REFUSED", "APP_LOOKUP_FAILED", "TARGET_NOT_REHYDRATABLE",
  "REHYDRATE_NOT_CONFIRMED", "INTERNAL_ERROR"}
Outcomes == Refusals \cup Upg!Results

Digests == {1, 2}
BackupReceipts == [digest : Digests, matches : BOOLEAN, created : 0..MaxClock]
NothingRead == [digest |-> 0, matches |-> FALSE, created |-> 0]

Init ==
  /\ Upg!Init
  /\ cli = "reserve" /\ wanted \in BOOLEAN
  /\ Res!Init /\ recorded = "nothing"
  /\ outcome = "PENDING" /\ reported = "PENDING"
  /\ killed = FALSE /\ early = FALSE
  /\ backup \in {b \in BackupReceipts : b.digest = 1}
  /\ read = NothingRead /\ reviewed = 0 /\ now = 0 /\ replaced = 0
  /\ lain = {}
-----------------------------------------------------------------------------
Upgrading == <<hostVars, app, file, command, drift, shown>>
Others == <<wanted, early, gateVars>>

\* A place without an await pays no attention to a pending cancellation.
Goto(place) == cli' = place /\ UNCHANGED <<outcome, reported>>
Fails(reason, place) ==
  cli' = place /\ outcome' = reason /\ UNCHANGED reported

Stay == UNCHANGED <<Upgrading, Others, cancelling, cancels, killed, started,
                    recorded>>

ReservesReceipt ==
  /\ cli = "reserve"
  /\ \/ wanted /\ Res!Reserve /\ Goto("validate")
     \/ ~wanted /\ Goto("validate") /\ UNCHANGED evidence
     \/ /\ wanted /\ UNCHANGED <<evidence, outcome>>
        /\ cli' = "exit" /\ reported' = "RECEIPT_RESERVATION_FAILED"
  /\ UNCHANGED <<Upgrading, Others, cancelling, cancels, killed, recorded>>
  /\ UNCHANGED started

ValidatesIpa ==
  /\ cli = "validate"
  /\ Goto("open") \/ Fails("IPA_INVALID", "report")
  /\ Stay /\ UNCHANGED evidence

\* An await of operation() outside rehydrate_app.
Awaits(place, next, failures, after) ==
  /\ cli = place
  /\ \/ ~cancelling /\ Goto(next) /\ UNCHANGED cancelling
     \/ /\ ~cancelling /\ UNCHANGED cancelling
        /\ \E reason \in failures : Fails(reason, after)
     \/ cancelling /\ cancelling' = FALSE /\ Fails(Upg!Interrupt, after)
  /\ UNCHANGED <<Upgrading, Others, cancels, killed, receiptVars>>

OpensDevice == Awaits("open", "gate", {"DEVICE_UNAVAILABLE"}, "report")

\* _validate_backup_gate reads the file, at the gate and at the boundary ...
ReadsBackupReceipt ==
  /\ cli = "gate" \/ (cli = "rehydrate" /\ pc = "boundary")
  /\ read = NothingRead /\ read' = backup
  /\ UNCHANGED <<upgradeVars, cli, outcome, reported, killed, receiptVars,
                 early, backup, reviewed, now, replaced, lain>>

\* ... and judges what it read by the clock and the selected device and app;
\* the file may be another one by then.
GateAccepts ==
  /\ read.matches
  /\ read.created <= now + MAX_RECEIPT_FUTURE_SKEW
  /\ read.created + MAX_RECEIPT_AGE >= now

\* Mutant: what the gate has read is kept for the boundary.
ValidatesGateKeeping ==
  /\ cli = "gate" /\ read # NothingRead /\ GateAccepts /\ Goto("inspect")
  /\ reviewed' = read.digest
  /\ UNCHANGED <<Upgrading, receiptVars, early, backup, read, now, replaced,
                 lain, cancelling, cancels, killed>>

ValidatesGate ==
  /\ cli = "gate" /\ read # NothingRead /\ read' = NothingRead
  /\ IF GateAccepts THEN Goto("inspect") /\ reviewed' = read.digest
     ELSE Fails("BACKUP_RECEIPT_REFUSED", "close") /\ UNCHANGED reviewed
  /\ UNCHANGED <<Upgrading, receiptVars, early, backup, now, replaced, lain,
                 cancelling, cancels, killed>>

Inspects ==
  Awaits("inspect",
         "prompt",
         {"APP_LOOKUP_FAILED", "INTERNAL_ERROR"}, "close")
  /\ (cli' = "prompt" => EligibleTarget(InspectApp(app)))

InspectsIneligible ==
  /\ cli = "inspect" /\ ~cancelling /\ Upg!Shows
  /\ ~EligibleTarget(InspectApp(app))
  /\ Fails("TARGET_NOT_REHYDRATABLE", "close")
  /\ Stay /\ UNCHANGED evidence

\* Mutant: the prompt uncancels.
PromptsUncancelling ==
  /\ cli = "prompt" /\ Goto("rehydrate") /\ cancelling' = FALSE
  /\ UNCHANGED <<Upgrading, Others, cancels, killed, receiptVars>>

\* typer.prompt blocks the loop: a first Ctrl-C stays pending, a second one
\* becomes typer.Abort, like the end of the input.
Prompts ==
  /\ cli = "prompt"
  /\ \/ Goto("rehydrate")
     \/ \E reason \in {"REHYDRATE_NOT_CONFIRMED", Upg!Interrupt} :
          Fails(reason, "close")
  /\ Stay /\ UNCHANGED evidence
-----------------------------------------------------------------------------
(* rehydrate_app                                                           *)

RunsUpgrade ==
  /\ cli = "rehydrate" /\ Upg!HostStep
  /\ lain' = CASE pc' = "proxy_open" -> {backup}
               [] pc' = "boundary"   -> lain
               [] OTHER              -> {}
  /\ UNCHANGED <<cli, outcome, reported, killed, receiptVars, early, backup,
                 read, reviewed, now, replaced>>

\* Mutant: the reservation is not marked.
BoundaryAcceptsUnmarked ==
  /\ cli = "rehydrate" /\ GateAccepts /\ read.digest = reviewed
  /\ Upg!CrossesBoundary /\ read' = NothingRead
  /\ UNCHANGED <<cli, outcome, reported, killed, receiptVars, early, backup,
                 reviewed, now, replaced, lain>>

\* mutation_boundary: the gate again, the same digest, then
\* mark_operation_started, which may find the reservation changed.
BoundaryAccepts ==
  /\ cli = "rehydrate" /\ GateAccepts /\ read.digest = reviewed
  /\ Upg!CrossesBoundary /\ read' = NothingRead
  /\ IF wanted THEN Res!Start ELSE UNCHANGED <<evidence, started>>
  /\ UNCHANGED <<cli, outcome, reported, killed, wanted, recorded, early,
                 backup, reviewed, now, replaced, lain>>

BoundaryRefuses ==
  /\ cli = "rehydrate" /\ read # NothingRead
  /\ ~(GateAccepts /\ read.digest = reviewed) \/ wanted
  /\ Upg!BoundaryRefuses("BOUNDARY_REFUSED") /\ read' = NothingRead
  /\ UNCHANGED <<cli, outcome, reported, killed, receiptVars, early, backup,
                 reviewed, now, replaced, lain>>

ReturnsFromUpgrade ==
  /\ cli = "rehydrate" /\ pc = "done" /\ Fails(result, "close")
  /\ Stay /\ UNCHANGED evidence
-----------------------------------------------------------------------------
(* Closing, the receipt, and the exit reason                               *)

\* Mutant: the close never returns once the task was cancelled.
ClosesDeviceUncancelled ==
  /\ cli = "close" /\ ~cancelling /\ Goto("report") /\ UNCHANGED cancelling
  /\ UNCHANGED <<Upgrading, Others, cancels, killed, receiptVars>>

\* The finally clause of open_device swallows whatever the close raises.
ClosesDevice ==
  /\ cli = "close" /\ Goto("report") /\ cancelling' = FALSE
  /\ UNCHANGED <<Upgrading, Others, cancels, killed, receiptVars>>

Exits(reason) == cli' = "exit" /\ reported' = reason /\ UNCHANGED outcome

\* What asyncio.run raises or returns.
Final == IF killed THEN Upg!Interrupt ELSE outcome

\* commit, or preserve when it fails.
Finalizes(says) ==
  \/ ~wanted /\ UNCHANGED <<evidence, recorded>>
  \/ wanted /\ Res!Write /\ recorded' = says
  \/ wanted /\ Res!Keep /\ UNCHANGED recorded

\* Mutants: the receipt, or the exit, says success of an unknown outcome.
RecordsSuccess ==
  /\ cli = "report" /\ Final \in {"SUCCESS", "UPGRADE_OUTCOME_UNKNOWN"}
  /\ Finalizes("SUCCESS") /\ Exits(Final)
  /\ UNCHANGED <<Upgrading, Others, cancelling, cancels, killed, started>>
ReportsSuccess ==
  /\ cli = "report" /\ Final \in {"SUCCESS", "UPGRADE_OUTCOME_UNKNOWN"}
  /\ Finalizes(Final) /\ Exits("SUCCESS")
  /\ UNCHANGED <<Upgrading, Others, cancelling, cancels, killed, started>>

ReportsOutcome ==
  /\ cli = "report" /\ Final \in {"SUCCESS", "UPGRADE_OUTCOME_UNKNOWN"}
  /\ Finalizes(Final) /\ Exits(Final)
  /\ UNCHANGED <<Upgrading, Others, cancelling, cancels, killed, started>>

\* abort_on_pre_operation_failure; abort may find a replacement and keep it.
ReportsFailure ==
  /\ cli = "report" /\ Final \notin {"SUCCESS", "UPGRADE_OUTCOME_UNKNOWN"}
  /\ \/ ~wanted /\ UNCHANGED evidence
     \/ wanted /\ Res!Keep
     \/ wanted /\ ~started /\ Res!Remove
  /\ Exits(Final)
  /\ Stay
-----------------------------------------------------------------------------
(* Ctrl-C                                                                  *)

FirstSigint ==
  /\ cli \in InLoop /\ cancels = 0 /\ cancels < MaxCancels
  /\ cancels' = 1 /\ cancelling' = TRUE
  /\ early' = (cli \in InLoop \ {"rehydrate", "close"})
  /\ UNCHANGED <<Upgrading, cli, outcome, reported, receiptVars, killed,
                 gateVars>>

\* The loop is left; every task is cancelled, the shielded cleanup too.
SecondSigint ==
  /\ cli \in InLoop \ {"gate", "prompt"} /\ pc # "boundary"
  /\ cancels = 1 /\ cancels < MaxCancels
  /\ cancels' = 2 /\ killed' = TRUE
  /\ IF cli = "rehydrate" /\ pc = "cleanup"
     THEN /\ pc' = "afc_close" /\ cancelling' = FALSE
          /\ file' \in {file, "none"}
          /\ cleanupError' = IF cleanupError = "NONE" THEN Upg!Interrupt
                             ELSE cleanupError
     ELSE cancelling' = TRUE /\ UNCHANGED <<pc, file, cleanupError>>
  /\ UNCHANGED <<error, crossed, attempted, removed, before, attempt, result,
                 app, command, drift, shown, cli, outcome, reported, receiptVars,
                 early, gateVars>>

\* Raised inside a synchronous step of the task: the gate, the prompt, the
\* mutation boundary.
SecondSigintInStep ==
  /\ cancels = 1 /\ cancels < MaxCancels /\ cancels' = 2
  /\ read' = NothingRead
  /\ \/ /\ cli \in {"gate", "prompt"} /\ Fails(Upg!Interrupt, "close")
        /\ UNCHANGED <<pc, error>>
     \/ /\ cli = "rehydrate" /\ pc = "boundary"
        /\ pc' = "proxy_close" /\ error' = Upg!Interrupt
        /\ UNCHANGED <<cli, outcome, reported>>
  /\ UNCHANGED <<cleanupError, crossed, attempted, removed, before, attempt,
                 result, app, file, command, drift, shown, cancelling, killed,
                 receiptVars, early, backup, reviewed, now, replaced, lain>>

\* Outside the loop Ctrl-C raises at once: before it, the reservation is
\* aborted; in commit, the receipt is preserved and the outcome reported.
SigintOutsideLoop ==
  /\ cli = "validate" /\ cancels < MaxCancels /\ cancels' = cancels + 1
  /\ Fails(Upg!Interrupt, "report")
  /\ UNCHANGED <<Upgrading, Others, cancelling, killed, receiptVars>>
-----------------------------------------------------------------------------
(* The rest of the world (external)                                        *)

\* The clock and the file are read until the boundary has been crossed.
Undecided ==
  /\ cli \in Places \ {"close", "report", "exit"}
  /\ pc \in {"preflight", "afc_open", "makedirs", "stage", "final_check",
            "proxy_open", "boundary"}

Tick ==
  /\ Undecided /\ now < MaxClock /\ now' = now + 1
  /\ UNCHANGED <<upgradeVars, cli, receiptVars, outcome, reported, killed, early,
                 backup, read, reviewed, replaced, lain>>

ReplacesBackupReceipt ==
  /\ Undecided /\ replaced < MaxReplaced /\ replaced' = replaced + 1
  /\ backup' \in BackupReceipts
  /\ lain' = IF lain = {} THEN {} ELSE lain \cup {backup'}
  /\ UNCHANGED <<upgradeVars, cli, receiptVars, outcome, reported, killed, early,
                 read, reviewed, now>>

DeviceActs ==
  /\ Upg!DeviceStep
  /\ UNCHANGED <<cli, receiptVars, outcome, reported, killed, early, gateVars>>
-----------------------------------------------------------------------------
CliStep ==
  \/ ReservesReceipt \/ ValidatesIpa \/ OpensDevice
  \/ ReadsBackupReceipt \/ ValidatesGate \/ Inspects \/ InspectsIneligible
  \/ Prompts \/ RunsUpgrade \/ BoundaryAccepts \/ BoundaryRefuses \/ ReturnsFromUpgrade
  \/ ClosesDevice \/ ReportsOutcome \/ ReportsFailure

Sigint ==
  \/ FirstSigint \/ SecondSigint \/ SecondSigintInStep \/ SigintOutsideLoop

Next == CliStep \/ Sigint \/ Tick \/ ReplacesBackupReceipt \/ DeviceActs

Spec == Init /\ [][Next]_vars
FairSpec == Spec /\ WF_vars(CliStep)
-----------------------------------------------------------------------------
TypeOK ==
  /\ cli \in Places /\ wanted \in BOOLEAN /\ started \in BOOLEAN
  /\ evidence \in {"absent", "reserved", "written", "kept", "removed"}
  /\ recorded \in {"nothing", "SUCCESS", "UPGRADE_OUTCOME_UNKNOWN"}
  /\ outcome \in Outcomes /\ reported \in Outcomes
  /\ killed \in BOOLEAN /\ early \in BOOLEAN
  /\ backup \in BackupReceipts /\ read \in BackupReceipts \cup {NothingRead}
  /\ reviewed \in {0} \cup Digests /\ lain \subseteq BackupReceipts
  /\ now \in 0..MaxClock /\ replaced \in 0..MaxReplaced
  /\ cancels \in 0..MaxCancels /\ cancelling \in BOOLEAN

\* When the command leaves the host, the backup receipt the operator reviewed
\* was on disk at some moment after the target was found eligible with the
\* package on the device, it is for this device and app, and the clock still
\* found it of age at the boundary: a receipt that was replaced, or went stale,
\* while the operator thought or the package was staged, does not do
\* (cli.py:626-630, 654-665).
SendsOnReviewedBackup ==
  [][command = "unsent" /\ command' # "unsent" =>
       \E r \in lain :
         /\ r.digest = reviewed /\ r.matches
         /\ r.created <= now + MAX_RECEIPT_FUTURE_SKEW
         /\ r.created + MAX_RECEIPT_AGE >= now]_vars

\* Once a command may have left the host, however often Ctrl-C is pressed, the
\* reserved receipt is still there when the process ends (cli.py:666-667, 722).
SentEvidenceSurvives ==
  cli = "exit" /\ wanted /\ command # "unsent" =>
    evidence \in {"written", "kept"}

\* A written result receipt says success only of a completed command, and
\* unknown only past the boundary (cli.py:675-692, 701-711).
RecordedTruth ==
  /\ TypeOK
  /\ recorded = "SUCCESS" => command \in {"complete", "installed"}
  /\ recorded = "UPGRADE_OUTCOME_UNKNOWN" => crossed

\* Ctrl-C before rehydrate_app, at the prompt too, prevents the command even
\* if the operator then answers the prompt.
EarlyInterruptPreventsSend == early => command = "unsent"

\* docs/THREAT_MODEL.md:53: an unknown outcome after the mutation is reported
\* as unknown, never as a failure before it.
ReportedTruth ==
  reported \in Refusals \cup Upg!NotSentReasons => command = "unsent"

\* Every run of the command ends, wherever it fails or is interrupted.
Terminates == <>(cli = "exit" /\ reported # "PENDING")

\* What the operation ends with; a second Ctrl-C that leaves the event loop
\* drops it, see ReportedTruth.
Ended == IF killed /\ reported # "PENDING" THEN outcome ELSE reported

Request == CASE command = "unsent"    -> "none"
             [] command = "in_flight" -> "sent"
             [] command = "rejected"  -> "rejected"
             [] OTHER                 -> "completed"

Verdict == CASE Ended = "PENDING" -> "pending"
             [] Ended = "SUCCESS" -> "success"
             [] Ended = "UPGRADE_POSTCHECK_FAILED" -> "mismatch"
             [] Ended = "UPGRADE_OUTCOME_UNKNOWN"  -> "unknown"
             [] OTHER -> "not_sent"

Contract == INSTANCE UpgradeContract
            WITH boundary <- crossed, request <- Request, verdict <- Verdict

\* What the command ends with keeps the contract of one rehydration, and so
\* does the exit reason unless a second Ctrl-C left the event loop.
ImplementsContract == Contract!Spec
=============================================================================
