----------------------------- MODULE BackupCreate -----------------------------
(***************************************************************************)
(* The command `backup create` (src/ios_rehydrate/cli.py, backup_create):  *)
(* reserve the receipt, open the device, enable encryption when asked (the *)
(* module Encryption, on the same variables), request a full backup into a *)
(* new directory, verify it, close the device, and write the receipt.      *)
(*                                                                         *)
(* The device writes the backup by itself, encrypted or not as it is set   *)
(* while it finishes; other hosts change that setting.  Ctrl-C is as in    *)
(* Rehydrate; what is new is that three awaits swallow it.                 *)
(***************************************************************************)
EXTENDS Naturals, Sequences

CONSTANTS
  MaxCancels, MaxOthers, \* see Encryption
  Directories,           \* a sequence of what the device may leave
  MAX_INSPECTED_DIRECTORY_ENTRIES, MAX_HASHED_PAYLOAD_COUNT \* see BackupLayout

ASSUME BoundsAssumption ==
  /\ MaxCancels \in Nat /\ MaxOthers \in Nat
  /\ MAX_INSPECTED_DIRECTORY_ENTRIES \in Nat
  /\ MAX_HASHED_PAYLOAD_COUNT \in Nat
ASSUME DirectoriesAssumption ==
  Len(Directories) \in Nat /\ DOMAIN Directories = 1 .. Len(Directories)

VARIABLES pc, failed, linkClosed, closed, removed, result, cancelling,
  cancels, sessions, password, request, scratch, others
VARIABLES
  cli,      \* where the command is
  wanted,   \* --receipt was given
  evidence, \* the reserved receipt, as in ReceiptContract
  started,  \* reservation.operation_started
  recorded, \* a success receipt was written
  outcome,  \* what the operation ends with, before reporting
  reported, \* the reason the process exits with
  killed,   \* a KeyboardInterrupt left the event loop
  early,    \* Ctrl-C was pressed before enable_encryption was called
  output,   \* what is at --output
  content   \* which of Directories the device has left in it, 0 if none

Layout == INSTANCE BackupLayout
Enc == INSTANCE Encryption
Res == INSTANCE ReceiptContract

ASSUME ListedAssumption ==
  \A k \in DOMAIN Directories : Layout!Listed(Directories[k])

enableVars  == <<pc, failed, linkClosed, closed, removed, result, sessions,
                 request, scratch>>
worldVars   == <<password, others>>
cancelVars  == <<cancelling, cancels>>
receiptVars == <<wanted, evidence, started, recorded>>
reportVars  == <<outcome, reported>>
vars == <<enableVars, worldVars, cancelVars, receiptVars, reportVars, cli,
          killed, early, output, content>>

Untouched ==
  <<enableVars, worldVars, wanted, recorded, cancels, killed, early, content>>

\* The awaits and prompts of operation(), run by asyncio.run.
InLoop == {"open", "status", "confirm", "enable", "mark", "create_status",
           "enter", "backup", "disconnect", "leave", "validate", "close"}
Places == InLoop \cup {"reserve", "report", "exit"}

Refusals == {"RECEIPT_RESERVATION_FAILED", "BACKUP_OUTPUT_EXISTS",
  "DEVICE_UNAVAILABLE", "BACKUP_ENCRYPTION_REQUIRED",
  "BACKUP_ENCRYPTION_NOT_CONFIRMED", "RECEIPT_RESERVATION_CHANGED",
  "BACKUP_OUTPUT_CREATE_FAILED"}
Failures == {"BACKUP_PATH_UNSAFE", "BACKUP_CREATE_INCOMPLETE",
             "BACKUP_VERIFY_FAILED"}
Outcomes == {"PENDING", "SUCCESS"} \cup Refusals \cup Failures \cup Enc!Results

\* "theirs" is a directory of somebody else.
Outputs == {"absent", "theirs", "ours"}
Nothing == 0

Init ==
  /\ Enc!Init
  /\ cli = "reserve" /\ wanted \in BOOLEAN
  /\ Res!Init /\ recorded = FALSE
  /\ outcome = "PENDING" /\ reported = "PENDING"
  /\ killed = FALSE /\ early = FALSE /\ output \in {"absent", "theirs"}
  /\ content = Nothing
-----------------------------------------------------------------------------
Goto(place) == cli' = place /\ UNCHANGED reportVars
Fails(reason, place) ==
  cli' = place /\ outcome' = reason /\ UNCHANGED reported

\* An await that returns, or is cancelled before it does.
Awaited(place) == cli = place /\ ~cancelling /\ UNCHANGED cancelling
Interrupted(place) == cli = place /\ cancelling /\ cancelling' = FALSE

ReservesReceipt ==
  /\ cli = "reserve"
  /\ \/ wanted /\ Res!Reserve /\ Goto("open")
     \/ ~wanted /\ Goto("open") /\ UNCHANGED <<evidence, started>>
     \/ /\ wanted /\ UNCHANGED <<evidence, started, outcome>>
        /\ cli' = "exit" /\ reported' = "RECEIPT_RESERVATION_FAILED"
  /\ UNCHANGED <<Untouched, cancelling, output>>

\* preflight_backup_output, before the first await, and open_device.
OpensDevice ==
  /\ \/ Awaited("open") /\ output = "absent" /\ Goto("status")
     \/ Awaited("open") /\ output = "absent"
        /\ Fails("DEVICE_UNAVAILABLE", "report")
     \/ Awaited("open") /\ output # "absent"
        /\ Fails("BACKUP_OUTPUT_EXISTS", "report")
     \/ Interrupted("open") /\ Fails(Enc!Interrupt, "report")
  /\ UNCHANGED <<Untouched, evidence, started, output>>

\* Without --enable-encryption an unencrypted device is refused.
ReadsStatus ==
  /\ \/ Awaited("status") /\ Enc!Encrypted /\ Goto("mark")
     \/ Awaited("status") /\ ~Enc!Encrypted
        /\ \/ Goto("confirm")
           \/ Fails("BACKUP_ENCRYPTION_REQUIRED", "close")
     \/ Awaited("status")
        /\ Fails("BACKUP_ENCRYPTION_STATUS_UNAVAILABLE", "close")
     \/ Interrupted("status") /\ Fails(Enc!Interrupt, "close")
  /\ UNCHANGED <<Untouched, evidence, started, output>>

\* mark_operation_started, which may find the reservation changed.
Marks(next) ==
  \/ Goto(next) /\ IF wanted THEN Res!Start ELSE UNCHANGED <<evidence, started>>
  \/ /\ wanted /\ Fails("RECEIPT_RESERVATION_CHANGED", "close")
     /\ UNCHANGED <<evidence, started>>

\* Mutants: the prompts uncancel; or the reservation is not marked before.
ConfirmsUncancelling ==
  /\ cli = "confirm" /\ Marks("enable") /\ cancelling' = FALSE
  /\ UNCHANGED <<Untouched, output>>
ConfirmsUnmarked ==
  /\ cli = "confirm" /\ Goto("enable")
  /\ UNCHANGED <<Untouched, evidence, started, cancelling, output>>

\* The question and the two password prompts block the event loop: a pending
\* Ctrl-C is not seen there.
Confirms ==
  /\ cli = "confirm"
  /\ \/ Marks("enable")
     \/ /\ UNCHANGED <<evidence, started>>
        /\ \E e \in {"BACKUP_ENCRYPTION_NOT_CONFIRMED", Enc!Interrupt} :
             Fails(e, "close")
  /\ UNCHANGED <<Untouched, cancelling, output>>
-----------------------------------------------------------------------------
(* enable_encryption                                                       *)

RunsEnable ==
  /\ cli = "enable" /\ Enc!HostStep
  /\ UNCHANGED <<receiptVars, reportVars, cli, killed, early, output, content>>

ReturnsFromEnable ==
  /\ cli = "enable" /\ pc = "done"
  /\ IF result \in {"already", "enabled"}
     THEN Goto("create_status") ELSE Fails(result, "close")
  /\ UNCHANGED <<Untouched, evidence, started, cancelling, output>>

MarksStarted ==
  /\ cli = "mark" /\ Marks("create_status")
  /\ UNCHANGED <<Untouched, cancelling, output>>
-----------------------------------------------------------------------------
(* create_backup                                                           *)

\* The status once more, then mkdir without an await between; the new directory
\* stays when one above it turns out to be a link.
ReservesOutput ==
  /\ \/ Awaited("create_status") /\ Enc!Encrypted /\ output = "absent"
        /\ output' = "ours"
        /\ (Goto("enter") \/ Fails("BACKUP_PATH_UNSAFE", "close"))
     \/ Awaited("create_status") /\ UNCHANGED output
        /\ \E e \in {"BACKUP_ENCRYPTION_STATUS_UNAVAILABLE",
                     "BACKUP_OUTPUT_CREATE_FAILED"} : Fails(e, "close")
     \/ Awaited("create_status") /\ ~Enc!Encrypted /\ UNCHANGED output
        /\ Fails("BACKUP_ENCRYPTION_REQUIRED", "close")
     \/ Awaited("create_status") /\ Enc!Encrypted /\ output # "absent"
        /\ Fails("BACKUP_OUTPUT_EXISTS", "close") /\ UNCHANGED output
     \/ Interrupted("create_status") /\ Fails(Enc!Interrupt, "close")
        /\ UNCHANGED output
  /\ UNCHANGED <<Untouched, evidence, started>>

\* A service that was not entered is not left either.
EntersService ==
  /\ \/ Awaited("enter") /\ Goto("backup")
     \/ (Awaited("enter") \/ Interrupted("enter"))
        /\ Fails("BACKUP_CREATE_INCOMPLETE", "close")
  /\ UNCHANGED <<Untouched, evidence, started, output>>

\* The device may end the exchange without an error and without a backup.  A
\* connect that fails leaves no link to disconnect.
RunsBackup ==
  /\ \/ Awaited("backup") /\ Goto("disconnect")
     \/ (Awaited("backup") \/ Interrupted("backup"))
        /\ \E next \in {"disconnect", "leave"} :
             Fails("BACKUP_CREATE_INCOMPLETE", next)
  /\ UNCHANGED <<Untouched, evidence, started, output>>

\* The finally clause of device_link swallows what the disconnect raises.
DisconnectsLink ==
  /\ Awaited("disconnect") \/ Interrupted("disconnect")
  /\ Goto("leave")
  /\ UNCHANGED <<Untouched, evidence, started, output>>

\* __aexit__, timed; it swallows whatever it raises, a cancellation too.
LeavesService ==
  /\ Awaited("leave") \/ Interrupted("leave")
  /\ Goto(IF outcome = "PENDING" THEN "validate" ELSE "close")
  /\ UNCHANGED <<Untouched, evidence, started, output>>

\* validate_backup, of what is there; the verdict depends on nothing else.
Accepted == {k \in DOMAIN Directories : Layout!Validates(Directories[k])}
Finished == {k \in DOMAIN Directories : Layout!Finished(Directories[k])}

Validates ==
  /\ cli = "validate"
  /\ IF content \in Accepted
     THEN Fails("SUCCESS", "close")
     ELSE Fails("BACKUP_VERIFY_FAILED", "close")
  /\ UNCHANGED <<Untouched, evidence, started, cancelling, output>>
-----------------------------------------------------------------------------
(* Closing, the receipt, and the exit reason                               *)

\* Mutant: the close waits for the device after a cancellation.
ClosesDeviceUncancelled ==
  /\ Awaited("close") /\ Goto("report")
  /\ UNCHANGED <<Untouched, evidence, started, output>>

\* The finally clause of open_device swallows whatever the close raises.
ClosesDevice ==
  /\ Awaited("close") \/ Interrupted("close")
  /\ Goto("report")
  /\ UNCHANGED <<Untouched, evidence, started, output>>

\* What asyncio.run raises or returns.
Final == IF killed THEN Enc!Interrupt ELSE outcome
Exits == cli' = "exit" /\ reported' = Final /\ UNCHANGED outcome

\* commit, or preserve when it fails.
ReportsSuccess ==
  /\ cli = "report" /\ Final = "SUCCESS" /\ Exits
  /\ \/ ~wanted /\ UNCHANGED <<evidence, recorded, started>>
     \/ wanted /\ Res!Write /\ recorded' = TRUE
     \/ wanted /\ Res!Keep /\ UNCHANGED recorded
  /\ UNCHANGED <<enableVars, worldVars, cancelVars, wanted, killed, early,
                 output, content>>

\* abort_on_pre_operation_failure; abort may find a replacement and keep it.
ReportsFailure ==
  /\ cli = "report" /\ Final # "SUCCESS" /\ Exits
  /\ \/ ~wanted /\ UNCHANGED <<evidence, started>>
     \/ wanted /\ Res!Keep
     \/ wanted /\ Res!Remove
  /\ UNCHANGED <<Untouched, cancelling, output>>
-----------------------------------------------------------------------------
(* Ctrl-C (external)                                                       *)

Sigint ==
  /\ cancels < MaxCancels /\ cancels' = cancels + 1
  /\ UNCHANGED <<enableVars, worldVars, receiptVars, output, content>>

FirstSigint ==
  /\ cli \in InLoop /\ cancels = 0 /\ Sigint /\ cancelling' = TRUE
  /\ early' = (cli \in {"open", "status", "confirm"})
  /\ UNCHANGED <<reportVars, cli, killed>>

\* The loop is left; the main task is cancelled and runs to its end.
SecondSigint ==
  /\ cli \in InLoop \ {"confirm", "mark", "validate"} /\ cancels = 1
  /\ Sigint /\ killed' = TRUE /\ cancelling' = TRUE
  /\ UNCHANGED <<reportVars, cli, early>>

\* Raised inside a synchronous step of the task.
SecondSigintInStep ==
  /\ cli \in {"confirm", "mark", "validate"} /\ cancels = 1 /\ Sigint
  /\ Fails(Enc!Interrupt, "close")
  /\ UNCHANGED <<cancelling, killed, early>>
-----------------------------------------------------------------------------
(* The rest of the world (external)                                        *)

cliVars == <<receiptVars, reportVars, cli, killed, early>>

WorldActs == Enc!WorldStep /\ UNCHANGED <<cliVars, output, content>>

\* What the device leaves, finished or not, is encrypted if the device is set so
\* when it stops writing.
DeviceWritesBackup ==
  /\ cli = "backup" /\ content = Nothing
  /\ \E k \in DOMAIN Directories :
       Directories[k].encrypted = Enc!Encrypted /\ content' = k
  /\ UNCHANGED <<enableVars, worldVars, cancelVars, cliVars, output>>

OthersTakeOutput ==
  /\ output = "absent" /\ others < MaxOthers
  /\ output' = "theirs" /\ others' = others + 1
  /\ UNCHANGED <<enableVars, password, cancelVars, cliVars, content>>
-----------------------------------------------------------------------------
CliStep ==
  \/ ReservesReceipt \/ OpensDevice \/ ReadsStatus \/ Confirms
  \/ RunsEnable \/ ReturnsFromEnable \/ MarksStarted
  \/ ReservesOutput \/ EntersService \/ RunsBackup \/ DisconnectsLink
  \/ LeavesService \/ Validates \/ ClosesDevice \/ ReportsSuccess \/ ReportsFailure

Next ==
  \/ CliStep \/ FirstSigint \/ SecondSigint \/ SecondSigintInStep
  \/ WorldActs \/ DeviceWritesBackup \/ OthersTakeOutput

Spec == Init /\ [][Next]_vars
FairSpec == Spec /\ WF_vars(CliStep)
-----------------------------------------------------------------------------
TypeOK ==
  /\ Enc!TypeOK
  /\ cli \in Places /\ wanted \in BOOLEAN /\ started \in BOOLEAN
  /\ evidence \in {"absent", "reserved", "written", "kept", "removed"}
  /\ recorded \in BOOLEAN /\ outcome \in Outcomes /\ reported \in Outcomes
  /\ killed \in BOOLEAN /\ early \in BOOLEAN
  /\ output \in Outputs /\ content \in 0 .. Len(Directories)

\* What enable_encryption reports of the device, of its sessions and of its
\* scratch directory is true, wherever Ctrl-C, a timeout or another host falls
\* into it; the parts are in Encryption (backup.py:137-219, 374-444).
EnableIsTruthful ==
  /\ Enc!TruthfulRefusal /\ Enc!TruthfulEnable
  /\ Enc!TruthfulClose /\ Enc!TruthfulScratch

\* A success receipt, and a success exit, mean a finished and encrypted backup
\* of this device although the setting was read before the device wrote it, and
\* another host may have changed it since (backup.py:241, 268, 325).
TruthfulSuccess ==
  /\ TypeOK
  /\ recorded \/ reported = "SUCCESS" =>
       output = "ours" /\ content \in Finished

\* A backup is only refused if something is wrong with it: the verdict does not
\* depend on the order in which the file system lists the directory, nor on how
\* the entries are spread over the buckets (backup.py:278-339, 631-721).
RefusesOnlyUnfinished ==
  outcome = "BACKUP_VERIFY_FAILED" =>
    content \notin Finished

\* Once the encryption request may have left the host, or the output directory
\* exists, the reserved receipt is still there when the process ends, however
\* often Ctrl-C is pressed (cli.py:429-430, 439-440, 453-455).
ChangeEvidenceSurvives ==
  cli = "exit" /\ wanted
  /\ (request # "unsent" \/ output \notin {"absent", "theirs"}) =>
    evidence \in {"written", "kept"}

\* Ctrl-C before enable_encryption, at its prompts too, prevents the request
\* and the backup even if the operator then answers (cli.py:417-433).
EarlyInterruptPreventsChange ==
  early => request = "unsent" /\ output \in {"absent", "theirs"}

\* Every run of the command ends, wherever it fails or is interrupted.
Terminates == <>(cli = "exit" /\ reported # "PENDING")
=============================================================================
