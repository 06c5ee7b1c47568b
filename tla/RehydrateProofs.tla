--------------------------- MODULE RehydrateProofs ---------------------------
(***************************************************************************)
(* Theorems about `app rehydrate`, for every device, every age, skew and   *)
(* clock, and any number of changes of the backup receipt by others.  The  *)
(* call of rehydrate_app is the one of Upgrade, now with the two things    *)
(* the command adds to it: its mutation boundary, and the second Ctrl-C.   *)
(***************************************************************************)
EXTENDS Rehydrate, TLAPS

USE GateAssumption, CancelsAssumption DEF GateAssumption, CancelsAssumption

\* The part of Upgrade's invariant the command relies on.
CallTypeOK ==
  /\ pc \in Upg!Labels /\ result \in Upg!Results
  /\ error \in Upg!Errors /\ cleanupError \in {"NONE", "EXCEPTION", Upg!Interrupt}
  /\ crossed \in BOOLEAN
  /\ command \in {"unsent", "in_flight", "complete", "installed", "rejected"}

CallInv == CallTypeOK /\ Upg!BoundaryInv /\ Upg!SendInv /\ Upg!VerdictInv

\* Before the call nothing has happened to it; after it the outcome is its.
Before == {"reserve", "validate", "open", "gate", "inspect", "prompt"}
Ending == {"close", "report", "exit"}
OutcomeInv ==
  /\ cli \in Before => pc = "preflight"
  /\ cli \notin Ending => outcome = "PENDING"
  /\ cli \in {"reserve", "validate"} => ~killed
  /\ cli \in Ending =>
       \/ pc = "preflight" /\ outcome \notin Upg!SentReasons
       \/ pc = "done" /\ outcome = result
  /\ cli \in {"close", "report"} => outcome # "PENDING"
  /\ reported = "PENDING" <=> cli # "exit"

\* The reservation is marked exactly when the boundary is crossed.
EvidenceInv ==
  /\ started <=> wanted /\ crossed
  /\ wanted /\ cli \notin {"reserve", "exit"} => evidence = "reserved"
  /\ wanted /\ cli = "exit" /\ started => evidence \in {"written", "kept"}

RecordInv ==
  /\ recorded = "SUCCESS" => Upg!Completed
  /\ recorded = "UPGRADE_OUTCOME_UNKNOWN" => crossed

\* An early Ctrl-C is still to be seen, or was seen.
EarlyInv ==
  early =>
    /\ ~crossed /\ cancels > 0
    /\ \/ cancelling /\ cli \in {"open", "gate", "inspect", "prompt"}
       \/ cancelling /\ cli = "rehydrate" /\ pc = "preflight"
       \/ cli = "rehydrate" /\ pc = "done"
       \/ cli \in Ending

CommandInv ==
  TypeOK /\ CallInv /\ OutcomeInv /\ EvidenceInv /\ RecordInv /\ EarlyInv

\* The receipt with the reviewed digest, of age by the clock.
Reviewed(r) ==
  /\ r.digest = reviewed /\ r.matches
  /\ r.created <= now + MAX_RECEIPT_FUTURE_SKEW
  /\ r.created + MAX_RECEIPT_AGE >= now

\* What the boundary has read lay on disk after the second inspection.
ReviewInv ==
  /\ read # NothingRead => cli = "gate" \/ (cli = "rehydrate" /\ pc = "boundary")
  /\ pc \in {"proxy_open", "boundary"} => backup \in lain
  /\ pc = "boundary" /\ read # NothingRead => read \in lain
  /\ pc = "send" /\ command = "unsent" => \E r \in lain : Reviewed(r)
-----------------------------------------------------------------------------
LEMMA InitialInv == Init => CommandInv /\ ReviewInv
<1> SUFFICES ASSUME Init PROVE CommandInv /\ ReviewInv
  OBVIOUS
<1> USE DEF Init, Upg!Init, Upg!InitHost, Upg!InitDevice, Res!Init
<1>1. TypeOK
  <2>1. /\ now \in 0..MaxClock /\ replaced \in 0..MaxReplaced
        /\ cancels \in 0..MaxCancels
    OBVIOUS
  <2>2. cli \in Places /\ outcome \in Outcomes /\ reported \in Outcomes
    BY DEF Places, Outcomes, Upg!Results
  <2> QED BY <2>1, <2>2 DEF TypeOK
<1>2. CallInv
  BY DEF CallInv, CallTypeOK, Upg!Labels, Upg!Results, Upg!Errors,
         Upg!BoundaryInv, Upg!SendInv, Upg!VerdictInv, Upg!NotSentReasons,
         Upg!SentReasons, Upg!RehydrateErrors, Upg!LookupErrors, Upg!Interrupt
<1>3. OutcomeInv /\ EvidenceInv /\ RecordInv /\ EarlyInv
  BY DEF OutcomeInv, EvidenceInv, RecordInv, EarlyInv, Before, Ending,
         Upg!SentReasons
<1>4. ReviewInv
  BY DEF ReviewInv
<1> QED BY <1>1, <1>2, <1>3, <1>4 DEF CommandInv
-----------------------------------------------------------------------------
(* The call of rehydrate_app                                               *)

LEMMA Reasons ==
  /\ "PENDING" \notin Upg!NotSentReasons \cup Upg!SentReasons
  /\ Upg!NotSentReasons \cap Upg!SentReasons = {}
  /\ Upg!Results = {"PENDING"} \cup Upg!NotSentReasons \cup Upg!SentReasons
  /\ Upg!NotSentReasons = Upg!RehydrateErrors \cup
       {Upg!Interrupt, "STAGING_CLEANUP_UNCONFIRMED", "UPGRADE_START_FAILED",
        "INTERNAL_ERROR"}
  /\ Upg!SentReasons =
       {"SUCCESS", "UPGRADE_POSTCHECK_FAILED", "UPGRADE_OUTCOME_UNKNOWN"}
  /\ Upg!Errors = Upg!RehydrateErrors \cup {"NONE", "EXCEPTION", Upg!Interrupt}
  /\ Upg!LookupErrors \cup {"APP_LOOKUP_FAILED", "TARGET_NOT_REHYDRATABLE",
       "APP_PREFLIGHT_TIMEOUT", "APP_FINAL_PREFLIGHT_TIMEOUT",
       "TARGET_CHANGED_DURING_STAGING", "BOUNDARY_REFUSED"}
       \subseteq Upg!RehydrateErrors
  /\ "NONE" \notin Upg!RehydrateErrors \cup {Upg!Interrupt}
BY DEF Upg!NotSentReasons, Upg!SentReasons, Upg!Results, Upg!Errors,
       Upg!RehydrateErrors, Upg!LookupErrors, Upg!Interrupt

LEMMA LabelsAre ==
  Upg!Labels = {"preflight", "afc_open", "makedirs", "stage", "final_check",
                "proxy_open", "boundary", "send", "proxy_close", "cleanup",
                "afc_close", "postflight", "pause", "done"}
BY DEF Upg!Labels

LEMMA CallHostStep == CallInv /\ Upg!HostStep => CallInv'
<1> SUFFICES ASSUME CallInv, Upg!HostStep PROVE CallInv'
  OBVIOUS
<1> USE DEF CallInv, CallTypeOK, Upg!BoundaryInv, Upg!SendInv, Upg!VerdictInv,
            Upg!Completed, Upg!At, Upg!Cancelled, Upg!Goto, Upg!Finish,
            Upg!Fail, Upg!Locals, Upg!deviceVars, Upg!hostVars
<1>1. CASE Upg!PreflightInspects
  BY <1>1, Reasons, LabelsAre DEF Upg!PreflightInspects
<1>2. CASE Upg!PreflightFails
  BY <1>2, Reasons, LabelsAre DEF Upg!PreflightFails
<1>3. CASE Upg!OpensAfc
  BY <1>3, Reasons, LabelsAre DEF Upg!OpensAfc, Upg!Conclude, Upg!OuterReason
<1>4. CASE Upg!MakesDirectory
  BY <1>4, Reasons, LabelsAre DEF Upg!MakesDirectory
<1>5. CASE Upg!StagesPackage
  BY <1>5, Reasons, LabelsAre DEF Upg!StagesPackage
<1>6. CASE Upg!FinalInspects
  BY <1>6, Reasons, LabelsAre DEF Upg!FinalInspects
<1>7. CASE Upg!OpensProxy
  BY <1>7, Reasons, LabelsAre DEF Upg!OpensProxy
<1>8. CASE Upg!StagingFails
  BY <1>8, Reasons, LabelsAre DEF Upg!StagingFails
<1>9. CASE Upg!TransmitsCommand
  BY <1>9, Reasons, LabelsAre DEF Upg!TransmitsCommand
<1>10. CASE Upg!SendReturns
  BY <1>10, Reasons, LabelsAre DEF Upg!SendReturns
<1>11. CASE Upg!SendFails
  BY <1>11, Reasons, LabelsAre DEF Upg!SendFails
<1>12. CASE Upg!ClosesProxy
  BY <1>12, Reasons, LabelsAre DEF Upg!ClosesProxy
<1>13. CASE Upg!CleanupInterrupted
  BY <1>13, Reasons, LabelsAre DEF Upg!CleanupInterrupted
<1>14. CASE Upg!CleanupAnswers
  BY <1>14, Reasons, LabelsAre DEF Upg!CleanupAnswers
<1>15. CASE Upg!CleanupRaises
  BY <1>15, Reasons, LabelsAre DEF Upg!CleanupRaises
<1>16. CASE Upg!ClosesAfc
  BY <1>16, Reasons, LabelsAre DEF Upg!ClosesAfc, Upg!Conclude, Upg!OuterReason
<1>17. CASE Upg!AfcCloseFails
  BY <1>17, Reasons, LabelsAre DEF Upg!AfcCloseFails, Upg!Conclude, Upg!OuterReason
<1>18. CASE Upg!PostflightInspects
  BY <1>18, Reasons, LabelsAre DEF Upg!PostflightInspects
<1>19. CASE Upg!PostflightResumes
  BY <1>19, Reasons, LabelsAre DEF Upg!PostflightResumes
<1>20. CASE Upg!PostflightFails
  BY <1>20, Reasons, LabelsAre DEF Upg!PostflightFails
<1> QED
  BY <1>1, <1>2, <1>3, <1>4, <1>5, <1>6, <1>7, <1>8, <1>9, <1>10, <1>11,
     <1>12, <1>13, <1>14, <1>15, <1>16, <1>17, <1>18, <1>19, <1>20
  DEF Upg!HostStep

LEMMA CallBoundaryStep ==
  CallInv /\ (Upg!CrossesBoundary \/ Upg!BoundaryRefuses("BOUNDARY_REFUSED")) =>
    CallInv'
BY Reasons, LabelsAre
DEF CallInv, CallTypeOK, Upg!BoundaryInv, Upg!SendInv, Upg!VerdictInv,
    Upg!Completed, Upg!CrossesBoundary, Upg!BoundaryRefuses, Upg!Goto, Upg!Fail,
    Upg!Locals, Upg!deviceVars

LEMMA CallDeviceStep == CallInv /\ Upg!DeviceStep => CallInv'
BY DEF CallInv, CallTypeOK, Upg!BoundaryInv, Upg!SendInv, Upg!VerdictInv,
       Upg!Completed, Upg!DeviceStep, Upg!DeviceCreatesFile,
       Upg!DeviceCompletes, Upg!DeviceInstalls, Upg!DeviceRejects,
       Upg!AppDrifts, Upg!hostVars

LEMMA CallSigint ==
  CallInv /\ (SecondSigint \/ SecondSigintInStep) => CallInv'
<1> SUFFICES ASSUME CallInv, SecondSigint \/ SecondSigintInStep PROVE CallInv'
  OBVIOUS
<1> USE DEF CallInv, CallTypeOK, Upg!BoundaryInv, Upg!SendInv, Upg!VerdictInv,
            Upg!Completed
<1>1. CASE SecondSigint
  BY <1>1, Reasons, LabelsAre DEF SecondSigint
<1>2. CASE SecondSigintInStep
  BY <1>2, Reasons, LabelsAre DEF SecondSigintInStep
<1> QED BY <1>1, <1>2

LEMMA CallUntouched ==
  ASSUME CallInv,
         UNCHANGED <<pc, result, error, cleanupError, crossed, command>>
  PROVE  CallInv'
BY DEF CallInv, CallTypeOK, Upg!BoundaryInv, Upg!SendInv, Upg!VerdictInv,
       Upg!Completed
-----------------------------------------------------------------------------
(* The command                                                             *)

\* What the command uses of the call and of the device.
LEMMA CallHostFacts ==
  ASSUME Upg!HostStep
  PROVE  /\ pc \notin {"boundary", "done"} /\ UNCHANGED <<crossed, cancels>>
         /\ cancelling' \in {FALSE, cancelling}
         /\ \/ command' = command
            \/ command = "unsent" /\ command' = "in_flight"
         /\ pc = "preflight" /\ cancelling => pc' = "done"
BY DEF Upg!HostStep, Upg!PreflightInspects, Upg!PreflightFails, Upg!OpensAfc,
       Upg!MakesDirectory, Upg!StagesPackage, Upg!FinalInspects,
       Upg!OpensProxy, Upg!StagingFails, Upg!TransmitsCommand,
       Upg!SendReturns, Upg!SendFails, Upg!ClosesProxy,
       Upg!CleanupInterrupted, Upg!CleanupAnswers, Upg!CleanupRaises,
       Upg!ClosesAfc, Upg!AfcCloseFails, Upg!PostflightInspects,
       Upg!PostflightResumes, Upg!PostflightFails, Upg!At, Upg!Cancelled,
       Upg!Finish, Upg!Locals, Upg!deviceVars, Upg!hostVars

\* The command leaves the host from the send.
LEMMA CallSends ==
  ASSUME Upg!HostStep, command' # command PROVE pc = "send"
BY DEF Upg!HostStep, Upg!PreflightInspects, Upg!PreflightFails, Upg!OpensAfc,
       Upg!MakesDirectory, Upg!StagesPackage, Upg!FinalInspects,
       Upg!OpensProxy, Upg!StagingFails, Upg!TransmitsCommand,
       Upg!SendReturns, Upg!SendFails, Upg!ClosesProxy,
       Upg!CleanupInterrupted, Upg!CleanupAnswers, Upg!CleanupRaises,
       Upg!ClosesAfc, Upg!AfcCloseFails, Upg!PostflightInspects,
       Upg!PostflightResumes, Upg!PostflightFails, Upg!Locals, Upg!deviceVars

LEMMA DeviceFacts ==
  ASSUME Upg!DeviceStep
  PROVE  /\ UNCHANGED <<pc, result, crossed, cancelling, cancels>>
         /\ \/ command' = command
            \/ command = "in_flight" /\ command' \in {"complete", "rejected"}
            \/ command = "complete" /\ command' = "installed"
BY DEF Upg!DeviceStep, Upg!DeviceCreatesFile, Upg!DeviceCompletes,
       Upg!DeviceInstalls, Upg!DeviceRejects, Upg!AppDrifts, Upg!hostVars,
       Upg!deviceVars

LEMMA NextCall == CommandInv /\ [Next]_vars => CallInv'
<1> SUFFICES ASSUME CommandInv, [Next]_vars PROVE CallInv'
  OBVIOUS
<1> USE DEF CommandInv
<1>1. CASE RunsUpgrade
  BY <1>1, CallHostStep DEF RunsUpgrade
<1>2. CASE BoundaryAccepts \/ BoundaryRefuses
  BY <1>2, CallBoundaryStep DEF BoundaryAccepts, BoundaryRefuses
<1>3. CASE DeviceActs
  BY <1>3, CallDeviceStep DEF DeviceActs
<1>4. CASE SecondSigint \/ SecondSigintInStep
  BY <1>4, CallSigint
<1>5. CASE \/ CliStep /\ ~RunsUpgrade /\ ~BoundaryAccepts /\ ~BoundaryRefuses
           \/ FirstSigint \/ SigintOutsideLoop \/ Tick \/ ReplacesBackupReceipt
           \/ UNCHANGED vars
  <2>1. UNCHANGED <<pc, result, error, cleanupError, crossed, command>>
    BY <1>5
    DEF CliStep, ReservesReceipt, ValidatesIpa, OpensDevice, ReadsBackupReceipt,
        ValidatesGate, Inspects, InspectsIneligible, Prompts, ReturnsFromUpgrade,
        ClosesDevice, ReportsOutcome, ReportsFailure, Awaits, FirstSigint,
        SigintOutsideLoop, Tick, ReplacesBackupReceipt, Stay, Upgrading,
        upgradeVars, hostVars, vars
  <2> QED BY <2>1, CallUntouched
<1> QED BY <1>1, <1>2, <1>3, <1>4, <1>5 DEF Next, Sigint

LEMMA SigintType ==
  ASSUME TypeOK, SecondSigint
  PROVE  cancels' \in 0..MaxCancels /\ cancelling' \in BOOLEAN
<1>1. cancels' = 2 /\ 2 \in 0..MaxCancels
  BY DEF SecondSigint
<1>2. cancelling' \in BOOLEAN
  BY DEF SecondSigint
<1> QED BY <1>1, <1>2

LEMMA NextCommand ==
  CommandInv /\ [Next]_vars =>
    (TypeOK /\ OutcomeInv /\ EvidenceInv /\ RecordInv /\ EarlyInv)'
<1> DEFINE Kept == TypeOK /\ OutcomeInv /\ EvidenceInv /\ RecordInv /\ EarlyInv
<1> SUFFICES ASSUME CommandInv, [Next]_vars PROVE Kept'
  OBVIOUS
<1> USE DEF CommandInv, TypeOK, OutcomeInv, EvidenceInv, RecordInv, EarlyInv,
            Before, Ending, Upg!Completed, Goto, Fails, Stay, Upgrading,
            Others, hostVars, upgradeVars, receiptVars, gateVars
<1>p. Places = {"reserve", "validate", "open", "gate", "inspect", "prompt",
                "rehydrate", "close", "report", "exit"}
  BY DEF Places, InLoop
<1>o. /\ Upg!Results \subseteq Outcomes
      /\ {"RECEIPT_RESERVATION_FAILED", "IPA_INVALID", "DEVICE_UNAVAILABLE",
          "BACKUP_RECEIPT_REFUSED", "APP_LOOKUP_FAILED",
          "TARGET_NOT_REHYDRATABLE", "REHYDRATE_NOT_CONFIRMED",
          "INTERNAL_ERROR",
          Upg!Interrupt} \subseteq Outcomes \ (Upg!SentReasons \cup {"PENDING"})
      /\ {"SUCCESS", "UPGRADE_OUTCOME_UNKNOWN"} \subseteq Upg!SentReasons
      /\ "PENDING" \notin Upg!SentReasons
  BY Reasons DEF Outcomes, Refusals, Upg!Interrupt
<1>r. /\ result \in Upg!Results
      /\ result = "PENDING" <=> pc # "done"
      /\ result \in Upg!SentReasons => crossed
      /\ result = "SUCCESS" => Upg!Completed
      /\ pc \in {"preflight", "boundary"} => ~crossed
      /\ crossed \in BOOLEAN
  BY DEF CallInv, CallTypeOK, Upg!VerdictInv, Upg!BoundaryInv
<1>d. read # NothingRead => read.digest \in Digests
  BY DEF BackupReceipts
<1>1. CASE ReservesReceipt
  <2>1. TypeOK'
    BY <1>1, <1>p, <1>o, <1>r DEF ReservesReceipt, Res!Reserve
  <2>2. OutcomeInv'
    BY <1>1, <1>p, <1>o, <1>r DEF ReservesReceipt, Res!Reserve
  <2>3. EvidenceInv'
    BY <1>1, <1>p, <1>o, <1>r DEF ReservesReceipt, Res!Reserve
  <2>4. RecordInv'
    BY <1>1, <1>p, <1>o, <1>r DEF ReservesReceipt, Res!Reserve
  <2>5. EarlyInv'
    BY <1>1, <1>p, <1>o, <1>r DEF ReservesReceipt, Res!Reserve
  <2> QED BY <2>1, <2>2, <2>3, <2>4, <2>5
<1>2. CASE ValidatesIpa
  BY <1>2, <1>p, <1>o, <1>r DEF ValidatesIpa
<1>3. CASE OpensDevice
  <2>1. TypeOK'
    BY <1>3, <1>p, <1>o, <1>r DEF OpensDevice, Awaits
  <2>2. OutcomeInv'
    BY <1>3, <1>p, <1>o, <1>r DEF OpensDevice, Awaits
  <2>3. EvidenceInv'
    BY <1>3, <1>p, <1>o, <1>r DEF OpensDevice, Awaits
  <2>4. RecordInv'
    BY <1>3, <1>p, <1>o, <1>r DEF OpensDevice, Awaits
  <2>5. EarlyInv'
    BY <1>3, <1>p, <1>o, <1>r DEF OpensDevice, Awaits
  <2> QED BY <2>1, <2>2, <2>3, <2>4, <2>5
<1>4. CASE ValidatesGate
  BY <1>4, <1>p, <1>o, <1>r, <1>d DEF ValidatesGate
<1>5. CASE Inspects
  <2>1. TypeOK'
    BY <1>5, <1>p, <1>o, <1>r DEF Inspects, Awaits
  <2>2. OutcomeInv'
    BY <1>5, <1>p, <1>o, <1>r DEF Inspects, Awaits
  <2>3. EvidenceInv'
    BY <1>5, <1>p, <1>o, <1>r DEF Inspects, Awaits
  <2>4. RecordInv'
    BY <1>5, <1>p, <1>o, <1>r DEF Inspects, Awaits
  <2>5. EarlyInv'
    BY <1>5, <1>p, <1>o, <1>r DEF Inspects, Awaits
  <2> QED BY <2>1, <2>2, <2>3, <2>4, <2>5
<1>6. CASE InspectsIneligible
  BY <1>6, <1>p, <1>o, <1>r DEF InspectsIneligible
<1>7. CASE Prompts
  BY <1>7, <1>p, <1>o, <1>r DEF Prompts
<1>8. CASE ReturnsFromUpgrade
  <2>1. TypeOK'
    BY <1>8, <1>p, <1>o, <1>r DEF ReturnsFromUpgrade
  <2>2. OutcomeInv'
    BY <1>8, <1>p, <1>o, <1>r DEF ReturnsFromUpgrade
  <2>3. EvidenceInv'
    BY <1>8, <1>p, <1>o, <1>r DEF ReturnsFromUpgrade
  <2>4. RecordInv'
    BY <1>8, <1>p, <1>o, <1>r DEF ReturnsFromUpgrade
  <2>5. EarlyInv'
    BY <1>8, <1>p, <1>o, <1>r DEF ReturnsFromUpgrade
  <2> QED BY <2>1, <2>2, <2>3, <2>4, <2>5
<1>9. CASE ClosesDevice
  <2>1. TypeOK'
    BY <1>9, <1>p, <1>o, <1>r DEF ClosesDevice
  <2>2. OutcomeInv'
    BY <1>9, <1>p, <1>o, <1>r DEF ClosesDevice
  <2>3. EvidenceInv'
    BY <1>9, <1>p, <1>o, <1>r DEF ClosesDevice
  <2>4. RecordInv'
    BY <1>9, <1>p, <1>o, <1>r DEF ClosesDevice
  <2>5. EarlyInv'
    BY <1>9, <1>p, <1>o, <1>r DEF ClosesDevice
  <2> QED BY <2>1, <2>2, <2>3, <2>4, <2>5
<1>10. CASE ReportsOutcome
  BY <1>10, <1>p, <1>o, <1>r
     DEF ReportsOutcome, Final, Finalizes, Exits, Res!Write, Res!Keep
<1>11. CASE ReportsFailure
  BY <1>11, <1>p, <1>o, <1>r DEF ReportsFailure, Final, Exits, Res!Keep, Res!Remove
<1>12. CASE FirstSigint
  BY <1>12, <1>p, <1>o, <1>r DEF FirstSigint, InLoop
<1>13. CASE SecondSigint
  <2>1. TypeOK'
    BY <1>13, SigintType DEF SecondSigint
  <2>2. OutcomeInv'
    BY <1>13, <1>p, <1>o, <1>r DEF SecondSigint, InLoop
  <2>3. EvidenceInv'
    BY <1>13, <1>p, <1>o, <1>r DEF SecondSigint, InLoop
  <2>4. RecordInv'
    BY <1>13, <1>p, <1>o, <1>r DEF SecondSigint, InLoop
  <2>5. EarlyInv'
    BY <1>13, <1>p, <1>o, <1>r DEF SecondSigint, InLoop
  <2> QED BY <2>1, <2>2, <2>3, <2>4, <2>5
<1>14. CASE SecondSigintInStep
  BY <1>14, <1>p, <1>o, <1>r DEF SecondSigintInStep
<1>15. CASE SigintOutsideLoop
  BY <1>15, <1>p, <1>o, <1>r DEF SigintOutsideLoop
<1>16. CASE RunsUpgrade
  <2>1. TypeOK'
    BY <1>16, <1>p, <1>o, <1>r, CallHostFacts DEF RunsUpgrade
  <2>2. OutcomeInv'
    BY <1>16, <1>p, <1>o, <1>r, CallHostFacts DEF RunsUpgrade
  <2>3. EvidenceInv'
    BY <1>16, <1>p, <1>o, <1>r, CallHostFacts DEF RunsUpgrade
  <2>4. RecordInv'
    BY <1>16, <1>p, <1>o, <1>r, CallHostFacts DEF RunsUpgrade
  <2>5. EarlyInv'
    BY <1>16, <1>p, <1>o, <1>r, CallHostFacts DEF RunsUpgrade
  <2> QED BY <2>1, <2>2, <2>3, <2>4, <2>5
<1>17. CASE BoundaryAccepts
  BY <1>17, <1>p, <1>o, <1>r
  DEF BoundaryAccepts, Upg!CrossesBoundary, Upg!Goto, Upg!deviceVars, Res!Start
<1>18. CASE BoundaryRefuses
  BY <1>18, <1>p, <1>o, <1>r
  DEF BoundaryRefuses, Upg!BoundaryRefuses, Upg!Fail, Upg!Goto, Upg!Locals,
      Upg!deviceVars
<1>19. CASE Tick
  <2>1. now' \in 0..MaxClock
    BY <1>19 DEF Tick
  <2> QED BY <1>19, <2>1 DEF Tick
<1>20. CASE ReplacesBackupReceipt
  <2>1. replaced' \in 0..MaxReplaced
    BY <1>20 DEF ReplacesBackupReceipt
  <2> QED BY <1>20, <2>1 DEF ReplacesBackupReceipt
<1>21. CASE DeviceActs
  BY <1>21, <1>p, <1>o, <1>r, DeviceFacts DEF DeviceActs
<1>22. CASE UNCHANGED vars
  BY <1>22 DEF vars
<1>23. CASE ReadsBackupReceipt
  BY <1>23 DEF ReadsBackupReceipt
<1> QED
  BY <1>1, <1>2, <1>3, <1>4, <1>5, <1>6, <1>7, <1>8, <1>9, <1>10, <1>11,
     <1>12, <1>13, <1>14, <1>15, <1>16, <1>17, <1>18, <1>19, <1>20, <1>21,
     <1>22, <1>23 DEF Next, CliStep, Sigint

\* How the call moves to the boundary and leaves the send.
LEMMA CallMoves ==
  ASSUME Upg!HostStep
  PROVE  /\ pc' = "boundary" => pc = "proxy_open"
         /\ pc' = "send" => pc = "send" /\ command' = "in_flight"
BY DEF Upg!HostStep, Upg!PreflightInspects, Upg!PreflightFails, Upg!OpensAfc,
       Upg!MakesDirectory, Upg!StagesPackage, Upg!FinalInspects,
       Upg!OpensProxy, Upg!StagingFails, Upg!TransmitsCommand,
       Upg!SendReturns, Upg!SendFails, Upg!ClosesProxy,
       Upg!CleanupInterrupted, Upg!CleanupAnswers, Upg!CleanupRaises,
       Upg!ClosesAfc, Upg!AfcCloseFails, Upg!PostflightInspects,
       Upg!PostflightResumes, Upg!PostflightFails, Upg!At, Upg!Cancelled,
       Upg!Goto, Upg!Fail, Upg!Conclude, Upg!Finish, Upg!hostVars

LEMMA NextReview == CommandInv /\ ReviewInv /\ [Next]_vars => ReviewInv'
<1> SUFFICES ASSUME CommandInv, ReviewInv, [Next]_vars PROVE ReviewInv'
  OBVIOUS
<1> USE DEF ReviewInv, Reviewed
<1>b. /\ cli \in Before => pc = "preflight"
      /\ cli \in Ending => pc \in {"preflight", "done"}
      /\ Places = Before \cup Ending \cup {"rehydrate"} /\ cli \in Places
  BY DEF CommandInv, TypeOK, OutcomeInv, Before, Ending, Places, InLoop
<1>1. CASE RunsUpgrade
  <2>1. cli = "rehydrate" /\ pc # "boundary" /\ cli' = cli /\ UNCHANGED <<read, backup>>
    BY <1>1, CallHostFacts DEF RunsUpgrade
  <2>2. CASE pc' = "proxy_open"
    BY <1>1, <2>1, <2>2 DEF RunsUpgrade
  <2>3. CASE pc' = "boundary"
    BY <1>1, <2>1, <2>3, CallMoves DEF RunsUpgrade
  <2>4. CASE pc' \notin {"proxy_open", "boundary"}
    BY <1>1, <2>1, <2>4, CallMoves DEF RunsUpgrade
  <2> QED BY <2>2, <2>3, <2>4
<1>2. CASE ReadsBackupReceipt
  BY <1>2, <1>b DEF ReadsBackupReceipt, upgradeVars, hostVars, Before
<1>3. CASE ValidatesGate
  BY <1>3, <1>b DEF ValidatesGate, Upgrading, hostVars, Before
<1>4. CASE BoundaryAccepts
  <2>1. read \in lain
    BY <1>4
    DEF BoundaryAccepts, GateAccepts, NothingRead, Upg!CrossesBoundary
  <2> QED
    BY <1>4, <2>1
    DEF BoundaryAccepts, GateAccepts, Upg!CrossesBoundary, Upg!Goto,
        Upg!deviceVars
<1>5. CASE BoundaryRefuses
  BY <1>5
  DEF BoundaryRefuses, Upg!BoundaryRefuses, Upg!Fail, Upg!Goto, Upg!deviceVars
<1>6. CASE SecondSigintInStep
  BY <1>6, <1>b DEF SecondSigintInStep, Before
<1>7. CASE SecondSigint
  BY <1>7 DEF SecondSigint, gateVars
<1>8. CASE ReplacesBackupReceipt
  BY <1>8 DEF ReplacesBackupReceipt, Undecided, upgradeVars, hostVars
<1>9. CASE Tick
  BY <1>9 DEF Tick, Undecided, upgradeVars, hostVars
<1>10. CASE DeviceActs
  BY <1>10, DeviceFacts DEF DeviceActs, gateVars
<1>11. CASE \/ ReservesReceipt \/ ValidatesIpa \/ OpensDevice \/ Inspects
            \/ InspectsIneligible \/ Prompts \/ ReturnsFromUpgrade
            \/ ClosesDevice \/ ReportsOutcome \/ ReportsFailure
            \/ FirstSigint \/ SigintOutsideLoop \/ UNCHANGED vars
  <2>1. UNCHANGED <<pc, command, gateVars>>
    BY <1>11
    DEF ReservesReceipt, ValidatesIpa, OpensDevice, Inspects,
        InspectsIneligible, Prompts, ReturnsFromUpgrade, ClosesDevice,
        ReportsOutcome, ReportsFailure, FirstSigint, SigintOutsideLoop, Awaits,
        Stay, Upgrading, Others, upgradeVars, hostVars, vars
  <2>2. cli' = cli \/ (cli # "gate" /\ ~(cli = "rehydrate" /\ pc = "boundary"))
    BY <1>11
    DEF ReservesReceipt, ValidatesIpa, OpensDevice, Inspects,
        InspectsIneligible, Prompts, ReturnsFromUpgrade, ClosesDevice,
        ReportsOutcome, ReportsFailure, FirstSigint, SigintOutsideLoop, Awaits,
        vars
  <2> QED BY <2>1, <2>2 DEF gateVars
<1> QED
  BY <1>1, <1>2, <1>3, <1>4, <1>5, <1>6, <1>7, <1>8, <1>9, <1>10, <1>11
  DEF Next, CliStep, Sigint

LEMMA Invariance == Spec => [](CommandInv /\ ReviewInv)
<1>1. CommandInv /\ ReviewInv /\ [Next]_vars => (CommandInv /\ ReviewInv)'
  BY NextCall, NextCommand, NextReview DEF CommandInv
<1> QED BY <1>1, InitialInv, PTL DEF Spec
-----------------------------------------------------------------------------
(***************************************************************************)
(* Once a command may have left the host, the reserved receipt is there    *)
(* when the process ends, however often Ctrl-C is pressed (cli.py:666-667, *)
(* 722).                                                                   *)
(***************************************************************************)
THEOREM SentSurvives == Spec => []SentEvidenceSurvives
<1>1. CommandInv => SentEvidenceSurvives
  BY DEF CommandInv, CallInv, CallTypeOK, Upg!BoundaryInv, EvidenceInv,
         SentEvidenceSurvives
<1> QED BY <1>1, Invariance, PTL

(***************************************************************************)
(* A written receipt says success only of a completed command, and unknown *)
(* only past the boundary (cli.py:675-692, 701-711).                       *)
(***************************************************************************)
THEOREM RecordIsTruthful == Spec => []RecordedTruth
<1>1. CommandInv => RecordedTruth
  BY DEF CommandInv, RecordInv, Upg!Completed, RecordedTruth
<1> QED BY <1>1, Invariance, PTL

(***************************************************************************)
(* Ctrl-C before rehydrate_app, at the prompt too, prevents the command.   *)
(***************************************************************************)
THEOREM EarlyInterrupt == Spec => []EarlyInterruptPreventsSend
<1>1. CommandInv => EarlyInterruptPreventsSend
  BY DEF CommandInv, EarlyInv, CallInv, Upg!BoundaryInv,
         EarlyInterruptPreventsSend
<1> QED BY <1>1, Invariance, PTL

(***************************************************************************)
(* When the command leaves the host, the receipt with the reviewed digest  *)
(* had been on disk after the second inspection of the target, and the     *)
(* clock found it of age (cli.py:626-630, 654-665).                        *)
(***************************************************************************)
THEOREM SendIsReviewed == Spec => SendsOnReviewedBackup
<1>1. CommandInv /\ ReviewInv /\ [Next]_vars =>
        [command = "unsent" /\ command' # "unsent" =>
           \E r \in lain : Reviewed(r)]_vars
  <2> SUFFICES ASSUME CommandInv, ReviewInv, [Next]_vars,
                      command = "unsent", command' # "unsent"
               PROVE  \E r \in lain : Reviewed(r)
    OBVIOUS
  <2>1. RunsUpgrade
    BY DeviceFacts
    DEF Next, CliStep, Sigint, ReservesReceipt, ValidatesIpa, OpensDevice,
        ReadsBackupReceipt, ValidatesGate, Inspects, InspectsIneligible,
        Prompts, BoundaryAccepts, BoundaryRefuses, Upg!CrossesBoundary,
        Upg!BoundaryRefuses, Upg!Locals, Upg!deviceVars, ReturnsFromUpgrade,
        ClosesDevice, ReportsOutcome, ReportsFailure, Awaits, FirstSigint,
        SecondSigint, SecondSigintInStep, SigintOutsideLoop, Tick,
        ReplacesBackupReceipt, DeviceActs, Stay, Upgrading, upgradeVars,
        hostVars, vars
  <2>2. pc = "send"
    BY <2>1, CallSends DEF RunsUpgrade
  <2> QED BY <2>2 DEF ReviewInv
<1> QED BY <1>1, Invariance, PTL DEF Spec, SendsOnReviewedBackup, Reviewed
-----------------------------------------------------------------------------
(* Refinement: every step of the command is one of the contract, or none   *)

LEMMA ContractInit == Init => Contract!Init
BY DEF Init, Upg!Init, Upg!InitHost, Upg!InitDevice, Contract!Init, Request,
       Ended, Verdict

\* The exit is the only step that decides, and what it says is justified.
LEMMA ContractDecide ==
  ASSUME CommandInv, crossed' = crossed, command' = command,
         reported = "PENDING",
         \/ ~crossed /\ Ended' \notin Upg!SentReasons \cup {"PENDING"}
         \/ cli = "report" /\ Ended' = outcome
  PROVE  Contract!Decide
<1>1. Request' = Request /\ Verdict = "pending"
  BY DEF Request, Ended, Verdict
<1>2. CASE ~crossed /\ Ended' \notin Upg!SentReasons \cup {"PENDING"}
  <2>1. Verdict' = "not_sent"
    BY <1>2, Reasons DEF Verdict
  <2> QED BY <1>1, <1>2, <2>1 DEF Contract!Decide, Contract!Justified
<1>3. CASE crossed /\ cli = "report" /\ Ended' = outcome
  <2>1. Ended' = result /\ pc = "done"
    BY <1>3 DEF CommandInv, OutcomeInv, Ending, CallInv, Upg!BoundaryInv
  <2>2. Ended' \in Upg!SentReasons
    BY <1>3, <2>1, Reasons DEF CommandInv, CallInv, CallTypeOK, Upg!VerdictInv
  <2>3. CASE Ended' = "UPGRADE_OUTCOME_UNKNOWN"
    <3>1. Verdict' = "unknown"
      BY <2>3 DEF Verdict
    <3> QED BY <1>1, <1>3, <3>1 DEF Contract!Decide, Contract!Justified
  <2>4. CASE Ended' \in {"SUCCESS", "UPGRADE_POSTCHECK_FAILED"}
    <3>1. Verdict' \in {"success", "mismatch"}
      BY <2>4 DEF Verdict
    <3>2. Request = "completed"
      BY <2>1, <2>4
      DEF Request, CommandInv, CallInv, Upg!VerdictInv, Upg!Completed
    <3> QED BY <1>1, <3>1, <3>2 DEF Contract!Decide, Contract!Justified
  <2> QED BY <2>2, <2>3, <2>4, Reasons
<1>4. CASE ~crossed /\ cli = "report" /\ Ended' = outcome
  <2>1. outcome \notin Upg!SentReasons \cup {"PENDING"}
    BY <1>4, Reasons
    DEF CommandInv, OutcomeInv, Ending, CallInv, CallTypeOK, Upg!VerdictInv
  <2> QED BY <1>2, <1>4, <2>1
<1> QED BY <1>2, <1>3, <1>4 DEF CommandInv, CallInv, CallTypeOK

LEMMA ContractNext ==
  CommandInv /\ CommandInv' /\ [Next]_vars => [Contract!Next]_(Contract!vars)
<1> SUFFICES ASSUME CommandInv, CommandInv', [Next]_vars
             PROVE  [Contract!Next]_(Contract!vars)
  OBVIOUS
<1>e. reported = "PENDING" <=> cli # "exit"
  BY DEF CommandInv, OutcomeInv
<1>1. CASE BoundaryAccepts
  <2>1. cli = "rehydrate" /\ ~crossed /\ crossed' = TRUE
        /\ UNCHANGED <<command, reported>>
    BY <1>1
    DEF BoundaryAccepts, Upg!CrossesBoundary, Upg!deviceVars, CommandInv,
        CallInv, Upg!BoundaryInv
  <2>2. Request' = Request /\ Verdict = "pending" /\ Verdict' = "pending"
    BY <1>e, <2>1 DEF Request, Ended, Verdict
  <2> QED BY <2>1, <2>2 DEF Contract!CrossBoundary, Contract!Next
<1>2. CASE RunsUpgrade
  <2>1. /\ cli = "rehydrate" /\ UNCHANGED <<crossed, reported>>
        /\ \/ command' = command
           \/ command = "unsent" /\ command' = "in_flight"
    BY <1>2, CallHostFacts DEF RunsUpgrade
  <2>2. Verdict = "pending" /\ Verdict' = "pending"
    BY <1>e, <2>1 DEF Ended, Verdict
  <2>3. CASE command' = command
    BY <2>1, <2>2, <2>3 DEF Request, Contract!vars
  <2>4. CASE command = "unsent" /\ command' = "in_flight"
    <3>1. crossed
      BY <2>1, <2>4 DEF CommandInv, CallInv, Upg!BoundaryInv, CallTypeOK
    <3>2. Request = "none" /\ Request' = "sent"
      BY <2>4 DEF Request
    <3> QED BY <2>1, <2>2, <3>1, <3>2 DEF Contract!Send, Contract!Next
  <2> QED BY <2>1, <2>3, <2>4
<1>3. CASE DeviceActs
  <2>1. crossed' = crossed /\ Verdict' = Verdict
    BY <1>3, DeviceFacts DEF DeviceActs, Ended, Verdict
  <2>2. \/ Request' = Request
        \/ Request = "sent" /\ Request' \in {"completed", "rejected"}
    BY <1>3, DeviceFacts DEF DeviceActs, Request
  <2> QED
    BY <2>1, <2>2 DEF Contract!DeviceAnswers, Contract!Next, Contract!vars
<1>4. CASE ReservesReceipt /\ cli' = "exit"
  <2>1. cli = "reserve" /\ UNCHANGED <<crossed, command, killed, outcome>>
        /\ reported' = "RECEIPT_RESERVATION_FAILED"
    BY <1>4 DEF ReservesReceipt, Goto, Upgrading, hostVars
  <2>2. ~crossed /\ ~killed /\ reported = "PENDING"
    BY <1>e, <2>1 DEF CommandInv, OutcomeInv, Before, Ending, CallInv,
                      Upg!BoundaryInv
  <2>3. Ended' \notin Upg!SentReasons \cup {"PENDING"}
    BY <2>1, <2>2 DEF Ended, Upg!SentReasons
  <2> QED BY <2>1, <2>2, <2>3, ContractDecide DEF Contract!Next
<1>5. CASE ReportsOutcome \/ ReportsFailure
  <2>1. cli = "report" /\ UNCHANGED <<crossed, command>> /\ Ended' = outcome
    BY <1>5
    DEF ReportsOutcome, ReportsFailure, Exits, Stay, Upgrading, hostVars, Final,
        Ended, Upg!Interrupt
  <2> QED BY <1>e, <2>1, ContractDecide DEF Contract!Next
<1>6. CASE /\ ~BoundaryAccepts /\ ~RunsUpgrade /\ ~DeviceActs
           /\ ~(ReservesReceipt /\ cli' = "exit")
           /\ ~ReportsOutcome /\ ~ReportsFailure
  <2>1. UNCHANGED <<crossed, command, reported>>
    BY <1>6
    DEF Next, CliStep, Sigint, ReservesReceipt, ValidatesIpa, OpensDevice,
        ReadsBackupReceipt, ValidatesGate, Inspects, InspectsIneligible, Prompts,
        BoundaryRefuses, Upg!BoundaryRefuses, Upg!Locals, Upg!deviceVars,
        ReturnsFromUpgrade, ClosesDevice, Awaits, FirstSigint, SecondSigint,
        SecondSigintInStep, SigintOutsideLoop, Tick, ReplacesBackupReceipt,
        Stay, Upgrading, upgradeVars, hostVars, vars, Goto, Fails
  <2>2. reported = "PENDING" \/ UNCHANGED <<killed, outcome>>
    BY <1>6, <1>e
    DEF Next, CliStep, Sigint, ReservesReceipt, ValidatesIpa, OpensDevice,
        ReadsBackupReceipt, ValidatesGate, Inspects, InspectsIneligible, Prompts,
        BoundaryRefuses, ReturnsFromUpgrade, ClosesDevice, Awaits,
        FirstSigint, SecondSigint, SecondSigintInStep, SigintOutsideLoop,
        Tick, ReplacesBackupReceipt, InLoop, vars
  <2> QED BY <2>1, <2>2 DEF Request, Ended, Verdict, Contract!vars
<1> QED BY <1>1, <1>2, <1>3, <1>4, <1>5, <1>6

(***************************************************************************)
(* The command keeps the contract of one rehydration: at most one Upgrade  *)
(* request, past the boundary, and an outcome its fate justifies; so does  *)
(* the exit reason unless a second Ctrl-C left the event loop.             *)
(***************************************************************************)
THEOREM KeepsContract == Spec => ImplementsContract
BY ContractInit, ContractNext, Invariance, PTL
DEF Spec, ImplementsContract, Contract!Spec
=============================================================================
