---------------------------- MODULE UpgradeProofs ----------------------------
(***************************************************************************)
(* Theorems about one call of rehydrate_app, for every device, every bound *)
(* on cancellations and drift and every number of postflight attempts.     *)
(***************************************************************************)
EXTENDS Upgrade, TLAPS

USE AttemptsAssumption, BoundsAssumption

(***************************************************************************)
(* Every answer of the device classifies as a snapshot (apps.py:91-162).   *)
(***************************************************************************)
LEMMA InspectAppType ==
  ASSUME NEW answer \in Seq(Entries)
  PROVE  InspectApp(answer) \in AppSnapshots
<1>1. \A state \in AppStates : EmptySnapshot(state) \in AppSnapshots
  BY DEF EmptySnapshot, AppSnapshots, AppStates, Versions
<1>2. \A r \in AppRecords : SnapshotFromRecord(r) \in AppSnapshots
  <2> TAKE r \in AppRecords
  <2>1. BoundedString(r.version) \in Versions
    BY DEF BoundedString, Versions, RawVersions, AppRecords
  <2>2. r.placeholder \in BOOLEAN /\ r.demoted \in BOOLEAN
    BY DEF AppRecords
  <2>3. CASE r.type \in {"User", "System"}
    BY <2>1, <2>2, <2>3 DEF SnapshotFromRecord, AppSnapshots, AppStates
  <2>4. CASE r.type \notin {"User", "System"}
    BY <1>1, <2>4 DEF SnapshotFromRecord, AppStates
  <2> QED BY <2>3, <2>4
<1>3. \A i \in DOMAIN answer : answer[i].record \in AppRecords
  <2>1. \A i \in DOMAIN answer : answer[i] \in Entries
    OBVIOUS
  <2> QED BY <2>1 DEF Entries
<1>4. CASE Candidates(answer) # {}
  <2> DEFINE i == CHOOSE i \in Candidates(answer) : TRUE
  <2>1. i \in DOMAIN answer
    BY <1>4 DEF Candidates
  <2>2. SnapshotFromRecord(answer[i].record) \in AppSnapshots
    BY <1>2, <1>3, <2>1
  <2> QED BY <1>1, <2>2 DEF InspectApp, AppStates
<1>5. CASE Candidates(answer) = {}
  BY <1>1, <1>5 DEF InspectApp, AppStates
<1> QED BY <1>4, <1>5

-----------------------------------------------------------------------------
(***************************************************************************)
(* The call, its locals and the device keep their types.                   *)
(***************************************************************************)
LEMMA InitialTypeOK == Init => TypeOK /\ AttemptsLeft
<1> SUFFICES ASSUME Init PROVE TypeOK /\ AttemptsLeft
  OBVIOUS
<1>1. before \in AppSnapshots
  BY DEF Init, InitHost, EmptySnapshot, AppSnapshots, AppStates, Versions
<1>2. /\ cancels \in 0..MaxCancels /\ drift \in 0..MaxDrift
      /\ attempt \in 0..POSTFLIGHT_ATTEMPTS
  BY DEF Init, InitHost, InitDevice
<1>3. pc \in Labels /\ result \in Results
  BY DEF Init, InitHost, InitDevice, Labels, Results
<1>4. error \in Errors
  BY DEF Init, InitHost, InitDevice, Errors
<1>5. AttemptsLeft
  BY DEF Init, InitHost, AttemptsLeft
<1> QED
  BY <1>1, <1>2, <1>3, <1>4, <1>5 DEF Init, InitHost, InitDevice, TypeOK

LEMMA OuterReasonType ==
  ASSUME NEW e \in Errors PROVE OuterReason(e) \in Results
BY DEF OuterReason, Results, NotSentReasons, SentReasons, RehydrateErrors

LEMMA NextTypeOK ==
  TypeOK /\ AttemptsLeft /\ [Next]_vars => (TypeOK /\ AttemptsLeft)'
<1> SUFFICES ASSUME TypeOK, AttemptsLeft, [Next]_vars
             PROVE  TypeOK' /\ AttemptsLeft'
  OBVIOUS
<1> USE DEF TypeOK, AttemptsLeft, At, Cancelled, Goto, Finish, Fail, Locals, deviceVars,
            hostVars
<1>l. {"afc_open", "makedirs", "stage", "final_check", "proxy_open",
       "boundary", "send", "proxy_close", "cleanup", "afc_close",
       "postflight", "pause", "done"} \subseteq Labels
  BY DEF Labels
<1>e. /\ RehydrateErrors \cup {"NONE", "EXCEPTION", Interrupt} = Errors
      /\ LookupErrors \subseteq RehydrateErrors
      /\ {"TARGET_NOT_REHYDRATABLE", "APP_PREFLIGHT_TIMEOUT",
          "APP_FINAL_PREFLIGHT_TIMEOUT", "TARGET_CHANGED_DURING_STAGING",
          "BOUNDARY_REFUSED", "APP_LOOKUP_FAILED"} \subseteq RehydrateErrors
  BY DEF Errors, RehydrateErrors, LookupErrors
<1>r. /\ RehydrateErrors \cup {Interrupt, "INTERNAL_ERROR"} \subseteq Results
      /\ {"SUCCESS", "UPGRADE_POSTCHECK_FAILED", "UPGRADE_OUTCOME_UNKNOWN"}
           \subseteq Results
  BY DEF Results, NotSentReasons, SentReasons
<1>s. InspectApp(app) \in AppSnapshots
  BY InspectAppType, AnswersAssumption
<1>c. \A e \in Errors : Conclude(e) => pc' \in Labels /\ result' \in Results
  BY OuterReasonType, <1>l DEF Conclude
<1>1. CASE PreflightInspects
  BY <1>1, <1>l, <1>e, <1>r, <1>s DEF PreflightInspects
<1>2. CASE PreflightFails
  BY <1>2, <1>l, <1>e, <1>r DEF PreflightFails
<1>3. CASE OpensAfc
  BY <1>3, <1>l, <1>e, <1>c DEF OpensAfc
<1>4. CASE MakesDirectory
  BY <1>4, <1>l DEF MakesDirectory
<1>5. CASE StagesPackage
  BY <1>5, <1>l DEF StagesPackage
<1>6. CASE FinalInspects
  BY <1>6, <1>l, <1>e, <1>s DEF FinalInspects
<1>7. CASE OpensProxy
  BY <1>7, <1>l DEF OpensProxy
<1>8. CASE StagingFails
  BY <1>8, <1>l, <1>e DEF StagingFails
<1>9. CASE TransmitsCommand
  BY <1>9 DEF TransmitsCommand
<1>10. CASE SendReturns
  BY <1>10, <1>l DEF SendReturns
<1>11. CASE SendFails
  BY <1>11, <1>l, <1>e DEF SendFails
<1>12. CASE ClosesProxy
  BY <1>12, <1>l, <1>e DEF ClosesProxy
<1>13. CASE CleanupInterrupted
  BY <1>13 DEF CleanupInterrupted
<1>14. CASE CleanupAnswers
  BY <1>14, <1>l DEF CleanupAnswers
<1>15. CASE CleanupRaises
  BY <1>15, <1>l DEF CleanupRaises
<1>16. CASE ClosesAfc
  <2>1. (IF error # "NONE" THEN error ELSE cleanupError) \in Errors
    BY <1>e
  <2>2. pc' \in Labels /\ result' \in Results
    BY <1>16, <1>c, <2>1 DEF ClosesAfc
  <2> QED BY <1>16, <2>2 DEF ClosesAfc
<1>17. CASE AfcCloseFails
  BY <1>17, <1>e, <1>c DEF AfcCloseFails
<1>18. CASE PostflightInspects
  BY <1>18, <1>l, <1>r DEF PostflightInspects
<1>19. CASE PostflightResumes
  BY <1>19, <1>l DEF PostflightResumes
<1>20. CASE PostflightFails
  BY <1>20, <1>l, <1>r DEF PostflightFails
<1>21. CASE CrossesBoundary
  BY <1>21, <1>l DEF CrossesBoundary
<1>22. CASE BoundaryRaises
  BY <1>22, <1>l, <1>e DEF BoundaryRaises, BoundaryRefuses
<1>23. CASE DeviceStep
  BY <1>23 DEF DeviceStep, DeviceCreatesFile, DeviceCompletes, DeviceInstalls,
               DeviceRejects, AppDrifts
<1>24. CASE RequestsCancel
  BY <1>24 DEF RequestsCancel
<1>25. CASE UNCHANGED vars
  BY <1>25 DEF vars
<1> QED
  BY <1>1, <1>2, <1>3, <1>4, <1>5, <1>6, <1>7, <1>8, <1>9, <1>10, <1>11, <1>12,
     <1>13, <1>14, <1>15, <1>16, <1>17, <1>18, <1>19, <1>20, <1>21, <1>22,
     <1>23, <1>24, <1>25 DEF Next, HostStep

(***************************************************************************)
(* Type correctness of rehydrate_app's model.                              *)
(***************************************************************************)
THEOREM TypeCorrect == Spec => []TypeOK
BY InitialTypeOK, NextTypeOK, PTL DEF Spec
-----------------------------------------------------------------------------
(***************************************************************************)
(* The inductive invariant: one step per action.                           *)
(***************************************************************************)
LEMMA ReasonsDisjoint ==
  /\ "PENDING" \notin NotSentReasons \cup SentReasons
  /\ NotSentReasons \cap SentReasons = {}
BY DEF NotSentReasons, SentReasons, RehydrateErrors, LookupErrors, Interrupt

LEMMA InitialInv == Init => Inv
<1> SUFFICES ASSUME Init PROVE Inv
  OBVIOUS
<1> QED
  BY ReasonsDisjoint, InitialTypeOK
  DEF Init, InitHost, InitDevice, Inv, BoundaryInv, SendInv, VerdictInv,
      StagingInv

Parts == BoundaryInv /\ SendInv /\ VerdictInv /\ StagingInv

LEMMA NextParts == Inv /\ [Next]_vars => Parts'
<1> SUFFICES ASSUME Inv, [Next]_vars PROVE Parts'
  OBVIOUS
<1> USE DEF Inv, Parts, BoundaryInv, SendInv, VerdictInv, StagingInv,
            Completed, At, Cancelled, Goto, Finish, Fail, Locals, deviceVars,
            hostVars
<1>r. /\ RehydrateErrors \cup {Interrupt, "STAGING_CLEANUP_UNCONFIRMED",
           "UPGRADE_START_FAILED", "INTERNAL_ERROR"} = NotSentReasons
      /\ SentReasons = {"SUCCESS", "UPGRADE_POSTCHECK_FAILED",
                        "UPGRADE_OUTCOME_UNKNOWN"}
  BY DEF NotSentReasons, SentReasons
<1>e. /\ LookupErrors \cup {"TARGET_NOT_REHYDRATABLE",
           "APP_PREFLIGHT_TIMEOUT", "APP_FINAL_PREFLIGHT_TIMEOUT",
           "TARGET_CHANGED_DURING_STAGING", "BOUNDARY_REFUSED",
           "APP_LOOKUP_FAILED"} \subseteq RehydrateErrors
      /\ "NONE" \notin RehydrateErrors \cup {Interrupt}
  BY DEF RehydrateErrors, LookupErrors, Interrupt
<1>1. CASE PreflightInspects
  BY <1>1, <1>r, <1>e, ReasonsDisjoint DEF PreflightInspects
<1>2. CASE PreflightFails
  BY <1>2, <1>r, <1>e, ReasonsDisjoint DEF PreflightFails
<1>3. CASE OpensAfc
  BY <1>3, <1>r, <1>e, ReasonsDisjoint DEF OpensAfc, Conclude, OuterReason
<1>4. CASE MakesDirectory
  BY <1>4, <1>r, <1>e, ReasonsDisjoint DEF MakesDirectory
<1>5. CASE StagesPackage
  BY <1>5, <1>r, <1>e, ReasonsDisjoint DEF StagesPackage
<1>6. CASE FinalInspects
  BY <1>6, <1>r, <1>e, ReasonsDisjoint DEF FinalInspects
<1>7. CASE OpensProxy
  BY <1>7, <1>r, <1>e, ReasonsDisjoint DEF OpensProxy
<1>8. CASE StagingFails
  BY <1>8, <1>r, <1>e, ReasonsDisjoint DEF StagingFails
<1>9. CASE TransmitsCommand
  BY <1>9, <1>r, <1>e, ReasonsDisjoint DEF TransmitsCommand
<1>10. CASE SendReturns
  BY <1>10, <1>r, <1>e, ReasonsDisjoint DEF SendReturns
<1>11. CASE SendFails
  BY <1>11, <1>r, <1>e, ReasonsDisjoint DEF SendFails
<1>12. CASE ClosesProxy
  BY <1>12, <1>r, <1>e, ReasonsDisjoint DEF ClosesProxy
<1>13. CASE CleanupInterrupted
  BY <1>13, <1>r, <1>e, ReasonsDisjoint DEF CleanupInterrupted
<1>14. CASE CleanupAnswers
  BY <1>14, <1>r, <1>e, ReasonsDisjoint DEF CleanupAnswers
<1>15. CASE CleanupRaises
  BY <1>15, <1>r, <1>e, ReasonsDisjoint DEF CleanupRaises
<1>16. CASE ClosesAfc
  BY <1>16, <1>r, <1>e, ReasonsDisjoint DEF ClosesAfc, Conclude, OuterReason
<1>17. CASE AfcCloseFails
  BY <1>17, <1>r, <1>e, ReasonsDisjoint DEF AfcCloseFails, Conclude, OuterReason
<1>18. CASE PostflightInspects
  BY <1>18, <1>r, <1>e, ReasonsDisjoint DEF PostflightInspects
<1>19. CASE PostflightResumes
  BY <1>19, <1>r, <1>e, ReasonsDisjoint DEF PostflightResumes
<1>20. CASE PostflightFails
  BY <1>20, <1>r, <1>e, ReasonsDisjoint DEF PostflightFails
<1>21. CASE CrossesBoundary
  BY <1>21, <1>r, <1>e, ReasonsDisjoint DEF CrossesBoundary
<1>22. CASE BoundaryRaises
  BY <1>22, <1>r, <1>e, ReasonsDisjoint DEF BoundaryRaises, BoundaryRefuses
<1>23. CASE DeviceCreatesFile
  BY <1>23, <1>r, <1>e, ReasonsDisjoint DEF DeviceCreatesFile
<1>24. CASE DeviceCompletes
  BY <1>24, <1>r, <1>e, ReasonsDisjoint DEF DeviceCompletes
<1>25. CASE DeviceInstalls
  BY <1>25, <1>r, <1>e, ReasonsDisjoint DEF DeviceInstalls
<1>26. CASE DeviceRejects
  BY <1>26, <1>r, <1>e, ReasonsDisjoint DEF DeviceRejects
<1>27. CASE AppDrifts
  BY <1>27, <1>r, <1>e, ReasonsDisjoint DEF AppDrifts
<1>28. CASE RequestsCancel
  BY <1>28, <1>r, <1>e, ReasonsDisjoint DEF RequestsCancel
<1>29. CASE UNCHANGED vars
  BY <1>29 DEF vars
<1> QED
  BY <1>1, <1>2, <1>3, <1>4, <1>5, <1>6, <1>7, <1>8, <1>9, <1>10, <1>11,
     <1>12, <1>13, <1>14, <1>15, <1>16, <1>17, <1>18, <1>19, <1>20, <1>21,
     <1>22, <1>23, <1>24, <1>25, <1>26, <1>27, <1>28, <1>29
     DEF Next, HostStep, DeviceStep

(***************************************************************************)
(* What the coroutine knows agrees with the device at every step.          *)
(***************************************************************************)
THEOREM Invariance == Spec => []Inv
BY InitialInv, NextTypeOK, NextParts, PTL DEF Spec, Inv, Parts
-----------------------------------------------------------------------------
(***************************************************************************)
(* No reason that says "not sent" is given once a byte left the host.      *)
(***************************************************************************)
THEOREM RefusalIsTruthful == Spec => []TruthfulRefusal
<1>1. Inv => TruthfulRefusal
  BY DEF Inv, VerdictInv, BoundaryInv, TruthfulRefusal
<1> QED BY <1>1, Invariance, PTL

(***************************************************************************)
(* Success and a known mismatch are only reported of a completed command.  *)
(***************************************************************************)
THEOREM CompletionIsTruthful == Spec => []TruthfulCompletion
<1>1. Inv => TruthfulCompletion
  BY DEF Inv, VerdictInv, Completed, TruthfulCompletion
<1> QED BY <1>1, Invariance, PTL

(***************************************************************************)
(* A staged file that stays on the device is always reported.              *)
(***************************************************************************)
THEOREM LeftoverIsReported == Spec => []NoSilentLeftover
<1>1. Inv => NoSilentLeftover
  <2> SUFFICES ASSUME Inv, pc = "done", file # "none"
               PROVE  \/ result = "STAGING_CLEANUP_UNCONFIRMED"
                      \/ result \in SentReasons /\ ~removed
    BY DEF NoSilentLeftover
  <2>1. result \in NotSentReasons \cup SentReasons
    BY DEF Inv, TypeOK, Results, VerdictInv
  <2> QED BY <2>1 DEF Inv, StagingInv
<1> QED BY <1>1, Invariance, PTL

(***************************************************************************)
(* The command leaves the host with the whole package on the device, for a *)
(* target that was eligible at some moment since then, and the state       *)
(* reported as the one before it is that of this moment.                   *)
(***************************************************************************)
THEOREM SendIsChecked == Spec => SendsWhatWasChecked
<1>1. Inv /\ [Next]_vars =>
        [command = "unsent" /\ command' # "unsent" =>
           /\ file = "full" /\ EligibleTarget(before)
           /\ \E answer \in shown : before = InspectApp(answer)]_vars
  <2> SUFFICES ASSUME Inv, [Next]_vars,
                      command = "unsent", command' # "unsent"
               PROVE  /\ file = "full" /\ EligibleTarget(before)
                      /\ \E answer \in shown : before = InspectApp(answer)
    OBVIOUS
  <2>1. TransmitsCommand
    BY DEF Next, HostStep, DeviceStep, PreflightInspects, PreflightFails,
           OpensAfc, MakesDirectory, StagesPackage, FinalInspects, OpensProxy,
           StagingFails, SendReturns, SendFails, ClosesProxy,
           CleanupInterrupted, CleanupAnswers, CleanupRaises, ClosesAfc,
           AfcCloseFails, PostflightInspects, PostflightResumes,
           PostflightFails, CrossesBoundary, BoundaryRaises, BoundaryRefuses,
           DeviceCreatesFile, DeviceCompletes, DeviceInstalls, DeviceRejects,
           AppDrifts, RequestsCancel, vars, deviceVars
  <2> QED BY <2>1 DEF TransmitsCommand, Inv, StagingInv
<1> QED BY <1>1, Invariance, PTL DEF Spec, SendsWhatWasChecked
-----------------------------------------------------------------------------
(***************************************************************************)
(* Refinement: every step of the call is a step of the contract, or none.  *)
(***************************************************************************)
LEMMA ContractInit == Init => Contract!Init
BY ReasonsDisjoint
DEF Init, InitHost, InitDevice, Contract!Init, Request, Verdict

\* A step that leaves the command and the boundary alone decides, or stutters.
LEMMA ContractDecide ==
  ASSUME Inv, Inv', crossed' = crossed, command' = command,
         result = "PENDING" \/ result' = result
  PROVE  [Contract!Decide]_(Contract!vars)
<1>1. Request' = Request
  BY DEF Request
<1>2. CASE result' = result
  BY <1>1, <1>2 DEF Verdict, Contract!vars
<1>3. CASE result = "PENDING" /\ result' = "PENDING"
  BY <1>1, <1>3 DEF Verdict, Contract!vars
<1>4. CASE result = "PENDING" /\ result' # "PENDING"
  <2>1. Verdict = "pending"
    BY <1>4, ReasonsDisjoint DEF Verdict
  <2>2. result' \in NotSentReasons \cup SentReasons
    BY <1>4 DEF Inv, TypeOK, Results
  <2>3. Verdict' \in {"not_sent", "success", "mismatch", "unknown"}
    BY <1>4, <2>2, ReasonsDisjoint DEF Verdict
  <2>4. CASE result' \in NotSentReasons
    <3>1. Verdict' = "not_sent" /\ ~crossed
      BY <1>4, <2>4, ReasonsDisjoint
      DEF Verdict, Inv, VerdictInv, SentReasons
    <3> QED BY <1>1, <2>1, <3>1 DEF Contract!Decide, Contract!Justified
  <2>5. CASE result' \in SentReasons /\ result' \notin NotSentReasons
    <3>1. CASE result' = "UPGRADE_OUTCOME_UNKNOWN"
      <4>1. Verdict' = "unknown" /\ crossed
        BY <2>5, <3>1, ReasonsDisjoint DEF Verdict, Inv, VerdictInv
      <4> QED BY <1>1, <2>1, <4>1 DEF Contract!Decide, Contract!Justified
    <3>2. CASE result' \in {"SUCCESS", "UPGRADE_POSTCHECK_FAILED"}
      <4>1. Verdict' \in {"success", "mismatch"}
        BY <2>5, <3>2 DEF Verdict
      <4>2. Request = "completed"
        BY <1>1, <3>2 DEF Request, Inv, VerdictInv, Completed
      <4> QED
        BY <1>1, <2>1, <4>1, <4>2 DEF Contract!Decide, Contract!Justified
    <3> QED BY <2>5, <3>1, <3>2 DEF SentReasons
  <2> QED BY <2>2, <2>4, <2>5
<1> QED BY <1>2, <1>3, <1>4

LEMMA ContractNext ==
  Inv /\ Inv' /\ [Next]_vars => [Contract!Next]_(Contract!vars)
<1> SUFFICES ASSUME Inv, Inv', [Next]_vars
             PROVE  [Contract!Next]_(Contract!vars)
  OBVIOUS
<1>1. CASE CrossesBoundary
  <2>1. Verdict = "pending" /\ ~crossed
    BY <1>1, ReasonsDisjoint
    DEF CrossesBoundary, Inv, VerdictInv, BoundaryInv, Verdict
  <2>2. crossed' = TRUE /\ Request' = Request /\ Verdict' = Verdict
    BY <1>1 DEF CrossesBoundary, Goto, deviceVars, Request, Verdict
  <2> QED BY <2>1, <2>2 DEF Contract!CrossBoundary, Contract!Next
<1>2. CASE TransmitsCommand
  <2>1. Verdict = "pending" /\ crossed
    BY <1>2, ReasonsDisjoint
    DEF TransmitsCommand, Inv, VerdictInv, BoundaryInv, Verdict
  <2>2. Request = "none" /\ Request' = "sent"
    BY <1>2 DEF TransmitsCommand, Request
  <2>3. crossed' = crossed /\ Verdict' = Verdict
    BY <1>2 DEF TransmitsCommand, hostVars, Verdict
  <2> QED BY <2>1, <2>2, <2>3 DEF Contract!Send, Contract!Next
<1>3. CASE DeviceCompletes \/ DeviceRejects
  <2>1. Request = "sent" /\ Request' \in {"completed", "rejected"}
    BY <1>3 DEF DeviceCompletes, DeviceRejects, Request
  <2>2. crossed' = crossed /\ Verdict' = Verdict
    BY <1>3 DEF DeviceCompletes, DeviceRejects, hostVars, Verdict
  <2> QED BY <2>1, <2>2 DEF Contract!DeviceAnswers, Contract!Next
<1>4. CASE DeviceInstalls
  <2>1. Request' = Request
    BY <1>4 DEF DeviceInstalls, Request
  <2>2. crossed' = crossed /\ Verdict' = Verdict
    BY <1>4 DEF DeviceInstalls, hostVars, Verdict
  <2> QED BY <2>1, <2>2 DEF Contract!vars
<1>5. CASE DeviceCreatesFile \/ AppDrifts \/ RequestsCancel \/ UNCHANGED vars
  <2>1. crossed' = crossed /\ command' = command /\ result' = result
    BY <1>5 DEF DeviceCreatesFile, AppDrifts, RequestsCancel, hostVars,
                deviceVars, vars
  <2> QED BY <2>1, ContractDecide DEF Contract!Next
<1>6. CASE BoundaryRaises \/ (HostStep /\ ~TransmitsCommand)
  <2>1. crossed' = crossed /\ command' = command
    BY <1>6 DEF BoundaryRaises, BoundaryRefuses, HostStep, PreflightInspects,
       PreflightFails, OpensAfc, MakesDirectory, StagesPackage, FinalInspects,
       OpensProxy, StagingFails, SendReturns, SendFails, ClosesProxy,
       CleanupInterrupted, CleanupAnswers, CleanupRaises, ClosesAfc,
       AfcCloseFails, PostflightInspects, PostflightResumes, PostflightFails,
       Locals, deviceVars
  <2>2. pc # "done"
    BY <1>6 DEF BoundaryRaises, BoundaryRefuses, HostStep, PreflightInspects,
       PreflightFails, OpensAfc, MakesDirectory, StagesPackage, FinalInspects,
       OpensProxy, StagingFails, SendReturns, SendFails, ClosesProxy,
       CleanupInterrupted, CleanupAnswers, CleanupRaises, ClosesAfc,
       AfcCloseFails, PostflightInspects, PostflightResumes, PostflightFails,
       At, Cancelled
  <2>3. result = "PENDING"
    BY <2>2 DEF Inv, VerdictInv
  <2> QED BY <2>1, <2>3, ContractDecide DEF Contract!Next
<1> QED
  BY <1>1, <1>2, <1>3, <1>4, <1>5, <1>6 DEF Next, HostStep, DeviceStep

(***************************************************************************)
(* rehydrate_app keeps the contract of one rehydration: at most one        *)
(* command, past the boundary and before the verdict, and a verdict the    *)
(* fate of the command justifies.                                          *)
(***************************************************************************)
THEOREM KeepsContract == Spec => ImplementsContract
BY ContractInit, ContractNext, Invariance, PTL
DEF Spec, ImplementsContract, Contract!Spec
=============================================================================
