-------------------------- MODULE BackupCreateProofs --------------------------
(***************************************************************************)
(* Theorems about `backup create` and the enabling of encryption in it,    *)
(* for every number of Ctrl-C and of steps of others and every list of     *)
(* directories the device may leave; and, for every directory, that        *)
(* validate_backup accepts it exactly when it is a finished backup.        *)
(***************************************************************************)
EXTENDS BackupCreate, FiniteSetTheorems, WellFoundedInduction, TLAPS

USE BoundsAssumption, DirectoriesAssumption
DEF BoundsAssumption, DirectoriesAssumption

\* Before the exchange nothing was asked of the device or done in the scratch.
BeforeExchange == {"status", "recheck"}
UnsentInv ==
  /\ pc \in {"status", "recheck", "enter", "link"} => request = "unsent"
  /\ pc \in BeforeExchange => scratch = "absent"
  /\ result \in Enc!Refusals => request = "unsent" /\ pc = "done"
  /\ pc # "done" => result = "PENDING"

\* Unless others changed it, the password is ours if and only if the device
\* applied the request, and it had none when the host went on past the status.
PasswordInv ==
  others = 0 =>
    /\ password = "ours" <=> request = "applied"
    /\ pc \notin {"status", "done"} \/ request # "unsent" => password # "theirs"
    /\ result = "enabled" => request = "applied"

\* A session that is reported closed was.
SessionsInv ==
  /\ pc = "exit" /\ ~failed /\ linkClosed => "link" \notin sessions
  /\ closed => sessions = {} /\ pc \in {"reconcile", "final", "done"}

ScratchInv ==
  removed => scratch = "gone" /\ pc \in {"final", "done"}

EnableInv ==
  Enc!TypeOK /\ UnsentInv /\ PasswordInv /\ SessionsInv /\ ScratchInv

\* Where the command has changed nothing yet.
Before == {"reserve", "open", "status", "confirm", "mark"}
Ending == {"close", "report", "exit"}
CommandTypeOK ==
  /\ cli \in Places /\ wanted \in BOOLEAN /\ started \in BOOLEAN
  /\ evidence \in {"absent", "reserved", "written", "kept", "removed"}
  /\ recorded \in BOOLEAN /\ outcome \in Outcomes /\ reported \in Outcomes
  /\ killed \in BOOLEAN /\ early \in BOOLEAN
  /\ output \in Outputs /\ content \in 0 .. Len(Directories)

Changed == request # "unsent" \/ output = "ours"
BeforeInv ==
  /\ cli \in Before => ~Changed /\ pc = "status" /\ ~started
  /\ cli \in {"enter", "backup", "disconnect", "leave", "validate"} =>
       output = "ours"

\* The reservation is marked before anything changes, and kept once it is.
EvidenceInv ==
  /\ wanted /\ Changed => started
  /\ wanted /\ cli \notin Before \cup Ending => started
  /\ wanted /\ cli \notin {"reserve", "exit"} => evidence = "reserved"
  /\ wanted /\ cli = "exit" /\ started => evidence \in {"written", "kept"}

\* Success is of what the device left in the directory the command made.
VerdictInv ==
  /\ outcome = "SUCCESS" =>
       cli \in Ending /\ output = "ours" /\ content \in Accepted
  /\ reported = "SUCCESS" \/ recorded => outcome = "SUCCESS"
  /\ outcome = "BACKUP_VERIFY_FAILED" => cli \in Ending /\ content \notin Accepted

\* An early Ctrl-C is still to be seen, or was seen.
EarlyInv ==
  early =>
    /\ ~Changed /\ cancels > 0
    /\ \/ cancelling /\ cli \in {"open", "status", "confirm", "enable"}
          /\ pc = "status"
       \/ cli = "enable" /\ pc = "done" /\ result = Enc!Interrupt
       \/ cli \in Ending

CommandInv ==
  /\ EnableInv /\ CommandTypeOK
  /\ BeforeInv /\ EvidenceInv /\ VerdictInv /\ EarlyInv
-----------------------------------------------------------------------------
LEMMA InitialInv == Init => CommandInv
<1> SUFFICES ASSUME Init PROVE CommandInv
  OBVIOUS
<1> USE DEF Init, Enc!Init, Res!Init
<1>1. Enc!TypeOK
  <2>1. pc \in Enc!Labels /\ result \in Enc!Results
    BY DEF Enc!Labels, Enc!Results
  <2>2. cancels \in 0..MaxCancels /\ others \in 0..MaxOthers
    OBVIOUS
  <2> QED BY <2>1, <2>2 DEF Enc!TypeOK
<1>2. UnsentInv
  BY DEF UnsentInv, BeforeExchange, Enc!Refusals, Enc!Interrupt
<1>3. PasswordInv
  BY DEF PasswordInv
<1>4. SessionsInv /\ ScratchInv
  BY DEF SessionsInv, ScratchInv
<1>5. CommandTypeOK
  <2>1. cli \in Places /\ outcome \in Outcomes /\ reported \in Outcomes
    BY DEF Places, Outcomes
  <2>2. content \in 0 .. Len(Directories)
    BY DEF Nothing
  <2> QED BY <2>1, <2>2 DEF CommandTypeOK, Outputs
<1>6. BeforeInv /\ EvidenceInv /\ VerdictInv /\ EarlyInv
  BY DEF BeforeInv, EvidenceInv, VerdictInv, EarlyInv, Before, Ending, Changed
<1> QED BY <1>1, <1>2, <1>3, <1>4, <1>5, <1>6 DEF CommandInv, EnableInv

\* The steps of the host in enable_encryption.
LEMMA EnableHostStep == EnableInv /\ Enc!HostStep => EnableInv'
<1> SUFFICES ASSUME EnableInv, Enc!HostStep PROVE EnableInv'
  OBVIOUS
<1> USE DEF EnableInv, Enc!TypeOK, UnsentInv, PasswordInv, SessionsInv, ScratchInv,
            BeforeExchange, Enc!At, Enc!Cancelled, Enc!Goto, Enc!Finish,
            Enc!Session, Enc!deviceVars, Enc!hostVars
<1>l. {"status", "recheck", "enter", "link", "request", "link_close", "exit",
       "reconcile", "final", "done"} = Enc!Labels
  BY DEF Enc!Labels
<1>r. /\ {"BACKUP_ENCRYPTION_STATUS_UNAVAILABLE", "BACKUP_PARENT_INVALID",
          "BACKUP_PASSWORD_MISMATCH", "BACKUP_ENCRYPTION_STATE_CHANGED",
          "BACKUP_SCRATCH_CREATE_FAILED", Enc!Interrupt} = Enc!Refusals
      /\ Enc!Results = Enc!Refusals \cup {"PENDING", "already", "enabled",
            Enc!Unknown, "BACKUP_ENCRYPTION_ENABLE_UNCONFIRMED"}
      /\ Enc!Interrupt \notin {"enabled", "PENDING"}
      /\ {"PENDING", "already", "enabled", Enc!Unknown,
          "BACKUP_ENCRYPTION_ENABLE_UNCONFIRMED"} \cap Enc!Refusals = {}
      /\ Enc!Unknown # "enabled"
  BY DEF Enc!Refusals, Enc!Results, Enc!Unknown, Enc!Interrupt
<1>1. CASE Enc!ReadsStatus
  BY <1>1, <1>l, <1>r DEF Enc!ReadsStatus, Enc!StatusFails, Enc!Encrypted
<1>2. CASE Enc!RechecksStatus
  BY <1>2, <1>l, <1>r DEF Enc!RechecksStatus, Enc!StatusFails, Enc!Encrypted
<1>3. CASE Enc!EntersService
  BY <1>3, <1>l, <1>r DEF Enc!EntersService, Enc!Raises
<1>4. CASE Enc!OpensLink
  BY <1>4, <1>l, <1>r DEF Enc!OpensLink, Enc!Raises
<1>5. CASE Enc!TransmitsRequest
  BY <1>5, <1>l, <1>r DEF Enc!TransmitsRequest
<1>6. CASE Enc!RequestEnds
  BY <1>6, <1>l, <1>r DEF Enc!RequestEnds, Enc!Raises
<1>7. CASE Enc!ClosesLink
  BY <1>7, <1>l, <1>r DEF Enc!ClosesLink
<1>8. CASE Enc!ExitsService
  <2>1. Enc!TypeOK'
    BY <1>8, <1>l, <1>r DEF Enc!ExitsService, Enc!RemovesScratch
  <2>2. UnsentInv'
    BY <1>8, <1>l, <1>r DEF Enc!ExitsService, Enc!RemovesScratch
  <2>3. PasswordInv'
    BY <1>8, <1>l, <1>r DEF Enc!ExitsService, Enc!RemovesScratch
  <2>4. SessionsInv'
    BY <1>8, <1>l, <1>r DEF Enc!ExitsService, Enc!RemovesScratch
  <2>5. ScratchInv'
    BY <1>8, <1>l, <1>r DEF Enc!ExitsService, Enc!RemovesScratch
  <2> QED BY <2>1, <2>2, <2>3, <2>4, <2>5
<1>9. CASE Enc!Reconciles
  <2>1. Enc!TypeOK'
    BY <1>9, <1>l, <1>r DEF Enc!Reconciles, Enc!RemovesScratch, Enc!Encrypted
  <2>2. UnsentInv'
    BY <1>9, <1>l, <1>r DEF Enc!Reconciles, Enc!RemovesScratch, Enc!Encrypted
  <2>3. PasswordInv'
    BY <1>9, <1>l, <1>r DEF Enc!Reconciles, Enc!RemovesScratch, Enc!Encrypted
  <2>4. SessionsInv'
    BY <1>9, <1>l, <1>r DEF Enc!Reconciles, Enc!RemovesScratch, Enc!Encrypted
  <2>5. ScratchInv'
    BY <1>9, <1>l, <1>r DEF Enc!Reconciles, Enc!RemovesScratch, Enc!Encrypted
  <2> QED BY <2>1, <2>2, <2>3, <2>4, <2>5
<1>10. CASE Enc!ConfirmsStatus
  <2>1. Enc!TypeOK'
    BY <1>10, <1>l, <1>r DEF Enc!ConfirmsStatus, Enc!Encrypted
  <2>2. UnsentInv'
    BY <1>10, <1>l, <1>r DEF Enc!ConfirmsStatus, Enc!Encrypted
  <2>3. PasswordInv'
    BY <1>10, <1>l, <1>r DEF Enc!ConfirmsStatus, Enc!Encrypted
  <2>4. SessionsInv'
    BY <1>10, <1>l, <1>r DEF Enc!ConfirmsStatus, Enc!Encrypted
  <2>5. ScratchInv'
    BY <1>10, <1>l, <1>r DEF Enc!ConfirmsStatus, Enc!Encrypted
  <2> QED BY <2>1, <2>2, <2>3, <2>4, <2>5
<1> QED
  BY <1>1, <1>2, <1>3, <1>4, <1>5, <1>6, <1>7, <1>8, <1>9, <1>10
  DEF Enc!HostStep

\* The steps of the device, and of others, while it runs and afterwards.
LEMMA EnableWorldStep == EnableInv /\ Enc!WorldStep => EnableInv'
<1> SUFFICES ASSUME EnableInv, Enc!WorldStep PROVE EnableInv'
  OBVIOUS
<1> USE DEF EnableInv, Enc!TypeOK, UnsentInv, PasswordInv, SessionsInv, ScratchInv,
            BeforeExchange, Enc!deviceVars, Enc!hostVars, Enc!Encrypted
<1>1. CASE Enc!DeviceAnswers
  BY <1>1 DEF Enc!DeviceAnswers
<1>2. CASE Enc!DeviceFillsScratch
  BY <1>2 DEF Enc!DeviceFillsScratch
<1>3. CASE Enc!OthersAct
  <2>1. others' \in 0..MaxOthers /\ others' # 0
    BY <1>3 DEF Enc!OthersAct
  <2> QED BY <1>3, <2>1 DEF Enc!OthersAct
<1> QED BY <1>1, <1>2, <1>3 DEF Enc!WorldStep

\* The rest of the command does not touch what the call keeps.
LEMMA EnableUntouched ==
  ASSUME EnableInv, UNCHANGED <<enableVars, password>>,
         cancelling' \in BOOLEAN, cancels' \in 0..MaxCancels,
         UNCHANGED others \/ others' \in 1..MaxOthers
  PROVE  EnableInv'
BY DEF EnableInv, Enc!TypeOK, UnsentInv, PasswordInv, SessionsInv, ScratchInv,
       BeforeExchange, enableVars
-----------------------------------------------------------------------------
(* The command                                                             *)

\* What the command uses of enable_encryption and of the world.
LEMMA EnableHostFacts ==
  ASSUME Enc!HostStep
  PROVE  /\ pc # "done" /\ UNCHANGED cancels /\ cancelling' \in {FALSE, cancelling}
         /\ pc = "status" /\ cancelling =>
              pc' = "done" /\ result' = Enc!Interrupt /\ UNCHANGED request
BY DEF Enc!HostStep, Enc!ReadsStatus, Enc!RechecksStatus, Enc!EntersService,
       Enc!OpensLink, Enc!TransmitsRequest, Enc!RequestEnds, Enc!ClosesLink,
       Enc!ExitsService, Enc!Reconciles, Enc!ConfirmsStatus, Enc!StatusFails,
       Enc!Raises, Enc!At, Enc!Cancelled, Enc!Goto, Enc!Finish, Enc!deviceVars

LEMMA WorldFacts ==
  ASSUME Enc!WorldStep
  PROVE  /\ UNCHANGED <<pc, result, cancelling, cancels>>
         /\ request' = "unsent" <=> request = "unsent"
BY DEF Enc!WorldStep, Enc!DeviceAnswers, Enc!DeviceFillsScratch, Enc!OthersAct,
       Enc!hostVars, Enc!deviceVars

LEMMA NextEnable == CommandInv /\ [Next]_vars => EnableInv'
<1> SUFFICES ASSUME CommandInv, [Next]_vars PROVE EnableInv'
  OBVIOUS
<1> USE DEF CommandInv, enableVars, worldVars, cancelVars, Untouched
<1>1. CASE RunsEnable
  BY <1>1, EnableHostStep DEF RunsEnable
<1>2. CASE WorldActs
  BY <1>2, EnableWorldStep DEF WorldActs
<1>3. CASE OthersTakeOutput
  <2>1. others' \in 1..MaxOthers
    BY <1>3 DEF OthersTakeOutput, EnableInv, Enc!TypeOK
  <2>2. cancelling \in BOOLEAN /\ cancels \in 0..MaxCancels
    BY DEF EnableInv, Enc!TypeOK
  <2> QED BY <1>3, <2>1, <2>2, EnableUntouched DEF OthersTakeOutput
<1>4. CASE CliStep /\ ~RunsEnable
  <2>1. /\ UNCHANGED <<enableVars, worldVars, cancels>>
        /\ cancelling' \in {FALSE, cancelling}
    BY <1>4
    DEF CliStep, ReservesReceipt, OpensDevice, ReadsStatus, Confirms,
        ReturnsFromEnable, MarksStarted, ReservesOutput, EntersService,
        RunsBackup, DisconnectsLink, LeavesService, Validates, ClosesDevice,
        ReportsSuccess, ReportsFailure, Awaited, Interrupted
  <2>2. cancelling \in BOOLEAN /\ cancels \in 0..MaxCancels
    BY DEF EnableInv, Enc!TypeOK
  <2> QED BY <2>1, <2>2, EnableUntouched
<1>5. CASE FirstSigint \/ SecondSigint \/ SecondSigintInStep
  <2>1. cancels' \in 0..MaxCancels
    BY <1>5 DEF FirstSigint, SecondSigint, SecondSigintInStep, Sigint, EnableInv,
                Enc!TypeOK
  <2>2. cancelling' \in BOOLEAN
    BY <1>5 DEF FirstSigint, SecondSigint, SecondSigintInStep, EnableInv,
                Enc!TypeOK
  <2> QED
    BY <1>5, <2>1, <2>2, EnableUntouched
    DEF FirstSigint, SecondSigint, SecondSigintInStep, Sigint
<1>6. CASE DeviceWritesBackup \/ UNCHANGED vars
  <2>1. cancelling \in BOOLEAN /\ cancels \in 0..MaxCancels
    BY DEF EnableInv, Enc!TypeOK
  <2> QED BY <1>6, <2>1, EnableUntouched DEF DeviceWritesBackup, vars
<1> QED BY <1>1, <1>2, <1>3, <1>4, <1>5, <1>6 DEF Next

LEMMA NextCommand ==
  CommandInv /\ [Next]_vars =>
    (CommandTypeOK /\ BeforeInv /\ EvidenceInv /\ VerdictInv /\ EarlyInv)'
<1> DEFINE Kept == CommandTypeOK /\ BeforeInv /\ EvidenceInv /\ VerdictInv /\ EarlyInv
<1> SUFFICES ASSUME CommandInv, [Next]_vars PROVE Kept'
  OBVIOUS
<1> USE DEF CommandInv, CommandTypeOK, BeforeInv, EvidenceInv, VerdictInv, EarlyInv,
            Before, Ending, Changed, Outputs, Goto, Fails, Untouched, enableVars,
            worldVars, cancelVars, receiptVars, reportVars, cliVars, Enc!Interrupt
<1>p. Places = {"open", "status", "confirm", "enable", "mark", "create_status",
                "enter", "backup", "disconnect", "leave", "validate", "close",
                "reserve", "report", "exit"}
  BY DEF Places, InLoop
<1>o. /\ Outcomes = {"PENDING", "SUCCESS"} \cup Refusals \cup Failures \cup Enc!Results
      /\ {"PENDING", "SUCCESS", "RECEIPT_RESERVATION_FAILED",
          "BACKUP_OUTPUT_EXISTS", "DEVICE_UNAVAILABLE",
          "BACKUP_ENCRYPTION_REQUIRED", "BACKUP_ENCRYPTION_NOT_CONFIRMED",
          "RECEIPT_RESERVATION_CHANGED", "BACKUP_OUTPUT_CREATE_FAILED",
          "BACKUP_PATH_UNSAFE", "BACKUP_CREATE_INCOMPLETE",
          "BACKUP_VERIFY_FAILED",
          "OPERATION_INTERRUPTED", "BACKUP_ENCRYPTION_STATUS_UNAVAILABLE"}
           \subseteq Outcomes
      /\ {"SUCCESS", "BACKUP_VERIFY_FAILED"} \cap Enc!Results = {}
  BY DEF Outcomes, Refusals, Failures, Enc!Results, Enc!Refusals, Enc!Unknown
<1>r. result \in Enc!Results /\ cancels \in Nat /\ cancelling \in BOOLEAN
  BY DEF EnableInv, Enc!TypeOK
<1>1. CASE ReservesReceipt
  BY <1>1, <1>p, <1>o, <1>r DEF ReservesReceipt, Res!Reserve
<1>2. CASE OpensDevice
  BY <1>2, <1>p, <1>o, <1>r DEF OpensDevice, Awaited, Interrupted
<1>3. CASE ReadsStatus
  BY <1>3, <1>p, <1>o, <1>r DEF ReadsStatus, Awaited, Interrupted
<1>4. CASE Confirms
  BY <1>4, <1>p, <1>o, <1>r DEF Confirms, Marks, Res!Start
<1>5. CASE ReturnsFromEnable
  BY <1>5, <1>p, <1>o, <1>r DEF ReturnsFromEnable
<1>6. CASE MarksStarted
  BY <1>6, <1>p, <1>o, <1>r DEF MarksStarted, Marks, Res!Start
<1>7. CASE ReservesOutput
  BY <1>7, <1>p, <1>o, <1>r DEF ReservesOutput, Awaited, Interrupted
<1>8. CASE EntersService
  BY <1>8, <1>p, <1>o, <1>r DEF EntersService, Awaited, Interrupted
<1>9. CASE RunsBackup
  BY <1>9, <1>p, <1>o, <1>r DEF RunsBackup, Awaited, Interrupted
<1>10. CASE LeavesService
  BY <1>10, <1>p, <1>o, <1>r DEF LeavesService, Awaited, Interrupted
<1>11. CASE Validates
  BY <1>11, <1>p, <1>o, <1>r DEF Validates
<1>12. CASE ClosesDevice
  BY <1>12, <1>p, <1>o, <1>r DEF ClosesDevice, Awaited, Interrupted
<1>13. CASE ReportsSuccess
  BY <1>13, <1>p, <1>o, <1>r DEF ReportsSuccess, Final, Exits, Res!Write, Res!Keep
<1>14. CASE ReportsFailure
  BY <1>14, <1>p, <1>o, <1>r DEF ReportsFailure, Final, Exits, Res!Remove, Res!Keep
<1>15. CASE RunsEnable
  BY <1>15, <1>p, <1>o, <1>r, EnableHostFacts DEF RunsEnable
<1>16. CASE FirstSigint
  BY <1>16, <1>p, <1>o, <1>r DEF FirstSigint, Sigint, InLoop
<1>17. CASE SecondSigint
  BY <1>17, <1>p, <1>o, <1>r DEF SecondSigint, Sigint, InLoop
<1>18. CASE SecondSigintInStep
  BY <1>18, <1>p, <1>o, <1>r DEF SecondSigintInStep, Sigint
<1>19. CASE WorldActs
  BY <1>19, <1>p, <1>o, <1>r, WorldFacts DEF WorldActs
<1>20. CASE DeviceWritesBackup
  BY <1>20, <1>p, <1>o, <1>r DEF DeviceWritesBackup
<1>21. CASE OthersTakeOutput
  BY <1>21, <1>p, <1>o, <1>r DEF OthersTakeOutput
<1>22. CASE UNCHANGED vars
  BY <1>22 DEF vars
<1>23. CASE DisconnectsLink
  BY <1>23, <1>p, <1>o, <1>r DEF DisconnectsLink, Awaited, Interrupted
<1> QED
  BY <1>1, <1>2, <1>3, <1>4, <1>5, <1>6, <1>7, <1>8, <1>9, <1>10, <1>11,
     <1>12, <1>13, <1>14, <1>15, <1>16, <1>17, <1>18, <1>19, <1>20, <1>21,
     <1>22, <1>23 DEF Next, CliStep

LEMMA Invariance == Spec => []CommandInv
<1>1. CommandInv /\ [Next]_vars => CommandInv'
  BY NextEnable, NextCommand DEF CommandInv
<1> QED BY <1>1, InitialInv, PTL DEF Spec
-----------------------------------------------------------------------------
(***************************************************************************)
(* What enable_encryption reports of the device, its sessions and its      *)
(* scratch directory is true, wherever Ctrl-C, a lost answer or another    *)
(* host falls into it (backup.py:137-219, 374-444).                        *)
(***************************************************************************)
THEOREM EnableTruthful == Spec => []EnableIsTruthful
<1>1. CommandInv => EnableIsTruthful
  BY DEF CommandInv, EnableInv, UnsentInv, PasswordInv, SessionsInv, ScratchInv,
         EnableIsTruthful, Enc!TruthfulRefusal, Enc!TruthfulEnable,
         Enc!TruthfulClose, Enc!TruthfulScratch
<1> QED BY <1>1, Invariance, PTL

(***************************************************************************)
(* Once encryption may have been requested, or the output exists, the      *)
(* reserved receipt outlives the process, however it ends (cli.py:429-430, *)
(* 439-440, 453-455).                                                      *)
(***************************************************************************)
THEOREM ChangeSurvives == Spec => []ChangeEvidenceSurvives
<1>1. CommandInv => ChangeEvidenceSurvives
  BY DEF CommandInv, CommandTypeOK, EvidenceInv, Changed, Outputs,
         ChangeEvidenceSurvives
<1> QED BY <1>1, Invariance, PTL

(***************************************************************************)
(* Ctrl-C before enable_encryption, at its prompts too, prevents both the  *)
(* request and the backup (cli.py:417-433).                                *)
(***************************************************************************)
THEOREM EarlyInterrupt == Spec => []EarlyInterruptPreventsChange
<1>1. CommandInv => EarlyInterruptPreventsChange
  BY DEF CommandInv, CommandTypeOK, EarlyInv, Changed, Outputs,
         EarlyInterruptPreventsChange
<1> QED BY <1>1, Invariance, PTL

-----------------------------------------------------------------------------
(* Numbers, and functions defined on sets of them: what FoldLeft is made of *)

HIDE DirectoriesAssumption DEF DirectoriesAssumption

\* Every set of numbers that is not empty has a least one.
LEMMA Least ==
  ASSUME NEW T, T \subseteq Nat, T # {}
  PROVE  \E x \in T : \A y \in T : x <= y
<1>1. IsWellFoundedOn(OpToRel(<, Nat), Nat)
  BY NatLessThanWellFounded
<1>2. PICK x \in T : \A y \in T : ~(<<y, x>> \in OpToRel(<, Nat))
  BY <1>1, WFMin
<1>3. \A y \in T : ~(y < x)
  BY <1>2 DEF OpToRel
<1> QED BY <1>3

\* A set that holds 0, and with each number the next one, holds all up to N.
LEMMA UpTo ==
  ASSUME NEW N \in Nat, NEW T, 0 \in T,
         \A n \in 1 .. N : n - 1 \in T => n \in T
  PROVE  \A n \in 0 .. N : n \in T
<1> DEFINE Left == {n \in 0 .. N : n \notin T}
<1> SUFFICES ASSUME Left # {} PROVE FALSE
  OBVIOUS
<1>1. PICK n \in Left : \A m \in Left : n <= m
  <2>1. Left \subseteq Nat
    OBVIOUS
  <2> HIDE DEF Left
  <2> QED BY <2>1, Least
<1>2. n \in 1 .. N
  OBVIOUS
<1>3. n - 1 \in 0 .. N /\ n - 1 \notin Left
  BY <1>1, <1>2
<1> QED BY <1>2, <1>3

\* Max is the greatest element of a set of numbers up to N.
LEMMA MaxOf ==
  ASSUME NEW N \in Nat, NEW s \in SUBSET (1 .. N), s # {}
  PROVE  Layout!Max(s) \in s /\ \A y \in s : y <= Layout!Max(s)
<1> DEFINE Bounds == {n \in Nat : \A y \in s : y <= n}
<1>1. PICK n \in Bounds : \A m \in Bounds : n <= m
  <2>1. N \in Bounds
    OBVIOUS
  <2>2. Bounds \subseteq Nat
    OBVIOUS
  <2> HIDE DEF Bounds
  <2> QED BY <2>1, <2>2, Least
<1>2. n \in s
  <2> SUFFICES ASSUME n \notin s PROVE FALSE
    OBVIOUS
  <2>1. n >= 1 /\ n \in Nat
    <3>1. PICK e \in s : TRUE
      OBVIOUS
    <3>2. e \in Nat /\ e >= 1 /\ e <= n /\ n \in Nat
      OBVIOUS
    <3> QED BY <3>2
  <2>2. \A y \in s : y \in Nat /\ y <= n /\ y # n
    OBVIOUS
  <2>3. n - 1 \in Bounds
    BY <2>1, <2>2
  <2> QED BY <1>1, <2>1, <2>3
<1>3. \E x \in s : \A y \in s : x >= y
  BY <1>2
<1> QED BY <1>3 DEF Layout!Max

\* f is defined on every set of numbers up to N by its greatest element.
Recurs(f, b, N, G) ==
  \A s \in SUBSET (1 .. N) :
    f[s] = IF s = {} THEN b
           ELSE G[<<f[s \ {Layout!Max(s)}], Layout!Max(s)>>]

\* There is such a function.
LEMMA Recursion ==
  ASSUME NEW S, NEW b \in S, NEW N \in Nat, NEW G \in [S \X (1 .. N) -> S]
  PROVE  \E f \in [SUBSET (1 .. N) -> S] : Recurs(f, b, N, G)
<1> DEFINE Ok(f, s) == f[s] = IF s = {} THEN b
                              ELSE G[<<f[s \ {Layout!Max(s)}], Layout!Max(s)>>]
           T == {n \in 0 .. N : \E f \in [SUBSET (1 .. n) -> S] :
                                  \A s \in SUBSET (1 .. n) : Ok(f, s)}
<1>1. 0 \in T
  <2> DEFINE f == [s \in SUBSET (1 .. 0) |-> b]
  <2>1. SUBSET (1 .. 0) = {{}}
    OBVIOUS
  <2>2. f \in [SUBSET (1 .. 0) -> S] /\ \A s \in SUBSET (1 .. 0) : Ok(f, s)
    BY <2>1
  <2>3. 0 \in 0 .. N
    OBVIOUS
  <2> HIDE DEF f, Ok
  <2> QED BY <2>2, <2>3
<1>2. ASSUME NEW n \in 1 .. N, n - 1 \in T PROVE n \in T
  <2>1. PICK g \in [SUBSET (1 .. (n - 1)) -> S] :
          \A s \in SUBSET (1 .. (n - 1)) : Ok(g, s)
    BY <1>2
  <2> DEFINE f == [s \in SUBSET (1 .. n) |->
                     IF n \in s THEN G[<<g[s \ {n}], n>>] ELSE g[s]]
  <2>2. \A s \in SUBSET (1 .. n) : s \ {n} \in SUBSET (1 .. (n - 1))
    OBVIOUS
  <2>3. f \in [SUBSET (1 .. n) -> S]
    <3>1. ASSUME NEW s \in SUBSET (1 .. n)
          PROVE  (IF n \in s THEN G[<<g[s \ {n}], n>>] ELSE g[s]) \in S
      <4>1. s \ {n} \in SUBSET (1 .. (n - 1)) /\ g[s \ {n}] \in S
        BY <2>2
      <4>2. n \notin s => s = s \ {n}
        OBVIOUS
      <4> QED BY <4>1, <4>2
    <3> QED BY <3>1
  <2>m. ASSUME NEW s \in SUBSET (1 .. n), s # {}
        PROVE  Layout!Max(s) \in s /\ \A y \in s : y <= Layout!Max(s)
    <3>1. n \in Nat
      OBVIOUS
    <3> QED BY <2>m, <3>1, MaxOf
  <2>4. ASSUME NEW s \in SUBSET (1 .. n) PROVE Ok(f, s)
    <3>1. CASE n \in s
      <4>1. Layout!Max(s) = n
        <5>1. Layout!Max(s) \in s /\ n <= Layout!Max(s)
          BY <2>m, <3>1
        <5>2. Layout!Max(s) \in 1 .. n
          BY <5>1
        <5> QED BY <5>1, <5>2
      <4>2. f[s \ {n}] = g[s \ {n}]
        BY <2>2
      <4> QED BY <3>1, <4>1, <4>2
    <3>2. CASE n \notin s
      <4>1. s \in SUBSET (1 .. (n - 1)) /\ s = s \ {n} /\ f[s] = g[s]
        BY <2>2, <3>2
      <4>2. CASE s = {}
        BY <2>1, <4>1, <4>2
      <4>3. CASE s # {}
        <5>1. Layout!Max(s) \in s
          BY <2>m, <4>3
        <5>2. f[s \ {Layout!Max(s)}] = g[s \ {Layout!Max(s)}]
          BY <3>2
        <5> QED BY <2>1, <4>1, <4>3, <5>2
      <4> QED BY <4>2, <4>3
    <3> QED BY <3>1, <3>2
  <2>5. n \in 0 .. N
    OBVIOUS
  <2> HIDE DEF f
  <2> QED BY <2>3, <2>4, <2>5
<1> HIDE DEF T
<1>3. N \in T
  BY <1>1, <1>2, UpTo
<1> QED BY <1>3 DEF T, Recurs
-----------------------------------------------------------------------------
(* The walks of validate_backup keep their type                            *)

Walks == [ok : BOOLEAN, inspected : Nat, count : Nat, total : Nat]

\* The greatest of 1 .. n is n.
LEMMA MaxOfUpTo ==
  ASSUME NEW n \in Nat, n >= 1
  PROVE  Layout!Max(1 .. n) = n /\ (1 .. n) \ {n} = 1 .. (n - 1)
<1>1. 1 .. n # {} /\ n \in 1 .. n /\ 1 .. n \in SUBSET (1 .. n)
  OBVIOUS
<1>2. Layout!Max(1 .. n) \in 1 .. n /\ n <= Layout!Max(1 .. n)
  BY <1>1, MaxOf
<1> QED BY <1>2

\* consume counts an entry and refuses past the limit (backup.py:58-64).
LEMMA ConsumesType ==
  ASSUME NEW w \in Walks
  PROVE  /\ Layout!Consumes(w) \in Walks
         /\ Layout!Consumes(w).ok <=>
              w.ok /\ w.inspected < MAX_INSPECTED_DIRECTORY_ENTRIES
         /\ Layout!Consumes(w).inspected = w.inspected + 1
         /\ Layout!Consumes(w).count = w.count
         /\ Layout!Consumes(w).total = w.total
         /\ Layout!Refused(Layout!Consumes(w)) \in Walks
         /\ ~Layout!Refused(Layout!Consumes(w)).ok
<1>1. Layout!Consumes(w) \in Walks
  <2>1. /\ w.inspected + 1 \in Nat
        /\ (w.ok /\ w.inspected < MAX_INSPECTED_DIRECTORY_ENTRIES) \in BOOLEAN
    BY DEF Walks
  <2> QED BY <2>1, Zenon DEF Walks, Layout!Consumes
<1>2. \A v \in Walks : Layout!Refused(v) \in Walks /\ ~Layout!Refused(v).ok
  BY DEF Walks, Layout!Refused
<1>3. Layout!Consumes(w).ok <=>
        w.ok /\ w.inspected < MAX_INSPECTED_DIRECTORY_ENTRIES
  BY DEF Walks, Layout!Consumes
<1>4. /\ Layout!Consumes(w).inspected = w.inspected + 1
      /\ Layout!Consumes(w).count = w.count /\ Layout!Consumes(w).total = w.total
  BY DEF Walks, Layout!Consumes
<1> QED BY <1>1, <1>2, <1>3, <1>4

\* A file of a bucket (backup.py:696-720).
LEMMA VisitsFileType ==
  ASSUME NEW w \in Walks, NEW f \in Layout!FileEntries
  PROVE  Layout!VisitsFile(w, f) \in Walks
<1> DEFINE seen == Layout!Consumes(w)
<1>1. seen \in Walks /\ Layout!Refused(seen) \in Walks
  BY ConsumesType
<1>2. [seen EXCEPT !.count = @ + 1, !.total = @ + f.size] \in Walks
  <2>1. seen.count + 1 \in Nat /\ seen.total + f.size \in Nat
    BY <1>1 DEF Walks, Layout!FileEntries
  <2> HIDE DEF seen
  <2> QED BY <1>1, <2>1, Zenon DEF Walks
<1> HIDE DEF seen
<1> QED BY <1>1, <1>2 DEF Layout!VisitsFile, seen

\* f satisfies the same equation wherever its value before is in S.
Unfolding(f, b, S, N, G) ==
  f[{}] = b /\ \A s \in SUBSET (1 .. N) :
    s # {} /\ f[s \ {Layout!Max(s)}] \in S
      => f[s] = G[<<f[s \ {Layout!Max(s)}], Layout!Max(s)>>]
\* h goes from b to e in N steps of G.
Steps(h, b, e, N, G) ==
  h[0] = b /\ h[N] = e /\ \A n \in 1 .. N : h[n] = G[<<h[n - 1], n>>]

\* A function defined on sets by their greatest element goes through the
\* values a walk from 1 to N goes through.
LEMMA Unfolds ==
  ASSUME NEW S, NEW b \in S, NEW N \in Nat, NEW G \in [S \X (1 .. N) -> S],
         NEW f, Unfolding(f, b, S, N, G)
  PROVE  \E h \in [0 .. N -> S] : Steps(h, b, f[1 .. N], N, G)
<1> DEFINE h == [n \in 0 .. N |-> f[1 .. n]]
           T == {n \in 0 .. N : f[1 .. n] \in S}
<1>1. 1 .. 0 = {} /\ 0 \in 0 .. N /\ N \in 0 .. N
  OBVIOUS
<1>2. ASSUME NEW n \in 1 .. N, f[1 .. (n - 1)] \in S
      PROVE  f[1 .. n] = G[<<f[1 .. (n - 1)], n>>] /\ f[1 .. n] \in S
  <2>1. n \in Nat /\ n >= 1 /\ 1 .. n \in SUBSET (1 .. N) /\ 1 .. n # {}
    OBVIOUS
  <2>2. Layout!Max(1 .. n) = n /\ (1 .. n) \ {n} = 1 .. (n - 1)
    BY <2>1, MaxOfUpTo
  <2>3. f[1 .. n] = G[<<f[1 .. (n - 1)], n>>]
    BY <1>2, <2>1, <2>2 DEF Unfolding
  <2>4. <<f[1 .. (n - 1)], n>> \in S \X (1 .. N)
    BY <1>2
  <2>5. G[<<f[1 .. (n - 1)], n>>] \in S
    BY <2>4
  <2> QED BY <2>3, <2>5
<1>3. \A n \in 0 .. N : n \in T
  <2>1. 0 \in T
    BY <1>1 DEF Unfolding
  <2>2. ASSUME NEW n \in 1 .. N, n - 1 \in T PROVE n \in T
    <3>1. n \in 0 .. N /\ f[1 .. (n - 1)] \in S
      BY <2>2
    <3> QED BY <1>2, <3>1
  <2> HIDE DEF T
  <2> QED BY <2>1, <2>2, UpTo
<1>4. h \in [0 .. N -> S]
  BY <1>3
<1>5. h[0] = b /\ h[N] = f[1 .. N]
  BY <1>1 DEF Unfolding
<1>6. \A n \in 1 .. N : h[n] = G[<<h[n - 1], n>>]
  BY <1>2, <1>3
<1> HIDE DEF h
<1> QED BY <1>4, <1>5, <1>6 DEF Steps

\* The walk of the files of a bucket.
LEMMA FoldsFiles ==
  ASSUME NEW w \in Walks, NEW files \in Seq(Layout!FileEntries)
  PROVE  \E h \in [0 .. Len(files) -> Walks] :
           /\ h[0] = w
           /\ \A n \in 1 .. Len(files) :
                h[n] = Layout!VisitsFile(h[n - 1], files[n])
           /\ h[Len(files)] = Layout!FoldLeft(Layout!VisitsFile, w, files)
<1> DEFINE N == Len(files)
           G == [x \in Walks \X (1 .. N) |->
                   Layout!VisitsFile(x[1], files[x[2]])]
           next(g, s) == IF s = {} THEN w
             ELSE Layout!VisitsFile(g[s \ {Layout!Max(s)}], files[Layout!Max(s)])
           f == CHOOSE g : g = [s \in SUBSET DOMAIN files |-> next(g, s)]
<1>1. /\ N \in Nat /\ DOMAIN files = 1 .. N
      /\ \A n \in 1 .. N : files[n] \in Layout!FileEntries
  OBVIOUS
<1>2. G \in [Walks \X (1 .. N) -> Walks]
  BY <1>1, VisitsFileType
<1>3. \A s \in SUBSET (1 .. N) : s # {} => Layout!Max(s) \in 1 .. N
  BY <1>1, MaxOf
<1>4. PICK g \in [SUBSET (1 .. N) -> Walks] : Recurs(g, w, N, G)
  <2> HIDE DEF G, N, next, f
  <2>1. N \in Nat
    BY <1>1
  <2> QED BY <2>1, <1>2, Recursion, Zenon
<1>5. ASSUME NEW s \in SUBSET (1 .. N) PROVE g[s] = next(g, s)
  BY <1>3, <1>4 DEF Recurs
<1>6. g = [s \in SUBSET DOMAIN files |-> next(g, s)]
  <2> HIDE DEF next, N
  <2> QED BY <1>1, <1>5
<1>7. f = [s \in SUBSET DOMAIN files |-> next(f, s)]
  <2> HIDE DEF next
  <2> QED BY <1>6
<1>8. Layout!FoldLeft(Layout!VisitsFile, w, files) = f[1 .. N]
  BY <1>1 DEF Layout!FoldLeft, Layout!MapThenFoldSet
<1> HIDE DEF f
<1>9. f[{}] = w
  BY <1>7
<1>10. ASSUME NEW s \in SUBSET (1 .. N), s # {},
              f[s \ {Layout!Max(s)}] \in Walks
       PROVE  f[s] = G[<<f[s \ {Layout!Max(s)}], Layout!Max(s)>>]
  <2>1. f[s] = next(f, s)
    <3> HIDE DEF next, N
    <3> QED BY <1>1, <1>7
  <2> QED BY <1>3, <1>10, <2>1
<1>11. PICK h \in [0 .. N -> Walks] : Steps(h, w, f[1 .. N], N, G)
  <2> HIDE DEF G, N
  <2>1. Unfolding(f, w, Walks, N, G)
    BY <1>9, <1>10 DEF Unfolding
  <2> QED BY <1>1, <1>2, <2>1, Unfolds, Zenon
<1>12. ASSUME NEW n \in 1 .. N
       PROVE  h[n] = Layout!VisitsFile(h[n - 1], files[n])
  <2>1. h[n - 1] \in Walks
    BY <1>1
  <2>2. h[n] = G[<<h[n - 1], n>>]
    BY <1>11 DEF Steps
  <2> QED BY <2>1, <2>2
<1> QED BY <1>8, <1>11, <1>12 DEF Steps

\* The walk of an entry of the device directory.
LEMMA VisitsBucketType ==
  ASSUME NEW w \in Walks, NEW b \in Layout!BucketEntries
  PROVE  Layout!VisitsBucket(w, b) \in Walks
<1> DEFINE seen == Layout!Consumes(w)
<1>1. seen \in Walks /\ Layout!Refused(seen) \in Walks
  BY ConsumesType
<1>2. b.files \in Seq(Layout!FileEntries) /\ Len(b.files) \in Nat
  BY DEF Layout!BucketEntries
<1>3. Layout!FoldLeft(Layout!VisitsFile, seen, b.files) \in Walks
  <2> HIDE DEF seen
  <2>1. PICK h \in [0 .. Len(b.files) -> Walks] :
          h[Len(b.files)] = Layout!FoldLeft(Layout!VisitsFile, seen, b.files)
    BY <1>1, <1>2, FoldsFiles
  <2> QED BY <1>2, <2>1
<1> HIDE DEF seen
<1> QED BY <1>1, <1>3, Zenon DEF Layout!VisitsBucket, seen

\* The walk of an entry of the root.
LEMMA VisitsRootType ==
  ASSUME NEW w \in Walks, NEW e \in Layout!RootEntries
  PROVE  Layout!VisitsRoot(w, e) \in Walks
<1> DEFINE seen == Layout!Consumes(w)
<1>1. seen \in Walks /\ Layout!Refused(seen) \in Walks
  BY ConsumesType
<1>2. [seen EXCEPT !.count = 1] \in Walks
  <2> HIDE DEF seen
  <2> QED BY <1>1 DEF Walks
<1> HIDE DEF seen
<1> QED BY <1>1, <1>2, Zenon DEF Layout!VisitsRoot, seen

\* The walk of the device directory.
LEMMA FoldsBuckets ==
  ASSUME NEW w \in Walks, NEW buckets \in Seq(Layout!BucketEntries)
  PROVE  \E h \in [0 .. Len(buckets) -> Walks] :
           /\ h[0] = w
           /\ \A n \in 1 .. Len(buckets) :
                h[n] = Layout!VisitsBucket(h[n - 1], buckets[n])
           /\ h[Len(buckets)] = Layout!FoldLeft(Layout!VisitsBucket, w, buckets)
<1> DEFINE N == Len(buckets)
           G == [x \in Walks \X (1 .. N) |->
                   Layout!VisitsBucket(x[1], buckets[x[2]])]
           next(g, s) == IF s = {} THEN w
             ELSE Layout!VisitsBucket(g[s \ {Layout!Max(s)}], buckets[Layout!Max(s)])
           f == CHOOSE g : g = [s \in SUBSET DOMAIN buckets |-> next(g, s)]
<1>1. /\ N \in Nat /\ DOMAIN buckets = 1 .. N
      /\ \A n \in 1 .. N : buckets[n] \in Layout!BucketEntries
  OBVIOUS
<1>2. G \in [Walks \X (1 .. N) -> Walks]
  BY <1>1, VisitsBucketType
<1>3. \A s \in SUBSET (1 .. N) : s # {} => Layout!Max(s) \in 1 .. N
  BY <1>1, MaxOf
<1>4. PICK g \in [SUBSET (1 .. N) -> Walks] : Recurs(g, w, N, G)
  <2> HIDE DEF G, N, next, f
  <2>1. N \in Nat
    BY <1>1
  <2> QED BY <2>1, <1>2, Recursion, Zenon
<1>5. ASSUME NEW s \in SUBSET (1 .. N) PROVE g[s] = next(g, s)
  BY <1>3, <1>4 DEF Recurs
<1>6. g = [s \in SUBSET DOMAIN buckets |-> next(g, s)]
  <2> HIDE DEF next, N
  <2> QED BY <1>1, <1>5
<1>7. f = [s \in SUBSET DOMAIN buckets |-> next(f, s)]
  <2> HIDE DEF next
  <2> QED BY <1>6
<1>8. Layout!FoldLeft(Layout!VisitsBucket, w, buckets) = f[1 .. N]
  BY <1>1 DEF Layout!FoldLeft, Layout!MapThenFoldSet
<1> HIDE DEF f
<1>9. f[{}] = w
  BY <1>7
<1>10. ASSUME NEW s \in SUBSET (1 .. N), s # {},
              f[s \ {Layout!Max(s)}] \in Walks
       PROVE  f[s] = G[<<f[s \ {Layout!Max(s)}], Layout!Max(s)>>]
  <2>1. f[s] = next(f, s)
    <3> HIDE DEF next, N
    <3> QED BY <1>1, <1>7
  <2> QED BY <1>3, <1>10, <2>1
<1>11. PICK h \in [0 .. N -> Walks] : Steps(h, w, f[1 .. N], N, G)
  <2> HIDE DEF G, N
  <2>1. Unfolding(f, w, Walks, N, G)
    BY <1>9, <1>10 DEF Unfolding
  <2> QED BY <1>1, <1>2, <2>1, Unfolds, Zenon
<1>12. ASSUME NEW n \in 1 .. N
       PROVE  h[n] = Layout!VisitsBucket(h[n - 1], buckets[n])
  <2>1. h[n - 1] \in Walks
    BY <1>1
  <2>2. h[n] = G[<<h[n - 1], n>>]
    BY <1>11 DEF Steps
  <2> QED BY <2>1, <2>2
<1> QED BY <1>8, <1>11, <1>12 DEF Steps

\* The walk of the root.
LEMMA FoldsRoot ==
  ASSUME NEW w \in Walks, NEW entries \in Seq(Layout!RootEntries)
  PROVE  \E h \in [0 .. Len(entries) -> Walks] :
           /\ h[0] = w
           /\ \A n \in 1 .. Len(entries) :
                h[n] = Layout!VisitsRoot(h[n - 1], entries[n])
           /\ h[Len(entries)] = Layout!FoldLeft(Layout!VisitsRoot, w, entries)
<1> DEFINE N == Len(entries)
           G == [x \in Walks \X (1 .. N) |->
                   Layout!VisitsRoot(x[1], entries[x[2]])]
           next(g, s) == IF s = {} THEN w
             ELSE Layout!VisitsRoot(g[s \ {Layout!Max(s)}], entries[Layout!Max(s)])
           f == CHOOSE g : g = [s \in SUBSET DOMAIN entries |-> next(g, s)]
<1>1. /\ N \in Nat /\ DOMAIN entries = 1 .. N
      /\ \A n \in 1 .. N : entries[n] \in Layout!RootEntries
  OBVIOUS
<1>2. G \in [Walks \X (1 .. N) -> Walks]
  BY <1>1, VisitsRootType
<1>3. \A s \in SUBSET (1 .. N) : s # {} => Layout!Max(s) \in 1 .. N
  BY <1>1, MaxOf
<1>4. PICK g \in [SUBSET (1 .. N) -> Walks] : Recurs(g, w, N, G)
  <2> HIDE DEF G, N, next, f
  <2>1. N \in Nat
    BY <1>1
  <2> QED BY <2>1, <1>2, Recursion, Zenon
<1>5. ASSUME NEW s \in SUBSET (1 .. N) PROVE g[s] = next(g, s)
  BY <1>3, <1>4 DEF Recurs
<1>6. g = [s \in SUBSET DOMAIN entries |-> next(g, s)]
  <2> HIDE DEF next, N
  <2> QED BY <1>1, <1>5
<1>7. f = [s \in SUBSET DOMAIN entries |-> next(f, s)]
  <2> HIDE DEF next
  <2> QED BY <1>6
<1>8. Layout!FoldLeft(Layout!VisitsRoot, w, entries) = f[1 .. N]
  BY <1>1 DEF Layout!FoldLeft, Layout!MapThenFoldSet
<1> HIDE DEF f
<1>9. f[{}] = w
  BY <1>7
<1>10. ASSUME NEW s \in SUBSET (1 .. N), s # {},
              f[s \ {Layout!Max(s)}] \in Walks
       PROVE  f[s] = G[<<f[s \ {Layout!Max(s)}], Layout!Max(s)>>]
  <2>1. f[s] = next(f, s)
    <3> HIDE DEF next, N
    <3> QED BY <1>1, <1>7
  <2> QED BY <1>3, <1>10, <2>1
<1>11. PICK h \in [0 .. N -> Walks] : Steps(h, w, f[1 .. N], N, G)
  <2> HIDE DEF G, N
  <2>1. Unfolding(f, w, Walks, N, G)
    BY <1>9, <1>10 DEF Unfolding
  <2> QED BY <1>1, <1>2, <2>1, Unfolds, Zenon
<1>12. ASSUME NEW n \in 1 .. N
       PROVE  h[n] = Layout!VisitsRoot(h[n - 1], entries[n])
  <2>1. h[n - 1] \in Walks
    BY <1>1
  <2>2. h[n] = G[<<h[n - 1], n>>]
    BY <1>11 DEF Steps
  <2> QED BY <2>1, <2>2
<1> QED BY <1>8, <1>11, <1>12 DEF Steps

-----------------------------------------------------------------------------
(* What the walks find out: an invariant of every step of them             *)

\* What the walk has seen: the entries of the device directory up to K, and
\* the files at the places in Q.
IsPayload(f) == f.kind = "file" /\ f.hashed /\ f.own
Paid(d, Q)   == {at \in Q : IsPayload(Layout!FileAt(d, at))}
Fits(d, K, Q) ==
  /\ d.root = <<[ours |-> TRUE, kind |-> "dir"]>>
  /\ \A k \in 1 .. K : d.entries[k].hex => d.entries[k].kind = "dir"
  /\ \A at \in Q : Layout!FileAt(d, at).kind # "link"
  /\ 1 + K + Cardinality(Q) <= MAX_INSPECTED_DIRECTORY_ENTRIES
  /\ Cardinality(Paid(d, Q)) <= MAX_HASHED_PAYLOAD_COUNT
\* The walk is refused exactly when what it has seen does not fit, and its
\* counts are exact until then.
Agrees(w, d, K, Q) ==
  /\ w \in Walks /\ IsFiniteSet(Q)
  /\ w.ok <=> Fits(d, K, Q)
  /\ w.ok => /\ w.inspected = 1 + K + Cardinality(Q)
             /\ w.count = Cardinality(Paid(d, Q))
             /\ w.total > 0 <=>
                  \E at \in Paid(d, Q) : Layout!FileAt(d, at).size > 0

\* The payload among finitely many files is finite.
LEMMA Cards ==
  ASSUME NEW d, NEW Q, IsFiniteSet(Q)
  PROVE  /\ Cardinality(Q) \in Nat
         /\ IsFiniteSet(Paid(d, Q)) /\ Cardinality(Paid(d, Q)) \in Nat
<1>1. Paid(d, Q) \subseteq Q
  BY DEF Paid
<1> QED BY <1>1, FS_Subset, FS_CardinalityType

\* One more file is at most one more of the payload.
LEMMA PaidGrows ==
  ASSUME NEW d, NEW Q, IsFiniteSet(Q), NEW at, at \notin Q
  PROVE  /\ IsFiniteSet(Q \cup {at})
         /\ Cardinality(Q \cup {at}) = Cardinality(Q) + 1
         /\ IF IsPayload(Layout!FileAt(d, at))
            THEN /\ Paid(d, Q \cup {at}) = Paid(d, Q) \cup {at}
                 /\ Cardinality(Paid(d, Q \cup {at})) = Cardinality(Paid(d, Q)) + 1
            ELSE Paid(d, Q \cup {at}) = Paid(d, Q)
<1>1. IsFiniteSet(Paid(d, Q)) /\ at \notin Paid(d, Q)
  BY Cards DEF Paid
<1>2. IsFiniteSet(Q \cup {at}) /\ Cardinality(Q \cup {at}) = Cardinality(Q) + 1
  BY FS_AddElement
<1>3. Cardinality(Paid(d, Q) \cup {at}) = Cardinality(Paid(d, Q)) + 1
  BY <1>1, FS_AddElement
<1>4. Paid(d, Q \cup {at}) =
        IF IsPayload(Layout!FileAt(d, at)) THEN Paid(d, Q) \cup {at} ELSE Paid(d, Q)
  BY DEF Paid
<1> QED BY <1>2, <1>3, <1>4

\* One file more (backup.py:696-720).
LEMMA FileStep ==
  ASSUME NEW d, NEW w, NEW K \in Nat, NEW Q, NEW at, at \notin Q,
         Layout!FileAt(d, at) \in Layout!FileEntries, Agrees(w, d, K, Q)
  PROVE  Agrees(Layout!VisitsFile(w, Layout!FileAt(d, at)), d, K, Q \cup {at})
<1> DEFINE file == Layout!FileAt(d, at)
           seen == Layout!Consumes(w)
           v    == Layout!VisitsFile(w, file)
           R    == Q \cup {at}
<1> SUFFICES Agrees(v, d, K, R)
  OBVIOUS
<1>1. w \in Walks /\ IsFiniteSet(Q) /\ v \in Walks
  BY VisitsFileType DEF Agrees
<1>2. /\ Cardinality(Q) \in Nat /\ Cardinality(Paid(d, Q)) \in Nat
      /\ IsFiniteSet(R) /\ Cardinality(R) = Cardinality(Q) + 1
      /\ Cardinality(Paid(d, R)) = Cardinality(Paid(d, Q))
                                     + (IF IsPayload(file) THEN 1 ELSE 0)
      /\ Paid(d, R) =
           IF IsPayload(file) THEN Paid(d, Q) \cup {at} ELSE Paid(d, Q)
  <2>1. IsFiniteSet(Q)
    BY <1>1
  <2>2. /\ Cardinality(Q) \in Nat /\ Cardinality(Paid(d, Q)) \in Nat
    BY <2>1, Cards
  <2>3. /\ IsFiniteSet(R) /\ Cardinality(R) = Cardinality(Q) + 1
        /\ IF IsPayload(file)
           THEN /\ Paid(d, R) = Paid(d, Q) \cup {at}
                /\ Cardinality(Paid(d, R)) = Cardinality(Paid(d, Q)) + 1
           ELSE Paid(d, R) = Paid(d, Q)
    BY <2>1, PaidGrows
  <2> HIDE DEF R, file
  <2> QED BY <2>2, <2>3
<1>3. /\ seen \in Walks
      /\ seen.ok <=> w.ok /\ w.inspected < MAX_INSPECTED_DIRECTORY_ENTRIES
      /\ seen.inspected = w.inspected + 1 /\ seen.count = w.count
      /\ seen.total = w.total /\ ~Layout!Refused(seen).ok
  BY <1>1, ConsumesType
<1>4. Fits(d, K, R) <=>
        /\ Fits(d, K, Q) /\ file.kind # "link"
        /\ 1 + K + Cardinality(Q) < MAX_INSPECTED_DIRECTORY_ENTRIES
        /\ IsPayload(file) => Cardinality(Paid(d, Q)) < MAX_HASHED_PAYLOAD_COUNT
  <2> DEFINE few(S) == Cardinality(S) <= MAX_HASHED_PAYLOAD_COUNT
             low(S) == 1 + K + Cardinality(S) <= MAX_INSPECTED_DIRECTORY_ENTRIES
  <2>1. few(Paid(d, R)) <=>
          /\ few(Paid(d, Q))
          /\ IsPayload(file) => Cardinality(Paid(d, Q)) < MAX_HASHED_PAYLOAD_COUNT
    <3> HIDE DEF R, file
    <3> QED BY <1>2
  <2>2. low(R) <=>
          low(Q) /\ 1 + K + Cardinality(Q) < MAX_INSPECTED_DIRECTORY_ENTRIES
    <3> HIDE DEF R, file
    <3> QED BY <1>2
  <2>3. (\A a \in R : Layout!FileAt(d, a).kind # "link")
          <=> /\ \A a \in Q : Layout!FileAt(d, a).kind # "link"
              /\ file.kind # "link"
    OBVIOUS
  <2> QED BY <2>1, <2>2, <2>3 DEF Fits
<1> HIDE DEF seen, file, R, v
<1>5. CASE ~w.ok
  <2>1. v = w
    BY <1>5 DEF seen, file, v, Layout!VisitsFile
  <2>2. ~Fits(d, K, R)
    BY <1>4, <1>5 DEF Agrees
  <2> QED BY <1>1, <1>2, <1>5, <2>1, <2>2 DEF Agrees
<1>6. CASE w.ok
  <2>1. /\ Fits(d, K, Q) /\ w.inspected = 1 + K + Cardinality(Q)
        /\ w.count = Cardinality(Paid(d, Q))
        /\ w.total > 0 <=> \E a \in Paid(d, Q) : Layout!FileAt(d, a).size > 0
    BY <1>6 DEF Agrees
  <2>2. /\ file.size \in Nat /\ w.total \in Nat /\ w.count \in Nat
        /\ w.inspected \in Nat
    BY <1>1 DEF Layout!FileEntries, Walks, file
  <2>3. CASE ~seen.ok \/ file.kind = "link"
    <3>1. ~v.ok
      BY <1>3, <1>6, <2>3 DEF seen, file, v, Layout!VisitsFile
    <3>2. ~Fits(d, K, R)
      BY <1>3, <1>4, <1>6, <2>1, <2>3
    <3> QED BY <1>1, <1>2, <3>1, <3>2 DEF Agrees
  <2>4. CASE seen.ok /\ file.kind # "link" /\ ~IsPayload(file)
    <3>1. v = seen
      BY <1>6, <2>4 DEF seen, file, v, Layout!VisitsFile, IsPayload
    <3>2. Fits(d, K, R)
      BY <1>3, <1>4, <1>6, <2>1, <2>4
    <3>3. /\ seen.inspected = 1 + K + Cardinality(R)
          /\ seen.count = Cardinality(Paid(d, R))
      BY <1>2, <1>3, <2>1, <2>4
    <3>4. seen.total > 0 <=> \E a \in Paid(d, R) : Layout!FileAt(d, a).size > 0
      BY <1>2, <1>3, <2>1, <2>4
    <3> QED BY <1>1, <1>2, <2>4, <3>1, <3>2, <3>3, <3>4 DEF Agrees
  <2>5. CASE /\ seen.ok /\ file.kind # "link" /\ IsPayload(file)
             /\ w.count >= MAX_HASHED_PAYLOAD_COUNT
    <3>1. ~v.ok
      BY <1>3, <1>6, <2>5 DEF seen, file, v, Layout!VisitsFile, IsPayload
    <3>2. ~Fits(d, K, R)
      BY <1>2, <1>4, <2>1, <2>5
    <3> QED BY <1>1, <1>2, <3>1, <3>2 DEF Agrees
  <2>6. CASE /\ seen.ok /\ file.kind # "link" /\ IsPayload(file)
             /\ ~(w.count >= MAX_HASHED_PAYLOAD_COUNT)
    <3>1. v = [seen EXCEPT !.count = @ + 1, !.total = @ + file.size]
      BY <1>6, <2>6 DEF seen, file, v, Layout!VisitsFile, IsPayload
    <3>2. /\ v.ok /\ v.inspected = seen.inspected /\ v.count = seen.count + 1
          /\ v.total = seen.total + file.size
      <4> HIDE DEF seen, v
      <4> QED BY <1>3, <2>6, <3>1 DEF Walks
    <3>3. Fits(d, K, R)
      BY <1>2, <1>3, <1>4, <1>6, <2>1, <2>2, <2>6
    <3>4. v.inspected = 1 + K + Cardinality(R) /\ v.count = Cardinality(Paid(d, R))
      BY <1>2, <1>3, <2>1, <2>6, <3>2
    <3>5. v.total > 0 <=> w.total > 0 \/ file.size > 0
      BY <1>3, <2>2, <3>2
    <3>6. v.total > 0 <=> \E a \in Paid(d, R) : Layout!FileAt(d, a).size > 0
      BY <1>2, <2>1, <2>6, <3>5 DEF file
    <3> HIDE DEF v
    <3> QED BY <1>1, <1>2, <3>2, <3>3, <3>4, <3>6 DEF Agrees
  <2> QED BY <2>3, <2>4, <2>5, <2>6
<1>7. w.ok \in BOOLEAN
  BY <1>1 DEF Walks
<1> QED BY <1>5, <1>6, <1>7

\* What fits still fits with less of it.
LEMMA FitsShrinks ==
  ASSUME NEW d, NEW J \in Nat, NEW K \in Nat, J <= K,
         NEW Q, IsFiniteSet(Q), NEW P, P \subseteq Q, Fits(d, K, Q)
  PROVE  Fits(d, J, P)
<1>1. IsFiniteSet(P) /\ Cardinality(P) <= Cardinality(Q)
  BY FS_Subset
<1>2. Cardinality(Paid(d, P)) <= Cardinality(Paid(d, Q))
  <2>1. Paid(d, P) \subseteq Paid(d, Q) /\ IsFiniteSet(Paid(d, Q))
    BY Cards DEF Paid
  <2> QED BY <2>1, FS_Subset
<1>3. /\ Cardinality(P) \in Nat /\ Cardinality(Q) \in Nat
      /\ Cardinality(Paid(d, P)) \in Nat /\ Cardinality(Paid(d, Q)) \in Nat
  BY <1>1, Cards
<1>4. 1 .. J \subseteq 1 .. K
  OBVIOUS
<1>5. 1 + J + Cardinality(P) <= MAX_INSPECTED_DIRECTORY_ENTRIES
  BY <1>1, <1>3 DEF Fits
<1>6. Cardinality(Paid(d, P)) <= MAX_HASHED_PAYLOAD_COUNT
  BY <1>2, <1>3 DEF Fits
<1> QED BY <1>4, <1>5, <1>6 DEF Fits

\* The places of the files of the buckets up to K.
Upto(d, K) == {at \in Layout!InBuckets(d) : at[1] <= K}
Files(d, k) == {<<k, n>> : n \in 1 .. Len(d.entries[k].files)}

\* One bucket more brings its own files.
LEMMA UptoNext ==
  ASSUME NEW d, d.entries \in Seq(Layout!BucketEntries),
         NEW K \in 1 .. Len(d.entries)
  PROVE  /\ Upto(d, 0) = {} /\ Upto(d, Len(d.entries)) = Layout!InBuckets(d)
         /\ Upto(d, K) = Upto(d, K - 1)
              \cup (IF d.entries[K].hex THEN Files(d, K) ELSE {})
         /\ \A at \in Upto(d, K - 1) : at[1] < K
<1> DEFINE N == Len(d.entries)
<1>1. /\ N \in Nat /\ DOMAIN d.entries = 1 .. N
      /\ \A k \in 1 .. N :
           DOMAIN d.entries[k].files = 1 .. Len(d.entries[k].files)
  BY DEF Layout!BucketEntries
<1>2. Layout!InBuckets(d) =
        UNION {Files(d, k) : k \in {j \in 1 .. N : d.entries[j].hex}}
  BY <1>1 DEF Layout!InBuckets, Layout!Buckets, Files
<1>3. \A k \in 1 .. N : \A at \in Files(d, k) : at[1] = k
  BY DEF Files
<1>4. Upto(d, 0) = {} /\ Upto(d, N) = Layout!InBuckets(d)
  BY <1>1, <1>2, <1>3 DEF Upto
<1>5. \A at \in Layout!InBuckets(d) : at[1] \in 1 .. N
  BY <1>2, <1>3
<1>6. \A at \in Upto(d, K - 1) : at[1] < K
  BY <1>1, <1>5 DEF Upto
<1>7. Upto(d, K) = Upto(d, K - 1)
              \cup (IF d.entries[K].hex THEN Files(d, K) ELSE {})
  <2>1. ASSUME NEW at, at \in Upto(d, K), at \notin Upto(d, K - 1)
        PROVE  d.entries[K].hex /\ at \in Files(d, K)
    <3>1. at \in Layout!InBuckets(d) /\ at[1] = K
      BY <1>1, <1>5, <2>1 DEF Upto
    <3>2. PICK k \in 1 .. N : d.entries[k].hex /\ at \in Files(d, k)
      BY <1>2, <3>1
    <3> QED BY <1>3, <3>1, <3>2
  <2>2. Upto(d, K - 1) \subseteq Upto(d, K)
    BY <1>1, <1>5 DEF Upto
  <2>3. d.entries[K].hex => Files(d, K) \subseteq Upto(d, K)
    BY <1>1, <1>2, <1>3 DEF Upto
  <2> QED BY <2>1, <2>2, <2>3
<1> QED BY <1>4, <1>6, <1>7

\* A bucket has finitely many files.
LEMMA RangeFinite ==
  ASSUME NEW k, NEW N \in Nat
  PROVE  IsFiniteSet({<<k, n>> : n \in 1 .. N})
<1> DEFINE P(m) == {<<k, n>> : n \in 1 .. m}
           T    == {m \in 0 .. N : IsFiniteSet(P(m))}
<1>1. 0 \in T
  <2>1. P(0) = {} /\ 0 \in 0 .. N
    OBVIOUS
  <2> HIDE DEF P
  <2> QED BY <2>1, FS_EmptySet
<1>2. ASSUME NEW m \in 1 .. N, m - 1 \in T PROVE m \in T
  <2>1. P(m) = P(m - 1) \cup {<<k, m>>}
    <3>1. 1 .. m = 1 .. (m - 1) \cup {m}
      OBVIOUS
    <3> QED BY <3>1
  <2>2. IsFiniteSet(P(m - 1)) /\ m \in 0 .. N
    BY <1>2
  <2> HIDE DEF P
  <2> QED BY <2>1, <2>2, FS_AddElement
<1> HIDE DEF T
<1>3. N \in T
  BY <1>1, <1>2, UpTo
<1> QED BY <1>3 DEF T

\* So have the buckets up to any one.
LEMMA UptoFinite ==
  ASSUME NEW d, d.entries \in Seq(Layout!BucketEntries)
  PROVE  \A k \in 0 .. Len(d.entries) : IsFiniteSet(Upto(d, k))
<1> DEFINE N == Len(d.entries)
           T == {k \in 0 .. N : IsFiniteSet(Upto(d, k))}
<1>1. N \in Nat
  OBVIOUS
<1>2. 0 \in T
  <2>1. Upto(d, 0) = {}
    <3>1. \A at \in Layout!InBuckets(d) : at[1] \in Nat /\ at[1] >= 1
      BY DEF Layout!InBuckets, Layout!Buckets
    <3> QED BY <3>1 DEF Upto
  <2>2. 0 \in 0 .. N
    BY <1>1
  <2> HIDE DEF N
  <2> QED BY <2>1, <2>2, FS_EmptySet
<1>3. ASSUME NEW k \in 1 .. N, k - 1 \in T PROVE k \in T
  <2>1. IsFiniteSet(Files(d, k))
    <3>1. Len(d.entries[k].files) \in Nat
      BY DEF Layout!BucketEntries
    <3> QED BY <3>1, RangeFinite DEF Files
  <2>2. IsFiniteSet(Upto(d, k - 1)) /\ k \in 0 .. N
    BY <1>3
  <2>3. Upto(d, k) = Upto(d, k - 1)
          \cup (IF d.entries[k].hex THEN Files(d, k) ELSE {})
    BY UptoNext
  <2>4. IsFiniteSet(Upto(d, k))
    <3>1. CASE d.entries[k].hex
      <4>1. IsFiniteSet(Upto(d, k - 1) \cup Files(d, k))
        BY <2>1, <2>2, FS_Union
      <4> QED BY <2>3, <3>1, <4>1
    <3>2. CASE ~d.entries[k].hex
      BY <2>2, <2>3, <3>2
    <3> QED BY <3>1, <3>2
  <2> QED BY <2>2, <2>4
<1> HIDE DEF T
<1>4. \A k \in 0 .. N : k \in T
  BY <1>1, <1>2, <1>3, UpTo
<1> QED BY <1>4 DEF T

\* The files of one bucket, from where the bucket was consumed.
LEMMA FilesStep ==
  ASSUME NEW d, NEW K \in Nat, NEW w, NEW Q, \A at \in Q : at[1] < K,
         d.entries[K].files \in Seq(Layout!FileEntries), Agrees(w, d, K, Q)
  PROVE  Agrees(Layout!FoldLeft(Layout!VisitsFile, w, d.entries[K].files),
                d, K, Q \cup Files(d, K))
<1> DEFINE files == d.entries[K].files
           N     == Len(files)
           P(n)  == Q \cup {<<K, m>> : m \in 1 .. n}
<1>1. w \in Walks /\ N \in Nat
  BY DEF Agrees
<1>2. PICK h \in [0 .. N -> Walks] :
        /\ h[0] = w
        /\ \A n \in 1 .. N : h[n] = Layout!VisitsFile(h[n - 1], files[n])
        /\ h[N] = Layout!FoldLeft(Layout!VisitsFile, w, files)
  BY <1>1, FoldsFiles
<1> DEFINE T == {n \in 0 .. N : Agrees(h[n], d, K, P(n))}
<1>3. 0 \in T
  <2>1. P(0) = Q /\ 0 \in 0 .. N
    BY <1>1
  <2> HIDE DEF P, N
  <2> QED BY <1>2, <2>1
<1>4. ASSUME NEW n \in 1 .. N, n - 1 \in T PROVE n \in T
  <2> DEFINE at == <<K, n>>
  <2>1. Agrees(h[n - 1], d, K, P(n - 1)) /\ n \in 0 .. N
    BY <1>4
  <2>2. at \notin P(n - 1)
    OBVIOUS
  <2>3. Layout!FileAt(d, at) = files[n] /\ files[n] \in Layout!FileEntries
    BY DEF Layout!FileAt
  <2>4. P(n) = P(n - 1) \cup {at}
    <3>1. 1 .. n = 1 .. (n - 1) \cup {n}
      OBVIOUS
    <3> QED BY <3>1
  <2> HIDE DEF P, at, files, N
  <2>5. Agrees(Layout!VisitsFile(h[n - 1], Layout!FileAt(d, at)), d, K,
               P(n - 1) \cup {at})
    BY <2>1, <2>2, <2>3, FileStep
  <2> QED BY <1>2, <2>1, <2>3, <2>4, <2>5
<1> HIDE DEF T
<1>5. N \in T
  <2> HIDE DEF N
  <2>1. \A n \in 0 .. N : n \in T
    BY <1>1, <1>3, <1>4, UpTo, Zenon
  <2> QED BY <1>1, <2>1
<1>6. P(N) = Q \cup Files(d, K)
  BY DEF Files
<1> HIDE DEF P, N, files
<1> QED BY <1>2, <1>5, <1>6 DEF T, N, files

\* One entry of the device directory more (backup.py:664-720).
LEMMA BucketStep ==
  ASSUME NEW d, d.entries \in Seq(Layout!BucketEntries),
         NEW K \in 1 .. Len(d.entries), NEW w,
         Agrees(w, d, K - 1, Upto(d, K - 1))
  PROVE  Agrees(Layout!VisitsBucket(w, d.entries[K]), d, K, Upto(d, K))
<1> DEFINE b    == d.entries[K]
           Q    == Upto(d, K - 1)
           R    == Upto(d, K)
           seen == Layout!Consumes(w)
           v    == Layout!VisitsBucket(w, b)
<1>1. /\ b \in Layout!BucketEntries /\ b.files \in Seq(Layout!FileEntries)
      /\ b.hex \in BOOLEAN /\ K \in Nat /\ K - 1 \in Nat /\ K >= 1
  <2>1. Len(d.entries) \in Nat /\ b \in Layout!BucketEntries
    OBVIOUS
  <2> HIDE DEF b
  <2> QED BY <2>1 DEF Layout!BucketEntries
<1>2. w \in Walks /\ v \in Walks
  BY <1>1, VisitsBucketType DEF Agrees
<1>3. IsFiniteSet(Q) /\ IsFiniteSet(R)
  <2>1. K - 1 \in 0 .. Len(d.entries) /\ K \in 0 .. Len(d.entries)
    OBVIOUS
  <2> QED BY <2>1, UptoFinite
<1>4. R = Q \cup (IF b.hex THEN Files(d, K) ELSE {}) /\ \A at \in Q : at[1] < K
  BY UptoNext
<1>5. /\ seen \in Walks
      /\ seen.ok <=> w.ok /\ w.inspected < MAX_INSPECTED_DIRECTORY_ENTRIES
      /\ seen.inspected = w.inspected + 1 /\ seen.count = w.count
      /\ seen.total = w.total
      /\ Layout!Refused(seen) \in Walks /\ ~Layout!Refused(seen).ok
  BY <1>2, ConsumesType
<1>6. /\ Cardinality(Q) \in Nat /\ w.ok \in BOOLEAN /\ w.inspected \in Nat
  BY <1>2, <1>3, Cards DEF Walks
<1>7. Fits(d, K, Q) <=>
        /\ Fits(d, K - 1, Q) /\ (b.hex => b.kind = "dir")
        /\ 1 + (K - 1) + Cardinality(Q) < MAX_INSPECTED_DIRECTORY_ENTRIES
  <2>1. 1 .. K = 1 .. (K - 1) \cup {K}
    BY <1>1
  <2>2. (\A k \in 1 .. K : d.entries[k].hex => d.entries[k].kind = "dir")
          <=> /\ \A k \in 1 .. (K - 1) : d.entries[k].hex => d.entries[k].kind = "dir"
              /\ b.hex => b.kind = "dir"
    BY <2>1
  <2>3. 1 + K + Cardinality(Q) <= MAX_INSPECTED_DIRECTORY_ENTRIES <=>
          /\ 1 + (K - 1) + Cardinality(Q) <= MAX_INSPECTED_DIRECTORY_ENTRIES
          /\ 1 + (K - 1) + Cardinality(Q) < MAX_INSPECTED_DIRECTORY_ENTRIES
    BY <1>1, <1>6
  <2> HIDE DEF b, Q
  <2> QED BY <2>2, <2>3 DEF Fits
<1>8. Fits(d, K, R) => Fits(d, K, Q)
  <2>1. Q \subseteq R
    BY <1>4
  <2> HIDE DEF Q, R
  <2> QED BY <1>1, <1>3, <2>1, FitsShrinks
<1> SUFFICES Agrees(v, d, K, R)
  OBVIOUS
<1> HIDE DEF seen, Q, R, b
\* Once refused, the walk stays refused.
<1>9. ASSUME ~v.ok, ~Fits(d, K, Q) PROVE Agrees(v, d, K, R)
  <2>1. ~Fits(d, K, R)
    BY <1>8, <1>9
  <2> HIDE DEF v
  <2> QED BY <1>2, <1>3, <1>9, <2>1 DEF Agrees
<1>10. Agrees(w, d, K - 1, Q)
  BY DEF Q
<1>11. CASE ~w.ok
  <2>1. ~v.ok
    BY <1>11 DEF Layout!VisitsBucket
  <2>2. ~Fits(d, K, Q)
    BY <1>7, <1>10, <1>11 DEF Agrees
  <2> QED BY <1>9, <2>1, <2>2
<1>12. CASE w.ok
  <2>1. /\ Fits(d, K - 1, Q) /\ w.inspected = 1 + (K - 1) + Cardinality(Q)
        /\ w.count = Cardinality(Paid(d, Q))
        /\ w.total > 0 <=> \E at \in Paid(d, Q) : Layout!FileAt(d, at).size > 0
    BY <1>10, <1>12 DEF Agrees
  \* The entry itself counts once.
  <2>2. ASSUME b.hex => b.kind = "dir" PROVE Agrees(seen, d, K, Q)
    <3>1. seen.ok <=> Fits(d, K, Q)
      BY <1>5, <1>7, <1>12, <2>1, <2>2
    <3>2. seen.inspected = 1 + K + Cardinality(Q)
      BY <1>1, <1>5, <1>6, <2>1
    <3> QED BY <1>3, <1>5, <2>1, <3>1, <3>2 DEF Agrees
  <2>3. CASE ~b.hex
    <3>1. v = seen
      BY <1>12, <2>3 DEF Layout!VisitsBucket, seen
    <3>2. R = Q
      BY <1>4, <2>3
    <3> QED BY <2>2, <2>3, <3>1, <3>2
  <2>4. CASE b.hex /\ (~seen.ok \/ b.kind # "dir")
    <3>1. v = Layout!Refused(seen)
      BY <1>12, <2>4 DEF Layout!VisitsBucket, seen
    <3>2. ~v.ok
      BY <1>5, <3>1
    <3>3. ~Fits(d, K, Q)
      BY <1>5, <1>7, <1>12, <2>1, <2>4
    <3> QED BY <1>9, <3>2, <3>3
  <2>5. CASE b.hex /\ seen.ok /\ b.kind = "dir"
    <3>1. v = Layout!FoldLeft(Layout!VisitsFile, seen, b.files)
      BY <1>12, <2>5 DEF Layout!VisitsBucket, seen
    <3>2. Agrees(seen, d, K, Q)
      BY <2>2, <2>5
    <3>3. R = Q \cup Files(d, K) /\ \A at \in Q : at[1] < K
      BY <1>4, <2>5
    <3>4. b.files = d.entries[K].files
      BY DEF b
    <3> HIDE DEF v
    <3>5. Agrees(Layout!FoldLeft(Layout!VisitsFile, seen, d.entries[K].files),
                 d, K, Q \cup Files(d, K))
      <4>1. d.entries[K].files \in Seq(Layout!FileEntries)
        BY <1>1, <3>4
      <4> QED BY <1>1, <3>2, <3>3, <4>1, FilesStep
    <3> QED BY <3>1, <3>3, <3>4, <3>5
  <2> QED BY <1>1, <2>3, <2>4, <2>5
<1> QED BY <1>6, <1>11, <1>12

OurRoot == [ours |-> TRUE, kind |-> "dir"]

\* One entry of the root.
LEMMA RootStep ==
  ASSUME NEW w \in Walks, NEW e \in Layout!RootEntries
  PROVE  LET v == Layout!VisitsRoot(w, e) IN
         /\ v \in Walks
         /\ v.ok <=> /\ w.ok /\ w.inspected < MAX_INSPECTED_DIRECTORY_ENTRIES
                     /\ w.count = 0 /\ e = OurRoot
         /\ v.ok => v.inspected = w.inspected + 1 /\ v.count = 1 /\ v.total = w.total
<1> DEFINE seen == Layout!Consumes(w)
           v    == Layout!VisitsRoot(w, e)
<1>1. /\ seen \in Walks /\ v \in Walks
      /\ seen.ok <=> w.ok /\ w.inspected < MAX_INSPECTED_DIRECTORY_ENTRIES
      /\ seen.inspected = w.inspected + 1 /\ seen.count = w.count
      /\ seen.total = w.total /\ ~Layout!Refused(seen).ok
  BY ConsumesType, VisitsRootType
<1>2. e.ours /\ e.kind = "dir" <=> e = OurRoot
  BY DEF Layout!RootEntries, OurRoot
<1> DEFINE next == [seen EXCEPT !.count = 1]
<1> HIDE DEF seen
<1>3. next.ok = seen.ok /\ next.inspected = seen.inspected /\ next.count = 1
        /\ next.total = seen.total
  BY <1>1 DEF Walks
<1> HIDE DEF next
<1>4. v = IF ~w.ok THEN w
          ELSE IF seen.ok /\ w.count = 0 /\ e.ours /\ e.kind = "dir"
               THEN next ELSE Layout!Refused(seen)
  BY DEF Layout!VisitsRoot, seen, next
<1> HIDE DEF v
<1> SUFFICES /\ v \in Walks
             /\ v.ok <=> /\ w.ok /\ w.inspected < MAX_INSPECTED_DIRECTORY_ENTRIES
                         /\ w.count = 0 /\ e = OurRoot
             /\ v.ok => v.inspected = w.inspected + 1 /\ v.count = 1 /\ v.total = w.total
  BY DEF v
<1>5. CASE ~w.ok
  BY <1>1, <1>4, <1>5
<1>6. CASE w.ok /\ seen.ok /\ w.count = 0 /\ e = OurRoot
  <2>1. v = next
    BY <1>2, <1>4, <1>6
  <2> QED BY <1>1, <1>3, <1>6, <2>1
<1>7. CASE w.ok /\ ~(seen.ok /\ w.count = 0 /\ e = OurRoot)
  <2>1. v = Layout!Refused(seen)
    BY <1>2, <1>4, <1>7
  <2> QED BY <1>1, <1>7, <2>1
<1> QED BY <1>5, <1>6, <1>7

\* The walk of the root goes on only past our directory, alone in it.
LEMMA RootWalk ==
  ASSUME NEW root, root \in Seq(Layout!RootEntries)
  PROVE  LET w == Layout!FoldLeft(Layout!VisitsRoot, Layout!Start, root) IN
         /\ w \in Walks
         /\ w.ok /\ w.count = 1 <=>
              root = <<OurRoot>> /\ 1 <= MAX_INSPECTED_DIRECTORY_ENTRIES
         /\ w.ok /\ w.count = 1 => w.inspected = 1 /\ w.total = 0
<1> DEFINE N == Len(root)
           w == Layout!FoldLeft(Layout!VisitsRoot, Layout!Start, root)
<1>1. N \in Nat /\ Layout!Start \in Walks
  BY DEF Walks, Layout!Start
<1>2. PICK h \in [0 .. N -> Walks] :
        /\ h[0] = Layout!Start
        /\ \A n \in 1 .. N : h[n] = Layout!VisitsRoot(h[n - 1], root[n])
        /\ h[N] = w
  BY <1>1, FoldsRoot
<1>3. w \in Walks
  BY <1>1, <1>2
<1>4. /\ Layout!Start.ok /\ Layout!Start.count = 0
      /\ Layout!Start.inspected = 0 /\ Layout!Start.total = 0
  BY DEF Layout!Start
<1>5. ASSUME NEW n \in 1 .. N
      PROVE  /\ h[n - 1] \in Walks
             /\ h[n].ok <=> /\ h[n - 1].ok /\ h[n - 1].count = 0
                            /\ h[n - 1].inspected < MAX_INSPECTED_DIRECTORY_ENTRIES
                            /\ root[n] = OurRoot
             /\ h[n].ok => /\ h[n].inspected = h[n - 1].inspected + 1
                           /\ h[n].count = 1 /\ h[n].total = h[n - 1].total
  <2>1. h[n - 1] \in Walks /\ root[n] \in Layout!RootEntries
    BY <1>1
  <2>2. h[n] = Layout!VisitsRoot(h[n - 1], root[n])
    BY <1>2
  <2> QED BY <2>1, <2>2, RootStep
<1> SUFFICES /\ w.ok /\ w.count = 1 <=>
                 root = <<OurRoot>> /\ 1 <= MAX_INSPECTED_DIRECTORY_ENTRIES
             /\ w.ok /\ w.count = 1 => w.inspected = 1 /\ w.total = 0
  BY <1>3
<1> HIDE DEF w
<1>6. CASE N = 0
  <2>1. root # <<OurRoot>>
    BY <1>6
  <2> QED BY <1>2, <1>4, <1>6, <2>1
<1>7. CASE N = 1
  <2>1. root = <<OurRoot>> <=> root[1] = OurRoot
    BY <1>7
  <2>2. /\ h[1].ok <=> 0 < MAX_INSPECTED_DIRECTORY_ENTRIES /\ root[1] = OurRoot
        /\ h[1].ok => h[1].inspected = 1 /\ h[1].count = 1 /\ h[1].total = 0
    BY <1>2, <1>4, <1>5, <1>7
  <2>3. w = h[1]
    BY <1>2, <1>7
  <2> HIDE DEF N
  <2> QED BY <2>1, <2>2, <2>3
<1>8. CASE N >= 2
  <2> DEFINE T == {n \in 0 .. N : n >= 2 => ~h[n].ok}
  <2>1. 0 \in T
    BY <1>1
  <2>2. ASSUME NEW n \in 1 .. N, n - 1 \in T PROVE n \in T
    <3> SUFFICES ASSUME n >= 2, h[n].ok PROVE FALSE
      BY <1>1
    <3>1. h[n - 1].ok /\ h[n - 1].count = 0
      BY <1>5
    <3>2. n = 2
      BY <1>1, <2>2, <3>1
    <3>3. h[1].ok => h[1].count = 1
      BY <1>1, <1>5, <1>8
    <3> QED BY <3>1, <3>2, <3>3
  <2>3. ~h[N].ok
    <3> HIDE DEF T, N
    <3>1. \A n \in 0 .. N : n \in T
      BY <1>1, <2>1, <2>2, UpTo, Zenon
    <3> QED BY <1>1, <1>8, <3>1 DEF T
  <2>4. root # <<OurRoot>>
    BY <1>8
  <2> QED BY <1>2, <2>3, <2>4
<1> QED BY <1>1, <1>6, <1>7, <1>8

\* What the walks of a directory decide, for every directory.
LEMMA WalkIsExact ==
  ASSUME NEW d, Layout!Listed(d)
  PROVE  Agrees(Layout!Walk(d), d, Len(d.entries), Layout!InBuckets(d))
<1> DEFINE N    == Len(d.entries)
           root == Layout!FoldLeft(Layout!VisitsRoot, Layout!Start, d.root)
           from == [root EXCEPT !.ok = @ /\ root.count = 1, !.count = 0]
<1>1. /\ d.root \in Seq(Layout!RootEntries)
      /\ d.entries \in Seq(Layout!BucketEntries)
  BY DEF Layout!Listed
<1>2. /\ root \in Walks
      /\ root.ok /\ root.count = 1 <=>
           d.root = <<OurRoot>> /\ 1 <= MAX_INSPECTED_DIRECTORY_ENTRIES
      /\ root.ok /\ root.count = 1 => root.inspected = 1 /\ root.total = 0
  BY <1>1, RootWalk
<1>3. Layout!Walk(d) = Layout!FoldLeft(Layout!VisitsBucket, from, d.entries)
  BY DEF Layout!Walk
<1> HIDE DEF root
<1>4. /\ from \in Walks /\ from.count = 0
      /\ from.ok <=> root.ok /\ root.count = 1
      /\ from.inspected = root.inspected /\ from.total = root.total
  <2>1. (root.ok /\ root.count = 1) \in BOOLEAN
    OBVIOUS
  <2>2. from \in Walks
    BY <1>2, <2>1, Zenon DEF Walks
  <2>3. from.ok <=> root.ok /\ root.count = 1
    BY <1>2 DEF Walks
  <2>4. from.count = 0 /\ from.inspected = root.inspected /\ from.total = root.total
    BY <1>2 DEF Walks
  <2> QED BY <2>2, <2>3, <2>4
<1> HIDE DEF from
<1>5. N \in Nat /\ Upto(d, 0) = {}
  <2>1. \A at \in Layout!InBuckets(d) : at[1] \in Nat /\ at[1] >= 1
    BY <1>1 DEF Layout!InBuckets, Layout!Buckets
  <2> QED BY <1>1, <2>1 DEF Upto
<1>6. Agrees(from, d, 0, {})
  <2>1. Paid(d, {}) = {} /\ IsFiniteSet({}) /\ Cardinality({}) = 0
    BY FS_EmptySet DEF Paid
  <2>2. Fits(d, 0, {}) <=>
          d.root = <<OurRoot>> /\ 1 <= MAX_INSPECTED_DIRECTORY_ENTRIES
    BY <2>1 DEF Fits, OurRoot
  <2> QED BY <1>2, <1>4, <2>1, <2>2 DEF Agrees
<1>7. PICK h \in [0 .. N -> Walks] :
        /\ h[0] = from
        /\ \A n \in 1 .. N : h[n] = Layout!VisitsBucket(h[n - 1], d.entries[n])
        /\ h[N] = Layout!Walk(d)
  <2>1. from \in Walks
    BY <1>4
  <2>2. \E h \in [0 .. N -> Walks] :
          /\ h[0] = from
          /\ \A n \in 1 .. N : h[n] = Layout!VisitsBucket(h[n - 1], d.entries[n])
          /\ h[N] = Layout!FoldLeft(Layout!VisitsBucket, from, d.entries)
    BY <1>1, <2>1, FoldsBuckets
  <2> QED BY <1>3, <2>2
<1> DEFINE T == {n \in 0 .. N : Agrees(h[n], d, n, Upto(d, n))}
<1>8. 0 \in T
  <2>1. Agrees(h[0], d, 0, Upto(d, 0))
    BY <1>5, <1>6, <1>7
  <2>2. 0 \in 0 .. N
    BY <1>5
  <2> QED BY <2>1, <2>2
<1>9. ASSUME NEW n \in 1 .. N, n - 1 \in T PROVE n \in T
  <2>1. Agrees(h[n - 1], d, n - 1, Upto(d, n - 1)) /\ n \in 0 .. N
    BY <1>9
  <2>2. Agrees(Layout!VisitsBucket(h[n - 1], d.entries[n]), d, n, Upto(d, n))
    BY <1>1, <2>1, BucketStep
  <2> QED BY <1>7, <2>1, <2>2
<1>10. \A n \in 0 .. N : n \in T
  <2> HIDE DEF T, N
  <2> QED BY <1>5, <1>8, <1>9, UpTo, Zenon
<1>11. Agrees(h[N], d, N, Upto(d, N))
  BY <1>5, <1>10
<1>12. Upto(d, N) = Layout!InBuckets(d)
  <2>1. CASE N >= 1
    <3>1. 1 \in 1 .. N
      BY <1>5, <2>1
    <3> QED BY <1>1, <3>1, UptoNext
  <2>2. CASE N = 0
    <3>1. Layout!InBuckets(d) = {}
      BY <1>1, <2>2 DEF Layout!InBuckets, Layout!Buckets
    <3> QED BY <1>5, <2>2, <3>1
  <2> QED BY <1>5, <2>1, <2>2
<1> QED BY <1>7, <1>11, <1>12

(***************************************************************************)
(* validate_backup accepts a directory exactly when it is a finished       *)
(* backup of the device: with one budget over both walks and a limit on    *)
(* the payload, in whatever order the entries are listed, nothing else is  *)
(* accepted and none of these is refused (backup.py:278-347, 631-721).     *)
(***************************************************************************)
THEOREM VerdictIsExact ==
  ASSUME NEW d, Layout!Listed(d)
  PROVE  Layout!Validates(d) <=> Layout!Finished(d)
<1> DEFINE w == Layout!Walk(d)
           N == Len(d.entries)
           I == Layout!InBuckets(d)
<1>1. Agrees(w, d, N, I)
  BY WalkIsExact
<1>2. N \in Nat /\ DOMAIN d.entries = 1 .. N
  BY DEF Layout!Listed
<1>3. Layout!Payload(d) = Paid(d, I)
  BY DEF Layout!Payload, Paid, IsPayload
<1>4. \A S : Layout!Cardinality(S) = Cardinality(S)
  BY DEF Layout!Cardinality, Cardinality
<1> HIDE DEF w, N, I
<1>5. IsFiniteSet(I) /\ IsFiniteSet(Paid(d, I))
  BY <1>1, Cards DEF Agrees
<1>6. Cardinality(I) \in Nat /\ Cardinality(Paid(d, I)) \in Nat
  BY <1>5, Cards
<1>7. (\E at \in Paid(d, I) : Layout!FileAt(d, at).size > 0)
        => Cardinality(Paid(d, I)) > 0
  BY <1>5, <1>6, FS_EmptySet
<1>8. w.ok /\ w.count > 0 /\ w.total > 0 <=>
        Fits(d, N, I) /\ \E at \in Paid(d, I) : Layout!FileAt(d, at).size > 0
  BY <1>1, <1>6, <1>7 DEF Agrees
<1>9. (\A k \in Layout!Buckets(d) : d.entries[k].kind = "dir")
        <=> (\A k \in 1 .. N : d.entries[k].hex => d.entries[k].kind = "dir")
  BY <1>2 DEF Layout!Buckets
<1>10. d.root = <<[ours |-> TRUE, kind |-> "dir"]>> => Len(d.root) = 1
  OBVIOUS
<1>11. Layout!Finished(d) <=>
         /\ \A f \in Layout!Metadata : d.files[f] = "whole"
         /\ Layout!SaysFinished(d) /\ Fits(d, N, I)
         /\ \E at \in Paid(d, I) : Layout!FileAt(d, at).size > 0
  BY <1>3, <1>4, <1>9, <1>10 DEF Layout!Finished, Fits, I, N
<1> QED BY <1>8, <1>11 DEF Layout!Validates, w

\* Therefore the two sets of directories are one.
LEMMA AcceptedIsFinished == Accepted = Finished
  BY ListedAssumption, VerdictIsExact DEF Accepted, Finished

-----------------------------------------------------------------------------
(***************************************************************************)
(* Success, in the receipt or as exit, is of a finished backup that the    *)
(* device left in the directory of this command (backup.py:241, 268, 325;  *)
(* cli.py:443-452).                                                        *)
(***************************************************************************)
THEOREM SuccessIsTruthful == Spec => []TruthfulSuccess
<1>1. CommandInv => TruthfulSuccess
  BY AcceptedIsFinished
  DEF CommandInv, CommandTypeOK, EnableInv, VerdictInv, TruthfulSuccess, TypeOK
<1> QED BY <1>1, Invariance, PTL

(***************************************************************************)
(* validate_backup refuses no finished backup: BACKUP_VERIFY_FAILED means  *)
(* that something is wrong with what the device left (backup.py:278-339).  *)
(***************************************************************************)
THEOREM RefusalIsJustified == Spec => []RefusesOnlyUnfinished
<1>1. CommandInv => RefusesOnlyUnfinished
  BY AcceptedIsFinished DEF CommandInv, VerdictInv, RefusesOnlyUnfinished
<1> QED BY <1>1, Invariance, PTL
=============================================================================
