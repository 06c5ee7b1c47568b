-------------------------- MODULE EvidenceChainProofs --------------------------
(***************************************************************************)
(* Theorems about the chain of receipts, for every age, skew and clock and *)
(* any number of changes by others.                                        *)
(***************************************************************************)
EXTENDS EvidenceChain, TLAPS

USE ClockAssumption DEF ClockAssumption

\* bound agrees with report and was of age at the given time.
BoundAt(time) ==
  /\ bound.aggregates = report.aggregates
  /\ bound.created <= time + MAX_RECEIPT_FUTURE_SKEW
  /\ time <= bound.created + MAX_RECEIPT_AGE

\* What the second look found is still so when the receipt is written: no time
\* passes in between, and what others do to the disk does not matter any more.
CommitInv == cli = "commit" /\ bundle => BoundAt(now)

RecordInv ==
  /\ recorded.kind # "none" => cli = "exit"
  /\ recorded.kind = "backup-verification" => bundle /\ BoundAt(recorded.created)

GateInv ==
  gated => /\ recorded.kind = "backup-verification"
           /\ now <= recorded.created + MAX_RECEIPT_AGE

ChainInv == TypeOK /\ CommitInv /\ RecordInv /\ GateInv
-----------------------------------------------------------------------------
LEMMA FailsType ==
  ASSUME TypeOK, NEW reason \in Reasons, Fails(reason)
  PROVE  /\ cli' = "exit" /\ reported' \in Reasons
         /\ evidence' \in {"absent", "reserved", "written", "kept", "removed"}
         /\ started' = started
BY DEF TypeOK, Fails, Res!Remove, Res!Keep

LEMMA InitialInv == Init => ChainInv
<1> SUFFICES ASSUME Init PROVE ChainInv
  OBVIOUS
<1>1. recorded \in [kind : Kinds, created : 0..MaxClock]
  BY DEF Init, NoReceipt, Kinds
<1>2. now \in 0..MaxClock /\ meddled \in 0..MaxMeddling
  BY DEF Init
<1>3. cli \in Places /\ reported \in Reasons
  BY DEF Init, Places, Reasons
<1>4. TypeOK
  BY <1>1, <1>2, <1>3 DEF Init, Res!Init, TypeOK
<1>5. CommitInv /\ RecordInv /\ GateInv
  BY DEF Init, CommitInv, RecordInv, GateInv, NoReceipt
<1> QED BY <1>4, <1>5 DEF ChainInv

LEMMA NextTypeOK == TypeOK /\ [Next]_vars => TypeOK'
<1> SUFFICES ASSUME TypeOK, [Next]_vars PROVE TypeOK'
  OBVIOUS
<1> USE DEF TypeOK, Step, Goto, worldVars, diskVars, receiptVars, localVars
<1>p. {"identity", "validate", "bind", "probe", "rebind", "commit", "exit"}
        \subseteq Places
  BY DEF Places
<1>r. {"SUCCESS", "RECEIPT_RESERVATION_FAILED", "DEVICE_UNAVAILABLE",
       "BACKUP_VERIFY_FAILED", "BACKUP_RECEIPT_REFUSED",
       "BACKUP_CREATION_RECEIPT_CHANGED", "OPERATION_INTERRUPTED"}
        \subseteq Reasons
  BY DEF Reasons
<1>1. CASE ReservesReceipt
  BY <1>1, <1>p, <1>r DEF ReservesReceipt, Res!Reserve
<1>2. CASE SelectsIdentity
  BY <1>2, <1>p, <1>r, FailsType DEF SelectsIdentity
<1>3. CASE ValidatesBackup
  BY <1>3, <1>p, <1>r, FailsType DEF ValidatesBackup
<1>4. CASE BindsCreation
  BY <1>4, <1>p, <1>r, FailsType DEF BindsCreation
<1>5. CASE ProbesManifest
  BY <1>5, <1>p, <1>r, FailsType DEF ProbesManifest
<1>6. CASE RebindsCreation
  BY <1>6, <1>p, <1>r, FailsType DEF RebindsCreation
<1>7. CASE Commits
  BY <1>7, <1>p, <1>r DEF Commits, Res!Write, Res!Keep, Kinds
<1>8. CASE Interrupts
  BY <1>8, <1>p, <1>r, FailsType DEF Interrupts
<1>9. CASE Gates
  BY <1>9 DEF Gates
<1>10. CASE Tick
  <2>1. now' \in 0..MaxClock
    BY <1>10 DEF Tick
  <2> QED BY <1>10, <2>1 DEF Tick
<1>11. CASE ReplacesCreation
  BY <1>11 DEF ReplacesCreation, Meddles
<1>12. CASE ChangesBackup
  BY <1>12 DEF ChangesBackup, Meddles
<1>13. CASE UNCHANGED vars
  BY <1>13 DEF vars
<1> QED
  BY <1>1, <1>2, <1>3, <1>4, <1>5, <1>6, <1>7, <1>8, <1>9, <1>10, <1>11,
     <1>12, <1>13 DEF Next, CliStep

LEMMA NextInv == ChainInv /\ [Next]_vars => (CommitInv /\ RecordInv /\ GateInv)'
<1> SUFFICES ASSUME ChainInv, [Next]_vars
             PROVE  (CommitInv /\ RecordInv /\ GateInv)'
  OBVIOUS
<1> USE DEF ChainInv, CommitInv, RecordInv, GateInv, BoundAt, Step, Goto, Fails,
            worldVars, diskVars, receiptVars, localVars
<1>t. /\ now \in Nat /\ now' \in Nat
      /\ bound.created \in Nat /\ recorded.created \in Nat
      /\ creation.created \in Nat
  BY NextTypeOK DEF TypeOK, CreationReceipts
<1>1. CASE ReservesReceipt
  BY <1>1 DEF ReservesReceipt
<1>2. CASE SelectsIdentity
  BY <1>2 DEF SelectsIdentity
<1>3. CASE ValidatesBackup
  BY <1>3 DEF ValidatesBackup
<1>4. CASE BindsCreation
  BY <1>4 DEF BindsCreation
<1>5. CASE ProbesManifest
  BY <1>5 DEF ProbesManifest
<1>6. CASE RebindsCreation
  BY <1>6, <1>t DEF RebindsCreation, CreationAccepted, Fresh
<1>7. CASE Commits
  BY <1>7 DEF Commits
<1>8. CASE Interrupts
  BY <1>8 DEF Interrupts
<1>9. CASE Gates
  BY <1>9, <1>t DEF Gates, Fresh
<1>10. CASE Tick
  BY <1>10 DEF Tick
<1>11. CASE ReplacesCreation
  BY <1>11 DEF ReplacesCreation, Meddles
<1>12. CASE ChangesBackup
  BY <1>12 DEF ChangesBackup, Meddles
<1>13. CASE UNCHANGED vars
  BY <1>13 DEF vars
<1> QED
  BY <1>1, <1>2, <1>3, <1>4, <1>5, <1>6, <1>7, <1>8, <1>9, <1>10, <1>11,
     <1>12, <1>13 DEF Next, CliStep

LEMMA Invariance == Spec => []ChainInv
BY InitialInv, NextTypeOK, NextInv, PTL DEF Spec, ChainInv
-----------------------------------------------------------------------------
(***************************************************************************)
(* A verification receipt names a creation receipt that was of age and     *)
(* described the validated backup when it was written (cli.py:527-545).    *)
(***************************************************************************)
THEOREM RecordIsFresh == Spec => []RecordsFreshCreation
<1>1. ChainInv => RecordsFreshCreation
  BY DEF ChainInv, RecordInv, BoundAt, RecordsFreshCreation
<1> QED BY <1>1, Invariance, PTL

(***************************************************************************)
(* The gate never passes a backup older than the two ages together         *)
(* (cli.py:225-262).                                                       *)
(***************************************************************************)
THEOREM BackupIsRecent == Spec => []SendsOnRecentBackup
<1>1. ChainInv => SendsOnRecentBackup
  <2> SUFFICES ASSUME ChainInv, gated
               PROVE  bundle /\ now <= bound.created + 2 * MAX_RECEIPT_AGE
    BY DEF SendsOnRecentBackup
  <2>1. /\ bundle /\ recorded.created <= bound.created + MAX_RECEIPT_AGE
        /\ now <= recorded.created + MAX_RECEIPT_AGE
    BY DEF ChainInv, GateInv, RecordInv, BoundAt
  <2>2. now \in Nat /\ bound.created \in Nat /\ recorded.created \in Nat
    BY DEF ChainInv, TypeOK, CreationReceipts
  <2> QED BY <2>1, <2>2
<1> QED BY <1>1, Invariance, PTL
=============================================================================
