---------------------------- MODULE EvidenceChain ----------------------------
(***************************************************************************)
(* The chain of receipts behind a rehydration: a `backup create` receipt   *)
(* on disk, the command `backup verify` that binds its own receipt to it   *)
(* (src/ios_rehydrate/cli.py, backup_verify; receipts.py, read_receipt),   *)
(* and the gate of `app rehydrate` that reads that one.                    *)
(*                                                                         *)
(* Time passes between the steps, at the password prompt most of all;      *)
(* others may meanwhile replace the creation receipt and change the        *)
(* backup.  A digest stands for the whole receipt: no two share one.       *)
(***************************************************************************)
EXTENDS Naturals

CONSTANTS
  MAX_RECEIPT_AGE,         \* in ticks of the clock
  MAX_RECEIPT_FUTURE_SKEW, \* in ticks
  MaxClock,                \* bound: the clock
  MaxMeddling              \* bound: changes by others

ASSUME ClockAssumption ==
  /\ MAX_RECEIPT_AGE \in Nat \ {0} /\ MAX_RECEIPT_FUTURE_SKEW \in Nat
  /\ MaxClock \in Nat /\ MaxMeddling \in Nat

VARIABLES
  cli,      \* where backup verify is
  wanted,   \* --receipt was given
  bundle,   \* --bundle-id and --creation-receipt were given
  evidence, \* the reserved receipt, as in ReceiptContract
  started,  \* never: nothing is changed by this command
  reported, \* the reason it exits with
  creation, \* the creation receipt on disk
  content,  \* the backup on disk
  report,   \* the backup as validate_backup found it
  bound,    \* the creation receipt creation_digest was taken of
  recorded, \* the verification receipt written
  gated,    \* the gate of app rehydrate passed it, just now
  now,      \* the clock
  meddled   \* changes by others so far

Res == INSTANCE ReceiptContract

receiptVars == <<evidence, started, recorded>>
localVars   == <<report, bound>>
diskVars    == <<creation, content>>
worldVars   == <<diskVars, now, meddled>>
vars == <<cli, wanted, bundle, reported, gated, receiptVars, localVars,
          worldVars>>

Places == {"reserve", "identity", "validate", "bind", "probe", "rebind",
           "commit", "exit"}
Reasons == {"PENDING", "SUCCESS", "RECEIPT_RESERVATION_FAILED",
  "DEVICE_UNAVAILABLE", "BACKUP_VERIFY_FAILED", "BACKUP_RECEIPT_REFUSED",
  "BACKUP_CREATION_RECEIPT_CHANGED", "OPERATION_INTERRUPTED"}

\* The aggregates of the report, and whether the structure is valid.
Backups == [aggregates : {1, 2}, valid : BOOLEAN]
\* Aggregates 0: not a readable receipt of backup create.
CreationReceipts ==
  [aggregates : 0..2, created : 0..MaxClock, rest : {"a", "b"}]
NoReceipt == [kind |-> "none", created |-> 0]
Kinds == {"none", "backup-structure", "backup-verification"}

Init ==
  /\ cli = "reserve" /\ wanted \in BOOLEAN /\ bundle \in BOOLEAN
  /\ Res!Init /\ recorded = NoReceipt /\ reported = "PENDING"
  /\ creation \in {r \in CreationReceipts : r.rest = "a"}
  /\ content \in {b \in Backups : b.aggregates = 1}
  /\ report = content /\ bound = creation
  /\ gated = FALSE /\ now = 0 /\ meddled = 0
-----------------------------------------------------------------------------
\* read_receipt with max_age.
Fresh(created) ==
  /\ created <= now + MAX_RECEIPT_FUTURE_SKEW
  /\ created + MAX_RECEIPT_AGE >= now

Goto(place) == cli' = place /\ UNCHANGED <<reported, evidence, started>>

\* abort_on_pre_operation_failure, and main.
Fails(reason) ==
  /\ cli' = "exit" /\ reported' = reason
  /\ \/ ~wanted /\ UNCHANGED <<evidence, started>>
     \/ wanted /\ (Res!Remove \/ Res!Keep)

Step(place) ==
  /\ cli = place
  /\ UNCHANGED <<wanted, bundle, recorded, gated, worldVars>>

ReservesReceipt ==
  /\ Step("reserve") /\ UNCHANGED localVars
  /\ \/ ~wanted /\ Goto("identity")
     \/ wanted /\ Res!Reserve /\ cli' = "identity" /\ UNCHANGED reported
     \/ /\ wanted /\ cli' = "exit" /\ reported' = "RECEIPT_RESERVATION_FAILED"
        /\ UNCHANGED <<evidence, started>>

SelectsIdentity ==
  /\ Step("identity") /\ UNCHANGED localVars
  /\ Goto("validate") \/ Fails("DEVICE_UNAVAILABLE")

\* validate_backup; without an app there is nothing to bind.
ValidatesBackup ==
  /\ Step("validate") /\ UNCHANGED bound /\ report' = content
  /\ IF content.valid THEN Goto(IF bundle THEN "bind" ELSE "commit")
     ELSE Fails("BACKUP_VERIFY_FAILED")

\* _validate_backup_creation_receipt
CreationAccepted ==
  Fresh(creation.created) /\ creation.aggregates = report.aggregates

BindsCreation ==
  /\ Step("bind") /\ UNCHANGED report
  /\ IF CreationAccepted THEN Goto("probe") /\ bound' = creation
     ELSE Fails("BACKUP_RECEIPT_REFUSED") /\ UNCHANGED bound

\* The password prompt and the manifest database, read from the disk again.
ProbesManifest ==
  /\ Step("probe") /\ UNCHANGED localVars
  /\ \/ content.valid /\ Goto("rebind")
     \/ Fails("BACKUP_VERIFY_FAILED")

\* Mutant: the second look does not compare the digests.
RebindsAnyDigest ==
  /\ Step("rebind") /\ UNCHANGED localVars
  /\ IF CreationAccepted THEN Goto("commit") ELSE Fails("BACKUP_RECEIPT_REFUSED")

RebindsCreation ==
  /\ Step("rebind") /\ UNCHANGED localVars
  /\ IF ~CreationAccepted THEN Fails("BACKUP_RECEIPT_REFUSED")
     ELSE IF creation # bound
          THEN Fails("BACKUP_CREATION_RECEIPT_CHANGED")
          ELSE Goto("commit")

\* _finalize_optional_receipt: envelope stamps the time; a commit that fails
\* is only a warning, and a Ctrl-C in _emit is too late to undo it.
Commits ==
  /\ cli = "commit" /\ cli' = "exit"
  /\ reported' \in {"SUCCESS", "OPERATION_INTERRUPTED"}
  /\ \/ /\ wanted /\ Res!Write
        /\ recorded' = [kind |-> IF bundle THEN "backup-verification"
                                 ELSE "backup-structure",
                        created |-> now]
     \/ wanted /\ Res!Keep /\ UNCHANGED recorded
     \/ ~wanted /\ UNCHANGED receiptVars
  /\ UNCHANGED <<wanted, bundle, gated, localVars, worldVars>>

\* Ctrl-C anywhere in the try: nothing here runs on after it.
Interrupts ==
  /\ cli \notin {"reserve", "commit", "exit"} /\ Fails("OPERATION_INTERRUPTED")
  /\ UNCHANGED <<wanted, bundle, recorded, gated, localVars, worldVars>>
-----------------------------------------------------------------------------
(* The gate of app rehydrate                                               *)

\* Mutant: a receipt of any age passes.
GatesAnyAge ==
  /\ cli = "exit" /\ recorded.kind = "backup-verification" /\ gated' = TRUE
  /\ UNCHANGED <<cli, wanted, bundle, reported, receiptVars, localVars,
                 worldVars>>

\* _validate_backup_gate
Gates ==
  /\ cli = "exit" /\ recorded.kind = "backup-verification"
  /\ Fresh(recorded.created) /\ gated' = TRUE
  /\ UNCHANGED <<cli, wanted, bundle, reported, receiptVars, localVars,
                 worldVars>>
-----------------------------------------------------------------------------
(* The clock and others (external)                                         *)

\* Nothing waits between the second look and the commit.
Tick ==
  /\ now < MaxClock /\ cli # "commit" /\ now' = now + 1 /\ gated' = FALSE
  /\ UNCHANGED <<cli, wanted, bundle, reported, receiptVars, localVars,
                 diskVars, meddled>>

\* Nobody reads either file after the command.
Meddles ==
  /\ meddled < MaxMeddling /\ cli # "exit" /\ meddled' = meddled + 1
  /\ UNCHANGED <<cli, wanted, bundle, reported, gated, receiptVars, localVars,
                 now>>

ReplacesCreation ==
  Meddles /\ creation' \in CreationReceipts /\ UNCHANGED content

ChangesBackup == Meddles /\ content' \in Backups /\ UNCHANGED creation
-----------------------------------------------------------------------------
CliStep ==
  \/ ReservesReceipt \/ SelectsIdentity \/ ValidatesBackup \/ BindsCreation
  \/ ProbesManifest \/ RebindsCreation \/ Commits \/ Interrupts \/ Gates

Next == CliStep \/ Tick \/ ReplacesCreation \/ ChangesBackup

Spec == Init /\ [][Next]_vars
-----------------------------------------------------------------------------
TypeOK ==
  /\ cli \in Places /\ wanted \in BOOLEAN /\ bundle \in BOOLEAN
  /\ evidence \in {"absent", "reserved", "written", "kept", "removed"}
  /\ started = FALSE /\ reported \in Reasons
  /\ creation \in CreationReceipts /\ content \in Backups /\ report \in Backups
  /\ bound \in CreationReceipts
  /\ recorded \in [kind : Kinds, created : 0..MaxClock] /\ gated \in BOOLEAN
  /\ now \in 0..MaxClock /\ meddled \in 0..MaxMeddling

\* A verification receipt is only written of a backup whose creation receipt,
\* the one its digest names, was of age and described the backup validated
\* when it was written, however long the operator took over the password
\* (cli.py, backup_verify: the second _validate_backup_creation_receipt).
RecordsFreshCreation ==
  /\ TypeOK
  /\ recorded.kind = "backup-verification" =>
       /\ bound.aggregates = report.aggregates
       /\ bound.created <= recorded.created + MAX_RECEIPT_FUTURE_SKEW
       /\ recorded.created <= bound.created + MAX_RECEIPT_AGE

\* Whatever happens between the commands, app rehydrate is never let through
\* by a backup requested longer ago than the ages of the two receipts
\* together, nor by a verification that did not bind one (cli.py,
\* _validate_backup_gate; receipts.py, read_receipt).
SendsOnRecentBackup ==
  gated => bundle /\ now <= bound.created + 2 * MAX_RECEIPT_AGE
=============================================================================
