# iOS Rehydrate: a TLA+ verification of the program

iOS Rehydrate installs a user-supplied IPA over an existing placeholder or
demoted app on one connected device, with the `Upgrade` command of
`installation_proxy` and nothing else. Around that one mutation the program
keeps evidence: an encrypted full backup, receipts that bind the backup to the
device, and a result receipt that is reserved before any work and never removed
once the device may have changed. What makes this hard is not volume but
timing: the device acts on its own, every await may fail, time out or be
cancelled, Ctrl-C may be pressed anywhere, and the exit reason must still not
claim more than is known.

Paths below are relative to `src/src/ios_rehydrate/` unless they start with
`docs/` or `tests/`.

## 1. The system

| Component | State it keeps | Operations | Talks to |
| --- | --- | --- | --- |
| Rehydration operation (`upgrade.py`) | locals of `rehydrate_app`: errors, `send_boundary_crossed`, `staging_write_attempted`, `staging_removed`, the snapshot | preflight, staging, final check, send, shielded cleanup, bounded postflight | the device over AFC and installation_proxy; the caller through `on_mutation_boundary`; asyncio cancellation |
| Application inspection (`apps.py`) | none between calls; `candidates` and `malformed_exact_record` in the loop | `inspect_app` | the device's lookup service |
| Receipt writer (`receipts.py`) | descriptor, identity (device and inode number), `_operation_started`, `_committed` | reserve, mark started, commit, preserve, abort, read | the file system, which other programs use too |
| Command `app rehydrate` (`cli.py`) | the reservation, the reviewed backup digest, the close status | the whole command, the mutation boundary callback, the exit reason | operator (prompt, Ctrl-C), everything above |
| Commands `backup create`, `backup verify` (`cli.py`) | a reservation, an encryption report | prompts, enable, create, verify, bind the receipts | operator, `backup.py`, `receipts.py`, `manifest.py` |
| Backup operations (`backup.py`) | flags of the enable request and of the service; the scratch directory; the output directory | `enable_encryption`, `create_backup`, `validate_backup` | mobilebackup2 on the device, other hosts |
| Device link message loop (`safe_mobilebackup.py`) | open root, discarded files, link status | the message handlers, link open and close | the device's DLMessages, the file system |
| Device selection (`device.py`) | the lockdown session, `DeviceCloseStatus` | select, open, close | usbmux |
| IPA validation (`ipa.py`) | none | `validate_ipa` | one byte string |
| Manifest validation (`manifest.py`) | none | decrypt, probe | the backup directory |
| Privacy helpers (`privacy.py`), front end (`__main__.py`) | none | hashing, formatting | - |
| Release tooling (`scripts/`) | none | build-time checks of archives and text | - |

Which behaviours are hard, and the properties that make each component correct:

* **Rehydration**: cancellation or a timeout between the boundary and the
  device's answer; the device finishing after the host gave up; a target that
  changes while the package is staged; a cleanup that is interrupted or raises.
  Correct means: "not sent" is only said when no byte left, success only of a
  command the device completed, a leftover file is always mentioned, the send
  rests on a look at the target that was taken with the whole file staged, and
  the call ends.
* **Inspection**: misfiled, malformed and duplicate records in any order must
  make the lookup fail closed.
* **Receipts**: any other program between any two system calls; inode numbers
  that are given away again; partial writes; crashes. Correct means: files of
  others are left alone, evidence survives once the operation started, a
  committed receipt has all its bytes and is under its reserved name.
* **Command**: two Ctrl-C, blocking prompts inside the event loop, a backup
  receipt replaced or outdated during the prompt or between the look at it and
  the judgement. Correct means: the reviewed backup receipt was still there
  after the target was found eligible and is of age when the command leaves,
  evidence survives, the recorded and the reported outcome agree with what was
  sent.
* **Enable encryption**: the same timing hazards, with awaits that swallow
  cancellation, plus other hosts that change the setting.
* **Backup create**: two more places that swallow a Ctrl-C, and a directory the
  device fills by itself. Correct means: success is only said, and only
  recorded, of a finished and encrypted backup; a Ctrl-C before the request
  prevents it; evidence survives once anything changed; the command ends.
* **Message loop**: the device sends requests at will, the exchange breaks off
  anywhere, others plant links or replace the root between two awaits. Correct
  means: no request works through a link, no cut-off file is passed over, an
  answer of success is true of everything the request named.
* **IPA validation**: no timing, but an order somebody else chose: records,
  ranges and paths in any order, output that lags behind input in the
  decompressor. Correct means: the verdict is that of the set of members, and
  nothing is expanded before the limits are known to hold.
* **Backup verify and the gate**: a password prompt of unknown length between
  two looks at a receipt others may replace. Correct means: the receipt the
  recorded digest names was of age and described this backup when the record
  was written, and a rehydration rests on no older backup than the ages of the
  two receipts together.

`PROJECT.json` lists every hazard at its line with the properties that cover
it, or why none does.

## 2. The modules

| Module | Models | Correspondence |
| --- | --- | --- |
| `Apps` | one lookup answer and its verdict (`apps.py`, `_eligible_target`, `_postflight_matches`) | operators; an answer is a sequence of entries that say where they are filed, what they name and their record |
| `Lookup` | the loop of `inspect_app`, item by item | `candidates`, `malformed` are the code's variables; one action per branch |
| `Upgrade` | `rehydrate_app` against a device | `pc` is the await the coroutine is at; one action per outcome of an await; code between awaits is one step; `shown` is history: what a lookup would have been answered since the package lies on the device |
| `UpgradeContract` | the abstract specification of one rehydration | boundary, request, verdict |
| `Rehydrate` | the command `app rehydrate`, on top of `Upgrade` (INSTANCE on the same variables) and `ReceiptContract` | `cli` is the place in the command; Ctrl-C as `asyncio.run` handles it; a clock and the backup receipt on disk; `_validate_backup_gate` reads the file in one step (`read`) and judges what it read in another; `lain` is history: the receipts on disk since the second inspection |
| `Receipts` | one `ReceiptReservation`, per system call | `node`, `path` are the file system; `identity`, `descriptor`, `started`, `fate` the object |
| `ReceiptContract` | the abstract specification of a reservation | absent, reserved, then written, kept or removed |
| `Encryption` | `enable_encryption` with its service and link sessions | as `Upgrade`, with the awaits that swallow a cancellation |
| `BackupCreate` | the command `backup create` with `create_backup`, on top of `Encryption` (INSTANCE on the same variables) and `ReceiptContract` | `cli` is the await or prompt it is at; `output` is what is at `--output`, `content` what the device left in it; Ctrl-C as in `Rehydrate` |
| `BackupLayout` | `validate_backup`, `BackupCreate`'s last look at what the device left | operators; a directory is the record of its entries, in the order they are listed, and of what the metadata say; a walk carries the entry budget and the totals |
| `EvidenceChain` | the command `backup verify` between a creation receipt and the gate of `app rehydrate` | `cli` is the place in the command; `creation` and `content` are on disk, `bound` and `report` the command's own; a clock in ticks; a digest stands for the whole receipt |
| `DeviceLink` | one DeviceLink session: every request, one step per file or item | `op`, `count`, `asked` are the request; `tree` is what is beneath the root, as a function of paths; `stream` the file open for writing; `answer` the last status |
| `IpaArchive` | `validate_ipa`, stage by stage | an archive is the record of what its bytes and its property lists say; a path is its components as they are spelled, `Fold` gives the canonical form; `names`, `explicit`, `implicit` are the code's sets; `reason` the refusal |
| `Inflate` | the integrity check of one deflated payload, on the variables of `IpaArchive` | `cursor`, `pending`, `produced` are the code's; the decompressor is external: it takes in a byte before its output is delivered |
| `UpgradeProofs`, `LookupProofs`, `ReceiptsProofs`, `RehydrateProofs`, `BackupCreateProofs`, `EvidenceChainProofs`, `DeviceLinkProofs`, `IpaProofs` | theorems | section 5 |
| `MCLookup`, `MCUpgrade`, `MCReceipts`, `MCRehydrate`, `MCBackupCreate`, `MCDeviceLink`, `MCIpa` | values of the constants for TLC | |

**Cancellation.** `cancelling` says that a cancellation waits for delivery.
asyncio delivers it at the next suspension, so actions of awaits are guarded by
`At(label)` (nothing pending: the await may return or fail) or
`Cancelled(label)` (it raises `CancelledError`). Synchronous code, such as the
mutation boundary and the prompts, is neither: it goes on with a cancellation
pending. This is what makes the hazard of `upgrade.py:172` visible:
`TransmitsCommand` may happen with a cancellation pending, because the bytes
leave before the first suspension of `send_package`.

**Ctrl-C.** The first SIGINT cancels the main task. The second raises
`KeyboardInterrupt` out of the event loop, which cancels all tasks, the shielded
cleanup included, lets them finish and drops their results (`killed`). A SIGINT
while the prompt blocks is different again (`SecondSigintInStep`).

**The device.** It acts by itself: it creates the staged file before the write
returns, completes or rejects a command whenever it likes, also after the host
has given up, and shows the installed app later than it says Complete. Its user
may change the target (`AppDrifts`).

**The file system.** A number identifies a file only while the file has a name
or an open descriptor; `Settle` frees it otherwise and `CreatesFile` may reuse
it. The identity the code compares is that number.
Of what is in a file the code looks at the size only, so a file is `"same_size"`
when others had a part in it and it is as long as the receipt: `FstatAgrees` takes
it for whole, and so does `CommittedIsWhole`. Any look may also fail by an
`OSError`, which counts as a file that does not agree.

**The tree.** A path of `DeviceLink` has one or two names, and `<<>>` stands for
every spelling that is refused, so a request may name a file, a directory, what
is in it, or nothing at all. A handler is synchronous between its awaits, so
others act only while the host waits for a frame or a message (`Awaiting`). The
list of a request is chosen as it is used, which is the same for a request that
is carried out item by item. A file that has been replaced while it was open is
written on without a path (`stream = <<>>`).

**Archives.** A member is the sequence of the outputs of its compressed bytes:
`ending` is the byte at which the deflate stream ends, before, at or beyond the
end of the payload. That is as much of deflate as the check can tell apart. Two
paths collide when their components have the same canonical form (NFC and case
fold, `Fold`), while the app, its property lists and the other members an app
must have are looked up as they are spelled: `Payload/A.app` beside
`payload/B.app` is one app, and `Payload/A.app/info.plist` is not its
`Info.plist`. A property list is the record of what the checks find in it. The
reference `WellFormed` speaks of sets of bytes, of pairs of paths that are
`Alike`, and of what an app must have (`App`), without the order in which the code
meets them and without its helper sets.

**Composition.** `Rehydrate` runs the steps of `Upgrade` on shared variables and
decides its callback (`BoundaryAccepts`, `BoundaryRefuses`). It uses the
reservation through its contract (`Res!Start`, `Res!Keep`, ...), which the
property `ImplementsContract` of `Receipts` justifies: the contract is checked
against every interleaving with other programs, and the command only needs the
contract. `BackupCreate` uses `Encryption` and the contract in the same way, and
`EvidenceChain` the contract. Only the commands call each other through files:
`Rehydrate` starts from a backup receipt, `EvidenceChain` says what stands
behind one.

## 3. The runs

| Run | Question | Bounds |
| --- | --- | --- |
| `lookup` | Does the loop compute `InspectApp`, and fail closed, for every answer? | every answer of up to three entries |
| `upgrade` | Do the safety properties, the inductive invariant, the contract, the timeouts and termination hold of one rehydration? | 2 cancellations, 2 changes of the app, 3 postflight attempts, seven kinds of answer |
| `upgrade_cleanup` | Does a raising cleanup leave the outcome alone, as documented? No | no cancellation, no drift |
| `receipts` | Is nobody harmed and the contract kept with others between system calls? | 3 inode numbers, 3 steps of others |
| `receipts_unchanged` | Is only an unchanged reservation removed, as documented? No | as above |
| `rehydrate` | Does evidence survive, is the record true, does an early Ctrl-C prevent the send, does the send rest on the reviewed backup, still there and of age, is the contract kept, does the command end? | 2 Ctrl-C, a clock of 0..2 with age 1, 1 replaced receipt, 2 attempts |
| `rehydrate_sigint` | Does the exit reason say unknown after two Ctrl-C, as documented? No | 2 Ctrl-C |
| `backup_create` | Is what the enable request reports true, is a success one of a finished, encrypted backup and is only an unfinished one refused, does evidence survive, does an early Ctrl-C prevent the change, does the command end? | 2 Ctrl-C, 2 steps of others, 12 directories at or beside a limit of 10 entries and 2 payload files |
| `evidence_chain` | Which backup does a verification receipt vouch for, and how old can the one behind a rehydration be? | ages of 2 ticks, skew 1, a clock of 0..5, 2 changes by others |
| `device_link` | Is the host confined to its directory, is no cut-off file passed over, are the answers true? | 2 names, paths of up to 2, 2 items a request, 2 steps of others |
| `ipa` | Which archives are accepted, what is expanded before that is known, and does every step advance until there is a verdict? | a complete app of five members and archives that vary it in one respect, up to two more members, payloads of up to 4 bytes in chunks of 2 |
| `ipa_inflate` | Does every correct deflated member pass, as documented? No | as above |

`ImplementsContract` of `rehydrate` is about what the command ends with; the
exit reason is the same unless a second Ctrl-C left the event loop, which is
what `rehydrate_sigint` is about. `EnableIsTruthful` joins the four promises of
`enable_encryption`, which are parts of their own in `Encryption`.

Why these bounds are enough to be interesting:

* Two cancellations: one that is recorded or swallowed and another during the
  cleanup it causes. No code path counts further than "first" and "another".
* Two changes of the app: one between the two inspections, one during the
  postflight. Three attempts, as in the code, tell the first, a middle and
  the last apart.
* Three inode numbers: the reserved file, a replacement, and a fresh one while
  the descriptor still holds the first. Three steps of others: remove, create
  and write, or move away, create, and move back.
* A clock of three ticks with an age of one reaches a receipt from the future,
  a fresh one and a stale one, and staleness between the two gate checks.
* Two steps of others in `backup_create`: switch encryption off and on again, or
  one of them and a directory that appears at the output. Each directory differs
  from a finished backup in one respect, or lies at a limit: ten entries in two
  buckets pass and eleven do not, two payload files pass and three do not, and a
  file that is no payload follows the last one that is.
* In `evidence_chain` the clock passes twice the age, so that both receipts can
  use up theirs, and two changes replace the creation receipt and put it back.
* Two names and paths of two: a file, its directory, a sibling, and a path
  outside of both. Two items a request: one that fails before one that succeeds.
  Two steps of others: a link and a replaced root, or two links.
* In `ipa` each family varies one respect of a complete app of five members
  (paths, spellings and their order, ranges, payloads, sizes, the directory and
  the file, flags, what the property lists say) over all its small values. Up to
  two members more, in front, behind or around, show a path between two others
  and a second app; a missing member shows each requirement; a payload of four
  bytes crosses a chunk of two; sizes lie at and beside every limit.
* Three entries: a good record between two others, each of every kind.

Where the system really stops (`done`, `exit`, a session that `ended` or is
`dead`), deadlock is not an error, so the configurations switch that check off;
the liveness properties say instead that it only stops there.

### Fairness

* `Upgrade!TimedSpec` assumes that an await under `asyncio.timeout` or a sleep
  ends: the event loop runs and its timers fire. Nothing is assumed of the
  device. `TimedAwaitsEnd` uses only that.
* `Upgrade!Terminates` in addition assumes `TransportAnswers`: the awaits
  *without* a timeout (opening AFC, `makedirs`, the file write, the two closes)
  return or raise. The code has no bound there, so the assumption is stated in
  the property itself. The shielded cleanup has a timeout of its own.
* `Rehydrate!FairSpec` assumes that the command's steps are taken: that the
  transport answers or fails as above and that the operator answers the prompt.
* `BackupCreate!FairSpec` assumes the same of the steps of `backup create`.

Nothing is assumed of the steps of `DeviceLink`: the message loop has no timeout
of its own, so no liveness holds of it. `IpaArchive!FairSpec` assumes that the
next step of the archive check is taken: it is synchronous code over one byte
string in memory, which waits for nobody.

No fairness is assumed of device actions, of other programs or of Ctrl-C.

## 4. What the runs found

Four statements of the documentation do not hold of the code (`findings`):

1. `rehydrate_sigint`: with a second Ctrl-C after the send, the
   `OutcomeUnknownError` of the cancelled task is dropped with its result and
   the process exits with a plain interruption; `docs/THREAT_MODEL.md:53`
   promises "unknown". The evidence is preserved all the same
   (`SentEvidenceSurvives` holds with two Ctrl-C).
2. `upgrade_cleanup`: when the removal of the staged file raises after a send
   that returned, the outcome becomes unknown without a postflight;
   `docs/ARCHITECTURE.md:127-129` says the outcome is determined separately.
3. `receipts_unchanged`: `abort` compares identity, not content, so a
   reservation somebody wrote to is removed; `docs/ARCHITECTURE.md:139-140`
   says only an unchanged one is.
4. `ipa_inflate`: the check of a deflated payload calls the decompressor only
   while input is pending. When the last byte has been taken in and its output
   does not fit in one call, the rest is never asked for, and a correct member
   is refused with `IPA_ZIP_SIZE_MISMATCH`; `docs/ARCHITECTURE.md:105-107`
   says that a member passes whose decoding reaches its end with the declared
   size and CRC. With zlib itself this happens to highly compressible members
   whose size is just above a multiple of the chunk of 64 KiB. It is a refusal
   of something correct, never the reverse: `AcceptsExactly` holds.

One more holds with an exception that `LeavesOthersAlone` names: `receipts.py:115`
promises that `abort` removes "never a replacement". It closes the descriptor
before it compares a second time, so the file system may have given the number of
a reservation others removed in between to their new file, which then compares
equal and is unlinked. With another number nothing of others is ever touched.

## 5. What is proved

For every value of the constants (any set of answers, names and directories, any
number of attempts, cancellations, ticks and steps of others), TLAPS checks:

| Module | Theorems | States |
| --- | --- | --- |
| `UpgradeProofs` | `TypeCorrect`, `Invariance`, `RefusalIsTruthful`, `CompletionIsTruthful`, `LeftoverIsReported`, `SendIsChecked`, `KeepsContract` | every safety property of the run `upgrade`, and the step simulation of `UpgradeContract` |
| `LookupProofs` | `TypeCorrect`, `LoopSummary`, `LoopComputesInspectApp`, `LookupFailsClosed` | the loop computes `InspectApp` and fails closed, for answers of any length |
| `ReceiptsProofs` | `TypeCorrect`, `StartedSurvives`, `CommitIsWhole`, `OthersAreLeftAlone`, `KeepsContract` | every property of the run `receipts`, and the step simulation of `ReceiptContract` |
| `RehydrateProofs` | `SentSurvives`, `RecordIsTruthful`, `EarlyInterrupt`, `SendIsReviewed`, `KeepsContract` | every safety property of the run `rehydrate`; the command, too, implements `UpgradeContract` |
| `BackupCreateProofs` | `EnableTruthful`, `ChangeSurvives`, `EarlyInterrupt`, `VerdictIsExact`, `SuccessIsTruthful`, `RefusalIsJustified` | every safety property of the run `backup_create`; what `validate_backup` accepts |
| `EvidenceChainProofs` | `RecordIsFresh`, `BackupIsRecent` | both properties of the run `evidence_chain` |
| `DeviceLinkProofs` | `SessionIsSafe`, `StaysConfined`, `AnswersTruthfully` | all properties of the run `device_link` |
| `IpaProofs` | `IpaInvariance`, `AcceptsExactlyHolds`, `ExpandsOnlyBoundedHolds`, `AdvancesHolds` | every safety property of the run `ipa`: what `validate_ipa` accepts, for every archive, and that each step advances |

None of the safety properties is inductive. What each needs besides:

**Upgrade.** That "not sent" is truthful depends on a flag set one step before
the bytes leave, read after three more awaits. `Inv` has a part for each link of
that chain: `BoundaryInv` (the flag covers every byte that left), `SendInv`
(leaving the send without an error means the device reported completion),
`VerdictInv` (each class of reason agrees with the flag and the command),
`StagingInv` (a file on the device was attempted and not removed; between the
final check and the send the whole file is there, and the snapshot kept is of an
answer the device had while it was) and `AttemptsLeft`. The proof
has one lemma per group of actions.

**Lookup.** `LoopInv` says that `candidates` and `malformed` summarise exactly
the items before `index`. The loop is a state machine, so no induction over data
is needed; `InspectApp` of the whole answer follows when `index` passes its end.

**Receipts.** `ReservationInv` has `PathInv` (the path names a file that counts
it), `DescriptorInv` (a held descriptor is of our own file, and where the code
holds one) and `AbortInv` (the ways to `unlink` are left behind once the
operation has started). It holds with others acting anywhere; the identity,
evidence survival and the contract need nothing else. `CommitIsWhole` and
`OthersAreLeftAlone` add `CommitWindowInv` and `AbortWindowInv`: what the last
comparison found is still so at the next system call. They assume that others
leave the path alone there: from the `fstat` after the write to the close
(`CommitWindow \subseteq Quiet`), and at the `unlink`
(`AbortWindow \subseteq Quiet`). The second comparison of `abort` is in no such
window: the number may be given away before it.

**Rehydrate.** `CommandInv` repeats the parts of the invariant of `Upgrade` that
speak of the boundary, the send and the verdict (`CallInv`), because a second
Ctrl-C and the command's own callback add steps to the call, and adds
`OutcomeInv` (before the call nothing has happened to it, after it the outcome is
its), `EvidenceInv` (the reservation is marked exactly when the boundary is
crossed, and kept then), `RecordInv` and `EarlyInv` (an early Ctrl-C is still
pending, past the prompt that blocks too, or was seen). `SendIsReviewed` needs
`ReviewInv` besides: what the boundary has read lay on disk after the second
inspection, and is the reviewed receipt, of age, when the bytes leave one step
later.

**BackupCreate.** `EnableInv` is about `enable_encryption` alone: `UnsentInv`
(the flags of the request cover what the device got), `PasswordInv`, `SessionsInv`
and `ScratchInv`. `CommandInv` adds the command around it: `BeforeInv`,
`EvidenceInv`, `VerdictInv` and `EarlyInv`.

What `SuccessIsTruthful` and `RefusalIsJustified` say of the directory rests on
`VerdictIsExact`: `validate_backup`, which walks the directory in the order it is
listed with one budget and stops at the first refusal, accepts it exactly when it
is a finished backup by a definition that has no order in it. It is proved for
every directory of the shape `Listed` and every pair of limits. A walk is a
`FoldLeft`; `Least` and `UpTo` reduce induction over the natural numbers to the
library's theorem on well-founded relations, `Recursion` and `Unfolds` turn a fold
into the sequence of its intermediate values (`FoldsFiles`, `FoldsBuckets`,
`FoldsRoot`), and `Agrees` is the invariant along it: the walk is refused exactly
when what it has seen does not fit, and its counts are exact until then
(`FileStep`, `BucketStep`, `RootWalk`, `WalkIsExact`).

**EvidenceChain.** `CommitInv` says that what the second look found is still so
when the receipt is written, `RecordInv` that the record carries it, and
`GateInv` that the record the gate passed on is of age.

**DeviceLink.** `SessionInv` adds to `LinkInv` that a file received is the one
cut off in the tree as long as it has a path (`StreamInv`), and that a request
has sent, reported or removed everything it has named so far (`ProgressInv`). The
lemmas about trees (`PuttingIsSafe`, `ParentsAreSafe`, `RemovingIsSafe`,
`CopyingIsSafe`) say that each change of the disk keeps nothing beneath anything
but a directory; `RemovingKeeps`, `MovingKeeps`, `CopyableKeeps` that it keeps
the links when the guards of its handler hold. They rest on `Above`, `Beneath`
and `OriginBeneath`, the facts about prefixes of paths of one or two names.

**IPA.** `AcceptsExactly` compares a program that meets records, ranges and
paths in the order of the directory with a reference that knows no order.
`IpaInv` says how far the two agree at each stage. `DirectoryInv`, `BoundsInv`
and `PayloadInv` say that the part of `WellFormed` each stage checks holds of
the members before `index`; `ShapeInv` that `names`, `explicit` and `implicit`
are the sets of the paths taken so far and that these are a tree; `InflateInv`
that what the decompressor took in is free of faults and expands to no less than
was delivered, within the declared size or, just before the refusal, a byte
beyond it; `VerdictInv` that a refusal has a reason in the reference. Three
lemmas carry it: `RangesAreDisjoint` (comparing each member with the next one in
order of offsets finds what comparing all pairs of sets of bytes finds,
descriptors of two lengths included), `ClashesAre` (comparing a path with
`names`, `explicit.files` and `implicit` finds what comparing it with every
other path finds) and `AppIs` (one root with all required members is one app).
The program compares canonical names, the reference the paths as they are
spelled; `CanonicalIs`, `SameForm`, `AlikeIs` and `TreeIs` say that the two come
to the same. What the bytes of a payload expand to is a recursive function, so
`OutputsGrow` shows first that there is one such function and that it grows;
`Call` says what one call of the decompressor takes in and delivers. From it
follows `NeverIdles`: the guard of `ipa.py:560` against a call that does neither
is never what refuses an archive. `AdvancesHolds` rests on it: each step leads
to a later stage, to the next member, or to more bytes fed, taken in or
delivered. These measures are bounded in `IpaInv`, which is why the check ends;
that it does (`Terminates`) is liveness and stays with TLC.

**Assumptions.** Only the named assumptions of the modules: an archive is any
record of the shape `ArchiveType` with a unit of the directory for each record,
`Fold` maps path components to path components, a chunk is not empty, answers are
sequences of entries, there is at least one attempt, bounds and limits are
natural numbers, `Directories` is a finite list of directories of the shape
`Listed` (what `scandir` and `stat` return), and the hypotheses of `CommitIsWhole`
and `OthersAreLeftAlone`. TLC checked each inductive invariant on its run
before it was proved.

**Only model-checked.** Every invariant and action property of a passing run is
stated by a theorem, and so is every refinement (the contracts state no
fairness). Liveness (`TimedAwaitsEnd`, `Terminates`) is out of the prover's reach.

## 6. What is not modelled

* A Ctrl-C during the report phase (after `asyncio.run`, while the receipt is
  written), and inside synchronous steps other than the gate, the prompt and
  the boundary.
* The window between the last comparison of `abort` and its `unlink`, and from
  the last `fstat` of `commit` to its close: no system call closes it on POSIX.
  The constant `Quiet` of `Receipts` names the labels at which others wait, and
  no others. The step from `lstat` to `rmdir` of the scratch directory is one
  step of `Encryption`; `rmdir` itself refuses a directory with something in it.
* `write_new_receipt`, which no command calls.
* A Ctrl-C between the reservation of a receipt and the `try` or `asyncio.run`
  after it; the reserved file stays, as after a crash.
* In `EvidenceChain`, `validate_backup` and the manifest probe are steps that
  accept or refuse (`BackupLayout` says what the first accepts). They read the
  directory twice; nothing in the code ties the two readings together (a hazard
  without a property).
* Time between the second look of `backup verify` at the creation receipt and
  the time stamp of its own: no wait lies between, so the clock of
  `EvidenceChain` does not tick there.
* Symbolic links and reparse points at receipts and backups: the code refuses
  them at every check, like a replaced file, and the models have the replaced
  file. In `DeviceLink` they are planted.
* Of the message loop: the list of discarded files (no caller passes a filter,
  so it stays empty); spellings that name one file (case-insensitive or
  normalising file systems); special files; the numeric limits of one frame,
  text or message, which are among the reasons to break off; windows between
  two system calls of one handler, where nothing awaits.
* Of the archive check: the layout of headers in bytes, and the ZIP64 end record
  (an archive that needs it has the same fields); `zipfile`, which reads again
  what the preflight read; the formats of names, versions and identifiers and the
  decoding of property lists, which are verdicts in the record of the archive.
  Refusals that no property tells apart share a reason.
* Device selection: a pure choice from one listing, and one comparison of the
  opened identity with the selected one; opening is a step of the commands.
* The manifest key material, decryption and database query: pure functions of
  bytes that have been read.
* The contents of lookups other than type, placeholder, demotion and version;
  disk usage; everything that is formatting.
* Parsing of property lists and SQLite.
* The release scripts.

## 7. Plan

1. Done: `Apps`, `Lookup`, `Upgrade`, `Receipts`, `Rehydrate`, `Encryption`,
   `BackupCreate` with `BackupLayout`, `EvidenceChain`, `DeviceLink`, `IpaArchive`
   with `Inflate`, and the theorems of section 5, which cover every safety
   property of every passing run.
2. The structure of the key bag and the entry loop of the manifest query,
   against a reference definition, as `Lookup` does it for the inspection.
