----------------------------- MODULE BackupLayout -----------------------------
(***************************************************************************)
(* validate_backup (src/ios_rehydrate/backup.py): the directory a backup   *)
(* left, read once in the order the file system lists it.                  *)
(*                                                                         *)
(* A directory is the record of its root entries (in order), of the four   *)
(* metadata files, of what they say, and of the entries of the device      *)
(* directory (in order) with the files of each.  A file that is hashed has *)
(* a name of forty digits; own says that it is in the bucket of its first  *)
(* two.  Every refusal is one: no reason is told apart.                    *)
(***************************************************************************)
EXTENDS Integers, FiniteSets, SequencesExt

CONSTANTS MAX_INSPECTED_DIRECTORY_ENTRIES, MAX_HASHED_PAYLOAD_COUNT

\* What scandir and lstat return of an entry.
Kinds         == {"dir", "file", "link", "other"}
RootEntries   == [ours : BOOLEAN, kind : Kinds]
FileEntries   == [kind : Kinds, hashed : BOOLEAN, own : BOOLEAN, size : Nat]
BucketEntries == [hex : BOOLEAN, kind : Kinds, files : Seq(FileEntries)]
Listed(d) == d.root \in Seq(RootEntries) /\ d.entries \in Seq(BucketEntries)

Metadata == {"Info.plist", "Manifest.plist", "Status.plist", "Manifest.db"}

\* Where a walk of the directory is; it ends at the first refusal.
Start == [ok |-> TRUE, inspected |-> 0, count |-> 0, total |-> 0]
Refused(walk) == [walk EXCEPT !.ok = FALSE]

\* _DirectoryEntryBudget.consume
Consumes(walk) ==
  [walk EXCEPT !.inspected = @ + 1,
               !.ok = @ /\ walk.inspected < MAX_INSPECTED_DIRECTORY_ENTRIES]

\* _exact_device_directory: count is 1 once the directory was seen.
VisitsRoot(walk, entry) ==
  LET seen == Consumes(walk) IN
  IF ~walk.ok THEN walk
  ELSE IF seen.ok /\ walk.count = 0 /\ entry.ours /\ entry.kind = "dir"
       THEN [seen EXCEPT !.count = 1] ELSE Refused(seen)

\* Mutant: the limit is tested before the files that are not payload are
\* left out.
VisitsFileCountingAll(walk, file) ==
  LET seen == Consumes(walk) IN
  IF ~walk.ok THEN walk
  ELSE IF \/ ~seen.ok \/ file.kind = "link"
          \/ walk.count >= MAX_HASHED_PAYLOAD_COUNT THEN Refused(seen)
  ELSE IF file.kind # "file" \/ ~file.hashed \/ ~file.own THEN seen
  ELSE [seen EXCEPT !.count = @ + 1, !.total = @ + file.size]

VisitsFile(walk, file) ==
  LET seen == Consumes(walk) IN
  IF ~walk.ok THEN walk
  ELSE IF ~seen.ok \/ file.kind = "link" THEN Refused(seen)
  ELSE IF file.kind # "file" \/ ~file.hashed \/ ~file.own THEN seen
  ELSE IF walk.count >= MAX_HASHED_PAYLOAD_COUNT THEN Refused(seen)
  ELSE [seen EXCEPT !.count = @ + 1, !.total = @ + file.size]

\* Mutant: every bucket has a budget of its own.
VisitsBucketAnew(walk, bucket) ==
  LET seen == Consumes(walk) IN
  IF ~walk.ok THEN walk
  ELSE IF ~bucket.hex THEN seen
  ELSE IF ~seen.ok \/ bucket.kind # "dir" THEN Refused(seen)
  ELSE [FoldLeft(VisitsFile, [seen EXCEPT !.inspected = 0], bucket.files)
          EXCEPT !.inspected = seen.inspected]

\* An entry whose name is not of two digits is only counted.
VisitsBucket(walk, bucket) ==
  LET seen == Consumes(walk) IN
  IF ~walk.ok THEN walk
  ELSE IF ~bucket.hex THEN seen
  ELSE IF ~seen.ok \/ bucket.kind # "dir" THEN Refused(seen)
  ELSE FoldLeft(VisitsFile, seen, bucket.files)

\* One budget for both walks.
Walk(d) ==
  LET root == FoldLeft(VisitsRoot, Start, d.root) IN
  FoldLeft(VisitsBucket, [root EXCEPT !.ok = @ /\ root.count = 1, !.count = 0],
           d.entries)

\* What the property lists say; IsFullBackup is FALSE in a finished backup.
SaysFinished(d) ==
  /\ d.encrypted /\ d.identifiers = "ours"
  /\ d.snapshot = "finished" /\ d.backup = "new" /\ ~d.full

Validates(d) ==
  LET walk == Walk(d) IN
  /\ \A f \in Metadata : d.files[f] = "whole"
  /\ SaysFinished(d)
  /\ walk.ok /\ walk.count > 0 /\ walk.total > 0
-----------------------------------------------------------------------------
(* The reference: what a finished backup of this device is                 *)

Buckets(d) == {k \in DOMAIN d.entries : d.entries[k].hex}
InBuckets(d) ==
  UNION {{<<k, n>> : n \in DOMAIN d.entries[k].files} : k \in Buckets(d)}
FileAt(d, at) == d.entries[at[1]].files[at[2]]
Payload(d) ==
  {at \in InBuckets(d) :
     FileAt(d, at).kind = "file" /\ FileAt(d, at).hashed /\ FileAt(d, at).own}

Finished(d) ==
  /\ d.root = <<[ours |-> TRUE, kind |-> "dir"]>>
  /\ \A f \in Metadata : d.files[f] = "whole"
  /\ SaysFinished(d)
  /\ \A k \in Buckets(d) : d.entries[k].kind = "dir"
  /\ \A at \in InBuckets(d) : FileAt(d, at).kind # "link"
  /\ Len(d.root) + Len(d.entries) + Cardinality(InBuckets(d))
       <= MAX_INSPECTED_DIRECTORY_ENTRIES
  /\ Cardinality(Payload(d)) <= MAX_HASHED_PAYLOAD_COUNT
  /\ \E at \in Payload(d) : FileAt(d, at).size > 0
=============================================================================
