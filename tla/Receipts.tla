------------------------------ MODULE Receipts ------------------------------
(***************************************************************************)
(* The life of one ReceiptReservation (src/ios_rehydrate/receipts.py) on a *)
(* file system other programs use too.                                     *)
(*                                                                         *)
(* One step of the host is one system call, so that others may act between *)
(* any two.  A file is known by its inode number, which the file system    *)
(* gives away again once the file has no name and no open descriptor: the  *)
(* identity the code compares is that number, not the file.                *)
(***************************************************************************)
EXTENDS Naturals

CONSTANTS
  Inodes,      \* inode numbers
  NoInode,     \* what a path without a file names
  Quiet,       \* labels at which others leave the path alone
  MaxMeddling  \* bound: steps of others

ASSUME InodesAssumption == NoInode \notin Inodes
ASSUME MeddlingAssumption == MaxMeddling \in Nat

VARIABLES
  node,       \* the file behind each inode number
  path,       \* the inode the reserved path names
  identity,   \* _identity
  descriptor, \* _descriptor is not None, and the descriptor is open
  started,    \* _operation_started
  fate,       \* of the reserved file; "written" is _committed
  pc,         \* the next system call
  meddled     \* steps of others so far

hostVars == <<identity, descriptor, started, fate, pc>>
fsVars   == <<node, path>>
vars     == <<fsVars, hostVars, meddled>>

Labels == {"open", "new_fstat", "new_lstat", "held", "mark_fstat",
           "mark_lstat", "commit_fstat", "commit_lstat", "write", "fsync",
           "post_fstat", "post_lstat", "close", "preserve", "abort_lstat",
           "abort_close", "abort_recheck", "unlink", "done"}

\* The receipt's own bytes, or bytes others had a part in: as many of them as
\* the receipt has, or another number.
Contents == {"empty", "partial", "whole", "same_size", "foreign"}
Files == [owner : {"free", "ours", "theirs"}, content : Contents,
          links : 0..2]
Free == [owner |-> "free", content |-> "empty", links |-> 0]

Init ==
  /\ \E taken \in {{}} \cup {{i} : i \in Inodes} :
       /\ node = [i \in Inodes |->
                    IF i \in taken
                    THEN [owner |-> "theirs", content |-> "foreign", links |-> 1]
                    ELSE Free]
       /\ path \in IF taken = {} THEN {NoInode} ELSE taken
  /\ identity = NoInode /\ descriptor = FALSE /\ started = FALSE
  /\ fate = "reserved"
  /\ pc = "open" /\ meddled = 0
-----------------------------------------------------------------------------
(* The file system                                                         *)

Ours == IF identity = NoInode THEN Free ELSE node[identity]

\* A file without names lives as long as a descriptor is open on it.
Settle(f, held) == IF f.links = 0 /\ ~held THEN Free ELSE f
Unnamed(f) == [f EXCEPT !.links = @ - 1]
Drop(i, held) == [node EXCEPT ![i] = Settle(Unnamed(@), held)]
Held(i) == descriptor /\ i = identity

\* Mutant: _descriptor is not reset.
ClosesWithoutReset ==
  /\ node' = IF descriptor THEN [node EXCEPT ![identity] = Settle(@, FALSE)]
             ELSE node
  /\ UNCHANGED descriptor

\* os.close of the reserved descriptor.
ClosesDescriptor ==
  /\ descriptor' = FALSE
  /\ node' = IF descriptor THEN [node EXCEPT ![identity] = Settle(@, FALSE)]
             ELSE node

\* _assert_identity: fstat of the descriptor, then lstat of the path.  It knows
\* what is in the file by the size only.
Sized(size) == IF size = "whole" THEN {"whole", "same_size"} ELSE {size}
FstatAgrees(size) == Ours.links = 1 /\ Ours.content \in Sized(size)
\* Mutant: any file at the path will do.
PathExists == path # NoInode

MatchesReservedPath == path = identity

Goes(label, next) ==
  /\ pc = label /\ pc' = next
  /\ fate' = IF pc' = "done" THEN "kept" ELSE fate
  /\ UNCHANGED <<fsVars, identity, descriptor, started, meddled>>

\* A system call that raises OSError counts as a file that does not agree.
Checks(label, agrees, next, otherwise) ==
  \/ agrees /\ Goes(label, next)
  \/ Goes(label, otherwise)
-----------------------------------------------------------------------------
(* reserve_receipt                                                         *)

Reserves ==
  /\ pc = "open" /\ path = NoInode
  /\ \E i \in Inodes :
       /\ node[i] = Free
       /\ node' = [node EXCEPT ![i] =
                     [owner |-> "ours", content |-> "empty", links |-> 1]]
       /\ path' = i /\ identity' = i
  /\ descriptor' = TRUE /\ pc' = "new_fstat"
  /\ UNCHANGED <<started, fate, meddled>>

RefusesExisting ==
  /\ pc = "open" /\ path # NoInode /\ pc' = "done"
  /\ UNCHANGED <<fsVars, identity, descriptor, started, fate, meddled>>

ChecksNew ==
  \/ Checks("new_fstat", FstatAgrees("empty"), "new_lstat", "abort_lstat")
  \/ Checks("new_lstat", MatchesReservedPath, "held", "abort_lstat")
-----------------------------------------------------------------------------
(* mark_operation_started, and the failure of the operation                *)

BeginsMark == Goes("held", "mark_fstat")

\* The flag stays when a second call finds the reservation changed.
MarkFails == IF started THEN "preserve" ELSE "abort_lstat"

ChecksMark ==
  \/ Checks("mark_fstat", FstatAgrees("empty"), "mark_lstat", MarkFails)
  \/ Goes("mark_lstat", MarkFails)

MarksStarted ==
  /\ pc = "mark_lstat" /\ MatchesReservedPath
  /\ started' = TRUE /\ pc' = "held"
  /\ UNCHANGED <<fsVars, identity, descriptor, fate, meddled>>

\* Mutant: every failure of the operation aborts the reservation.
OperationFailsAborting == Goes("held", "abort_lstat")

\* abort_on_pre_operation_failure
OperationFails == Goes("held", MarkFails)
-----------------------------------------------------------------------------
(* commit                                                                  *)

BeginsCommit == Goes("held", "commit_fstat")

ChecksBeforeWrite ==
  \/ FstatAgrees("empty") /\ Goes("commit_fstat", "commit_lstat")
  \/ MatchesReservedPath /\ Goes("commit_lstat", "write")

\* One os.write: what others left in the file may stay beside what is written.
Mixed ==
  CASE Ours.content = "foreign"   -> {"foreign", "same_size"}
    [] Ours.content = "same_size" -> {"same_size"}
    [] OTHER                      -> {}
ShortWrite == IF Mixed = {} THEN {"partial"} ELSE Mixed
LastWrite == Mixed \cup {"whole"}

Writes ==
  /\ pc = "write" /\ pc' \in {"write", "fsync"}
  /\ \E content \in IF pc' = "fsync" THEN LastWrite ELSE ShortWrite :
       node' = [node EXCEPT ![identity].content = content]
  /\ UNCHANGED <<path, identity, descriptor, started, fate, meddled>>

Syncs == Goes("fsync", "post_fstat")

\* Mutant: the descriptor is not looked at again after the write.
ChecksPathAfterWrite ==
  \/ Goes("post_fstat", "post_lstat")
  \/ MatchesReservedPath /\ Goes("post_lstat", "close")

ChecksAfterWrite ==
  \/ FstatAgrees("whole") /\ Goes("post_fstat", "post_lstat")
  \/ MatchesReservedPath /\ Goes("post_lstat", "close")

Commits ==
  /\ pc = "close" /\ ClosesDescriptor
  /\ fate' = "written" /\ pc' = "done"
  /\ UNCHANGED <<path, identity, started, meddled>>

\* A system call of commit raises OSError, or an identity check fails: the
\* callers in cli.py preserve the reservation (_finalize_optional_receipt).
CommitFails ==
  /\ pc \in {"commit_fstat", "commit_lstat", "write", "fsync", "post_fstat",
             "post_lstat", "close"}
  /\ ClosesDescriptor
  /\ pc' = "preserve"
  /\ UNCHANGED <<path, identity, started, fate, meddled>>

Preserves ==
  /\ pc = "preserve" /\ ClosesDescriptor /\ pc' = "done" /\ fate' = "kept"
  /\ UNCHANGED <<path, identity, started, meddled>>
-----------------------------------------------------------------------------
(* abort: compare, close, compare again, unlink                            *)

ChecksBeforeAbort ==
  \/ Checks("abort_lstat", MatchesReservedPath, "abort_close", "preserve")
  \/ Checks("abort_recheck", MatchesReservedPath, "unlink", "done")

ClosesToAbort ==
  /\ pc = "abort_close" /\ ClosesDescriptor /\ pc' = "abort_recheck"
  /\ UNCHANGED <<path, identity, started, fate, meddled>>

Unlinks ==
  /\ pc = "unlink" /\ path # NoInode
  /\ node' = Drop(path, FALSE) /\ path' = NoInode
  /\ pc' = "done" /\ fate' = "removed"
  /\ UNCHANGED <<identity, descriptor, started, meddled>>

UnlinkFails == Goes("unlink", "done")

\* A crash, or a KeyboardInterrupt nobody handles: the file stays as it is.
Dies ==
  /\ pc \notin {"open", "done"} /\ ClosesDescriptor
  /\ pc' = "done" /\ fate' = "kept"
  /\ UNCHANGED <<path, identity, started, meddled>>
-----------------------------------------------------------------------------
(* Others (external)                                                       *)

Meddles ==
  /\ meddled < MaxMeddling /\ meddled' = meddled + 1 /\ pc \notin Quiet
  /\ UNCHANGED hostVars

RemovesPath ==
  /\ Meddles /\ path # NoInode
  /\ node' = Drop(path, Held(path)) /\ path' = NoInode

MovesAway == Meddles /\ path # NoInode /\ path' = NoInode /\ UNCHANGED node

MovesBack ==
  /\ Meddles /\ path = NoInode
  /\ identity # NoInode /\ Ours.owner = "ours" /\ Ours.links > 0
  /\ path' = identity /\ UNCHANGED node

CreatesFile ==
  /\ Meddles /\ path = NoInode
  /\ \E i \in Inodes :
       /\ node[i] = Free /\ path' = i
       /\ node' = [node EXCEPT ![i] =
                     [owner |-> "theirs", content |-> "foreign", links |-> 1]]

Links ==
  /\ Meddles /\ path # NoInode /\ node[path].links < 2
  /\ node' = [node EXCEPT ![path].links = @ + 1] /\ UNCHANGED path

\* What others write does not empty the file and is not the receipt itself.
WritesFile ==
  /\ Meddles /\ path # NoInode
  /\ \E content \in {"foreign", "same_size"} :
       node' = [node EXCEPT ![path].content = content]
  /\ UNCHANGED path
-----------------------------------------------------------------------------
HostStep ==
  \/ Reserves \/ RefusesExisting \/ ChecksNew
  \/ BeginsMark \/ ChecksMark \/ MarksStarted \/ OperationFails
  \/ BeginsCommit \/ ChecksBeforeWrite \/ Writes \/ Syncs \/ ChecksAfterWrite
  \/ Commits \/ CommitFails \/ Preserves
  \/ ChecksBeforeAbort \/ ClosesToAbort \/ Unlinks \/ UnlinkFails \/ Dies

OthersStep ==
  \/ RemovesPath \/ MovesAway \/ MovesBack \/ CreatesFile \/ Links
  \/ WritesFile

Next == HostStep \/ OthersStep

Spec == Init /\ [][Next]_vars
-----------------------------------------------------------------------------
TypeOK ==
  /\ node \in [Inodes -> Files] /\ path \in Inodes \cup {NoInode}
  /\ identity \in Inodes \cup {NoInode} /\ descriptor \in BOOLEAN
  /\ started \in BOOLEAN /\ fate \in {"reserved", "written", "kept", "removed"}
  /\ pc \in Labels /\ meddled \in 0..MaxMeddling

\* receipts.py:115, 201: whatever others put at the path, before or after the
\* reservation, the host neither writes nor truncates nor removes it, with one
\* exception: once abort has closed the descriptor, the file system may give the
\* reserved file's number to a new file, and the comparison at line 120 takes
\* that one for the reservation.  Nothing under another number is ever touched.
LeavesOthersAlone ==
  [][HostStep => \A i \in Inodes :
       node[i].owner = "theirs" /\ node'[i] # node[i] =>
         Unlinks /\ ~descriptor /\ i = identity]_vars

\* receipts.py:62: once the operation may have changed the device, no later
\* failure of it makes the host remove the evidence.
StartedEvidenceSurvives == [][Unlinks => ~started]_vars

\* commit only succeeds with the reserved file under its one reserved name and
\* as many bytes in it as the receipt has, however others touched the file while
\* it was written (receipts.py:89-99).  Which bytes, the code does not look at.
CommittedIsWhole ==
  [][Commits => path = identity /\ FstatAgrees("whole")]_vars

\* While the reservation is held its inode number names its file: a path that
\* compares equal to the identity is the reserved file, not a new one.
IdentityIsTheFile ==
  /\ TypeOK
  /\ descriptor => Ours.owner = "ours"

\* docs/ARCHITECTURE.md:139-140: "A pre-operation failure removes only an
\* unchanged reservation."
RemovesOnlyUnchanged == [][Unlinks => node[path].content = "empty"]_vars
-----------------------------------------------------------------------------
Contract == INSTANCE ReceiptContract WITH
  evidence <- IF identity = NoInode THEN "absent" ELSE fate

\* The reservation keeps its contract, whatever others do to the file system.
ImplementsContract == Contract!Spec
=============================================================================
