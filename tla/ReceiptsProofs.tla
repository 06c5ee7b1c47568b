---------------------------- MODULE ReceiptsProofs ----------------------------
(***************************************************************************)
(* Theorems about one ReceiptReservation, for any set of inode numbers and *)
(* any number of steps of others.  What depends on the windows no system   *)
(* call can close says so: others are quiet there.                         *)
(***************************************************************************)
EXTENDS Receipts, TLAPS

USE InodesAssumption, MeddlingAssumption DEF InodesAssumption, MeddlingAssumption

\* A path names a file that counts it.
PathInv == path # NoInode => node[path].links > 0

\* What is known in the last windows, as long as others keep out of them.
AbortWindow == {"unlink"}
CommitWindow == {"post_lstat", "close"}

\* Where the reservation must still have its descriptor.
Holding == Labels \ {"open", "preserve", "abort_recheck", "unlink", "done"}

DescriptorInv ==
  /\ descriptor => Ours.owner = "ours"
  /\ pc \in Holding => descriptor
  /\ pc \in {"abort_recheck", "unlink"} => ~descriptor
  /\ pc = "open" => identity = NoInode /\ ~descriptor /\ ~started
  /\ pc \notin {"open", "done"} => identity # NoInode
  /\ pc # "done" => fate = "reserved"

\* The ways to abort are left behind once the operation has started.
AbortInv ==
  pc \in {"new_fstat", "new_lstat", "abort_lstat", "abort_close",
          "abort_recheck", "unlink"} => ~started

ReservationInv == TypeOK /\ PathInv /\ DescriptorInv /\ AbortInv

AbortWindowInv == pc \in AbortWindow => path = identity
CommitWindowInv ==
  /\ pc \in CommitWindow => FstatAgrees("whole")
  /\ pc = "close" => path = identity
-----------------------------------------------------------------------------
(* Operators on files                                                      *)

\* Dropping a name, or a descriptor, of one file leaves a file behind.
LEMMA SettleType ==
  ASSUME NEW f \in Files, NEW held \in BOOLEAN
  PROVE  Settle(f, held) \in Files
BY DEF Settle, Free, Files, Contents

LEMMA DropType ==
  ASSUME TypeOK, NEW i \in Inodes, node[i].links > 0, NEW held \in BOOLEAN
  PROVE  /\ Drop(i, held) \in [Inodes -> Files]
         /\ \A j \in Inodes \ {i} : Drop(i, held)[j] = node[j]
         /\ held => Drop(i, held)[i].owner = node[i].owner
<1> DEFINE f == Unnamed(node[i])
<1>1. f \in Files /\ f.owner = node[i].owner
  BY DEF TypeOK, Files, Unnamed
<1>2. Drop(i, held) = [node EXCEPT ![i] = Settle(f, held)]
  BY DEF Drop
<1>3. Settle(f, held) \in Files /\ (held => Settle(f, held) = f)
  BY <1>1, SettleType DEF Settle
<1> HIDE DEF f
<1> QED BY <1>1, <1>2, <1>3 DEF TypeOK

\* Closing the descriptor changes no file but one of ours.
LEMMA ClosesType ==
  ASSUME TypeOK, PathInv, DescriptorInv, ClosesDescriptor
  PROVE  /\ node' \in [Inodes -> Files] /\ descriptor' = FALSE
         /\ \A i \in Inodes : node[i].owner = "theirs" => node'[i] = node[i]
         /\ \A i \in Inodes : node[i].links > 0 => node'[i] = node[i]
<1>1. CASE ~descriptor
  BY <1>1 DEF ClosesDescriptor, TypeOK
<1>2. CASE descriptor
  <2>1. identity \in Inodes /\ node[identity].owner = "ours"
    BY <1>2 DEF DescriptorInv, TypeOK, Ours, Free
  <2>2. node[identity] \in Files
    BY <2>1 DEF TypeOK
  <2>3. Settle(node[identity], FALSE) \in Files
    BY <2>2, SettleType
  <2>4. node[identity].links > 0 => Settle(node[identity], FALSE) = node[identity]
    BY <2>2 DEF Settle, Files
  <2>5. node' = [node EXCEPT ![identity] = Settle(node[identity], FALSE)]
    BY <1>2 DEF ClosesDescriptor
  <2> QED BY <2>1, <2>3, <2>4, <2>5 DEF TypeOK, ClosesDescriptor
<1> QED BY <1>1, <1>2 DEF TypeOK
-----------------------------------------------------------------------------
LEMMA InitialInv ==
  Init => ReservationInv /\ AbortWindowInv /\ CommitWindowInv
<1> SUFFICES ASSUME Init
             PROVE  ReservationInv /\ AbortWindowInv /\ CommitWindowInv
  OBVIOUS
<1>1. PICK taken \in {{}} \cup {{i} : i \in Inodes} :
        /\ node = [i \in Inodes |->
             IF i \in taken
             THEN [owner |-> "theirs", content |-> "foreign", links |-> 1]
             ELSE Free]
        /\ path \in IF taken = {} THEN {NoInode} ELSE taken
  BY DEF Init
<1>2. node \in [Inodes -> Files]
  BY <1>1 DEF Files, Free, Contents
<1>3. path \in Inodes \cup {NoInode} /\ PathInv
  BY <1>1 DEF PathInv
<1>4. pc = "open" /\ pc \in Labels /\ meddled \in 0..MaxMeddling
  BY DEF Init, Labels
<1> QED
  BY <1>2, <1>3, <1>4
  DEF Init, ReservationInv, TypeOK, DescriptorInv, AbortInv, Holding,
      AbortWindowInv, CommitWindowInv, AbortWindow, CommitWindow

\* A comparison, whatever its outcome, moves the host on and nothing else.
LEMMA ChecksInv ==
  ASSUME ReservationInv,
         \/ ChecksNew \/ BeginsMark \/ ChecksMark \/ OperationFails
         \/ BeginsCommit \/ ChecksBeforeWrite \/ Syncs \/ ChecksAfterWrite
         \/ ChecksBeforeAbort \/ UnlinkFails
  PROVE  /\ ReservationInv'
         /\ UNCHANGED <<fsVars, identity, descriptor, started, meddled>>
<1> USE DEF Checks, Goes, MarkFails, hostVars, fsVars, ReservationInv, TypeOK, PathInv, DescriptorInv,
            AbortInv, AbortWindow, Holding, Labels, Ours
<1>1. CASE ChecksNew
  BY <1>1 DEF ChecksNew
<1>2. CASE BeginsMark
  BY <1>2 DEF BeginsMark
<1>3. CASE ChecksMark
  BY <1>3 DEF ChecksMark
<1>4. CASE OperationFails
  BY <1>4 DEF OperationFails
<1>5. CASE BeginsCommit
  BY <1>5 DEF BeginsCommit
<1>6. CASE ChecksBeforeWrite
  BY <1>6 DEF ChecksBeforeWrite
<1>7. CASE Syncs
  BY <1>7 DEF Syncs
<1>8. CASE ChecksAfterWrite
  BY <1>8 DEF ChecksAfterWrite
<1>9. CASE ChecksBeforeAbort
  BY <1>9 DEF ChecksBeforeAbort
<1>10. CASE UnlinkFails
  BY <1>10 DEF UnlinkFails
<1> QED BY <1>1, <1>2, <1>3, <1>4, <1>5, <1>6, <1>7, <1>8, <1>9, <1>10

\* Closing the descriptor, on the way to a place that does not need it.
LEMMA ClosingInv ==
  ASSUME ReservationInv, ClosesDescriptor,
         UNCHANGED <<path, identity, started, meddled>>,
         pc # "open", pc' \in Labels \ (Holding \cup {"open"}),
         fate' \in {"written", "kept"} \/ UNCHANGED fate,
         pc' # "done" => pc # "done" /\ UNCHANGED fate,
         pc' \in {"abort_recheck", "unlink"} => pc = "abort_close"
  PROVE  ReservationInv'
<1>1. TypeOK'
  BY ClosesType DEF ReservationInv, TypeOK
<1>2. PathInv'
  BY ClosesType DEF ReservationInv, PathInv, TypeOK
<1>3. DescriptorInv'
  BY DEF ReservationInv, DescriptorInv, ClosesDescriptor
<1>4. AbortInv'
  BY DEF ReservationInv, AbortInv, AbortWindow, Holding, Labels
<1> QED BY <1>1, <1>2, <1>3, <1>4 DEF ReservationInv

LEMMA HostInv == ReservationInv /\ HostStep => ReservationInv'
<1> SUFFICES ASSUME ReservationInv, HostStep PROVE ReservationInv'
  OBVIOUS
<1> USE DEF ReservationInv, fsVars
<1>1. CASE Reserves
  <2>1. PICK i \in Inodes :
          /\ node[i] = Free /\ path' = i /\ identity' = i
          /\ node' = [node EXCEPT ![i] =
                        [owner |-> "ours", content |-> "empty", links |-> 1]]
    BY <1>1 DEF Reserves
  <2>2. [owner |-> "ours", content |-> "empty", links |-> 1] \in Files
    BY DEF Files, Contents
  <2> QED
    BY <1>1, <2>1, <2>2
    DEF Reserves, TypeOK, PathInv, DescriptorInv, AbortInv, AbortWindow,
        Holding, Labels, Ours
<1>2. CASE RefusesExisting
  BY <1>2
  DEF RefusesExisting, TypeOK, PathInv, DescriptorInv, AbortInv, AbortWindow,
      Holding, Labels, Ours
<1>3. CASE MarksStarted
  BY <1>3
  DEF MarksStarted, TypeOK, PathInv, DescriptorInv, AbortInv, AbortWindow,
      Holding, Labels, Ours
<1>4. CASE Writes
  <2>1. PICK content \in Contents :
          node' = [node EXCEPT ![identity].content = content]
    BY <1>4 DEF Writes, ShortWrite, LastWrite, Mixed, Contents
  <2>2. pc = "write" /\ identity \in Inodes
    BY <1>4 DEF Writes, DescriptorInv, TypeOK
  <2>3. node'[identity].content \in Contents
        /\ node'[identity].owner = node[identity].owner
        /\ node'[identity].links = node[identity].links
        /\ node'[identity] \in Files
    BY <2>1, <2>2 DEF TypeOK, Files, Contents
  <2>4. \A j \in Inodes \ {identity} : node'[j] = node[j]
    BY <2>1, <2>2 DEF TypeOK
  <2>5. node' \in [Inodes -> Files]
    BY <2>1, <2>3, <2>4 DEF TypeOK
  <2>6. TypeOK'
    BY <1>4, <2>5 DEF Writes, TypeOK, Labels
  <2>7. PathInv'
    BY <1>4, <2>3, <2>4 DEF Writes, PathInv, TypeOK
  <2> QED
    BY <1>4, <2>2, <2>3, <2>6, <2>7
    DEF Writes, DescriptorInv, AbortInv, AbortWindow, Holding, Labels, Ours
<1>5. CASE Commits \/ CommitFails \/ Preserves \/ ClosesToAbort \/ Dies
  <2>1. /\ ClosesDescriptor /\ UNCHANGED <<path, identity, started, meddled>>
        /\ pc # "open" /\ pc' \in {"preserve", "abort_recheck", "done"}
        /\ fate' \in {"written", "kept"} \/ UNCHANGED fate
        /\ pc' # "done" => pc # "done" /\ UNCHANGED fate
        /\ pc' = "abort_recheck" => pc = "abort_close"
    BY <1>5 DEF Commits, CommitFails, Preserves, ClosesToAbort, Dies
  <2>2. pc' \in Labels \ (Holding \cup {"open"})
        /\ (pc' \in {"abort_recheck", "unlink"} => pc = "abort_close")
    BY <2>1 DEF Labels, Holding, AbortWindow
  <2> QED BY <2>1, <2>2, ClosingInv DEF TypeOK
<1>6. CASE Unlinks
  <2>1. ~descriptor /\ path \in Inodes /\ node[path].links > 0
    BY <1>6 DEF Unlinks, DescriptorInv, AbortWindow, TypeOK, PathInv
  <2>2. Drop(path, FALSE) \in [Inodes -> Files]
    BY <2>1, DropType
  <2> QED
    BY <1>6, <2>1, <2>2
    DEF Unlinks, TypeOK, PathInv, DescriptorInv, AbortInv, AbortWindow,
        Holding, Labels
<1> QED BY <1>1, <1>2, <1>3, <1>4, <1>5, <1>6, ChecksInv DEF HostStep

LEMMA OthersInv == ReservationInv /\ OthersStep => ReservationInv'
<1> SUFFICES ASSUME ReservationInv, OthersStep PROVE ReservationInv'
  OBVIOUS
<1> USE DEF ReservationInv, hostVars
<1>1. UNCHANGED hostVars /\ AbortInv' /\ meddled' \in 0..MaxMeddling
  BY DEF OthersStep, RemovesPath, MovesAway, MovesBack, CreatesFile, Links,
         WritesFile, Meddles, AbortInv, TypeOK
<1>2. SUFFICES /\ node' \in [Inodes -> Files] /\ path' \in Inodes \cup {NoInode}
               /\ PathInv'
               /\ descriptor /\ identity # NoInode =>
                    node'[identity].owner = node[identity].owner
  BY <1>1 DEF TypeOK, DescriptorInv, Ours, Free
<1>3. CASE RemovesPath
  <2>1. path \in Inodes /\ node[path].links > 0 /\ Held(path) \in BOOLEAN
    BY <1>3 DEF RemovesPath, TypeOK, PathInv, Held
  <2>2. /\ Drop(path, Held(path)) \in [Inodes -> Files]
        /\ \A j \in Inodes \ {path} : Drop(path, Held(path))[j] = node[j]
        /\ Held(path) => Drop(path, Held(path))[path].owner = node[path].owner
    BY <2>1, DropType
  <2> QED BY <1>3, <2>1, <2>2 DEF RemovesPath, PathInv, Held, TypeOK
<1>4. CASE MovesAway
  BY <1>4 DEF MovesAway, TypeOK, PathInv
<1>5. CASE MovesBack
  BY <1>5 DEF MovesBack, TypeOK, PathInv, Ours
<1>6. CASE CreatesFile
  <2>1. PICK i \in Inodes :
          /\ node[i] = Free /\ path' = i
          /\ node' = [node EXCEPT ![i] =
                [owner |-> "theirs", content |-> "foreign", links |-> 1]]
    BY <1>6 DEF CreatesFile
  <2>2. [owner |-> "theirs", content |-> "foreign", links |-> 1] \in Files
    BY DEF Files, Contents
  <2>3. descriptor /\ identity # NoInode => identity # i
    BY <2>1 DEF DescriptorInv, Ours, Free
  <2> QED BY <2>1, <2>2, <2>3 DEF TypeOK, PathInv
<1>7. CASE Links
  <2>1. path \in Inodes /\ node[path] \in Files /\ node[path].links < 2
    BY <1>7 DEF Links, TypeOK
  <2>2. [node[path] EXCEPT !.links = @ + 1] \in Files
    BY <2>1 DEF Files
  <2> QED BY <1>7, <2>1, <2>2 DEF Links, TypeOK, PathInv, Files
<1>8. CASE WritesFile
  <2>1. path \in Inodes /\ node[path] \in Files
    BY <1>8 DEF WritesFile, TypeOK
  <2>2. PICK content \in {"foreign", "same_size"} :
          node' = [node EXCEPT ![path].content = content]
    BY <1>8 DEF WritesFile
  <2>3. [node[path] EXCEPT !.content = content] \in Files
    BY <2>1 DEF Files, Contents
  <2> QED BY <1>8, <2>1, <2>2, <2>3 DEF WritesFile, TypeOK, PathInv, Files
<1> QED BY <1>3, <1>4, <1>5, <1>6, <1>7, <1>8 DEF OthersStep

LEMMA NextInv == ReservationInv /\ [Next]_vars => ReservationInv'
<1>1. ReservationInv /\ UNCHANGED vars => ReservationInv'
  BY DEF vars, fsVars, hostVars, ReservationInv, TypeOK, PathInv, DescriptorInv,
         AbortInv, Ours
<1> QED BY <1>1, HostInv, OthersInv DEF Next

LEMMA Invariance == Spec => []ReservationInv
BY InitialInv, NextInv, PTL DEF Spec
-----------------------------------------------------------------------------
(* The windows, as long as others keep out of them                         *)

\* What the last comparison of abort found still holds at the unlink.
LEMMA AbortWindowStep ==
  AbortWindow \subseteq Quiet =>
    (ReservationInv /\ AbortWindowInv /\ [Next]_vars => AbortWindowInv')
<1> SUFFICES ASSUME AbortWindow \subseteq Quiet, ReservationInv, AbortWindowInv,
                    [Next]_vars, pc' = "unlink"
             PROVE  path' = identity'
  BY DEF AbortWindowInv, AbortWindow
<1> USE DEF AbortWindow, AbortWindowInv
<1>1. CASE ChecksBeforeAbort
  BY <1>1 DEF ChecksBeforeAbort, Checks, Goes, MatchesReservedPath, fsVars
<1>2. CASE OthersStep
  BY <1>2 DEF OthersStep, RemovesPath, MovesAway, MovesBack, CreatesFile, Links,
              WritesFile, Meddles, hostVars
<1>3. CASE UNCHANGED vars
  BY <1>3 DEF vars, fsVars, hostVars
<1>4. CASE HostStep /\ ~ChecksBeforeAbort
  BY <1>4
  DEF HostStep, Reserves, RefusesExisting, ChecksNew, BeginsMark, ChecksMark,
      MarksStarted, OperationFails, BeginsCommit, ChecksBeforeWrite, Writes,
      Syncs, ChecksAfterWrite, Commits, CommitFails, Preserves, ClosesToAbort,
      Unlinks, UnlinkFails, Dies, Checks, Goes, MarkFails
<1> QED BY <1>1, <1>2, <1>3, <1>4 DEF Next

\* What the comparisons after the write found still holds at the close.
LEMMA CommitWindowStep ==
  CommitWindow \subseteq Quiet =>
    (ReservationInv /\ CommitWindowInv /\ [Next]_vars => CommitWindowInv')
<1> SUFFICES ASSUME CommitWindow \subseteq Quiet, ReservationInv,
                    CommitWindowInv, [Next]_vars, pc' \in CommitWindow
             PROVE  CommitWindowInv'
  BY DEF CommitWindowInv, CommitWindow
<1> USE DEF CommitWindow, CommitWindowInv
<1>1. CASE ChecksAfterWrite
  BY <1>1 DEF ChecksAfterWrite, Goes, MatchesReservedPath, FstatAgrees, Ours,
              fsVars
<1>2. CASE OthersStep
  BY <1>2 DEF OthersStep, RemovesPath, MovesAway, MovesBack, CreatesFile, Links,
              WritesFile, Meddles, hostVars
<1>3. CASE UNCHANGED vars
  BY <1>3 DEF vars, fsVars, hostVars, FstatAgrees, Ours
<1>4. CASE HostStep /\ ~ChecksAfterWrite
  BY <1>4
  DEF HostStep, Reserves, RefusesExisting, ChecksNew, BeginsMark, ChecksMark,
      MarksStarted, OperationFails, BeginsCommit, ChecksBeforeWrite, Writes,
      Syncs, Commits, CommitFails, Preserves, ChecksBeforeAbort, ClosesToAbort,
      Unlinks, UnlinkFails, Dies, Checks, Goes, MarkFails
<1> QED BY <1>1, <1>2, <1>3, <1>4 DEF Next
-----------------------------------------------------------------------------
(***************************************************************************)
(* While the reservation is held, its inode number names its own file      *)
(* (receipts.py:62, 89, 118: the comparisons by st_dev and st_ino).        *)
(***************************************************************************)
THEOREM TypeCorrect == Spec => []IdentityIsTheFile
<1>1. ReservationInv => IdentityIsTheFile
  BY DEF ReservationInv, DescriptorInv, IdentityIsTheFile
<1> QED BY <1>1, Invariance, PTL

(***************************************************************************)
(* Once the operation may have changed the device, nothing on the way to   *)
(* the end of the reservation removes it (receipts.py:62-66, 107-112).     *)
(***************************************************************************)
THEOREM StartedSurvives == Spec => StartedEvidenceSurvives
<1>1. ReservationInv => [Unlinks => ~started]_vars
  BY DEF ReservationInv, AbortInv, Unlinks
<1> QED BY <1>1, Invariance, PTL DEF StartedEvidenceSurvives

(***************************************************************************)
(* commit only succeeds with the reserved file under its one reserved name *)
(* and as many bytes in it as the receipt has (receipts.py:89-99), when    *)
(* others leave the path alone from the fstat after the write to the close;*)
(* before it they may act between any two system calls.                    *)
(***************************************************************************)
THEOREM CommitIsWhole ==
  ASSUME CommitWindow \subseteq Quiet
  PROVE  Spec => CommittedIsWhole
<1>1. Init => CommitWindowInv
  BY InitialInv
<1>2. ReservationInv /\ CommitWindowInv /\ [Next]_vars => CommitWindowInv'
  BY CommitWindowStep
<1>3. CommitWindowInv => [Commits => path = identity /\ FstatAgrees("whole")]_vars
  BY DEF CommitWindowInv, CommitWindow, Commits
<1> QED BY <1>1, <1>2, <1>3, Invariance, PTL DEF Spec, CommittedIsWhole

(***************************************************************************)
(* Whatever others put at the path, the host neither writes nor removes it *)
(* (receipts.py:115, 201), unless the file system gave it the number of the*)
(* reserved file after abort had closed that one.  Others only leave the   *)
(* path alone between the last comparison of abort and its unlink, which no*)
(* program can close.                                                      *)
(***************************************************************************)
THEOREM OthersAreLeftAlone ==
  ASSUME AbortWindow \subseteq Quiet
  PROVE  Spec => LeavesOthersAlone
<1> DEFINE Alone == \A i \in Inodes :
                      node[i].owner = "theirs" /\ node'[i] # node[i] =>
                        Unlinks /\ ~descriptor /\ i = identity
<1>1. Init => AbortWindowInv
  BY InitialInv
<1>2. ReservationInv /\ AbortWindowInv /\ [Next]_vars => AbortWindowInv'
  BY AbortWindowStep
<1>3. ReservationInv /\ AbortWindowInv /\ HostStep => Alone
  <2> SUFFICES ASSUME ReservationInv, AbortWindowInv, HostStep PROVE Alone
    OBVIOUS
  <2>1. CASE Reserves
    BY <2>1 DEF Reserves, ReservationInv, TypeOK, Free
  <2>2. CASE ClosesDescriptor
    BY <2>2, ClosesType DEF ReservationInv
  <2>3. CASE Writes
    <3>1. identity \in Inodes /\ node[identity].owner = "ours"
      BY <2>3 DEF Writes, ReservationInv, DescriptorInv, Holding, Labels, TypeOK,
                  Ours
    <3> QED BY <2>3, <3>1 DEF Writes, ReservationInv, TypeOK
  <2>4. CASE Unlinks
    <3>1. path \in Inodes /\ path = identity /\ node[path].links > 0
          /\ ~descriptor
      BY <2>4 DEF Unlinks, ReservationInv, TypeOK, PathInv, DescriptorInv,
                  AbortWindowInv, AbortWindow
    <3>2. \A i \in Inodes \ {identity} : node'[i] = node[i]
      BY <2>4, <3>1, DropType DEF Unlinks, ReservationInv
    <3> QED BY <2>4, <3>1, <3>2
  <2>5. CASE UNCHANGED node
    BY <2>5
  <2> QED
    BY <2>1, <2>2, <2>3, <2>4, <2>5, ChecksInv
    DEF HostStep, RefusesExisting, MarksStarted, Commits, CommitFails,
        Preserves, ClosesToAbort, Dies, fsVars
<1>4. ReservationInv /\ AbortWindowInv => [HostStep => Alone]_vars
  BY <1>3
<1> QED BY <1>1, <1>2, <1>4, Invariance, PTL DEF Spec, LeavesOthersAlone

(***************************************************************************)
(* The reservation keeps the contract its callers rely on                  *)
(* (docs/ARCHITECTURE.md, "Evidence writer"), whatever others do to the    *)
(* file system at any moment: every step is a step of the contract or none.*)
(***************************************************************************)
THEOREM KeepsContract == Spec => ImplementsContract
<1>1. Init => Contract!Init
  BY DEF Init, Contract!Init
<1>2. ReservationInv /\ [Next]_vars => [Contract!Next]_Contract!vars
  <2> SUFFICES ASSUME ReservationInv, [Next]_vars
               PROVE  [Contract!Next]_Contract!vars
    OBVIOUS
  <2> USE DEF ReservationInv, DescriptorInv, AbortInv, AbortWindow, Contract!Next,
              Contract!Reserve, Contract!Start, Contract!Write, Contract!Keep,
              Contract!Remove, Contract!vars
  <2>1. CASE Reserves
    BY <2>1 DEF Reserves, TypeOK
  <2>2. CASE RefusesExisting
    BY <2>2 DEF RefusesExisting
  <2>3. CASE MarksStarted
    BY <2>3 DEF MarksStarted
  <2>4. CASE Commits
    BY <2>4 DEF Commits
  <2>5. CASE Preserves \/ Dies
    BY <2>5 DEF Preserves, Dies
  <2>6. CASE Unlinks
    BY <2>6 DEF Unlinks
  <2>7. CASE CommitFails \/ ClosesToAbort \/ Writes
    BY <2>7 DEF CommitFails, ClosesToAbort, Writes
  <2>8. CASE OthersStep
    BY <2>8 DEF OthersStep, RemovesPath, MovesAway, MovesBack, CreatesFile,
                Links, WritesFile, Meddles, hostVars
  <2>9. CASE UNCHANGED vars
    BY <2>9 DEF vars, hostVars
  <2>10. ASSUME \/ ChecksNew \/ BeginsMark \/ ChecksMark \/ OperationFails
                \/ BeginsCommit \/ ChecksBeforeWrite \/ Syncs
                \/ ChecksAfterWrite \/ ChecksBeforeAbort \/ UnlinkFails
         PROVE  /\ pc \notin {"open", "done"} /\ UNCHANGED <<identity, started>>
                /\ fate' = "kept" \/ UNCHANGED fate
    BY <2>10
    DEF ChecksNew, BeginsMark, ChecksMark, OperationFails, BeginsCommit,
        ChecksBeforeWrite, Syncs, ChecksAfterWrite, ChecksBeforeAbort,
        UnlinkFails, Checks, Goes, MarkFails
  <2> QED
    BY <2>1, <2>2, <2>3, <2>4, <2>5, <2>6, <2>7, <2>8, <2>9, <2>10
    DEF Next, HostStep
<1> QED BY <1>1, <1>2, Invariance, PTL DEF Spec, ImplementsContract, Contract!Spec
=============================================================================
