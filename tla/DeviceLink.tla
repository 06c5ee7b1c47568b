------------------------------ MODULE DeviceLink ------------------------------
(***************************************************************************)
(* One DeviceLink session (src/ios_rehydrate/safe_mobilebackup.py): the    *)
(* device sends requests, the host carries them out beneath the backup     *)
(* root and answers.  A handler is one atomic step per file or item where  *)
(* it does not await; at its awaits other programs act.                    *)
(*                                                                         *)
(* A path has one or two names; <<>> stands for every spelling that        *)
(* _relative_parts refuses.  Link stands for symbolic links and reparse    *)
(* points.  No caller gives a filter, so that preserve_file is set but     *)
(* true of every file, and nothing is ever on the list of discarded files. *)
(***************************************************************************)
EXTENDS Naturals, SequencesExt

CONSTANTS
  Names,                 \* of files and directories
  MAX_DIRECTORY_ENTRIES, \* files of one download request
  MaxItems,              \* bound: items of one move or remove request
  MaxOthers              \* bound: steps of other programs

ASSUME LimitsAssumption ==
  MAX_DIRECTORY_ENTRIES \in Nat /\ MaxItems \in Nat /\ MaxOthers \in Nat

VARIABLES
  phase,     \* where the session is
  op,        \* the request being carried out
  count,     \* files or items of it so far
  stream,    \* the file being received; <<>> if it has no path any more
  asked,     \* the paths named by the request
  delivered, \* the files sent to the end
  failed,    \* status: the files reported as failed
  answer,    \* the last answer
  root,      \* whether the root is still the directory it was
  tree,      \* what is beneath the root
  others     \* steps of other programs so far

requestVars == <<op, count, asked, delivered, failed>>
diskVars    == <<root, tree>>
vars == <<phase, requestVars, stream, answer, diskVars, others>>

Paths     == {<<n>> : n \in Names} \cup (Names \X Names)
Requested == Paths \cup {<<>>}
Files     == {"whole", "partial", "broken"}
Kinds     == Files \cup {"none", "dir", "link"}
Ops       == {"upload", "download", "remove", "move"}
Closed    == {"ended", "dead"}

Init ==
  /\ phase = "open" /\ op = "none" /\ count = 0 /\ stream = <<>>
  /\ asked = {} /\ delivered = {} /\ failed = {} /\ answer = "none"
  /\ root \in {"ours", "replaced"} /\ tree = [p \in Paths |-> "none"]
  /\ others = 0
-----------------------------------------------------------------------------
(* Paths and trees                                                         *)

Kind(t, p)   == IF p \in Paths THEN t[p] ELSE "none"
Ancestors(p) == {q \in Paths : IsStrictPrefix(q, p)}
Subtree(p)   == {q \in Paths : IsPrefix(p, q)}

\* _checked_path: no link on the way, and directories above what exists.
Checked(t, p) ==
  /\ p \in Paths /\ root = "ours" /\ t[p] # "link"
  /\ \A q \in Ancestors(p) : t[q] \in {"dir", "none"}

\* _ensure_parent
WithParent(t, p) == [q \in Paths |-> IF q \in Ancestors(p) THEN "dir" ELSE t[q]]

\* _assert_tree_safe
TreeSafe(t, p) == t[p] # "none" /\ \A q \in Subtree(p) : t[q] # "link"

Without(t, p) == [q \in Paths |-> IF q \in Subtree(p) THEN "none" ELSE t[q]]

\* The path beneath source that corresponds to q beneath target.
Origin(source, target, q) == source \o SubSeq(q, Len(target) + 1, Len(q))
Copied(t, source, target) ==
  [q \in Paths |->
     IF q \notin Subtree(target) THEN t[q]
     ELSE LET s == Origin(source, target, q)
          IN Kind(t, s)]

\* Where a file or directory goes that is moved or copied to destination.
Target(t, source, destination) ==
  IF destination \in Paths /\ t[destination] = "dir"
  THEN Append(destination, Last(source)) ELSE destination

\* Bound: nothing is put deeper than the paths of the model reach.
Fits(t, source, target) ==
  target \in Paths
  /\ \A q \in Subtree(source) :
       t[q] # "none" => Len(target) + Len(q) - Len(source) <= 2
-----------------------------------------------------------------------------
(* Requests and answers                                                    *)

Keep == UNCHANGED <<stream, answer, root, others>>
Forget ==
  /\ op' = "none" /\ count' = 0 /\ asked' = {} /\ delivered' = {}
  /\ failed' = {} /\ stream' = <<>> /\ answer' = "none"

\* _refuse: whatever is wrong ends the session without an answer.
Refuses == phase' = "dead" /\ Forget /\ UNCHANGED <<root, others>>
Answers(how) == phase' = "reply" /\ answer' = how

\* SafeDeviceLink.__init__
OpensLink ==
  /\ phase = "open" /\ phase' = IF root = "ours" THEN "idle" ELSE "dead"
  /\ UNCHANGED <<requestVars, tree>> /\ Keep

\* A request of several files or items; its list is read as it is used.
ReceivesRequest ==
  /\ phase = "idle" /\ phase' = "busy" /\ op' \in Ops
  /\ UNCHANGED <<count, asked, delivered, failed, tree>> /\ Keep

\* DLMessageProcessMessage ends the exchange.
ReceivesEnd ==
  /\ phase = "idle" /\ phase' = "ended"
  /\ UNCHANGED <<requestVars, tree>> /\ Keep

\* The answer is on its way; after that of the free space the root is looked at
\* once more.
Replies ==
  /\ phase = "reply" /\ UNCHANGED tree
  /\ IF op = "space" /\ root # "ours" THEN Refuses
     ELSE phase' = "idle" /\ Forget /\ UNCHANGED <<root, others>>

\* Where the host awaits the device; between two awaits it is alone.
Awaiting ==
  \/ phase \in {"idle", "receive", "reply"}
  \/ phase = "busy" /\ op \in {"upload", "download"}

\* Any await may be cancelled, find the connection closed, or receive what
\* receive_message, the frames of a transfer or purge_disk_space refuse.
Breaks == Awaiting /\ Refuses /\ UNCHANGED tree

\* The list of the request is at its end.
EndsRequest ==
  /\ phase = "busy"
  /\ Answers(IF failed = {} THEN "ok" ELSE "multi")
  /\ UNCHANGED <<requestVars, stream, diskVars, others>>

Item(kind) == phase = "busy" /\ op = kind
Done(p) ==
  /\ count' = count + 1 /\ asked' = asked \cup {p}
  /\ UNCHANGED <<phase, op>> /\ Keep
-----------------------------------------------------------------------------
(* Files from the device                                                   *)

\* _open_for_write, after the two names and the first frame header.  An open that
\* fails leaves the directories made for it, and perhaps a file cut to nothing.
StartsFile(p) ==
  /\ Item("upload")
  /\ \/ /\ Checked(tree, p) /\ tree[p] # "dir"
        /\ LET t == WithParent(tree, p)
               opened == [t EXCEPT ![p] = "partial"]
           IN \/ /\ phase' = "receive" /\ stream' = p /\ tree' = opened
                 /\ UNCHANGED <<requestVars, answer, root, others>>
              \/ Refuses /\ tree' \in {t, opened}
     \/ Refuses /\ UNCHANGED tree

EndsFile(as) ==
  /\ phase = "receive" /\ phase' = "busy" /\ stream' = <<>>
  /\ tree' = IF stream = <<>> THEN tree ELSE [tree EXCEPT ![stream] = as]
  /\ UNCHANGED <<requestVars, answer, root, others>>

\* Mutant: the last frame may have any code.
FinishesFileOfAnyCode == \E as \in {"whole", "partial"} : EndsFile(as)

\* CODE_SUCCESS without data.
FinishesFile == EndsFile("whole")

\* CODE_ERROR_REMOTE: the device gave the file up, the request goes on.
AbandonsFile == EndsFile("broken")
-----------------------------------------------------------------------------
(* Files to the device                                                     *)

\* Mutant: the status is that of the last file.
SendsFileForgetting(p) ==
  /\ Item("download") /\ count < MAX_DIRECTORY_ENTRIES /\ Checked(tree, p)
  /\ \/ tree[p] \in Files /\ delivered' = delivered \cup {p} /\ failed' = {}
     \/ failed' = {p} /\ UNCHANGED delivered
  /\ Done(p) /\ UNCHANGED tree

\* One file, sent to the end unless it is missing, a directory, or unreadable.
SendsFile(p) ==
  /\ Item("download") /\ UNCHANGED tree
  /\ IF count < MAX_DIRECTORY_ENTRIES /\ Checked(tree, p)
     THEN /\ \/ /\ tree[p] \in Files /\ delivered' = delivered \cup {p}
                /\ UNCHANGED failed
             \/ failed' = failed \cup {p} /\ UNCHANGED delivered
          /\ Done(p)
     ELSE Refuses
-----------------------------------------------------------------------------
(* Changes of the tree                                                     *)

\* Mutant: _assert_tree_safe is not called.
RemovesUnsafely(p) ==
  /\ Item("remove") /\ count < MaxItems /\ Checked(tree, p)
  /\ tree' = Without(tree, p) /\ Done(p) /\ UNCHANGED <<delivered, failed>>

\* What is not there is removed; an unlink that fails may leave the rest.
Removes(p) ==
  /\ Item("remove") /\ count < MaxItems
  /\ \/ /\ Checked(tree, p) /\ (tree[p] = "none" \/ TreeSafe(tree, p))
        /\ tree' = Without(tree, p) /\ Done(p)
        /\ UNCHANGED <<delivered, failed>>
     \/ /\ Checked(tree, p) /\ TreeSafe(tree, p) /\ Refuses
        /\ \E q \in Subtree(p) \ {p} : tree' = Without(tree, q)
     \/ Refuses /\ UNCHANGED tree

\* What shutil.move can do, without or with a rename.
Movable(t, source, destination) ==
  LET target == Target(t, source, destination) IN
  /\ TreeSafe(t, source)
  /\ IF source = destination
     THEN t[source] = "dir" => Kind(t, target) # "none"
     ELSE /\ ~IsPrefix(source, target)
          /\ \/ Kind(t, target) = "none"
             \/ target = destination /\ {t[source], Kind(t, target)} \subseteq Files

Moved(t, source, destination) ==
  LET target == Target(t, source, destination) IN
  IF source = destination THEN t
  ELSE Without(Copied(t, source, target), source)

\* A source that is missing is passed over: preserve_file is set.
MovesNothing(source) ==
  /\ Item("move") /\ count < MaxItems
  /\ Checked(tree, source) /\ tree[source] = "none"
  /\ Done(source) /\ UNCHANGED <<tree, delivered, failed>>

Moves(source, destination) ==
  /\ Item("move") /\ count < MaxItems
  /\ \/ /\ Checked(tree, source) /\ tree[source] # "none"
        /\ Checked(tree, destination)
        /\ LET t == WithParent(tree, destination)
               target == Target(t, source, destination)
           IN \/ /\ Movable(t, source, destination)
                 /\ source # destination => Fits(t, source, target)
                 /\ tree' = Moved(t, source, destination) /\ Done(source)
                 /\ UNCHANGED <<delivered, failed>>
              \/ tree' = t /\ Refuses
     \/ Refuses /\ UNCHANGED tree
-----------------------------------------------------------------------------
(* Requests of one item, carried out and answered without an await between *)

Succeeds(kind) ==
  /\ Answers("ok") /\ op' = kind
  /\ UNCHANGED <<count, asked, delivered, failed, stream, root, others>>

\* contents_of_directory and get_free_disk_space change nothing.
Lists(p) ==
  /\ phase = "idle" /\ UNCHANGED tree
  /\ \/ /\ Checked(tree, p) /\ tree[p] = "dir"
        /\ \A q \in Subtree(p) : tree[q] # "link"
        /\ Succeeds("list")
     \/ Refuses

ReportsFreeSpace ==
  /\ phase = "idle" /\ UNCHANGED tree
  /\ IF root = "ours" THEN Succeeds("space") ELSE Refuses

\* create_directory, its parents too.
MakesDirectory(p) ==
  /\ phase = "idle"
  /\ \/ /\ Checked(tree, p) /\ tree[p] \in {"none", "dir"}
        /\ tree' = [WithParent(tree, p) EXCEPT ![p] = "dir"] /\ Succeeds("mkdir")
     \/ Refuses /\ UNCHANGED tree

Copyable(t, source, destination) ==
  LET target == Target(t, source, destination) IN
  IF t[source] = "dir" THEN t[destination] = "none" /\ TreeSafe(t, source)
  ELSE source # target /\ Kind(t, target) \in Files \cup {"none"}

CopiesNothing(source) ==
  /\ phase = "idle" /\ Checked(tree, source) /\ tree[source] = "none"
  /\ Succeeds("copy") /\ UNCHANGED tree

\* A copy that fails on the way leaves files that are not whole.
Copies(source, destination) ==
  /\ phase = "idle"
  /\ \/ /\ Checked(tree, source) /\ tree[source] # "none"
        /\ Checked(tree, destination)
        /\ LET t == WithParent(tree, destination)
               target == Target(t, source, destination)
           IN \/ /\ Fits(t, source, target) /\ Copyable(t, source, destination)
                 /\ LET new == Copied(t, source, target)
                        written == {q \in Subtree(target) : new[q] \in Files}
                    IN \/ tree' = new /\ Succeeds("copy")
                       \/ \E part \in SUBSET written :
                            /\ tree' = [q \in Paths |-> IF q \in part
                                         THEN "partial" ELSE new[q]]
                            /\ Refuses
              \/ tree' = t /\ Refuses
     \/ Refuses /\ UNCHANGED tree
-----------------------------------------------------------------------------
(* Other programs, while the host waits (external)                         *)

OthersMayAct ==
  /\ others < MaxOthers /\ others' = others + 1 /\ Awaiting
  /\ UNCHANGED <<phase, requestVars, answer>>

\* A link takes the place of whatever is there.
PlantsLink(p) ==
  /\ OthersMayAct /\ \A q \in Ancestors(p) : tree[q] = "dir"
  /\ tree[p] # "link" /\ tree' = [Without(tree, p) EXCEPT ![p] = "link"]
  /\ stream' = IF stream \in Subtree(p) THEN <<>> ELSE stream
  /\ UNCHANGED root

\* The directory is moved away; tree is what is in it, wherever it is.
ReplacesRoot == OthersMayAct /\ root' = "replaced" /\ UNCHANGED <<stream, tree>>
-----------------------------------------------------------------------------
HostStep ==
  \/ OpensLink \/ ReceivesRequest \/ ReceivesEnd \/ Replies \/ Breaks
  \/ EndsRequest \/ FinishesFile \/ AbandonsFile \/ ReportsFreeSpace
  \/ \E p \in Requested :
       \/ StartsFile(p) \/ SendsFile(p) \/ Removes(p) \/ Lists(p)
       \/ MakesDirectory(p) \/ MovesNothing(p) \/ CopiesNothing(p)
       \/ \E q \in Requested : Moves(p, q) \/ Copies(p, q)

OthersStep == ReplacesRoot \/ \E p \in Paths : PlantsLink(p)

Next == HostStep \/ OthersStep

Spec == Init /\ [][Next]_vars
-----------------------------------------------------------------------------
TypeOK ==
  /\ phase \in {"open", "idle", "busy", "receive", "reply"} \cup Closed
  /\ op \in Ops \cup {"none", "list", "space", "mkdir", "copy"}
  /\ count \in 0..(MAX_DIRECTORY_ENTRIES + MaxItems) /\ stream \in Requested
  /\ asked \subseteq Requested /\ delivered \subseteq Paths
  /\ failed \subseteq Paths /\ answer \in {"none", "ok", "multi"}
  /\ root \in {"ours", "replaced"} /\ tree \in [Paths -> Kinds]
  /\ others \in 0..MaxOthers

\* While the session goes on, nothing is beneath anything but a directory, so
\* no request has been carried out through a link, and a file that is cut off
\* is the one being received: what failed on the way ended the session
\* (safe_mobilebackup.py, _checked_path, _open_for_write, upload_files).
LinkInv ==
  /\ TypeOK
  /\ \A p \in Paths : tree[p] # "none" => \A q \in Ancestors(p) : tree[q] = "dir"
  /\ phase # "dead" =>
       \A p \in Paths : tree[p] = "partial" => phase = "receive" /\ p = stream

\* Whatever others plant between two awaits, no request creates, moves or
\* removes a link, and once the root was replaced only the file already open
\* is still written (_checked_path, _assert_tree_safe, _assert_root_identity).
Confined ==
  [][HostStep =>
       /\ {p \in Paths : tree'[p] = "link"} = {p \in Paths : tree[p] = "link"}
       /\ root = "replaced" =>
            \A p \in Paths : tree'[p] # tree[p] => p = stream]_vars

\* An answer of success means that every file asked for was sent to the end,
\* or that nothing is left of what was to be removed, whatever came before it
\* in the same request; a file that failed is named (download_files,
\* remove_items).
TruthfulAnswers ==
  [][phase # "reply" /\ phase' = "reply" =>
       /\ op' = "download" => asked' \subseteq delivered' \cup failed'
       /\ op' = "download" /\ answer' = "ok" =>
            failed' = {} /\ asked' \subseteq delivered'
       /\ op' = "remove" => \A p \in asked' : tree'[p] = "none"]_vars
=============================================================================
