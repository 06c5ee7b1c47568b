---------------------------- MODULE MCBackupCreate ----------------------------
(* Directories that differ from a finished backup in one respect, or are at a  *)
(* limit: ten entries inspected, two payload files.                            *)
EXTENDS BackupCreate, SequencesExt

Hashed(size) == [kind |-> "file", hashed |-> TRUE, own |-> TRUE, size |-> size]
Misfiled == [Hashed(1) EXCEPT !.own = FALSE]
Note     == [Hashed(1) EXCEPT !.hashed = FALSE]
Link     == [Hashed(1) EXCEPT !.kind = "link"]
Bucket(files) == [hex |-> TRUE, kind |-> "dir", files |-> files]
Other == [hex |-> FALSE, kind |-> "file", files |-> <<>>]

\* The four metadata files are entries of the device directory too.
Backup(entries) ==
  [root |-> <<[ours |-> TRUE, kind |-> "dir"]>>,
   files |-> [f \in {"Info.plist", "Manifest.plist", "Status.plist",
                     "Manifest.db"} |-> "whole"],
   encrypted |-> TRUE, identifiers |-> "ours", snapshot |-> "finished",
   backup |-> "new", full |-> FALSE,
   entries |-> <<Other, Other, Other, Other>> \o entries]

One == Backup(<<Bucket(<<Hashed(1)>>)>>)

MCDirectories ==
  <<One, [One EXCEPT !.encrypted = FALSE], [One EXCEPT !.identifiers = "other"],
   [One EXCEPT !.snapshot = "uploading"], [One EXCEPT !.full = TRUE],
   [One EXCEPT !.files["Status.plist"] = "missing"],
   [One EXCEPT !.root = @ \o <<[ours |-> FALSE, kind |-> "file"]>>],
   Backup(<<Bucket(<<Hashed(0), Misfiled, Note>>)>>),
   Backup(<<Bucket(<<Hashed(1), Link>>)>>),
   Backup(<<Bucket(<<Hashed(0)>>), Bucket(<<Hashed(1), Note>>)>>),
   Backup(<<Bucket(<<Hashed(1), Note>>), Bucket(<<Note, Note>>)>>),
   Backup(<<Bucket(<<Hashed(1), Hashed(0)>>), Bucket(<<Hashed(1)>>)>>)>>
=============================================================================
