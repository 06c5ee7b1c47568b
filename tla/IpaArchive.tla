------------------------------ MODULE IpaArchive ------------------------------
(***************************************************************************)
(* validate_ipa (src/ios_rehydrate/ipa.py): the central directory record   *)
(* by record, the byte ranges, the declared sizes, the payload of every    *)
(* member (Inflate, on the same variables), then the paths one by one and  *)
(* the members an app must have.                                           *)
(*                                                                         *)
(* An archive is the record of what its bytes say.  Sizes are in small     *)
(* units: a local header takes one, a descriptor one without signature and *)
(* two with it, a directory record at least one.  A path is the sequence   *)
(* of its components as they are spelled; Fold gives the canonical form of *)
(* a component.  zipfile itself reads what the preflight read.  Reasons    *)
(* that no property tells apart share a name.                              *)
(***************************************************************************)
EXTENDS Integers, SequencesExt, FiniteSetsExt

CONSTANTS
  Archives,              \* the archives the host may be given
  Parts, Fold,           \* path components, and the NFC case fold of each
  AppNames,              \* the components that end in .app
  Executables, SinfOf,   \* names an executable may have, that of its sinf file
  BundleIds, StoreIds,   \* the texts that are identifiers of the two kinds
  MAX_IPA_BYTES, MAX_ZIP_ENTRIES, MAX_CENTRAL_DIRECTORY_BYTES,
  MAX_EXPANDED_BYTES, MAX_COMPRESSION_RATIO, MAX_PLIST_BYTES, MAX_SINF_BYTES,
  INTEGRITY_CHUNK, Corrupt \* see Inflate

ASSUME LimitsAssumption ==
  /\ MAX_ZIP_ENTRIES \in Nat /\ MAX_EXPANDED_BYTES \in Nat
  /\ MAX_COMPRESSION_RATIO \in Nat /\ MAX_IPA_BYTES \in Nat
  /\ MAX_CENTRAL_DIRECTORY_BYTES \in Nat
  /\ MAX_PLIST_BYTES \in Nat /\ MAX_SINF_BYTES \in Nat
  /\ INTEGRITY_CHUNK \in Nat \ {0} /\ Corrupt \in Nat

ASSUME NamesAssumption ==
  Fold \in [Parts -> Parts] /\ AppNames \subseteq Parts

\* What one directory record, and the bytes of its member, may say.  It parses
\* if its framing, disk and version are valid and its name decodes; it agrees if
\* the local header repeats it.
EntryType ==
  [name : Seq(Parts), dir : BOOLEAN, type : STRING, method : STRING,
   flags : SUBSET STRING, parses : BOOLEAN, safe : BOOLEAN, agrees : BOOLEAN,
   sentinels : Nat, zip64 : Seq(Nat), offset : Nat,
   descriptor : BOOLEAN, descriptors : SUBSET Nat,
   outputs : Seq(Nat), ending : Nat \ {0}, file_size : Nat, crc : BOOLEAN]

\* The file and what happens to it while it is read; its directory, which holds
\* size records in directory_size units; what its property lists say (versions:
\* the version, the build and the minimum OS are valid).  It is coherent if it
\* has one disk and what its ZIP64 end record repeats agrees.
ArchiveType ==
  [regular : BOOLEAN, readable : BOOLEAN, unchanged : BOOLEAN, length : Nat,
   ends : Seq(BOOLEAN), coherent : BOOLEAN, declared : Nat, size : Nat,
   directory_size : Nat, adjacent : BOOLEAN, directory_offset : Nat,
   entries : Seq(EntryType),
   info : [dictionary : BOOLEAN, bundle : STRING, versions : BOOLEAN,
           executable : STRING],
   metadata : [dictionary : BOOLEAN, bundle : STRING, store : STRING],
   expected_bundle : STRING, expected_store : STRING]

\* Each record takes a unit at least.
ASSUME ArchivesAssumption ==
  /\ Archives \subseteq ArchiveType
  /\ \A a \in Archives : a.size <= a.directory_size

VARIABLES member, cursor, pending, produced, found
VARIABLES
  archive,  \* the bytes read
  stage,    \* where validate_ipa is
  index,    \* records, or members, dealt with in this stage
  names,    \* canonical_names
  explicit, \* explicit_directories, as the sets of directories and of files
  implicit, \* implicit_directories
  reason    \* why it refused, or SUCCESS

Inf == INSTANCE Inflate

payloadVars == <<member, cursor, pending, produced, found>>
shapeVars   == <<names, explicit, implicit>>
vars == <<payloadVars, archive, stage, index, shapeVars, reason>>

NoMember == [outputs |-> <<>>, ending |-> 1, file_size |-> 0, crc |-> TRUE]
Entries  == archive.entries
Entry    == Entries[index + 1]
Items    == 1..Len(Entries)

Init ==
  /\ archive \in Archives
  /\ stage = "read" /\ index = 0 /\ reason = "PENDING"
  /\ names = {} /\ explicit = [dirs |-> {}, files |-> {}] /\ implicit = {}
  /\ member = NoMember /\ cursor = 0 /\ pending = 0 /\ produced = 0
  /\ found = "none"

Stage(s) == stage = s /\ UNCHANGED archive
Goto(s)  == stage' = s /\ index' = 0 /\ UNCHANGED reason
Next1    == index' = index + 1 /\ UNCHANGED <<stage, reason>>
Refuse(why) == stage' = "done" /\ reason' = why /\ UNCHANGED index
-----------------------------------------------------------------------------
(* The file and its directory                                              *)

\* _read_archive
ReadsArchive ==
  /\ Stage("read") /\ UNCHANGED <<payloadVars, shapeVars>>
  /\ IF ~archive.regular THEN Refuse("IPA_NOT_REGULAR_FILE")
     ELSE IF ~archive.readable THEN Refuse("IPA_READ_FAILED")
     ELSE IF ~archive.unchanged THEN Refuse("IPA_FILE_CHANGED")
     ELSE IF archive.length > MAX_IPA_BYTES THEN Refuse("IPA_FILE_TOO_LARGE")
     ELSE IF archive.length = 0 THEN Refuse("IPA_EMPTY") ELSE Goto("end")

\* _find_eocd: one signature whose comment ends with the file, and the last.
FindsEnd ==
  LET ends == archive.ends IN
  /\ Stage("end") /\ UNCHANGED <<payloadVars, shapeVars>>
  /\ IF ends # <<>> /\ {k \in DOMAIN ends : ends[k]} = {Len(ends)}
     THEN Goto("preflight") ELSE Refuse("IPA_ZIP_DIRECTORY_INVALID")

\* _preflight_zip, and that the directory can hold as many records as declared.
Preflights ==
  /\ Stage("preflight") /\ UNCHANGED <<payloadVars, shapeVars>>
  /\ IF ~archive.coherent THEN Refuse("IPA_ZIP_DIRECTORY_INVALID")
     ELSE IF archive.declared > MAX_ZIP_ENTRIES THEN Refuse("IPA_TOO_MANY_ENTRIES")
     ELSE IF archive.directory_size > MAX_CENTRAL_DIRECTORY_BYTES
          THEN Refuse("IPA_ZIP_DIRECTORY_TOO_LARGE")
     ELSE IF ~archive.adjacent \/ archive.declared > archive.directory_size
          THEN Refuse("IPA_ZIP_DIRECTORY_INVALID")
          ELSE Goto("directory")

\* _zip64_payload: the values that do not fit are in one field of their size.
Zip64Agrees(e) ==
  IF e.sentinels = 0 THEN e.zip64 = <<>> ELSE e.zip64 = <<e.sentinels>>

DataOffset(e) == e.offset + 1
DataEnd(e)    == DataOffset(e) + Len(e.outputs)

\* _parse_local_entry: the header and the payload are before the directory,
\* and the local header says what the directory says.
LocalAgrees(e) == DataEnd(e) <= archive.directory_offset /\ e.agrees

\* _validate_zip_method, _validate_zip_flags, _validate_member_name; the flag
\* for a descriptor is a field of its own.
Supported(e) ==
  /\ e.method \in {"stored", "deflated"}
  /\ e.flags \subseteq {"utf8"} \cup IF e.method = "deflated" THEN {"options"} ELSE {}
  /\ e.parses /\ e.safe

\* One turn of the loop of _validate_central_directory; where there are fewer
\* entries than records, the next record is cut off or none.
ReadsRecord ==
  /\ Stage("directory") /\ index < archive.size
  /\ UNCHANGED <<payloadVars, shapeVars>>
  /\ IF index >= MAX_ZIP_ENTRIES THEN Refuse("IPA_TOO_MANY_ENTRIES")
     ELSE IF index >= Len(Entries) THEN Refuse("IPA_ZIP_DIRECTORY_INVALID")
     ELSE IF ~Supported(Entry) THEN Refuse("IPA_MEMBER_UNSUPPORTED")
     ELSE IF Zip64Agrees(Entry) /\ LocalAgrees(Entry) THEN Next1
     ELSE Refuse("IPA_ZIP_LOCAL_HEADER_INVALID")

EndsDirectory ==
  /\ Stage("directory") /\ index >= archive.size
  /\ UNCHANGED <<payloadVars, shapeVars>>
  /\ IF index = archive.declared THEN Goto("ranges")
     ELSE Refuse("IPA_ZIP_DIRECTORY_INVALID")
-----------------------------------------------------------------------------
(* Byte ranges and sizes                                                   *)

Members == SubSeq(Entries, 1, archive.declared)

\* The members that are sorted after member k: by offset, and those of one
\* offset as the directory names them.
After(k) ==
  {j \in DOMAIN Members :
     \/ Members[j].offset > Members[k].offset
     \/ Members[j].offset = Members[k].offset /\ j > k}
\* Where the next one starts.
Boundary(k) ==
  IF After(k) = {} THEN archive.directory_offset
  ELSE Min({Members[j].offset : j \in After(k)})

\* _validate_data_descriptor: the lengths at which one reads as expected.
DescriptorEnd(e, boundary) ==
  LET matches == {n \in e.descriptors : DataEnd(e) + n <= boundary} IN
  IF Cardinality(matches) = 1 THEN DataEnd(e) + Min(matches) ELSE -1

RangeValid(k) ==
  LET e == Members[k] IN
  /\ DataEnd(e) <= Boundary(k)
  /\ e.descriptor => DescriptorEnd(e, Boundary(k)) # -1

\* _validate_local_ranges
ChecksRanges ==
  /\ Stage("ranges") /\ UNCHANGED <<payloadVars, shapeVars>>
  /\ IF \A k \in DOMAIN Members : RangeValid(k) THEN Goto("sizes")
     ELSE Refuse("IPA_ZIP_LOCAL_HEADER_INVALID")

Expanded(es)   == FoldLeft(LAMBDA sum, e : sum + e.file_size, 0, es)
Compressed(es) == FoldLeft(LAMBDA sum, e : sum + Len(e.outputs), 0, es)
RatioValid(big, small) ==
  big <= MAX_COMPRESSION_RATIO * (IF small = 0 THEN 1 ELSE small)

\* _validate_declared_sizes; sizes are never negative, so the sum of all is
\* the largest of the running sums.
SizesValid(es) ==
  /\ Expanded(es) <= MAX_EXPANDED_BYTES
  /\ \A k \in DOMAIN es : RatioValid(es[k].file_size, Len(es[k].outputs))
  /\ RatioValid(Expanded(es), Compressed(es))

ChecksSizes ==
  /\ Stage("sizes") /\ UNCHANGED <<payloadVars, shapeVars>>
  /\ IF SizesValid(Members) THEN Goto("payloads")
     ELSE Refuse("IPA_EXPANDED_TOO_LARGE")
-----------------------------------------------------------------------------
(* Payloads                                                                *)

AsMember(e) ==
  [outputs |-> e.outputs, ending |-> e.ending, file_size |-> e.file_size,
   crc |-> e.crc]

\* _validate_stored_payload
ChecksStored ==
  /\ Stage("payloads") /\ index < Len(Members) /\ found = "none"
  /\ Entry.method = "stored" /\ UNCHANGED <<payloadVars, shapeVars>>
  /\ IF Len(Entry.outputs) # Entry.file_size THEN Refuse("IPA_ZIP_SIZE_MISMATCH")
     ELSE IF ~Entry.crc THEN Refuse("IPA_CRC_MISMATCH") ELSE Next1

StartsInflating ==
  /\ Stage("payloads") /\ index < Len(Members) /\ found = "none"
  /\ Entry.method = "deflated" /\ Inf!Begins(AsMember(Entry))
  /\ UNCHANGED <<stage, index, reason, shapeVars>>

Inflates ==
  /\ Stage("payloads") /\ Inf!Inflates
  /\ UNCHANGED <<stage, index, reason, shapeVars>>

\* Mutant: the member that was intact is the next one again.
EndsInflatingAgain ==
  /\ Stage("payloads") /\ found \notin {"none", "reading"}
  /\ UNCHANGED <<member, cursor, pending, produced, shapeVars>>
  /\ IF found = "intact" THEN UNCHANGED <<stage, index, reason>> /\ found' = "none"
     ELSE Refuse(found) /\ UNCHANGED found

EndsInflating ==
  /\ Stage("payloads") /\ found \notin {"none", "reading"}
  /\ UNCHANGED <<member, cursor, pending, produced, shapeVars>>
  /\ IF found = "intact" THEN Next1 /\ found' = "none"
     ELSE Refuse(found) /\ UNCHANGED found

EndsPayloads ==
  /\ Stage("payloads") /\ index = Len(Members) /\ Goto("shape")
  /\ UNCHANGED <<payloadVars, shapeVars>>
-----------------------------------------------------------------------------
(* Paths and members                                                       *)

Ancestors(name) == {SubSeq(name, 1, n) : n \in 1..(Len(name) - 1)}

\* _validate_member_type
TypeAgrees(e) ==
  /\ e.dir => e.file_size = 0
  /\ e.type \in {"unspecified", IF e.dir THEN "dir" ELSE "file"}

\* canonical_name: NFC and case fold leave the separators where they are.
Canonical(e) == [k \in DOMAIN e.name |-> Fold[e.name[k]]]

\* Mutant: a path beneath a file that was named before passes.
TakesPathForward ==
  /\ Stage("shape") /\ index < Len(Members) /\ UNCHANGED <<payloadVars, explicit>>
  /\ names' = names \cup {Canonical(Entry)}
  /\ implicit' = implicit \cup Ancestors(Canonical(Entry))
  /\ IF Canonical(Entry) \in names THEN Refuse("IPA_MEMBER_PATH_COLLISION")
     ELSE IF Canonical(Entry) \in implicit' /\ ~Entry.dir
          THEN Refuse("IPA_MEMBER_PATH_CONFLICT")
     ELSE IF ~TypeAgrees(Entry) THEN Refuse("IPA_MEMBER_TYPE_MISMATCH")
     ELSE Next1

\* One turn of the loop of _check_archive_shape; a path spelled twice has its
\* canonical name twice as well.
TakesPath ==
  /\ Stage("shape") /\ index < Len(Members) /\ UNCHANGED payloadVars
  /\ LET name  == Canonical(Entry)
         above == implicit \cup Ancestors(name)
     IN IF name \in names
        THEN Refuse("IPA_MEMBER_PATH_COLLISION") /\ UNCHANGED shapeVars
        ELSE IF \/ Ancestors(name) \cap explicit.files # {}
                \/ name \in above /\ ~Entry.dir
        THEN Refuse("IPA_MEMBER_PATH_CONFLICT") /\ UNCHANGED shapeVars
        ELSE IF ~TypeAgrees(Entry)
        THEN Refuse("IPA_MEMBER_TYPE_MISMATCH") /\ UNCHANGED shapeVars
        ELSE /\ names' = names \cup {name} /\ implicit' = above
             /\ explicit' = IF Entry.dir
                  THEN [explicit EXCEPT !.dirs = @ \cup {name}]
                  ELSE [explicit EXCEPT !.files = @ \cup {name}]
             /\ Next1

EndsShape ==
  /\ Stage("shape") /\ index = Len(Members) /\ Goto("members")
  /\ UNCHANGED <<payloadVars, shapeVars>>

\* _app_root: of the names as they are spelled, not of the canonical ones.
InApp(n) == Len(n) >= 2 /\ n[1] = "Payload" /\ n[2] \in AppNames
Roots ==
  {SubSeq(Members[k].name, 1, 2) : k \in {j \in DOMAIN Members : InApp(Members[j].name)}}

\* _required_member: a file spelled so, of one of the sizes that pass.
Holds(path, sizes) ==
  \E k \in DOMAIN Members :
    Members[k].name = path /\ ~Members[k].dir /\ Members[k].file_size \in sizes

\* _read_plist, twice; no property list is empty.
PlistsRead(root) ==
  /\ Holds(root \o <<"Info.plist">>, 1..MAX_PLIST_BYTES) /\ archive.info.dictionary
  /\ Holds(<<"iTunesMetadata.plist">>, 1..MAX_PLIST_BYTES)
  /\ archive.metadata.dictionary

\* The identifiers of the two lists, and what the caller expects.
BundleAgrees ==
  /\ archive.info.bundle \in BundleIds
  /\ archive.metadata.bundle = archive.info.bundle
  /\ archive.expected_bundle \in {"none", archive.info.bundle}

\* The executable, its authorization material and the code resources.
PartsHeld(root) ==
  LET executable == archive.info.executable IN
  /\ executable \in Executables
  /\ Holds(root \o <<executable>>, Nat \ {0})
  /\ Holds(root \o <<"SC_Info", SinfOf[executable]>>, 1..MAX_SINF_BYTES)
  /\ Holds(root \o <<"_CodeSignature", "CodeResources">>, Nat \ {0})

\* _metadata_store_id: an archive need not have one, but a valid one.
StoreAgrees ==
  /\ archive.metadata.store \in StoreIds \cup {"missing"}
  /\ \/ archive.expected_store = "none"
     \/ archive.expected_store \in StoreIds \cap {archive.metadata.store}

\* The checks of _validate_zip after the shape, in their order.
ValidatesMembers ==
  /\ Stage("members") /\ UNCHANGED <<payloadVars, shapeVars>>
  /\ IF Cardinality(Roots) # 1 THEN Refuse("IPA_APP_COUNT_INVALID")
     ELSE IF \E root \in Roots : ~PlistsRead(root) THEN Refuse("IPA_PLIST_INVALID")
     ELSE IF ~BundleAgrees THEN Refuse("IPA_BUNDLE_MISMATCH")
     ELSE IF ~archive.info.versions THEN Refuse("IPA_VERSION_INVALID")
     ELSE IF \E root \in Roots : ~PartsHeld(root) THEN Refuse("IPA_MEMBER_MISSING")
     ELSE IF ~StoreAgrees THEN Refuse("IPA_STORE_MISMATCH")
     ELSE Refuse("SUCCESS")
-----------------------------------------------------------------------------
Next ==
  \/ ReadsArchive \/ FindsEnd \/ Preflights \/ ReadsRecord \/ EndsDirectory
  \/ ChecksRanges \/ ChecksSizes
  \/ ChecksStored \/ StartsInflating \/ Inflates \/ EndsInflating \/ EndsPayloads
  \/ TakesPath \/ EndsShape \/ ValidatesMembers

Spec == Init /\ [][Next]_vars

\* A loop over bytes in memory: its next step is taken.
FairSpec == Spec /\ WF_vars(Next)
-----------------------------------------------------------------------------
(* The reference: what an archive is accepted for                          *)

\* The bytes of a member whose descriptor has the given length.
Bytes(e, length) == e.offset..(DataEnd(e) + length - 1)
OwnBytes(k, length) ==
  /\ Bytes(Entries[k], length) \subseteq 0..(archive.directory_offset - 1)
  /\ \A j \in DOMAIN Members \ {k} :
       Bytes(Entries[k], length) \cap Bytes(Entries[j], 0) = {}

\* No byte belongs to two members, and there is one way to read each.
Disjoint ==
  \A k \in DOMAIN Members :
    IF Entries[k].descriptor
    THEN Cardinality({n \in Entries[k].descriptors : OwnBytes(k, n)}) = 1
    ELSE OwnBytes(k, 0)

Payload(e) ==
  IF e.method = "deflated" THEN Inf!Intact(AsMember(e))
  ELSE Len(e.outputs) = e.file_size /\ e.crc

\* A path is used once however it is spelled, and only a directory has
\* something beneath it.
Alike(p, q) == DOMAIN p = DOMAIN q /\ \A k \in DOMAIN p : Fold[p[k]] = Fold[q[k]]
Tree ==
  \A j, k \in DOMAIN Members :
    LET one == Entries[j].name  other == Entries[k].name IN
    /\ Alike(one, other) => j = k
    /\ \A n \in 1..(Len(other) - 1) : Alike(one, SubSeq(other, 1, n)) => Entries[j].dir

\* There is one app, and it is complete.
App ==
  \E app \in AppNames :
    /\ PlistsRead(<<"Payload", app>>) /\ PartsHeld(<<"Payload", app>>)
    /\ \A k \in DOMAIN Members :
         InApp(Members[k].name) => Members[k].name[2] = app

FileRead ==
  archive.regular /\ archive.readable /\ archive.unchanged
  /\ archive.length \in 1..MAX_IPA_BYTES
EndFound ==
  /\ archive.ends # <<>>
  /\ {k \in DOMAIN archive.ends : archive.ends[k]} = {Len(archive.ends)}
DirectorySound ==
  /\ archive.coherent /\ archive.adjacent
  /\ archive.directory_size <= MAX_CENTRAL_DIRECTORY_BYTES
  /\ archive.declared = archive.size
  /\ archive.declared <= MAX_ZIP_ENTRIES /\ archive.declared <= Len(Entries)

WellFormed ==
  /\ FileRead /\ EndFound /\ DirectorySound
  /\ \A k \in DOMAIN Members :
       /\ Supported(Entries[k]) /\ Zip64Agrees(Entries[k]) /\ LocalAgrees(Entries[k])
       /\ Payload(Entries[k]) /\ TypeAgrees(Entries[k])
  /\ Disjoint /\ SizesValid(Members) /\ Tree /\ App
  /\ BundleAgrees /\ archive.info.versions /\ StoreAgrees

\* The member refused last is a correct one whose rest is still inside the
\* decompressor: the check had no byte left to ask for it with.
Stalled ==
  /\ reason = "IPA_ZIP_SIZE_MISMATCH" /\ found = reason
  /\ cursor = Inf!Length /\ pending = 0 /\ Inf!Inside > 0
-----------------------------------------------------------------------------
TypeOK ==
  /\ stage \in {"read", "end", "preflight", "directory", "ranges", "sizes", "payloads",
                "shape", "members", "done"}
  /\ (stage = "done") = (reason # "PENDING")
  /\ index \in 0..(Len(Entries) + 1)
  /\ cursor \in Nat /\ pending \in 0..cursor /\ produced \in Nat

\* In whatever order the directory names its members, an archive is accepted
\* exactly if no byte belongs to two of them, no path has two roles, every
\* payload is what is declared, and the rest holds that WellFormed names; the
\* one exception is a member the check stalls on, see AcceptsCorrectMembers
\* (ipa.py, _preflight_zip, _validate_central_directory, _check_archive_shape).
AcceptsExactly ==
  /\ TypeOK
  /\ reason = "SUCCESS" => WellFormed
  /\ reason \notin {"SUCCESS", "PENDING"} => ~WellFormed \/ Stalled

\* No payload is expanded before every range and the sum of all declared sizes
\* have been found valid, and none further than the byte that shows it declares
\* too little: the limit given to the decompressor is never the 0 that means none
\* (ipa.py:541-553, 698-700).
ExpandsOnlyBounded ==
  found # "none" =>
    /\ Disjoint /\ Expanded(Members) <= MAX_EXPANDED_BYTES
    /\ produced <= member.file_size + IF found \in {"reading", "intact"} THEN 0 ELSE 1
    /\ found = "reading" /\ pending > 0 => Inf!Limit >= 1

\* What the check of one payload has done, in bytes fed, taken in and delivered.
Done == cursor + Inf!Taken + produced
Rank == [read |-> 0, end |-> 1, preflight |-> 2, directory |-> 3, ranges |-> 4, sizes |-> 5,
         payloads |-> 6, shape |-> 7, members |-> 8, done |-> 9]

Advances ==
  \/ Rank[stage'] > Rank[stage]
  \/ stage' = stage /\ index' > index /\ found' = "none"
  \/ /\ stage' = stage /\ index' = index
     /\ \/ found = "none" /\ found' = "reading"
        \/ found = "reading" /\ found' \notin {"none", "reading"}
        \/ found = "reading" /\ found' = "reading" /\ Done' > Done

\* No turn of a loop leaves validate_ipa where it was: it is at a later stage,
\* at the next record or member, or has fed, taken in or delivered a byte more,
\* although a call of the decompressor may take in nothing and another deliver
\* nothing (ipa.py:536-565, the loop over what it leaves unconsumed).
AlwaysAdvances == [][Advances]_vars

\* Every archive gets a verdict: no stage waits for what does not come
\* (ipa.py:1001-1192).
Terminates == <>(stage = "done")

\* docs/ARCHITECTURE.md:105-107: stored and deflated members pass, "raw
\* decoding must reach exact EOF with the declared size and CRC, without
\* trailing compressed bytes": a member that does is not refused for its size.
AcceptsCorrectMembers == reason = "IPA_ZIP_SIZE_MISMATCH" => ~Payload(Entry)
=============================================================================
