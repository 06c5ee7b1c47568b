------------------------------- MODULE Lookup -------------------------------
(***************************************************************************)
(* The loop of inspect_app (src/ios_rehydrate/apps.py) over one answer of  *)
(* the installation proxy, entry by entry, in the order the device sent    *)
(* them.  InspectApp in Apps is what it has to compute.                    *)
(***************************************************************************)
EXTENDS Apps, Naturals

CONSTANT Answers  \* dictionaries the device may answer with

ASSUME AnswersAssumption == Answers \subseteq Seq(Entries)

\* No two entries of a dictionary are filed under the same identifier.
ASSUME KeysAssumption ==
  \A a \in Answers : \A i, j \in DOMAIN a :
    a[i].keyed /\ a[j].keyed => i = j

VARIABLES
  answer,     \* result
  index,      \* the next item of result.items()
  candidates, \* candidates
  malformed,  \* malformed_exact_record
  snapshot    \* the returned snapshot, a sequence of at most one

vars == <<answer, index, candidates, malformed, snapshot>>

Init ==
  /\ answer \in Answers /\ index = 1 /\ candidates = <<>>
  /\ malformed = FALSE /\ snapshot = <<>>

Entry == answer[index]
Takes == index <= Len(answer) /\ index' = index + 1
         /\ UNCHANGED <<answer, snapshot>>

\* Mutant: only the last item decides.
SkipsNonDictionaryForgetting ==
  /\ Takes /\ ~Entry.dict /\ malformed' = Entry.keyed /\ UNCHANGED candidates

SkipsNonDictionary ==
  /\ Takes /\ ~Entry.dict
  /\ malformed' = (malformed \/ Entry.keyed) /\ UNCHANGED candidates

\* Mutants: the item is kept instead of its value; or the last one only.
KeepsItem ==
  /\ Takes /\ Entry.dict /\ Entry.named
  /\ candidates' = Append(candidates, Entry) /\ UNCHANGED malformed
KeepsLastCandidate ==
  /\ Takes /\ Entry.dict /\ Entry.named
  /\ candidates' = <<Entry.record>> /\ UNCHANGED malformed

KeepsCandidate ==
  /\ Takes /\ Entry.dict /\ Entry.named
  /\ candidates' = Append(candidates, Entry.record) /\ UNCHANGED malformed

\* Mutant: a record that names another app than the one it is filed under.
SkipsMisfiled ==
  /\ Takes /\ Entry.dict /\ ~Entry.named /\ UNCHANGED <<malformed, candidates>>

SkipsOtherApp ==
  /\ Takes /\ Entry.dict /\ ~Entry.named
  /\ malformed' = IF Entry.keyed THEN TRUE ELSE malformed
  /\ UNCHANGED candidates

Returns ==
  /\ index > Len(answer) /\ snapshot = <<>>
  /\ snapshot' = <<IF malformed \/ Len(candidates) > 1
                   THEN EmptySnapshot("AMBIGUOUS")
                   ELSE IF candidates = <<>> THEN EmptySnapshot("ABSENT")
                   ELSE SnapshotFromRecord(candidates[1])>>
  /\ UNCHANGED <<answer, index, candidates, malformed>>

Next == SkipsNonDictionary \/ KeepsCandidate \/ SkipsOtherApp \/ Returns

Spec == Init /\ [][Next]_vars
-----------------------------------------------------------------------------
TypeOK ==
  /\ answer \in Answers /\ index \in 1..(Len(answer) + 1)
  /\ candidates \in Seq(AppRecords) /\ malformed \in BOOLEAN
  /\ \/ snapshot = <<>>
     \/ \E s \in AppSnapshots : snapshot = <<s>> /\ index = Len(answer) + 1

\* docs/THREAT_MODEL.md invariant 5 (ambiguity fails closed): whatever else
\* the device lists and in which order, a snapshot that allows a mutation
\* rests on the only entry that mentions the target, a User app with a flag
\* the device set; and the target is absent only when no entry mentions it.
FailsClosed ==
  \A k \in DOMAIN snapshot :
    LET mentions == {i \in DOMAIN answer :
                       answer[i].keyed \/ (answer[i].dict /\ answer[i].named)}
    IN /\ EligibleTarget(snapshot[k]) =>
            \E i \in mentions :
              /\ mentions = {i} /\ answer[i].dict /\ answer[i].named
              /\ answer[i].record.type = "User"
              /\ answer[i].record.placeholder \/ answer[i].record.demoted
       /\ snapshot[k].state = "ABSENT" => mentions = {}

\* The loop computes InspectApp: its result depends on which entries the
\* answer has, not on the order in which they came.
ComputesInspectApp ==
  \A k \in DOMAIN snapshot : snapshot[k] = InspectApp(answer)

\* What the loop knows of the entries before index.
LoopInv ==
  /\ malformed <=> \E i \in 1..(index - 1) :
                     answer[i].keyed /\ ~(answer[i].dict /\ answer[i].named)
  /\ LET found == {i \in 1..(index - 1) : answer[i].dict /\ answer[i].named}
     IN \/ candidates = <<>> /\ found = {}
        \/ \E i \in found :
             found = {i} /\ Len(candidates) = 1 /\ candidates[1] = answer[i].record
        \/ Len(candidates) > 1 /\ \E i, j \in found : i # j
=============================================================================
