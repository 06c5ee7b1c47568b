---------------------------- MODULE LookupProofs ----------------------------
(***************************************************************************)
(* For every answer of the device, of any length: the loop of inspect_app  *)
(* computes InspectApp, and fails closed.                                  *)
(***************************************************************************)
EXTENDS Lookup, TLAPS

\* A record becomes a snapshot of the types the evidence has (apps.py:91-116).
LEMMA SnapshotType ==
  ASSUME NEW r \in AppRecords
  PROVE  SnapshotFromRecord(r) \in AppSnapshots
  BY DEF AppRecords, SnapshotFromRecord, EmptySnapshot, BoundedString,
         AppSnapshots, AppStates, Versions, RawVersions

\* An ineligible, absent or ambiguous answer is a snapshot too.
LEMMA EmptyType ==
  ASSUME NEW s \in AppStates
  PROVE  EmptySnapshot(s) \in AppSnapshots
  BY DEF EmptySnapshot, AppSnapshots, Versions

\* The loop variables keep their types at every item.
LEMMA TypeStep == TypeOK /\ [Next]_vars => TypeOK'
<1> SUFFICES ASSUME TypeOK, [Next]_vars PROVE TypeOK'
  OBVIOUS
<1>0. answer \in Seq(Entries) /\ Len(answer) \in Nat /\ index \in Nat
      /\ answer \in Answers /\ malformed \in BOOLEAN
  BY AnswersAssumption DEF TypeOK
<1>a. ASSUME Takes
      PROVE  /\ index' \in 1..(Len(answer) + 1)
             /\ answer' = answer /\ snapshot' = <<>> /\ Entry \in Entries
  <2>1. index \in 1..Len(answer) /\ index' = index + 1
    BY <1>0, <1>a DEF Takes, TypeOK
  <2>2. answer[index] \in Entries
    BY <1>0, <2>1
  <2>3. snapshot = <<>>
    BY <1>0, <1>a DEF Takes, TypeOK
  <2> QED
    BY <1>0, <1>a, <2>1, <2>2, <2>3 DEF Takes, Entry
<1>b. ASSUME Takes, malformed' \in BOOLEAN, candidates' \in Seq(AppRecords)
      PROVE  TypeOK'
  BY <1>0, <1>a, <1>b DEF TypeOK
<1>1. CASE SkipsNonDictionary
  <2>1. (malformed \/ Entry.keyed) \in BOOLEAN
    OBVIOUS
  <2> QED
    BY <1>b, <1>1, <2>1 DEF SkipsNonDictionary, TypeOK
<1>2. CASE KeepsCandidate
  <2>1. Entry.record \in AppRecords
    BY <1>2, <1>a DEF KeepsCandidate, Entries
  <2> QED
    BY <1>b, <1>2, <2>1 DEF KeepsCandidate, TypeOK
<1>3. CASE SkipsOtherApp
  <2>1. (IF Entry.keyed THEN TRUE ELSE malformed) \in BOOLEAN
    BY <1>0
  <2> QED
    BY <1>b, <1>3, <2>1 DEF SkipsOtherApp, TypeOK
<1>4. CASE Returns
  <2>1. candidates # <<>> => candidates[1] \in AppRecords
    BY DEF TypeOK
  <2>2. \E s \in AppSnapshots : snapshot' = <<s>>
    BY <1>4, <2>1, SnapshotType, EmptyType DEF Returns, AppStates
  <2> QED
    BY <1>0, <1>4, <2>2 DEF Returns, TypeOK
<1>5. CASE UNCHANGED vars
  BY <1>5 DEF vars, TypeOK
<1> QED
  BY <1>1, <1>2, <1>3, <1>4, <1>5 DEF Next

\* apps.py:144-162: index, candidates, malformed_exact_record and the returned
\* snapshot have their types for every answer the device may give.
THEOREM TypeCorrect == Spec => []TypeOK
<1>1. Init => TypeOK
  <2> SUFFICES ASSUME Init PROVE TypeOK
    OBVIOUS
  <2>1. answer \in Answers /\ 1 \in 1..(Len(answer) + 1)
    BY AnswersAssumption DEF Init
  <2>2. <<>> \in Seq(AppRecords)
    OBVIOUS
  <2> QED
    BY <2>1, <2>2 DEF Init, TypeOK
<1> QED
  BY <1>1, TypeStep, PTL DEF Spec

\* candidates and malformed_exact_record summarise the items read so far.
LEMMA LoopStep == TypeOK /\ LoopInv /\ [Next]_vars => LoopInv'
<1> SUFFICES ASSUME TypeOK, LoopInv, [Next]_vars PROVE LoopInv'
  OBVIOUS
<1> DEFINE Kept(n) == {i \in 1..(n - 1) : answer[i].dict /\ answer[i].named}
<1>0. /\ answer \in Seq(Entries) /\ Len(answer) \in Nat
      /\ index \in 1..(Len(answer) + 1)
      /\ candidates \in Seq(AppRecords) /\ malformed \in BOOLEAN
  BY AnswersAssumption DEF TypeOK
<1>1. ASSUME Takes
      PROVE  /\ 1..(index' - 1) = 1..(index - 1) \cup {index}
             /\ index \notin 1..(index - 1)
             /\ answer' = answer /\ Entry = answer[index]
             /\ Entry.keyed \in BOOLEAN /\ Entry.dict \in BOOLEAN
             /\ Entry.named \in BOOLEAN
  <2>1. index \in 1..Len(answer) /\ index' = index + 1
    BY <1>0, <1>1 DEF Takes
  <2>2. answer[index] \in Entries
    BY <1>0, <2>1
  <2> QED
    BY <1>1, <2>1, <2>2 DEF Takes, Entry, Entries
<1>2. ASSUME Takes, ~(Entry.dict /\ Entry.named), UNCHANGED candidates,
             malformed' <=> (malformed \/ Entry.keyed)
      PROVE  LoopInv'
  <2>1. Kept(index') = Kept(index)
    BY <1>1, <1>2
  <2>2. malformed' <=> \E i \in 1..(index' - 1) :
          answer[i].keyed /\ ~(answer[i].dict /\ answer[i].named)
    BY <1>1, <1>2 DEF LoopInv
  <2> QED
    BY <1>1, <1>2, <2>1, <2>2 DEF LoopInv
<1>3. CASE SkipsNonDictionary
  BY <1>2, <1>3 DEF SkipsNonDictionary
<1>4. CASE SkipsOtherApp
  BY <1>0, <1>1, <1>2, <1>4 DEF SkipsOtherApp
<1>5. CASE KeepsCandidate
  <2>1. Takes /\ Entry.dict /\ Entry.named /\ UNCHANGED malformed
        /\ candidates' = Append(candidates, Entry.record)
    BY <1>5 DEF KeepsCandidate
  <2>2. Kept(index') = Kept(index) \cup {index} /\ index \notin Kept(index)
    BY <1>1, <2>1
  <2>3. malformed' <=> \E i \in 1..(index' - 1) :
          answer[i].keyed /\ ~(answer[i].dict /\ answer[i].named)
    BY <1>1, <2>1 DEF LoopInv
  <2>4. /\ Len(candidates') = Len(candidates) + 1
        /\ Len(candidates) \in Nat
        /\ candidates = <<>> => candidates'[1] = answer[index].record
    BY <1>0, <1>1, <2>1 DEF Entries
  <2>5. CASE candidates = <<>> /\ Kept(index) = {}
    <3>1. Kept(index') = {index} /\ Len(candidates') = 1
          /\ candidates'[1] = answer'[index].record
      BY <1>1, <2>1, <2>2, <2>4, <2>5
    <3> QED
      BY <1>1, <2>1, <2>3, <3>1 DEF LoopInv
  <2>6. CASE \E i \in Kept(index) : Len(candidates) >= 1
    <3>1. Len(candidates') > 1
      BY <2>4, <2>6
    <3>2. \E i, j \in Kept(index') : i # j
      BY <2>2, <2>6
    <3> QED
      BY <1>1, <2>1, <2>3, <3>1, <3>2 DEF LoopInv
  <2>7. \/ candidates = <<>> /\ Kept(index) = {}
        \/ \E i \in Kept(index) : Len(candidates) >= 1
    BY <2>4 DEF LoopInv
  <2> QED
    BY <2>5, <2>6, <2>7
<1>6. CASE Returns \/ UNCHANGED vars
  <2>1. UNCHANGED <<answer, index, candidates, malformed>>
    BY <1>6 DEF Returns, vars
  <2> QED
    BY <2>1 DEF LoopInv
<1> QED
  BY <1>3, <1>4, <1>5, <1>6 DEF Next

\* At the end of the loop its branches are those of InspectApp.
LEMMA ReturnIsInspectApp ==
  ASSUME TypeOK, LoopInv, Returns
  PROVE  snapshot' = <<InspectApp(answer)>>
<1>0. answer \in Seq(Entries) /\ index = Len(answer) + 1 /\ Len(answer) \in Nat
      /\ candidates \in Seq(AppRecords)
  BY AnswersAssumption DEF TypeOK, Returns
<1>1. 1..(index - 1) = DOMAIN answer
  BY <1>0
<1>2. malformed <=> Malformed(answer)
  BY <1>1 DEF LoopInv, Malformed
<1>3. \/ candidates = <<>> /\ Candidates(answer) = {}
      \/ \E i \in Candidates(answer) :
           Candidates(answer) = {i} /\ Len(candidates) = 1
           /\ candidates[1] = answer[i].record
      \/ Len(candidates) > 1 /\ \E i, j \in Candidates(answer) : i # j
  BY <1>1 DEF LoopInv, Candidates
<1>4. CASE candidates = <<>> /\ Candidates(answer) = {}
  BY <1>0, <1>2, <1>4 DEF Returns, InspectApp
<1>5. CASE \E i \in Candidates(answer) :
             Candidates(answer) = {i} /\ Len(candidates) = 1
             /\ candidates[1] = answer[i].record
  <2>1. PICK i \in Candidates(answer) :
          Candidates(answer) = {i} /\ Len(candidates) = 1
          /\ candidates[1] = answer[i].record
    BY <1>5
  <2>2. (CHOOSE k \in Candidates(answer) : TRUE) = i
    BY <2>1
  <2>3. candidates # <<>> /\ ~(Len(candidates) > 1)
    <3>1. ~(Len(candidates) > 1)
      BY <2>1
    <3>2. Len(<<>>) = 0
      OBVIOUS
    <3> QED
      BY <2>1, <3>1, <3>2
  <2>4. ~\E k, j \in Candidates(answer) : k # j
    BY <2>1
  <2> QED
    BY <1>2, <2>1, <2>2, <2>3, <2>4 DEF Returns, InspectApp
<1>6. CASE Len(candidates) > 1 /\ \E i, j \in Candidates(answer) : i # j
  BY <1>2, <1>6 DEF Returns, InspectApp
<1> QED
  BY <1>3, <1>4, <1>5, <1>6

\* apps.py:144-162: what candidates and malformed_exact_record hold is exactly
\* what the items read so far say of the target.
THEOREM LoopSummary == Spec => []LoopInv
<1>1. Init => LoopInv
  BY DEF Init, LoopInv
<1> QED
  BY <1>1, LoopStep, TypeCorrect, PTL DEF Spec

\* apps.py:144-162: for every answer, in whichever order its items come, the
\* loop returns InspectApp of it.
THEOREM LoopComputesInspectApp == Spec => []ComputesInspectApp
<1>1. Init => ComputesInspectApp
  BY DEF Init, ComputesInspectApp
<1>2. TypeOK /\ LoopInv /\ ComputesInspectApp /\ [Next]_vars
        => ComputesInspectApp'
  <2> SUFFICES ASSUME TypeOK, LoopInv, ComputesInspectApp, [Next]_vars
               PROVE  ComputesInspectApp'
    OBVIOUS
  <2>1. CASE Returns
    <3>1. snapshot' = <<InspectApp(answer)>> /\ answer' = answer
      BY <2>1, ReturnIsInspectApp DEF Returns
    <3> QED
      BY <3>1 DEF ComputesInspectApp
  <2>2. CASE UNCHANGED <<answer, snapshot>>
    BY <2>2 DEF ComputesInspectApp
  <2> QED
    BY <2>1, <2>2 DEF Next, vars, SkipsNonDictionary, KeepsCandidate,
                      SkipsOtherApp, Takes
<1> QED
  BY <1>1, <1>2, TypeCorrect, LoopSummary, PTL DEF Spec

\* InspectApp allows a mutation, or says absent, only when the answer does.
LEMMA InspectAppFailsClosed ==
  ASSUME NEW a \in Seq(Entries)
  PROVE  LET mentions == {i \in DOMAIN a :
                            a[i].keyed \/ (a[i].dict /\ a[i].named)}
         IN /\ EligibleTarget(InspectApp(a)) =>
                 \E i \in mentions :
                   /\ mentions = {i} /\ a[i].dict /\ a[i].named
                   /\ a[i].record.type = "User"
                   /\ a[i].record.placeholder \/ a[i].record.demoted
            /\ InspectApp(a).state = "ABSENT" => mentions = {}
<1> DEFINE mentions == {i \in DOMAIN a :
                          a[i].keyed \/ (a[i].dict /\ a[i].named)}
<1>1. CASE Malformed(a) \/ \E i, j \in Candidates(a) : i # j
  <2>1. InspectApp(a).state = "AMBIGUOUS"
    BY <1>1 DEF InspectApp, EmptySnapshot
  <2> QED
    BY <2>1 DEF EligibleTarget
<1>2. CASE ~Malformed(a) /\ Candidates(a) = {}
  <2>1. InspectApp(a).state = "ABSENT"
    BY <1>2 DEF InspectApp, EmptySnapshot
  <2>2. mentions = {}
    BY <1>2 DEF Malformed, Candidates
  <2> QED
    BY <2>1, <2>2 DEF EligibleTarget
<1>3. CASE ~Malformed(a) /\ \E i \in Candidates(a) : Candidates(a) = {i}
  <2>1. PICK i \in Candidates(a) : Candidates(a) = {i}
    BY <1>3
  <2>2. mentions = {i} /\ a[i].dict /\ a[i].named /\ a[i] \in Entries
    BY <1>3, <2>1 DEF Malformed, Candidates
  <2>3. InspectApp(a) = SnapshotFromRecord(a[i].record)
    <3>1. (CHOOSE k \in Candidates(a) : TRUE) = i
      BY <2>1
    <3> QED
      BY <1>3, <2>1, <3>1 DEF InspectApp
  <2>4. a[i].record \in AppRecords
    BY <2>2 DEF Entries
  <2>5. SnapshotFromRecord(a[i].record).state # "ABSENT"
    BY DEF SnapshotFromRecord, EmptySnapshot
  <2>6. EligibleTarget(SnapshotFromRecord(a[i].record)) =>
          /\ a[i].record.type = "User"
          /\ a[i].record.placeholder \/ a[i].record.demoted
    BY <2>4 DEF EligibleTarget, SnapshotFromRecord, EmptySnapshot, AppRecords
  <2> QED
    BY <2>2, <2>3, <2>5, <2>6
<1> QED
  BY <1>1, <1>2, <1>3

\* docs/THREAT_MODEL.md invariant 5: no answer, however long, makes an
\* ambiguous, foreign or absent target eligible.
THEOREM LookupFailsClosed == Spec => []FailsClosed
<1>1. TypeOK /\ ComputesInspectApp => FailsClosed
  <2> SUFFICES ASSUME TypeOK, ComputesInspectApp PROVE FailsClosed
    OBVIOUS
  <2>1. answer \in Seq(Entries)
    BY AnswersAssumption DEF TypeOK
  <2> QED
    BY <2>1, InspectAppFailsClosed DEF FailsClosed, ComputesInspectApp
<1> QED
  BY <1>1, TypeCorrect, LoopComputesInspectApp, PTL
=============================================================================
