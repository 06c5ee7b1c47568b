-------------------------------- MODULE Apps --------------------------------
(***************************************************************************)
(* How one answer of the device's installation proxy becomes the policy    *)
(* state of the target application (src/ios_rehydrate/apps.py), and the    *)
(* two policy tests rehydration makes of that state (upgrade.py).          *)
(*                                                                         *)
(* An answer is a sequence of entries, one per dictionary item.  What an   *)
(* entry says of the target is kept (is it filed under the target's        *)
(* identifier, is it a dictionary, does it name the target, the policy     *)
(* flags); version and build are one value, Target for the pair the IPA    *)
(* carries.                                                                *)
(***************************************************************************)
EXTENDS Sequences

\* RAISED stands for no snapshot: the call ends with a TypeError.
AppStates == {"ABSENT", "PLACEHOLDER", "INSTALLED", "SYSTEM", "AMBIGUOUS",
              "RAISED"}

\* Unprintable is a version string that _bounded_string refuses to publish.
RawVersions == {"Target", "Other", "Unprintable"}
Versions    == {"Target", "Other", "None"}

\* Unhashable is a list or a dictionary where the type should be.
AppRecords == [type : {"User", "System", "Other", "Unhashable"},
               placeholder : BOOLEAN, demoted : BOOLEAN, version : RawVersions]

Entries == [keyed : BOOLEAN, dict : BOOLEAN, named : BOOLEAN,
            record : AppRecords]

AppSnapshots == [state : AppStates, version : Versions,
                 placeholder : BOOLEAN, demoted : BOOLEAN]

EmptySnapshot(state) ==
  [state |-> state, version |-> "None", placeholder |-> FALSE,
   demoted |-> FALSE]

BoundedString(v) == IF v = "Unprintable" THEN "None" ELSE v

SnapshotFromRecord(r) ==
  IF r.type = "Unhashable" THEN EmptySnapshot("RAISED")
  ELSE IF r.type \notin {"User", "System"} THEN EmptySnapshot("AMBIGUOUS")
  ELSE [state |-> IF r.type = "System" THEN "SYSTEM"
                  ELSE IF r.placeholder \/ r.demoted THEN "PLACEHOLDER"
                  ELSE "INSTALLED",
        version     |-> BoundedString(r.version),
        placeholder |-> r.placeholder,
        demoted     |-> r.demoted]

\* Entries the lookup loop keeps, and entries that contradict themselves.
Candidates(answer) ==
  {i \in DOMAIN answer : answer[i].dict /\ answer[i].named}
Malformed(answer) ==
  \E i \in DOMAIN answer :
     answer[i].keyed /\ ~(answer[i].dict /\ answer[i].named)

\* inspect_app after the lookup answered with a dictionary.
InspectApp(answer) ==
  IF Malformed(answer)
     \/ \E i, j \in Candidates(answer) : i # j
  THEN EmptySnapshot("AMBIGUOUS")
  ELSE IF Candidates(answer) = {} THEN EmptySnapshot("ABSENT")
  ELSE SnapshotFromRecord(answer[CHOOSE i \in Candidates(answer) : TRUE].record)

EligibleTarget(s) == s.state = "PLACEHOLDER" /\ (s.placeholder \/ s.demoted)

PostflightMatches(s) ==
  /\ s.state = "INSTALLED"
  /\ ~s.placeholder
  /\ ~s.demoted
  /\ s.version = "Target"
=============================================================================
