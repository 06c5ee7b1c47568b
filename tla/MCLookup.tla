------------------------------ MODULE MCLookup ------------------------------
(* Up to three entries; where the code reads no record there is one only.   *)
EXTENDS Lookup, FiniteSets

Plain == [type |-> "User", placeholder |-> FALSE, demoted |-> FALSE,
          version |-> "Target"]
Records == {Plain,
            [Plain EXCEPT !.placeholder = TRUE],
            [Plain EXCEPT !.demoted = TRUE, !.version = "Unprintable"],
            [Plain EXCEPT !.type = "System", !.demoted = TRUE],
            [Plain EXCEPT !.type = "Other", !.placeholder = TRUE],
            [Plain EXCEPT !.type = "Unhashable", !.demoted = TRUE]}

MCEntries ==
  {e \in [keyed : BOOLEAN, dict : BOOLEAN, named : BOOLEAN, record : Records] :
     /\ ~e.dict => ~e.named
     /\ ~e.named => e.record = Plain}

MCAnswers ==
  {a \in UNION {[1..n -> MCEntries] : n \in 0..3} :
     Cardinality({i \in DOMAIN a : a[i].keyed}) <= 1}
=============================================================================
