----------------------------- MODULE MCRehydrate -----------------------------
(* A target that is offloaded, installed by the IPA, or gone.               *)
EXTENDS Rehydrate

Filed(placeholder, version) ==
  <<[keyed |-> TRUE, dict |-> TRUE, named |-> TRUE,
     record |-> [type |-> "User", placeholder |-> placeholder,
                 demoted |-> FALSE, version |-> version]]>>

MCAnswers == {<<>>, Filed(TRUE, "Other"), Filed(FALSE, "Target")}
=============================================================================
