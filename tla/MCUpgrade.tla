------------------------------ MODULE MCUpgrade ------------------------------
(* A device that may report the target in every policy state.               *)
EXTENDS Upgrade

Filed(type, placeholder, demoted, version) ==
  [keyed |-> TRUE, dict |-> TRUE, named |-> TRUE,
   record |-> [type |-> type, placeholder |-> placeholder,
               demoted |-> demoted, version |-> version]]

Offloaded  == <<Filed("User", FALSE, TRUE, "Other")>>
InstalledTarget == <<Filed("User", FALSE, FALSE, "Target")>>
InstalledOther  == <<Filed("User", FALSE, FALSE, "Other")>>
Twice      == <<Filed("User", TRUE, FALSE, "Target"),
                [Filed("User", TRUE, FALSE, "Target") EXCEPT !.keyed = FALSE]>>

MCAnswers == {<<>>, Offloaded, InstalledTarget, InstalledOther, Twice,
              <<Filed("System", TRUE, FALSE, "Other")>>,
              <<Filed("Unhashable", TRUE, FALSE, "Other")>>}
=============================================================================
