----------------------------- MODULE MCDiscovery -----------------------------
(* One source next to the instance's own entity, two threads, so that any two *)
(* jobs can overlap, and an environment that sets a prefix no user chooses.   *)
EXTENDS Discovery

CONSTANTS t1, t2, yard

MCFields == {"enabled", "discovery", "discovery_prefix", "password"}
MCDefault == [f \in MCFields |->
    CASE f = "enabled" -> "no" [] f = "discovery" -> "yes"
      [] f = "discovery_prefix" -> "homeassistant" [] f = "password" -> ""]
MCAllowed == [f \in MCFields |->
    CASE f = "discovery_prefix" -> {"homeassistant", "lab"} [] f = "password" -> {"", "typed"}
      [] OTHER -> {"yes", "no"}]
MCOverrides == {[f \in {} |-> ""], [f \in {"password"} |-> "vault"]}
MCWritten == {[f \in {"enabled"} |-> "yes"],
              [f \in {"enabled", "discovery"} |-> IF f = "enabled" THEN "yes" ELSE "no"]}
MCIds == {yard}
MCThreads == {t1, t2}
Symmetry == Permutations(MCThreads)

=============================================================================
