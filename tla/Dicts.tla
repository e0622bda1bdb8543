-------------------------------- MODULE Dicts --------------------------------
(* Python's dicts as functions. *)

\* {**old, **new}
Over(new, old) ==
    [k \in DOMAIN new \cup DOMAIN old |-> IF k \in DOMAIN new THEN new[k] ELSE old[k]]

=============================================================================
