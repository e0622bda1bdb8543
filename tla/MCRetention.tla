----------------------------- MODULE MCRetention -----------------------------
(* Two sources, so that a row of one is stored while the other's is evicted;  *)
(* snippets as large as the cap, so that two are one too many.                *)
EXTENDS Retention

CONSTANTS yard, shed

MCSources == {yard, shed}
MCSizes == {1}

=============================================================================
