-------------------------- MODULE MCSourceRegistry --------------------------
(* Two names, so that a rename has somewhere to go and a deleted name can be  *)
(* taken again; two handlers, so that any two requests can overlap.           *)
EXTENDS SourceRegistry, TLC

CONSTANTS yard, shed, h1, h2

MCNames == {yard, shed}
MCHandlers == {h1, h2}
Symmetry == Permutations(MCHandlers) \cup Permutations(MCNames)

=============================================================================
