---------------------------- MODULE MCAudioSource ----------------------------
(* Three process ids: the one in self.process, the one the worker still holds *)
(* from an earlier read, and a fresh one for the next start().                *)
EXTENDS AudioSource

CONSTANTS p1, p2, p3

MCPids == {p1, p2, p3}

=============================================================================
