----------------------------- MODULE MCDiscovery -----------------------------
(* Discovery with two other computers.                                         *)
EXTENDS Discovery
CONSTANTS p1, p2, self
=============================================================================
