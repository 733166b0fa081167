------------------------------ MODULE MCStartup ------------------------------
(* Two peers, two addresses with two ports each; peers and addresses are    *)
(* interchangeable.                                                        *)
EXTENDS Startup, TLC

CONSTANTS p1, p2, ip1, ip2

Symmetry == Permutations(Peers) \cup Permutations(Addresses)
=============================================================================
