---------------------------- MODULE MCKeyPackages ----------------------------
(* One account with two devices, three packages, two claimants. *)
EXTENDS KeyPackages

CONSTANTS a1, d1, d2, k1, k2, k3, c1, c2
=============================================================================
