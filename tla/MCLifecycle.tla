----------------------------- MODULE MCLifecycle -----------------------------
(* Two signals. *)
EXTENDS Lifecycle

CONSTANTS g1, g2
=============================================================================
