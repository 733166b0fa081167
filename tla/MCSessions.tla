----------------------------- MODULE MCSessions -----------------------------
(* Two handlers, three addresses of which the limiter remembers two, one token. *)
EXTENDS Sessions, TLC

CONSTANTS h1, h2, ip1, ip2, ip3, t1

Symmetry == Permutations(Handlers) \cup Permutations(Keys) \cup Permutations(Tokens)
=============================================================================
