--------------------------- MODULE MCReplayGuard ---------------------------
(* Two requests of one peer at different times, and one of another peer     *)
(* that carries the nonce of the first.                                     *)
EXTENDS ReplayGuard, TLC

CONSTANTS r1, r2, r3, p1, p2, n1, n2, h1, h2

MCReq == (r1 :> [peer |-> p1, nonce |-> n1, stamp |-> 1])
      @@ (r2 :> [peer |-> p1, nonce |-> n2, stamp |-> 4])
      @@ (r3 :> [peer |-> p2, nonce |-> n1, stamp |-> 3])
=============================================================================
