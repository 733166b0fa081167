------------------------ MODULE MCFederatedDelivery ------------------------
(* Instances of FederatedDelivery for TLC: accounts alice and carol on s1,  *)
(* bob on s2.                                                               *)
EXTENDS FederatedDelivery, TLC

CONSTANTS s1, s2, alice, bob, carol, m1, m2, m3, phone

MCHome == (alice :> s1) @@ (bob :> s2) @@ (carol :> s1)

Message(to, counter, cid) ==
  [from |-> alice, to |-> to, device |-> phone, counter |-> counter, cid |-> cid]

(* One message to the other server. *)
OneRemote == m1 :> Message(bob, 1, 1)

(* A local and a remote message; the third reuses the client id of the      *)
(* second with the next counter.                                            *)
Mixed == (m1 :> Message(carol, 1, 1)) @@ (m2 :> Message(bob, 2, 2))
         @@ (m3 :> Message(bob, 3, 2))
=============================================================================
