--------------------------- MODULE DeliveryStatus ---------------------------
(***************************************************************************)
(* What the delivery of messages promises to its users, message by message: *)
(* `status` is what the sender is shown, `ack` what has really happened at  *)
(* the recipient.  The queue, the network, the servers and their restarts   *)
(* are all out of sight.  FederatedDelivery implements this.                *)
(***************************************************************************)
EXTENDS Integers

CONSTANT Events
VARIABLES status, ack

Statuses == {"none", "queued", "accepted", "delivered", "read", "failed", "forgotten"}
Acks == {"none", "accepted", "delivered", "read"}

Level(st) == CASE st = "read"      -> 3
               [] st = "delivered" -> 2
               [] st = "accepted"  -> 1
               [] OTHER            -> 0

Init == /\ status = [e \in Events |-> "none"]
        /\ ack = [e \in Events |-> "none"]

(* At the recipient: a message taken from its sender is stored, then its    *)
(* client acknowledges it; nothing is ever taken back.                      *)
Arrives(e) == /\ status'[e] # "none"
              /\ ack[e] = "none" /\ ack'[e] = "accepted"
Acknowledged(e) == /\ ack[e] # "none"
                   /\ Level(ack'[e]) > Level(ack[e])

(* At the sender. *)
Submitted(e) == /\ status[e] = "none"
                /\ \/ status'[e] = "queued"
                   \/ status'[e] = "accepted" /\ ack'[e] = "accepted"
Known(e) == status[e] \notin {"none", "forgotten"}
Learned(e) == /\ Known(e)
              /\ Level(status[e]) < Level(status'[e])
              /\ Level(status'[e]) <= Level(ack'[e])
GivenUp(e) == Known(e) /\ status'[e] = "failed"
Forgotten(e) == Known(e) /\ status'[e] = "forgotten"

AckStep(e) == ack'[e] = ack[e] \/ Arrives(e) \/ Acknowledged(e)
StatusStep(e) == \/ status'[e] = status[e]
                 \/ Submitted(e) \/ Learned(e) \/ GivenUp(e) \/ Forgotten(e)

(* One step may touch several messages: a cleanup forgets all that expired. *)
Next == /\ status' \in [Events -> Statuses]
        /\ ack' \in [Events -> Acks]
        /\ \A e \in Events : AckStep(e) /\ StatusStep(e)

Spec == Init /\ [][Next]_<<status, ack>>
=============================================================================
