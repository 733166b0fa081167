-------------------------- MODULE FederatedDelivery --------------------------
(***************************************************************************)
(* Delivery of direct messages and of their delivered/read receipts, as    *)
(* storage.py, federation.py and the message endpoints of api.py do it.     *)
(*                                                                         *)
(* A message ("event") is submitted by a client to its own server.  It is  *)
(* stored straight into the recipient's inbox when both accounts live on   *)
(* that server, or put in the federation outbox.  Every server runs one    *)
(* dispatcher that reads the due rows of its two outboxes, posts each row  *)
(* to the peer in a thread pool and waits for the whole batch.  The         *)
(* recipient's client acknowledges; the acknowledgement travels back        *)
(* through the receipt outbox and raises the sender's delivery status.      *)
(*                                                                         *)
(* Each request and each answer can be lost, a request the sender gave up   *)
(* on can still be served later, a server can restart between any two       *)
(* steps, and rows reach the end of their lifetime on each server's own     *)
(* clock.                                                                  *)
(***************************************************************************)
EXTENDS Integers, FiniteSets

CONSTANTS
  Servers,      \* the companion servers
  Accounts,     \* their accounts
  Home,         \* account -> the server it lives on
  Events,       \* the messages clients submit
  Msg,          \* message -> [from, to: account, device, counter, cid: client_event_id]
  Devices,      \* the devices messages are sent from
  MaxAttempts,  \* MAX_OUTBOX_ATTEMPTS
  MaxPerPeer,   \* MAX_OUTBOX_PER_PEER
  Quota,        \* MAX_ACCOUNT_EVENTS, for sent_events and for inbox_events
  Mortal,       \* bound: messages whose lifetime may end during a behaviour
  MaxFaults     \* bound: refusals, losses, time-outs and restarts in a behaviour

NoRow == -1

Kinds == {"event", "delivered", "read"}
Items == Events \X Kinds          \* a row of federation_outbox or of federation_receipt_outbox
Item(e) == <<e, "event">>

SentStates  == {"none", "queued", "accepted", "delivered", "read", "failed"}
InboxStates == {"none", "accepted", "delivered", "read"}
JobStates   == {"idle", "picked", "posted", "checked", "ok", "err"}

Origin(e)   == Home[Msg[e].from]
Dest(e)     == Home[Msg[e].to]
IsLocal(e)  == Origin(e) = Dest(e)
Sender(i)   == IF i[2] = "event" THEN Origin(i[1]) ELSE Dest(i[1])
Receiver(i) == IF i[2] = "event" THEN Dest(i[1]) ELSE Origin(i[1])

(* The rank tables of mark_receipt and accept_federated_receipt. *)
Rank(st) == CASE st = "read"      -> 3
              [] st = "delivered" -> 2
              [] st = "accepted"  -> 1
              [] OTHER            -> 0

ASSUME DeliveryAssumption ==
  /\ Home \in [Accounts -> Servers]
  /\ Msg \in [Events -> [from: Accounts, to: Accounts, device: Devices,
                         counter: Nat \ {0}, cid: Nat]]
  /\ \A e, f \in Events : Msg[e].device = Msg[f].device => Msg[e].from = Msg[f].from
  /\ MaxAttempts \in Nat \ {0}
  /\ MaxPerPeer \in Nat \ {0}
  /\ Quota \in Nat
  /\ MaxFaults \in Nat
  /\ Mortal \subseteq Events

(* A receipt only ever raises the state of a row that is still there.        *)
(* RaisedBlindly drops the comparison.                                       *)
RaisedBlindly(st, new) == IF st # "none" THEN new ELSE st
Raised(st, new) == IF st # "none" /\ Rank(new) > Rank(st) THEN new ELSE st

VARIABLES
  sent,         \* sent_events.state at the origin; "none": no row
  inbox,        \* inbox_events at the destination; "none": no row
  queue,        \* attempts of the outbox row of an item; NoRow: no row
  lastCounter,  \* devices.last_counter
  peerOn,       \* server -> its enabled peers
  disp,         \* where each server's flush_once stands
  job,          \* what the dispatcher's thread is doing with an item
  snap,         \* item["attempts"] as the dispatcher read it
  stray,        \* requests whose sender no longer waits for the answer
  expired,      \* <<server, item>>: that server's clock passed the item's end
  faults,       \* faults so far
  created,      \* history: messages create_outgoing_event ever stored
  ack,          \* history: the furthest inbox state ever recorded
  torn          \* history: messages whose last failure was recorded by half

stores == <<sent, inbox, queue, lastCounter>>
jobs   == <<disp, job, snap>>
vars   == <<sent, inbox, queue, lastCounter, peerOn, disp, job, snap, stray,
            expired, faults, created, ack, torn>>

-----------------------------------------------------------------------------
(* _cleanup_expired_locked at server s, as what it leaves of each table.    *)
(* Outbox rows of messages go with their sent_events row (ON DELETE         *)
(* CASCADE); a receipt row goes on its own age or once it is out of         *)
(* attempts.                                                               *)

Expired(s, i) == <<s, i>> \in expired

KeptSent(s) == [e \in Events |->
  IF Origin(e) = s /\ Expired(s, Item(e)) THEN "none" ELSE sent[e]]

(* KeptInboxUnread purges what has been read as well. *)
KeptInboxUnread(s) == [e \in Events |->
  IF Dest(e) = s /\ (Expired(s, Item(e)) \/ inbox[e] = "read") THEN "none" ELSE inbox[e]]
KeptInbox(s) == [e \in Events |->
  IF Dest(e) = s /\ Expired(s, Item(e)) THEN "none" ELSE inbox[e]]

(* SpentAny lets go of messages too; KeptQueueCascade of the receipts of an  *)
(* expired message.                                                        *)
SpentAny(i) == queue[i] >= MaxAttempts
Spent(i) == i[2] # "event" /\ queue[i] >= MaxAttempts

KeptQueueCascade(s) == [i \in Items |->
  IF Sender(i) = s /\ (Expired(s, i) \/ Expired(s, Item(i[1])) \/ Spent(i))
  THEN NoRow ELSE queue[i]]
KeptQueue(s) == [i \in Items |->
  IF Sender(i) = s /\ (Expired(s, i) \/ Spent(i)) THEN NoRow ELSE queue[i]]

(* _ensure_event_quota_locked: every row of the account counts.  *)
SentRows(rows, a)  == {f \in Events : Msg[f].from = a /\ rows[f] # "none"}
InboxRows(rows, a) == {f \in Events : Msg[f].to = a /\ rows[f] # "none"}
HasRoom(rows) == Cardinality(rows) < Quota

-----------------------------------------------------------------------------
(* Clients *)

(* The conditional UPDATE of devices.last_counter; CounterFreshNever drops    *)
(* its condition, CounterNotBehind lets a counter be used again.            *)
CounterFreshNever(e) == TRUE
CounterNotBehind(e)  == lastCounter[Msg[e].device] <= Msg[e].counter
CounterFresh(e) == lastCounter[Msg[e].device] < Msg[e].counter

(* POST /v1/messages: the peer is resolved first. *)
Routed(e) == IsLocal(e) \/ Dest(e) \in peerOn[Origin(e)]

(* The first time, all of it is one transaction. *)
SubmitLocal(e) ==
  LET s == Origin(e)
      kept == KeptSent(s)
      keptIn == KeptInbox(s)
  IN /\ IsLocal(e)
     /\ \A f \in SentRows(kept, Msg[e].from) : Msg[f].cid # Msg[e].cid
     /\ CounterFresh(e)
     /\ HasRoom(SentRows(kept, Msg[e].from))
     /\ HasRoom(InboxRows(keptIn, Msg[e].to))
     /\ sent' = [kept EXCEPT ![e] = "accepted"]
     /\ inbox' = [keptIn EXCEPT ![e] = "accepted"]
     /\ queue' = KeptQueue(s)
     /\ lastCounter' = [lastCounter EXCEPT ![Msg[e].device] = Msg[e].counter]
     /\ created' = created \cup {e}
     /\ ack' = [ack EXCEPT ![e] = IF @ = "none" THEN "accepted" ELSE @]
     /\ UNCHANGED <<peerOn, jobs, stray, expired, faults, torn>>

SubmitRemote(e) ==
  LET s == Origin(e)
      kept == KeptSent(s)
  IN /\ ~IsLocal(e)
     /\ Routed(e)
     /\ \A f \in SentRows(kept, Msg[e].from) : Msg[f].cid # Msg[e].cid
     /\ CounterFresh(e)
     /\ HasRoom(SentRows(kept, Msg[e].from))
     /\ sent' = [kept EXCEPT ![e] = "queued"]
     /\ inbox' = KeptInbox(s)
     /\ queue' = [KeptQueue(s) EXCEPT ![Item(e)] = 0]
     /\ lastCounter' = [lastCounter EXCEPT ![Msg[e].device] = Msg[e].counter]
     /\ created' = created \cup {e}
     /\ UNCHANGED <<peerOn, jobs, stray, expired, faults, ack, torn>>

(* A full table is found after the counter was raised and the sent row      *)
(* written: ROLLBACK.  CounterKept forgets the counter.                     *)
CounterKept(e) ==
  /\ lastCounter' = [lastCounter EXCEPT ![Msg[e].device] = Msg[e].counter]
  /\ UNCHANGED <<sent, inbox, queue>>
RolledBack(e) == UNCHANGED stores

RefuseFull(e) ==
  LET kept == KeptSent(Origin(e))
  IN /\ Routed(e)
     /\ \A f \in SentRows(kept, Msg[e].from) : Msg[f].cid # Msg[e].cid
     /\ CounterFresh(e)
     /\ \/ ~HasRoom(SentRows(kept, Msg[e].from))
        \/ IsLocal(e) /\ ~HasRoom(InboxRows(KeptInbox(Origin(e)), Msg[e].to))
     /\ RolledBack(e)
     /\ UNCHANGED <<peerOn, jobs, stray, expired, faults, created, ack, torn>>

(* The calls that change nothing but run the cleanup: a repeated            *)
(* POST /v1/messages, and GET /v1/messages.                                 *)
Tidy(s) ==
  /\ sent' = KeptSent(s)
  /\ inbox' = KeptInbox(s)
  /\ queue' = KeptQueue(s)
  /\ UNCHANGED lastCounter

Resubmit(e) ==
  /\ Routed(e)
  /\ KeptSent(Origin(e))[e] # "none"
  /\ Tidy(Origin(e))
  /\ UNCHANGED <<peerOn, jobs, stray, expired, faults, created, ack, torn>>

FetchInbox(a) ==
  /\ Tidy(Home[a])
  /\ UNCHANGED <<peerOn, jobs, stray, expired, faults, created, ack, torn>>

(* INSERT OR IGNORE of the receipts mark_receipt queues; a fresh receipt    *)
(* has a lifetime of its own.  NewReceiptsBoth queues both at once.          *)
NewReceiptsBoth(e, st) == {<<e, "delivered">>, <<e, "read">>}
NewReceipts(e, st) ==
  {<<e, k>> : k \in IF st = "read" /\ inbox[e] = "accepted"
                    THEN {"delivered", "read"} ELSE {st}}

(* POST /v1/messages/receipt.  It does no cleanup, so it still works on an  *)
(* expired row that nobody has purged.                                     *)
MarkReceipt(e, st) ==
  /\ inbox[e] # "none"
  /\ Rank(st) > Rank(inbox[e])
  /\ inbox' = [inbox EXCEPT ![e] = st]
  /\ ack' = [ack EXCEPT ![e] = IF Rank(st) > Rank(@) THEN st ELSE @]
  /\ IF IsLocal(e)
     THEN /\ sent' = [sent EXCEPT ![e] = Raised(@, st)]
          /\ UNCHANGED <<queue, expired>>
     ELSE LET new == {i \in NewReceipts(e, st) : queue[i] = NoRow}
          IN /\ queue' = [i \in Items |-> IF i \in new THEN 0 ELSE queue[i]]
             /\ expired' = expired \ (Servers \X new)
             /\ UNCHANGED sent
  /\ UNCHANGED <<lastCounter, peerOn, jobs, stray, faults, created, torn>>

-----------------------------------------------------------------------------
(* The dispatcher of server s: flush_once reads the due messages, then the   *)
(* due receipts, then hands every row to the pool and waits for all of them *)
(* before it reads again.  next_attempt_at is abstracted: any of the rows   *)
(* with attempts left may be due, at most MaxPerPeer for each peer.         *)

AtMostPerPeer(batch) ==
  \A p \in Servers : Cardinality({i \in batch : Receiver(i) = p}) <= MaxPerPeer

Pick(batch) ==
  /\ job' = [i \in Items |-> IF i \in batch THEN "picked" ELSE job[i]]
  /\ snap' = [i \in Items |-> IF i \in batch THEN queue[i] ELSE snap[i]]

(* DueEventsLate takes one attempt too many. *)
DueEventsLate(s) == {i \in Items : /\ i[2] = "event" /\ Sender(i) = s
                                   /\ KeptQueue(s)[i] \in 0..MaxAttempts}
DueEvents(s) == {i \in Items : /\ i[2] = "event" /\ Sender(i) = s
                               /\ KeptQueue(s)[i] \in 0..(MaxAttempts - 1)}

DueOutbox(s, batch) ==
  /\ disp[s] = "flush"
  /\ \A i \in Items : Sender(i) = s => job[i] = "idle"
  /\ batch \subseteq DueEvents(s)
  /\ AtMostPerPeer(batch)
  /\ Pick(batch)
  /\ disp' = [disp EXCEPT ![s] = "receipts"]
  /\ Tidy(s)
  /\ UNCHANGED <<peerOn, stray, expired, faults, created, ack, torn>>

(* A read receipt waits while the delivered one of its message is there.    *)
(* In DueInAnyOrder it does not; in DueAlone each waits for the other.       *)
DueInAnyOrder(s) ==
  {i \in Items : i[2] # "event" /\ Sender(i) = s /\ KeptQueue(s)[i] \in 0..(MaxAttempts - 1)}
DueAlone(s) ==
  {i \in DueInAnyOrder(s) :
     \A k \in {"delivered", "read"} \ {i[2]} : KeptQueue(s)[<<i[1], k>>] = NoRow}
DueReceiptRows(s) ==
  {i \in Items : /\ i[2] # "event" /\ Sender(i) = s
                 /\ KeptQueue(s)[i] \in 0..(MaxAttempts - 1)
                 /\ ~(i[2] = "read" /\ KeptQueue(s)[<<i[1], "delivered">>] # NoRow)}

DueReceipts(s, batch) ==
  /\ disp[s] = "receipts"
  /\ batch \subseteq DueReceiptRows(s)
  /\ AtMostPerPeer(batch)
  /\ Pick(batch)
  /\ disp' = [disp EXCEPT ![s] = "flush"]
  /\ Tidy(s)
  /\ UNCHANGED <<peerOn, stray, expired, faults, created, ack, torn>>

(* _deliver_event and _deliver_receipt in a pool thread: get_peer, then the *)
(* signed POST.  A disabled peer costs an attempt without a request.          *)
Post(i) ==
  /\ job[i] = "picked"
  /\ disp[Sender(i)] = "flush"
  /\ job' = [job EXCEPT ![i] = IF Receiver(i) \in peerOn[Sender(i)]
                               THEN "posted" ELSE "err"]
  /\ UNCHANGED <<stores, peerOn, disp, snap, stray, expired, faults, created, ack, torn>>

(* A positive answer: mark_outbox_delivered, mark_receipt_outbox_delivered. *)
FinishOk(i) ==
  /\ job[i] = "ok"
  /\ queue' = [queue EXCEPT ![i] = NoRow]
  /\ sent' = IF i[2] = "event"
             THEN [sent EXCEPT ![i[1]] = IF @ \in {"queued", "failed"}
                                         THEN "accepted" ELSE @]
             ELSE sent
  /\ job' = [job EXCEPT ![i] = "idle"]
  /\ snap' = [snap EXCEPT ![i] = 0]
  /\ UNCHANGED <<inbox, lastCounter, peerOn, disp, stray, expired, faults, created, ack, torn>>

(* Any failure: mark_outbox_failed, mark_receipt_outbox_failed.  The last   *)
(* attempt of a message sets its state to failed, whatever it was.          *)
(* GivesUpLate looks at the attempts before this one.                       *)
GivesUpLate(i) == i[2] = "event" /\ snap[i] >= MaxAttempts
GivesUp(i)     == i[2] = "event" /\ snap[i] + 1 >= MaxAttempts

FinishErr(i) ==
  /\ job[i] = "err"
  /\ queue' = [queue EXCEPT ![i] = IF @ = NoRow THEN @ ELSE snap[i] + 1]
  /\ sent' = IF GivesUp(i)
             THEN [sent EXCEPT ![i[1]] = IF @ = "none" THEN @ ELSE "failed"]
             ELSE sent
  /\ job' = [job EXCEPT ![i] = "idle"]
  /\ snap' = [snap EXCEPT ![i] = 0]
  /\ UNCHANGED <<inbox, lastCounter, peerOn, disp, stray, expired, faults, created, ack, torn>>

-----------------------------------------------------------------------------
(* The federation endpoints.  A request is handled in two steps: it is      *)
(* authenticated and validated against the clock, then stored under the     *)
(* lock.  A request nobody waits for any more is handled the same way.      *)

(* Moves one request for i from a stage to the next: the awaited one, with  *)
(* answer `next`, or an abandoned one, whose answer goes nowhere.           *)
Advance(i, stage, next, strayNext) ==
  \/ /\ job[i] = stage
     /\ job' = [job EXCEPT ![i] = next]
     /\ UNCHANGED stray
  \/ /\ <<i, stage>> \in stray
     /\ stray' = (stray \ {<<i, stage>>}) \cup strayNext
     /\ UNCHANGED job

(* _federation_peer, validate_federated_event, validate_receipt. *)
Valid(i) == /\ Sender(i) \in peerOn[Receiver(i)]
            /\ ~Expired(Receiver(i), i)

Validate(i) ==
  /\ IF Valid(i) THEN Advance(i, "posted", "checked", {<<i, "checked">>})
                 ELSE Advance(i, "posted", "err", {})
  /\ UNCHANGED <<stores, peerOn, disp, snap, expired, faults, created, ack, torn>>

(* INSERT OR IGNORE of a message for which there is room.                    *)
OrIgnore(st, room) == IF st = "none" /\ room THEN "accepted" ELSE st

(* accept_federated_event: the cleanup stays whatever follows; the quota    *)
(* is looked at before the row is found to be there already.                *)
StoreEvent(e) ==
  LET d == Dest(e)
      kept == KeptInbox(d)
      room == HasRoom(InboxRows(kept, Msg[e].to))
  IN /\ Advance(Item(e), "checked", IF room THEN "ok" ELSE "err", {})
     /\ inbox' = [kept EXCEPT ![e] = OrIgnore(@, room)]
     /\ ack' = [ack EXCEPT ![e] = IF @ = "none" /\ room THEN "accepted" ELSE @]
     /\ sent' = KeptSent(d)
     /\ queue' = KeptQueue(d)
     /\ UNCHANGED <<lastCounter, peerOn, disp, snap, expired, faults, created, torn>>

(* accept_federated_receipt: event_not_found once the sent row is gone,     *)
(* otherwise the status only ever rises.                                   *)
StoreReceipt(i) ==
  LET e == i[1]
  IN /\ i[2] # "event"
     /\ Advance(i, "checked", IF sent[e] = "none" THEN "err" ELSE "ok", {})
     /\ sent' = [sent EXCEPT ![e] = Raised(@, i[2])]
     /\ UNCHANGED <<inbox, queue, lastCounter, peerOn, disp, snap, expired,
                    faults, created, ack, torn>>

-----------------------------------------------------------------------------
(* Faults and time *)

Fault == faults < MaxFaults /\ faults' = faults + 1

(* A request that never arrives, is refused (overload, clock skew, rate     *)
(* limit), or an answer that is lost or unreadable.                         *)
Lose(i) ==
  /\ Fault
  /\ job[i] \in {"posted", "checked", "ok"}
  /\ job' = [job EXCEPT ![i] = "err"]
  /\ UNCHANGED <<stores, peerOn, disp, snap, stray, expired, created, ack, torn>>

(* The 8 s time-out of signed_json_request: the peer goes on serving.       *)
TimeOut(i) ==
  /\ Fault
  /\ job[i] \in {"posted", "checked"}
  /\ job' = [job EXCEPT ![i] = "err"]
  /\ stray' = stray \cup {<<i, job[i]>>}
  /\ UNCHANGED <<stores, peerOn, disp, snap, expired, created, ack, torn>>

(* Server s stops and starts again, with the peers its options enable now.  *)
(* Its dispatcher's batch is gone (the peer may still serve a request of    *)
(* it), and the requests it was serving fail at their senders.              *)
Reborn(s, peers) ==
  /\ Fault
  /\ peerOn' = [peerOn EXCEPT ![s] = peers]
  /\ disp' = [disp EXCEPT ![s] = "flush"]
  /\ job' = [i \in Items |->
       IF Sender(i) = s THEN "idle"
       ELSE IF Receiver(i) = s /\ job[i] \in {"posted", "checked"} THEN "err"
       ELSE job[i]]
  /\ snap' = [i \in Items |-> IF Sender(i) = s THEN 0 ELSE snap[i]]
  /\ stray' = {x \in stray : Receiver(x[1]) # s}
       \cup {x \in Items \X {"posted", "checked"} :
               /\ Sender(x[1]) = s /\ Receiver(x[1]) # s /\ job[x[1]] = x[2]}
  /\ UNCHANGED <<sent, inbox, lastCounter, expired, created, ack>>

Restart(s, peers) == Reborn(s, peers) /\ UNCHANGED <<queue, torn>>

(* The two updates of mark_outbox_failed are not one transaction: a server   *)
(* that stops between them has used up the attempts and not set the state.  *)
RestartInFailure(i, peers) ==
  /\ job[i] = "err" /\ GivesUp(i)
  /\ queue' = [queue EXCEPT ![i] = IF @ = NoRow THEN @ ELSE snap[i] + 1]
  /\ torn' = torn \cup {i[1]}
  /\ Reborn(Sender(i), peers)

(* The clock of server s passes the expiry of a message or of a receipt.    *)
Age(s, i) ==
  /\ i[1] \in Mortal
  /\ i[1] \in created
  /\ i[2] # "event" => /\ ~IsLocal(i[1])
                       /\ Rank(ack[i[1]]) >= Rank(i[2])
  /\ s \in {Sender(i), Receiver(i)}
  /\ ~Expired(s, i)
  /\ expired' = expired \cup {<<s, i>>}
  /\ UNCHANGED <<stores, peerOn, jobs, stray, faults, created, ack, torn>>

-----------------------------------------------------------------------------
(* Empty stores, every peer configured and enabled.  *)
Init ==
  /\ sent = [e \in Events |-> "none"]
  /\ inbox = [e \in Events |-> "none"]
  /\ queue = [i \in Items |-> NoRow]
  /\ lastCounter = [d \in Devices |-> 0]
  /\ peerOn = [s \in Servers |-> Servers \ {s}]
  /\ disp = [s \in Servers |-> "flush"]
  /\ job = [i \in Items |-> "idle"]
  /\ snap = [i \in Items |-> 0]
  /\ stray = {}
  /\ expired = {}
  /\ faults = 0
  /\ created = {}
  /\ ack = [e \in Events |-> "none"]
  /\ torn = {}

ClientStep ==
  \/ \E e \in Events :
       SubmitLocal(e) \/ SubmitRemote(e) \/ RefuseFull(e) \/ Resubmit(e)
  \/ \E e \in Events, st \in {"delivered", "read"} : MarkReceipt(e, st)
  \/ \E a \in Accounts : FetchInbox(a)

DispatcherStep ==
  \/ \E s \in Servers : \E batch \in SUBSET DueEvents(s) : DueOutbox(s, batch)
  \/ \E s \in Servers : \E batch \in SUBSET DueReceiptRows(s) : DueReceipts(s, batch)
  \/ \E i \in Items : Post(i) \/ FinishOk(i) \/ FinishErr(i)

EndpointStep ==
  \/ \E i \in Items : Validate(i) \/ StoreReceipt(i)
  \/ \E e \in Events : StoreEvent(e)

Environment ==
  \/ \E i \in Items : Lose(i) \/ TimeOut(i)
  \/ \E s \in Servers : \E peers \in SUBSET (Servers \ {s}) : Restart(s, peers)
  \/ \E i \in Items : \E peers \in SUBSET (Servers \ {Sender(i)}) :
       RestartInFailure(i, peers)
  \/ \E s \in Servers, i \in Items : Age(s, i)

Next == ClientStep \/ DispatcherStep \/ EndpointStep \/ Environment

Spec == Init /\ [][Next]_vars

(* What the program schedules: the dispatcher thread runs until the server  *)
(* stops, a posted request is answered or times out, a server serves what   *)
(* reaches it, and rows come due in the order of next_attempt_at, so that   *)
(* no row is passed over for ever.                                          *)
Fairness ==
  /\ \A s \in Servers :
       /\ WF_vars(\E batch \in SUBSET DueEvents(s) : DueOutbox(s, batch))
       /\ WF_vars(\E batch \in SUBSET DueReceiptRows(s) : DueReceipts(s, batch))
  /\ \A i \in Items :
       /\ SF_vars(\E batch \in SUBSET DueEvents(Sender(i)) :
                    i \in batch /\ DueOutbox(Sender(i), batch))
       /\ SF_vars(\E batch \in SUBSET DueReceiptRows(Sender(i)) :
                    i \in batch /\ DueReceipts(Sender(i), batch))
       /\ WF_vars(Post(i))
       /\ WF_vars(job[i] = "posted" /\ Validate(i))
       /\ WF_vars(job[i] = "checked" /\ StoreReceipt(i))
       /\ WF_vars(FinishOk(i))
       /\ WF_vars(FinishErr(i))
  /\ \A e \in Events : WF_vars(job[Item(e)] = "checked" /\ StoreEvent(e))

FairSpec == Spec /\ Fairness

-----------------------------------------------------------------------------
(* Properties *)

(* The values the tables, the jobs and the histories take; an attempt is never
   made beyond MaxAttempts (due_outbox, due_receipts). *)
TypeOK ==
  /\ sent \in [Events -> SentStates]
  /\ inbox \in [Events -> InboxStates]
  /\ queue \in [Items -> NoRow..MaxAttempts]
  /\ lastCounter \in [Devices -> Nat]
  /\ peerOn \in [Servers -> SUBSET Servers]
  /\ disp \in [Servers -> {"flush", "receipts"}]
  /\ job \in [Items -> JobStates]
  /\ snap \in [Items -> 0..(MaxAttempts - 1)]
  /\ stray \subseteq Items \X {"posted", "checked"}
  /\ expired \subseteq Servers \X Items
  /\ faults \in 0..MaxFaults
  /\ created \subseteq Events
  /\ ack \in [Events -> InboxStates]
  /\ torn \subseteq Events

(* The sender's status never claims more than happened at the recipient:    *)
(* "accepted" is only shown once the recipient's server stored the message,  *)
(* "delivered" and "read" once its client acknowledged so, whatever is lost, *)
(* late or repeated on the way (mark_outbox_delivered,                      *)
(* accept_federated_receipt).                                               *)
StatusHonest == \A e \in Events : Rank(sent[e]) <= Rank(ack[e])

(* Until it expires there, a message the recipient's server ever stored is  *)
(* in its inbox in exactly the furthest state its client reported: it is    *)
(* not lost, and it is not offered again once acknowledged, although        *)
(* retries of it may still be arriving (accept_federated_event).            *)
InboxFaithful ==
  \A e \in Events :
    /\ ack[e] # "none" /\ ~Expired(Dest(e), Item(e)) => inbox[e] = ack[e]
    /\ ack[e] = "none" => inbox[e] = "none"

(* A message the server took from its client is kept until it expires: its  *)
(* status row is there, and it is still in the outbox unless the            *)
(* recipient's server has it (create_outgoing_event, mark_outbox_delivered). *)
NothingLost ==
  \A e \in created :
    ~Expired(Origin(e), Item(e)) =>
      /\ sent[e] # "none"
      /\ ack[e] = "none" => queue[Item(e)] # NoRow

(* While a read receipt is with the dispatcher, the delivered receipt of    *)
(* the same message has left the outbox, though both were there together     *)
(* (the NOT EXISTS of due_receipts).                                        *)
ReadHeldBack ==
  \A e \in Events :
    job[<<e, "read">>] # "idle" /\ ~Expired(Dest(e), Item(e))
      => queue[<<e, "delivered">>] = NoRow

(* A device's counter is that of the last message stored for it: a refused  *)
(* submission does not use its counter up, since the update is rolled back  *)
(* with the rest (create_outgoing_event).                                   *)
CounterIsLastStored ==
  \A d \in Devices :
    LET used == {Msg[e].counter : e \in {f \in created : Msg[f].device = d}}
    IN /\ lastCounter[d] \in used \cup {0}
       /\ \A c \in used : c <= lastCounter[d]

(* A message is stored at most once, even when its row was purged and the   *)
(* client submits it again (the counter outlives the row).                  *)
StoredOnce ==
  [][\A e \in Events : sent[e] = "none" /\ sent'[e] # "none" => e \notin created]_vars

(* A receipt leaves the outbox only when the sender's server shows it, or    *)
(* has nothing left to show it on, or the receipt is too old or out of      *)
(* attempts.  A message that is itself out of attempts is excepted: its     *)
(* last attempt may overwrite what the receipt set (see StatusMonotone).    *)
ReceiptKeptUntilLearned ==
  [][\A i \in Items :
       i[2] # "event" /\ queue[i] # NoRow /\ queue'[i] = NoRow
         => \/ Rank(sent[i[1]]) >= Rank(i[2])
            \/ sent[i[1]] = "none"
            \/ queue[Item(i[1])] = MaxAttempts
            \/ Expired(Sender(i), i)
            \/ Spent(i)]_vars

(* What the invariants above rest on.  Nothing is known of a message before *)
(* it is created, and from then on its device's counter is past it.         *)
Bookkeeping ==
  \A e \in Events :
    /\ e \notin created => /\ sent[e] = "none" /\ ack[e] = "none" /\ inbox[e] = "none"
                           /\ queue[Item(e)] = NoRow /\ job[Item(e)] = "idle"
                           /\ \A stage \in {"posted", "checked"} :
                                <<Item(e), stage>> \notin stray
    /\ e \in created => Msg[e].counter <= lastCounter[Msg[e].device]

(* A positive answer to a message means the recipient's server has stored   *)
(* it, and a receipt that is queued, picked or under way tells the truth.   *)
AnswersTrue ==
  /\ \A e \in Events : job[Item(e)] = "ok" => ack[e] # "none"
  /\ \A i \in Items :
       /\ i[2] # "event"
       /\ \/ queue[i] # NoRow
          \/ job[i] # "idle"
          \/ \E stage \in {"posted", "checked"} : <<i, stage>> \in stray
       => Rank(i[2]) <= Rank(ack[i[1]])

(* A message shown as queued can still be attempted: its row is in the       *)
(* outbox with attempts left, unless its server stopped between the two     *)
(* writes of its last failure (mark_outbox_failed, mark_outbox_delivered,   *)
(* and the cascade that takes both rows at once).                           *)
QueuedHasAttempts ==
  \A e \in Events :
    sent[e] = "queued" => queue[Item(e)] \in 0..(MaxAttempts - 1) \/ e \in torn

(* A status of delivered or read falls in one way only: the last attempt of  *)
(* its message failed (mark_outbox_failed sets the state whatever it was).  *)
StatusFallsOnlyWhenGivenUp ==
  [][\A e \in Events :
       sent[e] \in {"delivered", "read"} /\ sent'[e] # "none"
         => \/ Rank(sent'[e]) >= Rank(sent[e])
            \/ /\ sent'[e] = "failed"
               /\ queue[Item(e)] \in 0..(MaxAttempts - 1)
               /\ queue'[Item(e)] = MaxAttempts]_vars

(* While the dispatcher is busy with a message, its outbox row holds the     *)
(* attempts the dispatcher read, or went with its sent row.                 *)
RowsPaired ==
  \A e \in Events :
    job[Item(e)] # "idle" =>
      queue[Item(e)] = snap[Item(e)] \/ (queue[Item(e)] = NoRow /\ sent[e] = "none")

(* A positive answer to a receipt means the sender's server shows it, or     *)
(* has nothing to show it on, or has overwritten it by giving up.           *)
AnswersLearned ==
  \A i \in Items :
    i[2] # "event" /\ job[i] = "ok" =>
      \/ Rank(sent[i[1]]) >= Rank(i[2])
      \/ sent[i[1]] = "none"
      \/ queue[Item(i[1])] = MaxAttempts

(* The inductive invariants of FederatedDeliveryProofs: the second needs the *)
(* first.                                                                   *)
DeliveryInv == /\ TypeOK /\ Bookkeeping /\ AnswersTrue
               /\ StatusHonest /\ InboxFaithful /\ NothingLost
OutboxInv == RowsPaired /\ AnswersLearned /\ QueuedHasAttempts /\ ReadHeldBack

(* Every queued message is settled: it is accepted, reported or given up.   *)
(* The one exception is a message whose server stopped between the two      *)
(* writes of its last failure: that one is shown as queued until it expires. *)
QueuedSettles ==
  \A e \in Events : sent[e] = "queued" ~> sent[e] # "queued" \/ e \in torn

(* If no peer is ever switched off and fewer attempts fail than a row has,  *)
(* a message read at the recipient is shown as read to the sender.          *)
AllPeersOn == \A s \in Servers : peerOn[s] = Servers \ {s}
ReadIsReported ==
  []AllPeersOn => \A e \in Events : ack[e] = "read" ~> sent[e] = "read"

(* docs/protocol.md:57: "Both states are monotonic": a status only rises,   *)
(* as long as the server remembers the message.                             *)
StatusMonotone ==
  [][\A e \in Events :
       sent[e] \in {"delivered", "read"} /\ sent'[e] # "none"
         => Rank(sent'[e]) >= Rank(sent[e])]_vars

(* What the sender and the recipient see of a message, see DeliveryStatus.  *)
Promise == INSTANCE DeliveryStatus WITH
  status <- [e \in Events |-> IF sent[e] = "none" /\ e \in created
                               THEN "forgotten" ELSE sent[e]],
  ack <- ack
PromiseKept == Promise!Spec
=============================================================================
