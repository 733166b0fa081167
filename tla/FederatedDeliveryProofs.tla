----------------------- MODULE FederatedDeliveryProofs -----------------------
(***************************************************************************)
(* Proofs that FederatedDelivery keeps its invariants for every set of      *)
(* servers, accounts and messages, every quota, every number of attempts    *)
(* and every number of faults.                                              *)
(***************************************************************************)
EXTENDS FederatedDelivery, TLAPS

(* Items and the servers they concern. *)
LEMMA ItemFacts ==
  /\ \A e \in Events : /\ Item(e) \in Items /\ Item(e)[1] = e /\ Item(e)[2] = "event"
                       /\ Origin(e) \in Servers /\ Dest(e) \in Servers
                       /\ Msg[e].device \in Devices /\ Msg[e].counter \in Nat \ {0}
                       /\ \A k \in Kinds : /\ <<e, k>> \in Items
                                           /\ <<e, k>>[1] = e /\ <<e, k>>[2] = k
  /\ \A i \in Items : i[1] \in Events /\ i[2] \in Kinds /\ i = <<i[1], i[2]>>
<1>1. \A e \in Events : /\ Msg[e].from \in Accounts /\ Msg[e].to \in Accounts
                        /\ Msg[e].device \in Devices /\ Msg[e].counter \in Nat \ {0}
  BY DeliveryAssumption
<1>2. \A e \in Events : Origin(e) \in Servers /\ Dest(e) \in Servers
  BY <1>1, DeliveryAssumption DEF Origin, Dest
<1> QED
  BY <1>1, <1>2 DEF Items, Item, Kinds

(* What the cleanup of a server leaves: each row as it was, or no row, and   *)
(* only because the row's lifetime is over or a receipt is out of attempts.  *)
LEMMA KeptFacts ==
  ASSUME NEW s \in Servers
  PROVE  /\ \A e \in Events :
              /\ KeptSent(s)[e] = sent[e]
                 \/ (KeptSent(s)[e] = "none" /\ Expired(Origin(e), Item(e)))
              /\ KeptInbox(s)[e] = inbox[e]
                 \/ (KeptInbox(s)[e] = "none" /\ Expired(Dest(e), Item(e)))
              /\ KeptQueue(s)[Item(e)] = queue[Item(e)]
                 \/ (KeptQueue(s)[Item(e)] = NoRow /\ Expired(Origin(e), Item(e)))
         /\ \A i \in Items : KeptQueue(s)[i] \in {queue[i], NoRow}
         /\ DOMAIN KeptSent(s) = Events
         /\ DOMAIN KeptInbox(s) = Events
         /\ DOMAIN KeptQueue(s) = Items
<1>1. \A e \in Events : KeptSent(s)[e] = sent[e]
                 \/ (KeptSent(s)[e] = "none" /\ Expired(Origin(e), Item(e)))
  BY DEF KeptSent
<1>2. \A e \in Events : KeptInbox(s)[e] = inbox[e]
                 \/ (KeptInbox(s)[e] = "none" /\ Expired(Dest(e), Item(e)))
  BY DEF KeptInbox
<1>3. \A e \in Events : KeptQueue(s)[Item(e)] = queue[Item(e)]
                 \/ (KeptQueue(s)[Item(e)] = NoRow /\ Expired(Origin(e), Item(e)))
  BY ItemFacts DEF KeptQueue, Spent, Sender
<1>4. \A i \in Items : KeptQueue(s)[i] \in {queue[i], NoRow}
  BY DEF KeptQueue
<1> QED
  BY <1>1, <1>2, <1>3, <1>4 DEF KeptSent, KeptInbox, KeptQueue

(* The cleanup keeps the types of the tables. *)
LEMMA KeptTypes ==
  ASSUME TypeOK, NEW s \in Servers
  PROVE  /\ KeptSent(s) \in [Events -> SentStates]
         /\ KeptInbox(s) \in [Events -> InboxStates]
         /\ KeptQueue(s) \in [Items -> NoRow..MaxAttempts]
<1>1. NoRow \in NoRow..MaxAttempts
  BY DeliveryAssumption DEF NoRow
<1> QED
  BY <1>1 DEF TypeOK, KeptSent, KeptInbox, KeptQueue, SentStates, InboxStates

(* What is picked is a row that is there, with attempts left. *)
LEMMA DueFacts ==
  \A s \in Servers :
    /\ \A i \in DueEvents(s) : i \in Items /\ i[2] = "event" /\ queue[i] # NoRow
    /\ \A i \in DueReceiptRows(s) : i \in Items /\ i[2] # "event" /\ queue[i] # NoRow
    /\ \A i \in DueEvents(s) \cup DueReceiptRows(s) : queue[i] \in 0..(MaxAttempts - 1)
<1> SUFFICES ASSUME NEW s \in Servers, NEW i \in DueEvents(s) \cup DueReceiptRows(s)
             PROVE  i \in Items /\ queue[i] # NoRow /\ queue[i] \in 0..(MaxAttempts - 1)
  BY DEF DueEvents, DueReceiptRows
<1>1. i \in Items /\ KeptQueue(s)[i] \in 0..(MaxAttempts - 1)
  BY DEF DueEvents, DueReceiptRows
<1>2. KeptQueue(s)[i] = queue[i] \/ KeptQueue(s)[i] = NoRow
  BY <1>1, KeptFacts
<1> QED
  BY <1>1, <1>2, DeliveryAssumption DEF NoRow

(* A receipt is never the outbox row of a message. *)
LEMMA NewReceiptFacts ==
  ASSUME NEW e \in Events, NEW st \in {"delivered", "read"}
  PROVE  \A i \in NewReceipts(e, st) :
           i \in Items /\ i[1] = e /\ i[2] # "event" /\ Rank(i[2]) <= Rank(st)
<1>1. \A k \in {"delivered", "read"} :
        /\ <<e, k>> \in Items /\ <<e, k>>[1] = e /\ <<e, k>>[2] = k
        /\ k # "event"
  BY ItemFacts DEF Kinds
<1>2. ASSUME NEW i \in NewReceipts(e, st)
      PROVE  \E k \in {"delivered", "read"} : i = <<e, k>> /\ Rank(k) <= Rank(st)
  BY <1>2 DEF NewReceipts, Rank
<1> QED
  BY <1>1, <1>2

(* The empty stores are well typed. *)
LEMMA TypeInit == Init => TypeOK
BY DeliveryAssumption DEF Init, TypeOK, SentStates, InboxStates, JobStates, NoRow

(* A refused submission leaves everything as it was. *)
LEMMA RefusedStutters == \A e \in Events : RefuseFull(e) => UNCHANGED vars
BY DEF RefuseFull, RolledBack, stores, jobs, vars

(* A client call leaves the tables well typed. *)
LEMMA TypeClient == TypeOK /\ ClientStep => TypeOK'
<1> SUFFICES ASSUME TypeOK, ClientStep PROVE TypeOK'
  OBVIOUS
<1> USE DEF SentStates, InboxStates, JobStates
<1>0. 0 \in NoRow..MaxAttempts
  BY DeliveryAssumption DEF NoRow
<1>1. ASSUME NEW e \in Events, SubmitLocal(e) PROVE TypeOK'
  <2>1. Origin(e) \in Servers /\ Msg[e].device \in Devices /\ Msg[e].counter \in Nat
    BY ItemFacts
  <2> QED
    BY <1>1, <2>1, KeptTypes DEF CounterFresh, SubmitLocal, TypeOK, jobs
<1>2. ASSUME NEW e \in Events, SubmitRemote(e) PROVE TypeOK'
  <2>1. Origin(e) \in Servers /\ Msg[e].device \in Devices /\ Msg[e].counter \in Nat
    BY ItemFacts
  <2> QED
    BY <1>0, <1>2, <2>1, KeptTypes DEF CounterFresh, SubmitRemote, TypeOK, jobs
<1>3. ASSUME NEW e \in Events, Resubmit(e) PROVE TypeOK'
  BY <1>3, KeptTypes, ItemFacts DEF Resubmit, Tidy, TypeOK, jobs
<1>4. ASSUME NEW e \in Events, NEW st \in {"delivered", "read"}, MarkReceipt(e, st)
      PROVE TypeOK'
  BY <1>0, <1>4 DEF Raised, MarkReceipt, TypeOK, jobs
<1>5. ASSUME NEW a \in Accounts, FetchInbox(a) PROVE TypeOK'
  <2>1. Home[a] \in Servers
    BY DeliveryAssumption
  <2> QED
    BY <1>5, <2>1, KeptTypes DEF FetchInbox, Tidy, TypeOK, jobs
<1>6. ASSUME NEW e \in Events, RefuseFull(e) PROVE TypeOK'
  BY <1>6, RefusedStutters DEF vars, TypeOK
<1> QED
  BY <1>1, <1>2, <1>3, <1>4, <1>5, <1>6 DEF ClientStep

(* So does a step of a dispatcher: an attempt counted is below the limit. *)
LEMMA TypeDispatcher == TypeOK /\ DispatcherStep => TypeOK'
<1> SUFFICES ASSUME TypeOK, DispatcherStep PROVE TypeOK'
  OBVIOUS
<1> USE DEF SentStates, InboxStates, JobStates
<1>1. ASSUME NEW s \in Servers, NEW batch \in SUBSET DueEvents(s), DueOutbox(s, batch)
      PROVE TypeOK'
  <2>1. snap' \in [Items -> 0..(MaxAttempts - 1)]
    BY DueFacts, <1>1 DEF DueOutbox, Pick, TypeOK
  <2> QED
    BY <1>1, <2>1, KeptTypes DEF DueOutbox, Pick, Tidy, TypeOK
<1>2. ASSUME NEW s \in Servers, NEW batch \in SUBSET DueReceiptRows(s),
             DueReceipts(s, batch)
      PROVE TypeOK'
  <2>1. snap' \in [Items -> 0..(MaxAttempts - 1)]
    BY DueFacts, <1>2 DEF DueReceipts, Pick, TypeOK
  <2> QED
    BY <1>2, <2>1, KeptTypes DEF DueReceipts, Pick, Tidy, TypeOK
<1>3. ASSUME NEW i \in Items, Post(i) PROVE TypeOK'
  BY <1>3 DEF Post, TypeOK, stores
<1>4. ASSUME NEW i \in Items, FinishOk(i) PROVE TypeOK'
  <2>1. NoRow \in NoRow..MaxAttempts /\ 0 \in 0..(MaxAttempts - 1)
    BY DeliveryAssumption DEF NoRow
  <2> QED
    BY <1>4, <2>1 DEF FinishOk, TypeOK
<1>5. ASSUME NEW i \in Items, FinishErr(i) PROVE TypeOK'
  <2>1. snap[i] + 1 \in NoRow..MaxAttempts /\ 0 \in 0..(MaxAttempts - 1)
    BY DeliveryAssumption DEF NoRow, TypeOK
  <2> QED
    BY <1>5, <2>1 DEF GivesUp, FinishErr, TypeOK
<1> QED
  BY <1>1, <1>2, <1>3, <1>4, <1>5 DEF DispatcherStep

(* So does a federation endpoint. *)
LEMMA TypeEndpoint == TypeOK /\ EndpointStep => TypeOK'
<1> SUFFICES ASSUME TypeOK, EndpointStep PROVE TypeOK'
  OBVIOUS
<1> USE DEF SentStates, InboxStates, JobStates
<1>1. ASSUME NEW i \in Items, Validate(i) PROVE TypeOK'
  BY <1>1 DEF Validate, Advance, TypeOK, stores
<1>2. ASSUME NEW i \in Items, StoreReceipt(i) PROVE TypeOK'
  <2>1. i[1] \in Events /\ i[2] \in {"delivered", "read"}
    BY <1>2, ItemFacts DEF Raised, StoreReceipt, Kinds
  <2>2. sent' \in [Events -> SentStates]
    BY <1>2, <2>1 DEF Raised, StoreReceipt, TypeOK
  <2>3. /\ job' \in [Items -> JobStates]
        /\ stray' \subseteq Items \X {"posted", "checked"}
    BY <1>2 DEF Raised, StoreReceipt, Advance, TypeOK
  <2> QED
    BY <1>2, <2>2, <2>3 DEF Raised, StoreReceipt, TypeOK
<1>3. ASSUME NEW e \in Events, StoreEvent(e) PROVE TypeOK'
  <2>1. Dest(e) \in Servers /\ Item(e) \in Items
    BY ItemFacts
  <2>2. /\ job' \in [Items -> JobStates]
        /\ stray' \subseteq Items \X {"posted", "checked"}
    BY <1>3, <2>1 DEF OrIgnore, StoreEvent, Advance, TypeOK
  <2>3. inbox' \in [Events -> InboxStates] /\ ack' \in [Events -> InboxStates]
    BY <1>3, <2>1, KeptTypes DEF OrIgnore, StoreEvent, TypeOK
  <2> QED
    BY <1>3, <2>1, <2>2, <2>3, KeptTypes DEF OrIgnore, StoreEvent, TypeOK
<1> QED
  BY <1>1, <1>2, <1>3 DEF EndpointStep

(* So do faults, restarts and time. *)
LEMMA TypeEnvironment == TypeOK /\ Environment => TypeOK'
<1> SUFFICES ASSUME TypeOK, Environment PROVE TypeOK'
  OBVIOUS
<1> USE DEF SentStates, InboxStates, JobStates
<1>0. Fault => faults' \in 0..MaxFaults
  BY DeliveryAssumption DEF Fault, TypeOK
<1>1. ASSUME NEW i \in Items, Lose(i) PROVE TypeOK'
  BY <1>0, <1>1 DEF Lose, TypeOK, stores
<1>2. ASSUME NEW i \in Items, TimeOut(i) PROVE TypeOK'
  BY <1>0, <1>2 DEF TimeOut, TypeOK, stores
<1>3. ASSUME NEW s \in Servers, NEW peers \in SUBSET (Servers \ {s}), Restart(s, peers)
      PROVE TypeOK'
  <2>1. 0 \in 0..(MaxAttempts - 1)
    BY DeliveryAssumption
  <2> QED
    BY <1>0, <1>3, <2>1 DEF Restart, Reborn, TypeOK
<1>4. ASSUME NEW s \in Servers, NEW i \in Items, Age(s, i) PROVE TypeOK'
  BY <1>4 DEF Age, TypeOK, stores, jobs
<1>5. ASSUME NEW i \in Items, NEW peers \in SUBSET (Servers \ {Sender(i)}),
             RestartInFailure(i, peers)
      PROVE TypeOK'
  <2>1. snap[i] + 1 \in NoRow..MaxAttempts /\ 0 \in 0..(MaxAttempts - 1)
    BY DeliveryAssumption DEF NoRow, TypeOK
  <2>2. i[1] \in Events
    BY ItemFacts
  <2>3. /\ queue' \in [Items -> NoRow..MaxAttempts]
        /\ torn' \subseteq Events
    BY <1>5, <2>1, <2>2 DEF RestartInFailure, TypeOK
  <2> QED
    BY <1>0, <1>5, <2>1, <2>3 DEF RestartInFailure, Reborn, TypeOK
<1> QED
  BY <1>1, <1>2, <1>3, <1>4, <1>5 DEF Environment

(* TypeOK is inductive. *)
LEMMA TypeNext == TypeOK /\ [Next]_vars => TypeOK'
<1>1. TypeOK /\ UNCHANGED vars => TypeOK'
  BY DEF vars, TypeOK
<1> QED
  BY <1>1, TypeClient, TypeDispatcher, TypeEndpoint, TypeEnvironment DEF Next

(* Every table, job and request keeps its type: in particular the attempts   *)
(* of an outbox row never pass MAX_OUTBOX_ATTEMPTS (mark_outbox_failed).     *)
THEOREM TypeCorrect == Spec => []TypeOK
BY TypeInit, TypeNext, PTL DEF Spec

-----------------------------------------------------------------------------
(* Nothing is known of a message before it is created. *)
LEMMA BookkeepingNext == TypeOK /\ Bookkeeping /\ Next => Bookkeeping'
<1> SUFFICES ASSUME TypeOK, Bookkeeping, Next PROVE Bookkeeping'
  OBVIOUS
<1>1. ASSUME NEW e \in Events, SubmitLocal(e)
      PROVE  Bookkeeping'
  BY <1>1, ItemFacts, KeptFacts DEF CounterFresh, SubmitLocal, jobs, stores, Bookkeeping, TypeOK
<1>2. ASSUME NEW e \in Events, SubmitRemote(e)
      PROVE  Bookkeeping'
  BY <1>2, ItemFacts, KeptFacts DEF CounterFresh, SubmitRemote, jobs, stores, Bookkeeping, TypeOK
<1>3. ASSUME NEW e \in Events, Resubmit(e)
      PROVE  Bookkeeping'
  BY <1>3, ItemFacts, KeptFacts DEF Resubmit, Tidy, jobs, Bookkeeping, TypeOK
<1>4. ASSUME NEW e \in Events, NEW st \in {"delivered", "read"}, MarkReceipt(e, st)
      PROVE  Bookkeeping'
  <2>1. \A f \in Events : Item(f) \notin NewReceipts(e, st)
    BY NewReceiptFacts, ItemFacts
  <2>2. \A f \in Events : queue'[Item(f)] = queue[Item(f)]
    BY <1>4, <2>1, ItemFacts DEF Raised, MarkReceipt, TypeOK
  <2>3. /\ sent[e] = "none" => sent'[e] = "none"
        /\ \A f \in Events : f # e => sent'[f] = sent[f] /\ ack'[f] = ack[f]
        /\ e \in created
    BY <1>4 DEF Raised, MarkReceipt, TypeOK, Bookkeeping
  <2> QED
    BY <1>4, <2>2, <2>3 DEF Raised, MarkReceipt, jobs, Bookkeeping
<1>5. ASSUME NEW a \in Accounts, FetchInbox(a)
      PROVE  Bookkeeping'
  <2>1. Home[a] \in Servers
    BY DeliveryAssumption
  <2> QED
    BY <1>5, <2>1, ItemFacts, KeptFacts DEF FetchInbox, Tidy, jobs, Bookkeeping, TypeOK
<1>6. ASSUME NEW s \in Servers, NEW batch \in SUBSET DueEvents(s), DueOutbox(s, batch)
      PROVE  Bookkeeping'
  <2>1. \A f \in Events : job'[Item(f)] # "idle" =>
          job[Item(f)] # "idle" \/ queue[Item(f)] # NoRow
    BY <1>6, DueFacts, ItemFacts DEF DueOutbox, Pick
  <2> QED
    BY <1>6, <2>1, ItemFacts, KeptFacts DEF DueOutbox, Tidy, Bookkeeping
<1>7. ASSUME NEW s \in Servers, NEW batch \in SUBSET DueReceiptRows(s),
             DueReceipts(s, batch)
      PROVE  Bookkeeping'
  <2>1. \A f \in Events : job'[Item(f)] = job[Item(f)]
    BY <1>7, DueFacts, ItemFacts DEF DueReceipts, Pick, TypeOK
  <2> QED
    BY <1>7, <2>1, ItemFacts, KeptFacts DEF DueReceipts, Tidy, Bookkeeping
<1>8. ASSUME NEW i \in Items, Post(i)
      PROVE  Bookkeeping'
  BY <1>8, ItemFacts DEF Post, jobs, stores, Bookkeeping, TypeOK
<1>9. ASSUME NEW i \in Items, FinishOk(i)
      PROVE  Bookkeeping'
  BY <1>9, ItemFacts DEF FinishOk, jobs, stores, Bookkeeping, TypeOK
<1>10. ASSUME NEW i \in Items, FinishErr(i)
      PROVE  Bookkeeping'
  BY <1>10, ItemFacts DEF GivesUp, FinishErr, jobs, stores, Bookkeeping, TypeOK
<1>11. ASSUME NEW i \in Items, Validate(i)
      PROVE  Bookkeeping'
  BY <1>11, ItemFacts DEF Validate, Advance, stores, Bookkeeping, TypeOK
<1>12. ASSUME NEW i \in Items, StoreReceipt(i)
      PROVE  Bookkeeping'
  BY <1>12, ItemFacts DEF Raised, StoreReceipt, Advance, stores, Bookkeeping, TypeOK
<1>13. ASSUME NEW e \in Events, StoreEvent(e)
      PROVE  Bookkeeping'
  BY <1>13, ItemFacts, KeptFacts DEF OrIgnore, StoreEvent, Advance, stores, Bookkeeping, TypeOK
<1>14. ASSUME NEW i \in Items, Lose(i)
      PROVE  Bookkeeping'
  BY <1>14, ItemFacts DEF Lose, jobs, stores, Bookkeeping, TypeOK
<1>15. ASSUME NEW i \in Items, TimeOut(i)
      PROVE  Bookkeeping'
  BY <1>15, ItemFacts DEF TimeOut, jobs, stores, Bookkeeping, TypeOK
<1>16. ASSUME NEW s \in Servers, NEW peers \in SUBSET (Servers \ {s}),
             Restart(s, peers)
      PROVE  Bookkeeping'
  BY <1>16, ItemFacts DEF Restart, Reborn, Bookkeeping, TypeOK
<1>17. ASSUME NEW s \in Servers, NEW i \in Items, Age(s, i)
      PROVE  Bookkeeping'
  BY <1>17, ItemFacts DEF Age, jobs, stores, Bookkeeping, TypeOK
<1>18. ASSUME NEW i \in Items, NEW peers \in SUBSET (Servers \ {Sender(i)}),
              RestartInFailure(i, peers)
       PROVE  Bookkeeping'
  <2>1. \A j \in Items : queue[j] = NoRow => queue'[j] = NoRow
    BY <1>18 DEF RestartInFailure, TypeOK
  <2>2. /\ \A j \in Items : job[j] = "idle" => job'[j] = "idle"
        /\ \A j \in Items, stage \in {"posted", "checked"} :
             <<j, stage>> \in stray' => <<j, stage>> \in stray \/ job[j] = stage
    BY <1>18 DEF RestartInFailure, Reborn
  <2> QED
    BY <1>18, <2>1, <2>2, ItemFacts DEF RestartInFailure, Reborn, Bookkeeping
<1>19. ASSUME NEW e \in Events, RefuseFull(e)
       PROVE  Bookkeeping'
  BY <1>19, RefusedStutters DEF vars, Bookkeeping
<1> QED
  BY <1>1, <1>2, <1>3, <1>4, <1>5, <1>6, <1>7, <1>8, <1>9, <1>10, <1>11, <1>12, <1>13,
     <1>14, <1>15, <1>16, <1>17, <1>18, <1>19
     DEF Next, ClientStep, DispatcherStep, EndpointStep, Environment

(* Ranks are numbers from 0 to 3. *)
LEMMA RankFacts == \A st : Rank(st) \in 0..3
BY DEF Rank

(* What the recipient did is never taken back. *)
LEMMA AckGrows ==
  ASSUME TypeOK, Next
  PROVE  \A e \in Events : /\ Rank(ack[e]) <= Rank(ack'[e])
                           /\ ack[e] # "none" => ack'[e] # "none"
<1>1. \A e \in Events : Rank(ack[e]) \in 0..3
  BY DEF TypeOK, InboxStates, Rank
<1>2. ASSUME ack' = ack
      PROVE  \A e \in Events : /\ Rank(ack[e]) <= Rank(ack'[e])
                               /\ ack[e] # "none" => ack'[e] # "none"
  BY <1>1, <1>2
<1>3. ASSUME NEW f \in Events, NEW room \in BOOLEAN,
             ack' = [ack EXCEPT ![f] = IF @ = "none" /\ room THEN "accepted" ELSE @]
      PROVE  \A e \in Events : /\ Rank(ack[e]) <= Rank(ack'[e])
                               /\ ack[e] # "none" => ack'[e] # "none"
  <2>1. Rank("none") <= Rank("accepted")
    BY DEF Rank
  <2> QED
    BY <1>1, <1>3, <2>1 DEF TypeOK
<1>4. ASSUME NEW f \in Events, SubmitLocal(f)
      PROVE  ack' = [ack EXCEPT ![f] = IF @ = "none" /\ TRUE THEN "accepted" ELSE @]
  BY <1>4 DEF CounterFresh, SubmitLocal
<1>5. ASSUME NEW f \in Events, StoreEvent(f)
      PROVE  \E room \in BOOLEAN :
               ack' = [ack EXCEPT ![f] = IF @ = "none" /\ room THEN "accepted" ELSE @]
  BY <1>5 DEF OrIgnore, StoreEvent, HasRoom
<1>6. ASSUME NEW f \in Events, NEW st \in {"delivered", "read"}, MarkReceipt(f, st)
      PROVE  \A e \in Events : /\ Rank(ack[e]) <= Rank(ack'[e])
                               /\ ack[e] # "none" => ack'[e] # "none"
  <2>1. \A e \in Events : ack'[e] = ack[e]
                        \/ (ack'[e] = st /\ Rank(st) > Rank(ack[e]))
    BY <1>6 DEF Raised, MarkReceipt, TypeOK
  <2> QED
    BY <1>1, <2>1 DEF Rank
<1>7. \/ ack' = ack
      \/ \E f \in Events : SubmitLocal(f) \/ StoreEvent(f)
      \/ \E f \in Events, st \in {"delivered", "read"} : MarkReceipt(f, st)
  BY DEF CounterFresh, GivesUp, Raised, Next, ClientStep, DispatcherStep, EndpointStep, Environment, SubmitRemote,
         RefuseFull, Resubmit, FetchInbox, DueOutbox, DueReceipts, Post, FinishOk, FinishErr,
         Validate, StoreReceipt, Lose, TimeOut, Restart, RestartInFailure, Reborn, Age
<1> QED
  BY <1>2, <1>3, <1>4, <1>5, <1>6, <1>7

(* Answers and receipts under way stay true. *)
LEMMA AnswersTrueNext == TypeOK /\ AnswersTrue /\ Next => AnswersTrue'
<1> SUFFICES ASSUME TypeOK, AnswersTrue, Next PROVE AnswersTrue'
  OBVIOUS
<1>1. ASSUME NEW e \in Events, SubmitLocal(e)
      PROVE  AnswersTrue'
  <2>1. \A f \in Events : Item(f) \in Items => job'[Item(f)] = job[Item(f)]
    BY <1>1 DEF CounterFresh, SubmitLocal, jobs
  <2>2. \A i \in Items : /\ queue'[i] # NoRow => queue[i] # NoRow
                         /\ job'[i] = job[i] /\ stray' = stray
    BY <1>1, ItemFacts, KeptFacts DEF CounterFresh, SubmitLocal, jobs
  <2> QED
    BY <2>1, <2>2, ItemFacts, AckGrows, RankFacts DEF AnswersTrue
<1>2. ASSUME NEW e \in Events, SubmitRemote(e)
      PROVE  AnswersTrue'
  BY <1>2, ItemFacts, AckGrows, RankFacts, KeptFacts DEF CounterFresh, SubmitRemote, jobs, stores, AnswersTrue, TypeOK
<1>3. ASSUME NEW e \in Events, Resubmit(e)
      PROVE  AnswersTrue'
  BY <1>3, ItemFacts, AckGrows, RankFacts, KeptFacts DEF Resubmit, Tidy, jobs, AnswersTrue, TypeOK
<1>4. ASSUME NEW e \in Events, NEW st \in {"delivered", "read"}, MarkReceipt(e, st)
      PROVE  AnswersTrue'
  <2>1. \A i \in Items : \/ queue'[i] = queue[i]
                         \/ i \in NewReceipts(e, st)
    BY <1>4 DEF Raised, MarkReceipt, TypeOK
  <2>2. Rank(st) <= Rank(ack'[e])
    BY <1>4, RankFacts DEF Raised, MarkReceipt, TypeOK
  <2>3. job' = job /\ stray' = stray
    BY <1>4 DEF Raised, MarkReceipt, jobs
  <2> QED
    BY <2>1, <2>2, <2>3, ItemFacts, AckGrows, NewReceiptFacts, RankFacts DEF AnswersTrue
<1>5. ASSUME NEW a \in Accounts, FetchInbox(a)
      PROVE  AnswersTrue'
  <2>1. Home[a] \in Servers
    BY DeliveryAssumption
  <2>2. \A i \in Items : queue'[i] # NoRow => queue[i] # NoRow
    BY <1>5, <2>1, KeptFacts DEF FetchInbox, Tidy
  <2> QED
    BY <1>5, <2>2, ItemFacts DEF FetchInbox, jobs, AnswersTrue
<1>6. ASSUME NEW s \in Servers, NEW batch \in SUBSET DueEvents(s), DueOutbox(s, batch)
      PROVE  AnswersTrue'
  <2>1. \A i \in Items : queue'[i] # NoRow => queue[i] # NoRow
    BY <1>6, KeptFacts DEF DueOutbox, Tidy
  <2>2. \A i \in Items : job'[i] = job[i] \/ (job'[i] = "picked" /\ queue[i] # NoRow)
    BY <1>6, DueFacts DEF DueOutbox, Pick
  <2>3. ack' = ack /\ stray' = stray
    BY <1>6 DEF DueOutbox
  <2> QED
    BY <2>1, <2>2, <2>3, ItemFacts DEF AnswersTrue
<1>7. ASSUME NEW s \in Servers, NEW batch \in SUBSET DueReceiptRows(s),
             DueReceipts(s, batch)
      PROVE  AnswersTrue'
  <2>1. \A i \in Items : queue'[i] # NoRow => queue[i] # NoRow
    BY <1>7, KeptFacts DEF DueReceipts, Tidy
  <2>2. \A i \in Items : job'[i] = job[i] \/ (job'[i] = "picked" /\ queue[i] # NoRow)
    BY <1>7, DueFacts DEF DueReceipts, Pick
  <2>3. ack' = ack /\ stray' = stray
    BY <1>7 DEF DueReceipts
  <2> QED
    BY <2>1, <2>2, <2>3, ItemFacts DEF AnswersTrue
<1>8. ASSUME NEW i \in Items, Post(i)
      PROVE  AnswersTrue'
  BY <1>8, ItemFacts, AckGrows, RankFacts DEF Post, jobs, stores, AnswersTrue, TypeOK
<1>9. ASSUME NEW i \in Items, FinishOk(i)
      PROVE  AnswersTrue'
  BY <1>9, ItemFacts, AckGrows, RankFacts DEF FinishOk, jobs, stores, AnswersTrue, TypeOK
<1>10. ASSUME NEW i \in Items, FinishErr(i)
      PROVE  AnswersTrue'
  BY <1>10, ItemFacts, AckGrows, RankFacts DEF GivesUp, FinishErr, jobs, stores, AnswersTrue, TypeOK
<1>11. ASSUME NEW i \in Items, Validate(i)
      PROVE  AnswersTrue'
  BY <1>11, ItemFacts, AckGrows, RankFacts DEF Validate, Advance, stores, AnswersTrue, TypeOK
<1>12. ASSUME NEW i \in Items, StoreReceipt(i)
      PROVE  AnswersTrue'
  BY <1>12, ItemFacts, AckGrows, RankFacts DEF Raised, StoreReceipt, Advance, stores, AnswersTrue, TypeOK
<1>13. ASSUME NEW e \in Events, StoreEvent(e)
      PROVE  AnswersTrue'
  <2>1. \A i \in Items : queue'[i] # NoRow => queue[i] # NoRow
    BY <1>13, ItemFacts, KeptFacts DEF OrIgnore, StoreEvent
  <2>2. \A i \in Items : i # Item(e) =>
          /\ job'[i] = job[i]
          /\ \A stage \in {"posted", "checked"} : <<i, stage>> \in stray' <=> <<i, stage>> \in stray
    BY <1>13 DEF OrIgnore, StoreEvent, Advance, TypeOK
  <2>3. job'[Item(e)] = "ok" => job[Item(e)] = "ok" \/ ack'[e] # "none"
    <3>1. CASE HasRoom(InboxRows(KeptInbox(Dest(e)), Msg[e].to))
      BY <1>13, <3>1, ItemFacts DEF OrIgnore, StoreEvent, TypeOK
    <3>2. CASE ~HasRoom(InboxRows(KeptInbox(Dest(e)), Msg[e].to))
      BY <1>13, <3>2, ItemFacts DEF OrIgnore, StoreEvent, Advance, TypeOK
    <3> QED
      BY <3>1, <3>2
  <2>4. \A f \in Events : job'[Item(f)] = "ok" => ack'[f] # "none"
    <3>1. \A f \in Events : job[Item(f)] = "ok" => ack'[f] # "none"
      BY AckGrows DEF AnswersTrue
    <3>2. \A f \in Events : f = e \/ job'[Item(f)] = job[Item(f)]
      <4>1. \A f \in Events : Item(f) \in Items /\ (Item(f) = Item(e) => f = e)
        BY ItemFacts DEF Item
      <4> QED
        BY <2>2, <4>1
    <3> QED
      BY <2>3, <3>1, <3>2
  <2>5. \A i \in Items : i[2] # "event" =>
          /\ i # Item(e) /\ Rank(ack[i[1]]) <= Rank(ack'[i[1]])
    BY ItemFacts, AckGrows
  <2> QED
    BY <2>1, <2>2, <2>4, <2>5, ItemFacts, RankFacts DEF AnswersTrue
<1>14. ASSUME NEW i \in Items, Lose(i)
      PROVE  AnswersTrue'
  BY <1>14, ItemFacts, AckGrows, RankFacts DEF Lose, jobs, stores, AnswersTrue, TypeOK
<1>15. ASSUME NEW i \in Items, TimeOut(i)
      PROVE  AnswersTrue'
  BY <1>15, ItemFacts, AckGrows, RankFacts DEF TimeOut, jobs, stores, AnswersTrue, TypeOK
<1>16. ASSUME NEW s \in Servers, NEW peers \in SUBSET (Servers \ {s}),
             Restart(s, peers)
      PROVE  AnswersTrue'
  BY <1>16, ItemFacts, AckGrows, RankFacts DEF Restart, Reborn, AnswersTrue, TypeOK
<1>17. ASSUME NEW s \in Servers, NEW i \in Items, Age(s, i)
      PROVE  AnswersTrue'
  BY <1>17, ItemFacts, AckGrows, RankFacts DEF Age, jobs, stores, AnswersTrue, TypeOK
<1>18. ASSUME NEW i \in Items, NEW peers \in SUBSET (Servers \ {Sender(i)}),
              RestartInFailure(i, peers)
       PROVE  AnswersTrue'
  <2>1. \A j \in Items : queue[j] = NoRow => queue'[j] = NoRow
    BY <1>18 DEF RestartInFailure, TypeOK
  <2>2. /\ \A j \in Items : job'[j] = job[j] \/ job'[j] = "idle"
                            \/ (job'[j] = "err" /\ job[j] # "idle")
        /\ \A j \in Items, stage \in {"posted", "checked"} :
             <<j, stage>> \in stray' => <<j, stage>> \in stray \/ job[j] = stage
        /\ ack' = ack
    BY <1>18 DEF RestartInFailure, Reborn
  <2> QED
    BY <2>1, <2>2, ItemFacts DEF AnswersTrue
<1>19. ASSUME NEW e \in Events, RefuseFull(e)
       PROVE  AnswersTrue'
  BY <1>19, RefusedStutters DEF vars, AnswersTrue
<1> QED
  BY <1>1, <1>2, <1>3, <1>4, <1>5, <1>6, <1>7, <1>8, <1>9, <1>10, <1>11, <1>12, <1>13,
     <1>14, <1>15, <1>16, <1>17, <1>18, <1>19
     DEF Next, ClientStep, DispatcherStep, EndpointStep, Environment


(* No step but these touches the outboxes, the statuses or the history. *)
LEMMA StoreSteps ==
  ASSUME Next
  PROVE  \/ /\ created' = created
            /\ \/ sent' = sent /\ queue' = queue
               \/ \E s \in Servers : sent' = KeptSent(s) /\ queue' = KeptQueue(s)
         \/ \E e \in Events : SubmitLocal(e) \/ SubmitRemote(e)
         \/ \E e \in Events, st \in {"delivered", "read"} : MarkReceipt(e, st)
         \/ \E i \in Items : FinishOk(i) \/ FinishErr(i) \/ StoreReceipt(i)
         \/ \E i \in Items : \E peers : RestartInFailure(i, peers)
<1> DEFINE Cleaned == /\ created' = created
                      /\ \/ sent' = sent /\ queue' = queue
                         \/ \E s \in Servers : sent' = KeptSent(s) /\ queue' = KeptQueue(s)
<1>1. ClientStep => \/ Cleaned
                    \/ \E e \in Events : SubmitLocal(e) \/ SubmitRemote(e)
                    \/ \E e \in Events, st \in {"delivered", "read"} : MarkReceipt(e, st)
  BY ItemFacts, DeliveryAssumption
     DEF ClientStep, RefuseFull, RolledBack, stores, Resubmit, FetchInbox, Tidy
<1>2. DispatcherStep => Cleaned \/ \E i \in Items : FinishOk(i) \/ FinishErr(i)
  BY DEF DispatcherStep, DueOutbox, DueReceipts, Tidy, Post, stores
<1>3. EndpointStep => Cleaned \/ \E i \in Items : StoreReceipt(i)
  BY ItemFacts DEF EndpointStep, Validate, StoreEvent, stores
<1>4. Environment => Cleaned \/ \E i \in Items : \E peers : RestartInFailure(i, peers)
  BY DEF Environment, Lose, TimeOut, Restart, Reborn, Age, stores
<1> QED
  BY <1>1, <1>2, <1>3, <1>4 DEF Next

(* No step shows the sender more than happened. *)
LEMMA StatusHonestNext ==
  ASSUME TypeOK, AnswersTrue, StatusHonest, Next
  PROVE  StatusHonest'
<1> DEFINE Settled(e) == \/ Rank(sent'[e]) <= Rank(sent[e])
                         \/ Rank(sent'[e]) <= Rank(ack'[e])
<1> SUFFICES \A e \in Events : Settled(e)
  BY AckGrows, RankFacts DEF StatusHonest
<1> HIDE DEF Settled
<1>0. ASSUME NEW s \in Servers, sent' = KeptSent(s)
      PROVE  \A e \in Events : Settled(e)
  <2>1. Rank("none") = 0
    BY DEF Rank
  <2> QED
    BY <1>0, <2>1, KeptFacts, RankFacts DEF Settled
<1>1. ASSUME NEW f \in Events, NEW st, NEW s \in Servers,
             sent' = [KeptSent(s) EXCEPT ![f] = st], Rank(st) <= Rank(ack'[f])
      PROVE  \A e \in Events : Settled(e)
  <2>1. Rank("none") = 0
    BY DEF Rank
  <2>2. \A e \in Events \ {f} : sent'[e] = sent[e] \/ sent'[e] = "none"
    BY <1>1, KeptFacts
  <2>3. sent'[f] = st
    BY <1>1, KeptFacts
  <2> QED
    BY <1>1, <2>1, <2>2, <2>3, RankFacts DEF Settled
<1>2. ASSUME NEW f \in Events, NEW st,
             \A e \in Events : sent'[e] = sent[e] \/ (e = f /\ sent'[e] = st),
             Rank(st) <= Rank(ack'[f])
      PROVE  \A e \in Events : Settled(e)
  BY <1>2, RankFacts DEF Settled
<1>3. ASSUME NEW e \in Events, SubmitLocal(e) PROVE \A f \in Events : Settled(f)
  <2>1. ack'[e] # "none"
    BY <1>3 DEF CounterFresh, SubmitLocal, TypeOK
  <2>2. ack'[e] \in InboxStates
    BY <1>3 DEF CounterFresh, SubmitLocal, TypeOK, InboxStates
  <2>3. Rank("accepted") <= Rank(ack'[e])
    BY <2>1, <2>2 DEF InboxStates, Rank
  <2> QED
    BY <1>1, <1>3, <2>3, ItemFacts DEF CounterFresh, SubmitLocal
<1>4. ASSUME NEW e \in Events, SubmitRemote(e) PROVE \A f \in Events : Settled(f)
  <2>1. Rank("queued") <= Rank(ack'[e])
    BY RankFacts DEF Rank
  <2> QED
    BY <1>1, <1>4, <2>1, ItemFacts DEF CounterFresh, SubmitRemote
<1>5. ASSUME NEW e \in Events, NEW st \in {"delivered", "read"}, MarkReceipt(e, st)
      PROVE  \A f \in Events : Settled(f)
  <2>1. Rank(st) <= Rank(ack'[e])
    BY <1>5, RankFacts DEF Raised, MarkReceipt, TypeOK
  <2>2. \A f \in Events : sent'[f] = sent[f] \/ (f = e /\ sent'[f] = st)
    BY <1>5 DEF Raised, MarkReceipt, TypeOK
  <2> QED
    BY <1>2, <2>1, <2>2
<1>6. ASSUME NEW i \in Items, FinishOk(i) PROVE \A f \in Events : Settled(f)
  <2>1. CASE i[2] = "event"
    <3>1. i[1] \in Events /\ i = Item(i[1])
      BY <2>1, ItemFacts DEF Item
    <3>2. ack'[i[1]] \in InboxStates \ {"none"}
      BY <1>6, <3>1 DEF FinishOk, AnswersTrue, TypeOK
    <3>3. Rank("accepted") <= Rank(ack'[i[1]])
      BY <3>2 DEF InboxStates, Rank
    <3>4. \A f \in Events : sent'[f] = sent[f] \/ (f = i[1] /\ sent'[f] = "accepted")
      BY <1>6 DEF FinishOk, TypeOK
    <3> QED
      BY <1>2, <3>1, <3>3, <3>4
  <2>2. CASE i[2] # "event"
    BY <1>6, <2>2, RankFacts DEF FinishOk, Settled
  <2> QED
    BY <2>1, <2>2
<1>7. ASSUME NEW i \in Items, FinishErr(i) PROVE \A f \in Events : Settled(f)
  <2>1. i[1] \in Events /\ Rank("failed") <= Rank(ack'[i[1]])
    BY ItemFacts, RankFacts DEF Rank
  <2>2. \A f \in Events : sent'[f] = sent[f] \/ (f = i[1] /\ sent'[f] = "failed")
    BY <1>7 DEF GivesUp, FinishErr, TypeOK
  <2> QED
    BY <1>2, <2>1, <2>2
<1>8. ASSUME NEW i \in Items, StoreReceipt(i) PROVE \A f \in Events : Settled(f)
  <2>1. i[1] \in Events /\ Rank(i[2]) <= Rank(ack'[i[1]])
    <3>1. job[i] # "idle" \/ <<i, "checked">> \in stray
      BY <1>8 DEF Raised, StoreReceipt, Advance
    <3> QED
      BY <1>8, <3>1, ItemFacts DEF Raised, StoreReceipt, AnswersTrue
  <2>2. \A f \in Events : sent'[f] = sent[f] \/ (f = i[1] /\ sent'[f] = i[2])
    BY <1>8 DEF Raised, StoreReceipt, TypeOK
  <2> QED
    BY <1>2, <2>1, <2>2
<1>9. sent' = sent => \A e \in Events : Settled(e)
  BY RankFacts DEF Settled
<1>10. \A i \in Items : \A peers : RestartInFailure(i, peers) => sent' = sent
  BY DEF RestartInFailure, Reborn
<1> QED
  BY <1>0, <1>3, <1>4, <1>5, <1>6, <1>7, <1>8, <1>9, <1>10, StoreSteps

(* The end of a message is never taken back: only receipts are renewed. *)
LEMMA ExpiryStays ==
  ASSUME Next
  PROVE  \A s \in Servers, e \in Events :
           Expired(s, Item(e)) => Expired(s, Item(e))'
<1>1. ASSUME NEW e \in Events, NEW st \in {"delivered", "read"}, MarkReceipt(e, st)
      PROVE  \A s \in Servers, f \in Events :
               Expired(s, Item(f)) => Expired(s, Item(f))'
  <2>1. \A f \in Events : Item(f) \notin NewReceipts(e, st)
    BY NewReceiptFacts, ItemFacts
  <2>2. expired' = expired
        \/ \E new \in SUBSET NewReceipts(e, st) : expired' = expired \ (Servers \X new)
    BY <1>1 DEF Raised, MarkReceipt
  <2> QED
    BY <2>1, <2>2 DEF Expired
<1>2. ASSUME NEW s \in Servers, NEW i \in Items, Age(s, i)
      PROVE  \A t \in Servers, f \in Events :
               Expired(t, Item(f)) => Expired(t, Item(f))'
  BY <1>2 DEF Age, Expired
<1>3. \/ expired' = expired
      \/ \E e \in Events, st \in {"delivered", "read"} : MarkReceipt(e, st)
      \/ \E s \in Servers, i \in Items : Age(s, i)
  BY DEF CounterFresh, GivesUp, Raised, OrIgnore, Next, ClientStep, DispatcherStep, EndpointStep, Environment, SubmitLocal,
         SubmitRemote, RefuseFull, Resubmit, FetchInbox, DueOutbox, DueReceipts, Post, FinishOk,
         FinishErr, Validate, StoreReceipt, StoreEvent, Lose, TimeOut, Restart,
         RestartInFailure, Reborn
<1> QED
  BY <1>1, <1>2, <1>3 DEF Expired

(* No step loses or resets a row of an inbox. *)
LEMMA InboxFaithfulNext ==
  ASSUME TypeOK, Bookkeeping, InboxFaithful, Next
  PROVE  InboxFaithful'
<1> DEFINE Faithful(e) ==
      /\ ack'[e] # "none" /\ ~Expired(Dest(e), Item(e))' => inbox'[e] = ack'[e]
      /\ ack'[e] = "none" => inbox'[e] = "none"
<1> SUFFICES \A e \in Events : Faithful(e)
  BY DEF InboxFaithful, Dest, Item
<1>0. ASSUME NEW s \in Servers, NEW e \in Events,
             inbox'[e] = KeptInbox(s)[e] \/ inbox'[e] = inbox[e], ack'[e] = ack[e]
      PROVE  Faithful(e)
  BY <1>0, KeptFacts, ExpiryStays, ItemFacts DEF InboxFaithful
<1> HIDE DEF Faithful
<1>1. ASSUME NEW e \in Events, SubmitLocal(e) PROVE \A f \in Events : Faithful(f)
  <2>1. e \notin created
    <3>1. lastCounter[Msg[e].device] \in Nat /\ Msg[e].counter \in Nat
      BY ItemFacts DEF TypeOK
    <3>2. lastCounter[Msg[e].device] < Msg[e].counter
      BY <1>1 DEF CounterFresh, SubmitLocal
    <3>3. e \in created => Msg[e].counter <= lastCounter[Msg[e].device]
      BY DEF Bookkeeping
    <3> QED
      BY <3>1, <3>2, <3>3
  <2>2. inbox'[e] = "accepted" /\ ack'[e] = "accepted"
    <3>1. ack[e] = "none"
      BY <2>1 DEF Bookkeeping
    <3>2. inbox' = [KeptInbox(Origin(e)) EXCEPT ![e] = "accepted"]
      BY <1>1 DEF CounterFresh, SubmitLocal
    <3>3. ack' = [ack EXCEPT ![e] = IF @ = "none" THEN "accepted" ELSE @]
      BY <1>1 DEF CounterFresh, SubmitLocal
    <3> QED
      BY <3>1, <3>2, <3>3, KeptFacts, ItemFacts DEF TypeOK
  <2>3. \A f \in Events \ {e} : inbox'[f] = KeptInbox(Origin(e))[f] /\ ack'[f] = ack[f]
    BY <1>1, KeptFacts, ItemFacts DEF CounterFresh, SubmitLocal, TypeOK
  <2> QED
    BY <1>0, <2>2, <2>3, ItemFacts DEF Faithful
<1>2. ASSUME NEW e \in Events, StoreEvent(e) PROVE \A f \in Events : Faithful(f)
  <2>1. \A f \in Events \ {e} : inbox'[f] = KeptInbox(Dest(e))[f] /\ ack'[f] = ack[f]
    BY <1>2, KeptFacts, ItemFacts DEF OrIgnore, StoreEvent, TypeOK
  <2>2. Faithful(e)
    <3>1. CASE HasRoom(InboxRows(KeptInbox(Dest(e)), Msg[e].to))
      <4>1. /\ inbox'[e] = IF KeptInbox(Dest(e))[e] = "none" THEN "accepted"
                           ELSE KeptInbox(Dest(e))[e]
            /\ ack'[e] = IF ack[e] = "none" THEN "accepted" ELSE ack[e]
        BY <1>2, <3>1, KeptFacts, ItemFacts DEF OrIgnore, StoreEvent, TypeOK
      <4> QED
        BY <4>1, KeptFacts, ExpiryStays, ItemFacts DEF Faithful, InboxFaithful
    <3>2. CASE ~HasRoom(InboxRows(KeptInbox(Dest(e)), Msg[e].to))
      <4>1. inbox'[e] = KeptInbox(Dest(e))[e] /\ ack'[e] = ack[e]
        BY <1>2, <3>2, KeptFacts, ItemFacts DEF OrIgnore, StoreEvent, TypeOK
      <4> QED
        BY <1>0, <4>1, ItemFacts
    <3> QED
      BY <3>1, <3>2
  <2> QED
    BY <1>0, <2>1, <2>2, ItemFacts
<1>3. ASSUME NEW e \in Events, NEW st \in {"delivered", "read"}, MarkReceipt(e, st)
      PROVE  \A f \in Events : Faithful(f)
  <2>1. \A f \in Events \ {e} : inbox'[f] = inbox[f] /\ ack'[f] = ack[f]
    BY <1>3 DEF Raised, MarkReceipt, TypeOK
  <2>2. inbox'[e] = st /\ ack'[e] = IF Rank(st) > Rank(ack[e]) THEN st ELSE ack[e]
    BY <1>3 DEF Raised, MarkReceipt, TypeOK
  <2>3. ack[e] # "none" /\ Rank(st) > Rank(inbox[e])
    BY <1>3 DEF Raised, MarkReceipt, InboxFaithful
  <2>4. Faithful(e)
    BY <2>2, <2>3, ExpiryStays, ItemFacts DEF Faithful, InboxFaithful
  <2> QED
    BY <1>0, <2>1, <2>4, ItemFacts
<1>4. ASSUME NEW s \in Servers, inbox' = KeptInbox(s) \/ inbox' = inbox, ack' = ack
      PROVE  \A f \in Events : Faithful(f)
  BY <1>0, <1>4
<1>5. \/ \E s \in Servers : ack' = ack /\ (inbox' = KeptInbox(s) \/ inbox' = inbox)
      \/ \E e \in Events : SubmitLocal(e) \/ StoreEvent(e)
      \/ \E e \in Events, st \in {"delivered", "read"} : MarkReceipt(e, st)
  <2>1. ClientStep => \/ \E s \in Servers :
                            ack' = ack /\ (inbox' = KeptInbox(s) \/ inbox' = inbox)
                      \/ \E e \in Events : SubmitLocal(e)
                      \/ \E e \in Events, st \in {"delivered", "read"} : MarkReceipt(e, st)
    BY ItemFacts, DeliveryAssumption DEF CounterFresh, ClientStep, SubmitRemote,
      RefuseFull, RolledBack, stores, Resubmit, FetchInbox, Tidy
  <2>2. DispatcherStep => \E s \in Servers :
                            ack' = ack /\ (inbox' = KeptInbox(s) \/ inbox' = inbox)
    <3>1. \A i \in Items : Sender(i) \in Servers
      BY ItemFacts DEF Sender
    <3> QED
      BY <3>1 DEF GivesUp, DispatcherStep, DueOutbox, DueReceipts, Tidy, Post, FinishOk, FinishErr, stores
  <2>3. \A i \in Items : Sender(i) \in Servers
    BY ItemFacts DEF Sender
  <2>4. EndpointStep => \/ \E s \in Servers : ack' = ack /\ inbox' = inbox
                        \/ \E e \in Events : StoreEvent(e)
    BY <2>3 DEF Raised, EndpointStep, Validate, StoreReceipt, stores
  <2>5. Environment => \E s \in Servers : ack' = ack /\ inbox' = inbox
    BY <2>3 DEF Environment, Lose, TimeOut, Restart, RestartInFailure, Reborn, Age, stores
  <2> QED
    BY <2>1, <2>2, <2>4, <2>5 DEF Next
<1> QED
  BY <1>1, <1>2, <1>3, <1>4, <1>5


(* No step drops a message that is neither stored there nor expired. *)
LEMMA NothingLostNext ==
  ASSUME TypeOK, AnswersTrue, NothingLost, Next
  PROVE  NothingLost'
<1> DEFINE Over(e) == Expired(Origin(e), Item(e))
           Kept(e) == ~Over(e)' => /\ sent'[e] # "none"
                                   /\ ack'[e] = "none" => queue'[Item(e)] # NoRow
           Held(e) == /\ sent'[e] = "none" => sent[e] = "none" \/ Over(e)
                      /\ queue'[Item(e)] = NoRow =>
                           queue[Item(e)] = NoRow \/ ack[e] # "none" \/ Over(e)
<1> SUFFICES \A e \in created' : Kept(e)
  BY DEF NothingLost, Origin, Item
<1> HIDE DEF Kept, Held
<1>0. ASSUME NEW e \in created, Held(e) PROVE Kept(e)
  <2>1. e \in Events /\ Origin(e) \in Servers
    BY ItemFacts DEF TypeOK
  <2>2. Over(e) => Over(e)'
    BY <2>1, ExpiryStays
  <2>3. ack[e] # "none" => ack'[e] # "none"
    BY <2>1, AckGrows
  <2> QED
    BY <1>0, <2>2, <2>3 DEF NothingLost, Kept, Held
<1>1. ASSUME NEW s \in Servers, NEW e \in Events,
             sent'[e] = sent[e] \/ sent'[e] = KeptSent(s)[e],
             queue'[Item(e)] = queue[Item(e)] \/ queue'[Item(e)] = KeptQueue(s)[Item(e)]
      PROVE  Held(e)
  BY <1>1, KeptFacts DEF Held
<1>2. ASSUME NEW e \in Events, SubmitLocal(e) PROVE \A f \in created' : Kept(f)
  <2>1. sent'[e] = "accepted" /\ ack'[e] # "none"
    BY <1>2, KeptFacts, ItemFacts DEF CounterFresh, SubmitLocal, TypeOK
  <2>2. \A f \in created' : f # e => f \in created
    BY <1>2 DEF CounterFresh, SubmitLocal
  <2>3. \A f \in Events \ {e} : sent'[f] = KeptSent(Origin(e))[f]
    BY <1>2, KeptFacts, ItemFacts DEF CounterFresh, SubmitLocal
  <2>4. queue' = KeptQueue(Origin(e))
    BY <1>2 DEF CounterFresh, SubmitLocal
  <2>5. \A f \in created : f \in Events
    BY DEF TypeOK
  <2> QED
    BY <1>0, <1>1, <2>1, <2>2, <2>3, <2>4, <2>5, ItemFacts DEF Kept
<1>3. ASSUME NEW e \in Events, SubmitRemote(e) PROVE \A f \in created' : Kept(f)
  <2>1. sent'[e] = "queued" /\ queue'[Item(e)] # NoRow
    BY <1>3, KeptFacts, ItemFacts DEF CounterFresh, SubmitRemote, NoRow
  <2>2. \A f \in created' : f # e => f \in created
    BY <1>3 DEF CounterFresh, SubmitRemote
  <2>3. \A f \in Events \ {e} :
          /\ sent'[f] = KeptSent(Origin(e))[f]
          /\ queue'[Item(f)] = KeptQueue(Origin(e))[Item(f)]
    <3>1. \A f \in Events \ {e} : Item(f) # Item(e)
      BY DEF Item
    <3> QED
      BY <1>3, <3>1, KeptFacts, ItemFacts DEF CounterFresh, SubmitRemote
  <2>4. \A f \in created : f \in Events
    BY DEF TypeOK
  <2> QED
    BY <1>0, <1>1, <2>1, <2>2, <2>3, <2>4, ItemFacts DEF Kept
<1>4. ASSUME NEW e \in Events, NEW st \in {"delivered", "read"}, MarkReceipt(e, st)
      PROVE  \A f \in Events : Held(f)
  <2>1. \A f \in Events : Item(f) \notin NewReceipts(e, st)
    BY NewReceiptFacts, ItemFacts
  <2>2. \A f \in Events : queue'[Item(f)] = queue[Item(f)]
    BY <1>4, <2>1, ItemFacts DEF Raised, MarkReceipt, TypeOK
  <2>3. \A f \in Events : sent'[f] = "none" => sent[f] = "none"
    BY <1>4 DEF Raised, MarkReceipt, TypeOK
  <2> QED
    BY <2>2, <2>3 DEF Held
<1>5. ASSUME NEW i \in Items, FinishOk(i) PROVE \A f \in Events : Held(f)
  <2>1. \A f \in Events : sent'[f] = "none" => sent[f] = "none"
    BY <1>5 DEF FinishOk, TypeOK
  <2>2. \A f \in Events : queue'[Item(f)] = queue[Item(f)] \/ Item(f) = i
    BY <1>5, ItemFacts DEF FinishOk, TypeOK
  <2>3. \A f \in Events : Item(f) = i => ack[f] # "none"
    BY <1>5 DEF FinishOk, AnswersTrue
  <2> QED
    BY <2>1, <2>2, <2>3 DEF Held
<1>6. ASSUME NEW i \in Items, FinishErr(i) PROVE \A f \in Events : Held(f)
  <2>1. \A f \in Events : sent'[f] = "none" => sent[f] = "none"
    BY <1>6 DEF GivesUp, FinishErr, TypeOK
  <2>2. \A f \in Events : queue'[Item(f)] = NoRow => queue[Item(f)] = NoRow
    <3>1. snap[i] \in 0..(MaxAttempts - 1)
      BY DEF TypeOK
    <3>2. snap[i] + 1 # NoRow
      BY <3>1, DeliveryAssumption DEF NoRow
    <3> QED
      BY <1>6, <3>2, ItemFacts DEF GivesUp, FinishErr, TypeOK
  <2> QED
    BY <2>1, <2>2 DEF Held
<1>7. ASSUME NEW i \in Items, StoreReceipt(i) PROVE \A f \in Events : Held(f)
  <2>1. i[2] # "none"
    BY ItemFacts DEF Kinds
  <2>2. \A f \in Events : sent'[f] = "none" => sent[f] = "none"
    BY <1>7, <2>1 DEF Raised, StoreReceipt, TypeOK
  <2>3. queue' = queue
    BY <1>7 DEF Raised, StoreReceipt
  <2> QED
    BY <2>2, <2>3 DEF Held
<1>8. ASSUME NEW e \in Events, NEW st \in {"delivered", "read"}, MarkReceipt(e, st)
      PROVE  created' = created
  BY <1>8 DEF MarkReceipt
<1>9. created \subseteq Events
  BY DEF TypeOK
<1>10. ASSUME NEW i \in Items, NEW peers, RestartInFailure(i, peers)
       PROVE  \A f \in Events : Held(f)
  <2>1. sent' = sent
    BY <1>10 DEF RestartInFailure, Reborn
  <2>2. \A f \in Events : queue'[Item(f)] = NoRow => queue[Item(f)] = NoRow
    <3>1. snap[i] \in 0..(MaxAttempts - 1)
      BY DEF TypeOK
    <3>2. snap[i] + 1 # NoRow
      BY <3>1, DeliveryAssumption DEF NoRow
    <3> QED
      BY <1>10, <3>2, ItemFacts DEF RestartInFailure, TypeOK
  <2> QED
    BY <2>1, <2>2 DEF Held
<1>11. ASSUME NEW i \in Items,
              FinishOk(i) \/ FinishErr(i) \/ StoreReceipt(i)
              \/ \E peers : RestartInFailure(i, peers)
       PROVE  created' = created
  BY <1>11 DEF FinishOk, FinishErr, StoreReceipt, RestartInFailure, Reborn
<1>12. ASSUME created' = created, NEW s \in Servers,
              \/ sent' = sent /\ queue' = queue
              \/ sent' = KeptSent(s) /\ queue' = KeptQueue(s)
       PROVE  \A f \in created' : Kept(f)
  BY <1>0, <1>1, <1>9, <1>12
<1>13. ASSUME created' = created, sent' = sent, queue' = queue
       PROVE  \A f \in created' : Kept(f)
  <2>1. \A f \in Events : Held(f)
    BY <1>13 DEF Held
  <2> QED
    BY <1>0, <1>9, <1>13, <2>1
<1> QED
  BY <1>0, <1>2, <1>3, <1>4, <1>5, <1>6, <1>7, <1>8, <1>9, <1>10, <1>11, <1>12, <1>13,
     StoreSteps

-----------------------------------------------------------------------------
(* The inductive invariant holds at first. *)
LEMMA InvInit == Init => DeliveryInv
<1> SUFFICES ASSUME Init PROVE DeliveryInv
  OBVIOUS
<1>1. TypeOK
  BY TypeInit
<1>2. StatusHonest
  BY DEF Init, StatusHonest, Rank
<1>3. Bookkeeping /\ AnswersTrue /\ InboxFaithful /\ NothingLost
  BY ItemFacts DEF Init, Bookkeeping, AnswersTrue, InboxFaithful, NothingLost
<1> QED
  BY <1>1, <1>2, <1>3 DEF DeliveryInv

(* And every step preserves it. *)
LEMMA InvNext == DeliveryInv /\ [Next]_vars => DeliveryInv'
<1>1. DeliveryInv /\ Next => DeliveryInv'
  BY TypeNext, BookkeepingNext, AnswersTrueNext, StatusHonestNext, InboxFaithfulNext,
     NothingLostNext DEF DeliveryInv
<1>2. DeliveryInv /\ UNCHANGED vars => DeliveryInv'
  BY DEF vars, DeliveryInv, TypeOK, Bookkeeping, AnswersTrue, StatusHonest,
         InboxFaithful, NothingLost, Expired
<1> QED
  BY <1>1, <1>2

(* The inductive invariant: the promises below hold together with what the   *)
(* servers' tables, jobs and abandoned requests know of each message.        *)
THEOREM InvCorrect == Spec => []DeliveryInv
BY InvInit, InvNext, PTL DEF Spec

(* The sender is never shown more than happened at the recipient             *)
(* (mark_outbox_delivered, accept_federated_receipt, mark_receipt).          *)
THEOREM StatusHonestCorrect == Spec => []StatusHonest
<1>1. DeliveryInv => StatusHonest
  BY DEF DeliveryInv
<1> QED
  BY <1>1, InvCorrect, PTL

(* Before it expires, a stored message is in the inbox in the furthest state *)
(* its recipient reported, whatever retries do (accept_federated_event).     *)
THEOREM InboxFaithfulCorrect == Spec => []InboxFaithful
<1>1. DeliveryInv => InboxFaithful
  BY DEF DeliveryInv
<1> QED
  BY <1>1, InvCorrect, PTL

(* Before it expires, a message the server took is in its outbox or stored   *)
(* at the recipient's server (create_outgoing_event, flush_once).            *)
THEOREM NothingLostCorrect == Spec => []NothingLost
<1>1. DeliveryInv => NothingLost
  BY DEF DeliveryInv
<1> QED
  BY <1>1, InvCorrect, PTL

-----------------------------------------------------------------------------
(* Only storing a message touches a counter. *)
LEMMA CounterSteps ==
  ASSUME Next
  PROVE  \/ UNCHANGED <<lastCounter, created>>
         \/ \E e \in Events :
              /\ CounterFresh(e)
              /\ lastCounter' = [lastCounter EXCEPT ![Msg[e].device] = Msg[e].counter]
              /\ created' = created \cup {e}
<1>1. CASE ClientStep
  BY <1>1 DEF ClientStep, SubmitLocal, SubmitRemote, RefuseFull, RolledBack, stores,
    Resubmit, FetchInbox, Tidy, MarkReceipt
<1>2. CASE DispatcherStep
  BY <1>2 DEF DispatcherStep, DueOutbox, DueReceipts, Tidy, Post, FinishOk, FinishErr, stores
<1>3. CASE EndpointStep
  BY <1>3 DEF EndpointStep, Validate, StoreEvent, StoreReceipt, stores
<1>4. CASE Environment
  BY <1>4 DEF Environment, Lose, TimeOut, Restart, RestartInFailure, Reborn, Age, stores
<1> QED
  BY <1>1, <1>2, <1>3, <1>4 DEF Next

(* A device's counter is that of the last message stored for it. *)
LEMMA CounterNext ==
  TypeOK /\ CounterIsLastStored /\ [Next]_vars => CounterIsLastStored'
<1> SUFFICES ASSUME TypeOK, CounterIsLastStored, [Next]_vars, NEW d \in Devices
             PROVE  CounterIsLastStored!(d)'
  BY DEF CounterIsLastStored
<1> DEFINE Used == {Msg[e].counter : e \in {f \in created : Msg[f].device = d}}
<1>1. /\ lastCounter[d] \in Used \cup {0}
      /\ \A c \in Used : c <= lastCounter[d]
  BY DEF CounterIsLastStored
<1> SUFFICES /\ lastCounter'[d] \in Used' \cup {0}
             /\ \A c \in Used' : c <= lastCounter'[d]
  OBVIOUS
<1>2. CASE UNCHANGED <<lastCounter, created>>
  BY <1>1, <1>2
<1>3. ASSUME NEW e \in Events, CounterFresh(e),
             lastCounter' = [lastCounter EXCEPT ![Msg[e].device] = Msg[e].counter],
             created' = created \cup {e}
      PROVE  /\ lastCounter'[d] \in Used' \cup {0}
             /\ \A c \in Used' : c <= lastCounter'[d]
  <2>1. /\ lastCounter[Msg[e].device] < Msg[e].counter /\ Msg[e].counter \in Nat
        /\ lastCounter \in [Devices -> Nat] /\ created \subseteq Events
    BY <1>3, DeliveryAssumption DEF CounterFresh, TypeOK
  <2>2. \A f \in Events : Msg[f].counter \in Nat
    BY DeliveryAssumption
  <2>3. CASE Msg[e].device = d
    <3>1. lastCounter'[d] = Msg[e].counter /\ Used' = Used \cup {Msg[e].counter}
      BY <1>3, <2>1, <2>3
    <3>2. Used \subseteq Nat
      BY <2>1, <2>2
    <3> HIDE DEF Used
    <3> QED
      BY <1>1, <2>1, <2>3, <3>1, <3>2
  <2>4. CASE Msg[e].device # d
    <3>1. lastCounter'[d] = lastCounter[d] /\ Used' = Used
      BY <1>3, <2>1, <2>4
    <3> QED
      BY <1>1, <3>1
  <2> QED
    BY <2>3, <2>4
<1> QED
  BY <1>2, <1>3, CounterSteps DEF vars

(* A refused submission does not use its counter up (create_outgoing_event). *)
THEOREM CounterIsLastStoredCorrect == Spec => []CounterIsLastStored
<1>1. Init => CounterIsLastStored
  BY DEF Init, CounterIsLastStored
<1> QED
  BY <1>1, CounterNext, TypeCorrect, PTL DEF Spec

(* A row of sent_events comes to be by a first submission only.              *)
LEMMA RowsAppear ==
  ASSUME TypeOK, Next, NEW e \in Events, sent[e] = "none", sent'[e] # "none"
  PROVE  CounterFresh(e)
<1>1. CASE ClientStep
  <2>1. \A s : KeptSent(s)[e] = "none"
    BY DEF KeptSent
  <2>2. ASSUME NEW f \in Events, SubmitLocal(f) \/ SubmitRemote(f)
        PROVE  CounterFresh(e)
    <3>1. CounterFresh(f) /\ (e # f => sent'[e] = KeptSent(Origin(f))[e])
      BY <2>2 DEF SubmitLocal, SubmitRemote, KeptSent
    <3> QED
      BY <2>1, <3>1
  <2>3. ASSUME NEW f \in Events, RefuseFull(f) \/ Resubmit(f)
        PROVE  FALSE
    BY <2>1, <2>3 DEF RefuseFull, RolledBack, stores, Resubmit, Tidy
  <2>4. ASSUME NEW f \in Events, NEW st \in {"delivered", "read"}, MarkReceipt(f, st)
        PROVE  FALSE
    BY <2>4 DEF MarkReceipt, Raised, TypeOK
  <2>5. ASSUME NEW a \in Accounts, FetchInbox(a)
        PROVE  FALSE
    BY <2>1, <2>5 DEF FetchInbox, Tidy
  <2> QED
    BY <1>1, <2>2, <2>3, <2>4, <2>5 DEF ClientStep
<1>2. CASE DispatcherStep
  BY <1>2 DEF DispatcherStep, DueOutbox, DueReceipts, Tidy, Post, FinishOk, FinishErr, stores,
    KeptSent, TypeOK
<1>3. CASE EndpointStep
  BY <1>3 DEF EndpointStep, Validate, StoreEvent, StoreReceipt, stores, KeptSent, Raised, TypeOK
<1>4. CASE Environment
  BY <1>4 DEF Environment, Lose, TimeOut, Restart, RestartInFailure, Reborn, Age, stores
<1> QED
  BY <1>1, <1>2, <1>3, <1>4 DEF Next

(* A message is stored at most once: its counter outlives its row. *)
THEOREM StoredOnceCorrect == Spec => StoredOnce
<1>1. DeliveryInv /\ [Next]_vars =>
        [\A e \in Events : sent[e] = "none" /\ sent'[e] # "none" => e \notin created]_vars
  <2> SUFFICES ASSUME DeliveryInv, Next, NEW e \in Events,
                      sent[e] = "none", sent'[e] # "none"
               PROVE  e \notin created
    OBVIOUS
  <2>1. CounterFresh(e) /\ TypeOK /\ Bookkeeping
    BY RowsAppear DEF DeliveryInv
  <2>2. lastCounter[Msg[e].device] \in Nat /\ Msg[e].counter \in Nat
    BY <2>1, DeliveryAssumption DEF TypeOK
  <2>3. e \in created => Msg[e].counter <= lastCounter[Msg[e].device]
    BY <2>1 DEF Bookkeeping
  <2>4. lastCounter[Msg[e].device] < Msg[e].counter
    BY <2>1 DEF CounterFresh
  <2> QED
    BY <2>2, <2>3, <2>4
<1> QED
  BY <1>1, InvCorrect, PTL DEF Spec, StoredOnce

-----------------------------------------------------------------------------
(* What one step does to the rows of one message: nothing, ... *)
Untouched(e) == /\ e \in created' <=> e \in created
                /\ sent'[e] = sent[e]
                /\ queue'[Item(e)] = queue[Item(e)]

(* ... purge both of them (_cleanup_expired_locked), ... *)
Purged(e) == /\ e \in created' <=> e \in created
             /\ sent'[e] = "none"
             /\ queue'[Item(e)] = NoRow

(* ... store it for the first time (create_outgoing_event), ... *)
FirstStored(e) ==
  /\ CounterFresh(e)
  /\ e \in created'
  /\ \/ sent'[e] = "queued" /\ queue'[Item(e)] = 0
     \/ sent'[e] = "accepted" /\ (ack[e] = "none" => ack'[e] = "accepted")

(* ... or raise its status (mark_receipt, accept_federated_receipt); what is *)
(* left are the ends of its own delivery attempts.                          *)
Shown(e) == /\ e \in created' <=> e \in created
            /\ sent[e] # "none"
            /\ Rank(sent'[e]) > Rank(sent[e])
            /\ queue'[Item(e)] = queue[Item(e)]

(* The cleanup takes both rows of a message or none. *)
LEMMA CleanupPairs ==
  ASSUME NEW s \in Servers, NEW e \in Events
  PROVE  \/ KeptSent(s)[e] = sent[e] /\ KeptQueue(s)[Item(e)] = queue[Item(e)]
         \/ KeptSent(s)[e] = "none" /\ KeptQueue(s)[Item(e)] = NoRow
BY ItemFacts DEF KeptSent, KeptQueue, Spent, Sender

(* What a step does to the rows of one message. *)
LEMMA MessageMoves ==
  ASSUME TypeOK, Next, NEW e \in Events
  PROVE  \/ Untouched(e) \/ Purged(e) \/ FirstStored(e) \/ Shown(e)
         \/ FinishOk(Item(e)) \/ FinishErr(Item(e))
         \/ \E peers : RestartInFailure(Item(e), peers)
<1>0. \A i \in Items : i # Item(e) => i[2] # "event" \/ i[1] # e
  BY ItemFacts DEF Item
<1>1. ASSUME NEW f \in Events, SubmitLocal(f)
      PROVE  Untouched(e) \/ Purged(e) \/ FirstStored(e)
  <2>1. Origin(f) \in Servers
    BY ItemFacts
  <2>2. CASE e = f
    BY <1>1, <2>1, <2>2, KeptFacts DEF SubmitLocal, FirstStored, TypeOK
  <2>3. CASE e # f
    BY <1>1, <2>1, <2>3, KeptFacts, CleanupPairs DEF SubmitLocal, Untouched, Purged
  <2> QED
    BY <2>2, <2>3
<1>2. ASSUME NEW f \in Events, SubmitRemote(f)
      PROVE  Untouched(e) \/ Purged(e) \/ FirstStored(e)
  <2>1. Origin(f) \in Servers /\ Item(f) \in Items
    BY ItemFacts
  <2>2. CASE e = f
    BY <1>2, <2>1, <2>2, KeptFacts DEF SubmitRemote, FirstStored, TypeOK
  <2>3. CASE e # f
    <3>1. Item(e) # Item(f)
      BY <2>3 DEF Item
    <3> QED
      BY <1>2, <2>1, <2>3, <3>1, KeptFacts, CleanupPairs
         DEF SubmitRemote, Untouched, Purged
  <2> QED
    BY <2>2, <2>3
<1>3. ASSUME NEW f \in Events, NEW st \in {"delivered", "read"}, MarkReceipt(f, st)
      PROVE  Untouched(e) \/ Shown(e)
  <2>1. Item(e) \notin NewReceipts(f, st)
    BY NewReceiptFacts, ItemFacts
  <2>2. queue'[Item(e)] = queue[Item(e)]
    BY <1>3, <2>1, ItemFacts DEF MarkReceipt, TypeOK
  <2>3. created' = created
    BY <1>3 DEF MarkReceipt
  <2>4. sent'[e] = sent[e] \/ (sent[e] # "none" /\ Rank(sent'[e]) > Rank(sent[e]))
    BY <1>3 DEF MarkReceipt, Raised, TypeOK
  <2> QED
    BY <2>2, <2>3, <2>4 DEF Untouched, Shown
<1>4. ASSUME NEW i \in Items, StoreReceipt(i)
      PROVE  Untouched(e) \/ Shown(e)
  BY <1>4 DEF StoreReceipt, Raised, TypeOK, Untouched, Shown
<1>5. ASSUME NEW i \in Items, FinishOk(i) \/ FinishErr(i), i # Item(e)
      PROVE  Untouched(e)
  BY <1>0, <1>5, ItemFacts DEF FinishOk, FinishErr, GivesUp, TypeOK, Untouched
<1>6. ASSUME NEW i \in Items, NEW peers, RestartInFailure(i, peers), i # Item(e)
      PROVE  Untouched(e)
  BY <1>6, ItemFacts DEF RestartInFailure, Reborn, TypeOK, Untouched
<1>7. ASSUME created' = created, sent' = sent /\ queue' = queue
      PROVE  Untouched(e)
  BY <1>7 DEF Untouched
<1>8. ASSUME created' = created, NEW s \in Servers,
             sent' = KeptSent(s) /\ queue' = KeptQueue(s)
      PROVE  Untouched(e) \/ Purged(e)
  BY <1>8, CleanupPairs DEF Untouched, Purged
<1> QED
  BY <1>1, <1>2, <1>3, <1>4, <1>5, <1>6, <1>7, <1>8, StoreSteps

(* A message stored for the first time was never known before. *)
LEMMA FirstStoredFacts ==
  ASSUME TypeOK, Bookkeeping, NEW e \in Events, FirstStored(e)
  PROVE  /\ e \notin created /\ sent[e] = "none" /\ ack[e] = "none"
         /\ job[Item(e)] = "idle"
<1>1. lastCounter[Msg[e].device] \in Nat /\ Msg[e].counter \in Nat
  BY ItemFacts DEF TypeOK
<1>2. lastCounter[Msg[e].device] < Msg[e].counter
  BY DEF FirstStored, CounterFresh
<1>3. e \in created => Msg[e].counter <= lastCounter[Msg[e].device]
  BY DEF Bookkeeping
<1>4. e \notin created
  BY <1>1, <1>2, <1>3
<1> QED
  BY <1>4 DEF Bookkeeping

-----------------------------------------------------------------------------
(* A thread is given a row by the dispatcher, which read its attempts in the *)
(* same transaction (flush_once); in between it keeps what was read.        *)
Taken(i) == /\ job'[i] = "picked"
            /\ snap'[i] = queue[i] /\ queue'[i] = queue[i]
            /\ queue[i] \in 0..(MaxAttempts - 1)

LEMMA JobMoves ==
  ASSUME TypeOK, Next, NEW i \in Items, job'[i] # "idle"
  PROVE  \/ job[i] # "idle" /\ snap'[i] = snap[i]
         \/ Taken(i) /\ \E s \in Servers : \E batch \in SUBSET DueEvents(s) :
                          i \in batch /\ DueOutbox(s, batch)
         \/ Taken(i) /\ \E s \in Servers : \E batch \in SUBSET DueReceiptRows(s) :
                          i \in batch /\ DueReceipts(s, batch)
<1> DEFINE Kept == job[i] # "idle" /\ snap'[i] = snap[i]
<1>1. ASSUME NEW s \in Servers, NEW batch \in SUBSET DueEvents(s), DueOutbox(s, batch)
      PROVE  Kept \/ (i \in batch /\ Taken(i))
  <2>1. CASE i \notin batch
    BY <1>1, <2>1 DEF DueOutbox, Pick
  <2>2. CASE i \in batch
    <3>1. KeptQueue(s)[i] \in 0..(MaxAttempts - 1) /\ KeptQueue(s)[i] \in {queue[i], NoRow}
      BY <2>2, KeptFacts DEF DueEvents
    <3>2. KeptQueue(s)[i] = queue[i]
      BY <3>1, DeliveryAssumption DEF NoRow
    <3> QED
      BY <1>1, <2>2, <3>1, <3>2 DEF DueOutbox, Pick, Tidy, Taken
  <2> QED
    BY <2>1, <2>2
<1>2. ASSUME NEW s \in Servers, NEW batch \in SUBSET DueReceiptRows(s),
             DueReceipts(s, batch)
      PROVE  Kept \/ (i \in batch /\ Taken(i))
  <2>1. CASE i \notin batch
    BY <1>2, <2>1 DEF DueReceipts, Pick
  <2>2. CASE i \in batch
    <3>1. KeptQueue(s)[i] \in 0..(MaxAttempts - 1) /\ KeptQueue(s)[i] \in {queue[i], NoRow}
      BY <2>2, KeptFacts DEF DueReceiptRows
    <3>2. KeptQueue(s)[i] = queue[i]
      BY <3>1, DeliveryAssumption DEF NoRow
    <3> QED
      BY <1>2, <2>2, <3>1, <3>2 DEF DueReceipts, Pick, Tidy, Taken
  <2> QED
    BY <2>1, <2>2
<1>3. ClientStep => Kept
  BY DEF ClientStep, SubmitLocal, SubmitRemote, RefuseFull, Resubmit, FetchInbox,
         MarkReceipt, jobs
<1>4. ASSUME NEW k \in Items, Post(k) \/ FinishOk(k) \/ FinishErr(k) PROVE Kept
  BY <1>4 DEF Post, FinishOk, FinishErr, TypeOK
<1>5. EndpointStep => Kept
  BY DEF EndpointStep, Validate, StoreReceipt, StoreEvent, Advance, TypeOK
<1>6. ASSUME NEW k \in Items, Lose(k) \/ TimeOut(k) PROVE Kept
  BY <1>6 DEF Lose, TimeOut, TypeOK
<1>7. ASSUME NEW s \in Servers, NEW peers, Reborn(s, peers) PROVE Kept
  BY <1>7 DEF Reborn
<1>8. ASSUME NEW s \in Servers, NEW k \in Items, Age(s, k) PROVE Kept
  BY <1>8 DEF Age, jobs
<1>9. \A k \in Items : Sender(k) \in Servers
  BY ItemFacts DEF Sender
<1>10. Environment => Kept
  BY <1>6, <1>7, <1>8, <1>9 DEF Environment, Restart, RestartInFailure
<1> QED
  BY <1>1, <1>2, <1>3, <1>4, <1>5, <1>10 DEF Next, DispatcherStep

(* A receipt is answered by accept_federated_receipt only. *)
LEMMA ReceiptAnswered ==
  ASSUME TypeOK, Next, NEW i \in Items, i[2] # "event", job'[i] = "ok"
  PROVE  \/ job[i] = "ok"
         \/ StoreReceipt(i) /\ sent[i[1]] # "none"
<1>1. ClientStep => job[i] = "ok"
  BY DEF ClientStep, SubmitLocal, SubmitRemote, RefuseFull, Resubmit, FetchInbox,
         MarkReceipt, jobs
<1>2. DispatcherStep => job[i] = "ok"
  BY DEF DispatcherStep, DueOutbox, DueReceipts, Pick, Post, FinishOk, FinishErr, TypeOK
<1>3. ASSUME NEW e \in Events, StoreEvent(e) PROVE job[i] = "ok"
  BY <1>3, ItemFacts DEF StoreEvent, Advance, TypeOK
<1>4. ASSUME NEW k \in Items, Validate(k) PROVE job[i] = "ok"
  BY <1>4 DEF Validate, Advance, TypeOK
<1>5. ASSUME NEW k \in Items, StoreReceipt(k)
      PROVE  job[i] = "ok" \/ (k = i /\ sent[i[1]] # "none")
  BY <1>5 DEF StoreReceipt, Advance, TypeOK
<1>6. Environment => job[i] = "ok"
  BY DEF Environment, Lose, TimeOut, Restart, RestartInFailure, Reborn, Age, jobs, TypeOK
<1> QED
  BY <1>1, <1>2, <1>3, <1>4, <1>5, <1>6 DEF Next, EndpointStep

(* Outbox row and job of a message keep to each other. *)
LEMMA RowsPairedNext ==
  ASSUME TypeOK, Bookkeeping, RowsPaired, Next
  PROVE  RowsPaired'
<1> SUFFICES ASSUME NEW e \in Events, job'[Item(e)] # "idle"
             PROVE  \/ queue'[Item(e)] = snap'[Item(e)]
                    \/ queue'[Item(e)] = NoRow /\ sent'[e] = "none"
  BY DEF RowsPaired, Item
<1>1. Item(e) \in Items
  BY ItemFacts
<1>2. CASE Taken(Item(e))
  BY <1>2 DEF Taken
<1>3. CASE job[Item(e)] # "idle" /\ snap'[Item(e)] = snap[Item(e)]
  <2>1. CASE Untouched(e)
    BY <1>3, <2>1 DEF Untouched, RowsPaired
  <2>2. CASE Purged(e)
    BY <2>2 DEF Purged
  <2>3. CASE FirstStored(e)
    BY <1>3, <2>3, FirstStoredFacts
  <2>4. CASE Shown(e)
    BY <1>3, <2>4 DEF Shown, RowsPaired
  <2>5. CASE FinishOk(Item(e)) \/ FinishErr(Item(e))
    BY <1>1, <2>5 DEF FinishOk, FinishErr, TypeOK
  <2>6. ASSUME NEW peers, RestartInFailure(Item(e), peers) PROVE FALSE
    BY <1>1, <2>6 DEF RestartInFailure, Reborn
  <2> QED
    BY <2>1, <2>2, <2>3, <2>4, <2>5, <2>6, MessageMoves
<1> QED
  BY <1>1, <1>2, <1>3, JobMoves

(* The only step that lowers a status is the last failure of its message.   *)
LEMMA GivenUp ==
  ASSUME TypeOK, RowsPaired, NEW e \in Events, FinishErr(Item(e))
  PROVE  \/ sent'[e] = sent[e] /\ queue'[Item(e)] \in 0..(MaxAttempts - 1)
         \/ sent'[e] = "none"
         \/ /\ sent'[e] = "failed" /\ sent[e] # "none"
            /\ queue[Item(e)] \in 0..(MaxAttempts - 1)
            /\ queue'[Item(e)] = MaxAttempts
<1>1. /\ Item(e) \in Items /\ Item(e)[1] = e /\ Item(e)[2] = "event"
      /\ snap[Item(e)] \in 0..(MaxAttempts - 1) /\ MaxAttempts \in Nat
  BY ItemFacts, DeliveryAssumption DEF TypeOK
<1>2. CASE sent[e] = "none"
  BY <1>1, <1>2 DEF FinishErr, TypeOK
<1>3. CASE sent[e] # "none"
  <2>1. job[Item(e)] = "err"
    BY DEF FinishErr
  <2>2. queue[Item(e)] = snap[Item(e)] /\ queue[Item(e)] # NoRow
    BY <1>1, <1>3, <2>1 DEF RowsPaired, NoRow
  <2>3. queue'[Item(e)] = snap[Item(e)] + 1
    BY <1>1, <2>2 DEF FinishErr, TypeOK
  <2>4. CASE GivesUp(Item(e))
    <3>1. sent'[e] = "failed"
      BY <1>1, <1>3, <2>4 DEF FinishErr, TypeOK
    <3>2. snap[Item(e)] + 1 = MaxAttempts
      BY <1>1, <2>4 DEF GivesUp
    <3> QED
      BY <1>1, <1>3, <2>2, <2>3, <3>1, <3>2
  <2>5. CASE ~GivesUp(Item(e))
    <3>1. sent'[e] = sent[e]
      BY <2>5 DEF FinishErr
    <3>2. snap[Item(e)] + 1 \in 0..(MaxAttempts - 1)
      BY <1>1, <2>5 DEF GivesUp
    <3> QED
      BY <2>3, <3>1, <3>2
  <2> QED
    BY <2>4, <2>5
<1> QED
  BY <1>2, <1>3

(* A message shown as queued keeps an outbox row with attempts left. *)
LEMMA QueuedHasAttemptsNext ==
  ASSUME TypeOK, Bookkeeping, RowsPaired, QueuedHasAttempts, Next
  PROVE  QueuedHasAttempts'
<1> SUFFICES ASSUME NEW e \in Events, sent'[e] = "queued"
             PROVE  queue'[Item(e)] \in 0..(MaxAttempts - 1) \/ e \in torn'
  BY DEF QueuedHasAttempts, Item
<1>1. Item(e) \in Items /\ Item(e)[1] = e /\ Item(e)[2] = "event"
  BY ItemFacts
<1>2. torn \subseteq torn'
  BY DEF Next, ClientStep, SubmitLocal, SubmitRemote, RefuseFull, Resubmit, FetchInbox,
         MarkReceipt, DispatcherStep, DueOutbox, DueReceipts, Post, FinishOk, FinishErr,
         EndpointStep, Validate, StoreReceipt, StoreEvent, Environment, Lose, TimeOut,
         Restart, RestartInFailure, Age
<1>3. CASE Untouched(e)
  BY <1>2, <1>3 DEF Untouched, QueuedHasAttempts
<1>4. CASE FirstStored(e)
  BY <1>4, DeliveryAssumption DEF FirstStored
<1>5. CASE Shown(e)
  BY <1>5, RankFacts DEF Shown, Rank
<1>6. CASE FinishOk(Item(e))
  BY <1>1, <1>6 DEF FinishOk, TypeOK
<1>7. CASE FinishErr(Item(e))
  BY <1>7, GivenUp
<1>8. ASSUME NEW peers, RestartInFailure(Item(e), peers) PROVE e \in torn'
  BY <1>1, <1>8 DEF RestartInFailure
<1> QED
  BY <1>3, <1>4, <1>5, <1>6, <1>7, <1>8, MessageMoves DEF Purged

(* The server that answered a receipt goes on showing it. *)
LEMMA AnswersLearnedNext ==
  ASSUME TypeOK, Bookkeeping, AnswersTrue, RowsPaired, AnswersLearned, Next
  PROVE  AnswersLearned'
<1> DEFINE Learned(i) == \/ Rank(sent[i[1]]) >= Rank(i[2])
                         \/ sent[i[1]] = "none"
                         \/ queue[Item(i[1])] = MaxAttempts
<1> SUFFICES ASSUME NEW i \in Items, i[2] # "event", job'[i] = "ok"
             PROVE  Learned(i)'
  BY DEF AnswersLearned, Item
<1> DEFINE e == i[1]
<1>1. /\ e \in Events /\ Item(e) \in Items /\ Item(e)[1] = e
      /\ MaxAttempts \in Nat \ {0} /\ MaxAttempts # NoRow
  BY ItemFacts, DeliveryAssumption DEF NoRow
<1>2. CASE StoreReceipt(i)
  BY <1>1, <1>2, RankFacts DEF StoreReceipt, Raised, TypeOK
<1>3. CASE job[i] = "ok"
  <2>1. Learned(i) /\ Rank(i[2]) <= Rank(ack[e])
    BY <1>3 DEF AnswersLearned, AnswersTrue
  <2>2. ack[e] # "none" /\ e \in created
    <3>1. Rank(i[2]) >= 1
      BY ItemFacts DEF Kinds, Rank
    <3>2. Rank("none") = 0
      BY DEF Rank
    <3>3. ack[e] # "none"
      BY <2>1, <3>1, <3>2, RankFacts
    <3> QED
      BY <1>1, <3>3 DEF Bookkeeping
  <2>3. CASE Untouched(e)
    BY <2>1, <2>3 DEF Untouched
  <2>4. CASE FirstStored(e)
    BY <1>1, <2>2, <2>4, FirstStoredFacts
  <2>5. CASE Shown(e)
    BY <2>1, <2>5, RankFacts DEF Shown
  <2>6. CASE queue[Item(e)] = MaxAttempts /\ sent[e] # "none"
              /\ (FinishOk(Item(e)) \/ FinishErr(Item(e))
                  \/ \E peers : RestartInFailure(Item(e), peers))
    <3>1. job[Item(e)] # "idle"
      BY <2>6 DEF FinishOk, FinishErr, RestartInFailure
    <3>2. snap[Item(e)] \in 0..(MaxAttempts - 1)
      BY <1>1 DEF TypeOK
    <3>3. snap[Item(e)] = MaxAttempts
      BY <1>1, <2>6, <3>1 DEF RowsPaired
    <3> QED
      BY <1>1, <3>2, <3>3
  <2>7. CASE FinishOk(Item(e)) /\ queue[Item(e)] # MaxAttempts
    <3>1. \/ sent'[e] = sent[e]
          \/ sent'[e] = "accepted" /\ Rank(sent[e]) = 0 /\ sent[e] # "none"
      BY <1>1, <2>7 DEF FinishOk, TypeOK, Rank
    <3>2. Rank(sent'[e]) >= Rank(sent[e]) /\ (sent[e] = "none" => sent'[e] = "none")
      BY <3>1, RankFacts
    <3> QED
      BY <2>1, <2>7, <3>2, RankFacts
  <2>8. CASE FinishErr(Item(e)) /\ queue[Item(e)] # MaxAttempts
    <3>1. CASE sent'[e] = sent[e]
      BY <2>1, <2>8, <3>1
    <3> QED
      BY <1>1, <2>8, <3>1, GivenUp
  <2>9. ASSUME NEW peers, RestartInFailure(Item(e), peers), queue[Item(e)] # MaxAttempts
        PROVE  Learned(i)'
    <3>1. sent'[e] = sent[e]
      BY <2>9 DEF RestartInFailure, Reborn
    <3> QED
      BY <2>1, <2>9, <3>1
  <2>10. CASE sent[e] = "none"
              /\ (FinishOk(Item(e)) \/ FinishErr(Item(e))
                  \/ \E peers : RestartInFailure(Item(e), peers))
    BY <1>1, <2>10 DEF FinishOk, FinishErr, RestartInFailure, Reborn, TypeOK
  <2>11. CASE Purged(e)
    BY <2>11 DEF Purged
  <2> QED
    BY <1>1, <2>3, <2>4, <2>5, <2>6, <2>7, <2>8, <2>9, <2>10, <2>11, MessageMoves
<1> QED
  BY <1>2, <1>3, ReceiptAnswered

(* A read receipt is never at work beside the delivered receipt before it.  *)
LEMMA ReadHeldBackNext ==
  ASSUME TypeOK, AnswersTrue, InboxFaithful, ReadHeldBack, Next
  PROVE  ReadHeldBack'
<1> SUFFICES ASSUME NEW e \in Events, job'[<<e, "read">>] # "idle",
                    ~Expired(Dest(e), Item(e))'
             PROVE  queue'[<<e, "delivered">>] = NoRow
  BY DEF ReadHeldBack, Dest, Item
<1> DEFINE d == <<e, "delivered">>
           r == <<e, "read">>
<1>1. /\ d \in Items /\ r \in Items /\ d[1] = e /\ r[1] = e
      /\ d[2] = "delivered" /\ r[2] = "read" /\ d # Item(e) /\ r # d
      /\ Dest(e) \in Servers
  BY ItemFacts DEF Kinds, Item
<1> HIDE DEF d, r
<1>2. CASE \E s \in Servers : \E batch \in SUBSET DueReceiptRows(s) :
             r \in batch /\ DueReceipts(s, batch)
  <2>1. PICK s \in Servers : \E batch \in SUBSET DueReceiptRows(s) :
               r \in batch /\ DueReceipts(s, batch)
    BY <1>2
  <2>2. KeptQueue(s)[<<r[1], "delivered">>] = NoRow
    BY <1>1, <2>1 DEF DueReceiptRows
  <2>3. queue' = KeptQueue(s)
    BY <2>1 DEF DueReceipts, Tidy
  <2> QED
    BY <1>1, <2>2, <2>3 DEF d
<1>3. CASE \E s \in Servers : \E batch \in SUBSET DueEvents(s) :
             r \in batch /\ DueOutbox(s, batch)
  BY <1>1, <1>3, DueFacts
<1>4. CASE job[r] # "idle"
  <2>1. ~Expired(Dest(e), Item(e))
    BY <1>1, ExpiryStays
  <2>2. queue[d] = NoRow
    BY <1>4, <2>1 DEF ReadHeldBack, d, r
  <2>3. inbox[e] = "read"
    <3>1. Rank(ack[e]) >= 3
      BY <1>1, <1>4, RankFacts DEF AnswersTrue, Rank
    <3>2. ack[e] = "read"
      BY <3>1 DEF Rank
    <3> QED
      BY <2>1, <3>2 DEF InboxFaithful
  <2>4. ASSUME NEW f \in Events, NEW st \in {"delivered", "read"}, MarkReceipt(f, st)
        PROVE  queue'[d] = NoRow
    <3>1. f # e
      BY <2>3, <2>4, RankFacts DEF MarkReceipt, Rank
    <3>2. d \notin NewReceipts(f, st)
      BY <1>1, <3>1, NewReceiptFacts
    <3> QED
      BY <1>1, <2>2, <2>4, <3>2 DEF MarkReceipt, TypeOK
  <2>5. ASSUME NEW s \in Servers, sent' = KeptSent(s), queue' = KeptQueue(s)
        PROVE  queue'[d] = NoRow
    BY <1>1, <2>2, <2>5, KeptFacts
  <2>6. ASSUME NEW f \in Events, SubmitLocal(f) \/ SubmitRemote(f)
        PROVE  queue'[d] = NoRow
    <3>1. d # Item(f) /\ Origin(f) \in Servers /\ KeptQueue(Origin(f))[d] = NoRow
      BY <1>1, <2>2, KeptFacts, ItemFacts
    <3>2. CASE SubmitLocal(f)
      BY <3>1, <3>2 DEF SubmitLocal
    <3>3. CASE SubmitRemote(f)
      BY <1>1, <3>1, <3>3, KeptFacts DEF SubmitRemote
    <3> QED
      BY <2>6, <3>2, <3>3
  <2>7. ASSUME NEW i \in Items,
               FinishOk(i) \/ FinishErr(i) \/ StoreReceipt(i)
               \/ \E peers : RestartInFailure(i, peers)
        PROVE  queue'[d] = NoRow
    BY <1>1, <2>2, <2>7 DEF FinishOk, FinishErr, StoreReceipt, RestartInFailure, TypeOK
  <2> QED
    BY <2>2, <2>4, <2>5, <2>6, <2>7, StoreSteps DEF d
<1> QED
  BY <1>1, <1>2, <1>3, <1>4, JobMoves DEF d, r

(* The two inductive invariants together. *)
LEMMA OutboxInvNext ==
  DeliveryInv /\ OutboxInv /\ [Next]_vars => OutboxInv'
<1>1. DeliveryInv /\ OutboxInv /\ Next => OutboxInv'
  BY RowsPairedNext, AnswersLearnedNext, QueuedHasAttemptsNext, ReadHeldBackNext
     DEF DeliveryInv, OutboxInv
<1>2. OutboxInv /\ UNCHANGED vars => OutboxInv'
  BY DEF vars, OutboxInv, RowsPaired, AnswersLearned, QueuedHasAttempts, ReadHeldBack,
         Expired
<1> QED
  BY <1>1, <1>2

(* What the dispatchers' threads hold always fits the tables: each busy row  *)
(* is the one that was read, and each positive answer to a receipt is shown  *)
(* (due_outbox, due_receipts, mark_outbox_failed, accept_federated_receipt). *)
THEOREM OutboxInvCorrect == Spec => []OutboxInv
<1>1. Init => OutboxInv
  <2> SUFFICES ASSUME Init PROVE OutboxInv
    OBVIOUS
  <2>1. RowsPaired /\ AnswersLearned
    BY ItemFacts DEF Init, RowsPaired, AnswersLearned
  <2>2. QueuedHasAttempts /\ ReadHeldBack
    BY ItemFacts DEF Init, QueuedHasAttempts, ReadHeldBack, Kinds
  <2> QED
    BY <2>1, <2>2 DEF OutboxInv
<1> QED
  BY <1>1, OutboxInvNext, InvCorrect, PTL DEF Spec

(* A read receipt is with the dispatcher only when the delivered receipt of  *)
(* its message has left the outbox (due_receipts, mark_receipt).            *)
THEOREM ReadHeldBackCorrect == Spec => []ReadHeldBack
<1>1. OutboxInv => ReadHeldBack
  BY DEF OutboxInv
<1> QED
  BY <1>1, OutboxInvCorrect, PTL

(* A message shown as queued has an outbox row with attempts left, or its    *)
(* last failure was recorded by half (mark_outbox_failed).                  *)
THEOREM QueuedHasAttemptsCorrect == Spec => []QueuedHasAttempts
<1>1. OutboxInv => QueuedHasAttempts
  BY DEF OutboxInv
<1> QED
  BY <1>1, OutboxInvCorrect, PTL

(* A status of delivered or read falls only when the last attempt of its     *)
(* message fails (mark_outbox_failed).                                      *)
THEOREM StatusFallsCorrect == Spec => StatusFallsOnlyWhenGivenUp
<1> DEFINE Falls(e) == sent[e] \in {"delivered", "read"} /\ sent'[e] # "none"
                       /\ ~(Rank(sent'[e]) >= Rank(sent[e]))
           Failed(e) == /\ sent'[e] = "failed"
                        /\ queue[Item(e)] \in 0..(MaxAttempts - 1)
                        /\ queue'[Item(e)] = MaxAttempts
<1>1. ASSUME DeliveryInv, OutboxInv, Next, NEW e \in Events, Falls(e)
      PROVE  Failed(e)
  <2>1. TypeOK /\ Bookkeeping /\ RowsPaired /\ Item(e) \in Items /\ Item(e)[1] = e
    BY <1>1, ItemFacts DEF DeliveryInv, OutboxInv
  <2>2. sent'[e] # sent[e]
    BY <1>1, RankFacts
  <2>3. ~Untouched(e) /\ ~Purged(e)
    BY <1>1, <2>2 DEF Untouched, Purged
  <2>4. ~FirstStored(e) /\ ~Shown(e)
    BY <1>1, <2>1, FirstStoredFacts, RankFacts DEF Shown
  <2>5. ~FinishOk(Item(e)) /\ \A peers : ~RestartInFailure(Item(e), peers)
    BY <1>1, <2>1, <2>2 DEF FinishOk, RestartInFailure, Reborn, TypeOK
  <2>6. FinishErr(Item(e))
    BY <1>1, <2>1, <2>3, <2>4, <2>5, MessageMoves
  <2> QED
    BY <1>1, <2>1, <2>2, <2>6, GivenUp
<1>2. DeliveryInv /\ OutboxInv /\ [Next]_vars =>
        [\A e \in Events :
           sent[e] \in {"delivered", "read"} /\ sent'[e] # "none"
             => \/ Rank(sent'[e]) >= Rank(sent[e])
                \/ /\ sent'[e] = "failed"
                   /\ queue[Item(e)] \in 0..(MaxAttempts - 1)
                   /\ queue'[Item(e)] = MaxAttempts]_vars
  BY <1>1
<1> QED
  BY <1>2, InvCorrect, OutboxInvCorrect, PTL DEF Spec, StatusFallsOnlyWhenGivenUp

(* Which steps take a receipt out of its outbox. *)
LEMMA ReceiptLeaves ==
  ASSUME TypeOK, Next, NEW i \in Items, i[2] # "event",
         queue[i] # NoRow, queue'[i] = NoRow
  PROVE  Expired(Sender(i), i) \/ Spent(i) \/ FinishOk(i)
<1>1. ASSUME NEW s \in Servers, KeptQueue(s)[i] = NoRow
      PROVE  Expired(Sender(i), i) \/ Spent(i)
  BY <1>1 DEF KeptQueue
<1>2. ASSUME NEW e \in Events, SubmitLocal(e) \/ SubmitRemote(e)
      PROVE  Expired(Sender(i), i) \/ Spent(i)
  <2>1. Origin(e) \in Servers /\ Item(e) # i
    BY ItemFacts
  <2>2. queue'[i] = KeptQueue(Origin(e))[i]
    <3>1. CASE SubmitLocal(e)
      BY <3>1 DEF SubmitLocal
    <3>2. CASE SubmitRemote(e)
      BY <2>1, <3>2, KeptFacts DEF SubmitRemote
    <3> QED
      BY <1>2, <3>1, <3>2
  <2> QED
    BY <1>1, <2>1, <2>2
<1>3. ASSUME NEW e \in Events, NEW st \in {"delivered", "read"}, MarkReceipt(e, st)
      PROVE  FALSE
  BY <1>3 DEF MarkReceipt, TypeOK, NoRow
<1>4. \A k \in Items : snap[k] + 1 # NoRow
  BY DeliveryAssumption DEF TypeOK, NoRow
<1>5. ASSUME NEW k \in Items,
             FinishErr(k) \/ StoreReceipt(k) \/ \E peers : RestartInFailure(k, peers)
      PROVE  FALSE
  <2>1. CASE FinishErr(k)
    BY <1>4, <2>1 DEF FinishErr, TypeOK
  <2>2. CASE StoreReceipt(k)
    BY <2>2 DEF StoreReceipt
  <2>3. ASSUME NEW peers, RestartInFailure(k, peers) PROVE FALSE
    BY <1>4, <2>3 DEF RestartInFailure, TypeOK
  <2> QED
    BY <1>5, <2>1, <2>2, <2>3
<1>6. ASSUME NEW k \in Items, FinishOk(k) PROVE FinishOk(i)
  BY <1>6 DEF FinishOk, TypeOK
<1> QED
  BY <1>1, <1>2, <1>3, <1>5, <1>6, StoreSteps

(* A receipt leaves the outbox when it was learned, has nothing left to be   *)
(* shown on, is too old or out of attempts, or its message is given up       *)
(* (mark_receipt_outbox_delivered, accept_federated_receipt).               *)
THEOREM ReceiptKeptCorrect == Spec => ReceiptKeptUntilLearned
<1>1. ASSUME DeliveryInv, OutboxInv, Next, NEW i \in Items, i[2] # "event",
             queue[i] # NoRow, queue'[i] = NoRow
      PROVE  \/ Rank(sent[i[1]]) >= Rank(i[2])
             \/ sent[i[1]] = "none"
             \/ queue[Item(i[1])] = MaxAttempts
             \/ Expired(Sender(i), i)
             \/ Spent(i)
  <2>1. TypeOK /\ AnswersLearned
    BY <1>1 DEF DeliveryInv, OutboxInv
  <2>2. FinishOk(i) => job[i] = "ok"
    BY DEF FinishOk
  <2> QED
    BY <1>1, <2>1, <2>2, ReceiptLeaves DEF AnswersLearned
<1>2. DeliveryInv /\ OutboxInv /\ [Next]_vars =>
        [\A i \in Items :
           i[2] # "event" /\ queue[i] # NoRow /\ queue'[i] = NoRow
             => \/ Rank(sent[i[1]]) >= Rank(i[2])
                \/ sent[i[1]] = "none"
                \/ queue[Item(i[1])] = MaxAttempts
                \/ Expired(Sender(i), i)
                \/ Spent(i)]_vars
  BY <1>1
<1> QED
  BY <1>2, InvCorrect, OutboxInvCorrect, PTL DEF Spec, ReceiptKeptUntilLearned

-----------------------------------------------------------------------------
(* The refinement of DeliveryStatus.  What the sender is shown: *)
Shows(e) == IF sent[e] = "none" /\ e \in created THEN "forgotten" ELSE sent[e]

(* What one step does to what the recipient did with a message. *)
LEMMA AckMoves ==
  ASSUME TypeOK, Bookkeeping, InboxFaithful, Next, NEW e \in Events
  PROVE  \/ ack'[e] = ack[e]
         \/ ack[e] = "none" /\ ack'[e] = "accepted" /\ e \in created'
         \/ ack[e] # "none" /\ Rank(ack'[e]) > Rank(ack[e])
<1>1. ASSUME NEW f \in Events, SubmitLocal(f)
      PROVE  \/ ack'[e] = ack[e]
             \/ ack[e] = "none" /\ ack'[e] = "accepted" /\ e \in created'
  BY <1>1 DEF SubmitLocal, TypeOK
<1>2. ASSUME NEW f \in Events, StoreEvent(f)
      PROVE  \/ ack'[e] = ack[e]
             \/ ack[e] = "none" /\ ack'[e] = "accepted" /\ e \in created'
  <2>1. CASE ack'[e] = ack[e]
    BY <2>1
  <2>2. CASE ack'[e] # ack[e]
    <3>1. e = f /\ ack[e] = "none" /\ ack'[e] = "accepted"
      BY <1>2, <2>2 DEF StoreEvent, TypeOK
    <3>2. job[Item(e)] = "checked" \/ <<Item(e), "checked">> \in stray
      BY <1>2, <3>1 DEF StoreEvent, Advance
    <3>3. e \in created
      BY <3>2 DEF Bookkeeping
    <3> QED
      BY <1>2, <3>1, <3>3 DEF StoreEvent
  <2> QED
    BY <2>1, <2>2
<1>3. ASSUME NEW f \in Events, NEW st \in {"delivered", "read"}, MarkReceipt(f, st)
      PROVE  \/ ack'[e] = ack[e]
             \/ ack[e] # "none" /\ Rank(ack'[e]) > Rank(ack[e])
  BY <1>3 DEF MarkReceipt, InboxFaithful, TypeOK
<1> QED
  BY <1>1, <1>2, <1>3 DEF Next, ClientStep, DispatcherStep, EndpointStep, Environment,
     SubmitRemote, RefuseFull, Resubmit, FetchInbox, DueOutbox, DueReceipts, Post, FinishOk,
     FinishErr, Validate, StoreReceipt, Lose, TimeOut, Restart, RestartInFailure, Reborn, Age

(* The two status ranks are one. *)
LEMMA LevelIsRank == \A st : Promise!Level(st) = Rank(st)
BY DEF Promise!Level, Rank

(* What the sender is shown of one message moves as DeliveryStatus allows.  *)
LEMMA ShownMoves ==
  ASSUME DeliveryInv, DeliveryInv', OutboxInv, Next, NEW e \in Events
  PROVE  \/ Shows(e)' = Shows(e)
         \/ /\ Shows(e) = "none"
            /\ Shows(e)' = "queued" \/ (Shows(e)' = "accepted" /\ ack'[e] = "accepted")
         \/ /\ Shows(e) \notin {"none", "forgotten"}
            /\ \/ /\ Rank(Shows(e)) < Rank(Shows(e)')
                  /\ Rank(Shows(e)') <= Rank(ack'[e])
               \/ Shows(e)' \in {"failed", "forgotten"}
<1>1. /\ TypeOK /\ Bookkeeping /\ RowsPaired /\ Item(e) \in Items
      /\ Item(e)[1] = e /\ Item(e)[2] = "event"
      /\ Rank(sent'[e]) <= Rank(ack'[e])
      /\ e \notin created => sent[e] = "none"
      /\ sent[e] # "forgotten" /\ sent'[e] # "forgotten"
  <2>1. TypeOK /\ Bookkeeping /\ RowsPaired /\ TypeOK' /\ StatusHonest'
    BY DEF DeliveryInv, OutboxInv
  <2>2. Rank(sent'[e]) <= Rank(ack'[e])
    BY <2>1 DEF StatusHonest
  <2>3. sent[e] \in SentStates /\ sent'[e] \in SentStates
    BY <2>1 DEF TypeOK
  <2> QED
    BY <2>1, <2>2, <2>3, ItemFacts DEF Bookkeeping, SentStates
<1>2. CASE Untouched(e)
  BY <1>2 DEF Untouched, Shows
<1>3. CASE Purged(e)
  BY <1>1, <1>3 DEF Purged, Shows
<1>4. CASE FirstStored(e)
  <2>1. e \notin created /\ sent[e] = "none" /\ ack[e] = "none"
    BY <1>1, <1>4, FirstStoredFacts
  <2> QED
    BY <1>4, <2>1 DEF FirstStored, Shows
<1>5. CASE Shown(e)
  <2>1. Rank("none") = 0 /\ sent'[e] # "none" /\ sent[e] # "none"
    BY <1>5, RankFacts DEF Shown, Rank
  <2> QED
    BY <1>1, <1>5, <2>1 DEF Shown, Shows
<1>6. CASE FinishOk(Item(e))
  <2>1. created' = created
    BY <1>6 DEF FinishOk
  <2>2. \/ sent'[e] = sent[e]
        \/ sent[e] \in {"queued", "failed"} /\ sent'[e] = "accepted"
    BY <1>1, <1>6 DEF FinishOk, TypeOK
  <2>3. Rank("queued") = 0 /\ Rank("failed") = 0 /\ Rank("accepted") = 1
    BY DEF Rank
  <2> QED
    BY <1>1, <2>1, <2>2, <2>3 DEF Shows
<1>7. CASE FinishErr(Item(e))
  <2>1. created' = created
    BY <1>7 DEF FinishErr
  <2>2. sent[e] = "none" => sent'[e] = "none"
    BY <1>1, <1>7 DEF FinishErr, TypeOK
  <2> QED
    BY <1>1, <1>7, <2>1, <2>2, GivenUp DEF Shows
<1>8. ASSUME NEW peers, RestartInFailure(Item(e), peers)
      PROVE  Shows(e)' = Shows(e)
  BY <1>8 DEF RestartInFailure, Reborn, Shows
<1> QED
  BY <1>1, <1>2, <1>3, <1>4, <1>5, <1>6, <1>7, <1>8, MessageMoves

(* Delivery implements DeliveryStatus: through queues, losses, retries,      *)
(* restarts and purges, what a sender is shown and what its recipient did   *)
(* move as if nothing lay between them.                                     *)
THEOREM PromiseKeptCorrect == Spec => PromiseKept
<1> DEFINE Bar == [e \in Events |-> Shows(e)]
<1>1. Init => Promise!Init
  BY DEF Init, Promise!Init
<1>2. ASSUME DeliveryInv, DeliveryInv', OutboxInv, Next
      PROVE  Promise!Next
  <2>1. Bar' \in [Events -> Promise!Statuses] /\ ack' \in [Events -> Promise!Acks]
    BY <1>2 DEF DeliveryInv, TypeOK, Shows, SentStates, InboxStates, Promise!Statuses,
                Promise!Acks
  <2>2. ASSUME NEW e \in Events PROVE Promise!AckStep(e)
    <3>1. e \in created' => Shows(e)' # "none"
      BY <1>2 DEF DeliveryInv, Bookkeeping, Shows
    <3> QED
      BY <1>2, <2>2, <3>1, AckMoves, LevelIsRank
         DEF DeliveryInv, Promise!AckStep, Promise!Arrives, Promise!Acknowledged, Shows
  <2>3. ASSUME NEW e \in Events PROVE Promise!StatusStep(e)
    BY <1>2, <2>3, ShownMoves, LevelIsRank
       DEF Shows, Promise!StatusStep, Promise!Submitted, Promise!Learned, Promise!Known,
           Promise!GivenUp, Promise!Forgotten
  <2> QED
    BY <2>1, <2>2, <2>3 DEF Promise!Next, Shows
<1>3. ASSUME UNCHANGED vars PROVE UNCHANGED <<Bar, ack>>
  BY <1>3 DEF vars, Shows
<1>4. DeliveryInv /\ DeliveryInv' /\ OutboxInv /\ [Next]_vars
        => [Promise!Next]_<<Bar, ack>>
  BY <1>2, <1>3
<1> QED
  BY <1>1, <1>4, InvCorrect, OutboxInvCorrect, PTL DEF Spec, PromiseKept, Promise!Spec, Shows
=============================================================================
