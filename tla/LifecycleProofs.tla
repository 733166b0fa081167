--------------------------- MODULE LifecycleProofs ---------------------------
(***************************************************************************)
(* Proof that the store is closed last and that a stop request that found    *)
(* threads returns only when both loops are over, for any number of signals  *)
(* and of worker slots.                                                     *)
(***************************************************************************)
EXTENDS Lifecycle, TLAPS

(* The invariant holds before anything is started. *)
LEMMA LifecycleInit == Init => LifecycleInv
<1> SUFFICES ASSUME Init PROVE LifecycleInv
  OBVIOUS
<1> USE LifecycleAssumption DEF Init
<1>1. TypeOK
  <2>1. at \in [Signals \cup {Owner} -> OwnerStates \cup SignalStates]
    BY DEF OwnerStates, SignalStates
  <2>2. at[Owner] \in OwnerStates /\ \A t \in Signals : at[t] \in SignalStates
    BY DEF OwnerStates, SignalStates
  <2>3. on \in [Signals \cup {Owner} -> Listeners]
    BY DEF Listeners
  <2>4. free \in [Listeners -> 0..Slots] /\ busy \in [Listeners -> 0..Slots]
    OBVIOUS
  <2>5. /\ loop \in [Listeners -> {"off", "entering", "select", "accepted", "holding", "ended"}]
        /\ flag \in [Listeners -> BOOLEAN] /\ down \in [Listeners -> BOOLEAN]
    OBVIOUS
  <2> QED
    BY <2>1, <2>2, <2>3, <2>4, <2>5 DEF TypeOK
<1>2. SlotsConserved
  BY DEF SlotsConserved
<1>3. EventsTrue /\ Passed /\ ReturnedMeansStopped
  BY DEF EventsTrue, Passed, ReturnedMeansStopped
<1>4. OwnerOrder
  BY DEF OwnerOrder, Listeners
<1>5. StopSet /\ StopNotLost
  BY DEF StopSet, StopNotLost
<1> QED
  BY <1>1, <1>2, <1>3, <1>4, <1>5 DEF LifecycleInv

(* Which thread is where, and on which listener, after a step of thread t.   *)
LEMMA ThreadFacts ==
  ASSUME TypeOK
  PROVE  /\ DOMAIN at = Signals \cup {Owner} /\ DOMAIN on = Signals \cup {Owner}
         /\ \A t \in Signals \cup {Owner} : on[t] \in Listeners
         /\ \A t \in Signals \cup {Owner} : Done(t) \in {"release", "returned"}
         /\ \A t \in Signals : Done(t) = "returned" /\ t # Owner
         /\ Done(Owner) = "release"
BY LifecycleAssumption DEF TypeOK, Done

(* Every step leaves the state well typed. *)
LEMMA TypeKeeps == LifecycleInv /\ Next => TypeOK'
<1> SUFFICES ASSUME LifecycleInv, Next PROVE TypeOK'
  OBVIOUS
<1> USE DEF TypeOK, LifecycleInv
<1>1. CASE OwnerStep \/ GiveUpJoin
  <2> USE LifecycleAssumption
  <2> DEFINE Places ==
        /\ at' \in [Signals \cup {Owner} -> OwnerStates \cup SignalStates]
        /\ at'[Owner] \in OwnerStates /\ \A t \in Signals : at'[t] \in SignalStates
  <2>1. ASSUME NEW to \in OwnerStates, at' = [at EXCEPT ![Owner] = to]
        PROVE  Places
    BY <2>1
  <2>2. \A to \in {"start", "register", "outbox", "run", "join", "stop", "wake",
                   "join outbox", "check", "closed"} : to \in OwnerStates
    BY DEF OwnerStates
  <2> HIDE DEF Places
  <2>3. CASE StartThread
    BY <2>1, <2>2, <2>3 DEF StartThread, Go, Places, Listeners, outbox
  <2>4. CASE Register \/ JoinLoop
    <3>1. /\ \E to \in OwnerStates : at' = [at EXCEPT ![Owner] = to]
          /\ on' \in [Signals \cup {Owner} -> Listeners]
          /\ registered' \subseteq Listeners
      BY <2>2, <2>4 DEF Register, JoinLoop, NextListener, Listeners
    <3> QED
      BY <2>1, <2>4, <3>1 DEF Places, Register, JoinLoop, loops, outbox
  <2>5. CASE StartOutbox \/ Wait \/ Leave
    BY <2>1, <2>2, <2>5 DEF StartOutbox, Wait, Leave, Go, Places, loops, outbox
  <2>6. CASE StopOutbox \/ WakeOutbox \/ JoinOutbox \/ GiveUpJoin \/ Release
    BY <2>1, <2>2, <2>6 DEF StopOutbox, WakeOutbox, JoinOutbox, GiveUpJoin, Release, Go,
      Places, loops, outbox
  <2> QED
    BY <1>1, <2>3, <2>4, <2>5, <2>6 DEF OwnerStep
<1>2. ASSUME NEW t \in Signals \cup {Owner},
             RequestShutdown(t) \/ (t \in Signals /\ Signal(t))
      PROVE  TypeOK'
  <2> USE DEF OwnerStates, SignalStates, Listeners, Go, NextListener, Done, loops, outbox
  <2> USE LifecycleAssumption
  <2>1. CASE t \in Signals /\ Signal(t)
    BY <2>1 DEF Signal
  <2>2. CASE Check(t)
    BY <2>2 DEF Check
  <2>3. CASE Shut(t)
    BY <2>3 DEF Shut
  <2>4. CASE Awaited(t)
    <3> DEFINE to == IF on[t] = "client" THEN "shut" ELSE Done(t)
    <3>1. at' = [at EXCEPT ![t] = to]
      BY <2>4 DEF Awaited
    <3>2. to \in {"shut", "release", "returned"} /\ (t = Owner => to \in {"shut", "release"})
                                              /\ (t # Owner => to \in {"shut", "returned"})
      OBVIOUS
    <3> HIDE DEF to
    <3>4. at' \in [Signals \cup {Owner} -> OwnerStates \cup SignalStates]
      BY <3>1, <3>2
    <3>5. at'[Owner] \in OwnerStates /\ \A u \in Signals : at'[u] \in SignalStates
      BY <3>1, <3>2
    <3>3. on' \in [Signals \cup {Owner} -> Listeners]
      BY <2>4 DEF Awaited
    <3> QED
      BY <2>4, <3>3, <3>4, <3>5 DEF Awaited
  <2> QED
    BY <1>2, <2>1, <2>2, <2>3, <2>4 DEF RequestShutdown
<1>3. ASSUME NEW l \in Listeners,
             LoopStep(l) \/ SpawnFails(l) \/ Take(l) \/ HandshakeEnds(l) \/ Handled(l)
      PROVE  TypeOK'
  <2> USE LifecycleAssumption DEF threads, outbox
  <2>1. CASE Enter(l) \/ EndLoop(l) \/ Take(l) \/ HandshakeEnds(l)
    BY <2>1 DEF Enter, EndLoop, Take, HandshakeEnds
  <2>2. /\ free[l] \in 0..Slots /\ busy[l] \in 0..Slots
        /\ free[l] + busy[l] + (IF loop[l] = "holding" THEN 1 ELSE 0) = Slots
    BY DEF SlotsConserved
  <2>3. CASE Acquire(l)
    BY <2>2, <2>3 DEF Acquire
  <2>4. CASE Spawn(l)
    BY <2>2, <2>4 DEF Spawn
  <2>5. CASE SpawnFails(l)
    BY <2>2, <2>5 DEF SpawnFails
  <2>6. CASE Handled(l)
    BY <2>2, <2>6 DEF Handled
  <2> QED
    BY <1>3, <2>1, <2>3, <2>4, <2>5, <2>6 DEF LoopStep
<1>4. CASE Dispatch \/ Interval
  BY <1>4 DEF Dispatch, Interval, FlushBegins, FlushEnds, Woken,
    WaitEnds, Clear, threads, loops
<1> QED
  BY <1>1, <1>2, <1>3, <1>4 DEF Next

(* No step loses a slot. *)
LEMMA SlotsKeep == LifecycleInv /\ Next => SlotsConserved'
<1> SUFFICES ASSUME LifecycleInv, Next PROVE SlotsConserved'
  OBVIOUS
<1> USE DEF LifecycleInv, TypeOK, SlotsConserved
<1>1. CASE UNCHANGED <<loop, free, busy>>
  BY <1>1
<1>2. CASE StartThread
  <2>1. on[Owner] \in Listeners /\ loop[on[Owner]] = "off"
    BY <1>2 DEF StartThread, Go, OwnerOrder
  <2> QED
    BY <1>2, <2>1 DEF StartThread
<1>3. ASSUME NEW l \in Listeners,
             LoopStep(l) \/ SpawnFails(l) \/ Take(l) \/ HandshakeEnds(l) \/ Handled(l)
      PROVE  SlotsConserved'
  <2> USE LifecycleAssumption
  <2>1. CASE Enter(l) \/ EndLoop(l) \/ Take(l) \/ HandshakeEnds(l)
    BY <2>1 DEF Enter, EndLoop, Take, HandshakeEnds
  <2>2. CASE Acquire(l)
    BY <2>2 DEF Acquire
  <2>3. CASE Spawn(l)
    BY <2>3 DEF Spawn
  <2>4. CASE SpawnFails(l)
    BY <2>4 DEF SpawnFails
  <2>5. CASE Handled(l)
    <3>1. /\ free' = [free EXCEPT ![l] = free[l] + 1]
          /\ busy' = [busy EXCEPT ![l] = busy[l] - 1]
          /\ loop' = loop
      BY <2>5 DEF Handled
    <3>2. free'[l] + busy'[l] = free[l] + busy[l]
      BY <3>1
    <3> QED
      BY <3>1, <3>2
  <2> QED
    BY <1>3, <2>1, <2>2, <2>3, <2>4, <2>5 DEF LoopStep
<1> QED
  BY <1>1, <1>2, <1>3
  DEF Next, OwnerStep, Register, StartOutbox, Wait, Leave, JoinLoop, StopOutbox,
    WakeOutbox, JoinOutbox, Release, GiveUpJoin, Signal, RequestShutdown, Check, Shut, Awaited,
    Dispatch, Interval, FlushBegins, FlushEnds, Woken,
    WaitEnds, Clear, loops

(* A loop that is over stays so, and only its end sets its event.           *)
LEMMA LoopFacts ==
  ASSUME LifecycleInv, Next, NEW m \in Listeners
  PROVE  /\ loop[m] = "ended" => loop'[m] = "ended"
         /\ down'[m] => loop'[m] = "ended"
<1> USE DEF LifecycleInv, TypeOK
<1>1. CASE UNCHANGED <<loop, down>>
  BY <1>1 DEF EventsTrue
<1>2. CASE StartThread
  <2>1. loop[on[Owner]] = "off" /\ on[Owner] \in Listeners
    BY <1>2 DEF StartThread, Go, OwnerOrder
  <2>2. ~down[on[Owner]]
    BY <2>1 DEF EventsTrue
  <2> QED
    BY <1>2, <2>1, <2>2 DEF StartThread, EventsTrue
<1>3. ASSUME NEW l \in Listeners,
             LoopStep(l) \/ SpawnFails(l) \/ Take(l) \/ HandshakeEnds(l) \/ Handled(l)
      PROVE  /\ loop[m] = "ended" => loop'[m] = "ended"
             /\ down'[m] => loop'[m] = "ended"
  BY <1>3 DEF LoopStep, Enter, EndLoop, Acquire, Spawn, SpawnFails, Take,
    HandshakeEnds, Handled, EventsTrue
<1> QED
  BY <1>1, <1>2, <1>3
  DEF Next, OwnerStep, Register, StartOutbox, Wait, Leave, JoinLoop, StopOutbox,
    WakeOutbox, JoinOutbox, Release, GiveUpJoin, Signal, RequestShutdown, Check, Shut, Awaited,
    Dispatch, Interval, FlushBegins, FlushEnds, Woken,
    WaitEnds, Clear, loops

(* What a thread that passes a listener's event knows. *)
LEMMA PassedKeeps == LifecycleInv /\ Next => Passed'
<1> SUFFICES ASSUME LifecycleInv, Next, NEW u \in Signals \cup {Owner}
             PROVE  /\ at'[u] \in {"shut", "await"} /\ on'[u] = "federation"
                         => loop'["client"] = "ended"
                    /\ at'[u] \notin {"shut", "await", "returned", "release", "closed"}
                         => u \notin found'
                    /\ at'[u] \in {"idle", "check"} => on'[u] = "client"
  BY DEF Passed
<1>0. /\ loop["client"] = "ended" => loop'["client"] = "ended"
      /\ down["client"] => loop["client"] = "ended"
  BY LoopFacts DEF Listeners, LifecycleInv, EventsTrue
<1> USE DEF LifecycleInv, TypeOK, Passed
<1>1. CASE UNCHANGED <<at, on, found>>
  BY <1>0, <1>1
<1>2. CASE OwnerStep \/ GiveUpJoin
  <2> USE LifecycleAssumption DEF Go, NextListener
  <2>1. CASE StartThread \/ StartOutbox \/ Wait \/ Leave \/ StopOutbox \/ WakeOutbox \/ Release
    BY <1>0, <2>1 DEF StartThread, StartOutbox, Wait, Leave, StopOutbox, WakeOutbox, Release
  <2>2. CASE Register \/ JoinLoop
    BY <1>0, <2>2 DEF Register, JoinLoop
  <2>3. CASE JoinOutbox \/ GiveUpJoin
    BY <1>0, <2>3 DEF JoinOutbox, GiveUpJoin, OwnerOrder, ReturnedMeansStopped
  <2> QED
    BY <1>2, <2>1, <2>2, <2>3 DEF OwnerStep
<1>3. ASSUME NEW t \in Signals \cup {Owner},
             RequestShutdown(t) \/ (t \in Signals /\ Signal(t))
      PROVE  /\ at'[u] \in {"shut", "await"} /\ on'[u] = "federation"
                  => loop'["client"] = "ended"
             /\ at'[u] \notin {"shut", "await", "returned", "release", "closed"}
                  => u \notin found'
             /\ at'[u] \in {"idle", "check"} => on'[u] = "client"
  <2> USE LifecycleAssumption DEF Go, NextListener
  <2>1. CASE t \in Signals /\ Signal(t)
    BY <1>0, <2>1 DEF Signal
  <2>2. CASE Check(t)
    BY <1>0, <2>2, ThreadFacts DEF Check
  <2>3. CASE Shut(t)
    BY <1>0, <2>3 DEF Shut
  <2>4. CASE Awaited(t)
    BY <1>0, <2>4, ThreadFacts DEF Awaited, Listeners
  <2> QED
    BY <1>3, <2>1, <2>2, <2>3, <2>4 DEF RequestShutdown
<1> QED
  BY <1>1, <1>2, <1>3
  DEF Next, LoopStep, Enter, EndLoop, Acquire, Spawn, SpawnFails, Take,
    HandshakeEnds, Handled,
    Dispatch, Interval, FlushBegins, FlushEnds, Woken,
    WaitEnds, Clear, threads

(* Both loops are over for a stop request that returns.                     *)
LEMMA ReturnedKeeps == LifecycleInv /\ Next => ReturnedMeansStopped'
<1> SUFFICES ASSUME LifecycleInv, Next, NEW u \in found',
                    at'[u] \in {"returned", "release", "closed"},
                    NEW m \in Listeners
             PROVE  loop'[m] = "ended"
  BY DEF ReturnedMeansStopped
<1>0. /\ loop[m] = "ended" => loop'[m] = "ended"
      /\ down[m] => loop[m] = "ended"
  BY LoopFacts DEF LifecycleInv, EventsTrue
<1> USE DEF LifecycleInv, TypeOK, ReturnedMeansStopped
<1>1. CASE UNCHANGED <<at, found>>
  BY <1>0, <1>1
<1>2. CASE OwnerStep \/ GiveUpJoin
  <2> USE LifecycleAssumption DEF Go, NextListener
  <2>1. CASE StartThread \/ StartOutbox \/ Wait \/ Leave \/ StopOutbox \/ WakeOutbox \/ Release
    BY <1>0, <2>1 DEF StartThread, StartOutbox, Wait, Leave, StopOutbox, WakeOutbox, Release
  <2>2. CASE Register \/ JoinLoop
    BY <1>0, <2>2 DEF Register, JoinLoop
  <2>3. CASE JoinOutbox \/ GiveUpJoin
    BY <1>0, <2>3 DEF JoinOutbox, GiveUpJoin
  <2> QED
    BY <1>2, <2>1, <2>2, <2>3 DEF OwnerStep
<1>3. ASSUME NEW t \in Signals \cup {Owner},
             RequestShutdown(t) \/ (t \in Signals /\ Signal(t))
      PROVE  loop'[m] = "ended"
  <2> USE LifecycleAssumption DEF Go, NextListener
  <2>1. CASE t \in Signals /\ Signal(t)
    BY <1>0, <2>1 DEF Signal
  <2>2. CASE Check(t)
    BY <1>0, <2>2 DEF Check, Passed
  <2>3. CASE Shut(t)
    BY <1>0, <2>3 DEF Shut
  <2>4. CASE Awaited(t)
    <3>1. CASE u = t
      BY <1>0, <2>4, <3>1, ThreadFacts DEF Awaited, Passed, EventsTrue, Listeners
    <3>2. CASE u # t
      BY <1>0, <2>4, <3>2 DEF Awaited
    <3> QED
      BY <3>1, <3>2
  <2> QED
    BY <1>3, <2>1, <2>2, <2>3, <2>4 DEF RequestShutdown
<1> QED
  BY <1>1, <1>2, <1>3
  DEF Next, LoopStep, Enter, EndLoop, Acquire, Spawn, SpawnFails, Take,
    HandshakeEnds, Handled,
    Dispatch, Interval, FlushBegins, FlushEnds, Woken,
    WaitEnds, Clear, threads

(* The owner's way from start to close. *)
LEMMA OrderKeeps == LifecycleInv /\ Next => OwnerOrder'
<1> SUFFICES ASSUME LifecycleInv, Next PROVE OwnerOrder'
  OBVIOUS
<1> USE LifecycleAssumption DEF LifecycleInv, TypeOK, OwnerOrder
<1>1. CASE OwnerStep \/ GiveUpJoin
  <2> USE DEF Go, NextListener, loops, outbox
  <2>1. CASE StartThread
    BY <2>1 DEF StartThread, Listeners
  <2>2. CASE Register
    <3>1. CASE on[Owner] = "client"
      BY <2>2, <3>1 DEF Register
    <3>2. CASE on[Owner] # "client"
      <4>1. on[Owner] = "federation" /\ registered' = Listeners
        <5>1. on[Owner] = "federation" /\ "client" \in registered
          BY <2>2, <3>2 DEF Register, Listeners
        <5>2. registered' = registered \cup {"federation"} /\ registered \subseteq Listeners
          BY <2>2, <5>1 DEF Register
        <5> HIDE DEF LifecycleInv, TypeOK, OwnerOrder
        <5> QED
          BY <5>1, <5>2 DEF Listeners
      <4>2. at'[Owner] = "outbox" /\ on'[Owner] = "client"
        BY <2>2, <3>2 DEF Register
      <4>3. UNCHANGED <<loop, dispatcher, gaveUp, open, found>> /\ at[Owner] = "register"
        BY <2>2 DEF Register
      <4> QED
        BY <4>1, <4>2, <4>3
    <3> QED
      BY <3>1, <3>2
  <2>3. CASE StartOutbox \/ Wait \/ Leave
    BY <2>3 DEF StartOutbox, Wait, Leave
  <2>4. CASE JoinLoop
    BY <2>4 DEF JoinLoop
  <2>5. CASE StopOutbox \/ WakeOutbox \/ JoinOutbox \/ GiveUpJoin
    BY <2>5 DEF StopOutbox, WakeOutbox, JoinOutbox, GiveUpJoin
  <2>6. CASE Release
    BY <2>6 DEF Release
  <2> QED
    BY <1>1, <2>1, <2>2, <2>3, <2>4, <2>5, <2>6 DEF OwnerStep
<1>2. ASSUME NEW t \in Signals \cup {Owner},
             RequestShutdown(t) \/ (t \in Signals /\ Signal(t))
      PROVE  OwnerOrder'
  <2> USE DEF Go, NextListener, loops, outbox
  <2>1. CASE t \in Signals
    <3>1. at'[Owner] = at[Owner] /\ on'[Owner] = on[Owner] /\ found \subseteq found'
      BY <1>2, <2>1 DEF Signal, RequestShutdown, Check, Shut, Awaited
    <3>2. UNCHANGED <<loop, registered, dispatcher, gaveUp, open>>
      BY <1>2, <2>1 DEF Signal, RequestShutdown, Check, Shut, Awaited
    <3> QED
      BY <3>1, <3>2
  <2>2. CASE t = Owner /\ Check(t)
    <3>1. registered # {}
      BY <2>2 DEF Check, Listeners
    <3> QED
      BY <2>2, <3>1, ThreadFacts DEF Check, Passed
  <2>3. CASE t = Owner /\ Shut(t)
    BY <2>3 DEF Shut
  <2>4. CASE t = Owner /\ Awaited(t)
    <3>1. CASE on[Owner] = "client"
      BY <2>4, <3>1 DEF Awaited
    <3>2. CASE on[Owner] # "client"
      BY <2>4, <3>2, ThreadFacts DEF Awaited
    <3> QED
      BY <3>1, <3>2
  <2> QED
    BY <1>2, <2>1, <2>2, <2>3, <2>4 DEF RequestShutdown
<1>3. ASSUME NEW l \in Listeners,
             LoopStep(l) \/ SpawnFails(l) \/ Take(l) \/ HandshakeEnds(l) \/ Handled(l)
      PROVE  OwnerOrder'
  BY <1>3 DEF LoopStep, Enter, EndLoop, Acquire, Spawn, SpawnFails, Take,
    HandshakeEnds, Handled,
    threads, outbox, Listeners
<1>4. CASE Dispatch \/ Interval
  BY <1>4 DEF Dispatch, Interval, FlushBegins, FlushEnds, Woken,
    WaitEnds, Clear, threads, loops
<1> QED
  BY <1>1, <1>2, <1>3, <1>4 DEF Next

(* The owner told the dispatcher to stop before it goes on closing.          *)
LEMMA StopSetKeeps == LifecycleInv /\ Next => StopSet'
<1> SUFFICES ASSUME LifecycleInv, Next PROVE StopSet'
  OBVIOUS
<1> USE LifecycleAssumption DEF LifecycleInv, TypeOK, StopSet, Go, NextListener
<1>1. CASE StartThread \/ StartOutbox \/ Wait \/ Leave \/ StopOutbox
  BY <1>1 DEF StartThread, StartOutbox, Wait, Leave, StopOutbox
<1>2. CASE Register \/ JoinLoop
  BY <1>2 DEF Register, JoinLoop
<1>3. CASE WakeOutbox \/ JoinOutbox \/ GiveUpJoin \/ Release
  BY <1>3 DEF WakeOutbox, JoinOutbox, GiveUpJoin, Release, outbox
<1>4. ASSUME NEW t \in Signals \cup {Owner},
             RequestShutdown(t) \/ (t \in Signals /\ Signal(t))
      PROVE  StopSet'
  <2>1. CASE t \in Signals
    BY <1>4, <2>1 DEF RequestShutdown, Signal, Check, Shut, Awaited, outbox
  <2>2. CASE t = Owner
    BY <1>4, <2>2 DEF RequestShutdown, Signal, Check, Shut, Awaited, outbox
  <2> QED
    BY <2>1, <2>2
<1>5. ASSUME NEW l \in Listeners,
             LoopStep(l) \/ SpawnFails(l) \/ Take(l) \/ HandshakeEnds(l) \/ Handled(l)
      PROVE  StopSet'
  BY <1>5 DEF LoopStep, Enter, EndLoop, Acquire, Spawn, SpawnFails, Take, HandshakeEnds,
    Handled, threads, outbox
<1>6. CASE Dispatch \/ Interval
  BY <1>6 DEF Dispatch, Interval, FlushBegins, FlushEnds, Woken, WaitEnds, Clear, threads
<1> QED
  BY <1>1, <1>2, <1>3, <1>4, <1>5, <1>6 DEF Next, OwnerStep

(* The dispatcher does not go back to sleep on a stop.                       *)
LEMMA WakeKeeps ==
  ASSUME LifecycleInv, Next,
         at'[Owner] \in {"join outbox", "check", "shut", "await", "release", "closed"}
  PROVE  wake' \/ dispatcher' \in {"clear", "top", "ended"}
<1> DEFINE Awake == wake \/ dispatcher \in {"clear", "top", "ended"}
           Woke == {"join outbox", "check", "shut", "await", "release", "closed"}
<1> USE LifecycleAssumption DEF LifecycleInv, TypeOK
<1>1. CASE WakeOutbox
  BY <1>1 DEF WakeOutbox
<1>2. CASE Dispatch \/ Interval
  <2>1. at[Owner] \in Woke /\ Awake /\ stopping
    BY <1>2 DEF Dispatch, Interval, FlushBegins, FlushEnds, Woken, WaitEnds, Clear,
      threads, StopNotLost, StopSet
  <2> QED
    BY <1>2, <2>1 DEF Dispatch, Interval, FlushBegins, FlushEnds, Woken, WaitEnds, Clear
<1>3. CASE UNCHANGED <<wake, dispatcher>> /\ at[Owner] \in Woke
  BY <1>3 DEF StopNotLost
<1>4. CASE OwnerStep \/ GiveUpJoin
  <2> USE DEF Go, NextListener
  <2>1. CASE StartThread \/ StartOutbox \/ Wait \/ Leave \/ StopOutbox
    BY <2>1 DEF StartThread, StartOutbox, Wait, Leave, StopOutbox
  <2>2. CASE Register \/ JoinLoop
    BY <2>2 DEF Register, JoinLoop
  <2>3. CASE JoinOutbox \/ GiveUpJoin \/ Release
    BY <1>3, <2>3 DEF JoinOutbox, GiveUpJoin, Release, outbox
  <2> QED
    BY <1>1, <1>4, <2>1, <2>2, <2>3 DEF OwnerStep
<1>5. ASSUME NEW t \in Signals \cup {Owner},
             RequestShutdown(t) \/ (t \in Signals /\ Signal(t))
      PROVE  UNCHANGED <<wake, dispatcher>> /\ at[Owner] \in Woke
  <2>1. CASE t \in Signals
    BY <1>5, <2>1 DEF RequestShutdown, Signal, Check, Shut, Awaited, Go, NextListener, outbox
  <2>2. CASE t = Owner
    BY <1>5, <2>2 DEF RequestShutdown, Signal, Check, Shut, Awaited, Go, outbox
  <2> QED
    BY <2>1, <2>2
<1>6. ASSUME NEW l \in Listeners,
             LoopStep(l) \/ SpawnFails(l) \/ Take(l) \/ HandshakeEnds(l) \/ Handled(l)
      PROVE  UNCHANGED <<wake, dispatcher>> /\ at[Owner] \in Woke
  BY <1>6 DEF LoopStep, Enter, EndLoop, Acquire, Spawn, SpawnFails, Take, HandshakeEnds,
    Handled, threads, outbox
<1> QED
  BY <1>2, <1>3, <1>4, <1>5, <1>6 DEF Next

(* Whoever waits for a loop waits for one that is over or will see the flag. *)
LEMMA FlagKeeps ==
  ASSUME LifecycleInv, Next, NEW u \in Signals \cup {Owner}, at'[u] = "await"
  PROVE  flag'[on'[u]] \/ loop'[on'[u]] = "ended"
<1> USE LifecycleAssumption DEF LifecycleInv, TypeOK
<1>1. \A l \in Listeners : loop[l] = "ended" => loop'[l] = "ended"
  BY LoopFacts
<1>2. CASE at[u] = "await" /\ on'[u] = on[u] /\ (flag[on[u]] => flag'[on[u]])
  BY <1>1, <1>2 DEF StopNotLost
<1>3. CASE OwnerStep \/ GiveUpJoin
  <2> USE DEF Go, NextListener
  <2>1. at'[u] = at[u] /\ on'[u] = on[u] /\ UNCHANGED flag
    BY <1>3 DEF OwnerStep, StartThread, Register, StartOutbox, Wait, Leave, JoinLoop,
      StopOutbox, WakeOutbox, JoinOutbox, GiveUpJoin, Release, loops
  <2> QED
    BY <1>2, <2>1
<1>4. ASSUME NEW t \in Signals \cup {Owner},
             RequestShutdown(t) \/ (t \in Signals /\ Signal(t))
      PROVE  flag'[on'[u]] \/ loop'[on'[u]] = "ended"
  <2>1. CASE u = t
    BY <1>4, <2>1, ThreadFacts DEF RequestShutdown, Signal, Check, Shut, Awaited, Go,
      NextListener
  <2>2. CASE u # t
    BY <1>2, <1>4, <2>2 DEF RequestShutdown, Signal, Check, Shut, Awaited, Go,
      NextListener, loops
  <2> QED
    BY <2>1, <2>2
<1>5. ASSUME NEW l \in Listeners, EndLoop(l)
      PROVE  flag'[on'[u]] \/ loop'[on'[u]] = "ended"
  BY <1>1, <1>5 DEF EndLoop, threads, StopNotLost
<1>6. ASSUME NEW l \in Listeners,
             Enter(l) \/ Acquire(l) \/ Spawn(l) \/ SpawnFails(l) \/ Take(l)
             \/ HandshakeEnds(l) \/ Handled(l)
      PROVE  flag'[on'[u]] \/ loop'[on'[u]] = "ended"
  BY <1>2, <1>6 DEF Enter, Acquire, Spawn, SpawnFails, Take, HandshakeEnds, Handled,
    threads
<1>7. CASE Dispatch \/ Interval
  BY <1>2, <1>7 DEF Dispatch, Interval, FlushBegins, FlushEnds, Woken, WaitEnds, Clear,
    threads, loops
<1> QED
  BY <1>3, <1>4, <1>5, <1>6, <1>7 DEF Next, LoopStep

(* Every step preserves the invariant. *)
LEMMA LifecycleNext == LifecycleInv /\ [Next]_vars => LifecycleInv'
<1> SUFFICES ASSUME LifecycleInv, [Next]_vars PROVE LifecycleInv'
  OBVIOUS
<1>1. CASE UNCHANGED vars
  BY <1>1 DEF vars, LifecycleInv, TypeOK, SlotsConserved, EventsTrue, Passed,
    OwnerOrder, ReturnedMeansStopped, StopSet, StopNotLost
<1>2. CASE Next
  <2>1. EventsTrue'
    BY <1>2, LoopFacts DEF EventsTrue
  <2>2. StopNotLost'
    BY <1>2, WakeKeeps, FlagKeeps DEF StopNotLost
  <2> QED
    BY <1>2, <2>1, <2>2, StopSetKeeps, TypeKeeps, SlotsKeep, PassedKeeps, OrderKeeps, ReturnedKeeps
    DEF LifecycleInv
<1> QED
  BY <1>1, <1>2

(* The inductive invariant, TypeOK among it. *)
THEOREM LifecycleInvCorrect == Spec => []LifecycleInv
BY LifecycleInit, LifecycleNext, PTL DEF Spec

(* The threads, flags and semaphores keep their types, and no listener has more
   free slots than it started with (process_request_thread). *)
THEOREM TypeCorrect == Spec => []TypeOK
<1>1. LifecycleInv => TypeOK
  BY DEF LifecycleInv
<1> QED
  BY <1>1, LifecycleInvCorrect, PTL

(* No worker slot is lost or given back twice (process_request). *)
THEOREM SlotsConservedCorrect == Spec => []SlotsConserved
<1>1. LifecycleInv => SlotsConserved
  BY DEF LifecycleInv
<1> QED
  BY <1>1, LifecycleInvCorrect, PTL

(* A stop request that found threads returns only when both loops are over  *)
(* (request_shutdown).                                                     *)
THEOREM ReturnedMeansStoppedCorrect == Spec => []ReturnedMeansStopped
<1>1. LifecycleInv => ReturnedMeansStopped
  BY DEF LifecycleInv
<1> QED
  BY <1>1, LifecycleInvCorrect, PTL

(* No stop is lost on its way to a loop or to the dispatcher's thread        *)
(* (shutdown of socketserver, OutboxDispatcher.stop and _run).              *)
THEOREM StopNotLostCorrect == Spec => []StopNotLost
<1>1. LifecycleInv => StopNotLost
  BY DEF LifecycleInv
<1> QED
  BY <1>1, LifecycleInvCorrect, PTL

(* The store is closed after the loops and the dispatcher (close). *)
THEOREM StoreClosedLastCorrect == Spec => []StoreClosedLast
<1>1. LifecycleInv => StoreClosedLast
  BY DEF LifecycleInv, OwnerOrder, ReturnedMeansStopped, StoreClosedLast
<1> QED
  BY <1>1, LifecycleInvCorrect, PTL
=============================================================================
