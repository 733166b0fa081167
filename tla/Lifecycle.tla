------------------------------ MODULE Lifecycle ------------------------------
(***************************************************************************)
(* The threads of one server process, from start to close (server.py,       *)
(* cli.py main and its signal handler, federation.py OutboxDispatcher).     *)
(*                                                                         *)
(* The owner starts a loop for each of the two listeners and the dispatcher, *)
(* waits for the loops (the command line) or does something else (`with     *)
(* CompanionService(...)`), and closes everything.  Every SIGTERM or SIGINT  *)
(* starts a thread that asks the loops to stop.  A loop hands each request   *)
(* to a thread of its own, as long as it has a worker slot.  The loop, its   *)
(* shutdown flag and its "is shut down" event are those of Python's         *)
(* socketserver.                                                           *)
(***************************************************************************)
EXTENDS Integers

CONSTANTS
  Signals,  \* the threads the signals start
  Slots,    \* max_workers of a listener
  Tls       \* the listeners that are configured with a certificate

Owner == "owner"
Listeners == {"client", "federation"}

ASSUME LifecycleAssumption ==
  Owner \notin Signals /\ Slots \in Nat \ {0} /\ Tls \subseteq Listeners

VARIABLES
  at,          \* where the owner and each signal thread stand
  on,          \* the listener it is dealing with there
  registered,  \* CompanionService._threads
  loop,        \* state of each listener's serve_forever
  flag,        \* __shutdown_request of each listener
  down,        \* __is_shut_down of each listener
  free,        \* free worker slots of each listener
  busy,        \* its requests being handled
  dispatcher,  \* the thread of the outbox dispatcher
  stopping,    \* OutboxDispatcher._stop
  wake,        \* OutboxDispatcher._wake
  gaveUp,      \* the owner gave up joining the dispatcher
  open,        \* the store is open
  found        \* history: stop requests that found threads to stop

vars == <<at, on, registered, loop, flag, down, free, busy, dispatcher, stopping,
          wake, gaveUp, open, found>>
threads == <<at, on>>
loops   == <<loop, flag, down, free, busy>>
outbox  == <<dispatcher, stopping, wake, gaveUp>>

Go(t, from, to) == at[t] = from /\ at' = [at EXCEPT ![t] = to] /\ UNCHANGED on

(* Both listeners are dealt with in turn, the client's first.               *)
NextListener(t, again, done) ==
  IF on[t] = "client"
  THEN at' = [at EXCEPT ![t] = again] /\ on' = [on EXCEPT ![t] = "federation"]
  ELSE at' = [at EXCEPT ![t] = done] /\ on' = [on EXCEPT ![t] = "client"]

-----------------------------------------------------------------------------
(* The owner: start *)

StartThread ==
  /\ Go(Owner, "start", "register")
  /\ loop' = [loop EXCEPT ![on[Owner]] = "entering"]
  /\ UNCHANGED <<registered, flag, down, free, busy, outbox, open, found>>

Register ==
  /\ at[Owner] = "register"
  /\ registered' = registered \cup {on[Owner]}
  /\ NextListener(Owner, "start", "outbox")
  /\ UNCHANGED <<loops, outbox, open, found>>

StartOutbox ==
  /\ Go(Owner, "outbox", "run")
  /\ dispatcher' = "top"
  /\ UNCHANGED <<registered, loops, stopping, wake, gaveUp, open, found>>

(* wait() of the command line, or the end of a `with` block.                *)
Wait == /\ Go(Owner, "run", "join")
        /\ UNCHANGED <<registered, loops, outbox, open, found>>
Leave == /\ Go(Owner, "run", "stop")
         /\ UNCHANGED <<registered, loops, outbox, open, found>>

JoinLoop ==
  /\ at[Owner] = "join" /\ loop[on[Owner]] = "ended"
  /\ NextListener(Owner, "join", "stop")
  /\ UNCHANGED <<registered, loops, outbox, open, found>>

(* close: stop the dispatcher, then the loops, and only then the store.      *)
StopOutbox ==
  /\ Go(Owner, "stop", "wake")
  /\ stopping' = TRUE
  /\ UNCHANGED <<registered, loops, dispatcher, wake, gaveUp, open, found>>

WakeNobody ==   \* leaves it to the interval
  /\ Go(Owner, "wake", "join outbox")
  /\ UNCHANGED <<registered, loops, outbox, open, found>>
WakeOutbox ==
  /\ Go(Owner, "wake", "join outbox")
  /\ wake' = TRUE
  /\ UNCHANGED <<registered, loops, dispatcher, stopping, gaveUp, open, found>>

JoinNothing ==   \* does not wait
  /\ Go(Owner, "join outbox", "check")
  /\ UNCHANGED <<registered, loops, outbox, open, found>>
JoinOutbox ==
  /\ dispatcher = "ended"
  /\ Go(Owner, "join outbox", "check")
  /\ UNCHANGED <<registered, loops, outbox, open, found>>

(* join(timeout=20) returns before a long batch has been delivered.          *)
GiveUpJoin ==
  /\ dispatcher # "ended"
  /\ Go(Owner, "join outbox", "check")
  /\ gaveUp' = TRUE
  /\ UNCHANGED <<registered, loops, dispatcher, stopping, wake, open, found>>

Release ==
  /\ Go(Owner, "release", "closed")
  /\ open' = FALSE
  /\ UNCHANGED <<registered, loops, outbox, found>>

OwnerStep ==
  \/ StartThread \/ Register \/ StartOutbox
  \/ Wait \/ Leave \/ JoinLoop
  \/ StopOutbox \/ WakeOutbox \/ JoinOutbox \/ Release

-----------------------------------------------------------------------------
(* request_shutdown, by the owner and by signal threads. *)

Signal(t) ==
  /\ at[Owner] # "closed"
  /\ Go(t, "idle", "check")
  /\ UNCHANGED <<registered, loops, outbox, open, found>>

Done(t) == IF t = Owner THEN "release" ELSE "returned"

(* `if self._threads`: with none there is nothing to do. *)
Check(t) ==
  /\ Go(t, "check", IF registered = {} THEN Done(t) ELSE "shut")
  /\ found' = IF registered = {} THEN found ELSE found \cup {t}
  /\ UNCHANGED <<registered, loops, outbox, open>>

(* shutdown() of a listener: raise the flag, wait for the loop's event.      *)
Shut(t) ==
  /\ Go(t, "shut", "await")
  /\ flag' = [flag EXCEPT ![on[t]] = TRUE]
  /\ UNCHANGED <<registered, loop, down, free, busy, outbox, open, found>>

AwaitedNothing(t) ==   \* does not wait for the event
  /\ at[t] = "await"
  /\ NextListener(t, "shut", Done(t))
  /\ UNCHANGED <<registered, loops, outbox, open, found>>
Awaited(t) ==
  /\ at[t] = "await" /\ down[on[t]]
  /\ NextListener(t, "shut", Done(t))
  /\ UNCHANGED <<registered, loops, outbox, open, found>>

RequestShutdown(t) == Check(t) \/ Shut(t) \/ Awaited(t)

-----------------------------------------------------------------------------
(* A listener's loop *)

Enter(l) ==
  /\ loop[l] = "entering"
  /\ loop' = [loop EXCEPT ![l] = "select"]
  /\ down' = [down EXCEPT ![l] = FALSE]
  /\ UNCHANGED <<threads, registered, flag, free, busy, outbox, open, found>>

(* accept of a listener with a certificate also does the handshake, in the    *)
(* loop's thread and before the handler sets a time-out.                     *)
Take(l) ==
  /\ loop[l] = "select" /\ ~flag[l]
  /\ loop' = [loop EXCEPT ![l] = IF l \in Tls THEN "handshake" ELSE "accepted"]
  /\ UNCHANGED <<threads, registered, flag, down, free, busy, outbox, open, found>>

HandshakeEnds(l) ==   \* an OSError is no request
  /\ loop[l] = "handshake"
  /\ \E next \in {"accepted", "select"} : loop' = [loop EXCEPT ![l] = next]
  /\ UNCHANGED <<threads, registered, flag, down, free, busy, outbox, open, found>>

(* The end of serve_forever clears the flag before it sets the event.        *)
EndLoop(l) ==
  /\ loop[l] = "select" /\ flag[l]
  /\ loop' = [loop EXCEPT ![l] = "ended"]
  /\ flag' = [flag EXCEPT ![l] = FALSE]
  /\ down' = [down EXCEPT ![l] = TRUE]
  /\ UNCHANGED <<threads, registered, free, busy, outbox, open, found>>

(* process_request blocks the loop until there is a slot. *)
Acquire(l) ==
  /\ loop[l] = "accepted" /\ free[l] > 0
  /\ loop' = [loop EXCEPT ![l] = "holding"]
  /\ free' = [free EXCEPT ![l] = @ - 1]
  /\ UNCHANGED <<threads, registered, flag, down, busy, outbox, open, found>>

SpawnReleasing(l) ==   \* gives the slot back whatever happened
  /\ loop[l] = "holding"
  /\ loop' = [loop EXCEPT ![l] = "select"]
  /\ busy' = [busy EXCEPT ![l] = @ + 1]
  /\ free' = [free EXCEPT ![l] = @ + 1]
  /\ UNCHANGED <<threads, registered, flag, down, outbox, open, found>>
Spawn(l) ==
  /\ loop[l] = "holding"
  /\ loop' = [loop EXCEPT ![l] = "select"]
  /\ busy' = [busy EXCEPT ![l] = @ + 1]
  /\ UNCHANGED <<threads, registered, flag, down, free, outbox, open, found>>

(* No thread can be started: the slot goes back, the loop goes on.          *)
SpawnFailsHolding(l) ==   \* keeps the slot
  /\ loop[l] = "holding"
  /\ loop' = [loop EXCEPT ![l] = "select"]
  /\ UNCHANGED <<threads, registered, flag, down, free, busy, outbox, open, found>>
SpawnFails(l) ==
  /\ loop[l] = "holding"
  /\ loop' = [loop EXCEPT ![l] = "select"]
  /\ free' = [free EXCEPT ![l] = @ + 1]
  /\ UNCHANGED <<threads, registered, flag, down, busy, outbox, open, found>>

(* process_request_thread: the request is answered, or its socket times out. *)
Handled(l) ==
  /\ busy[l] > 0
  /\ busy' = [busy EXCEPT ![l] = @ - 1]
  /\ free' = [free EXCEPT ![l] = @ + 1]
  /\ UNCHANGED <<threads, registered, loop, flag, down, outbox, open, found>>

(* The dispatcher's thread: _run looks at _stop, flushes, and waits for the  *)
(* interval or a wake-up.                                                  *)
FlushBegins ==
  /\ dispatcher = "top"
  /\ dispatcher' = IF stopping THEN "ended" ELSE "flush"
  /\ UNCHANGED <<threads, registered, loops, stopping, wake, gaveUp, open, found>>

FlushEnds ==
  /\ dispatcher = "flush"
  /\ dispatcher' = "wait"
  /\ UNCHANGED <<threads, registered, loops, stopping, wake, gaveUp, open, found>>

WaitEnds ==
  /\ dispatcher = "wait"
  /\ dispatcher' = "clear"
  /\ UNCHANGED <<threads, registered, loops, stopping, wake, gaveUp, open, found>>
Woken    == wake /\ WaitEnds
Interval == ~wake /\ WaitEnds

Clear ==
  /\ dispatcher = "clear"
  /\ dispatcher' = "top"
  /\ wake' = FALSE
  /\ UNCHANGED <<threads, registered, loops, stopping, gaveUp, open, found>>

Dispatch == FlushBegins \/ FlushEnds \/ Woken \/ Clear

-----------------------------------------------------------------------------
Init ==
  /\ at = [t \in Signals \cup {Owner} |->
             IF t = Owner THEN "start" ELSE "idle"]
  /\ on = [t \in Signals \cup {Owner} |-> "client"]
  /\ registered = {}
  /\ loop = [l \in Listeners |-> "off"]
  /\ flag = [l \in Listeners |-> FALSE]
  /\ down = [l \in Listeners |-> FALSE]
  /\ free = [l \in Listeners |-> Slots]
  /\ busy = [l \in Listeners |-> 0]
  /\ dispatcher = "off"
  /\ stopping = FALSE
  /\ wake = FALSE
  /\ gaveUp = FALSE
  /\ open = TRUE
  /\ found = {}

LoopStep(l) == Enter(l) \/ EndLoop(l) \/ Acquire(l) \/ Spawn(l)

Next ==
  \/ OwnerStep \/ GiveUpJoin
  \/ \E t \in Signals : Signal(t)
  \/ \E t \in Signals \cup {Owner} : RequestShutdown(t)
  \/ \E l \in Listeners :
       LoopStep(l) \/ SpawnFails(l) \/ Take(l) \/ HandshakeEnds(l) \/ Handled(l)
  \/ Dispatch \/ Interval

Spec == Init /\ [][Next]_vars

(* Every thread of the process runs, a request ends (its socket times out   *)
(* after 15 s), a batch ends (its posts time out after 8 s each).  Nothing   *)
(* is assumed of signals, requests, handshakes (they have no time-out), the   *)
(* join's time-out, or the dispatcher's interval, which a stop is not to     *)
(* wait for.                                                               *)
Fairness ==
  /\ WF_vars(OwnerStep)
  /\ \A t \in Signals \cup {Owner} : WF_vars(RequestShutdown(t))
  /\ \A l \in Listeners : WF_vars(LoopStep(l)) /\ WF_vars(Handled(l))
  /\ WF_vars(Dispatch)

FairSpec == Spec /\ Fairness

-----------------------------------------------------------------------------
OwnerStates == {"start", "register", "outbox", "run", "join", "stop", "wake",
                "join outbox", "check", "shut", "await", "release", "closed"}
SignalStates == {"idle", "check", "shut", "await", "returned"}

(* The values of the threads, flags and semaphores. *)
TypeOK ==
  /\ at \in [Signals \cup {Owner} -> OwnerStates \cup SignalStates]
  /\ at[Owner] \in OwnerStates /\ \A t \in Signals : at[t] \in SignalStates
  /\ on \in [Signals \cup {Owner} -> Listeners]
  /\ registered \subseteq Listeners
  /\ loop \in [Listeners -> {"off", "entering", "select", "handshake", "accepted",
                           "holding", "ended"}]
  /\ flag \in [Listeners -> BOOLEAN] /\ down \in [Listeners -> BOOLEAN]
  /\ free \in [Listeners -> 0..Slots] /\ busy \in [Listeners -> 0..Slots]
  /\ dispatcher \in {"off", "top", "flush", "wait", "clear", "ended"}
  /\ stopping \in BOOLEAN /\ wake \in BOOLEAN /\ gaveUp \in BOOLEAN /\ open \in BOOLEAN
  /\ found \subseteq Signals \cup {Owner}

(* No slot is ever lost or given back twice, whether a request is served,    *)
(* times out, or finds no thread: otherwise the loop ends up blocked in     *)
(* process_request for good.                                                *)
SlotsConserved ==
  \A l \in Listeners :
    free[l] + busy[l] + (IF loop[l] = "holding" THEN 1 ELSE 0) = Slots

(* The store is closed only when neither loop can take another request and  *)
(* the dispatcher's thread is over, unless joining it timed out; a signal    *)
(* at any moment of start or close does not change that (close).            *)
StoreClosedLast ==
  ~open => /\ \A l \in Listeners : loop[l] = "ended"
           /\ dispatcher = "ended" \/ gaveUp

(* A stop request that found threads comes back only when both loops are     *)
(* over: not while one is still being entered, and not deceived by the      *)
(* event or the flag of an earlier request (request_shutdown, shutdown).    *)
ReturnedMeansStopped ==
  \A t \in found : at[t] \in {"returned", "release", "closed"}
    => \A l \in Listeners : loop[l] = "ended"

(* Why: the event of a listener is set only once its loop is over; whoever   *)
(* passed a listener's event found its loop over; and the owner closes       *)
(* nothing before it has been through all of this.                          *)
EventsTrue == \A l \in Listeners : down[l] => loop[l] = "ended"
Passed ==
  \A t \in Signals \cup {Owner} :
    /\ at[t] \in {"shut", "await"} /\ on[t] = "federation" => loop["client"] = "ended"
    /\ at[t] \notin {"shut", "await", "returned", "release", "closed"} => t \notin found
    /\ at[t] \in {"idle", "check"} => on[t] = "client"
OwnerOrder ==
  /\ at[Owner] = "start" => loop[on[Owner]] = "off"
  /\ at[Owner] \in {"start", "register"} =>
       IF on[Owner] = "client" THEN loop["federation"] = "off" ELSE "client" \in registered
  /\ at[Owner] \notin {"start", "register"} => registered = Listeners
  /\ at[Owner] \notin {"start", "register", "join", "shut", "await"} => on[Owner] = "client"
  /\ at[Owner] \in {"start", "register", "outbox"} => dispatcher = "off"
  /\ at[Owner] \in {"check", "shut", "await", "release", "closed"}
       => dispatcher = "ended" \/ gaveUp
  /\ at[Owner] \in {"shut", "await", "release", "closed"} => Owner \in found
  /\ ~open => at[Owner] = "closed"
StopSet ==
  at[Owner] \in {"wake", "join outbox", "check", "shut", "await", "release", "closed"}
    => stopping

(* No stop is lost on its way.  Whoever waits for a loop's event waits for a  *)
(* loop that is over or will see the flag, however many requests share that *)
(* flag and its reset; and once the owner woke the dispatcher, the           *)
(* dispatcher will not sleep again: the wake-up is there to be seen, or it   *)
(* was cleared and _stop is looked at next (_run, stop, shutdown).           *)
StopNotLost ==
  /\ \A t \in Signals \cup {Owner} :
       at[t] = "await" => flag[on[t]] \/ loop[on[t]] = "ended"
  /\ at[Owner] \in {"join outbox", "check", "shut", "await", "release", "closed"}
       => wake \/ dispatcher \in {"clear", "top", "ended"}

(* The inductive invariant of LifecycleProofs. *)
LifecycleInv == /\ TypeOK /\ SlotsConserved /\ EventsTrue /\ Passed /\ OwnerOrder
                /\ ReturnedMeansStopped /\ StopSet /\ StopNotLost

(* As long as no handshake hangs, a stop request that found threads, and the  *)
(* end of a `with` block, lead to the closed store: no two of the owner, the  *)
(* signal threads, the loops (full slots included) and the dispatcher wait   *)
(* for each other, and the dispatcher does not miss the wake-up.             *)
HandshakesEnd == \A l \in Tls : []<>(loop[l] # "handshake")
StopCompletes == HandshakesEnd =>
  /\ \A t \in Signals : t \in found ~> at[Owner] = "closed"
  /\ at[Owner] = "stop" ~> at[Owner] = "closed"

(* server.py:120: request_shutdown will "Stop listener loops": once a stop   *)
(* request has returned, the loops come to their end.                       *)
StopIsHeeded ==
  \A t \in Signals :
    at[t] = "returned" ~> \A l \in Listeners : loop[l] = "ended"
=============================================================================
