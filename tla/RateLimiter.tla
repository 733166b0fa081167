----------------------------- MODULE RateLimiter -----------------------------
(***************************************************************************)
(* The sliding-window limiter of requests and of login attempts             *)
(* (ratelimit.py allow).  A handler reads the clock, takes the lock and       *)
(* decides: the times of its key that have left the window go, and the       *)
(* request is let through while fewer than Limit are left.  At most MaxKeys  *)
(* keys are remembered; a new one takes the place of the one that was let    *)
(* through longest ago.                                                     *)
(*                                                                         *)
(* Reading the clock changes nothing that others see, so a call is one step  *)
(* with any of the times of the last MaxLag seconds: handlers reach the lock *)
(* in any order, times are appended out of order, and a queue is judged by   *)
(* a time older than its entries.  Nothing is persisted.                     *)
(***************************************************************************)
EXTENDS Integers, FiniteSets, Sequences, FiniteSetsExt

CONSTANTS
  Keys,      \* client addresses
  Limit,     \* limit
  Window,    \* window_seconds
  MaxKeys,   \* max_keys
  MaxLag,    \* bound: how long a handler takes from the clock to the lock
  MaxClock   \* bound: the last value of the clock

ASSUME LimiterAssumption ==
  /\ Limit \in Nat \ {0} /\ MaxKeys \in Nat \ {0}
  /\ Window \in Nat /\ MaxLag \in Nat /\ MaxClock \in Nat

VARIABLES
  clock,    \* the clock, in seconds
  entries,  \* _entries; an empty sequence: the key is not there
  admitted  \* history: when a key's requests were let through, for as long
            \* as the limiter remembers the key

limiter == <<clock, entries, admitted>>

Recent == {t \in 0..clock : clock - t <= MaxLag}
Final(q) == q[Len(q)]
Known == {k \in Keys : entries[k] # <<>>}

(* `while queue and queue[0] <= cutoff: queue.popleft()`.  The queue is not   *)
(* sorted: what stands behind a younger entry stays.  TrimmedNever forgets   *)
(* to, TrimmedEarly takes a second too much.                                *)
TrimmedNever(q, cutoff) == q
TrimmedEarly(q, cutoff) ==
  LET stays == {j \in 1..Len(q) : q[j] > cutoff + 1}
  IN IF stays = {} THEN <<>> ELSE SubSeq(q, Min(stays), Len(q))
Trimmed(q, cutoff) ==
  LET stays == {j \in 1..Len(q) : q[j] > cutoff}
  IN IF stays = {} THEN <<>> ELSE SubSeq(q, Min(stays), Len(q))

(* The key with the oldest last entry; IdlestByFirst looks at the wrong end.  *)
IdlestByFirst(k) == k \in Known /\ \A o \in Known : entries[k][1] <= entries[o][1]
Idlest(k) == k \in Known /\ \A o \in Known : Final(entries[k]) <= Final(entries[o])

(* Which keys are forgotten to make room for k; EvictsNever lets the table    *)
(* grow.                                                                    *)
EvictsNever(k, evicted) == evicted = {}
Evicts(k, evicted) ==
  IF k \notin Known /\ Cardinality(Known) >= MaxKeys
  THEN \E o \in Keys : Idlest(o) /\ evicted = {o}
  ELSE evicted = {}

Without(table, evicted) == [k \in Keys |-> IF k \in evicted THEN <<>> ELSE table[k]]

Queue(k, now) == Trimmed(entries[k], now - Window)
Refused(k, now) == Len(Queue(k, now)) >= Limit

Allow(k, now, evicted) ==
  /\ ~Refused(k, now)
  /\ Evicts(k, evicted)
  /\ entries' = [Without(entries, evicted) EXCEPT ![k] = Append(Queue(k, now), now)]
  /\ admitted' = [Without(admitted, evicted) EXCEPT ![k] = Append(@, clock)]
  /\ UNCHANGED clock

Refuse(k, now) ==
  /\ Refused(k, now)
  /\ entries' = [entries EXCEPT ![k] = Queue(k, now)]
  /\ UNCHANGED <<clock, admitted>>

Tick == clock < MaxClock /\ clock' = clock + 1 /\ UNCHANGED <<entries, admitted>>

(* The process ends and another one starts with an empty table. *)
Forget ==
  /\ entries' = [k \in Keys |-> <<>>]
  /\ admitted' = [k \in Keys |-> <<>>]
  /\ UNCHANGED clock

LimiterInit ==
  /\ clock = 0
  /\ entries = [k \in Keys |-> <<>>]
  /\ admitted = [k \in Keys |-> <<>>]

LimiterNext ==
  \/ \E k \in Keys, now \in Recent :
       \/ \E evicted \in SUBSET Keys : Allow(k, now, evicted)
       \/ Refuse(k, now)
  \/ Tick
  \/ Forget

LimiterSpec == LimiterInit /\ [][LimiterNext]_limiter

-----------------------------------------------------------------------------
(* The queues, and the two bounds on the limiter's memory: MaxKeys queues of *)
(* Limit times (max_keys, limit).                                           *)
LimiterTypeOK ==
  /\ clock \in Nat
  /\ entries \in [Keys -> Seq(Nat)]
  /\ admitted \in [Keys -> Seq(Nat)]
  /\ \A k \in Keys : Len(entries[k]) <= Limit
  /\ Cardinality(Known) <= MaxKeys

(* No burst is let through: between a request of a key and the one Limit      *)
(* places after it lies the window, less what a handler may take from the    *)
(* clock to the lock (allow, whose times are appended out of order).         *)
Spaced ==
  \A k \in Keys : \A i, j \in 1..Len(admitted[k]) :
    j >= i + Limit => admitted[k][j] - admitted[k][i] >= Window - MaxLag

(* Nobody is refused without cause: Limit requests of the key were let        *)
(* through within the window and the lag, although the queue is trimmed at   *)
(* its head only and is not sorted (allow).                                  *)
RefusedForCause ==
  \A k \in Keys : (\E now \in Recent : Refused(k, now)) =>
    Cardinality({i \in 1..Len(admitted[k]) :
                   admitted[k][i] > clock - Window - MaxLag}) >= Limit

(* A full table forgets no key before one that has been idle for longer, give *)
(* or take the lag: nobody's window is forgotten while another key is less   *)
(* in use (the eviction of allow).                                          *)
EvictsIdleFirst ==
  [][\A k \in Keys :
       entries[k] # <<>> /\ entries'[k] = <<>> /\ (\E o \in Keys : entries'[o] # <<>>)
         => \A o \in Known : Final(admitted[k]) <= Final(admitted[o]) + MaxLag]_limiter

(* The inductive invariant of RateLimiterProofs: a queue holds the times of    *)
(* the last requests of its key, each at most MaxLag older than the moment it *)
(* was let through; those it has dropped were let through a window ago.      *)
Dropped(k) == Len(admitted[k]) - Len(entries[k])

QueueTrue(k) ==
  /\ Dropped(k) >= 0
  /\ \A i \in 1..Len(entries[k]) :
       /\ entries[k][i] <= admitted[k][Dropped(k) + i]
       /\ admitted[k][Dropped(k) + i] <= entries[k][i] + MaxLag
  /\ \A i \in 1..Dropped(k) : admitted[k][i] <= clock - Window + MaxLag
  /\ \A i, j \in 1..Len(admitted[k]) : i <= j => admitted[k][i] <= admitted[k][j]
  /\ \A i \in 1..Len(admitted[k]) : admitted[k][i] <= clock

LimiterInv == /\ LimiterTypeOK /\ IsFiniteSet(Known)
              /\ Spaced
              /\ \A k \in Keys : QueueTrue(k)
=============================================================================
