-------------------------- MODULE RateLimiterProofs --------------------------
(* Proofs about RateLimiter, for any number of keys and any limits.           *)
EXTENDS RateLimiter, FiniteSetTheorems, SequenceTheorems, WellFoundedInduction, TLAPS

USE LimiterAssumption

-----------------------------------------------------------------------------
(* What trimming does *)

(* Every non-empty set of numbers has a least one. *)
LEMMA Least ==
  ASSUME NEW T, T \subseteq Nat, T # {}
  PROVE  /\ Min(T) \in T
         /\ \A i \in T : Min(T) <= i
<1> DEFINE R == OpToRel(<, Nat)
<1>1. IsWellFoundedOn(R, Nat)
  BY NatLessThanWellFounded
<1>2. \A x, y \in Nat : y < x => <<y, x>> \in R
  BY DEF OpToRel
<1> HIDE DEF R
<1>3. PICK x \in T : \A y \in T : ~ (<<y, x>> \in R)
  BY <1>1, WFMin
<1>4. \A y \in T : x <= y
  <2> TAKE y \in T
  <2>1. ~ (y < x)
    BY <1>2, <1>3
  <2> QED
    BY <2>1
<1> QED
  BY <1>4 DEF Min

(* Trimming takes a prefix of the queue, all of it past the cut-off, and       *)
(* leaves a young entry in front.                                            *)
LEMMA TrimmedShape ==
  ASSUME NEW q \in Seq(Nat), NEW cutoff \in Int
  PROVE  LET rest == Trimmed(q, cutoff)
         IN /\ rest \in Seq(Nat)
            /\ \E d \in 0..Len(q) :
                 /\ Len(rest) = Len(q) - d
                 /\ \A i \in 1..Len(rest) : rest[i] = q[d + i]
                 /\ \A i \in 1..d : q[i] <= cutoff
                 /\ Len(rest) > 0 => rest[1] > cutoff
<1> DEFINE stays == {j \in 1..Len(q) : q[j] > cutoff}
           rest == Trimmed(q, cutoff)
<1>1. CASE stays = {}
  <2>1. rest = <<>>
    BY <1>1 DEF Trimmed
  <2>2. \A i \in 1..Len(q) : q[i] <= cutoff
    BY <1>1
  <2> QED
    BY <2>1, <2>2
<1>2. CASE stays # {}
  <2>1. /\ Min(stays) \in stays
        /\ \A i \in stays : Min(stays) <= i
    <3>1. stays \subseteq Nat
      OBVIOUS
    <3> HIDE DEF stays
    <3> QED
      BY <1>2, <3>1, Least
  <2>2. rest = SubSeq(q, Min(stays), Len(q))
    BY <1>2 DEF Trimmed
  <2> DEFINE d == Min(stays) - 1
  <2>3. d \in 0..Len(q) /\ Min(stays) = d + 1 /\ d + 1 <= Len(q) /\ q[d + 1] > cutoff
    BY <2>1
  <2>4. \A i \in 1..d : q[i] <= cutoff
    BY <2>1, <2>3
  <2> HIDE DEF d, stays
  <2>5. /\ rest \in Seq(Nat) /\ Len(rest) = Len(q) - d
        /\ \A i \in 1..Len(rest) : rest[i] = q[d + i]
    BY <2>2, <2>3
  <2>6. Len(rest) > 0 => rest[1] > cutoff
    <3> SUFFICES ASSUME Len(rest) > 0 PROVE rest[1] > cutoff
      OBVIOUS
    <3>1. rest[1] = q[d + 1]
      BY <2>5
    <3> QED
      BY <2>3, <3>1
  <2> HIDE DEF rest
  <2>7. \E c \in 0..Len(q) :
          /\ Len(rest) = Len(q) - c
          /\ \A i \in 1..Len(rest) : rest[i] = q[c + i]
          /\ \A i \in 1..c : q[i] <= cutoff
          /\ Len(rest) > 0 => rest[1] > cutoff
    BY <2>3, <2>4, <2>5, <2>6
  <2> QED
    BY <2>5, <2>7 DEF rest
<1> QED
  BY <1>1, <1>2

-----------------------------------------------------------------------------
(* The invariant *)

LEMMA InitInv == LimiterInit => LimiterInv
<1> SUFFICES ASSUME LimiterInit PROVE LimiterInv
  OBVIOUS
<1>1. Known = {}
  BY DEF LimiterInit, Known
<1>2. LimiterTypeOK /\ IsFiniteSet(Known)
  BY <1>1, FS_EmptySet DEF LimiterInit, LimiterTypeOK
<1>3. Spaced /\ \A k \in Keys : QueueTrue(k)
  BY DEF LimiterInit, Spaced, QueueTrue, Dropped
<1> QED
  BY <1>2, <1>3 DEF LimiterInv

(* A queue is still true after it was trimmed by a time of a recent clock.     *)
LEMMA TrimmedTrue ==
  ASSUME LimiterInv, NEW k \in Keys, NEW now \in Recent
  PROVE  LET q == Queue(k, now)
             a == admitted[k]
             d == Len(a) - Len(q)
         IN /\ q \in Seq(Nat) /\ Len(q) <= Len(entries[k])
            /\ d \in Nat
            /\ \A i \in 1..Len(q) : q[i] <= a[d + i] /\ a[d + i] <= q[i] + MaxLag
            /\ \A i \in 1..d : a[i] <= clock - Window + MaxLag
            /\ Len(q) > 0 => q[1] > now - Window
<1> DEFINE q == Queue(k, now)
           a == admitted[k]
           e == entries[k]
<1>1. /\ clock \in Nat /\ now \in Nat /\ now <= clock
      /\ e \in Seq(Nat) /\ a \in Seq(Nat) /\ QueueTrue(k)
  BY DEF LimiterInv, LimiterTypeOK, Recent
<1>2. PICK s \in 0..Len(e) :
        /\ q \in Seq(Nat) /\ Len(q) = Len(e) - s
        /\ \A i \in 1..Len(q) : q[i] = e[s + i]
        /\ \A i \in 1..s : e[i] <= now - Window
        /\ Len(q) > 0 => q[1] > now - Window
  <2>1. now - Window \in Int
    BY <1>1
  <2>2. q = Trimmed(e, now - Window)
    BY DEF Queue
  <2> HIDE DEF q, e
  <2> QED
    BY <1>1, <2>1, <2>2, TrimmedShape
<1>3. /\ Len(a) \in Nat /\ Len(e) \in Nat /\ Len(q) \in Nat
      /\ \A i \in 1..Len(a) : a[i] \in Nat
      /\ \A i \in 1..Len(e) : e[i] \in Nat
  <2>1. a \in Seq(Nat) /\ e \in Seq(Nat) /\ q \in Seq(Nat)
    BY <1>1, <1>2
  <2> HIDE DEF q, a, e
  <2> QED
    BY <2>1
<1>9. /\ Len(a) - Len(e) >= 0
      /\ \A i \in 1..Len(e) : /\ e[i] <= a[Len(a) - Len(e) + i]
                              /\ a[Len(a) - Len(e) + i] <= e[i] + MaxLag
      /\ \A i \in 1..(Len(a) - Len(e)) : a[i] <= clock - Window + MaxLag
  BY <1>1, Zenon DEF QueueTrue, Dropped
<1> HIDE DEF q, a, e
<1>4. Len(a) - Len(q) = Len(a) - Len(e) + s
  BY <1>2, <1>9, <1>3
<1>5. ASSUME NEW i \in 1..Len(q)
      PROVE  /\ q[i] <= a[Len(a) - Len(q) + i]
             /\ a[Len(a) - Len(q) + i] <= q[i] + MaxLag
  <2>1. s + i \in 1..Len(e) /\ q[i] = e[s + i]
    BY <1>2, <1>3
  <2>2. Len(a) - Len(q) + i = Len(a) - Len(e) + (s + i)
    BY <1>4, <1>3
  <2> QED
    BY <1>9, <2>1, <2>2
<1>6. ASSUME NEW i \in 1..(Len(a) - Len(q))
      PROVE  a[i] <= clock - Window + MaxLag
  <2>1. CASE i <= Len(a) - Len(e)
    BY <1>3, <1>9, <2>1
  <2>2. CASE i > Len(a) - Len(e)
    <3> DEFINE m == i - (Len(a) - Len(e))
    <3>1. m \in 1..s /\ m \in 1..Len(e) /\ i = Len(a) - Len(e) + m /\ i \in 1..Len(a)
      BY <1>4, <1>9, <1>3, <2>2
    <3> HIDE DEF m
    <3>2. e[m] <= now - Window
      BY <1>2, <3>1
    <3>3. a[i] <= e[m] + MaxLag /\ a[i] \in Nat /\ e[m] \in Nat
      BY <1>9, <1>3, <3>1
    <3>4. clock \in Nat /\ now \in Nat /\ now <= clock
      BY <1>1
    <3> QED
      BY <3>2, <3>3, <3>4
  <2> QED
    BY <1>4, <1>9, <1>3, <2>1, <2>2
<1>7. q \in Seq(Nat) /\ Len(q) <= Len(e) /\ Len(a) - Len(q) \in Nat
  BY <1>2, <1>4, <1>9, <1>3
<1>8. Len(q) > 0 => q[1] > now - Window
  BY <1>2
<1> QED
  BY <1>5, <1>6, <1>7, <1>8 DEF q, a, e

(* The set of known keys stays within MaxKeys. *)
LEMMA KnownBound ==
  ASSUME LimiterInv, NEW k \in Keys, NEW now \in Recent, NEW evicted,
         Allow(k, now, evicted)
  PROVE  IsFiniteSet(Known)' /\ Cardinality(Known') <= MaxKeys
<1>1. IsFiniteSet(Known) /\ Cardinality(Known) \in Nat /\ Cardinality(Known) <= MaxKeys
  BY FS_CardinalityType DEF LimiterInv, LimiterTypeOK
<1>2. Queue(k, now) \in Seq(Nat) /\ entries \in [Keys -> Seq(Nat)]
  BY TrimmedTrue DEF LimiterInv, LimiterTypeOK
<1>3. Known' = (Known \ evicted) \cup {k}
  <2>1. Append(Queue(k, now), now) # <<>>
    <3>1. now \in Nat
      BY DEF LimiterInv, LimiterTypeOK, Recent
    <3> DEFINE q == Queue(k, now)
    <3>2. q \in Seq(Nat)
      BY <1>2
    <3> HIDE DEF q
    <3>3. Append(q, now) # <<>>
      BY <3>1, <3>2, AppendProperties
    <3> QED
      BY <3>3 DEF q
  <2>2. entries' = [o \in Keys |-> IF o = k THEN Append(Queue(k, now), now)
                                   ELSE IF o \in evicted THEN <<>> ELSE entries[o]]
    BY DEF Allow, Without
  <2> QED
    BY <2>1, <2>2 DEF Known
<1>4. CASE k \notin Known /\ Cardinality(Known) >= MaxKeys
  <2>1. PICK o \in Known : evicted = {o}
    BY <1>4 DEF Allow, Evicts, Idlest
  <2>2. /\ IsFiniteSet(Known \ {o})
        /\ Cardinality(Known \ {o}) = Cardinality(Known) - 1
    BY <1>1, FS_RemoveElement
  <2>3. /\ IsFiniteSet((Known \ {o}) \cup {k})
        /\ Cardinality((Known \ {o}) \cup {k}) = Cardinality(Known \ {o}) + 1
    BY <1>4, <2>2, FS_AddElement
  <2> QED
    BY <1>1, <1>3, <2>1, <2>2, <2>3
<1>5. CASE ~ (k \notin Known /\ Cardinality(Known) >= MaxKeys)
  <2>1. evicted = {}
    BY <1>5 DEF Allow, Evicts
  <2>2. Known' = Known \cup {k}
    BY <1>3, <2>1
  <2>3. /\ IsFiniteSet(Known \cup {k})
        /\ Cardinality(Known \cup {k}) =
             IF k \in Known THEN Cardinality(Known) ELSE Cardinality(Known) + 1
    BY <1>1, FS_AddElement
  <2> QED
    BY <1>1, <1>5, <2>2, <2>3
<1> QED
  BY <1>4, <1>5

(* Letting a request through keeps the invariant. *)
LEMMA AllowInv ==
  ASSUME LimiterInv, NEW k \in Keys, NEW now \in Recent, NEW evicted,
         Allow(k, now, evicted)
  PROVE  LimiterInv'
<1> DEFINE q == Queue(k, now)
           a == admitted[k]
<1>1. /\ clock \in Nat /\ now \in Nat /\ now <= clock /\ clock - now <= MaxLag
      /\ entries \in [Keys -> Seq(Nat)] /\ admitted \in [Keys -> Seq(Nat)]
      /\ \A o \in Keys : QueueTrue(o) /\ Len(entries[o]) <= Limit
      /\ clock' = clock
  BY DEF LimiterInv, LimiterTypeOK, Recent, Allow
<1>2. /\ q \in Seq(Nat) /\ Len(a) - Len(q) \in Nat
      /\ \A i \in 1..Len(q) : /\ q[i] <= a[Len(a) - Len(q) + i]
                              /\ a[Len(a) - Len(q) + i] <= q[i] + MaxLag
      /\ \A i \in 1..(Len(a) - Len(q)) : a[i] <= clock - Window + MaxLag
  BY TrimmedTrue
<1>3. Len(q) < Limit
  BY <1>2 DEF Allow, Refused
<1>4. k \notin evicted
  BY DEF Allow, Evicts, Idlest
<1>5. /\ entries'[k] = Append(q, now)
      /\ admitted'[k] = Append(a, clock)
  BY <1>1, <1>4 DEF Allow, Without
<1>10. ASSUME NEW o \in Keys, o # k
       PROVE  IF o \in evicted
              THEN entries'[o] = <<>> /\ admitted'[o] = <<>>
              ELSE entries'[o] = entries[o] /\ admitted'[o] = admitted[o]
  BY <1>1, <1>10 DEF Allow, Without
<1> HIDE DEF q, a
<1>6. a \in Seq(Nat) /\ QueueTrue(k)
  BY <1>1 DEF a
<1>7. LimiterTypeOK'
  <2>1. /\ entries' \in [Keys -> Seq(Nat)]
        /\ admitted' \in [Keys -> Seq(Nat)]
    <3>1. Append(q, now) \in Seq(Nat) /\ Append(a, clock) \in Seq(Nat)
      BY <1>1, <1>2, <1>6
    <3>2. \A o \in Keys : entries'[o] \in Seq(Nat) /\ admitted'[o] \in Seq(Nat)
      <4> TAKE o \in Keys
      <4>1. CASE o = k
        BY <1>5, <3>1, <4>1
      <4>2. CASE o # k
        <5>1. <<>> \in Seq(Nat)
          OBVIOUS
        <5> QED
          BY <1>1, <1>10, <4>2, <5>1
      <4> QED
        BY <4>1, <4>2
    <3>3. /\ entries' = [o \in Keys |-> entries'[o]]
          /\ admitted' = [o \in Keys |-> admitted'[o]]
      BY DEF Allow, Without
    <3> QED
      BY <3>2, <3>3
  <2>2. ASSUME NEW o \in Keys PROVE Len(entries'[o]) <= Limit
    <3>1. CASE o = k
      BY <1>1, <1>2, <1>3, <1>5, <3>1
    <3>2. CASE o # k
      BY <1>1, <1>10, <3>2
    <3> QED
      BY <3>1, <3>2
  <2>3. Cardinality(Known') <= MaxKeys
    BY KnownBound
  <2> QED
    BY <1>1, <2>1, <2>2, <2>3 DEF LimiterTypeOK
<1>8. ASSUME NEW o \in Keys PROVE QueueTrue(o)'
  <2>1. CASE o = k
    <3> DEFINE e1 == Append(q, now)
               a1 == Append(a, clock)
    <3>1. /\ Len(e1) = Len(q) + 1 /\ Len(a1) = Len(a) + 1
          /\ \A i \in 1..Len(q) : e1[i] = q[i]
          /\ e1[Len(q) + 1] = now
          /\ \A i \in 1..Len(a) : a1[i] = a[i]
          /\ a1[Len(a) + 1] = clock
      BY <1>1, <1>2, <1>6
    <3> HIDE DEF e1, a1
    <3>2. Len(a1) - Len(e1) = Len(a) - Len(q)
      BY <1>2, <1>6, <3>1
    <3>3. ASSUME NEW i \in 1..Len(e1)
          PROVE  /\ e1[i] <= a1[Len(a) - Len(q) + i]
                 /\ a1[Len(a) - Len(q) + i] <= e1[i] + MaxLag
      <4>1. CASE i \in 1..Len(q)
        <5>1. Len(a) - Len(q) + i \in 1..Len(a)
          BY <1>2, <1>6, <4>1
        <5> QED
          BY <1>2, <3>1, <4>1, <5>1
      <4>2. CASE i = Len(q) + 1
        BY <1>1, <1>2, <1>6, <3>1, <4>2
      <4> QED
        BY <1>2, <3>1, <4>1, <4>2
    <3>4. \A i \in 1..(Len(a) - Len(q)) : a1[i] <= clock - Window + MaxLag
      BY <1>2, <1>6, <3>1
    <3>8. /\ \A i \in 1..Len(a) : a[i] \in Nat /\ a[i] <= clock
          /\ \A i, j \in 1..Len(a) : i <= j => a[i] <= a[j]
          /\ Len(a) \in Nat
      <4>1. \A i \in 1..Len(a) : a[i] \in Nat
        BY <1>6
      <4> QED
        BY <1>6, <4>1 DEF QueueTrue, a
    <3>5. \A i \in 1..Len(a1) : a1[i] \in Nat /\ a1[i] <= clock
      <4> TAKE i \in 1..Len(a1)
      <4>1. i \in 1..Len(a) \/ i = Len(a) + 1
        BY <3>1, <3>8
      <4>2. CASE i \in 1..Len(a)
        BY <3>1, <3>8, <4>2
      <4>3. CASE i = Len(a) + 1
        BY <1>1, <3>1, <4>3
      <4> QED
        BY <4>1, <4>2, <4>3
    <3>6. \A i, j \in 1..Len(a1) : i <= j => a1[i] <= a1[j]
      <4> SUFFICES ASSUME NEW i \in 1..Len(a1), NEW j \in 1..Len(a1), i <= j
                   PROVE  a1[i] <= a1[j]
        OBVIOUS
      <4>1. CASE j \in 1..Len(a)
        <5>1. i \in 1..Len(a)
          BY <3>8, <4>1
        <5> QED
          BY <3>1, <3>8, <4>1, <5>1
      <4>2. CASE j = Len(a) + 1
        BY <3>1, <3>5, <4>2
      <4> QED
        BY <3>1, <3>8, <4>1, <4>2
    <3>7. entries'[k] = e1 /\ admitted'[k] = a1
      BY <1>5 DEF e1, a1
    <3>9. Dropped(k)' = Len(a) - Len(q)
      BY <3>2, <3>7 DEF Dropped
    <3>10. Len(a) - Len(q) >= 0 /\ clock' = clock
      BY <1>1, <1>2
    <3> QED
      BY <2>1, <3>3, <3>4, <3>5, <3>6, <3>7, <3>9, <3>10 DEF QueueTrue
  <2>2. CASE o # k
    <3>1. CASE o \in evicted
      <4>1. /\ entries'[o] = <<>> /\ admitted'[o] = <<>>
            /\ Len(<<>>) = 0
        BY <1>10, <2>2, <3>1
      <4>2. Dropped(o)' = 0
        BY <4>1 DEF Dropped
      <4> QED
        BY <4>1, <4>2 DEF QueueTrue
    <3>2. CASE o \notin evicted
      <4>1. entries'[o] = entries[o] /\ admitted'[o] = admitted[o] /\ clock' = clock
        BY <1>1, <1>10, <2>2, <3>2
      <4>2. Dropped(o)' = Dropped(o)
        BY <4>1 DEF Dropped
      <4>3. QueueTrue(o)
        BY <1>1
      <4> QED
        BY <4>1, <4>2, <4>3 DEF QueueTrue
    <3> QED
      BY <3>1, <3>2
  <2> QED
    BY <2>1, <2>2
<1>9. Spaced'
  <2> SUFFICES ASSUME NEW o \in Keys,
                      NEW i \in 1..Len(admitted'[o]), NEW j \in 1..Len(admitted'[o]),
                      j >= i + Limit
               PROVE  admitted'[o][j] - admitted'[o][i] >= Window - MaxLag
    BY DEF Spaced
  <2>1. CASE o = k
    <3>1. /\ Len(admitted'[k]) = Len(a) + 1
          /\ \A m \in 1..Len(a) : admitted'[k][m] = a[m]
          /\ admitted'[k][Len(a) + 1] = clock
      BY <1>1, <1>5, <1>6
    <3>2. i \in 1..Len(a)
      BY <1>6, <2>1, <3>1
    <3>3. CASE j = Len(a) + 1
      <4>1. i \in 1..(Len(a) - Len(q))
        BY <1>2, <1>3, <1>6, <3>2, <3>3
      <4>2. a[i] <= clock - Window + MaxLag /\ a[i] \in Nat
        BY <1>2, <1>6, <3>2, <4>1
      <4> QED
        BY <1>1, <2>1, <3>1, <3>2, <3>3, <4>2
    <3>4. CASE j \in 1..Len(a)
      BY <2>1, <3>1, <3>2, <3>4 DEF LimiterInv, Spaced, a
    <3> QED
      BY <1>6, <2>1, <3>1, <3>3, <3>4
  <2>2. CASE o # k
    BY <1>10, <2>2 DEF LimiterInv, Spaced
  <2> QED
    BY <2>1, <2>2
<1> QED
  BY <1>7, <1>8, <1>9, KnownBound DEF LimiterInv

LEMMA RefuseInv ==
  ASSUME LimiterInv, NEW k \in Keys, NEW now \in Recent, Refuse(k, now)
  PROVE  LimiterInv'
<1> DEFINE q == Queue(k, now)
           a == admitted[k]
<1>1. /\ clock \in Nat /\ clock' = clock /\ admitted' = admitted
      /\ entries \in [Keys -> Seq(Nat)] /\ admitted \in [Keys -> Seq(Nat)]
      /\ \A o \in Keys : QueueTrue(o) /\ Len(entries[o]) <= Limit
  BY DEF LimiterInv, LimiterTypeOK, Refuse
<1>2. /\ q \in Seq(Nat) /\ Len(q) <= Len(entries[k]) /\ Len(a) - Len(q) \in Nat
      /\ \A i \in 1..Len(q) : /\ q[i] <= a[Len(a) - Len(q) + i]
                              /\ a[Len(a) - Len(q) + i] <= q[i] + MaxLag
      /\ \A i \in 1..(Len(a) - Len(q)) : a[i] <= clock - Window + MaxLag
  BY TrimmedTrue
<1>3. /\ entries'[k] = q
      /\ \A o \in Keys \ {k} : entries'[o] = entries[o]
      /\ entries' \in [Keys -> Seq(Nat)]
  BY <1>1, <1>2 DEF Refuse
<1>4. Len(q) >= Limit
  BY DEF Refuse, Refused
<1> HIDE DEF q
<1>5. Known' = Known
  <2>1. q # <<>> /\ entries[k] # <<>>
    BY <1>1, <1>2, <1>4
  <2> QED
    BY <1>3, <2>1 DEF Known
<1>6. LimiterTypeOK' /\ IsFiniteSet(Known)'
  <2>1. ASSUME NEW o \in Keys PROVE Len(entries'[o]) <= Limit
    <3>1. CASE o = k
      <4>1. Len(q) \in Nat /\ Len(entries[k]) \in Nat /\ Len(entries[k]) <= Limit
        BY <1>1, <1>2
      <4> QED
        BY <1>2, <1>3, <3>1, <4>1
    <3>2. CASE o # k
      BY <1>1, <1>3, <3>2
    <3> QED
      BY <3>1, <3>2
  <2> QED
    BY <1>1, <1>3, <1>5, <2>1 DEF LimiterInv, LimiterTypeOK
<1>7. ASSUME NEW o \in Keys PROVE QueueTrue(o)'
  <2>1. CASE o = k
    <3>1. Dropped(k)' = Len(a) - Len(q)
      BY <1>1, <1>3 DEF Dropped
    <3>2. Len(a) - Len(q) >= 0
      BY <1>2
    <3> HIDE DEF a
    <3>3. a = admitted[k] /\ admitted'[k] = a
      BY <1>1 DEF a
    <3>4. QueueTrue(k)
      BY <1>1
    <3> QED
      BY <1>1, <1>2, <1>3, <2>1, <3>1, <3>2, <3>3, <3>4 DEF QueueTrue
  <2>2. CASE o # k
    <3>1. entries'[o] = entries[o]
      BY <1>3, <2>2
    <3>2. Dropped(o)' = Dropped(o) /\ QueueTrue(o)
      BY <1>1, <3>1 DEF Dropped
    <3> QED
      BY <1>1, <3>1, <3>2 DEF QueueTrue
  <2> QED
    BY <2>1, <2>2
<1> QED
  BY <1>1, <1>6, <1>7 DEF LimiterInv, Spaced

LEMMA TickInv ==
  ASSUME LimiterInv, Tick
  PROVE  LimiterInv'
<1>1. clock \in Nat /\ clock' = clock + 1 /\ entries' = entries /\ admitted' = admitted
  BY DEF LimiterInv, LimiterTypeOK, Tick
<1>2. LimiterTypeOK' /\ IsFiniteSet(Known)' /\ Spaced'
  BY <1>1 DEF LimiterInv, LimiterTypeOK, Known, Spaced
<1>3. ASSUME NEW o \in Keys PROVE QueueTrue(o)'
  <2>1. /\ QueueTrue(o) /\ entries[o] \in Seq(Nat) /\ admitted[o] \in Seq(Nat)
        /\ Dropped(o)' = Dropped(o)
    BY <1>1 DEF LimiterInv, LimiterTypeOK, Dropped
  <2>2. /\ Len(entries[o]) \in Nat /\ Len(admitted[o]) \in Nat
        /\ \A i \in 1..Len(admitted[o]) : admitted[o][i] \in Nat
    BY <2>1
  <2>3. Dropped(o) \in Int /\ Dropped(o) <= Len(admitted[o])
    <3> DEFINE n == Len(admitted[o])
               m == Len(entries[o])
    <3>1. n \in Nat /\ m \in Nat /\ Dropped(o) = n - m
      BY <2>2 DEF Dropped
    <3> HIDE DEF n, m
    <3>2. n - m \in Int /\ n - m <= n
      BY <3>1
    <3> QED
      BY <3>1, <3>2 DEF n
  <2>4. ASSUME NEW i \in 1..Dropped(o)
        PROVE  admitted[o][i] <= clock' - Window + MaxLag
    <3>1. i \in 1..Len(admitted[o])
      BY <2>2, <2>3
    <3>2. admitted[o][i] <= clock - Window + MaxLag
      BY <2>1 DEF QueueTrue
    <3> QED
      BY <1>1, <2>2, <3>1, <3>2
  <2>5. \A i \in 1..Len(admitted[o]) : admitted[o][i] <= clock'
    BY <1>1, <2>1, <2>2 DEF QueueTrue
  <2> QED
    BY <1>1, <2>1, <2>4, <2>5 DEF QueueTrue
<1> QED
  BY <1>2, <1>3 DEF LimiterInv

LEMMA ForgetInv ==
  ASSUME LimiterInv, Forget
  PROVE  LimiterInv'
<1>1. Known' = {}
  BY DEF Forget, Known
<1>2. LimiterTypeOK' /\ IsFiniteSet(Known)'
  BY <1>1, FS_EmptySet DEF LimiterInv, Forget, LimiterTypeOK
<1>3. Spaced' /\ \A k \in Keys : QueueTrue(k)'
  BY DEF Forget, Spaced, QueueTrue, Dropped
<1> QED
  BY <1>2, <1>3 DEF LimiterInv

LEMMA NextInv == LimiterInv /\ [LimiterNext]_limiter => LimiterInv'
<1> SUFFICES ASSUME LimiterInv, [LimiterNext]_limiter PROVE LimiterInv'
  OBVIOUS
<1>1. CASE UNCHANGED limiter
  BY <1>1 DEF LimiterInv, LimiterTypeOK, Known, Spaced, QueueTrue, Dropped, limiter
<1>2. CASE LimiterNext
  BY <1>2, AllowInv, RefuseInv, TickInv, ForgetInv DEF LimiterNext
<1> QED
  BY <1>1, <1>2

(* What the invariant says of a refusal and of an eviction. *)
LEMMA RefusalCause == LimiterInv => RefusedForCause
<1> SUFFICES ASSUME LimiterInv, NEW k \in Keys, NEW now \in Recent, Refused(k, now)
             PROVE  Cardinality({i \in 1..Len(admitted[k]) :
                                   admitted[k][i] > clock - Window - MaxLag}) >= Limit
  BY DEF RefusedForCause
<1> DEFINE q == Queue(k, now)
           a == admitted[k]
           n == Len(a)
           d == n - Len(q)
           late == {i \in 1..n : a[i] > clock - Window - MaxLag}
<1>1. /\ clock \in Nat /\ now \in Nat /\ clock - now <= MaxLag
      /\ a \in Seq(Nat)
      /\ \A i, j \in 1..n : i <= j => a[i] <= a[j]
  BY DEF LimiterInv, LimiterTypeOK, Recent, QueueTrue
<1>2. /\ q \in Seq(Nat) /\ d \in Nat
      /\ \A i \in 1..Len(q) : q[i] <= a[d + i]
      /\ Len(q) > 0 => q[1] > now - Window
  BY TrimmedTrue
<1>3. Len(q) >= Limit
  BY DEF Refused
<1>4. /\ Len(q) \in Nat /\ n \in Nat /\ d + Len(q) = n /\ Len(q) >= 1
      /\ \A i \in 1..n : a[i] \in Nat
  <2>1. Len(q) \in Nat /\ n \in Nat /\ \A i \in 1..n : a[i] \in Nat
    BY <1>1, <1>2
  <2> HIDE DEF q, n, a
  <2> QED
    BY <1>3, <2>1
<1>5. a[d + 1] > clock - Window - MaxLag
  <2>1. q[1] \in Nat /\ q[1] > now - Window /\ q[1] <= a[d + 1]
    BY <1>2, <1>4
  <2>2. a[d + 1] \in Nat
    BY <1>2, <1>4
  <2> HIDE DEF q, a, d
  <2> QED
    BY <1>1, <2>1, <2>2
<1>6. (d + 1)..n \subseteq late
  <2> SUFFICES ASSUME NEW i \in (d + 1)..n PROVE i \in late
    OBVIOUS
  <2>1. d + 1 \in 1..n /\ i \in 1..n
    BY <1>2, <1>4
  <2>4. d + 1 <= i
    BY <1>2, <2>1
  <2> HIDE DEF a, d, n
  <2>2. a[d + 1] <= a[i] /\ a[d + 1] \in Nat /\ a[i] \in Nat
    BY <1>1, <1>4, <2>1, <2>4
  <2>3. a[i] > clock - Window - MaxLag
    BY <1>1, <1>5, <2>2
  <2> QED
    BY <2>1, <2>3
<1> HIDE DEF q, a, n, d
<1>7. /\ IsFiniteSet(late) /\ Cardinality((d + 1)..n) <= Cardinality(late)
      /\ Cardinality((d + 1)..n) = n - (d + 1) + 1
      /\ Cardinality(late) \in Nat
  <2>1. IsFiniteSet(1..n)
    BY <1>4, FS_Interval
  <2>2. IsFiniteSet(late)
    BY <2>1, FS_Subset
  <2>3. Cardinality((d + 1)..n) = n - (d + 1) + 1
    BY <1>2, <1>4, FS_Interval
  <2> QED
    BY <1>6, <2>2, <2>3, FS_Subset, FS_CardinalityType
<1>8. Cardinality(late) >= Limit
  BY <1>2, <1>3, <1>4, <1>7
<1> QED
  BY <1>8 DEF a, n

LEMMA EvictionOrder ==
  ASSUME LimiterInv, [LimiterNext]_limiter, NEW k \in Keys,
         entries[k] # <<>>, entries'[k] = <<>>,
         NEW m \in Keys, entries'[m] # <<>>, NEW o \in Known
  PROVE  Final(admitted[k]) <= Final(admitted[o]) + MaxLag
<1>1. entries \in [Keys -> Seq(Nat)] /\ admitted \in [Keys -> Seq(Nat)]
  BY DEF LimiterInv, LimiterTypeOK
<1>2. PICK c \in Keys, now \in Recent, evicted \in SUBSET Keys : Allow(c, now, evicted)
  <2>1. ASSUME NEW c \in Keys, NEW now \in Recent, Refuse(c, now)
        PROVE  FALSE
    <3>1. c = k /\ Queue(k, now) = <<>>
      BY <1>1, <2>1 DEF Refuse
    <3>2. Len(<<>>) >= Limit
      BY <2>1, <3>1 DEF Refuse, Refused
    <3> QED
      BY <3>2, EmptySeq
  <2>2. ~ Tick /\ ~ Forget /\ ~ UNCHANGED limiter
    BY DEF Tick, Forget, limiter
  <2> QED
    BY <2>1, <2>2 DEF LimiterNext
<1>3. Idlest(k)
  <2>1. Queue(c, now) \in Seq(Nat) /\ now \in Nat
    BY TrimmedTrue DEF LimiterInv, LimiterTypeOK, Recent
  <2>2. Append(Queue(c, now), now) # <<>>
    <3> DEFINE q == Queue(c, now)
    <3> HIDE DEF q
    <3> SUFFICES Append(q, now) # <<>>
      BY DEF q
    <3>1. q \in Seq(Nat)
      BY <2>1 DEF q
    <3> QED
      BY <2>1, <3>1, AppendProperties
  <2>3. entries' = [x \in Keys |-> IF x = c THEN Append(Queue(c, now), now)
                                   ELSE IF x \in evicted THEN <<>> ELSE entries[x]]
    BY <1>2 DEF Allow, Without
  <2>4. k \in evicted
    BY <2>2, <2>3
  <2> QED
    BY <1>2, <2>4 DEF Allow, Evicts
<1>4. Final(entries[k]) <= Final(entries[o])
  BY <1>3 DEF Idlest
<1>5. ASSUME NEW x \in Known
      PROVE  /\ Final(entries[x]) \in Nat /\ Final(admitted[x]) \in Nat
             /\ Final(entries[x]) <= Final(admitted[x])
             /\ Final(admitted[x]) <= Final(entries[x]) + MaxLag
  <2> DEFINE e == entries[x]
             a == admitted[x]
  <2>1. e \in Seq(Nat) /\ a \in Seq(Nat) /\ e # <<>>
    BY <1>1 DEF Known
  <2>2. /\ Len(a) - Len(e) >= 0
        /\ \A i \in 1..Len(e) : /\ e[i] <= a[Len(a) - Len(e) + i]
                                /\ a[Len(a) - Len(e) + i] <= e[i] + MaxLag
    <3>1. QueueTrue(x)
      BY DEF LimiterInv, Known
    <3> QED
      BY <3>1, Zenon DEF QueueTrue, Dropped
  <2> HIDE DEF e, a
  <2>3. Len(e) \in Nat \ {0} /\ Len(a) \in Nat
    BY <2>1, EmptySeq, LenProperties
  <2>4. Len(a) - Len(e) + Len(e) = Len(a) /\ Len(e) \in 1..Len(e) /\ Len(a) \in 1..Len(a)
    BY <2>2, <2>3
  <2>5. e[Len(e)] \in Nat /\ a[Len(a)] \in Nat
    BY <2>1, <2>4
  <2>6. e[Len(e)] <= a[Len(a)] /\ a[Len(a)] <= e[Len(e)] + MaxLag
    BY <2>2, <2>4
  <2> QED
    BY <2>5, <2>6 DEF Final, e, a
<1>6. k \in Known
  BY DEF Known
<1> QED
  BY <1>4, <1>5, <1>6

-----------------------------------------------------------------------------
(* LimiterInv is an inductive invariant of the limiter.                       *)
THEOREM LimiterInvCorrect == LimiterSpec => []LimiterInv
<1> QED
  BY InitInv, NextInv, PTL DEF LimiterSpec

(* Any Limit + 1 requests of a key that are let through in a row, by however   *)
(* many handlers that reach the lock in whatever order, span a window less    *)
(* the lag.                                                                 *)
THEOREM SpacedCorrect == LimiterSpec => []Spaced
<1>1. LimiterInv => Spaced
  BY DEF LimiterInv
<1> QED
  BY <1>1, LimiterInvCorrect, PTL

(* A refusal always has Limit requests of the key behind it, let through       *)
(* within the window and the lag.                                            *)
THEOREM RefusedForCauseCorrect == LimiterSpec => []RefusedForCause
<1> QED
  BY LimiterInvCorrect, RefusalCause, PTL

(* No key is forgotten before one that has been idle for longer, give or take  *)
(* the lag.                                                                 *)
THEOREM EvictsIdleFirstCorrect == LimiterSpec => EvictsIdleFirst
<1> DEFINE Order ==
      \A k \in Keys :
        entries[k] # <<>> /\ entries'[k] = <<>> /\ (\E o \in Keys : entries'[o] # <<>>)
          => \A o \in Known : Final(admitted[k]) <= Final(admitted[o]) + MaxLag
<1>1. LimiterInv /\ [LimiterNext]_limiter => [Order]_limiter
  BY EvictionOrder
<1>2. LimiterSpec => [][Order]_limiter
  BY <1>1, LimiterInvCorrect, PTL DEF LimiterSpec
<1> QED
  BY <1>2 DEF EvictsIdleFirst
=============================================================================
