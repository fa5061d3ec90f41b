----------------------- MODULE ProxyLifecycleProofs -----------------------
(***************************************************************************)
(* WsPool and ProxyLifecycle for every number of sockets, sessions, runs,  *)
(* accept failures and calls of CloseAll.                                  *)
(*                                                                         *)
(* The pool.  Every name in the bucket is there once and nobody holds it   *)
(* (SocketsInv): what Get takes leaves the bucket in the same step, what a *)
(* dial brings is new, and a filter keeps of the bucket what it keeps in   *)
(* order (KeepProperties).  A flag that is set stands for one goroutine    *)
(* within the bound 1 + closes, so that one that is clear leaves room for  *)
(* another (RefillsBounded, RotationsBounded).                             *)
(*                                                                         *)
(* The proxy.  It uses the pool by its operations, so that the pool's      *)
(* theorems hold of it.  The goroutines of an earlier run close a listener *)
(* of their own (Registered), and the current run is the latest (Latest);  *)
(* a watchdog that has listened and not yet told the loop has its new      *)
(* socket open (Restoring).                                                *)
(***************************************************************************)
EXTENDS ProxyLifecycle, WellFoundedInduction, SequenceTheorems, FiniteSetTheorems, TLAPS

-----------------------------------------------------------------------------
(* Filters.  The library's induction theorems take a predicate, which the  *)
(* provers cannot supply; a set of numbers serves as well.                 *)

LEMMA SetInduction ==
  ASSUME NEW T, 0 \in T, \A n \in Nat : n \in T => n + 1 \in T
  PROVE  Nat \subseteq T
<1> SUFFICES ASSUME Nat \ T # {} PROVE FALSE
  OBVIOUS
<1>1. PICK m \in Nat \ T : \A n \in Nat \ T : <<n, m>> \notin OpToRel(<, Nat)
  BY NatLessThanWellFounded, WFMin
<1>2. m # 0 /\ m - 1 \in Nat /\ (m - 1) + 1 = m
  OBVIOUS
<1>3. m - 1 \in Nat \ T
  BY <1>2
<1>4. <<m - 1, m>> \in OpToRel(<, Nat)
  BY <1>2 DEF OpToRel
<1> QED
  BY <1>1, <1>3, <1>4

\* There is a function that satisfies the equations of Keep's recursion, so that
\* Keep does.
LEMMA KeepDefined ==
  ASSUME NEW A, NEW seq \in Seq(A), NEW S
  PROVE  \E f : /\ f[0] = << >>
                /\ \A n \in 1..Len(seq) :
                     f[n] = IF seq[n] \in S THEN Append(f[n - 1], seq[n]) ELSE f[n - 1]
                /\ Keep(seq, S) = f[Len(seq)]
<1> DEFINE Looks(f, n) == IF seq[n] \in S THEN Append(f[n - 1], seq[n]) ELSE f[n - 1]
           Upto(f, n) == f = [k \in 0..n |-> IF k = 0 THEN << >> ELSE Looks(f, k)]
           T == {n \in Nat : \E f : Upto(f, n)}
           F == CHOOSE f : Upto(f, Len(seq))
<1>1. 0 \in T
  <2>1. Upto([k \in 0..0 |-> << >>], 0)
    OBVIOUS
  <2> QED
    BY <2>1
<1>2. ASSUME NEW n \in Nat, n \in T PROVE n + 1 \in T
  <2>1. PICK f : Upto(f, n)
    BY <1>2
  <2> DEFINE g == [k \in 0..(n + 1) |-> IF k = n + 1 THEN Looks(f, k) ELSE f[k]]
  <2>2. \A k \in 0..n : f[k] = IF k = 0 THEN << >> ELSE Looks(f, k)
    <3> HIDE DEF Looks
    <3> QED
      BY <2>1
  <2>3. \A k \in 0..(n + 1) : g[k] = IF k = 0 THEN << >> ELSE Looks(f, k)
    <3> HIDE DEF Looks
    <3> QED
      BY <2>2
  <2>4. \A k \in 1..(n + 1) : g[k - 1] = f[k - 1]
    OBVIOUS
  <2>5. DOMAIN g = 0..(n + 1) /\ g = [k \in 0..(n + 1) |-> g[k]]
    OBVIOUS
  <2> HIDE DEF g
  <2>6. \A k \in 0..(n + 1) : g[k] = IF k = 0 THEN << >> ELSE Looks(g, k)
    BY <2>3, <2>4
  <2>7. Upto(g, n + 1)
    BY <2>5, <2>6
  <2> QED
    BY <2>7
<1>3. \E f : Upto(f, Len(seq))
  <2>1. Nat \subseteq T
    <3> HIDE DEF T
    <3> QED
      BY <1>1, <1>2, SetInduction
  <2> QED
    BY <2>1, LenProperties
<1>4. Upto(F, Len(seq))
  BY <1>3
<1>5. Keep(seq, S) = F[Len(seq)]
  BY DEF Keep
<1>6. \A n \in 0..Len(seq) : F[n] = IF n = 0 THEN << >> ELSE Looks(F, n)
  <2> HIDE DEF Looks, F
  <2> QED
    BY <1>4
<1>7. F[0] = << >> /\ \A n \in 1..Len(seq) : F[n] = Looks(F, n)
  <2> HIDE DEF Looks, F
  <2> QED
    BY <1>6, LenProperties
<1> HIDE DEF F
<1> QED
  BY <1>5, <1>7

\* What Keep returns: the elements of seq that are in S, each as often as before.
LEMMA KeepProperties ==
  ASSUME NEW A, NEW seq \in Seq(A), NEW S
  PROVE  /\ Keep(seq, S) \in Seq(A)
         /\ Len(Keep(seq, S)) <= Len(seq)
         /\ \A i \in 1..Len(Keep(seq, S)) :
              Keep(seq, S)[i] \in S /\ \E j \in 1..Len(seq) : Keep(seq, S)[i] = seq[j]
         /\ \A j \in 1..Len(seq) :
              seq[j] \in S => \E i \in 1..Len(Keep(seq, S)) : Keep(seq, S)[i] = seq[j]
         /\ (\A i, j \in 1..Len(seq) : seq[i] = seq[j] => i = j) =>
              \A i, j \in 1..Len(Keep(seq, S)) : Keep(seq, S)[i] = Keep(seq, S)[j] => i = j
<1>1. PICK f : /\ f[0] = << >>
               /\ \A n \in 1..Len(seq) :
                    f[n] = IF seq[n] \in S THEN Append(f[n - 1], seq[n]) ELSE f[n - 1]
               /\ Keep(seq, S) = f[Len(seq)]
  BY KeepDefined
<1> DEFINE Once(q, n) == \A i, j \in 1..n : q[i] = q[j] => i = j
           Good(q, n) ==
             /\ q \in Seq(A)
             /\ Len(q) <= n
             /\ \A i \in 1..Len(q) : q[i] \in S /\ \E j \in 1..n : q[i] = seq[j]
             /\ \A j \in 1..n : seq[j] \in S => \E i \in 1..Len(q) : q[i] = seq[j]
             /\ Once(seq, n) => Once(q, Len(q))
           T == {n \in Nat : n <= Len(seq) => Good(f[n], n)}
<1>2. 0 \in T
  <2>1. Good(<< >>, 0)
    BY EmptySeq
  <2> HIDE DEF Good
  <2> QED
    BY <1>1, <2>1
<1>3. ASSUME NEW n \in Nat, n \in T PROVE n + 1 \in T
  <2> SUFFICES ASSUME n + 1 <= Len(seq) PROVE Good(f[n + 1], n + 1)
    <3> HIDE DEF Good
    <3> QED
      OBVIOUS
  <2> DEFINE q == f[n]
             r == f[n + 1]
             e == seq[n + 1]
  <2>1. Good(q, n) /\ Len(seq) \in Nat /\ n + 1 \in 1..Len(seq) /\ e \in A
    BY <1>3
  <2>2. r = IF e \in S THEN Append(q, e) ELSE q
    BY <1>1, <2>1
  <2> HIDE DEF q, r, e
  <2>3. ASSUME e \notin S PROVE Good(r, n + 1)
    <3>1. r = q
      BY <2>2, <2>3
    <3>2. seq[n + 1] \notin S
      BY <2>3 DEF e
    <3>3. \A j \in 1..(n + 1) : seq[j] \in S => j \in 1..n
      BY <3>2
    <3>4. Good(q, n)
      BY <2>1
    <3>5. \A i \in 1..Len(q) : \E j \in 1..(n + 1) : q[i] = seq[j]
      BY <2>1
    <3> QED
      BY <2>1, <3>1, <3>3, <3>5
  <2>4. ASSUME e \in S PROVE Good(r, n + 1)
    <3>1. /\ r \in Seq(A) /\ Len(r) = Len(q) + 1 /\ Len(q) \in Nat
          /\ \A i \in 1..Len(q) : r[i] = q[i]
          /\ r[Len(q) + 1] = e
      BY <2>1, <2>2, <2>4
    <3>2. \A i \in 1..Len(r) : r[i] \in S /\ \E j \in 1..(n + 1) : r[i] = seq[j]
      <4>1. ASSUME NEW i \in 1..Len(q)
            PROVE  r[i] \in S /\ \E j \in 1..(n + 1) : r[i] = seq[j]
        BY <2>1, <3>1
      <4> QED
        BY <2>4, <3>1, <4>1 DEF e
    <3>3. \A j \in 1..(n + 1) : seq[j] \in S => \E i \in 1..Len(r) : r[i] = seq[j]
      <4>1. ASSUME NEW j \in 1..n, seq[j] \in S PROVE \E i \in 1..Len(r) : r[i] = seq[j]
        <5>1. PICK i \in 1..Len(q) : q[i] = seq[j]
          BY <2>1, <4>1
        <5>2. i \in 1..Len(r) /\ r[i] = seq[j]
          BY <3>1, <5>1
        <5> QED
          BY <5>2
      <4>2. Len(q) + 1 \in 1..Len(r) /\ r[Len(q) + 1] = seq[n + 1]
        BY <3>1 DEF e
      <4> QED
        BY <4>1, <4>2
    <3>4. ASSUME Once(seq, n + 1) PROVE Once(r, Len(r))
      <4>1. Once(q, Len(q))
        BY <2>1, <3>4
      <4>2. \A i \in 1..Len(q) : q[i] # e
        BY <2>1, <3>4 DEF e
      <4> QED
        BY <3>1, <4>1, <4>2
    <3> QED
      BY <2>1, <3>1, <3>2, <3>3, <3>4
  <2> QED
    <3> HIDE DEF Good
    <3> QED
      BY <2>3, <2>4 DEF r
<1>4. Len(seq) \in Nat /\ Len(seq) \in T
  <2> HIDE DEF T
  <2> QED
    BY <1>2, <1>3, SetInduction, LenProperties
<1> QED
  BY <1>1, <1>4
-----------------------------------------------------------------------------
(* The type invariant of the pool.  Whether a socket is stale is known of  *)
(* idle sockets only.                                                      *)

LEMMA NewSocket ==
  ASSUME NEW s, IsNewSocket(s)
  PROVE  s \in Sockets /\ s \notin InIdle /\ \A c \in Callers : held[c] # s
<1>1. \E t \in Sockets : t \notin InUse
  BY DEF IsNewSocket
<1> QED
  BY <1>1 DEF IsNewSocket, InUse

RotationPlaces == [look: Nat, sleep: Nat, release: Nat]

\* What TypeOK says of the counters and flags.
CountersOK ==
  /\ kind \in {"direct", "worker", "off"}
  /\ refilling \in BOOLEAN
  /\ rotating \in BOOLEAN
  /\ counting \in Nat
  /\ dialing \in [0..PoolSize -> Nat]
  /\ rotation \in RotationPlaces
  /\ closes \in 0..MaxCloses

\* And what of the sockets.
SocketsOK ==
  /\ idle \in Seq(Sockets)
  /\ stale \subseteq InIdle
  /\ held \in [Callers -> Sockets \cup {None}]

LEMMA TypeParts == TypeOK <=> CountersOK /\ SocketsOK
BY DEF TypeOK, CountersOK, SocketsOK, RotationPlaces

LEMMA RotationStep ==
  ASSUME rotation \in RotationPlaces, RotationLooks \/ RotationFilters \/ RotationReleases
  PROVE  rotation' \in RotationPlaces
<1> DEFINE l == rotation.look
           s == rotation.sleep
           e == rotation.release
<1>0. l \in Nat /\ s \in Nat /\ e \in Nat
  BY DEF RotationPlaces
<1>1. ASSUME NEW a \in Nat, NEW b \in Nat
      PROVE  /\ [rotation EXCEPT !.look = a, !.release = b] \in RotationPlaces
             /\ [rotation EXCEPT !.look = a, !.sleep = b] \in RotationPlaces
             /\ [rotation EXCEPT !.sleep = a, !.release = b] \in RotationPlaces
             /\ [rotation EXCEPT !.sleep = a, !.look = b] \in RotationPlaces
             /\ [rotation EXCEPT !.release = a] \in RotationPlaces
  BY <1>1 DEF RotationPlaces
<1> HIDE DEF l, s, e
<1>2. CASE RotationLooks
  <2>1. /\ l - 1 \in Nat
        /\ \/ rotation' = [rotation EXCEPT !.look = l - 1, !.release = e + 1]
           \/ rotation' = [rotation EXCEPT !.look = l - 1, !.sleep = s + 1]
    BY <1>0, <1>2 DEF RotationLooks, l, s, e
  <2>2. l + 1 \in Nat /\ s + 1 \in Nat /\ e + 1 \in Nat
    BY <1>0
  <2> QED
    BY <1>1, <2>1, <2>2, Zenon
<1>3. CASE RotationFilters
  <2>1. /\ s - 1 \in Nat
        /\ \/ rotation' = [rotation EXCEPT !.sleep = s - 1, !.release = e + 1]
           \/ rotation' = [rotation EXCEPT !.sleep = s - 1, !.look = l + 1]
    BY <1>0, <1>3 DEF RotationFilters, l, s, e
  <2>2. l + 1 \in Nat /\ s + 1 \in Nat /\ e + 1 \in Nat
    BY <1>0
  <2> QED
    BY <1>1, <2>1, <2>2, Zenon
<1>4. CASE RotationReleases
  <2>1. e - 1 \in Nat /\ rotation' = [rotation EXCEPT !.release = e - 1]
    BY <1>0, <1>4 DEF RotationReleases, e
  <2> QED
    BY <1>1, <2>1
<1> QED
  BY <1>2, <1>3, <1>4

\* The flag and the counter of refills, one by one: a flag is no number.
LEMMA ScheduleStep ==
  ASSUME refilling \in BOOLEAN, counting \in Nat,
         ScheduleRefill \/ UNCHANGED <<refilling, counting>>
  PROVE  refilling' \in BOOLEAN /\ counting' \in Nat
<1>1. refilling' = refilling \/ refilling' = TRUE
  BY DEF ScheduleRefill
<1>2. refilling' \in BOOLEAN
  BY <1>1
<1>3. counting' = counting \/ counting' = counting + 1
  BY DEF ScheduleRefill
<1> QED
  BY <1>2, <1>3

LEMMA DialingStep ==
  ASSUME dialing \in [0..PoolSize -> Nat], idle \in Seq(Sockets),
         \/ RefillCounts \/ RefillReleases
         \/ \E n \in 1..PoolSize : OneAnswered(n)
  PROVE  dialing' \in [0..PoolSize -> Nat]
<1>1. CASE RefillCounts
  <2>1. PICK needed : /\ needed = IF Len(idle) >= Size THEN 0 ELSE Size - Len(idle)
                      /\ dialing' = [dialing EXCEPT ![needed] = @ + 1]
    BY <1>1 DEF RefillCounts
  <2>2. needed \in 0..PoolSize
    BY <2>1, LenProperties, PoolAssumption DEF Size
  <2> QED
    BY <2>1, <2>2
<1>2. CASE RefillReleases
  BY <1>2, PoolAssumption DEF RefillReleases
<1>3. ASSUME NEW n \in 1..PoolSize, OneAnswered(n) PROVE dialing' \in [0..PoolSize -> Nat]
  <2>1. n \in 0..PoolSize /\ n - 1 \in 0..PoolSize
    BY PoolAssumption
  <2>2. dialing[n] - 1 \in Nat /\ dialing[n - 1] + 1 \in Nat
    BY <1>3, <2>1 DEF OneAnswered
  <2> QED
    BY <1>3, <2>1, <2>2 DEF OneAnswered
<1> QED
  BY <1>1, <1>2, <1>3

LEMMA CountersStep == TypeOK /\ [Next]_poolVars => CountersOK'
<1> SUFFICES ASSUME TypeOK, [Next]_poolVars PROVE CountersOK'
  OBVIOUS
<1>1. CountersOK
  BY TypeParts
<1>2. ScheduleRefill => refilling' \in BOOLEAN /\ counting' \in Nat
  <2>1. refilling \in BOOLEAN /\ counting \in Nat
    BY <1>1 DEF CountersOK
  <2> QED
    BY <2>1, ScheduleStep
<1>3. \A bucket : ScheduleRotation(bucket) =>
        rotating' \in BOOLEAN /\ rotation' \in RotationPlaces
  <2>1. rotating \in BOOLEAN /\ rotation \in RotationPlaces
    BY <1>1 DEF CountersOK
  <2>2. [rotation EXCEPT !.look = @ + 1] \in RotationPlaces
    BY <2>1 DEF RotationPlaces
  <2> QED
    BY <2>1, <2>2 DEF ScheduleRotation
<1>4. ASSUME NEW c \in Callers, GetMiss(c) \/ GetHit(c) \/ DropSocket(c) PROVE CountersOK'
  BY <1>1, <1>2, <1>3, <1>4 DEF GetMiss, GetHit, DropSocket, CountersOK
<1>5. CASE RefillCounts \/ RefillReleases
  <2>1. dialing' \in [0..PoolSize -> Nat]
    BY <1>1, <1>5, DialingStep DEF CountersOK, TypeOK
  <2>2. refilling \in BOOLEAN /\ counting \in Nat
    BY <1>1 DEF CountersOK
  <2>3. counting' \in Nat /\ UNCHANGED <<kind, rotating, rotation, closes>>
    BY <1>5, <2>2 DEF RefillCounts, RefillReleases
  <2>4. refilling' \in BOOLEAN
    BY <1>5, <2>2 DEF RefillCounts, RefillReleases
  <2> QED
    BY <1>1, <2>1, <2>3, <2>4 DEF CountersOK
<1>6. ASSUME NEW n \in 1..PoolSize, RefillAppends(n) \/ RefillDialFails(n) PROVE CountersOK'
  <2>1. dialing' \in [0..PoolSize -> Nat]
    BY <1>1, <1>6, DialingStep DEF CountersOK, TypeOK, RefillAppends, RefillDialFails
  <2> QED
    BY <1>1, <1>3, <1>6, <2>1 DEF RefillAppends, RefillDialFails, CountersOK
<1>7. CASE RotationLooks \/ RotationFilters \/ RotationReleases
  <2>1. rotation' \in RotationPlaces
    BY <1>1, <1>7, RotationStep DEF CountersOK
  <2>2. refilling \in BOOLEAN /\ rotating \in BOOLEAN /\ counting \in Nat
    BY <1>1 DEF CountersOK
  <2>3. refilling' \in BOOLEAN /\ counting' \in Nat
    BY <1>7, <2>2, ScheduleStep DEF RotationLooks, RotationFilters, RotationReleases
  <2>4. rotating' \in BOOLEAN /\ UNCHANGED <<kind, dialing, closes>>
    BY <1>7, <2>2 DEF RotationLooks, RotationFilters, RotationReleases
  <2> QED
    BY <1>1, <2>1, <2>3, <2>4 DEF CountersOK
<1>8. CASE MaintainDrops \/ Warmup
  BY <1>1, <1>2, <1>8 DEF MaintainDrops, Warmup, CountersOK
<1>9. CASE CloseAll
  <2>1. closes' \in 0..MaxCloses
    BY <1>1, <1>9, PoolAssumption DEF CloseAll, CountersOK
  <2> QED
    BY <1>1, <1>9, <2>1 DEF CloseAll, CountersOK
<1>10. CASE SwitchPreconnect
  BY <1>1, <1>10 DEF SwitchPreconnect, CountersOK
<1>11. CASE UNCHANGED poolVars \/ \E s \in Sockets : GoesStale(s)
  BY <1>1, <1>11 DEF poolVars, GoesStale, CountersOK
<1> QED
  BY <1>4, <1>5, <1>6, <1>7, <1>8, <1>9, <1>10, <1>11 DEF Next, Goroutine

-----------------------------------------------------------------------------
(* The sockets: their types, and that none is in two places.                *)

SocketsInv == SocketsOK /\ HandedOutOnce

\* The filter of the rotation and of the maintenance.
LEMMA FilterStep ==
  ASSUME SocketsInv, idle' = Keep(idle, Sockets \ stale), stale' = {}, held' = held
  PROVE  SocketsInv'
<1> DEFINE q == Keep(idle, Sockets \ stale)
<1>1. idle \in Seq(Sockets) /\ DOMAIN idle = 1..Len(idle)
  BY LenProperties DEF SocketsInv, SocketsOK
<1>2. /\ q \in Seq(Sockets)
      /\ \A i \in 1..Len(q) : \E j \in 1..Len(idle) : q[i] = idle[j]
      /\ (\A i, j \in 1..Len(idle) : idle[i] = idle[j] => i = j) =>
           \A i, j \in 1..Len(q) : q[i] = q[j] => i = j
  <2>1. \A i \in 1..Len(q) : q[i] \in Sockets \ stale /\ \E j \in 1..Len(idle) : q[i] = idle[j]
    BY <1>1, KeepProperties
  <2>2. q \in Seq(Sockets)
    BY <1>1, KeepProperties
  <2>3. (\A i, j \in 1..Len(idle) : idle[i] = idle[j] => i = j) =>
           \A i, j \in 1..Len(q) : q[i] = q[j] => i = j
    BY <1>1, KeepProperties
  <2> HIDE DEF q
  <2> QED
    BY <2>1, <2>2, <2>3
<1>3. idle' = q /\ DOMAIN q = 1..Len(q)
  BY <1>2, LenProperties
<1> HIDE DEF q
<1>4. \A i, j \in 1..Len(idle) : idle[i] = idle[j] => i = j
  BY <1>1 DEF SocketsInv, HandedOutOnce
<1>5. InIdle' \subseteq InIdle
  BY <1>1, <1>2, <1>3 DEF InIdle
<1>6. SocketsOK'
  BY <1>2, <1>3 DEF SocketsInv, SocketsOK
<1>7. HandedOutOnce'
  BY <1>2, <1>3, <1>4, <1>5 DEF SocketsInv, HandedOutOnce
<1> QED
  BY <1>6, <1>7 DEF SocketsInv

\* A hit: the bucket loses its front, of which the session has the last.
LEMMA HitStep ==
  ASSUME SocketsInv, NEW c \in Callers, GetHit(c)
  PROVE  SocketsInv'
<1>1. /\ idle \in Seq(Sockets) /\ DOMAIN idle = 1..Len(idle) /\ Len(idle) \in Nat
      /\ held \in [Callers -> Sockets \cup {None}] /\ stale \subseteq InIdle
  BY LenProperties DEF SocketsInv, SocketsOK
<1>2. PICK k \in 1..Len(idle) :
        /\ idle[k] \notin stale
        /\ held' = [held EXCEPT ![c] = idle[k]]
        /\ idle' = SubSeq(idle, k + 1, Len(idle))
        /\ stale' = stale \ {idle[j] : j \in 1..(k - 1)}
  BY <1>1 DEF GetHit, Fresh, Forget
<1> DEFINE q == SubSeq(idle, k + 1, Len(idle))
<1>3. /\ q \in Seq(Sockets) /\ DOMAIN q = 1..Len(q) /\ Len(q) = Len(idle) - k
      /\ \A i \in 1..Len(q) : q[i] = idle[k + i] /\ k + i \in 1..Len(idle)
  <2>1. \A i \in (k + 1)..Len(idle) : idle[i] \in Sockets
    BY <1>1, ElementOfSeq
  <2>2. /\ q \in Seq(Sockets)
        /\ Len(q) = IF k + 1 <= Len(idle) THEN Len(idle) - (k + 1) + 1 ELSE 0
        /\ \A i \in 1..(Len(idle) - (k + 1) + 1) : q[i] = idle[k + 1 + i - 1]
    BY <1>1, <2>1, SubSeqProperties
  <2>3. Len(q) = Len(idle) - k
    <3> DEFINE l == Len(idle)
               m == Len(q)
    <3>1. l \in Nat /\ k \in 1..l /\ m = IF k + 1 <= l THEN l - (k + 1) + 1 ELSE 0
      BY <1>1, <2>2
    <3> HIDE DEF l, m
    <3>2. m = l - k
      BY <3>1
    <3> QED
      BY <3>2 DEF l, m
  <2>4. \A i \in 1..Len(q) : q[i] = idle[k + i] /\ k + i \in 1..Len(idle)
    <3> SUFFICES ASSUME NEW i \in 1..Len(q)
                 PROVE  q[i] = idle[k + i] /\ k + i \in 1..Len(idle)
      OBVIOUS
    <3> HIDE DEF q
    <3>1. /\ i \in 1..(Len(idle) - (k + 1) + 1) /\ k + 1 + i - 1 = k + i
          /\ k + i \in 1..Len(idle)
      BY <1>1, <2>3
    <3> QED
      BY <2>2, <3>1
  <2> QED
    BY <2>2, <2>3, <2>4, LenProperties
<1>4. idle' = q
  BY <1>2
<1> HIDE DEF q
<1>5. \A x : x \in InIdle' <=> \E i \in (k + 1)..Len(idle) : x = idle[i]
  <2>1. \A i \in (k + 1)..Len(idle) : i - k \in 1..Len(q) /\ q[i - k] = idle[i]
    BY <1>1, <1>3
  <2>2. \A i \in 1..Len(q) : k + i \in (k + 1)..Len(idle)
    BY <1>1, <1>3
  <2>3. ASSUME NEW x, x \in InIdle' PROVE \E i \in (k + 1)..Len(idle) : x = idle[i]
    <3>1. PICK i \in 1..Len(q) : x = q[i]
      BY <1>3, <1>4, <2>3 DEF InIdle
    <3> QED
      BY <1>3, <2>2, <3>1
  <2>4. ASSUME NEW i \in (k + 1)..Len(idle) PROVE idle[i] \in InIdle'
    BY <1>3, <1>4, <2>1 DEF InIdle
  <2> QED
    BY <2>3, <2>4
<1>6. \A i, j \in 1..Len(idle) : idle[i] = idle[j] => i = j
  BY <1>1 DEF SocketsInv, HandedOutOnce
<1>7. idle[k] \in InIdle /\ idle[k] \in Sockets /\ idle[k] \notin InIdle'
  <2>1. idle[k] \in InIdle
    BY <1>1 DEF InIdle
  <2>2. idle[k] \in Sockets
    BY <1>1, ElementOfSeq
  <2>3. \A i \in (k + 1)..Len(idle) : i \in 1..Len(idle) /\ i # k
    BY <1>1
  <2> QED
    BY <1>5, <1>6, <2>1, <2>2, <2>3
<1>8. InIdle' \subseteq InIdle
  BY <1>1, <1>5 DEF InIdle
<1>9. stale' \subseteq InIdle'
  <2>1. ASSUME NEW x \in stale' PROVE x \in InIdle'
    <3>1. PICK i \in 1..Len(idle) : x = idle[i]
      BY <1>1, <1>2, <2>1 DEF InIdle
    <3>2. i # k /\ i \notin 1..(k - 1)
      BY <1>2, <2>1, <3>1
    <3> QED
      BY <1>1, <1>5, <3>1, <3>2
  <2> QED
    BY <2>1
<1>10. held' \in [Callers -> Sockets \cup {None}]
  BY <1>1, <1>2, <1>7
<1>11. SocketsOK'
  BY <1>3, <1>4, <1>9, <1>10 DEF SocketsOK
<1>12. \A i, j \in DOMAIN idle' : idle'[i] = idle'[j] => i = j
  BY <1>1, <1>3, <1>4, <1>6
<1>13. /\ held'[c] = idle[k]
       /\ \A d \in Callers \ {c} : held'[d] = held[d]
       /\ \A d \in Callers : held[d] # idle[k]
  BY <1>1, <1>2, <1>7 DEF SocketsInv, HandedOutOnce
<1>14. /\ \A d \in Callers : held'[d] \notin InIdle'
       /\ \A d, e \in Callers : held'[d] = held'[e] /\ held'[d] # None => d = e
  BY <1>7, <1>8, <1>13 DEF SocketsInv, HandedOutOnce
<1> QED
  BY <1>11, <1>12, <1>14 DEF SocketsInv, HandedOutOnce

\* A dial brings in a socket that is nowhere.
LEMMA AppendStep ==
  ASSUME SocketsInv, NEW s, IsNewSocket(s), idle' = Append(idle, s),
         UNCHANGED <<stale, held>>
  PROVE  SocketsInv'
<1>1. /\ idle \in Seq(Sockets) /\ DOMAIN idle = 1..Len(idle) /\ Len(idle) \in Nat
      /\ s \in Sockets /\ s \notin InIdle
  BY LenProperties, NewSocket DEF SocketsInv, SocketsOK
<1>2. /\ idle' \in Seq(Sockets) /\ DOMAIN idle' = 1..(Len(idle) + 1)
      /\ \A i \in 1..Len(idle) : idle'[i] = idle[i]
      /\ idle'[Len(idle) + 1] = s
  BY <1>1
<1>3. InIdle' = InIdle \cup {s}
  BY <1>1, <1>2 DEF InIdle
<1>4. SocketsOK'
  BY <1>2, <1>3 DEF SocketsInv, SocketsOK
<1>5. \A i, j \in DOMAIN idle' : idle'[i] = idle'[j] => i = j
  BY <1>1, <1>2 DEF SocketsInv, HandedOutOnce, InIdle
<1>6. \A c \in Callers : held'[c] \notin InIdle'
  BY <1>3, NewSocket DEF SocketsInv, HandedOutOnce
<1> QED
  BY <1>4, <1>5, <1>6 DEF SocketsInv, HandedOutOnce

\* The bucket is given up.
LEMMA EmptyStep ==
  ASSUME SocketsInv, idle' = << >>, stale' = {}, held' = held
  PROVE  SocketsInv'
<1>1. idle' \in Seq(Sockets) /\ InIdle' = {} /\ DOMAIN idle' = {}
  BY DEF InIdle
<1> QED
  BY <1>1 DEF SocketsInv, SocketsOK, HandedOutOnce

LEMMA SocketsIdle ==
  ASSUME SocketsInv, UNCHANGED <<idle, stale, held>>
  PROVE  SocketsInv'
BY DEF SocketsInv, SocketsOK, HandedOutOnce, InIdle

LEMMA SocketsStep == SocketsInv /\ [Next]_poolVars => SocketsInv'
<1> SUFFICES ASSUME SocketsInv, [Next]_poolVars PROVE SocketsInv'
  OBVIOUS
<1>1. ASSUME NEW c \in Callers, GetMiss(c) PROVE SocketsInv'
  <2>1. stale' = {}
    BY <1>1 DEF GetMiss, Forget, SocketsInv, SocketsOK
  <2> QED
    BY <1>1, <2>1, EmptyStep DEF GetMiss
<1>2. ASSUME NEW c \in Callers, DropSocket(c) PROVE SocketsInv'
  <2>1. held' \in [Callers -> Sockets \cup {None}] /\ UNCHANGED <<idle, stale>>
    BY <1>2 DEF DropSocket, SocketsInv, SocketsOK
  <2>2. \A d \in Callers : held'[d] \in {held[d], None}
    BY <1>2 DEF DropSocket, SocketsInv, SocketsOK
  <2>3. None \notin InIdle
    BY PoolAssumption, LenProperties, ElementOfSeq DEF InIdle, SocketsInv, SocketsOK
  <2>4. SocketsOK'
    BY <2>1 DEF SocketsInv, SocketsOK, InIdle
  <2>5. HandedOutOnce'
    BY <2>1, <2>2, <2>3 DEF SocketsInv, HandedOutOnce, InIdle
  <2> QED
    BY <2>4, <2>5 DEF SocketsInv
<1>3. ASSUME NEW n, RefillAppends(n) PROVE SocketsInv'
  BY <1>3, AppendStep DEF RefillAppends
<1>4. CASE RotationFilters \/ MaintainDrops
  BY <1>4, FilterStep DEF RotationFilters, MaintainDrops
<1>5. CASE CloseAll
  BY <1>5, EmptyStep DEF CloseAll
<1>6. ASSUME NEW s \in Sockets, GoesStale(s) PROVE SocketsInv'
  BY <1>6 DEF GoesStale, SocketsInv, SocketsOK, HandedOutOnce, InIdle
<1>7. ASSUME \/ RefillCounts \/ RefillReleases \/ RotationLooks \/ RotationReleases
             \/ Warmup \/ SwitchPreconnect \/ UNCHANGED poolVars
             \/ \E n \in 1..PoolSize : RefillDialFails(n)
      PROVE  SocketsInv'
  BY <1>7, SocketsIdle DEF RefillCounts, RefillReleases, RotationLooks, RotationReleases,
     Warmup, SwitchPreconnect, poolVars, RefillDialFails
<1> QED
  BY <1>1, <1>2, <1>3, <1>4, <1>5, <1>6, <1>7, HitStep DEF Next, Goroutine

-----------------------------------------------------------------------------
(* The goroutines.  A call of CloseAll clears a flag whose goroutine runs   *)
(* on; but for those, a flag that is not set means that none is at work.    *)

Entries(f) == UNION {{n} \X (1..f[n]) : n \in 0..PoolSize}

RefillsBounded ==
  /\ IsFiniteSet(Dialers)
  /\ refilling => Refills <= closes + 1
  /\ ~refilling => Refills <= closes

Rotations == rotation.look + rotation.sleep + rotation.release

RotationsBounded ==
  /\ rotating => Rotations <= closes + 1
  /\ ~rotating => Rotations <= closes

LEMMA EntriesAre ==
  ASSUME NEW f, NEW x
  PROVE  x \in Entries(f) <=> \E n \in 0..PoolSize : \E k \in 1..f[n] : x = <<n, k>>
BY DEF Entries

\* One goroutine more waits for n dials, or one less.
LEMMA OneMore ==
  ASSUME NEW f \in [0..PoolSize -> Nat], NEW n \in 0..PoolSize, IsFiniteSet(Entries(f))
  PROVE  LET g == [f EXCEPT ![n] = @ + 1]
         IN  /\ IsFiniteSet(Entries(g))
             /\ Cardinality(Entries(g)) = Cardinality(Entries(f)) + 1
<1> DEFINE g == [f EXCEPT ![n] = @ + 1]
           e == <<n, f[n] + 1>>
<1>1. g[n] = f[n] + 1 /\ \A m \in 0..PoolSize \ {n} : g[m] = f[m]
  OBVIOUS
<1>2. f[n] \in Nat
  OBVIOUS
<1> HIDE DEF g
<1>3. e \notin Entries(f)
  <2> SUFFICES ASSUME e \in Entries(f) PROVE FALSE
    OBVIOUS
  <2>1. \E m \in 0..PoolSize : \E k \in 1..f[m] : e = <<m, k>>
    BY EntriesAre, Zenon
  <2>2. PICK m \in 0..PoolSize : \E k \in 1..f[m] : e = <<m, k>>
    BY <2>1
  <2>3. PICK k \in 1..f[m] : e = <<m, k>>
    BY <2>2
  <2> QED
    BY <1>2, <2>3
<1>4. ASSUME NEW x PROVE x \in Entries(g) <=> x \in Entries(f) \/ x = e
  <2>1. ASSUME x \in Entries(g) PROVE x \in Entries(f) \/ x = e
    <3>1. PICK m \in 0..PoolSize : \E k \in 1..g[m] : x = <<m, k>>
      BY <2>1, EntriesAre
    <3>2. PICK k \in 1..g[m] : x = <<m, k>>
      BY <3>1
    <3>3. CASE m = n
      <4>1. k \in 1..f[n] \/ k = f[n] + 1
        BY <1>1, <1>2, <3>3
      <4> QED
        BY <3>2, <3>3, <4>1, EntriesAre
    <3>4. CASE m # n
      BY <1>1, <3>2, <3>4, EntriesAre
    <3> QED
      BY <3>3, <3>4
  <2>2. ASSUME x \in Entries(f) PROVE x \in Entries(g)
    <3>1. PICK m \in 0..PoolSize : \E k \in 1..f[m] : x = <<m, k>>
      BY <2>2 DEF Entries
    <3>2. PICK k \in 1..f[m] : x = <<m, k>>
      BY <3>1
    <3>3. k \in 1..g[m]
      BY <1>1, <1>2
    <3> QED
      BY <3>2, <3>3, EntriesAre
  <2>3. e \in Entries(g)
    <3>1. f[n] + 1 \in 1..g[n]
      BY <1>1, <1>2
    <3> QED
      BY <3>1, EntriesAre
  <2> QED
    BY <2>1, <2>2, <2>3
<1>5. Entries(g) = Entries(f) \cup {e}
  BY <1>4
<1> HIDE DEF e
<1>6. /\ IsFiniteSet(Entries(f) \cup {e})
      /\ Cardinality(Entries(f) \cup {e}) = Cardinality(Entries(f)) + 1
  BY <1>3, FS_AddElement
<1> QED
  BY <1>5, <1>6 DEF g

LEMMA OneLess ==
  ASSUME NEW f \in [0..PoolSize -> Nat], NEW n \in 0..PoolSize, f[n] > 0,
         IsFiniteSet(Entries(f))
  PROVE  LET g == [f EXCEPT ![n] = @ - 1]
         IN  /\ g \in [0..PoolSize -> Nat]
             /\ IsFiniteSet(Entries(g))
             /\ Cardinality(Entries(f)) = Cardinality(Entries(g)) + 1
<1> DEFINE g == [f EXCEPT ![n] = @ - 1]
<1>1. g \in [0..PoolSize -> Nat] /\ g[n] + 1 = f[n]
  OBVIOUS
<1>2. f = [g EXCEPT ![n] = @ + 1]
  BY <1>1
<1>3. Entries(g) \subseteq Entries(f)
  <2>1. \A m \in 0..PoolSize : \A k \in 1..g[m] : k \in 1..f[m]
    OBVIOUS
  <2> HIDE DEF g
  <2>2. ASSUME NEW x \in Entries(g) PROVE x \in Entries(f)
    <3>1. PICK m \in 0..PoolSize : \E k \in 1..g[m] : x = <<m, k>>
      BY EntriesAre
    <3> QED
      BY <2>1, <3>1, EntriesAre
  <2> QED
    BY <2>2
<1>4. IsFiniteSet(Entries(g))
  BY <1>3, FS_Subset
<1> HIDE DEF g
<1>5. Cardinality(Entries(f)) = Cardinality(Entries(g)) + 1
  BY <1>1, <1>2, <1>4, OneMore
<1> QED
  BY <1>1, <1>4, <1>5 DEF g

\* A dial that has answered changes no number of goroutines.
LEMMA AnswerKeeps ==
  ASSUME dialing \in [0..PoolSize -> Nat], IsFiniteSet(Dialers), NEW n \in 1..PoolSize,
         OneAnswered(n)
  PROVE  IsFiniteSet(Dialers') /\ Cardinality(Dialers') = Cardinality(Dialers)
<1> DEFINE g == [dialing EXCEPT ![n] = @ - 1]
           h == [g EXCEPT ![n - 1] = @ + 1]
<1>1. n \in 0..PoolSize /\ n - 1 \in 0..PoolSize /\ dialing[n] > 0 /\ n # n - 1
  BY PoolAssumption DEF OneAnswered
<1>2. dialing' = h
  BY <1>1 DEF OneAnswered
<1>3. Dialers = Entries(dialing) /\ Dialers' = Entries(dialing')
  BY DEF Dialers, Entries
<1>4. /\ g \in [0..PoolSize -> Nat] /\ IsFiniteSet(Entries(g))
      /\ Cardinality(Entries(dialing)) = Cardinality(Entries(g)) + 1
  BY <1>1, <1>3, OneLess
<1> HIDE DEF g
<1>5. IsFiniteSet(Entries(h)) /\ Cardinality(Entries(h)) = Cardinality(Entries(g)) + 1
  BY <1>1, <1>4, OneMore
<1> QED
  BY <1>2, <1>3, <1>4, <1>5

\* What scheduling a refill, or not, adds to those at work.
LEMMA ScheduleKeeps ==
  ASSUME TypeOK, RefillsBounded, ScheduleRefill \/ UNCHANGED <<refilling, counting>>,
         UNCHANGED <<dialing, closes>>
  PROVE  RefillsBounded'
<1>1. /\ counting \in Nat /\ closes \in Nat /\ Cardinality(Dialers) \in Nat
      /\ Dialers' = Dialers
  BY PoolAssumption, FS_CardinalityType DEF TypeOK, RefillsBounded, Dialers
<1>2. CASE UNCHANGED <<refilling, counting>>
  BY <1>1, <1>2 DEF RefillsBounded, Refills
<1>3. CASE ~refilling /\ refilling' = TRUE /\ counting' = counting + 1
  <2>1. counting + Cardinality(Dialers) <= closes
    BY <1>3 DEF RefillsBounded, Refills
  <2>2. counting' + Cardinality(Dialers') <= closes' + 1
    BY <1>1, <1>3, <2>1
  <2> QED
    BY <1>1, <1>3, <2>2 DEF RefillsBounded, Refills
<1> QED
  BY <1>2, <1>3 DEF ScheduleRefill

\* The three steps of a refill: it counts, an answer comes, it clears its flag.
LEMMA RefillKeeps ==
  ASSUME TypeOK, RefillsBounded,
         \/ RefillCounts \/ RefillReleases
         \/ \E n \in 1..PoolSize : RefillAppends(n) \/ RefillDialFails(n)
  PROVE  RefillsBounded'
<1>1. /\ counting \in Nat /\ closes \in Nat /\ Cardinality(Dialers) \in Nat
      /\ dialing \in [0..PoolSize -> Nat] /\ IsFiniteSet(Dialers)
  BY PoolAssumption, FS_CardinalityType DEF TypeOK, RefillsBounded
<1>2. Dialers = Entries(dialing) /\ Dialers' = Entries(dialing')
  BY DEF Dialers, Entries
<1>3. CASE RefillCounts
  <2>1. PICK needed : /\ needed = IF Len(idle) >= Size THEN 0 ELSE Size - Len(idle)
                      /\ dialing' = [dialing EXCEPT ![needed] = @ + 1]
    BY <1>3 DEF RefillCounts
  <2>2. needed \in 0..PoolSize
    BY <2>1, LenProperties, PoolAssumption DEF Size, TypeOK
  <2>3. IsFiniteSet(Dialers') /\ Cardinality(Dialers') = Cardinality(Dialers) + 1
    BY <1>1, <1>2, <2>1, <2>2, OneMore
  <2>4. counting' = counting - 1 /\ UNCHANGED <<refilling, closes>>
    BY <1>3 DEF RefillCounts
  <2>5. Refills' = Refills
    BY <1>1, <2>3, <2>4 DEF Refills
  <2> QED
    BY <2>3, <2>4, <2>5 DEF RefillsBounded
<1>4. CASE RefillReleases
  <2>1. 0 \in 0..PoolSize /\ dialing[0] > 0 /\ dialing' = [dialing EXCEPT ![0] = @ - 1]
    BY <1>4, PoolAssumption DEF RefillReleases
  <2>2. IsFiniteSet(Dialers') /\ Cardinality(Dialers) = Cardinality(Dialers') + 1
    BY <1>1, <1>2, <2>1, OneLess
  <2>3. refilling' = FALSE /\ UNCHANGED <<counting, closes>> /\ Cardinality(Dialers') \in Nat
    BY <1>4, <2>2, FS_CardinalityType DEF RefillReleases
  <2>4. Refills <= closes + 1
    BY <1>1 DEF RefillsBounded, Refills
  <2>5. Refills' <= closes
    BY <1>1, <2>2, <2>3, <2>4 DEF Refills
  <2> QED
    BY <2>2, <2>3, <2>5 DEF RefillsBounded
<1>5. ASSUME NEW n \in 1..PoolSize, RefillAppends(n) \/ RefillDialFails(n)
      PROVE  RefillsBounded'
  <2>1. OneAnswered(n) /\ UNCHANGED <<refilling, counting, closes>>
    BY <1>5 DEF RefillAppends, RefillDialFails
  <2>2. IsFiniteSet(Dialers') /\ Cardinality(Dialers') = Cardinality(Dialers)
    BY <1>1, <2>1, AnswerKeeps
  <2> QED
    BY <2>1, <2>2 DEF RefillsBounded, Refills
<1> QED
  BY <1>3, <1>4, <1>5

LEMMA RefillsStep == TypeOK /\ RefillsBounded /\ [Next]_poolVars => RefillsBounded'
<1> SUFFICES ASSUME TypeOK, RefillsBounded, [Next]_poolVars PROVE RefillsBounded'
  OBVIOUS
<1>1. CASE CloseAll
  <2>1. /\ counting \in Nat /\ closes \in Nat /\ Cardinality(Dialers) \in Nat
        /\ Refills \in Nat /\ Refills <= closes + 1
    BY PoolAssumption, FS_CardinalityType DEF TypeOK, RefillsBounded, Refills
  <2>2. refilling' = FALSE /\ closes' = closes + 1 /\ UNCHANGED <<counting, dialing>>
    BY <1>1 DEF CloseAll
  <2>3. Dialers' = Dialers /\ Refills' = Refills
    BY <2>2 DEF Dialers, Refills
  <2> QED
    BY <2>1, <2>2, <2>3 DEF RefillsBounded
<1>2. ASSUME \/ \E c \in Callers : GetMiss(c) \/ GetHit(c) \/ DropSocket(c)
             \/ RotationLooks \/ RotationFilters \/ RotationReleases
             \/ MaintainDrops \/ Warmup \/ SwitchPreconnect \/ UNCHANGED poolVars
             \/ \E s \in Sockets : GoesStale(s)
      PROVE  RefillsBounded'
  <2>1. /\ ScheduleRefill \/ UNCHANGED <<refilling, counting>>
        /\ UNCHANGED <<dialing, closes>>
    BY <1>2 DEF GetMiss, GetHit, DropSocket, RotationLooks, RotationFilters, RotationReleases,
       MaintainDrops, Warmup, SwitchPreconnect, poolVars, GoesStale
  <2> QED
    BY <2>1, ScheduleKeeps
<1> QED
  BY <1>1, <1>2, RefillKeeps DEF Next, Goroutine

LEMMA RotationsStep == TypeOK /\ RotationsBounded /\ [Next]_poolVars => RotationsBounded'
<1> SUFFICES ASSUME TypeOK, RotationsBounded, [Next]_poolVars PROVE RotationsBounded'
  OBVIOUS
<1> DEFINE l == rotation.look
           s == rotation.sleep
           e == rotation.release
<1>1. l \in Nat /\ s \in Nat /\ e \in Nat /\ closes \in Nat /\ Rotations = l + s + e
  BY PoolAssumption DEF TypeOK, Rotations
<1>2. rotation \in RotationPlaces
  BY DEF TypeOK, RotationPlaces
<1>3. ASSUME NEW bucket, ScheduleRotation(bucket), closes' = closes
      PROVE  RotationsBounded'
  <2>1. CASE UNCHANGED <<rotating, rotation>>
    BY <1>3, <2>1 DEF RotationsBounded, Rotations
  <2>2. CASE ~rotating /\ rotating' = TRUE /\ rotation' = [rotation EXCEPT !.look = l + 1]
    <3>1. rotation'.look = l + 1 /\ rotation'.sleep = s /\ rotation'.release = e
      BY <1>2, <2>2 DEF RotationPlaces
    <3>2. Rotations' = Rotations + 1
      BY <1>1, <3>1 DEF Rotations
    <3>3. Rotations <= closes /\ Rotations \in Nat
      BY <1>1, <2>2 DEF RotationsBounded
    <3> QED
      BY <1>1, <1>3, <2>2, <3>2, <3>3 DEF RotationsBounded
  <2> QED
    BY <1>3, <2>1, <2>2 DEF ScheduleRotation
<1>4. CASE RotationLooks \/ RotationFilters
  <2>1. UNCHANGED <<rotating, closes>>
    BY <1>4 DEF RotationLooks, RotationFilters
  <2>2. \/ rotation' = [rotation EXCEPT !.look = l - 1, !.release = e + 1]
        \/ rotation' = [rotation EXCEPT !.look = l - 1, !.sleep = s + 1]
        \/ rotation' = [rotation EXCEPT !.sleep = s - 1, !.release = e + 1]
        \/ rotation' = [rotation EXCEPT !.sleep = s - 1, !.look = l + 1]
    BY <1>4 DEF RotationLooks, RotationFilters
  <2> HIDE DEF l, s, e
  <2>3. Rotations' = l + s + e
    <3>1. \A a, b : /\ [rotation EXCEPT !.look = a, !.release = b].look = a
                    /\ [rotation EXCEPT !.look = a, !.release = b].sleep = s
                    /\ [rotation EXCEPT !.look = a, !.release = b].release = b
                    /\ [rotation EXCEPT !.look = a, !.sleep = b].look = a
                    /\ [rotation EXCEPT !.look = a, !.sleep = b].sleep = b
                    /\ [rotation EXCEPT !.look = a, !.sleep = b].release = e
                    /\ [rotation EXCEPT !.sleep = a, !.release = b].look = l
                    /\ [rotation EXCEPT !.sleep = a, !.release = b].sleep = a
                    /\ [rotation EXCEPT !.sleep = a, !.release = b].release = b
                    /\ [rotation EXCEPT !.sleep = a, !.look = b].look = b
                    /\ [rotation EXCEPT !.sleep = a, !.look = b].sleep = a
                    /\ [rotation EXCEPT !.sleep = a, !.look = b].release = e
      BY <1>2 DEF RotationPlaces, l, s, e
    <3>2. Rotations' = rotation'.look + rotation'.sleep + rotation'.release
      BY DEF Rotations
    <3>3. CASE rotation' = [rotation EXCEPT !.look = l - 1, !.release = e + 1]
      BY <1>1, <3>1, <3>2, <3>3
    <3>4. CASE rotation' = [rotation EXCEPT !.look = l - 1, !.sleep = s + 1]
      BY <1>1, <3>1, <3>2, <3>4
    <3>5. CASE rotation' = [rotation EXCEPT !.sleep = s - 1, !.release = e + 1]
      BY <1>1, <3>1, <3>2, <3>5
    <3>6. CASE rotation' = [rotation EXCEPT !.sleep = s - 1, !.look = l + 1]
      BY <1>1, <3>1, <3>2, <3>6
    <3> QED
      BY <2>2, <3>3, <3>4, <3>5, <3>6
  <2> QED
    BY <1>1, <2>1, <2>3 DEF RotationsBounded
<1>5. CASE RotationReleases
  <2>1. /\ rotating' = FALSE /\ closes' = closes
        /\ rotation' = [rotation EXCEPT !.release = e - 1]
    BY <1>5 DEF RotationReleases
  <2>2. rotation'.look = l /\ rotation'.sleep = s /\ rotation'.release = e - 1
    BY <1>2, <2>1 DEF RotationPlaces
  <2>3. Rotations' = Rotations - 1 /\ Rotations <= closes + 1
    BY <1>1, <2>2 DEF Rotations, RotationsBounded
  <2> QED
    BY <1>1, <2>1, <2>3 DEF RotationsBounded
<1>6. CASE CloseAll
  <2>1. rotating' = FALSE /\ closes' = closes + 1 /\ Rotations' = Rotations
    BY <1>6 DEF CloseAll, Rotations
  <2> QED
    BY <1>1, <2>1 DEF RotationsBounded
<1>7. ASSUME NEW c \in Callers, GetHit(c) PROVE RotationsBounded'
  BY <1>3, <1>7 DEF GetHit
<1>8. ASSUME NEW n, RefillAppends(n) PROVE RotationsBounded'
  BY <1>3, <1>8 DEF RefillAppends
<1>9. ASSUME \/ \E c \in Callers : GetMiss(c) \/ DropSocket(c)
             \/ RefillCounts \/ RefillReleases
             \/ \E n \in 1..PoolSize : RefillDialFails(n)
             \/ MaintainDrops \/ Warmup \/ SwitchPreconnect \/ UNCHANGED poolVars
             \/ \E t \in Sockets : GoesStale(t)
      PROVE  RotationsBounded'
  <2>1. UNCHANGED <<rotating, rotation, closes>>
    BY <1>9 DEF GetMiss, DropSocket, RefillCounts, RefillReleases, RefillDialFails,
       MaintainDrops, Warmup, SwitchPreconnect, poolVars, GoesStale
  <2> QED
    BY <2>1 DEF RotationsBounded, Rotations
<1> QED
  BY <1>4, <1>5, <1>6, <1>7, <1>8, <1>9 DEF Next, Goroutine

-----------------------------------------------------------------------------
(* Theorems about the pool                                                  *)

PoolInv == CountersOK /\ SocketsInv /\ RefillsBounded /\ RotationsBounded

LEMMA PoolInit == InitPool => PoolInv
<1> SUFFICES ASSUME InitPool PROVE PoolInv
  OBVIOUS
<1>1. CountersOK
  <2>1. dialing \in [0..PoolSize -> Nat] /\ closes \in 0..MaxCloses /\ counting \in Nat
    BY PoolAssumption DEF InitPool
  <2>2. rotation \in RotationPlaces
    BY DEF InitPool, RotationPlaces
  <2>3. kind \in {"direct", "worker", "off"} /\ refilling \in BOOLEAN /\ rotating \in BOOLEAN
    BY DEF InitPool
  <2> QED
    BY <2>1, <2>2, <2>3 DEF CountersOK
<1>2. SocketsInv
  BY DEF InitPool, SocketsInv, SocketsOK, HandedOutOnce, InIdle
<1>3. Dialers = {}
  <2>1. \A n \in 0..PoolSize : 1..dialing[n] = {}
    BY DEF InitPool
  <2> QED
    BY <2>1 DEF Dialers
<1>4. RefillsBounded
  BY <1>3, FS_EmptySet DEF InitPool, RefillsBounded, Refills
<1>5. RotationsBounded
  BY DEF InitPool, RotationsBounded, Rotations
<1> QED
  BY <1>1, <1>2, <1>4, <1>5 DEF PoolInv

LEMMA PoolStepKeeps == PoolInv /\ [Next]_poolVars => PoolInv'
<1> SUFFICES ASSUME PoolInv, [Next]_poolVars PROVE PoolInv'
  OBVIOUS
<1>1. TypeOK
  BY TypeParts DEF PoolInv, SocketsInv
<1> QED
  BY <1>1, CountersStep, SocketsStep, RefillsStep, RotationsStep DEF PoolInv

\* The inductive invariant of the pool: its types, the places of its sockets and
\* what its flags say of the goroutines that are at work.
THEOREM PoolInvHolds == Spec => []PoolInv
BY PoolInit, PoolStepKeeps, PTL DEF Spec

\* Every variable of the pool keeps its type; what is stale is in the bucket.
THEOREM PoolTypes == Spec => []TypeOK
<1>1. PoolInv => TypeOK
  BY TypeParts DEF PoolInv, SocketsInv
<1> QED
  BY <1>1, PoolInvHolds, PTL

\* However many sessions take sockets while refills append, rotation and
\* maintenance filter and CloseAll empties the bucket: none has the other's.
THEOREM OnceTheorem == Spec => []HandedOutOnce
<1>1. PoolInv => HandedOutOnce
  BY DEF PoolInv, SocketsInv
<1> QED
  BY <1>1, PoolInvHolds, PTL

\* However often CloseAll forgets goroutines that run, each call leaves at most
\* one refill and one rotation more at work.
THEOREM GoroutinesTheorem == Spec => []GoroutinesBounded
<1>1. PoolInv => GoroutinesBounded
  <2> SUFFICES ASSUME PoolInv PROVE GoroutinesBounded
    OBVIOUS
  <2>1. closes \in Nat /\ Refills <= closes + 1 /\ Refills \in Nat
    <3>1. counting \in Nat /\ Cardinality(Dialers) \in Nat /\ closes \in Nat
      BY PoolAssumption, FS_CardinalityType DEF PoolInv, CountersOK, RefillsBounded
    <3>2. Refills \in Nat
      BY <3>1 DEF Refills
    <3> QED
      BY <3>1, <3>2 DEF PoolInv, RefillsBounded
  <2>2. Rotations <= closes + 1 /\ Rotations \in Nat
    <3>1. Rotations \in Nat
      BY DEF PoolInv, CountersOK, RotationPlaces, Rotations
    <3> QED
      BY <2>1, <3>1 DEF PoolInv, RotationsBounded
  <2> QED
    BY <2>1, <2>2 DEF GoroutinesBounded, Rotations
<1> QED
  BY <1>1, PoolInvHolds, PTL

-----------------------------------------------------------------------------
(* The pool under the proxy                                                 *)

\* Whatever the runs of the proxy do, and however they overlap, they use the pool
\* by its operations only: what is proved of the pool holds of the proxy.
THEOREM ProxyUsesPool == LifeSpec => Spec
<1>1. Init => InitPool
  BY DEF Init
<1>2. [LifeNext]_allVars => [Next]_poolVars
  <2> SUFFICES ASSUME [LifeNext]_allVars PROVE Next \/ UNCHANGED poolVars
    OBVIOUS
  <2>1. CASE StartProxy \/ StopCancels \/ UNCHANGED allVars
    BY <2>1 DEF StartProxy, StopCancels, allVars
  <2>2. CASE StopClosesPool
    BY <2>2 DEF StopClosesPool, Next
  <2>3. ASSUME NEW r \in Runs, MainStep(r) PROVE Next \/ UNCHANGED poolVars
    BY <2>3 DEF MainStep, Serve, ClosesListener, Drained, FinalCloseAll, Next
  <2>4. ASSUME NEW r \in Runs, LoopStep(r) PROVE UNCHANGED poolVars
    BY <2>4 DEF LoopStep, AcceptError, WatchdogListens, WatchdogRestores, WatchdogStopped
  <2>5. ASSUME NEW r \in Runs, MaintainStep(r) PROVE Next \/ UNCHANGED poolVars
    BY <2>5 DEF MaintainStep, MaintainTick, MaintainSchedules, MaintainStops, Next
  <2>6. ASSUME NEW r \in Runs, NEW c \in Callers, Accept(r, c) PROVE UNCHANGED poolVars
    BY <2>6 DEF Accept
  <2>7. ASSUME NEW c \in Callers, SessionConnects(c) \/ SessionEnds(c)
        PROVE  Next \/ UNCHANGED poolVars
    BY <2>7 DEF SessionConnects, SessionEnds, Next
  <2>8. CASE PoolStep
    BY <2>8 DEF PoolStep, Next
  <2> QED
    BY <2>1, <2>2, <2>3, <2>4, <2>5, <2>6, <2>7, <2>8 DEF LifeNext
<1> QED
  BY <1>1, <1>2, PTL DEF LifeSpec, Spec

\* So no two sessions of the proxy, be they of one run or of two, have the same
\* socket, and restarts do not pile up goroutines beyond one each per CloseAll.
THEOREM ProxyPoolSafe == LifeSpec => [](HandedOutOnce /\ GoroutinesBounded)
BY ProxyUsesPool, OnceTheorem, GoroutinesTheorem, PTL
-----------------------------------------------------------------------------
(* A run that is current is bound                                           *)

\* LifeTypeOK as far as the proof needs it.
RunTypes ==
  /\ runs \in 0..MaxRuns
  /\ main \in [Runs -> {"none", "warm", "serve", "drain", "close", "over"}]
  /\ loop \in [Runs -> {"none", "accept", "watchdog", "restore", "ended"}]
  /\ reopened \in [Runs -> Nat]

\* The current run is the latest; later ones have left no trace, and a run that
\* is still warming up accepts nothing.
Latest ==
  /\ current \in {0, runs}
  /\ \A r \in Runs : r > runs => /\ main[r] = "none" /\ loop[r] = "none"
                                 /\ reopened[r] = 0
  /\ \A r \in Runs : main[r] = "warm" => loop[r] = "none"

\* currentListener belongs to the run: it is a variable of runProxy.
Registered ==
  /\ registered \in [Runs -> Runs \X Nat]
  /\ \A r \in Runs : registered[r][1] = r

\* Between Listen and the end of restartListener of the current run.
Restoring ==
  current # 0 /\ loop[current] = "restore" =>
    <<current, reopened[current] + 1>> \in open

LifeInv == RunTypes /\ Latest /\ Registered /\ Restoring /\ RunningIsBound

LEMMA LifeInit == Init => LifeInv
  BY LifecycleAssumption
  DEF Init, LifeInv, RunTypes, Latest, Registered, Restoring, RunningIsBound, Runs

LEMMA LifeIdle ==
  ASSUME LifeInv, UNCHANGED <<current, runs, main, loop, reopened, registered, open>>
  PROVE  LifeInv'
  BY DEF LifeInv, RunTypes, Latest, Registered, Restoring, RunningIsBound, Accepting

LEMMA CurrentIsRun == LifeInv /\ current # 0 => current \in Runs /\ current = runs
  BY LifecycleAssumption DEF LifeInv, RunTypes, Latest, Runs

LEMMA LifeStart == LifeInv /\ StartProxy => LifeInv'
<1> SUFFICES ASSUME LifeInv, StartProxy
             PROVE  LifeInv'
  OBVIOUS
<1> DEFINE r == runs + 1
<1>1. r \in Runs /\ runs \in Nat
  BY LifecycleAssumption DEF LifeInv, RunTypes, StartProxy, Runs
<1>2. loop[r] = "none" /\ reopened[r] = 0
  BY <1>1 DEF LifeInv, Latest
<1>3. RunTypes' /\ Registered'
  BY <1>1 DEF LifeInv, RunTypes, Registered, StartProxy, Runs
<1>4. Latest'
  BY <1>1, <1>2 DEF LifeInv, RunTypes, Latest, StartProxy, Runs
<1>5. Restoring' /\ RunningIsBound'
  BY <1>1, <1>2 DEF Restoring, RunningIsBound, Accepting, StartProxy
<1> QED
  BY <1>3, <1>4, <1>5 DEF LifeInv

LEMMA LifeStop == LifeInv /\ StopCancels => LifeInv'
  BY DEF LifeInv, RunTypes, Latest, Registered, Restoring, RunningIsBound, StopCancels

\* The main goroutine: the end of a run never closes the socket of the next.
LEMMA LifeMain ==
  ASSUME LifeInv, NEW r \in Runs, MainStep(r)
  PROVE  LifeInv'
<1>1. CASE Serve(r)
  <2>1. /\ main[r] = "warm" /\ main' = [main EXCEPT ![r] = "serve"]
        /\ loop' = [loop EXCEPT ![r] = "accept"]
        /\ UNCHANGED <<current, runs, reopened, registered, open>>
    BY <1>1 DEF Serve
  <2>2. loop[r] = "none" /\ ~ (r > runs)
    BY <2>1 DEF LifeInv, Latest
  <2>3. RunTypes' /\ Latest' /\ Registered'
    BY <2>1, <2>2 DEF LifeInv, RunTypes, Latest, Registered
  <2>4. Restoring' /\ RunningIsBound'
    BY <2>1, <2>2, CurrentIsRun
    DEF LifeInv, RunTypes, Restoring, RunningIsBound, Accepting
  <2> QED
    BY <2>3, <2>4 DEF LifeInv
<1>2. CASE ~ Serve(r)
  <2>1. /\ main[r] \notin {"none", "warm"}
        /\ main' = [main EXCEPT ![r] = main'[r]]
        /\ main'[r] \in {"drain", "close", "over"}
        /\ UNCHANGED <<current, runs, loop, reopened, registered>>
    BY <1>2 DEF MainStep, ClosesListener, Drained, FinalCloseAll, LifeInv, RunTypes
  <2>2. open' = open \/ (r # current /\ open' = open \ {registered[r]})
    BY <1>2 DEF MainStep, ClosesListener, Drained, FinalCloseAll, Cancelled
  <2>3. RunTypes' /\ Latest' /\ Registered'
    BY <2>1 DEF LifeInv, RunTypes, Latest, Registered
  <2>4. \A n : r # current => <<current, n>> # registered[r]
    BY DEF LifeInv, Registered
  <2>5. Restoring' /\ RunningIsBound'
    BY <2>1, <2>2, <2>4 DEF LifeInv, Restoring, RunningIsBound, Accepting
  <2> QED
    BY <2>3, <2>5 DEF LifeInv
<1> QED
  BY <1>1, <1>2

\* The accept loop and its watchdog.  The watchdog of an earlier run takes the
\* port only when nobody has it.
LEMMA LifeLoop ==
  ASSUME LifeInv, NEW r \in Runs, LoopStep(r)
  PROVE  LifeInv'
<1>0. current # 0 => current \in Runs
  BY CurrentIsRun
<1>1. /\ loop[r] \notin {"none", "ended"}
      /\ loop' = [loop EXCEPT ![r] = loop'[r]]
      /\ loop'[r] \in {"accept", "watchdog", "restore", "ended"}
      /\ UNCHANGED <<current, runs, main>>
  BY DEF LoopStep, AcceptError, WatchdogListens, WatchdogRestores, WatchdogStopped, LifeInv,
     RunTypes
<1>2. \/ UNCHANGED <<reopened, registered>>
      \/ /\ reopened' = [reopened EXCEPT ![r] = @ + 1]
         /\ registered' = [registered EXCEPT ![r] = <<r, reopened[r] + 1>>]
  BY DEF LoopStep, AcceptError, WatchdogListens, WatchdogRestores, WatchdogStopped
<1>3. ~ (r > runs) /\ main[r] # "warm"
  BY <1>1 DEF LifeInv, Latest
<1>4. RunTypes'
  BY <1>1, <1>2 DEF LifeInv, RunTypes
<1>5. Latest'
  BY <1>1, <1>2, <1>3 DEF LifeInv, RunTypes, Latest
<1>6. Registered'
  BY <1>2 DEF LifeInv, RunTypes, Registered
<1>7. Restoring' /\ RunningIsBound'
  <2>1. CASE AcceptError(r)
    <3>1. UNCHANGED <<current, reopened>>
      BY <2>1 DEF AcceptError
    <3>2. CASE r = current
      BY <1>0, <2>1, <3>1, <3>2
      DEF AcceptError, Cancelled, LifeInv, RunTypes, Restoring, RunningIsBound
    <3>3. CASE r # current
      BY <1>0, <2>1, <3>1, <3>3
      DEF AcceptError, Cancelled, LifeInv, RunTypes, Restoring, RunningIsBound, Accepting
    <3> QED
      BY <3>2, <3>3
  <2>2. CASE WatchdogListens(r)
    <3>1. open = {} /\ loop' = [loop EXCEPT ![r] = "restore"]
      BY <2>2 DEF WatchdogListens, PortFree
    <3>2. UNCHANGED <<current, reopened>> /\ open' = {<<r, reopened[r] + 1>>}
      BY <2>2 DEF WatchdogListens
    <3>3. current # 0 => loop[current] = "watchdog"
      BY <3>1 DEF LifeInv, RunningIsBound, Restoring
    <3> QED
      BY <1>0, <3>1, <3>2, <3>3 DEF LifeInv, RunTypes, Restoring, RunningIsBound
  <2>3. CASE WatchdogRestores(r)
    BY <1>0, <2>3 DEF WatchdogRestores, LifeInv, RunTypes, Restoring, RunningIsBound,
       Accepting
  <2>4. CASE WatchdogStopped(r)
    BY <1>0, <2>4 DEF WatchdogStopped, Cancelled, LifeInv, RunTypes, Restoring,
       RunningIsBound, Accepting
  <2> QED
    BY <2>1, <2>2, <2>3, <2>4 DEF LoopStep
<1> QED
  BY <1>4, <1>5, <1>6, <1>7 DEF LifeInv

\* What the theorem rests on, kept by every step.
THEOREM InvHolds == LifeSpec => []LifeInv
<1>1. LifeInv /\ [LifeNext]_allVars => LifeInv'
  <2> SUFFICES ASSUME LifeInv, [LifeNext]_allVars
               PROVE  LifeInv'
    OBVIOUS
  <2>1. CASE StartProxy \/ StopCancels
    BY <2>1, LifeStart, LifeStop
  <2>2. CASE StopClosesPool
    BY <2>2, LifeIdle DEF StopClosesPool
  <2>3. ASSUME NEW r \in Runs, MainStep(r) \/ LoopStep(r)
        PROVE  LifeInv'
    BY <2>3, LifeMain, LifeLoop
  <2>4. ASSUME NEW r \in Runs, MaintainStep(r)
        PROVE  LifeInv'
    BY <2>4, LifeIdle DEF MaintainStep, MaintainTick, MaintainSchedules, MaintainStops
  <2>5. ASSUME NEW r \in Runs, NEW c \in Callers, Accept(r, c)
        PROVE  LifeInv'
    BY <2>5, LifeIdle DEF Accept
  <2>6. ASSUME NEW c \in Callers, SessionConnects(c) \/ SessionEnds(c)
        PROVE  LifeInv'
    BY <2>6, LifeIdle DEF SessionConnects, SessionEnds
  <2>7. CASE PoolStep
    BY <2>7, LifeIdle DEF PoolStep, lifeVars
  <2>8. CASE UNCHANGED allVars
    BY <2>8, LifeIdle DEF allVars, lifeVars
  <2> QED
    BY <2>1, <2>2, <2>3, <2>4, <2>5, <2>6, <2>7, <2>8 DEF LifeNext
<1> QED
  BY <1>1, LifeInit, PTL DEF LifeSpec

\* While a run is current its socket is open or its watchdog is about to open it
\* again, whatever runs that were stopped still do.
THEOREM BoundTheorem == LifeSpec => []RunningIsBound
<1>1. LifeInv => RunningIsBound
  BY DEF LifeInv
<1> QED
  BY <1>1, InvHolds, PTL

-----------------------------------------------------------------------------
(* The types of the runs.  A watchdog that opens the port again answers an  *)
(* accept failure of its own, so that the failures bound the listeners.     *)

ListenersCounted ==
  \A r \in Runs : /\ reopened[r] <= errors
                  /\ loop[r] \in {"watchdog", "restore"} => reopened[r] + 1 <= errors

\* What LifeTypeOK adds to RunTypes.
RestTypes ==
  /\ current \in 0..MaxRuns
  /\ stopping \in BOOLEAN
  /\ registered \in [Runs -> Listeners]
  /\ open \subseteq Listeners
  /\ maintain \in [Runs -> {"none", "wait", "schedule", "ended"}]
  /\ session \in [Callers -> {"none", "handshake", "bridge", "done"}]
  /\ runOf \in [Callers -> 0..MaxRuns]
  /\ errors \in 0..MaxAcceptErrors

TypesInv == ListenersCounted /\ RestTypes

LEMMA TypesInit == Init => TypesInv
<1> SUFFICES ASSUME Init PROVE TypesInv
  OBVIOUS
<1>0. 0 \in 0..MaxAcceptErrors /\ 0 \in 0..MaxRuns
  BY LifecycleAssumption
<1>1. ListenersCounted
  BY DEF Init, ListenersCounted
<1>2. registered \in [Runs -> Listeners]
  <2>1. \A r \in Runs : <<r, 0>> \in Listeners
    BY <1>0 DEF Listeners
  <2> QED
    BY <2>1 DEF Init
<1>3. RestTypes
  BY <1>0, <1>2 DEF Init, RestTypes
<1> QED
  BY <1>1, <1>3 DEF TypesInv

\* The steps that touch no listener.
LEMMA TypesIdle ==
  ASSUME TypesInv, UNCHANGED <<reopened, registered, open, errors>>,
         \A r \in Runs : loop'[r] \in {"watchdog", "restore"} => loop[r] = loop'[r],
         current' \in 0..MaxRuns, stopping' \in BOOLEAN,
         maintain' \in [Runs -> {"none", "wait", "schedule", "ended"}],
         session' \in [Callers -> {"none", "handshake", "bridge", "done"}],
         runOf' \in [Callers -> 0..MaxRuns]
  PROVE  TypesInv'
BY DEF TypesInv, ListenersCounted, RestTypes

LEMMA TypesMain ==
  ASSUME LifeInv, TypesInv, NEW r \in Runs, MainStep(r)
  PROVE  TypesInv'
<1>1. UNCHANGED <<current, stopping, reopened, registered, session, runOf, errors>>
  BY DEF MainStep, Serve, ClosesListener, Drained, FinalCloseAll
<1>2. open' \subseteq open
  BY DEF MainStep, Serve, ClosesListener, Drained, FinalCloseAll
<1>3. maintain' = maintain \/ maintain' = [maintain EXCEPT ![r] = "wait"]
  BY DEF MainStep, Serve, ClosesListener, Drained, FinalCloseAll
<1>4. loop' = loop \/ loop' = [loop EXCEPT ![r] = "accept"]
  BY DEF MainStep, Serve, ClosesListener, Drained, FinalCloseAll
<1>5. ListenersCounted'
  BY <1>1, <1>4 DEF TypesInv, ListenersCounted, LifeInv, RunTypes
<1>6. RestTypes'
  BY <1>1, <1>2, <1>3 DEF TypesInv, RestTypes
<1> QED
  BY <1>5, <1>6 DEF TypesInv

LEMMA TypesLoop ==
  ASSUME LifeInv, TypesInv, NEW r \in Runs, LoopStep(r)
  PROVE  TypesInv'
<1>0. /\ loop \in [Runs -> {"none", "accept", "watchdog", "restore", "ended"}]
      /\ reopened \in [Runs -> Nat] /\ errors \in Nat /\ MaxAcceptErrors \in Nat
      /\ errors <= MaxAcceptErrors
  BY LifecycleAssumption DEF LifeInv, RunTypes, TypesInv, RestTypes
<1>1. UNCHANGED <<current, stopping, maintain, session, runOf>>
  BY DEF LoopStep, AcceptError, WatchdogListens, WatchdogRestores, WatchdogStopped
<1>2. CASE AcceptError(r)
  <2>1. /\ errors' \in 0..MaxAcceptErrors /\ errors' >= errors
        /\ UNCHANGED <<reopened, registered>> /\ open' \subseteq open
    BY <1>0, <1>2 DEF AcceptError
  <2>2. loop' = [loop EXCEPT ![r] = "ended"] \/ loop' = [loop EXCEPT ![r] = "watchdog"]
    BY <1>2 DEF AcceptError
  <2>3. ASSUME loop'[r] = "watchdog" PROVE errors' = errors + 1
    <3>1. r = current /\ loop[r] = "accept"
      BY <1>0, <1>2, <2>3 DEF AcceptError, Cancelled
    <3>2. r # 0
      BY LifecycleAssumption DEF Runs
    <3>3. Accepting(r) \in open
      BY <3>1, <3>2 DEF LifeInv, RunningIsBound
    <3> QED
      BY <1>2, <3>3 DEF AcceptError
  <2>4. ListenersCounted'
    BY <1>0, <2>1, <2>2, <2>3 DEF TypesInv, ListenersCounted
  <2>5. RestTypes'
    BY <1>1, <2>1 DEF TypesInv, RestTypes
  <2> QED
    BY <2>4, <2>5 DEF TypesInv
<1>3. CASE WatchdogListens(r)
  <2>1. /\ loop[r] = "watchdog" /\ loop' = [loop EXCEPT ![r] = "restore"]
        /\ open' = {<<r, reopened[r] + 1>>} /\ UNCHANGED <<reopened, registered, errors>>
    BY <1>3 DEF WatchdogListens
  <2>2. reopened[r] + 1 \in 0..MaxAcceptErrors
    BY <1>0, <2>1 DEF TypesInv, ListenersCounted
  <2>3. ListenersCounted'
    BY <1>0, <2>1 DEF TypesInv, ListenersCounted
  <2>4. RestTypes'
    BY <1>1, <2>1, <2>2 DEF TypesInv, RestTypes, Listeners
  <2> QED
    BY <2>3, <2>4 DEF TypesInv
<1>4. CASE WatchdogRestores(r)
  <2>1. /\ loop[r] = "restore" /\ loop' = [loop EXCEPT ![r] = "accept"]
        /\ reopened' = [reopened EXCEPT ![r] = @ + 1]
        /\ registered' = [registered EXCEPT ![r] = <<r, reopened[r] + 1>>]
        /\ UNCHANGED <<open, errors>>
    BY <1>4 DEF WatchdogRestores
  <2>2. reopened[r] + 1 \in 0..MaxAcceptErrors /\ reopened[r] + 1 <= errors
    BY <1>0, <2>1 DEF TypesInv, ListenersCounted
  <2>3. ListenersCounted'
    BY <1>0, <2>1, <2>2 DEF TypesInv, ListenersCounted
  <2>4. <<r, reopened[r] + 1>> \in Listeners
    BY <2>2 DEF Listeners
  <2>5. RestTypes'
    BY <1>1, <2>1, <2>4 DEF TypesInv, RestTypes
  <2> QED
    BY <2>3, <2>5 DEF TypesInv
<1>5. CASE WatchdogStopped(r)
  <2>1. loop' = [loop EXCEPT ![r] = "ended"] /\ UNCHANGED <<reopened, registered, open, errors>>
    BY <1>5 DEF WatchdogStopped
  <2>2. ListenersCounted'
    BY <1>0, <2>1 DEF TypesInv, ListenersCounted
  <2>3. RestTypes'
    BY <1>1, <2>1 DEF TypesInv, RestTypes
  <2> QED
    BY <2>2, <2>3 DEF TypesInv
<1> QED
  BY <1>2, <1>3, <1>4, <1>5 DEF LoopStep

LEMMA TypesStep == LifeInv /\ TypesInv /\ [LifeNext]_allVars => TypesInv'
<1> SUFFICES ASSUME LifeInv, TypesInv, [LifeNext]_allVars PROVE TypesInv'
  OBVIOUS
<1>1. CASE StartProxy
  <2>1. runs + 1 \in Runs /\ runs + 1 \in 0..MaxRuns /\ 0 \in 0..MaxAcceptErrors
    BY <1>1, LifecycleAssumption DEF StartProxy, LifeInv, RunTypes, Runs
  <2>2. RestTypes'
    BY <1>1, <2>1 DEF StartProxy, TypesInv, RestTypes, Listeners
  <2>3. ListenersCounted'
    BY <1>1 DEF StartProxy, TypesInv, ListenersCounted
  <2> QED
    BY <2>2, <2>3 DEF TypesInv
<1>2. CASE StopCancels \/ StopClosesPool \/ PoolStep \/ UNCHANGED allVars
  <2>1. /\ UNCHANGED <<loop, reopened, registered, open, errors, maintain, session, runOf>>
        /\ current' \in {current, 0}
    BY <1>2 DEF StopCancels, StopClosesPool, PoolStep, allVars, lifeVars
  <2>2. current' \in 0..MaxRuns
    BY <2>1, LifecycleAssumption DEF TypesInv, RestTypes
  <2>3. stopping' \in BOOLEAN
    BY <1>2 DEF StopCancels, StopClosesPool, PoolStep, allVars, lifeVars, TypesInv, RestTypes
  <2> QED
    BY <2>1, <2>2, <2>3, TypesIdle DEF TypesInv, RestTypes
<1>3. ASSUME NEW r \in Runs, MaintainStep(r) PROVE TypesInv'
  <2>1. /\ UNCHANGED <<current, stopping, loop, reopened, registered, open, errors, session, runOf>>
        /\ \E place \in {"wait", "schedule", "ended"} : maintain' = [maintain EXCEPT ![r] = place]
    BY <1>3 DEF MaintainStep, MaintainTick, MaintainSchedules, MaintainStops
  <2>2. maintain' \in [Runs -> {"none", "wait", "schedule", "ended"}]
    BY <2>1 DEF TypesInv, RestTypes
  <2> QED
    BY <2>1, <2>2, TypesIdle DEF TypesInv, RestTypes
<1>4. ASSUME NEW r \in Runs, NEW c \in Callers, Accept(r, c) PROVE TypesInv'
  <2>1. r \in 0..MaxRuns
    BY LifecycleAssumption DEF Runs
  <2>2. /\ session' \in [Callers -> {"none", "handshake", "bridge", "done"}]
        /\ runOf' \in [Callers -> 0..MaxRuns]
    BY <1>4, <2>1 DEF Accept, TypesInv, RestTypes
  <2>3. UNCHANGED <<current, stopping, loop, reopened, registered, open, errors, maintain>>
    BY <1>4 DEF Accept
  <2> QED
    BY <2>2, <2>3, TypesIdle DEF TypesInv, RestTypes
<1>5. ASSUME NEW c \in Callers, SessionConnects(c) \/ SessionEnds(c) PROVE TypesInv'
  <2>1. session' \in [Callers -> {"none", "handshake", "bridge", "done"}]
    BY <1>5 DEF SessionConnects, SessionEnds, TypesInv, RestTypes
  <2>2. UNCHANGED <<current, stopping, loop, reopened, registered, open, errors, maintain, runOf>>
    BY <1>5 DEF SessionConnects, SessionEnds
  <2> QED
    BY <2>1, <2>2, TypesIdle DEF TypesInv, RestTypes
<1> QED
  BY <1>1, <1>2, <1>3, <1>4, <1>5, TypesMain, TypesLoop DEF LifeNext

\* Every variable of the proxy and of its pool keeps its type; in particular no
\* watchdog opens the port more often than its listener failed.
THEOREM LifeTypes == LifeSpec => []LifeTypeOK
<1>1. LifeInv /\ TypesInv /\ TypeOK => LifeTypeOK
  <2> SUFFICES ASSUME LifeInv, TypesInv, TypeOK PROVE LifeTypeOK
    OBVIOUS
  <2>1. reopened \in [Runs -> 0..MaxAcceptErrors]
    <3>1. \A r \in Runs : reopened[r] \in 0..MaxAcceptErrors
      BY LifecycleAssumption DEF LifeInv, RunTypes, TypesInv, RestTypes, ListenersCounted
    <3> QED
      BY <3>1 DEF LifeInv, RunTypes
  <2> QED
    BY <2>1 DEF LifeInv, RunTypes, TypesInv, RestTypes, LifeTypeOK
<1> QED
  BY <1>1, TypesInit, TypesStep, InvHolds, PoolTypes, ProxyUsesPool, PTL DEF LifeSpec

-----------------------------------------------------------------------------
(* The bound on CloseAll.  Each run owes the pool two of them, StopProxy's  *)
(* and that at the end of runProxy.                                         *)

Over == {r \in Runs : main[r] = "over"}
One(condition) == IF condition THEN 1 ELSE 0

ClosesBalance ==
  /\ ~ (stopping /\ current # 0)   \* StopProxy holds globalMu
  /\ closes + One(current # 0) + One(stopping) = runs + Cardinality(Over)

\* The bound hides no behaviour: a goroutine that is about to call CloseAll can.
CloseAllNeverBlocked ==
  (stopping \/ \E r \in Runs : main[r] = "close") => closes < MaxCloses

\* Only a run that was started is over, so that there are finitely many.
LEMMA OverCounted ==
  ASSUME LifeInv
  PROVE  /\ runs \in Nat /\ IsFiniteSet(Over)
         /\ Cardinality(Over) \in Nat /\ Cardinality(Over) <= runs
         /\ (\E r \in Runs : main[r] = "close") => Cardinality(Over) + 1 <= runs
<1>1. runs \in Nat /\ IsFiniteSet(1..runs) /\ Cardinality(1..runs) = runs
  <2>1. runs \in Nat
    BY LifecycleAssumption DEF LifeInv, RunTypes
  <2>2. 1 \in Int /\ runs \in Int /\ (1 > runs => runs = 0)
    BY <2>1
  <2> QED
    BY <2>1, <2>2, FS_Interval
<1>2. \A r \in Runs : main[r] # "none" => r \in 1..runs
  BY <1>1, LifecycleAssumption DEF LifeInv, Latest, Runs
<1>3. Over \subseteq 1..runs
  BY <1>2 DEF Over
<1>4. IsFiniteSet(Over) /\ Cardinality(Over) \in Nat /\ Cardinality(Over) <= runs
  BY <1>1, <1>3, FS_Subset, FS_CardinalityType
<1>5. ASSUME NEW r \in Runs, main[r] = "close" PROVE Cardinality(Over) + 1 <= runs
  <2>1. Over \cup {r} \subseteq 1..runs /\ r \notin Over
    BY <1>2, <1>3, <1>5 DEF Over
  <2>2. Cardinality(Over \cup {r}) = Cardinality(Over) + 1
    BY <1>4, <2>1, FS_AddElement
  <2>3. Cardinality(Over \cup {r}) <= runs
    BY <1>1, <2>1, FS_Subset
  <2> QED
    BY <2>2, <2>3
<1> QED
  BY <1>1, <1>4, <1>5

LEMMA ClosesInit == Init => ClosesBalance
<1> SUFFICES ASSUME Init PROVE ClosesBalance
  OBVIOUS
<1>1. Over = {}
  BY DEF Init, Over
<1>2. Cardinality(Over) = 0
  BY <1>1, FS_EmptySet
<1> QED
  BY <1>2 DEF Init, InitPool, ClosesBalance, One

\* The steps that call no CloseAll, start no run and stop none.
LEMMA ClosesIdle ==
  ASSUME ClosesBalance, UNCHANGED <<closes, current, stopping, runs>>,
         \A r \in Runs : main'[r] = "over" <=> main[r] = "over"
  PROVE  ClosesBalance'
<1>1. Over' = Over
  BY DEF Over
<1> QED
  BY <1>1 DEF ClosesBalance

LEMMA ClosesMain ==
  ASSUME LifeInv, TypesInv, CountersOK, ClosesBalance, NEW r \in Runs, MainStep(r)
  PROVE  ClosesBalance'
<1>1. CASE FinalCloseAll(r)
  <2>1. /\ closes' = closes + 1 /\ UNCHANGED <<current, stopping, runs>>
        /\ main[r] = "close" /\ main' = [main EXCEPT ![r] = "over"]
    BY <1>1 DEF FinalCloseAll, CloseAll
  <2>2. Over' = Over \cup {r} /\ r \notin Over
    BY <2>1 DEF LifeInv, RunTypes, Over
  <2>3. Cardinality(Over') = Cardinality(Over) + 1 /\ Cardinality(Over) \in Nat
    BY <2>2, OverCounted, FS_AddElement
  <2>4. closes \in Nat /\ runs \in Nat
    BY OverCounted, PoolAssumption DEF CountersOK
  <2>5. One(current' # 0) = One(current # 0) /\ One(stopping') = One(stopping)
    BY <2>1
  <2>6. One(current # 0) \in Nat /\ One(stopping) \in Nat
    BY DEF One
  <2> QED
    BY <2>1, <2>3, <2>4, <2>5, <2>6 DEF ClosesBalance
<1>2. CASE Serve(r) \/ ClosesListener(r) \/ Drained(r)
  <2>1. UNCHANGED <<closes, current, stopping, runs>>
    BY <1>2 DEF Serve, Warmup, ClosesListener, Drained, poolVars
  <2>2. /\ main[r] \in {"warm", "serve", "drain"}
        /\ \E place \in {"serve", "drain", "close"} : main' = [main EXCEPT ![r] = place]
    BY <1>2 DEF Serve, ClosesListener, Drained
  <2>3. \A x \in Runs : main'[x] = "over" <=> main[x] = "over"
    BY <2>2 DEF LifeInv, RunTypes
  <2> QED
    BY <2>1, <2>3, ClosesIdle
<1> QED
  BY <1>1, <1>2 DEF MainStep

\* The pool's own goroutines never call CloseAll.
LEMMA ClosesElsewhere ==
  ASSUME [LifeNext]_allVars,
         ~ StartProxy, ~ StopCancels, ~ StopClosesPool, \A r \in Runs : ~ MainStep(r)
  PROVE  UNCHANGED <<closes, current, stopping, runs, main>>
<1>1. ASSUME NEW r \in Runs, LoopStep(r)
      PROVE  UNCHANGED <<closes, current, stopping, runs, main>>
  BY <1>1 DEF LoopStep, AcceptError, WatchdogListens, WatchdogRestores, WatchdogStopped, poolVars
<1>2. ASSUME NEW r \in Runs, MaintainStep(r)
      PROVE  UNCHANGED <<closes, current, stopping, runs, main>>
  BY <1>2 DEF MaintainStep, MaintainTick, MaintainSchedules, MaintainStops, MaintainDrops,
     Warmup, poolVars
<1>3. ASSUME NEW r \in Runs, NEW c \in Callers, Accept(r, c)
      PROVE  UNCHANGED <<closes, current, stopping, runs, main>>
  BY <1>3 DEF Accept, poolVars
<1>4. ASSUME NEW c \in Callers, SessionConnects(c) \/ SessionEnds(c)
      PROVE  UNCHANGED <<closes, current, stopping, runs, main>>
  BY <1>4 DEF SessionConnects, SessionEnds, GetHit, GetMiss, DropSocket, poolVars
<1>5. ASSUME PoolStep PROVE UNCHANGED <<closes, current, stopping, runs, main>>
  BY <1>5 DEF PoolStep, Goroutine, RefillCounts, RefillAppends, RefillDialFails, RefillReleases,
     RotationLooks, RotationFilters, RotationReleases, GoesStale, lifeVars
<1>6. ASSUME UNCHANGED allVars PROVE UNCHANGED <<closes, current, stopping, runs, main>>
  BY <1>6 DEF allVars, lifeVars, poolVars
<1> QED
  BY <1>1, <1>2, <1>3, <1>4, <1>5, <1>6 DEF LifeNext

LEMMA ClosesStep ==
  ASSUME LifeInv, TypesInv, CountersOK, ClosesBalance, [LifeNext]_allVars
  PROVE  ClosesBalance'
<1>0. /\ closes \in Nat /\ runs \in Nat /\ Cardinality(Over) \in Nat
      /\ One(current # 0) \in Nat /\ One(stopping) \in Nat
  BY OverCounted, PoolAssumption DEF CountersOK, One
<1>1. CASE StartProxy
  <2>1. /\ UNCHANGED <<closes, stopping>> /\ current = 0 /\ current' # 0 /\ runs' = runs + 1
        /\ main' = [main EXCEPT ![runs + 1] = "warm"] /\ runs + 1 \in Runs /\ ~ stopping
    BY <1>0, <1>1, LifecycleAssumption DEF StartProxy, poolVars, Runs
  <2>2. main[runs + 1] = "none"
    BY <1>0, <2>1 DEF LifeInv, Latest
  <2>3. Over' = Over
    BY <2>1, <2>2 DEF LifeInv, RunTypes, Over
  <2>4. One(current # 0) = 0 /\ One(current' # 0) = 1 /\ One(stopping') = One(stopping)
    BY <2>1 DEF One
  <2>5. Cardinality(Over') = Cardinality(Over)
    BY <2>3
  <2> QED
    BY <1>0, <2>1, <2>4, <2>5 DEF ClosesBalance
<1>2. CASE StopCancels
  <2>1. /\ UNCHANGED <<closes, runs, main>> /\ current # 0 /\ current' = 0 /\ stopping' = TRUE
    BY <1>2 DEF StopCancels, poolVars
  <2>2. stopping = FALSE
    BY <2>1 DEF ClosesBalance, TypesInv, RestTypes
  <2>3. Over' = Over
    BY <2>1 DEF Over
  <2>4. /\ One(stopping) = 0 /\ One(stopping') = 1
        /\ One(current # 0) = 1 /\ One(current' # 0) = 0
    BY <2>1, <2>2 DEF One
  <2>5. Cardinality(Over') = Cardinality(Over)
    BY <2>3
  <2> QED
    BY <1>0, <2>1, <2>4, <2>5 DEF ClosesBalance
<1>3. CASE StopClosesPool
  <2>1. /\ closes' = closes + 1 /\ UNCHANGED <<current, runs, main>>
        /\ stopping = TRUE /\ stopping' = FALSE
    BY <1>3 DEF StopClosesPool, CloseAll, TypesInv, RestTypes
  <2>2. Over' = Over
    BY <2>1 DEF Over
  <2>3. One(stopping) = 1 /\ One(stopping') = 0 /\ One(current' # 0) = One(current # 0)
    BY <2>1 DEF One
  <2>4. Cardinality(Over') = Cardinality(Over)
    BY <2>2
  <2> QED
    BY <1>0, <2>1, <2>3, <2>4 DEF ClosesBalance
<1>4. ASSUME NEW r \in Runs, MainStep(r) PROVE ClosesBalance'
  BY <1>4, ClosesMain
<1>5. CASE ~ StartProxy /\ ~ StopCancels /\ ~ StopClosesPool /\ \A r \in Runs : ~ MainStep(r)
  BY <1>5, ClosesElsewhere, ClosesIdle
<1> QED
  BY <1>1, <1>2, <1>3, <1>4, <1>5

\* Every CloseAll of StopProxy and of runProxy is within the bound MaxCloses, so
\* that no behaviour of the proxy is lost to it.
THEOREM ClosesTheorem == LifeSpec => []CloseAllNeverBlocked
<1>1. LifeInv /\ CountersOK /\ TypesInv /\ ClosesBalance => CloseAllNeverBlocked
  <2> SUFFICES ASSUME LifeInv, CountersOK, TypesInv, ClosesBalance,
                      stopping \/ \E r \in Runs : main[r] = "close"
               PROVE  closes < MaxCloses
    BY DEF CloseAllNeverBlocked
  <2>1. /\ closes \in Nat /\ runs \in Nat /\ runs <= MaxRuns /\ MaxRuns \in Nat
        /\ MaxCloses \in Nat /\ MaxCloses >= 2 * MaxRuns
    BY OverCounted, PoolAssumption, LifecycleAssumption DEF CountersOK, LifeInv, RunTypes
  <2>2. One(current # 0) \in Nat /\ One(stopping) \in Nat
    BY DEF One
  <2>3. Cardinality(Over) \in Nat /\ Cardinality(Over) <= runs
    BY OverCounted
  <2>4. closes + 1 <= 2 * runs
    <3>1. CASE stopping
      <4>1. One(stopping) = 1
        BY <3>1 DEF One
      <4> QED
        BY <2>1, <2>2, <2>3, <4>1 DEF ClosesBalance
    <3>2. CASE \E r \in Runs : main[r] = "close"
      <4>1. Cardinality(Over) + 1 <= runs
        BY <3>2, OverCounted
      <4> QED
        BY <2>1, <2>2, <2>3, <4>1 DEF ClosesBalance
    <3> QED
      BY <3>1, <3>2
  <2> QED
    BY <2>1, <2>4
<1>2. LifeSpec => []CountersOK
  <2>1. PoolInv => CountersOK
    BY DEF PoolInv
  <2> QED
    BY <2>1, PoolInvHolds, ProxyUsesPool, PTL
<1>3. LifeInv /\ TypesInv /\ CountersOK /\ ClosesBalance /\ [LifeNext]_allVars => ClosesBalance'
  BY ClosesStep
<1>4. LifeSpec => []TypesInv
  BY TypesInit, TypesStep, InvHolds, PTL DEF LifeSpec
<1> QED
  BY <1>1, <1>2, <1>3, <1>4, ClosesInit, InvHolds, PTL DEF LifeSpec

=============================================================================
