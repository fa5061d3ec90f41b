--------------------------- MODULE RoutesProofs ---------------------------
(***************************************************************************)
(* Proofs about Routes for every set of settings and policies, any number  *)
(* of clients and every bound.                                             *)
(*                                                                         *)
(* What a session dials is decided by the settings at its last look at     *)
(* them (Asked).  The plans are lists of routes that filters and orders    *)
(* make (KeepSet, WorkerFilter, AdaptiveRoutesPlan); what matters of them  *)
(* is the set of their routes.  While the settings stay, a session goes by *)
(* those in force (SeesSettings), keeps to the one route of a restricted   *)
(* mode (OnlyItsRoute), and leaves no open route out of what it has dialed *)
(* or has still to try (ReachesOpen) before its chain is over (Exhausted). *)
(***************************************************************************)
EXTENDS Routes, WellFoundedInduction, SequenceTheorems, FiniteSetTheorems, TLAPS

-----------------------------------------------------------------------------
(* Filters.  The library's induction theorems take a predicate, which the  *)
(* provers cannot supply; a set of numbers serves as well.                 *)

LEMMA SetInduction ==
  ASSUME NEW T, 0 \in T, \A n \in Nat : n \in T => n + 1 \in T
  PROVE  Nat \subseteq T
<1> SUFFICES ASSUME Nat \ T # {} PROVE FALSE
  OBVIOUS
<1>1. PICK m \in Nat \ T : \A n \in Nat \ T : <<n, m>> \notin OpToRel(<, Nat)
  BY NatLessThanWellFounded, WFMin
<1>2. m # 0 /\ m - 1 \in Nat /\ (m - 1) + 1 = m
  OBVIOUS
<1>3. m - 1 \in Nat \ T
  BY <1>2
<1>4. <<m - 1, m>> \in OpToRel(<, Nat)
  BY <1>2 DEF OpToRel
<1> QED
  BY <1>1, <1>3, <1>4

\* There is a function that satisfies the equations of Keep's recursion, so that
\* Keep does.
LEMMA KeepDefined ==
  ASSUME NEW A, NEW seq \in Seq(A), NEW S
  PROVE  \E f : /\ f[0] = << >>
                /\ \A n \in 1..Len(seq) :
                     f[n] = IF seq[n] \in S THEN Append(f[n - 1], seq[n]) ELSE f[n - 1]
                /\ Keep(seq, S) = f[Len(seq)]
<1> DEFINE Looks(f, n) == IF seq[n] \in S THEN Append(f[n - 1], seq[n]) ELSE f[n - 1]
           Upto(f, n) == f = [k \in 0..n |-> IF k = 0 THEN << >> ELSE Looks(f, k)]
           T == {n \in Nat : \E f : Upto(f, n)}
           F == CHOOSE f : Upto(f, Len(seq))
<1>1. 0 \in T
  <2>1. Upto([k \in 0..0 |-> << >>], 0)
    OBVIOUS
  <2> QED
    BY <2>1
<1>2. ASSUME NEW n \in Nat, n \in T PROVE n + 1 \in T
  <2>1. PICK f : Upto(f, n)
    BY <1>2
  <2> DEFINE g == [k \in 0..(n + 1) |-> IF k = n + 1 THEN Looks(f, k) ELSE f[k]]
  <2>2. \A k \in 0..n : f[k] = IF k = 0 THEN << >> ELSE Looks(f, k)
    <3> HIDE DEF Looks
    <3> QED
      BY <2>1
  <2>3. \A k \in 0..(n + 1) : g[k] = IF k = 0 THEN << >> ELSE Looks(f, k)
    <3> HIDE DEF Looks
    <3> QED
      BY <2>2
  <2>4. \A k \in 1..(n + 1) : g[k - 1] = f[k - 1]
    OBVIOUS
  <2>5. DOMAIN g = 0..(n + 1) /\ g = [k \in 0..(n + 1) |-> g[k]]
    OBVIOUS
  <2> HIDE DEF g
  <2>6. \A k \in 0..(n + 1) : g[k] = IF k = 0 THEN << >> ELSE Looks(g, k)
    BY <2>3, <2>4
  <2>7. Upto(g, n + 1)
    BY <2>5, <2>6
  <2> QED
    BY <2>7
<1>3. \E f : Upto(f, Len(seq))
  <2>1. Nat \subseteq T
    <3> HIDE DEF T
    <3> QED
      BY <1>1, <1>2, SetInduction
  <2> QED
    BY <2>1, LenProperties
<1>4. Upto(F, Len(seq))
  BY <1>3
<1>5. Keep(seq, S) = F[Len(seq)]
  BY DEF Keep
<1>6. \A n \in 0..Len(seq) : F[n] = IF n = 0 THEN << >> ELSE Looks(F, n)
  <2> HIDE DEF Looks, F
  <2> QED
    BY <1>4
<1>7. F[0] = << >> /\ \A n \in 1..Len(seq) : F[n] = Looks(F, n)
  <2> HIDE DEF Looks, F
  <2> QED
    BY <1>6, LenProperties
<1> HIDE DEF F
<1> QED
  BY <1>5, <1>7

\* What Keep returns: the elements of seq that are in S, each as often as before.
LEMMA KeepProperties ==
  ASSUME NEW A, NEW seq \in Seq(A), NEW S
  PROVE  /\ Keep(seq, S) \in Seq(A)
         /\ Len(Keep(seq, S)) <= Len(seq)
         /\ \A i \in 1..Len(Keep(seq, S)) :
              Keep(seq, S)[i] \in S /\ \E j \in 1..Len(seq) : Keep(seq, S)[i] = seq[j]
         /\ \A j \in 1..Len(seq) :
              seq[j] \in S => \E i \in 1..Len(Keep(seq, S)) : Keep(seq, S)[i] = seq[j]
         /\ (\A i, j \in 1..Len(seq) : seq[i] = seq[j] => i = j) =>
              \A i, j \in 1..Len(Keep(seq, S)) : Keep(seq, S)[i] = Keep(seq, S)[j] => i = j
<1>1. PICK f : /\ f[0] = << >>
               /\ \A n \in 1..Len(seq) :
                    f[n] = IF seq[n] \in S THEN Append(f[n - 1], seq[n]) ELSE f[n - 1]
               /\ Keep(seq, S) = f[Len(seq)]
  BY KeepDefined
<1> DEFINE Once(q, n) == \A i, j \in 1..n : q[i] = q[j] => i = j
           Good(q, n) ==
             /\ q \in Seq(A)
             /\ Len(q) <= n
             /\ \A i \in 1..Len(q) : q[i] \in S /\ \E j \in 1..n : q[i] = seq[j]
             /\ \A j \in 1..n : seq[j] \in S => \E i \in 1..Len(q) : q[i] = seq[j]
             /\ Once(seq, n) => Once(q, Len(q))
           T == {n \in Nat : n <= Len(seq) => Good(f[n], n)}
<1>2. 0 \in T
  <2>1. Good(<< >>, 0)
    BY EmptySeq
  <2> HIDE DEF Good
  <2> QED
    BY <1>1, <2>1
<1>3. ASSUME NEW n \in Nat, n \in T PROVE n + 1 \in T
  <2> SUFFICES ASSUME n + 1 <= Len(seq) PROVE Good(f[n + 1], n + 1)
    <3> HIDE DEF Good
    <3> QED
      OBVIOUS
  <2> DEFINE q == f[n]
             r == f[n + 1]
             e == seq[n + 1]
  <2>1. Good(q, n) /\ Len(seq) \in Nat /\ n + 1 \in 1..Len(seq) /\ e \in A
    BY <1>3
  <2>2. r = IF e \in S THEN Append(q, e) ELSE q
    BY <1>1, <2>1
  <2> HIDE DEF q, r, e
  <2>3. ASSUME e \notin S PROVE Good(r, n + 1)
    <3>1. r = q
      BY <2>2, <2>3
    <3>2. seq[n + 1] \notin S
      BY <2>3 DEF e
    <3>3. \A j \in 1..(n + 1) : seq[j] \in S => j \in 1..n
      BY <3>2
    <3>4. Good(q, n)
      BY <2>1
    <3>5. \A i \in 1..Len(q) : \E j \in 1..(n + 1) : q[i] = seq[j]
      BY <2>1
    <3> QED
      BY <2>1, <3>1, <3>3, <3>5
  <2>4. ASSUME e \in S PROVE Good(r, n + 1)
    <3>1. /\ r \in Seq(A) /\ Len(r) = Len(q) + 1 /\ Len(q) \in Nat
          /\ \A i \in 1..Len(q) : r[i] = q[i]
          /\ r[Len(q) + 1] = e
      BY <2>1, <2>2, <2>4
    <3>2. \A i \in 1..Len(r) : r[i] \in S /\ \E j \in 1..(n + 1) : r[i] = seq[j]
      <4>1. ASSUME NEW i \in 1..Len(q)
            PROVE  r[i] \in S /\ \E j \in 1..(n + 1) : r[i] = seq[j]
        BY <2>1, <3>1
      <4> QED
        BY <2>4, <3>1, <4>1 DEF e
    <3>3. \A j \in 1..(n + 1) : seq[j] \in S => \E i \in 1..Len(r) : r[i] = seq[j]
      <4>1. ASSUME NEW j \in 1..n, seq[j] \in S PROVE \E i \in 1..Len(r) : r[i] = seq[j]
        <5>1. PICK i \in 1..Len(q) : q[i] = seq[j]
          BY <2>1, <4>1
        <5>2. i \in 1..Len(r) /\ r[i] = seq[j]
          BY <3>1, <5>1
        <5> QED
          BY <5>2
      <4>2. Len(q) + 1 \in 1..Len(r) /\ r[Len(q) + 1] = seq[n + 1]
        BY <3>1 DEF e
      <4> QED
        BY <4>1, <4>2
    <3>4. ASSUME Once(seq, n + 1) PROVE Once(r, Len(r))
      <4>1. Once(q, Len(q))
        BY <2>1, <3>4
      <4>2. \A i \in 1..Len(q) : q[i] # e
        BY <2>1, <3>4 DEF e
      <4> QED
        BY <3>1, <4>1, <4>2
    <3> QED
      BY <2>1, <3>1, <3>2, <3>3, <3>4
  <2> QED
    <3> HIDE DEF Good
    <3> QED
      BY <2>3, <2>4 DEF r
<1>4. Len(seq) \in Nat /\ Len(seq) \in T
  <2> HIDE DEF T
  <2> QED
    BY <1>2, <1>3, SetInduction, LenProperties
<1> QED
  BY <1>1, <1>4

-----------------------------------------------------------------------------
(* What the plans are made of *)

\* A filter keeps of a list what is in the set.
LEMMA KeepSet ==
  ASSUME NEW A, NEW seq \in Seq(A), NEW S
  PROVE  /\ Keep(seq, S) \in Seq(A)
         /\ ToSet(Keep(seq, S)) = ToSet(seq) \cap S
<1> DEFINE q == Keep(seq, S)
<1>1. /\ q \in Seq(A)
      /\ \A i \in 1..Len(q) : q[i] \in S /\ \E j \in 1..Len(seq) : q[i] = seq[j]
      /\ \A j \in 1..Len(seq) : seq[j] \in S => \E i \in 1..Len(q) : q[i] = seq[j]
  BY KeepProperties
<1>2. DOMAIN seq = 1..Len(seq)
  BY LenProperties
<1> HIDE DEF q
<1>3. DOMAIN q = 1..Len(q)
  BY <1>1, LenProperties
<1>4. ToSet(q) \subseteq ToSet(seq) \cap S
  BY <1>1, <1>2, <1>3 DEF ToSet
<1>5. ASSUME NEW x \in ToSet(seq), x \in S PROVE x \in ToSet(q)
  <2>1. PICK j \in 1..Len(seq) : x = seq[j]
    BY <1>2, <1>5 DEF ToSet
  <2>2. PICK i \in 1..Len(q) : q[i] = seq[j]
    BY <1>1, <1>5, <2>1
  <2> QED
    BY <1>3, <2>1, <2>2 DEF ToSet
<1> QED
  BY <1>1, <1>4, <1>5 DEF q

\* A list whose elements are in a set, and what it says when there are none.
LEMMA SetOfList ==
  ASSUME NEW A, NEW seq \in Seq(A)
  PROVE  ToSet(seq) \subseteq A /\ (seq = << >> <=> ToSet(seq) = {})
<1>1. DOMAIN seq = 1..Len(seq) /\ Len(seq) \in Nat /\ \A i \in 1..Len(seq) : seq[i] \in A
  BY LenProperties, ElementOfSeq
<1>2. seq # << >> => Len(seq) # 0
  BY EmptySeq
<1>3. seq # << >> => 1 \in DOMAIN seq
  BY <1>1, <1>2
<1>4. ToSet(<< >>) = {}
  BY DEF ToSet
<1>5. ToSet(seq) \subseteq A
  BY <1>1 DEF ToSet
<1>6. seq # << >> => seq[1] \in ToSet(seq)
  BY <1>3 DEF ToSet
<1> QED
  BY <1>4, <1>5, <1>6

\* The first of a list and the others.
LEMMA HeadTail ==
  ASSUME NEW A, NEW seq \in Seq(A), seq # << >>
  PROVE  /\ Head(seq) \in ToSet(seq) /\ Head(seq) \in A
         /\ Tail(seq) \in Seq(A)
         /\ ToSet(seq) = {Head(seq)} \cup ToSet(Tail(seq))
<1>1. DOMAIN seq = 1..Len(seq) /\ Len(seq) \in Nat /\ Len(seq) # 0
  BY LenProperties, EmptySeq
<1>2. /\ Head(seq) = seq[1] /\ Head(seq) \in A
      /\ Tail(seq) \in Seq(A) /\ Len(Tail(seq)) = Len(seq) - 1
      /\ \A i \in 1..Len(Tail(seq)) : Tail(seq)[i] = seq[i + 1]
  BY HeadTailProperties
<1>3. DOMAIN Tail(seq) = 1..Len(Tail(seq))
  BY <1>2, LenProperties
<1>4. 1 \in DOMAIN seq /\ \A i \in DOMAIN seq : i = 1 \/ (i - 1 \in DOMAIN Tail(seq) /\ (i - 1) + 1 = i)
  BY <1>1, <1>2, <1>3
<1>5. \A i \in DOMAIN Tail(seq) : i + 1 \in DOMAIN seq /\ Tail(seq)[i] = seq[i + 1]
  BY <1>1, <1>2, <1>3
<1>6. \A i \in DOMAIN seq : i = 1 \/ \E j \in DOMAIN Tail(seq) : Tail(seq)[j] = seq[i]
  BY <1>4, <1>5
<1>7. ToSet(seq) \subseteq {seq[1]} \cup ToSet(Tail(seq))
  BY <1>6 DEF ToSet
<1>8. {seq[1]} \cup ToSet(Tail(seq)) \subseteq ToSet(seq)
  BY <1>4, <1>5 DEF ToSet
<1> QED
  BY <1>2, <1>4, <1>7, <1>8 DEF ToSet

LEMMA ModeOrderType ==
  ASSUME NEW mode \in Modes
  PROVE  ModeOrder(mode) \in Seq(RouteKinds)
<1>1. ASSUME mode \in Adaptive
      PROVE  ModeOrder(mode) = <<"direct_ws", "cf_worker_ws", "cf_proxy_ws", "tcp_fallback">>
  BY <1>1 DEF ModeOrder, Adaptive
<1>2. ASSUME mode = "worker_first" PROVE ModeOrder(mode) = <<"cf_worker_ws", "cf_proxy_ws", "direct_ws", "tcp_fallback">>
  BY <1>2 DEF ModeOrder, Adaptive
<1>3. ASSUME mode = "cf_first" PROVE ModeOrder(mode) = <<"cf_proxy_ws", "cf_worker_ws", "direct_ws", "tcp_fallback">>
  BY <1>3 DEF ModeOrder, Adaptive
<1>4. ASSUME mode = "worker_only" PROVE ModeOrder(mode) = <<"cf_worker_ws">>
  BY <1>4 DEF ModeOrder, Adaptive
<1>5. ASSUME mode = "cf_only" PROVE ModeOrder(mode) = <<"cf_proxy_ws">>
  BY <1>5 DEF ModeOrder, Adaptive
<1>6. ASSUME mode = "direct_only" PROVE ModeOrder(mode) = <<"direct_ws">>
  BY <1>6 DEF ModeOrder, Adaptive
<1>7. \/ mode \in Adaptive
      \/ mode \in {"worker_only", "cf_only", "worker_first", "cf_first", "direct_only"}
  BY DEF Modes, Restricted
<1>8. /\ <<"direct_ws", "cf_worker_ws", "cf_proxy_ws", "tcp_fallback">> \in Seq(RouteKinds)
      /\ <<"cf_worker_ws", "cf_proxy_ws", "direct_ws", "tcp_fallback">> \in Seq(RouteKinds)
      /\ <<"cf_proxy_ws", "cf_worker_ws", "direct_ws", "tcp_fallback">> \in Seq(RouteKinds)
      /\ <<"cf_worker_ws">> \in Seq(RouteKinds) /\ <<"cf_proxy_ws">> \in Seq(RouteKinds)
      /\ <<"direct_ws">> \in Seq(RouteKinds)
  BY DEF RouteKinds
<1> QED
  BY <1>1, <1>2, <1>3, <1>4, <1>5, <1>6, <1>7, <1>8

\* The routes a policy and what is configured leave of a mode's.
Left(c, skipDirect) ==
  {r \in ToSet(ModeOrder(c.mode)) :
     Allows(c, r) /\ Available(c, r) /\ ~(skipDirect /\ r = "direct_ws")}

LEMMA RoutesForModeSet ==
  ASSUME NEW c \in ConfigType, NEW skipDirect \in BOOLEAN
  PROVE  /\ RoutesForMode(c, skipDirect) \in Seq(RouteKinds)
         /\ FilterRoutesByPolicy(c, RoutesForMode(c, skipDirect)) \in Seq(RouteKinds)
         /\ ToSet(RoutesForMode(c, skipDirect)) \subseteq ToSet(ModeOrder(c.mode))
         /\ ToSet(FilterRoutesByPolicy(c, RoutesForMode(c, skipDirect))) = Left(c, skipDirect)
<1> DEFINE S == {r \in RouteKinds : Available(c, r) /\ ~(skipDirect /\ r = "direct_ws")}
           P == {r \in RouteKinds : Allows(c, r)}
           order == ModeOrder(c.mode)
           routes == Keep(order, S)
<1>1. c.mode \in Modes
  BY DEF ConfigType
<1>2. order \in Seq(RouteKinds) /\ ToSet(order) \subseteq RouteKinds
  BY <1>1, ModeOrderType, SetOfList
<1>3. routes = RoutesForMode(c, skipDirect) /\ Keep(routes, P) = FilterRoutesByPolicy(c, routes)
  BY DEF RoutesForMode, FilterRoutesByPolicy
<1>4. Left(c, skipDirect) = (ToSet(order) \cap S) \cap P
  BY <1>2 DEF Left
<1> HIDE DEF S, P, order
<1>5. routes \in Seq(RouteKinds) /\ ToSet(routes) = ToSet(order) \cap S
  BY <1>2, KeepSet
<1> HIDE DEF routes
<1>6. Keep(routes, P) \in Seq(RouteKinds) /\ ToSet(Keep(routes, P)) = ToSet(routes) \cap P
  BY <1>5, KeepSet
<1> QED
  BY <1>3, <1>4, <1>5, <1>6 DEF order

LEMMA WorkerFilter ==
  ASSUME NEW routes \in Seq(RouteKinds)
  PROVE  /\ FilterWorkerCooldown(routes) \in Seq(RouteKinds)
         /\ ToSet(FilterWorkerCooldown(routes)) \subseteq ToSet(routes)
         /\ ToSet(routes) \ {"cf_worker_ws"} \subseteq ToSet(FilterWorkerCooldown(routes))
         /\ routes # << >> => FilterWorkerCooldown(routes) # << >>
<1> DEFINE others == Keep(routes, RouteKinds \ {"cf_worker_ws"})
<1>1. others \in Seq(RouteKinds) /\ ToSet(others) = ToSet(routes) \cap (RouteKinds \ {"cf_worker_ws"})
  BY KeepSet
<1>2. ToSet(routes) \subseteq RouteKinds
  BY SetOfList
<1>3. FilterWorkerCooldown(routes) = IF workerCooling /\ others # << >> THEN others ELSE routes
  BY DEF FilterWorkerCooldown
<1> HIDE DEF others
<1> QED
  BY <1>1, <1>2, <1>3

\* An order of routes that scored holds them and no others.
LEMMA PermutationType ==
  ASSUME NEW S \in SUBSET RouteKinds, NEW q \in SetToAllKPermutations(S)
  PROVE  q \in Seq(RouteKinds) /\ ToSet(q) \subseteq S
<1>1. PICK s \in SUBSET S : q \in SetToSeqs(s)
  BY DEF SetToAllKPermutations
<1>2. q \in [1..Cardinality(s) -> s]
  BY <1>1 DEF SetToSeqs
<1>3. IsFiniteSet(RouteKinds)
  <2>1. RouteKinds = (((({} \cup {"direct_ws"}) \cup {"cf_worker_ws"}) \cup {"cf_proxy_ws"})
                       \cup {"awg_warp"}) \cup {"tcp_fallback"}
    BY DEF RouteKinds
  <2> QED
    <3>1. IsFiniteSet({} \cup {"direct_ws"})
      BY FS_EmptySet, FS_AddElement
    <3>2. IsFiniteSet(({} \cup {"direct_ws"}) \cup {"cf_worker_ws"})
      BY <3>1, FS_AddElement
    <3>3. IsFiniteSet((({} \cup {"direct_ws"}) \cup {"cf_worker_ws"}) \cup {"cf_proxy_ws"})
      BY <3>2, FS_AddElement
    <3>4. IsFiniteSet(((({} \cup {"direct_ws"}) \cup {"cf_worker_ws"}) \cup {"cf_proxy_ws"})
                      \cup {"awg_warp"})
      BY <3>3, FS_AddElement
    <3> QED
      BY <2>1, <3>4, FS_AddElement
<1>4. Cardinality(s) \in Nat
  BY <1>3, FS_Subset, FS_CardinalityType
<1>5. q \in [1..Cardinality(s) -> RouteKinds] /\ ToSet(q) \subseteq s
  BY <1>2 DEF ToSet
<1> QED
  BY <1>4, <1>5, SeqDef

LEMMA FallbackType ==
  ASSUME NEW c \in ConfigType
  PROVE  FallbackAllowed(c) \in Seq(RouteKinds)
<1> DEFINE list == <<"cf_proxy_ws", "direct_ws", "tcp_fallback", "cf_worker_ws", "awg_warp">>
           q == Keep(list, c.allow)
<1>1. c.allow \subseteq RouteKinds
  BY DEF ConfigType
<1>2. list \in Seq(RouteKinds) /\ ToSet(list) = RouteKinds
  <2>1. DOMAIN list = 1..5
    OBVIOUS
  <2>2. ToSet(list) = {list[1], list[2], list[3], list[4], list[5]}
    BY <2>1 DEF ToSet
  <2> QED
    BY <2>2 DEF RouteKinds
<1>3. q \in Seq(RouteKinds) /\ ToSet(q) = ToSet(list) \cap c.allow
  BY <1>2, KeepSet
<1>4. c.preferred \in c.allow => <<c.preferred>> \in Seq(RouteKinds)
  BY <1>1
<1>5. FallbackAllowed(c) = IF ~c.policy \/ c.allow = {} THEN << >>
                           ELSE IF c.preferred \in c.allow THEN <<c.preferred>>
                           ELSE <<Head(q)>>
  BY DEF FallbackAllowed
<1> HIDE DEF q, list
<1>6. c.allow # {} => Head(q) \in RouteKinds
  BY <1>1, <1>2, <1>3, SetOfList, HeadTail
<1>7. c.allow # {} => <<Head(q)>> \in Seq(RouteKinds)
  BY <1>6
<1> QED
  BY <1>4, <1>5, <1>7, EmptySeq

\* The plans of a chain: of the routes that are left it has one if there is any, and
\* none but them; in a mode that is not adaptive, all but perhaps the Worker.
LEMMA AdaptiveRoutesPlan ==
  ASSUME NEW c \in ConfigType, NEW skipDirect \in BOOLEAN, NEW q \in AdaptiveRoutes(c, skipDirect)
  PROVE  /\ q \in Seq(RouteKinds)
         /\ ~AwgExclusive /\ Left(c, skipDirect) # {} =>
              q # << >> /\ ToSet(q) \subseteq Left(c, skipDirect)
         /\ c.mode \notin Adaptive => ToSet(q) \subseteq Left(c, skipDirect)
         /\ ~AwgExclusive /\ c.mode \notin Adaptive =>
              Left(c, skipDirect) \ {"cf_worker_ws"} \subseteq ToSet(q)
<1> DEFINE left == FilterRoutesByPolicy(c, RoutesForMode(c, skipDirect))
           base == FilterWorkerCooldown(left)
           candidates == {r \in ToSet(base) : /\ ~(skipDirect /\ r = "direct_ws")
                                              /\ Available(c, r)
                                              /\ ~cooling[r]}
<1>1. left \in Seq(RouteKinds) /\ ToSet(left) = Left(c, skipDirect)
  BY RoutesForModeSet
<1>2. /\ base \in Seq(RouteKinds) /\ ToSet(base) \subseteq ToSet(left)
      /\ ToSet(left) \ {"cf_worker_ws"} \subseteq ToSet(base)
      /\ left # << >> => base # << >>
  BY <1>1, WorkerFilter
<1>3. ToSet(base) \subseteq RouteKinds /\ ToSet(left) # {} => left # << >>
  BY <1>1, <1>2, SetOfList
<1>4. ToSet(left) = {} <=> left = << >>
  BY <1>1, SetOfList
<1>5. AdaptiveOrders(c, base, skipDirect) = {base} \cup (SetToAllKPermutations(candidates) \ {<< >>})
  BY DEF AdaptiveOrders
<1>6. candidates \in SUBSET RouteKinds /\ candidates \subseteq ToSet(base)
  BY <1>2, SetOfList
<1> HIDE DEF candidates
<1>7. \A p \in SetToAllKPermutations(candidates) :
        p \in Seq(RouteKinds) /\ ToSet(p) \subseteq candidates
  BY <1>6, PermutationType
<1> DEFINE Orders == AdaptiveOrders(c, base, skipDirect)
<1>8. \A p \in Orders : /\ p \in Seq(RouteKinds) /\ ToSet(p) \subseteq ToSet(base)
                        /\ base # << >> => p # << >>
  BY <1>2, <1>5, <1>6, <1>7
<1>9. /\ AwgExclusive => q = << >>
      /\ ~AwgExclusive /\ c.mode \notin Adaptive => q = base
      /\ ~AwgExclusive /\ c.mode \in Adaptive =>
           \E p \in Orders : q = IF p = << >> THEN FallbackAllowed(c) ELSE p
  <2> HIDE DEF Orders, base
  <2> QED
    BY DEF AdaptiveRoutes, Orders, base
<1> HIDE DEF Orders, base, left
<1>10. << >> \in Seq(RouteKinds) /\ ToSet(<< >>) = {}
  BY EmptySeq, SetOfList
<1>11. q \in Seq(RouteKinds)
  BY <1>2, <1>8, <1>9, <1>10, FallbackType
<1>12. ASSUME ~AwgExclusive, Left(c, skipDirect) # {}
       PROVE  q # << >> /\ ToSet(q) \subseteq Left(c, skipDirect)
  <2>1. base # << >>
    BY <1>1, <1>2, <1>4, <1>12
  <2> QED
    BY <1>1, <1>2, <1>8, <1>9, <1>12, <2>1
<1>13. ASSUME c.mode \notin Adaptive PROVE ToSet(q) \subseteq Left(c, skipDirect)
  BY <1>1, <1>2, <1>9, <1>10, <1>13
<1>14. ASSUME ~AwgExclusive, c.mode \notin Adaptive
       PROVE  Left(c, skipDirect) \ {"cf_worker_ws"} \subseteq ToSet(q)
  BY <1>1, <1>2, <1>9, <1>14
<1> QED
  BY <1>11, <1>12, <1>13, <1>14

-----------------------------------------------------------------------------

Shape ==
  /\ at \in [Sessions -> Places]
  /\ primary \in [Sessions -> BOOLEAN]
  /\ DOMAIN accepted = Sessions
  /\ DOMAIN route = Sessions

\* A session that goes to Direct WS, now or after the routes before it, found it
\* allowed when it was accepted.
Asked ==
  \A s \in Sessions :
    /\ primary[s] => at[s] \notin {"idle", "decide"} /\ Allows(accepted[s].c, "direct_ws")
    /\ at[s] = "consider" => Allows(accepted[s].c, "direct_ws")

Inv == Shape /\ Asked

LEMMA InitInv == Init => Inv
BY DEF Init, InitSocks, Inv, Shape, Asked, Places

\* What a step that keeps the session's plans and first settings has to show.
LEMMA PlaceKeeps ==
  ASSUME Inv, NEW s \in Sessions, NEW place \in Places, Goes(s, place),
         at[s] # "idle", place \notin {"idle", "decide"},
         place = "consider" => Allows(accepted[s].c, "direct_ws"),
         UNCHANGED <<primary, accepted>>, DOMAIN route' = Sessions
  PROVE  Inv'
<1>1. /\ at' \in [Sessions -> Places]
      /\ at'[s] = place
      /\ \A t \in Sessions \ {s} : at'[t] = at[t]
  BY DEF Inv, Shape, Goes
<1>2. Shape'
  BY <1>1 DEF Inv, Shape
<1>3. Asked'
  BY <1>1 DEF Inv, Asked
<1> QED
  BY <1>2, <1>3 DEF Inv

\* A chain that is over goes on to Direct WS only if it came before it.
LEMMA ChainOverKeeps ==
  ASSUME Inv, NEW s \in Sessions, ChainOver(s), at[s] # "idle",
         UNCHANGED <<primary, accepted>>, DOMAIN route' = Sessions
  PROVE  Inv'
<1>1. CASE primary[s]
  <2>1. Allows(accepted[s].c, "direct_ws")
    BY <1>1 DEF Inv, Asked
  <2> QED
    BY <1>1, <2>1, PlaceKeeps DEF ChainOver, Places
<1>2. CASE ~ primary[s]
  BY <1>2, PlaceKeeps DEF ChainOver, Places
<1> QED
  BY <1>1, <1>2

\* The start of a chain that does not come before Direct WS, or may.
LEMMA StartKeeps ==
  ASSUME Inv, NEW s \in Sessions, NEW routes, NEW isPrimary \in BOOLEAN,
         Start(s, routes, isPrimary),
         isPrimary => Allows(accepted[s].c, "direct_ws"),
         UNCHANGED <<accepted, route>>
  PROVE  Inv'
<1>1. /\ at' \in [Sessions -> Places] /\ primary' \in [Sessions -> BOOLEAN]
      /\ at'[s] = "start" /\ primary'[s] = isPrimary
      /\ \A t \in Sessions \ {s} : at'[t] = at[t] /\ primary'[t] = primary[t]
  BY DEF Inv, Shape, Start, Goes, Places
<1>2. Shape'
  BY <1>1 DEF Inv, Shape
<1>3. Asked'
  BY <1>1 DEF Inv, Asked
<1> QED
  BY <1>2, <1>3 DEF Inv

LEMMA DialKeeps ==
  ASSUME Inv, NEW s \in Sessions, NEW r, NEW isLast, NEW snapshot,
         Dial(s, r, isLast, snapshot), at[s] # "idle", UNCHANGED <<primary, accepted>>
  PROVE  Inv'
<1>1. DOMAIN route' = Sessions
  BY DEF Inv, Shape, Dial
<1> QED
  BY <1>1, PlaceKeeps DEF Dial, Places

-----------------------------------------------------------------------------
(* The steps of a SOCKS session *)

LEMMA AcceptKeeps ==
  ASSUME Inv, NEW s \in Sessions, Accept(s)
  PROVE  Inv'
<1>1. /\ at' \in [Sessions -> Places]
      /\ at'[s] = "decide" /\ at[s] = "idle"
      /\ \A t \in Sessions \ {s} : at'[t] = at[t] /\ accepted'[t] = accepted[t]
      /\ DOMAIN accepted' = Sessions
      /\ UNCHANGED <<primary, route>>
  BY DEF Inv, Shape, Accept, Goes, Places
<1>2. Shape'
  BY <1>1 DEF Inv, Shape
<1>3. Asked'
  BY <1>1 DEF Inv, Shape, Asked
<1> QED
  BY <1>2, <1>3 DEF Inv

LEMMA DecisionsKeep ==
  ASSUME Inv, NEW s \in Sessions,
         \/ \E unknown \in BOOLEAN : DecideUnmapped(s, unknown)
         \/ DecideFallback(s) \/ DecideConfigured(s) \/ Consider(s)
  PROVE  Inv'
<1>1. DOMAIN route = Sessions
  BY DEF Inv, Shape
<1>2. ASSUME NEW unknown \in BOOLEAN, DecideUnmapped(s, unknown) PROVE Inv'
  <2>1. at[s] = "decide" /\ UNCHANGED <<primary, accepted>>
    BY <1>2 DEF DecideUnmapped
  <2>2. (Goes(s, "ended") /\ UNCHANGED route) \/ Dial(s, "tcp_fallback", TRUE, accepted[s])
    BY <1>2 DEF DecideUnmapped
  <2> QED
    BY <1>1, <2>1, <2>2, PlaceKeeps, DialKeeps DEF Places
<1>3. CASE DecideFallback(s)
  BY <1>1, <1>3, PlaceKeeps DEF DecideFallback, Places
<1>4. CASE DecideConfigured(s)
  <2>1. Allows(accepted[s].c, "direct_ws") /\ at[s] = "decide" /\ UNCHANGED <<accepted, route>>
    BY <1>4 DEF DecideConfigured, DirectBarred
  <2>2. \/ Start(s, PrimaryRoutes(accepted[s].c), TRUE)
        \/ Goes(s, "consider") /\ UNCHANGED primary
    BY <1>4 DEF DecideConfigured
  <2> QED
    BY <1>1, <2>1, <2>2, PlaceKeeps, StartKeeps DEF Places
<1>5. CASE Consider(s)
  <2>1. at[s] = "consider" /\ UNCHANGED <<primary, accepted>>
    BY <1>5 DEF Consider
  <2>2. (Goes(s, "plan") /\ UNCHANGED route) \/ Dial(s, "direct_ws", FALSE, accepted[s])
    BY <1>5 DEF Consider
  <2> QED
    BY <1>1, <2>1, <2>2, PlaceKeeps, DialKeeps DEF Places
<1> QED
  BY <1>2, <1>3, <1>4, <1>5

LEMMA DirectKeeps ==
  ASSUME Inv, NEW s \in Sessions,
         \/ DirectConnects(s) \/ DirectWrites(s) \/ DirectBreaks(s)
         \/ \E timedOut \in BOOLEAN : DirectFails(s, timedOut)
  PROVE  Inv'
<1>1. DOMAIN route = Sessions
  BY DEF Inv, Shape
<1>2. CASE DirectConnects(s)
  BY <1>1, <1>2, PlaceKeeps DEF DirectConnects, Places
<1>3. CASE DirectWrites(s)
  BY <1>1, <1>3, PlaceKeeps DEF DirectWrites, Places
<1>4. CASE DirectBreaks(s)
  BY <1>4, DialKeeps DEF DirectBreaks
<1>5. ASSUME NEW timedOut \in BOOLEAN, DirectFails(s, timedOut) PROVE Inv'
  <2>1. /\ at[s] = "dial" /\ Goes(s, "plan") /\ UNCHANGED <<primary, accepted>>
        /\ DOMAIN route' = Sessions
    BY <1>1, <1>5 DEF DirectFails
  <2> QED
    BY <2>1, PlaceKeeps DEF Places
<1> QED
  BY <1>2, <1>3, <1>4, <1>5

LEMMA ChainKeeps ==
  ASSUME Inv, NEW s \in Sessions,
         \/ PlanChain(s) \/ StartChain(s) \/ ChainEnds(s) \/ PassOverRoute(s) \/ DialRoute(s)
         \/ RouteClosed(s) \/ RouteConnects(s) \/ RouteFails(s)
  PROVE  Inv'
<1>1. DOMAIN route = Sessions
  BY DEF Inv, Shape
<1>2. CASE PlanChain(s)
  BY <1>2, StartKeeps DEF PlanChain
<1>3. CASE StartChain(s)
  <2>1. at[s] = "start" /\ UNCHANGED <<primary, accepted, route>>
    BY <1>3 DEF StartChain
  <2>2. ChainOver(s) \/ Goes(s, "chain")
    BY <1>3 DEF StartChain
  <2> QED
    BY <1>1, <2>1, <2>2, ChainOverKeeps, PlaceKeeps DEF Places
<1>4. CASE ChainEnds(s)
  BY <1>1, <1>4, ChainOverKeeps DEF ChainEnds
<1>5. CASE PassOverRoute(s)
  BY <1>5 DEF PassOverRoute, Inv, Shape, Asked
<1>6. CASE DialRoute(s)
  <2>1. at[s] = "chain" /\ UNCHANGED <<primary, accepted>>
    BY <1>6 DEF DialRoute, TakeRoute
  <2>2. PICK r, snapshot : Dial(s, r, FALSE, snapshot)
    BY <1>6 DEF DialRoute
  <2> QED
    BY <2>1, <2>2, DialKeeps
<1>7. CASE RouteClosed(s)
  <2>1. at[s] = "chain" /\ UNCHANGED <<primary, accepted, route>>
    BY <1>7 DEF RouteClosed, TakeRoute
  <2>2. ChainOver(s) \/ Goes(s, "chain")
    BY <1>7 DEF RouteClosed, AfterFailure
  <2> QED
    BY <1>1, <2>1, <2>2, ChainOverKeeps, PlaceKeeps DEF Places
<1>8. CASE RouteConnects(s)
  BY <1>1, <1>8, PlaceKeeps DEF RouteConnects, Places
<1>9. CASE RouteFails(s)
  <2>1. /\ at[s] = "dial" /\ UNCHANGED <<primary, accepted>>
        /\ DOMAIN route' = Sessions
    BY <1>1, <1>9 DEF RouteFails
  <2>2. ChainOver(s) \/ Goes(s, "chain") \/ Goes(s, "ended")
    BY <1>9 DEF RouteFails, AfterFailure
  <2> QED
    BY <2>1, <2>2, ChainOverKeeps, PlaceKeeps DEF Places
<1> QED
  BY <1>2, <1>3, <1>4, <1>5, <1>6, <1>7, <1>8, <1>9

LEMMA EndsKeep ==
  ASSUME Inv, NEW s \in Sessions,
         \/ \E neutral, silent \in BOOLEAN : BridgeEnds(s, neutral, silent)
         \/ RecordsSuccess(s) \/ Leave(s)
  PROVE  Inv'
<1>1. DOMAIN route = Sessions
  BY DEF Inv, Shape
<1>2. ASSUME NEW neutral \in BOOLEAN, NEW silent \in BOOLEAN, BridgeEnds(s, neutral, silent)
      PROVE  Inv'
  <2>1. /\ at[s] = "bridge"
        /\ Goes(s, "record") \/ Goes(s, "ended")
        /\ UNCHANGED <<primary, accepted, route>>
    BY <1>2 DEF BridgeEnds
  <2> QED
    BY <1>1, <2>1, PlaceKeeps DEF Places
<1>3. CASE RecordsSuccess(s)
  BY <1>1, <1>3, PlaceKeeps DEF RecordsSuccess, Places
<1>4. CASE Leave(s)
  <2>1. /\ at' \in [Sessions -> Places] /\ primary' \in [Sessions -> BOOLEAN]
        /\ at'[s] = "idle" /\ primary'[s] = FALSE
        /\ \A t \in Sessions \ {s} :
             at'[t] = at[t] /\ primary'[t] = primary[t] /\ accepted'[t] = accepted[t]
        /\ DOMAIN accepted' = Sessions /\ DOMAIN route' = Sessions
    BY <1>4 DEF Inv, Shape, Leave, Goes, Places
  <2> QED
    BY <2>1 DEF Inv, Shape, Asked
<1> QED
  BY <1>2, <1>3, <1>4

LEMMA InvStep == Inv /\ [Next]_vars => Inv'
<1> SUFFICES ASSUME Inv, [Next]_vars PROVE Inv'
  OBVIOUS
<1>1. CASE UNCHANGED <<at, primary, accepted, route>>
  BY <1>1 DEF Inv, Shape, Asked
<1>2. ASSUME NEW s \in Sessions, SocksStep(s) \/ Accept(s)
      PROVE  Inv'
  BY <1>2, AcceptKeeps, DecisionsKeep, DirectKeeps, ChainKeeps, EndsKeep DEF SocksStep, Decides
<1>3. \/ UNCHANGED socksVars
      \/ UNCHANGED vars
      \/ FailingOver
      \/ \E s \in Sessions : SocksStep(s) \/ Accept(s)
  BY DEF Next, TCPCooldownOver, ConnectStep, Cancel, Proceeds, Answered, GiveUp, RouteRefuses,
         RouteDials, DialSucceeds, DialFails, Request
<1> QED
  BY <1>1, <1>2, <1>3 DEF socksVars, vars, FailingOver

\* What the theorem of the policy rests on, kept by every step.
THEOREM InvHolds == Spec => []Inv
<1>1. Init => Inv
  BY InitInv
<1>2. Inv /\ [Next]_vars => Inv'
  BY InvStep
<1> QED
  BY <1>1, <1>2, PTL DEF Spec

-----------------------------------------------------------------------------
(* Policies *)

\* A step of one session does not move another.
LEMMA OneMoves ==
  ASSUME Inv, NEW s \in Sessions, NEW t \in Sessions, s # t, SocksStep(t) \/ Accept(t)
  PROVE  at'[s] = at[s]
<1>1. \A place : Goes(t, place) => at'[s] = at[s]
  BY DEF Inv, Shape, Goes
<1>2. CASE Accept(t)
  BY <1>1, <1>2 DEF Accept
<1>3. ASSUME \/ \E unknown \in BOOLEAN : DecideUnmapped(t, unknown)
             \/ DecideFallback(t) \/ DecideConfigured(t) \/ Consider(t)
      PROVE  at'[s] = at[s]
  BY <1>1, <1>3 DEF DecideUnmapped, DecideFallback, DecideConfigured, Consider, Start, Dial
<1>4. ASSUME \/ DirectConnects(t) \/ DirectWrites(t) \/ DirectBreaks(t)
             \/ \E timedOut \in BOOLEAN : DirectFails(t, timedOut)
      PROVE  at'[s] = at[s]
  BY <1>1, <1>4 DEF DirectConnects, DirectFails, DirectWrites, DirectBreaks, Dial
<1>5. ASSUME \/ PlanChain(t) \/ StartChain(t) \/ ChainEnds(t) \/ PassOverRoute(t)
      PROVE  at'[s] = at[s]
  BY <1>1, <1>5 DEF PlanChain, StartChain, ChainEnds, PassOverRoute, ChainOver, Start
<1>6. ASSUME DialRoute(t) \/ RouteClosed(t) \/ RouteConnects(t) \/ RouteFails(t)
      PROVE  at'[s] = at[s]
  BY <1>1, <1>6 DEF DialRoute, RouteClosed, RouteConnects, RouteFails, ChainOver, AfterFailure, Dial
<1>7. ASSUME \/ Leave(t) \/ RecordsSuccess(t)
             \/ \E neutral, silent \in BOOLEAN : BridgeEnds(t, neutral, silent)
      PROVE  at'[s] = at[s]
  BY <1>1, <1>7 DEF BridgeEnds, RecordsSuccess, Leave
<1> QED
  BY <1>2, <1>3, <1>4, <1>5, <1>6, <1>7 DEF SocksStep, Decides

\* A step that moves a session is a step of that session.
LEMMA WhoMoves ==
  ASSUME Inv, [Next]_vars, NEW s \in Sessions, at'[s] # at[s]
  PROVE  SocksStep(s) \/ Accept(s)
<1>1. at' # at
  OBVIOUS
<1>2. PICK t \in Sessions : SocksStep(t) \/ Accept(t)
  BY <1>1 DEF Next, vars, socksVars, FailingOver, TCPCooldownOver, ConnectStep, Cancel, Proceeds,
     Answered, GiveUp, RouteRefuses, RouteDials, DialSucceeds, DialFails, Request
<1> QED
  BY <1>2, OneMoves

\* The steps that dial.
LEMMA DialsAreAllowed ==
  ASSUME Inv, [Next]_vars, NEW s \in Sessions, at[s] # "dial", at'[s] = "dial"
  PROVE  CASE route'[s] \in {"cf_worker_ws", "cf_proxy_ws"} -> Allows(settings, route'[s])
           [] route'[s] = "direct_ws" -> Allows(accepted[s].c, "direct_ws")
           [] OTHER -> TRUE
<1>1. SocksStep(s) \/ Accept(s)
  BY WhoMoves
<1>2. /\ DOMAIN route = Sessions
      /\ \A place \in Places : Goes(s, place) => at'[s] = place
  BY DEF Inv, Shape, Goes
<1>3. \A r, isLast, snapshot : Dial(s, r, isLast, snapshot) => route'[s] = r
  BY <1>2 DEF Dial
<1>4. \/ \E unknown \in BOOLEAN : DecideUnmapped(s, unknown)
      \/ Consider(s) \/ DirectBreaks(s) \/ DialRoute(s)
  <2>1. ~ Accept(s) /\ ~ DecideFallback(s) /\ ~ RecordsSuccess(s) /\ ~ Leave(s)
    BY <1>2 DEF Accept, DecideFallback, RecordsSuccess, Leave, Places
  <2>2. ~ DirectConnects(s) /\ ~ DirectWrites(s) /\ ~ RouteConnects(s)
    BY <1>2 DEF DirectConnects, DirectWrites, RouteConnects, Places
  <2>3. ~ DecideConfigured(s) /\ ~ PlanChain(s) /\ ~ StartChain(s) /\ ~ ChainEnds(s)
    BY <1>2 DEF DecideConfigured, PlanChain, StartChain, ChainEnds, ChainOver, Start, Places
  <2>4. ~ PassOverRoute(s) /\ ~ RouteClosed(s) /\ ~ RouteFails(s)
    BY <1>2 DEF PassOverRoute, RouteClosed, RouteFails, AfterFailure, ChainOver, Places
  <2>5. \A timedOut \in BOOLEAN : ~ DirectFails(s, timedOut)
    BY <1>2 DEF DirectFails, Places
  <2>6. \A neutral, silent \in BOOLEAN : ~ BridgeEnds(s, neutral, silent)
    BY <1>2 DEF BridgeEnds, Places
  <2> QED
    BY <1>1, <2>1, <2>2, <2>3, <2>4, <2>5, <2>6 DEF SocksStep, Decides
<1>5. ASSUME NEW unknown \in BOOLEAN, DecideUnmapped(s, unknown)
      PROVE  route'[s] = "tcp_fallback"
  BY <1>2, <1>3, <1>5 DEF DecideUnmapped, Places
<1>6. CASE Consider(s)
  <2>1. Allows(accepted[s].c, "direct_ws")
    BY <1>6 DEF Consider, Inv, Asked
  <2>2. route'[s] = "direct_ws"
    BY <1>2, <1>3, <1>6 DEF Consider, Places
  <2> QED
    BY <2>1, <2>2
<1>7. CASE DirectBreaks(s)
  <2>1. route'[s] = "tcp_fallback"
    BY <1>3, <1>7 DEF DirectBreaks
  <2> QED
    BY <2>1
<1>8. CASE DialRoute(s)
  <2>1. PICK r \in {"cf_worker_ws", "cf_proxy_ws", "tcp_fallback"} : Open(r) /\ route'[s] = r
    BY <1>3, <1>8 DEF DialRoute
  <2> QED
    BY <2>1 DEF Open
<1> QED
  BY <1>4, <1>5, <1>6, <1>7, <1>8

\* Every connect has a place.
LEMMA ConnectShape ==
  ASSUME DOMAIN mat = Connects, [Next]_vars
  PROVE  DOMAIN mat' = Connects
<1>1. CASE UNCHANGED mat
  BY <1>1
<1>2. ASSUME NEW k \in Connects, ConnectStep(k) \/ \E test \in BOOLEAN : Request(k, test)
      PROVE  DOMAIN mat' = Connects
  BY <1>2 DEF ConnectStep, Cancel, Proceeds, Answered, GiveUp, RouteRefuses, RouteDials,
     DialSucceeds, DialFails, Request, Gives
<1> QED
  BY <1>1, <1>2 DEF Next, vars, connectVars, TCPCooldownOver

\* A connect dials a CF domain only if the settings of the moment allow it.
LEMMA ConnectsAreAllowed ==
  ASSUME DOMAIN mat = Connects, [Next]_vars, NEW m \in Connects, mat[m] # "dial", mat'[m] = "dial",
         Head(mplan[m]) = "cf_proxy_ws"
  PROVE  Allows(settings, "cf_proxy_ws")
<1>1. mat' # mat
  OBVIOUS
<1>2. PICK k \in Connects : ConnectStep(k) \/ \E test \in BOOLEAN : Request(k, test)
  BY <1>1 DEF Next, vars, connectVars, TCPCooldownOver
<1>3. \A place : Gives(k, place) => m = k /\ place = "dial"
  BY DEF Gives
<1>4. RouteDials(k)
  BY <1>2, <1>3 DEF ConnectStep, Cancel, Proceeds, Answered, GiveUp, RouteRefuses,
     DialSucceeds, DialFails, Request
<1>5. m = k
  BY <1>3, <1>4 DEF RouteDials
<1> QED
  BY <1>4, <1>5 DEF RouteDials, Refuses

\* What the settings forbid is not dialed from the moment they are set, also by
\* clients that planned by those before: no Worker and no CF domain by the sessions
\* of the SOCKS frontend, no CF domain by connects of the MTProto frontend.  Direct
\* WS is forbidden by the settings a session was accepted under.
THEOREM PolicyTheorem == Spec => PolicyHeld
<1>1. Inv /\ DOMAIN mat = Connects /\ [Next]_vars =>
        [/\ \A s \in Sessions :
              at[s] # "dial" /\ at'[s] = "dial"
                => CASE route'[s] \in {"cf_worker_ws", "cf_proxy_ws"} -> Allows(settings, route'[s])
                     [] route'[s] = "direct_ws" -> Allows(accepted[s].c, "direct_ws")
                     [] OTHER -> TRUE
         /\ \A m \in Connects :
              mat[m] # "dial" /\ mat'[m] = "dial" /\ Head(mplan[m]) = "cf_proxy_ws"
                => Allows(settings, "cf_proxy_ws")]_vars
  BY DialsAreAllowed, ConnectsAreAllowed
<1>2. Init => DOMAIN mat = Connects
  BY DEF Init
<1>3. DOMAIN mat = Connects /\ [Next]_vars => (DOMAIN mat = Connects)'
  BY ConnectShape
<1> QED
  BY <1>1, <1>2, <1>3, InvHolds, PTL DEF Spec, PolicyHeld

-----------------------------------------------------------------------------
(* Types *)

\* The dials of a session are of the routes whose failures it can record.
Dialing ==
  \A s \in Sessions :
    at[s] = "dial" => route[s] \in RouteKinds \ {"awg_warp"} /\ route[s] \in tried[s]

ConnectTypes ==
  /\ mat \in [Connects -> {"idle", "next", "dial", "connected", "failed"}]
  /\ mplan \in [Connects -> Seq(RouteKinds)]
  /\ {mtest, cancelled} \subseteq [Connects -> BOOLEAN]
  /\ tcpCooling \in BOOLEAN
  /\ \A m \in Connects : mat[m] = "dial" => mplan[m] # << >>

TypesInv == PlanTypeOK /\ SocksTypeOK /\ ConnectTypes /\ Dialing

StoreTypes ==
  /\ consecutive \in [RouteKinds -> 0..CooldownAfter]
  /\ cooling \in [RouteKinds -> BOOLEAN]

LEMMA RecordFailureTypes ==
  ASSUME StoreTypes, NEW r \in RouteKinds, NEW times \in Nat, RecordFailure(r, times)
  PROVE  StoreTypes'
<1>1. consecutive[r] + times \in Nat
  BY PlanAssumption DEF StoreTypes
<1>2. AtMostAfter(consecutive[r] + times) \in 0..CooldownAfter
  BY <1>1, PlanAssumption DEF AtMostAfter
<1>3. consecutive' = [consecutive EXCEPT ![r] = AtMostAfter(consecutive[r] + times)]
  BY DEF RecordFailure
<1>4. consecutive' \in [RouteKinds -> 0..CooldownAfter]
  BY <1>2, <1>3 DEF StoreTypes
<1> DEFINE rests == cooling[r] \/ (times > 0 /\ consecutive'[r] = CooldownAfter)
<1>5. rests \in BOOLEAN
  OBVIOUS
<1>6. cooling' = [cooling EXCEPT ![r] = rests]
  BY DEF RecordFailure
<1> HIDE DEF rests
<1>7. cooling' \in [RouteKinds -> BOOLEAN]
  BY <1>5, <1>6 DEF StoreTypes
<1> QED
  BY <1>4, <1>7 DEF StoreTypes

LEMMA RecordSuccessTypes ==
  ASSUME StoreTypes, NEW r, RecordSuccess(r)
  PROVE  StoreTypes'
<1>1. 0 \in 0..CooldownAfter
  BY PlanAssumption
<1> QED
  BY <1>1 DEF RecordSuccess, StoreTypes

LEMMA RecordedType ==
  ASSUME NEW s, NEW r \in {"cf_worker_ws", "cf_proxy_ws", "tcp_fallback"}, NEW own \in Nat
  PROVE  Recorded(s, r, own) \in Nat
<1> DEFINE a == IF used[s].c.mode \in Adaptive THEN own ELSE 0
           b == IF chained[s].c.mode \in Adaptive THEN 1 ELSE 0
           p == IF chained[s].c.mode = "cf_only" THEN 0 ELSE 1
           t == IF last[s] THEN 0 ELSE 1
<1>1. r = "cf_worker_ws" => Recorded(s, r, own) = a + b
  BY Zenon DEF Recorded
<1>2. r = "cf_proxy_ws" => Recorded(s, r, own) = p
  BY Zenon DEF Recorded
<1>3. r = "tcp_fallback" => Recorded(s, r, own) = t
  BY Zenon DEF Recorded
<1>4. a \in Nat /\ b \in Nat /\ p \in Nat /\ t \in Nat
  OBVIOUS
<1> HIDE DEF a, b, p, t
<1> QED
  BY <1>1, <1>2, <1>3, <1>4

\* What a step has to show of the stores and the settings.
LEMMA PlanTypesKept ==
  ASSUME PlanTypeOK, UNCHANGED <<settings, gen, changes, awg>>, StoreTypes',
         workerCooling' \in BOOLEAN, ipCooling' \in BOOLEAN, failures' \in 0..MaxFailures
  PROVE  PlanTypeOK'
BY DEF PlanTypeOK, StoreTypes

LEMMA CountFailureTypes ==
  ASSUME PlanTypeOK, CountFailure
  PROVE  failures' \in 0..MaxFailures
BY PlanAssumption DEF PlanTypeOK, CountFailure

LEMMA PlanTypesParts ==
  ASSUME PlanTypeOK
  PROVE  /\ StoreTypes /\ workerCooling \in BOOLEAN /\ ipCooling \in BOOLEAN
         /\ failures \in 0..MaxFailures
BY DEF PlanTypeOK, StoreTypes

LEMMA EnvironmentTypes ==
  ASSUME PlanTypeOK, Environment
  PROVE  PlanTypeOK'
<1>0. /\ StoreTypes /\ workerCooling \in BOOLEAN /\ ipCooling \in BOOLEAN
      /\ failures \in 0..MaxFailures
  BY PlanTypesParts
<1>1. CASE Reconfigure \/ ConfigureAwg
  <2>1. /\ changes' = changes + 1 /\ changes < MaxChanges /\ gen' \in {gen, gen + 1}
        /\ settings' \in Configs /\ awg' \in AwgPolicies
        /\ UNCHANGED <<consecutive, cooling, workerCooling, ipCooling, failures>>
    BY <1>1 DEF Reconfigure, ConfigureAwg, PlanTypeOK, storeVars
  <2>2. changes' \in 0..MaxChanges /\ gen' \in 0..changes'
    BY <2>1, PlanAssumption DEF PlanTypeOK
  <2> QED
    BY <2>1, <2>2 DEF PlanTypeOK
<1>2. ASSUME NEW r \in RouteKinds, CooldownOver(r) PROVE PlanTypeOK'
  <2>1. StoreTypes'
    BY <1>0, <1>2 DEF CooldownOver, StoreTypes
  <2> QED
    BY <1>0, <1>2, <2>1, PlanTypesKept DEF CooldownOver
<1>3. CASE WorkerCooldownOver \/ IPCooldownOver \/ OthersSilent
  <2>1. StoreTypes'
    BY <1>0, <1>3 DEF WorkerCooldownOver, IPCooldownOver, OthersSilent, StoreTypes, storeVars
  <2> QED
    BY <1>0, <1>3, <2>1, PlanTypesKept DEF WorkerCooldownOver, IPCooldownOver, OthersSilent
<1>4. ASSUME NEW r \in RouteKinds, OthersFail(r) PROVE PlanTypeOK'
  <2>1. StoreTypes'
    BY <1>0, <1>4, RecordFailureTypes DEF OthersFail
  <2> QED
    BY <1>0, <1>4, <2>1, PlanTypesKept, CountFailureTypes DEF OthersFail
<1>5. CASE OthersTimeOut
  <2>1. StoreTypes'
    BY <1>0, <1>5 DEF OthersTimeOut, StoreTypes, storeVars
  <2> QED
    BY <1>0, <1>5, <2>1, PlanTypesKept, CountFailureTypes DEF OthersTimeOut
<1> QED
  BY <1>1, <1>2, <1>3, <1>4, <1>5 DEF Environment

\* The stores under the steps of a session.
LEMMA SocksPlanTypes ==
  ASSUME TypesInv, NEW s \in Sessions, SocksStep(s) \/ Accept(s)
  PROVE  PlanTypeOK'
<1>0. /\ StoreTypes /\ workerCooling \in BOOLEAN /\ ipCooling \in BOOLEAN
      /\ failures \in 0..MaxFailures /\ PlanTypeOK
  BY PlanTypesParts DEF TypesInv
<1>1. CASE UNCHANGED planVars
  BY <1>0, <1>1 DEF planVars, storeVars, PlanTypeOK
<1>2. CASE DirectConnects(s)
  <2>1. StoreTypes'
    BY <1>0, <1>2 DEF DirectConnects, StoreTypes, storeVars
  <2> QED
    BY <1>0, <1>2, <2>1, PlanTypesKept DEF DirectConnects
<1>3. ASSUME NEW timedOut \in BOOLEAN, DirectFails(s, timedOut) PROVE PlanTypeOK'
  <2>1. \E times \in Nat : RecordFailure("direct_ws", times)
    <3>1. \A times \in 1..2 : (IF accepted[s].c.mode \in Adaptive THEN times ELSE 0) \in Nat
      OBVIOUS
    <3> QED
      BY <1>3, <3>1 DEF DirectFails
  <2>2. StoreTypes'
    BY <1>0, <2>1, RecordFailureTypes DEF RouteKinds
  <2>3. ipCooling' \in BOOLEAN
    BY <1>3 DEF DirectFails
  <2> QED
    BY <1>0, <1>3, <2>2, <2>3, PlanTypesKept, CountFailureTypes DEF DirectFails
<1>4. CASE DirectBreaks(s)
  <2>1. StoreTypes'
    BY <1>0, <1>4 DEF DirectBreaks, StoreTypes, storeVars
  <2> QED
    BY <1>0, <1>4, <2>1, PlanTypesKept, CountFailureTypes DEF DirectBreaks
<1>5. CASE RouteClosed(s)
  <2>1. \E r \in {"cf_worker_ws", "cf_proxy_ws"} : RecordFailure(r, Recorded(s, r, 0))
    BY <1>5 DEF RouteClosed
  <2>2. StoreTypes'
    BY <1>0, <2>1, RecordFailureTypes, RecordedType DEF RouteKinds
  <2> QED
    BY <1>0, <1>5, <2>2, PlanTypesKept DEF RouteClosed
<1>6. CASE RouteFails(s)
  <2>1. route[s] \in {"cf_worker_ws", "cf_proxy_ws", "tcp_fallback"}
    BY <1>6 DEF RouteFails, TypesInv, Dialing, RouteKinds
  <2>2. \E own \in 0..2 : RecordFailure(route[s], Recorded(s, route[s], own))
    BY <1>6 DEF RouteFails
  <2>3. StoreTypes'
    BY <1>0, <2>1, <2>2, RecordFailureTypes, RecordedType DEF RouteKinds
  <2> QED
    BY <1>0, <1>6, <2>3, PlanTypesKept, CountFailureTypes DEF RouteFails
<1>7. ASSUME NEW neutral \in BOOLEAN, NEW silent \in BOOLEAN, BridgeEnds(s, neutral, silent)
      PROVE  PlanTypeOK'
  <2>1. StoreTypes'
    BY <1>0, <1>7 DEF BridgeEnds, StoreTypes, storeVars
  <2>2. workerCooling' \in BOOLEAN
    BY <1>7 DEF BridgeEnds
  <2> QED
    BY <1>0, <1>7, <2>1, <2>2, PlanTypesKept DEF BridgeEnds
<1>8. CASE RecordsSuccess(s)
  <2>1. StoreTypes'
    BY <1>0, <1>8, RecordSuccessTypes DEF RecordsSuccess
  <2> QED
    BY <1>0, <1>8, <2>1, PlanTypesKept DEF RecordsSuccess
<1>9. \/ UNCHANGED planVars
      \/ DirectConnects(s) \/ DirectBreaks(s) \/ RouteClosed(s) \/ RouteFails(s)
      \/ RecordsSuccess(s)
      \/ \E timedOut \in BOOLEAN : DirectFails(s, timedOut)
      \/ \E neutral, silent \in BOOLEAN : BridgeEnds(s, neutral, silent)
  BY DEF SocksStep, Decides, Accept, DecideUnmapped, DecideFallback, DecideConfigured, Consider,
     DirectWrites, PlanChain, StartChain, ChainEnds, PassOverRoute, DialRoute, RouteConnects, Leave
<1> QED
  BY <1>1, <1>2, <1>3, <1>4, <1>5, <1>6, <1>7, <1>8, <1>9

\* Settings as a session reads them.
LEMMA SnapshotType ==
  ASSUME PlanTypeOK
  PROVE  Snapshot \in Snapshots /\ Unread \in Snapshots
<1>1. /\ settings \in Configs /\ gen \in 0..MaxChanges /\ changes \in 0..MaxChanges
      /\ 0 \in 0..MaxChanges
  BY PlanAssumption DEF PlanTypeOK
<1>2. (CHOOSE c \in Configs : TRUE) \in Configs
  BY <1>1
<1> QED
  BY <1>1, <1>2 DEF Snapshot, Unread, Snapshots

LEMMA DialTypes ==
  ASSUME TypesInv, NEW s \in Sessions, NEW r \in RouteKinds \ {"awg_warp"}, NEW isLast \in BOOLEAN,
         NEW snapshot \in Snapshots, Dial(s, r, isLast, snapshot),
         plan' \in [Sessions -> Seq(RouteKinds)],
         UNCHANGED <<blacklisted, failing, primary, accepted, chained>>
  PROVE  SocksTypeOK' /\ Dialing'
<1>0. SocksTypeOK
  BY DEF TypesInv
<1>1. /\ at' = [at EXCEPT ![s] = "dial"] /\ route' = [route EXCEPT ![s] = r]
      /\ tried' = [tried EXCEPT ![s] = @ \cup {r}] /\ last' = [last EXCEPT ![s] = isLast]
      /\ used' = [used EXCEPT ![s] = snapshot]
  BY DEF Dial, Goes
<1>2. at' \in [Sessions -> Places]
  BY <1>0, <1>1 DEF SocksTypeOK, Places
<1>3. /\ route' \in [Sessions -> RouteKinds \cup {NoRoute}]
      /\ tried' \in [Sessions -> SUBSET RouteKinds] /\ last' \in [Sessions -> BOOLEAN]
      /\ used' \in [Sessions -> Snapshots]
  BY <1>0, <1>1 DEF SocksTypeOK
<1>4. Dialing'
  BY <1>0, <1>1 DEF SocksTypeOK, TypesInv, Dialing
<1> QED
  BY <1>0, <1>2, <1>3, <1>4 DEF SocksTypeOK

LEMMA GoesTypes ==
  ASSUME TypesInv, NEW s \in Sessions, NEW place \in Places \ {"dial"},
         at' = [at EXCEPT ![s] = place],
         route' = route \/ route' = [route EXCEPT ![s] = NoRoute],
         plan' \in [Sessions -> Seq(RouteKinds)], primary' \in [Sessions -> BOOLEAN],
         chained' \in [Sessions -> Snapshots], blacklisted' \in BOOLEAN, failing' \in BOOLEAN,
         UNCHANGED <<last, accepted, used, tried>>
  PROVE  SocksTypeOK' /\ Dialing'
<1>0. SocksTypeOK
  BY DEF TypesInv
<1>1. at' \in [Sessions -> Places] /\ route' \in [Sessions -> RouteKinds \cup {NoRoute}]
  BY <1>0 DEF SocksTypeOK
<1>2. Dialing'
  BY <1>0 DEF SocksTypeOK, TypesInv, Dialing
<1> QED
  BY <1>0, <1>1, <1>2 DEF SocksTypeOK

\* The plan of a session that takes the first of its routes.
LEMMA TakeTypes ==
  ASSUME SocksTypeOK, NEW s \in Sessions, NEW r, TakeRoute(s, r)
  PROVE  /\ plan' \in [Sessions -> Seq(RouteKinds)] /\ at[s] = "chain" /\ r \in RouteKinds
         /\ plan[s] \in Seq(RouteKinds) /\ plan[s] # << >>
         /\ r = Head(plan[s]) /\ plan' = [plan EXCEPT ![s] = Tail(plan[s])]
<1>1. /\ plan[s] \in Seq(RouteKinds) /\ plan[s] # << >> /\ r = Head(plan[s])
      /\ plan' = [plan EXCEPT ![s] = Tail(plan[s])] /\ at[s] = "chain"
  BY DEF TakeRoute, SocksTypeOK
<1>2. Tail(plan[s]) \in Seq(RouteKinds) /\ r \in RouteKinds
  BY <1>1, HeadTail
<1>3. plan' \in [Sessions -> Seq(RouteKinds)]
  BY <1>1, <1>2 DEF SocksTypeOK
<1> QED
  BY <1>1, <1>2, <1>3

\* Where a session goes in the steps that dial nothing.
LEMMA ChainOverPlace ==
  ASSUME NEW s \in Sessions, ChainOver(s)
  PROVE  \E place \in {"consider", "exhausted"} : at' = [at EXCEPT ![s] = place]
BY DEF ChainOver, Goes

LEMMA PrimaryType ==
  ASSUME NEW c \in ConfigType
  PROVE  PrimaryRoutes(c) \in Seq(RouteKinds)
BY RoutesForModeSet, EmptySeq DEF PrimaryRoutes

\* The settings in force, and those a session has read, are settings of the host.
LEMMA ConfigTypes ==
  ASSUME TypesInv
  PROVE  /\ settings \in ConfigType
         /\ \A s \in Sessions : /\ accepted[s].c \in ConfigType /\ chained[s].c \in ConfigType
                                /\ accepted[s] \in Snapshots /\ chained[s] \in Snapshots
                                /\ accepted[s].era \in Nat
<1>1. settings \in ConfigType
  BY PlanAssumption DEF TypesInv, PlanTypeOK
<1>2. accepted \in [Sessions -> Snapshots] /\ chained \in [Sessions -> Snapshots]
  BY DEF TypesInv, SocksTypeOK
<1>3. \A snapshot \in Snapshots : snapshot.c \in ConfigType /\ snapshot.era \in Nat
  BY PlanAssumption DEF Snapshots
<1> QED
  BY <1>1, <1>2, <1>3

LEMMA StartTypes ==
  ASSUME TypesInv, NEW s \in Sessions, NEW routes \in Seq(RouteKinds), NEW isPrimary \in BOOLEAN,
         Start(s, routes, isPrimary),
         UNCHANGED <<blacklisted, failing, route, last, accepted, chained, used, tried>>
  PROVE  SocksTypeOK' /\ Dialing'
<1>1. SocksTypeOK
  BY DEF TypesInv
<1>2. plan' \in [Sessions -> Seq(RouteKinds)] /\ primary' \in [Sessions -> BOOLEAN]
  BY <1>1 DEF Start, SocksTypeOK
<1>3. at' = [at EXCEPT ![s] = "start"]
  BY DEF Start, Goes
<1> QED
  BY <1>1, <1>2, <1>3, GoesTypes DEF SocksTypeOK, Places

LEMMA DecisionTypes ==
  ASSUME TypesInv, NEW s \in Sessions,
         \/ \E unknown \in BOOLEAN : DecideUnmapped(s, unknown)
         \/ DecideFallback(s) \/ DecideConfigured(s) \/ Consider(s)
  PROVE  SocksTypeOK' /\ Dialing'
<1>0. /\ SocksTypeOK /\ accepted[s] \in Snapshots /\ accepted[s].c \in ConfigType
      /\ plan \in [Sessions -> Seq(RouteKinds)] /\ primary \in [Sessions -> BOOLEAN]
      /\ chained \in [Sessions -> Snapshots] /\ blacklisted \in BOOLEAN /\ failing \in BOOLEAN
  BY ConfigTypes DEF TypesInv, SocksTypeOK
<1>1. ASSUME NEW unknown \in BOOLEAN, DecideUnmapped(s, unknown) PROVE SocksTypeOK' /\ Dialing'
  <2>1. CASE Dial(s, "tcp_fallback", TRUE, accepted[s])
    BY <1>0, <1>1, <2>1, DialTypes DEF DecideUnmapped, RouteKinds
  <2>2. CASE Goes(s, "ended") /\ UNCHANGED <<route, tried, last, used>>
    BY <1>0, <1>1, <2>2, GoesTypes DEF DecideUnmapped, Goes, Places
  <2> QED
    BY <1>1, <2>1, <2>2 DEF DecideUnmapped
<1>2. CASE DecideFallback(s)
  BY <1>0, <1>2, GoesTypes DEF DecideFallback, Goes, Places
<1>3. CASE DecideConfigured(s)
  <2>1. CASE Start(s, PrimaryRoutes(accepted[s].c), TRUE)
    BY <1>0, <1>3, <2>1, StartTypes, PrimaryType DEF DecideConfigured
  <2>2. CASE Goes(s, "consider") /\ UNCHANGED <<plan, primary>>
    BY <1>0, <1>3, <2>2, GoesTypes DEF DecideConfigured, Goes, Places
  <2> QED
    BY <1>3, <2>1, <2>2 DEF DecideConfigured
<1>4. CASE Consider(s)
  <2>1. CASE Dial(s, "direct_ws", FALSE, accepted[s])
    BY <1>0, <1>4, <2>1, DialTypes DEF Consider, RouteKinds
  <2>2. CASE Goes(s, "plan") /\ UNCHANGED <<route, tried, last, used>>
    BY <1>0, <1>4, <2>2, GoesTypes DEF Consider, Goes, Places
  <2> QED
    BY <1>4, <2>1, <2>2 DEF Consider
<1> QED
  BY <1>1, <1>2, <1>3, <1>4

LEMMA DirectTypes ==
  ASSUME TypesInv, NEW s \in Sessions,
         \/ DirectConnects(s) \/ DirectWrites(s) \/ DirectBreaks(s)
         \/ \E timedOut \in BOOLEAN : DirectFails(s, timedOut)
  PROVE  SocksTypeOK' /\ Dialing'
<1>0. /\ SocksTypeOK /\ accepted[s] \in Snapshots
      /\ plan \in [Sessions -> Seq(RouteKinds)] /\ primary \in [Sessions -> BOOLEAN]
      /\ chained \in [Sessions -> Snapshots] /\ blacklisted \in BOOLEAN /\ failing \in BOOLEAN
  BY ConfigTypes DEF TypesInv, SocksTypeOK
<1>1. CASE DirectConnects(s)
  BY <1>0, <1>1, GoesTypes DEF DirectConnects, Goes, Places
<1>2. CASE DirectWrites(s)
  BY <1>0, <1>2, GoesTypes DEF DirectWrites, Goes, Places
<1>3. CASE DirectBreaks(s)
  BY <1>0, <1>3, DialTypes DEF DirectBreaks, RouteKinds
<1>4. ASSUME NEW timedOut \in BOOLEAN, DirectFails(s, timedOut) PROVE SocksTypeOK' /\ Dialing'
  BY <1>0, <1>4, GoesTypes DEF DirectFails, Goes, Places
<1> QED
  BY <1>1, <1>2, <1>3, <1>4

LEMMA ChainTypes ==
  ASSUME TypesInv, NEW s \in Sessions,
         \/ PlanChain(s) \/ StartChain(s) \/ ChainEnds(s) \/ PassOverRoute(s) \/ DialRoute(s)
         \/ RouteClosed(s) \/ RouteConnects(s) \/ RouteFails(s)
  PROVE  SocksTypeOK' /\ Dialing'
<1>0. /\ SocksTypeOK /\ settings \in ConfigType /\ chained[s] \in Snapshots
      /\ plan \in [Sessions -> Seq(RouteKinds)] /\ primary \in [Sessions -> BOOLEAN]
      /\ chained \in [Sessions -> Snapshots] /\ blacklisted \in BOOLEAN /\ failing \in BOOLEAN
      /\ Snapshot \in Snapshots
  BY ConfigTypes, SnapshotType DEF TypesInv, SocksTypeOK
<1>1. CASE PlanChain(s)
  BY <1>0, <1>1, AdaptiveRoutesPlan, StartTypes DEF PlanChain
<1>2. CASE StartChain(s)
  <2>1. /\ plan' = [plan EXCEPT ![s] = FilterWorkerCooldown(plan[s])]
        /\ chained' = [chained EXCEPT ![s] = Snapshot]
    BY <1>2 DEF StartChain
  <2>2. FilterWorkerCooldown(plan[s]) \in Seq(RouteKinds)
    BY <1>0, WorkerFilter
  <2>3. plan' \in [Sessions -> Seq(RouteKinds)] /\ chained' \in [Sessions -> Snapshots]
    BY <1>0, <2>1, <2>2
  <2>4. \E place \in Places \ {"dial"} : at' = [at EXCEPT ![s] = place]
    BY <1>2, ChainOverPlace DEF StartChain, Goes, Places
  <2> QED
    BY <1>0, <1>2, <2>3, <2>4, GoesTypes DEF StartChain
<1>3. CASE ChainEnds(s)
  <2>1. \E place \in Places \ {"dial"} : at' = [at EXCEPT ![s] = place]
    BY <1>3, ChainOverPlace DEF ChainEnds, Places
  <2> QED
    BY <1>0, <1>3, <2>1, GoesTypes DEF ChainEnds
<1>4. CASE PassOverRoute(s)
  <2>1. plan' \in [Sessions -> Seq(RouteKinds)]
    BY <1>0, <1>4, TakeTypes DEF PassOverRoute
  <2>2. UNCHANGED <<blacklisted, failing, at, route, primary, last, accepted, chained, used, tried>>
    BY <1>4 DEF PassOverRoute
  <2> QED
    BY <1>0, <2>1, <2>2 DEF TypesInv, SocksTypeOK, Dialing
<1>5. CASE DialRoute(s)
  <2>1. PICK r \in {"cf_worker_ws", "cf_proxy_ws", "tcp_fallback"} :
          TakeRoute(s, r) /\ Dial(s, r, FALSE, IF r = "tcp_fallback" THEN chained[s] ELSE Snapshot)
    BY <1>5 DEF DialRoute
  <2>2. plan' \in [Sessions -> Seq(RouteKinds)]
    BY <1>0, <2>1, TakeTypes
  <2>3. UNCHANGED <<blacklisted, failing, primary, accepted, chained>>
    BY <1>5 DEF DialRoute
  <2>4. r \in RouteKinds \ {"awg_warp"}
    BY DEF RouteKinds
  <2> QED
    BY <1>0, <2>1, <2>2, <2>3, <2>4, DialTypes
<1>6. CASE RouteClosed(s)
  <2>1. PICK r \in {"cf_worker_ws", "cf_proxy_ws"} : TakeRoute(s, r) /\ AfterFailure(s, r)
    BY <1>6 DEF RouteClosed
  <2>2. plan' \in [Sessions -> Seq(RouteKinds)]
    BY <1>0, <2>1, TakeTypes
  <2>3. \E place \in Places \ {"dial"} : at' = [at EXCEPT ![s] = place]
    BY <2>1, ChainOverPlace DEF AfterFailure, Goes, Places
  <2> QED
    BY <1>0, <1>6, <2>2, <2>3, GoesTypes DEF RouteClosed
<1>7. CASE RouteConnects(s)
  BY <1>0, <1>7, GoesTypes DEF RouteConnects, Goes, Places
<1>8. CASE RouteFails(s)
  <2>1. \E place \in Places \ {"dial"} : at' = [at EXCEPT ![s] = place]
    BY <1>8, ChainOverPlace DEF RouteFails, AfterFailure, Goes, Places
  <2> QED
    BY <1>0, <1>8, <2>1, GoesTypes DEF RouteFails
<1> QED
  BY <1>1, <1>2, <1>3, <1>4, <1>5, <1>6, <1>7, <1>8

LEMMA EndTypes ==
  ASSUME TypesInv, NEW s \in Sessions,
         \/ \E neutral, silent \in BOOLEAN : BridgeEnds(s, neutral, silent)
         \/ RecordsSuccess(s) \/ Leave(s) \/ Accept(s)
  PROVE  SocksTypeOK' /\ Dialing'
<1>0. /\ SocksTypeOK /\ Snapshot \in Snapshots /\ Unread \in Snapshots
      /\ plan \in [Sessions -> Seq(RouteKinds)] /\ primary \in [Sessions -> BOOLEAN]
      /\ chained \in [Sessions -> Snapshots] /\ blacklisted \in BOOLEAN /\ failing \in BOOLEAN
  BY SnapshotType DEF TypesInv, SocksTypeOK
<1>1. ASSUME NEW neutral \in BOOLEAN, NEW silent \in BOOLEAN, BridgeEnds(s, neutral, silent)
      PROVE  SocksTypeOK' /\ Dialing'
  BY <1>0, <1>1, GoesTypes DEF BridgeEnds, Goes, Places
<1>2. CASE RecordsSuccess(s)
  BY <1>0, <1>2, GoesTypes DEF RecordsSuccess, Goes, Places
<1>3. CASE Accept(s)
  <2>1. /\ at' = [at EXCEPT ![s] = "decide"] /\ accepted' = [accepted EXCEPT ![s] = Snapshot]
        /\ UNCHANGED <<blacklisted, failing, route, plan, primary, last, chained, used, tried>>
    BY <1>3 DEF Accept, Goes
  <2>2. at' \in [Sessions -> Places] /\ accepted' \in [Sessions -> Snapshots]
    BY <1>0, <2>1 DEF SocksTypeOK, Places
  <2>3. Dialing'
    BY <1>0, <2>1 DEF TypesInv, Dialing, SocksTypeOK
  <2> QED
    BY <1>0, <2>1, <2>2, <2>3 DEF SocksTypeOK
<1>4. CASE Leave(s)
  <2>1. at' = [at EXCEPT ![s] = "idle"] /\ at' \in [Sessions -> Places]
    BY <1>0, <1>4 DEF Leave, Goes, SocksTypeOK, Places
  <2>2. /\ route' = [route EXCEPT ![s] = NoRoute] /\ plan' = [plan EXCEPT ![s] = << >>]
        /\ primary' = [primary EXCEPT ![s] = FALSE] /\ last' = [last EXCEPT ![s] = FALSE]
        /\ tried' = [tried EXCEPT ![s] = {}] /\ UNCHANGED <<blacklisted, failing>>
    BY <1>4 DEF Leave
  <2>3. /\ accepted' \in [Sessions -> Snapshots] /\ chained' \in [Sessions -> Snapshots]
        /\ used' \in [Sessions -> Snapshots]
    BY <1>0, <1>4 DEF Leave, SocksTypeOK
  <2>4. /\ route' \in [Sessions -> RouteKinds \cup {NoRoute}]
        /\ plan' \in [Sessions -> Seq(RouteKinds)] /\ primary' \in [Sessions -> BOOLEAN]
        /\ last' \in [Sessions -> BOOLEAN] /\ tried' \in [Sessions -> SUBSET RouteKinds]
    BY <1>0, <2>2, EmptySeq DEF SocksTypeOK
  <2>5. Dialing'
    BY <1>0, <2>1, <2>2 DEF TypesInv, Dialing, SocksTypeOK
  <2> QED
    BY <1>0, <2>1, <2>2, <2>3, <2>4, <2>5 DEF SocksTypeOK
<1> QED
  BY <1>1, <1>2, <1>3, <1>4

\* The plans of a connect.
LEMMA WithAwgWarpType ==
  ASSUME NEW routes \in Seq(RouteKinds)
  PROVE  WithAwgWarp(routes) \in Seq(RouteKinds)
<1> DEFINE others == Keep(routes, RouteKinds \ {"awg_warp"})
           notTcp == Keep(others, RouteKinds \ {"tcp_fallback"})
           tcp    == Keep(others, {"tcp_fallback"})
<1>1. others \in Seq(RouteKinds)
  BY KeepSet
<1> DEFINE q == WithAwgWarp(routes)
<1>2. /\ ~awg.enabled => q = routes
      /\ awg.enabled /\ awg.preferred =>
           q = IF awg.fallback THEN <<"awg_warp">> \o others ELSE <<"awg_warp">>
      /\ awg.enabled /\ ~awg.preferred =>
           q = IF awg.fallback THEN notTcp \o <<"awg_warp">> \o tcp ELSE others
  BY Zenon DEF WithAwgWarp
<1> HIDE DEF others
<1>3. notTcp \in Seq(RouteKinds) /\ tcp \in Seq(RouteKinds)
  BY <1>1, KeepSet
<1>4. <<"awg_warp">> \in Seq(RouteKinds)
  BY DEF RouteKinds
<1> HIDE DEF notTcp, tcp, q
<1>5. /\ <<"awg_warp">> \o others \in Seq(RouteKinds)
      /\ notTcp \o <<"awg_warp">> \in Seq(RouteKinds)
  BY <1>1, <1>3, <1>4, ConcatProperties
<1>6. (notTcp \o <<"awg_warp">>) \o tcp \in Seq(RouteKinds)
  BY <1>3, <1>5, ConcatProperties
<1> QED
  BY <1>1, <1>2, <1>4, <1>5, <1>6 DEF q

LEMMA PlansType ==
  ASSUME NEW c \in ConfigType, NEW test \in BOOLEAN, NEW routes \in PlansFor(c, test)
  PROVE  routes \in Seq(RouteKinds)
<1>1. TestRoutes(c) \in Seq(RouteKinds)
  <2>1. <<"direct_ws", "tcp_fallback">> \in Seq(RouteKinds)
    BY DEF RouteKinds
  <2> QED
    BY <2>1, KeepSet DEF TestRoutes
<1>2. ExplicitRoutes(c) \in Seq(RouteKinds)
  <2>1. c.order \in Seq(RouteKinds)
    BY DEF ConfigType
  <2> QED
    BY <2>1, KeepSet DEF ExplicitRoutes
<1>3. FilterRoutesByPolicy(c, RoutesForMode(c, FALSE)) \in Seq(RouteKinds)
  BY RoutesForModeSet
<1>4. \A q \in AdaptiveRoutes(c, FALSE) : q \in Seq(RouteKinds)
  BY AdaptiveRoutesPlan
<1>5. \/ routes = WithAwgWarp(TestRoutes(c))
      \/ routes = ExplicitRoutes(c)
      \/ \E q \in AdaptiveRoutes(c, FALSE) : routes = WithAwgWarp(q)
      \/ routes = WithAwgWarp(FilterRoutesByPolicy(c, RoutesForMode(c, FALSE)))
  BY DEF PlansFor
<1> QED
  BY <1>1, <1>2, <1>3, <1>4, <1>5, WithAwgWarpType

LEMMA GivesTypes ==
  ASSUME ConnectTypes, NEW m \in Connects,
         NEW place \in {"idle", "next", "dial", "connected", "failed"}, Gives(m, place),
         NEW routes \in Seq(RouteKinds), place = "dial" => routes # << >>,
         mplan' = [mplan EXCEPT ![m] = routes],
         mtest' \in [Connects -> BOOLEAN], cancelled' \in [Connects -> BOOLEAN],
         tcpCooling' \in BOOLEAN
  PROVE  ConnectTypes'
<1>1. mat' = [mat EXCEPT ![m] = place]
  BY DEF Gives
<1>2. /\ mat' \in [Connects -> {"idle", "next", "dial", "connected", "failed"}]
      /\ mplan' \in [Connects -> Seq(RouteKinds)]
  BY <1>1 DEF ConnectTypes
<1>3. \A k \in Connects : mat'[k] = "dial" => mplan'[k] # << >>
  BY <1>1 DEF ConnectTypes
<1> QED
  BY <1>2, <1>3 DEF ConnectTypes

LEMMA ConnectStepTypes ==
  ASSUME TypesInv, NEW m \in Connects, ConnectStep(m) \/ \E test \in BOOLEAN : Request(m, test)
  PROVE  ConnectTypes' /\ PlanTypeOK' /\ UNCHANGED socksVars
<1>0. /\ ConnectTypes /\ PlanTypeOK /\ mplan[m] \in Seq(RouteKinds)
      /\ mtest \in [Connects -> BOOLEAN] /\ cancelled \in [Connects -> BOOLEAN]
      /\ tcpCooling \in BOOLEAN /\ mplan = [mplan EXCEPT ![m] = mplan[m]]
  BY DEF TypesInv, ConnectTypes
<1>1. mplan[m] # << >> => Tail(mplan[m]) \in Seq(RouteKinds)
  BY <1>0, HeadTail
<1>2. ASSUME UNCHANGED planVars PROVE PlanTypeOK'
  BY <1>0, <1>2 DEF planVars, storeVars, PlanTypeOK
<1>3. ASSUME NEW test \in BOOLEAN, Request(m, test)
      PROVE  ConnectTypes' /\ PlanTypeOK' /\ UNCHANGED socksVars
  <2>1. PICK routes \in PlansFor(settings, test) : mplan' = [mplan EXCEPT ![m] = routes]
    BY <1>3 DEF Request
  <2>2. routes \in Seq(RouteKinds)
    BY <2>1, ConfigTypes, PlansType
  <2>3. Gives(m, "next") /\ UNCHANGED <<planVars, socksVars, cancelled, tcpCooling>>
    BY <1>3 DEF Request, Gives
  <2>4. mtest' \in [Connects -> BOOLEAN]
    BY <1>0, <1>3 DEF Request
  <2> QED
    BY <1>0, <1>2, <2>1, <2>2, <2>3, <2>4, GivesTypes
<1>4. CASE Cancel(m)
  <2>1. UNCHANGED <<planVars, socksVars, mat, mplan, mtest, tcpCooling>>
    BY <1>4 DEF Cancel
  <2>2. cancelled' \in [Connects -> BOOLEAN]
    BY <1>0, <1>4 DEF Cancel
  <2> QED
    BY <1>0, <1>2, <2>1, <2>2 DEF ConnectTypes
<1>5. CASE GiveUp(m)
  BY <1>0, <1>2, <1>5, GivesTypes DEF GiveUp
<1>6. CASE RouteRefuses(m)
  <2>1. /\ mat[m] = "next" /\ mplan[m] # << >> /\ mplan' = [mplan EXCEPT ![m] = Tail(mplan[m])]
        /\ UNCHANGED <<planVars, socksVars, mat, mtest, cancelled, tcpCooling>>
    BY <1>6 DEF RouteRefuses
  <2>2. Gives(m, "next")
    BY <1>0, <2>1 DEF Gives, ConnectTypes
  <2> QED
    BY <1>0, <1>1, <1>2, <2>1, <2>2, GivesTypes
<1>7. CASE RouteDials(m)
  BY <1>0, <1>2, <1>7, GivesTypes DEF RouteDials
<1>8. CASE DialSucceeds(m)
  <2>1. StoreTypes' /\ workerCooling' \in BOOLEAN /\ failures' \in 0..MaxFailures
    BY <1>0, <1>8, PlanTypesParts DEF DialSucceeds, StoreTypes, storeVars
  <2>2. ipCooling' \in BOOLEAN /\ tcpCooling' \in BOOLEAN
    BY <1>8 DEF DialSucceeds
  <2>3. PlanTypeOK'
    BY <1>0, <1>8, <2>1, <2>2, PlanTypesKept DEF DialSucceeds
  <2> QED
    BY <1>0, <1>8, <2>2, <2>3, GivesTypes DEF DialSucceeds
<1>9. ASSUME NEW marked \in BOOLEAN, DialFails(m, marked)
      PROVE  ConnectTypes' /\ PlanTypeOK' /\ UNCHANGED socksVars
  <2>1. StoreTypes' /\ workerCooling' \in BOOLEAN /\ failures' \in 0..MaxFailures
    BY <1>0, <1>9, PlanTypesParts, CountFailureTypes DEF DialFails, StoreTypes, storeVars
  <2>2. ipCooling' \in BOOLEAN /\ tcpCooling' \in BOOLEAN
    BY <1>9 DEF DialFails
  <2>3. PlanTypeOK'
    BY <1>0, <1>9, <2>1, <2>2, PlanTypesKept DEF DialFails
  <2>4. mplan[m] # << >>
    BY <1>0, <1>9 DEF DialFails, ConnectTypes
  <2>5. \/ Gives(m, "failed") /\ UNCHANGED mplan
        \/ Gives(m, "next") /\ mplan' = [mplan EXCEPT ![m] = Tail(mplan[m])]
    BY <1>9 DEF DialFails
  <2>6. UNCHANGED <<socksVars, mtest, cancelled>>
    BY <1>9 DEF DialFails
  <2> QED
    BY <1>0, <1>1, <2>2, <2>3, <2>4, <2>5, <2>6, GivesTypes
<1>10. CASE Answered(m)
  <2>1. mtest' \in [Connects -> BOOLEAN] /\ cancelled' \in [Connects -> BOOLEAN]
    BY <1>0, <1>10 DEF Answered
  <2> QED
    BY <1>0, <1>2, <1>10, <2>1, GivesTypes, EmptySeq DEF Answered
<1> QED
  BY <1>3, <1>4, <1>5, <1>6, <1>7, <1>8, <1>9, <1>10 DEF ConnectStep, Proceeds

LEMMA TypesInit == Init => TypesInv
<1> SUFFICES ASSUME Init PROVE TypesInv
  OBVIOUS
<1>1. PlanTypeOK
  <2>1. 0 \in 0..MaxChanges /\ 0 \in 0..0 /\ 0 \in 0..MaxFailures /\ 0 \in 0..CooldownAfter
    BY PlanAssumption
  <2>2. StoreTypes
    BY <2>1 DEF Init, InitPlan, StoreTypes
  <2> QED
    BY <2>1, <2>2 DEF Init, InitPlan, PlanTypeOK, StoreTypes
<1>2. Unread \in Snapshots
  BY <1>1, SnapshotType
<1>3. SocksTypeOK
  BY <1>2, EmptySeq DEF Init, InitSocks, SocksTypeOK, Places
<1>4. ConnectTypes
  BY EmptySeq DEF Init, ConnectTypes
<1>5. Dialing
  BY DEF Init, InitSocks, Dialing
<1> QED
  BY <1>1, <1>3, <1>4, <1>5 DEF TypesInv

LEMMA TypesStep == TypesInv /\ [Next]_vars => TypesInv'
<1> SUFFICES ASSUME TypesInv, [Next]_vars PROVE TypesInv'
  OBVIOUS
<1>0. PlanTypeOK /\ SocksTypeOK /\ ConnectTypes /\ Dialing
  BY DEF TypesInv
<1>1. UNCHANGED socksVars => SocksTypeOK' /\ Dialing'
  BY <1>0 DEF socksVars, SocksTypeOK, Dialing
<1>2. UNCHANGED connectVars => ConnectTypes'
  BY <1>0 DEF connectVars, ConnectTypes
<1>3. UNCHANGED planVars => PlanTypeOK'
  BY <1>0 DEF planVars, storeVars, PlanTypeOK
<1>4. CASE Environment /\ UNCHANGED <<socksVars, connectVars>>
  BY <1>0, <1>1, <1>2, <1>4, EnvironmentTypes DEF TypesInv
<1>5. CASE FailingOver /\ UNCHANGED connectVars
  <2>1. /\ UNCHANGED <<planVars, blacklisted, at, route, plan, primary, last, accepted, chained,
                       used, tried>>
        /\ failing' = FALSE
    BY <1>5 DEF FailingOver
  <2>2. SocksTypeOK' /\ Dialing'
    BY <1>0, <2>1 DEF SocksTypeOK, Dialing
  <2> QED
    BY <1>2, <1>3, <1>5, <2>1, <2>2 DEF TypesInv
<1>6. CASE TCPCooldownOver
  BY <1>0, <1>1, <1>3, <1>6 DEF TCPCooldownOver, ConnectTypes, TypesInv
<1>7. ASSUME NEW s \in Sessions, SocksStep(s) \/ Accept(s), UNCHANGED connectVars PROVE TypesInv'
  <2>1. PlanTypeOK'
    BY <1>7, SocksPlanTypes
  <2>2. SocksTypeOK' /\ Dialing'
    BY <1>7, DecisionTypes, DirectTypes, ChainTypes, EndTypes DEF SocksStep, Decides
  <2> QED
    BY <1>2, <1>7, <2>1, <2>2 DEF TypesInv
<1>8. ASSUME NEW m \in Connects, ConnectStep(m) \/ \E test \in BOOLEAN : Request(m, test)
      PROVE  TypesInv'
  BY <1>1, <1>8, ConnectStepTypes DEF TypesInv
<1>9. CASE UNCHANGED vars
  BY <1>1, <1>2, <1>3, <1>9 DEF vars, TypesInv
<1> QED
  BY <1>4, <1>5, <1>6, <1>7, <1>8, <1>9 DEF Next

\* Every variable keeps its type, for every set of settings and policies: whatever
\* is reordered, filtered or appended, a plan is a list of routes.
THEOREM TypesTheorem == Spec => []TypeOK
<1>1. Spec => []TypesInv
  BY TypesInit, TypesStep, PTL DEF Spec
<1>2. TypesInv => TypeOK
  BY DEF TypesInv, ConnectTypes, TypeOK
<1> QED
  BY <1>1, <1>2, PTL

-----------------------------------------------------------------------------
(* What a session dials while the settings stay *)

\* A session in a chain, or at the dial of one of its routes.
InChain(s) ==
  \/ at[s] = "chain"
  \/ at[s] = "dial" /\ route[s] # "direct_ws" /\ ~last[s]

\* While the settings stay, a session goes by those in force.
SeesSettings(s) ==
  /\ at[s] # "idle" => accepted[s].era <= changes
  /\ at[s] # "idle" /\ Steady(s) => accepted[s].c = settings
  /\ InChain(s) /\ Steady(s) => chained[s].c = settings

\* A session that Direct WS is barred to is not on its way there.  In a mode of one
\* route neither what it has dialed nor what it may dial yet is another.
OnlyItsRoute(s) ==
  Steady(s) /\ at[s] # "idle" /\ Confined(settings) =>
    /\ at[s] \notin {"consider", "write"}
    /\ ~primary[s]
    /\ "direct_ws" \notin tried[s]
    /\ settings.mode \in Restricted =>
         ToSet(plan[s]) \cup tried[s] \subseteq {OnlyRoute(settings.mode)}

\* What a chain has dialed and what it has still to try.
Reaches(s) == tried[s] \cup ToSet(plan[s])

\* A chain that starts holds open routes only, if there are any; from then on what
\* it has dialed and what it has to try leaves no open route out but a Worker that
\* rests.
ReachesOpen(s) ==
  ~primary[s] /\ Steady(s) /\ ~AwgExclusive =>
    /\ at[s] = "start" /\ OpenRoutes # {} => plan[s] # << >> /\ ToSet(plan[s]) \subseteq OpenRoutes
    /\ InChain(s) /\ OpenRoutes # {} => Reaches(s) \cap OpenRoutes # {}
    /\ (at[s] = "start" \/ InChain(s)) /\ settings.mode \notin Adaptive =>
         OpenRoutes \ {"cf_worker_ws"} \subseteq Reaches(s)

Exhausted(s) ==
  at[s] = "exhausted" /\ Steady(s) /\ ~AwgExclusive
    => /\ OpenRoutes # {} => tried[s] \cap OpenRoutes # {}
       /\ settings.mode \notin Adaptive => OpenRoutes \ {"cf_worker_ws"} \subseteq tried[s]

Sound(s) ==
  /\ at[s] = "idle" => plan[s] = << >> /\ tried[s] = {} /\ ~primary[s]
  /\ SeesSettings(s)
  /\ OnlyItsRoute(s)
  /\ ReachesOpen(s)
  /\ Exhausted(s)

\* What a SOCKS session consists of.
Of(s) == <<at[s], route[s], plan[s], primary[s], last[s], accepted[s], chained[s], tried[s]>>

\* A session that does nothing, while the host does nothing, is as sound as before.
LEMMA SoundIdle ==
  ASSUME NEW s \in Sessions, Sound(s), UNCHANGED <<settings, changes, awg>>, UNCHANGED Of(s)
  PROVE  Sound(s)'
BY DEF Sound, SeesSettings, OnlyItsRoute, ReachesOpen, Exhausted, Of, InChain, Steady, Reaches,
   OpenRoutes, AwgExclusive, Allows, Available

\* Once the host changes something, nothing is promised to the sessions there are.
LEMMA SoundChange ==
  ASSUME TypesInv, NEW s \in Sessions, Sound(s), changes' = changes + 1, UNCHANGED Of(s)
  PROVE  Sound(s)'
<1>1. accepted[s].era \in Nat /\ changes \in Nat
  BY ConfigTypes DEF TypesInv, PlanTypeOK
<1>2. at[s] # "idle" => accepted'[s].era <= changes' /\ ~ (accepted'[s].era = changes')
  BY <1>1 DEF Sound, SeesSettings, Of
<1> QED
  BY <1>2 DEF Sound, SeesSettings, OnlyItsRoute, ReachesOpen, Exhausted, Of, InChain, Steady

\* A step of one session is none of another, nor of the host.
LEMMA OnlyOwnStep ==
  ASSUME TypesInv, NEW t \in Sessions, SocksStep(t) \/ Accept(t)
  PROVE  /\ UNCHANGED <<settings, changes, awg>>
         /\ \A s \in Sessions \ {t} : UNCHANGED Of(s)
<1>0. /\ \A place : Goes(t, place) => \A s \in Sessions \ {t} : at'[s] = at[s]
      /\ \A r, isLast, snapshot : Dial(t, r, isLast, snapshot) =>
           \A s \in Sessions \ {t} :
             at'[s] = at[s] /\ route'[s] = route[s] /\ tried'[s] = tried[s] /\ last'[s] = last[s]
      /\ \A routes, isPrimary : Start(t, routes, isPrimary) =>
           \A s \in Sessions \ {t} :
             at'[s] = at[s] /\ plan'[s] = plan[s] /\ primary'[s] = primary[s]
      /\ ChainOver(t) => \A s \in Sessions \ {t} : at'[s] = at[s]
      /\ \A r : TakeRoute(t, r) => \A s \in Sessions \ {t} : plan'[s] = plan[s]
  BY DEF TypesInv, SocksTypeOK, Goes, Dial, Start, ChainOver, TakeRoute
<1>1. ASSUME \/ \E unknown \in BOOLEAN : DecideUnmapped(t, unknown)
             \/ DecideFallback(t) \/ DecideConfigured(t) \/ Consider(t)
      PROVE  /\ UNCHANGED <<settings, changes, awg>>
             /\ \A s \in Sessions \ {t} : UNCHANGED Of(s)
  BY <1>0, <1>1 DEF DecideUnmapped, DecideFallback, DecideConfigured, Consider, planVars, Of
<1>2. ASSUME \/ DirectConnects(t) \/ DirectWrites(t) \/ DirectBreaks(t)
             \/ \E timedOut \in BOOLEAN : DirectFails(t, timedOut)
      PROVE  /\ UNCHANGED <<settings, changes, awg>>
             /\ \A s \in Sessions \ {t} : UNCHANGED Of(s)
  BY <1>0, <1>2 DEF DirectConnects, DirectWrites, DirectBreaks, DirectFails, planVars, Of, TypesInv,
     SocksTypeOK
<1>3. ASSUME PlanChain(t) \/ StartChain(t) \/ ChainEnds(t) \/ PassOverRoute(t)
      PROVE  /\ UNCHANGED <<settings, changes, awg>>
             /\ \A s \in Sessions \ {t} : UNCHANGED Of(s)
  BY <1>0, <1>3 DEF PlanChain, StartChain, ChainEnds, PassOverRoute, planVars, Of, TypesInv,
     SocksTypeOK
<1>4. ASSUME DialRoute(t) \/ RouteClosed(t)
      PROVE  /\ UNCHANGED <<settings, changes, awg>>
             /\ \A s \in Sessions \ {t} : UNCHANGED Of(s)
  BY <1>0, <1>4 DEF DialRoute, RouteClosed, AfterFailure, planVars, Of
<1>5. ASSUME RouteConnects(t) \/ RouteFails(t)
      PROVE  /\ UNCHANGED <<settings, changes, awg>>
             /\ \A s \in Sessions \ {t} : UNCHANGED Of(s)
  BY <1>0, <1>5 DEF RouteConnects, RouteFails, AfterFailure, planVars, Of, TypesInv, SocksTypeOK
<1>6. ASSUME \/ \E neutral, silent \in BOOLEAN : BridgeEnds(t, neutral, silent)
             \/ RecordsSuccess(t) \/ Leave(t) \/ Accept(t)
      PROVE  /\ UNCHANGED <<settings, changes, awg>>
             /\ \A s \in Sessions \ {t} : UNCHANGED Of(s)
  BY <1>0, <1>6 DEF BridgeEnds, RecordsSuccess, Leave, Accept, planVars, Of, TypesInv,
     SocksTypeOK
<1> QED
  BY <1>1, <1>2, <1>3, <1>4, <1>5, <1>6 DEF SocksStep, Decides

\* The routes of the two modes that have one route, and of all.
LEMMA OnlyOrder ==
  ASSUME TypesInv
  PROVE  /\ settings.mode \in Restricted =>
              ToSet(ModeOrder(settings.mode)) = {OnlyRoute(settings.mode)}
         /\ settings.mode \in Restricted => settings.mode \notin Adaptive
         /\ "awg_warp" \notin ToSet(ModeOrder(settings.mode))
<1>0. settings.mode \in Modes
  BY ConfigTypes DEF ConfigType
<1>1. /\ settings.mode \in Adaptive =>
           ModeOrder(settings.mode) = <<"direct_ws", "cf_worker_ws", "cf_proxy_ws", "tcp_fallback">>
      /\ settings.mode = "worker_first" =>
           ModeOrder(settings.mode) = <<"cf_worker_ws", "cf_proxy_ws", "direct_ws", "tcp_fallback">>
      /\ settings.mode = "cf_first" =>
           ModeOrder(settings.mode) = <<"cf_proxy_ws", "cf_worker_ws", "direct_ws", "tcp_fallback">>
      /\ settings.mode = "worker_only" => ModeOrder(settings.mode) = <<"cf_worker_ws">>
      /\ settings.mode = "cf_only" => ModeOrder(settings.mode) = <<"cf_proxy_ws">>
      /\ settings.mode = "direct_only" => ModeOrder(settings.mode) = <<"direct_ws">>
  <2>1. settings.mode \in Adaptive =>
           ModeOrder(settings.mode) = <<"direct_ws", "cf_worker_ws", "cf_proxy_ws", "tcp_fallback">>
    BY DEF ModeOrder, Adaptive
  <2>2. settings.mode = "worker_first" =>
           ModeOrder(settings.mode) = <<"cf_worker_ws", "cf_proxy_ws", "direct_ws", "tcp_fallback">>
    BY DEF ModeOrder, Adaptive
  <2>3. settings.mode = "cf_first" =>
           ModeOrder(settings.mode) = <<"cf_proxy_ws", "cf_worker_ws", "direct_ws", "tcp_fallback">>
    BY DEF ModeOrder, Adaptive
  <2>4. settings.mode = "worker_only" => ModeOrder(settings.mode) = <<"cf_worker_ws">>
    BY DEF ModeOrder, Adaptive
  <2>5. settings.mode = "cf_only" => ModeOrder(settings.mode) = <<"cf_proxy_ws">>
    BY DEF ModeOrder, Adaptive
  <2>6. settings.mode = "direct_only" => ModeOrder(settings.mode) = <<"direct_ws">>
    BY DEF ModeOrder, Adaptive
  <2> QED
    BY <2>1, <2>2, <2>3, <2>4, <2>5, <2>6
<1>2. \A x, y : ToSet(<<x>>) = {x}
  BY DEF ToSet
<1>3. \A w, x, y, z : ToSet(<<w, x, y, z>>) = {w, x, y, z}
  <2> TAKE w, x, y, z
  <2>1. DOMAIN <<w, x, y, z>> = 1..4
    OBVIOUS
  <2> QED
    BY <2>1 DEF ToSet
<1>4. ASSUME settings.mode \in Restricted
      PROVE  ToSet(ModeOrder(settings.mode)) = {OnlyRoute(settings.mode)}
  BY <1>1, <1>2, <1>4 DEF Restricted, OnlyRoute
<1>5. settings.mode \in Restricted => settings.mode \notin Adaptive
  BY DEF Restricted, Adaptive
<1>6. "awg_warp" \notin ToSet(ModeOrder(settings.mode))
  BY <1>0, <1>1, <1>2, <1>3 DEF Modes, Restricted
<1> QED
  BY <1>4, <1>5, <1>6

LEMMA OpenIsLeft == OpenRoutes = Left(settings, TRUE)
BY DEF OpenRoutes, Left

\* What a step of a session does not change.
LEMMA SameEra ==
  ASSUME NEW s \in Sessions, UNCHANGED <<settings, changes, awg, accepted>>
  PROVE  /\ Steady(s)' <=> Steady(s)
         /\ OpenRoutes' = OpenRoutes
         /\ AwgExclusive' <=> AwgExclusive
BY DEF Steady, OpenRoutes, Allows, Available, AwgExclusive

\* The steps that lead a session to where it neither dials nor plans.
LEMMA SoundQuiet ==
  ASSUME NEW s \in Sessions, Sound(s), UNCHANGED <<settings, changes, awg, accepted>>,
         at[s] # "idle", at'[s] \in {"plan", "bridge", "record", "ended"},
         plan'[s] = plan[s], primary'[s] = primary[s], tried'[s] = tried[s]
  PROVE  Sound(s)'
<1>1. Steady(s)' <=> Steady(s)
  BY SameEra
<1>2. ~ InChain(s)'
  BY DEF InChain
<1> QED
  BY <1>1, <1>2 DEF Sound, SeesSettings, OnlyItsRoute, ReachesOpen, Exhausted

\* The steps on the way of Direct WS, and to a dial that ends the session.
LEMMA SoundDirect ==
  ASSUME NEW s \in Sessions, Sound(s), UNCHANGED <<settings, changes, awg, accepted>>,
         at[s] # "idle",
         \/ at'[s] \in {"consider", "write"}
         \/ at'[s] = "dial" /\ (route'[s] = "direct_ws" \/ last'[s]),
         ~ (Steady(s) /\ Confined(settings))
  PROVE  Sound(s)'
<1>1. Steady(s)' <=> Steady(s)
  BY SameEra
<1>2. ~ InChain(s)'
  BY DEF InChain
<1>3. at'[s] \notin {"idle", "start", "exhausted"}
  OBVIOUS
<1> QED
  BY <1>1, <1>2, <1>3 DEF Sound, SeesSettings, OnlyItsRoute, ReachesOpen, Exhausted

\* A session on the way of Direct WS is in none of the modes without it.
LEMMA DirectIsFree ==
  ASSUME TypesInv, NEW s \in Sessions, Sound(s),
         at[s] \in {"consider", "write"} \/ (at[s] = "dial" /\ route[s] = "direct_ws")
  PROVE  ~ (Steady(s) /\ Confined(settings))
<1>1. at[s] = "dial" => route[s] \in tried[s]
  BY DEF TypesInv, Dialing
<1> QED
  BY <1>1 DEF Sound, OnlyItsRoute

LEMMA SoundDecisions ==
  ASSUME TypesInv, NEW s \in Sessions, Sound(s),
         \/ \E unknown \in BOOLEAN : DecideUnmapped(s, unknown)
         \/ DecideFallback(s) \/ DecideConfigured(s) \/ Consider(s)
  PROVE  Sound(s)'
<1>0. /\ DOMAIN at = Sessions /\ DOMAIN route = Sessions /\ DOMAIN last = Sessions
      /\ DOMAIN plan = Sessions /\ DOMAIN primary = Sessions /\ DOMAIN tried = Sessions
  BY DEF TypesInv, SocksTypeOK
<1>1. UNCHANGED <<settings, changes, awg, accepted>> /\ at[s] \in {"decide", "consider"}
  BY DEF DecideUnmapped, DecideFallback, DecideConfigured, Consider, planVars
<1>2. Steady(s) => accepted[s].c = settings
  BY <1>1 DEF Sound, SeesSettings
<1>3. ASSUME NEW unknown \in BOOLEAN, DecideUnmapped(s, unknown) PROVE Sound(s)'
  <2>1. CASE Goes(s, "ended") /\ UNCHANGED <<route, tried, last, used>>
    BY <1>0, <1>1, <1>3, <2>1, SoundQuiet DEF DecideUnmapped, Goes
  <2>2. CASE ~ Confined(accepted[s].c) /\ Dial(s, "tcp_fallback", TRUE, accepted[s])
    BY <1>0, <1>1, <1>2, <2>2, SoundDirect DEF Dial, Goes
  <2> QED
    BY <1>3, <2>1, <2>2 DEF DecideUnmapped
<1>4. CASE DecideFallback(s)
  BY <1>0, <1>1, <1>4, SoundQuiet DEF DecideFallback, Goes
<1>5. CASE DecideConfigured(s)
  <2>1. ~ (Steady(s) /\ Confined(settings))
    BY <1>2, <1>5 DEF DecideConfigured, DirectBarred
  <2>2. CASE Goes(s, "consider") /\ UNCHANGED <<plan, primary>>
    BY <1>0, <1>1, <2>1, <2>2, SoundDirect DEF Goes
  <2>3. CASE Start(s, PrimaryRoutes(accepted[s].c), TRUE)
    <3>1. at'[s] = "start" /\ primary'[s] = TRUE
      BY <1>0, <2>3 DEF Start, Goes
    <3>2. Steady(s)' <=> Steady(s)
      BY <1>1, SameEra
    <3> QED
      BY <1>1, <2>1, <3>1, <3>2
      DEF Sound, SeesSettings, OnlyItsRoute, ReachesOpen, Exhausted, InChain
  <2> QED
    BY <1>5, <2>2, <2>3 DEF DecideConfigured
<1>6. CASE Consider(s)
  <2>1. ~ (Steady(s) /\ Confined(settings))
    BY <1>6, DirectIsFree DEF Consider
  <2>2. CASE Goes(s, "plan") /\ UNCHANGED <<route, tried, last, used>>
    BY <1>0, <1>1, <1>6, <2>2, SoundQuiet DEF Consider, Goes
  <2>3. CASE Dial(s, "direct_ws", FALSE, accepted[s])
    BY <1>0, <1>1, <2>1, <2>3, SoundDirect DEF Dial, Goes
  <2> QED
    BY <1>6, <2>2, <2>3 DEF Consider
<1> QED
  BY <1>3, <1>4, <1>5, <1>6

LEMMA SoundDirectSteps ==
  ASSUME TypesInv, NEW s \in Sessions, Sound(s),
         \/ DirectConnects(s) \/ DirectWrites(s) \/ DirectBreaks(s)
         \/ \E timedOut \in BOOLEAN : DirectFails(s, timedOut)
  PROVE  Sound(s)'
<1>0. /\ DOMAIN at = Sessions /\ DOMAIN route = Sessions /\ DOMAIN last = Sessions
  BY DEF TypesInv, SocksTypeOK
<1>1. UNCHANGED <<settings, changes, awg, accepted>> /\ at[s] \in {"dial", "write"}
  BY DEF DirectConnects, DirectWrites, DirectBreaks, DirectFails, planVars
<1>2. ~ (Steady(s) /\ Confined(settings))
  BY DirectIsFree DEF DirectConnects, DirectWrites, DirectBreaks, DirectFails
<1>3. CASE DirectConnects(s)
  BY <1>0, <1>1, <1>2, <1>3, SoundDirect DEF DirectConnects, Goes
<1>4. CASE DirectBreaks(s)
  BY <1>0, <1>1, <1>2, <1>4, SoundDirect DEF DirectBreaks, Dial, Goes
<1>5. CASE DirectWrites(s)
  BY <1>0, <1>1, <1>5, SoundQuiet DEF DirectWrites, Goes
<1>6. ASSUME NEW timedOut \in BOOLEAN, DirectFails(s, timedOut) PROVE Sound(s)'
  BY <1>0, <1>1, <1>6, SoundQuiet DEF DirectFails, Goes
<1> QED
  BY <1>3, <1>4, <1>5, <1>6

\* A chain planned while the settings stay.
LEMMA SoundPlan ==
  ASSUME TypesInv, NEW s \in Sessions, Sound(s), PlanChain(s)
  PROVE  Sound(s)'
<1>0. /\ DOMAIN at = Sessions /\ DOMAIN plan = Sessions /\ DOMAIN primary = Sessions
      /\ settings \in ConfigType
  BY ConfigTypes DEF TypesInv, SocksTypeOK
<1>1. /\ UNCHANGED <<settings, changes, awg, accepted, tried>>
      /\ at[s] = "plan" /\ at'[s] = "start" /\ primary'[s] = FALSE
  BY <1>0 DEF PlanChain, Start, Goes, planVars
<1>2. plan'[s] \in AdaptiveRoutes(settings, TRUE)
  BY <1>0 DEF PlanChain, Start
<1> DEFINE q == plan'[s]
<1>3. /\ q \in Seq(RouteKinds)
      /\ ~AwgExclusive /\ OpenRoutes # {} => q # << >> /\ ToSet(q) \subseteq OpenRoutes
      /\ settings.mode \notin Adaptive => ToSet(q) \subseteq OpenRoutes
      /\ ~AwgExclusive /\ settings.mode \notin Adaptive =>
           OpenRoutes \ {"cf_worker_ws"} \subseteq ToSet(q)
  BY <1>0, <1>2, AdaptiveRoutesPlan, OpenIsLeft
<1>4. /\ Steady(s)' <=> Steady(s)
      /\ OpenRoutes' = OpenRoutes
      /\ AwgExclusive' <=> AwgExclusive
  BY <1>1, SameEra
<1>5. ~ InChain(s)'
  BY <1>1 DEF InChain
<1>6. OpenRoutes \subseteq ToSet(ModeOrder(settings.mode))
  BY DEF OpenRoutes
<1>7. OnlyItsRoute(s)'
  BY <1>1, <1>3, <1>4, <1>6, OnlyOrder DEF Sound, OnlyItsRoute
<1>8. ReachesOpen(s)'
  BY <1>1, <1>3, <1>4, <1>5 DEF ReachesOpen, Reaches
<1> QED
  BY <1>1, <1>4, <1>5, <1>7, <1>8 DEF Sound, SeesSettings, Exhausted

\* The end of a chain: to Direct WS, or to the refusal of the client.
LEMMA SoundChainOver ==
  ASSUME TypesInv, NEW s \in Sessions, Sound(s), ChainOver(s), at[s] # "idle",
         UNCHANGED <<settings, changes, awg, accepted, primary>>,
         ToSet(plan'[s]) \subseteq ToSet(plan[s]), tried'[s] = tried[s],
         ~primary[s] /\ Steady(s) /\ ~AwgExclusive =>
           /\ OpenRoutes # {} => tried[s] \cap OpenRoutes # {}
           /\ settings.mode \notin Adaptive => OpenRoutes \ {"cf_worker_ws"} \subseteq tried[s]
  PROVE  Sound(s)'
<1>1. at'[s] = IF primary[s] THEN "consider" ELSE "exhausted"
  BY DEF ChainOver, Goes, TypesInv, SocksTypeOK
<1>2. /\ Steady(s)' <=> Steady(s)
      /\ OpenRoutes' = OpenRoutes
      /\ AwgExclusive' <=> AwgExclusive
  BY SameEra
<1>3. ~ InChain(s)' /\ at'[s] \notin {"idle", "start", "write"}
  BY <1>1 DEF InChain
<1>4. SeesSettings(s)'
  BY <1>2, <1>3 DEF Sound, SeesSettings
<1>5. OnlyItsRoute(s)'
  BY <1>1, <1>2 DEF Sound, OnlyItsRoute
<1>6. ReachesOpen(s)' /\ Exhausted(s)'
  BY <1>1, <1>2, <1>3 DEF ReachesOpen, Exhausted
<1> QED
  BY <1>3, <1>4, <1>5, <1>6 DEF Sound

\* A step within a chain: what it drops is not open, and what it dials is tried.
LEMMA SoundInChain ==
  ASSUME NEW s \in Sessions, Sound(s), InChain(s), InChain(s)', at[s] # "idle",
         UNCHANGED <<settings, changes, awg, accepted, primary, chained>>,
         Reaches(s)' \subseteq Reaches(s), "direct_ws" \in tried'[s] => "direct_ws" \in tried[s],
         Steady(s) => Reaches(s) \cap OpenRoutes \subseteq Reaches(s)'
  PROVE  Sound(s)'
<1>1. /\ Steady(s)' <=> Steady(s)
      /\ OpenRoutes' = OpenRoutes
      /\ AwgExclusive' <=> AwgExclusive
  BY SameEra
<1>2. at'[s] \in {"chain", "dial"} /\ at[s] \in {"chain", "dial"}
  BY DEF InChain
<1>3. SeesSettings(s)'
  BY <1>1, <1>2 DEF Sound, SeesSettings
<1>4. OnlyItsRoute(s)'
  BY <1>1, <1>2 DEF Sound, OnlyItsRoute, Reaches
<1>5. ReachesOpen(s)'
  BY <1>1, <1>2 DEF Sound, ReachesOpen
<1> QED
  BY <1>2, <1>3, <1>4, <1>5 DEF Sound, Exhausted

LEMMA SoundStart ==
  ASSUME TypesInv, NEW s \in Sessions, Sound(s), StartChain(s)
  PROVE  Sound(s)'
<1>0. /\ DOMAIN at = Sessions /\ DOMAIN plan = Sessions /\ DOMAIN chained = Sessions
      /\ plan[s] \in Seq(RouteKinds)
  BY DEF TypesInv, SocksTypeOK
<1>1. /\ UNCHANGED <<settings, changes, awg, accepted, primary, tried>> /\ at[s] = "start"
      /\ plan'[s] = FilterWorkerCooldown(plan[s]) /\ chained'[s].c = settings
  BY <1>0 DEF StartChain, planVars, Snapshot
<1>2. /\ plan'[s] \in Seq(RouteKinds) /\ ToSet(plan'[s]) \subseteq ToSet(plan[s])
      /\ ToSet(plan[s]) \ {"cf_worker_ws"} \subseteq ToSet(plan'[s])
      /\ plan[s] # << >> => plan'[s] # << >>
  BY <1>0, <1>1, WorkerFilter
<1>3. plan[s] # << >> => ToSet(plan'[s]) # {}
  BY <1>2, SetOfList
<1>4. /\ Steady(s)' <=> Steady(s)
      /\ OpenRoutes' = OpenRoutes
      /\ AwgExclusive' <=> AwgExclusive
  BY <1>1, SameEra
<1>5. CASE /\ settings.mode \in Restricted /\ OnlyRoute(settings.mode) \notin settings.have
           /\ ChainOver(s)
  <2>1. OnlyRoute(settings.mode) \in {"cf_worker_ws", "cf_proxy_ws"}
    BY DEF OnlyRoute
  <2>2. OpenRoutes = {}
    BY <1>5, <2>1, OnlyOrder DEF OpenRoutes, Available
  <2> QED
    BY <1>1, <1>2, <1>5, <2>2, SoundChainOver
<1>6. CASE Goes(s, "chain")
  <2>1. at'[s] = "chain"
    BY <1>0, <1>6 DEF Goes
  <2>2. InChain(s)'
    BY <2>1 DEF InChain
  <2>3. SeesSettings(s)'
    BY <1>1, <1>4, <2>1 DEF Sound, SeesSettings
  <2>4. OnlyItsRoute(s)'
    BY <1>1, <1>2, <1>4, <2>1 DEF Sound, OnlyItsRoute
  <2>5. ReachesOpen(s)'
    BY <1>1, <1>2, <1>3, <1>4, <2>1 DEF Sound, ReachesOpen, Reaches
  <2> QED
    BY <2>1, <2>3, <2>4, <2>5 DEF Sound, Exhausted
<1> QED
  BY <1>5, <1>6 DEF StartChain

LEMMA SoundEnds ==
  ASSUME TypesInv, NEW s \in Sessions, Sound(s), ChainEnds(s)
  PROVE  Sound(s)'
<1>1. /\ UNCHANGED <<settings, changes, awg, accepted, primary, tried, plan>> /\ at[s] = "chain"
      /\ plan[s] = << >> /\ ChainOver(s)
  BY DEF ChainEnds, planVars
<1>2. ToSet(plan[s]) = {}
  BY <1>1 DEF ToSet
<1>3. InChain(s) /\ Reaches(s) = tried[s]
  BY <1>1, <1>2 DEF InChain, Reaches
<1> QED
  BY <1>1, <1>3, SoundChainOver DEF Sound, ReachesOpen

\* What a chain goes past is none of the open routes.
LEMMA TakenFrom ==
  ASSUME TypesInv, NEW s \in Sessions, NEW r, TakeRoute(s, r)
  PROVE  /\ ToSet(plan[s]) = {r} \cup ToSet(plan'[s]) /\ r \in RouteKinds /\ at[s] = "chain"
         /\ InChain(s)
<1>1. /\ at[s] = "chain" /\ r \in RouteKinds
      /\ plan[s] \in Seq(RouteKinds) /\ plan[s] # << >> /\ r = Head(plan[s])
      /\ plan' = [plan EXCEPT ![s] = Tail(plan[s])]
  BY TakeTypes DEF TypesInv
<1>2. plan'[s] = Tail(plan[s])
  BY <1>1 DEF TypesInv, SocksTypeOK
<1> QED
  BY <1>1, <1>2, HeadTail DEF InChain

LEMMA SoundPassOver ==
  ASSUME TypesInv, NEW s \in Sessions, Sound(s), PassOverRoute(s)
  PROVE  Sound(s)'
<1>1. PICK r \in RouteKinds :
        /\ TakeRoute(s, r)
        /\ r \in {"direct_ws", "awg_warp"} \/ (r = "cf_worker_ws" /\ r \notin chained[s].c.have)
  BY DEF PassOverRoute
<1>2. UNCHANGED <<settings, changes, awg, at, accepted, primary, chained, tried>>
  BY DEF PassOverRoute, planVars
<1>3. /\ ToSet(plan[s]) = {r} \cup ToSet(plan'[s]) /\ at[s] = "chain" /\ InChain(s)
  BY <1>1, TakenFrom
<1>4. Steady(s) => chained[s].c = settings
  BY <1>3 DEF Sound, SeesSettings
<1>5. Steady(s) => r \notin OpenRoutes
  BY <1>1, <1>4, OnlyOrder DEF OpenRoutes, Available
<1>6. InChain(s)'
  BY <1>2, <1>3 DEF InChain
<1> QED
  BY <1>2, <1>3, <1>5, <1>6, SoundInChain DEF Reaches

LEMMA SoundDial ==
  ASSUME TypesInv, NEW s \in Sessions, Sound(s), DialRoute(s)
  PROVE  Sound(s)'
<1>0. /\ DOMAIN at = Sessions /\ DOMAIN route = Sessions /\ DOMAIN last = Sessions
      /\ DOMAIN tried = Sessions
  BY DEF TypesInv, SocksTypeOK
<1>1. PICK r \in {"cf_worker_ws", "cf_proxy_ws", "tcp_fallback"} :
        TakeRoute(s, r) /\ Dial(s, r, FALSE, IF r = "tcp_fallback" THEN chained[s] ELSE Snapshot)
  BY DEF DialRoute
<1>2. UNCHANGED <<settings, changes, awg, accepted, primary, chained>>
  BY DEF DialRoute, planVars
<1>3. /\ ToSet(plan[s]) = {r} \cup ToSet(plan'[s]) /\ at[s] = "chain" /\ InChain(s)
  BY <1>1, TakenFrom
<1>4. /\ at'[s] = "dial" /\ route'[s] = r /\ last'[s] = FALSE /\ tried'[s] = tried[s] \cup {r}
  BY <1>0, <1>1 DEF Dial, Goes
<1>5. InChain(s)'
  BY <1>4 DEF InChain
<1> QED
  BY <1>2, <1>3, <1>4, <1>5, SoundInChain DEF Reaches

\* A failure in a mode that has the CF domains alone ends the chain.
LEMMA SoundCfOnly ==
  ASSUME TypesInv, NEW s \in Sessions, Sound(s), InChain(s), chained[s].c.mode = "cf_only",
         ChainOver(s), UNCHANGED <<settings, changes, awg, accepted, primary, tried>>,
         ToSet(plan'[s]) \subseteq ToSet(plan[s]),
         Steady(s) => "cf_proxy_ws" \in tried[s] \/ "cf_proxy_ws" \notin OpenRoutes
  PROVE  Sound(s)'
<1>1. at[s] # "idle"
  BY DEF InChain
<1>2. Steady(s) => settings.mode = "cf_only"
  BY DEF Sound, SeesSettings
<1>3. Steady(s) => OpenRoutes \subseteq {"cf_proxy_ws"}
  <2>1. "cf_only" \in Restricted /\ OnlyRoute("cf_only") = "cf_proxy_ws"
    BY DEF Restricted, OnlyRoute
  <2> QED
    BY <1>2, <2>1, OnlyOrder DEF OpenRoutes
<1> QED
  BY <1>1, <1>3, SoundChainOver

LEMMA SoundClosed ==
  ASSUME TypesInv, NEW s \in Sessions, Sound(s), RouteClosed(s)
  PROVE  Sound(s)'
<1>1. PICK r \in {"cf_worker_ws", "cf_proxy_ws"} :
        TakeRoute(s, r) /\ ~Open(r) /\ AfterFailure(s, r)
  BY DEF RouteClosed
<1>2. UNCHANGED <<settings, changes, awg, accepted, primary, chained, tried>>
  BY DEF RouteClosed
<1>3. /\ ToSet(plan[s]) = {r} \cup ToSet(plan'[s]) /\ at[s] = "chain" /\ InChain(s)
  BY <1>1, TakenFrom
<1>4. r \notin OpenRoutes
  BY <1>1 DEF Open, OpenRoutes
<1>5. CASE Goes(s, "chain")
  <2>1. InChain(s)'
    BY <1>5 DEF Goes, InChain, TypesInv, SocksTypeOK
  <2> QED
    BY <1>2, <1>3, <1>4, <2>1, SoundInChain DEF Reaches
<1>6. CASE r = "cf_proxy_ws" /\ chained[s].c.mode = "cf_only" /\ ChainOver(s)
  BY <1>2, <1>3, <1>4, <1>6, SoundCfOnly
<1> QED
  BY <1>1, <1>5, <1>6 DEF AfterFailure

LEMMA SoundFails ==
  ASSUME TypesInv, NEW s \in Sessions, Sound(s), RouteFails(s)
  PROVE  Sound(s)'
<1>0. DOMAIN at = Sessions /\ last[s] \in BOOLEAN
  BY DEF TypesInv, SocksTypeOK
<1>1. /\ UNCHANGED <<settings, changes, awg, accepted, primary, chained, tried, plan>>
      /\ at[s] = "dial" /\ route[s] # "direct_ws"
  BY DEF RouteFails
<1>2. CASE last[s]
  BY <1>0, <1>1, <1>2, SoundQuiet DEF RouteFails, Goes
<1>3. CASE ~ last[s] /\ Goes(s, "chain")
  <2>1. InChain(s) /\ InChain(s)'
    BY <1>0, <1>1, <1>3 DEF InChain, Goes
  <2> QED
    BY <1>1, <2>1, SoundInChain DEF Reaches
<1>4. CASE ~ last[s] /\ route[s] = "cf_proxy_ws" /\ chained[s].c.mode = "cf_only" /\ ChainOver(s)
  <2>1. InChain(s) /\ route[s] \in tried[s]
    BY <1>1, <1>4 DEF InChain, TypesInv, Dialing
  <2> QED
    BY <1>1, <1>4, <2>1, SoundCfOnly
<1> QED
  BY <1>2, <1>3, <1>4 DEF RouteFails, AfterFailure

LEMMA SoundLast ==
  ASSUME TypesInv, NEW s \in Sessions, Sound(s),
         \/ RouteConnects(s) \/ RecordsSuccess(s) \/ Leave(s) \/ Accept(s)
         \/ \E neutral, silent \in BOOLEAN : BridgeEnds(s, neutral, silent)
  PROVE  Sound(s)'
<1>0. /\ DOMAIN at = Sessions /\ DOMAIN accepted = Sessions /\ DOMAIN plan = Sessions
      /\ DOMAIN primary = Sessions /\ DOMAIN tried = Sessions
  BY DEF TypesInv, SocksTypeOK
<1>1. CASE RouteConnects(s)
  BY <1>0, <1>1, SoundQuiet DEF RouteConnects, Goes, planVars
<1>2. ASSUME NEW neutral \in BOOLEAN, NEW silent \in BOOLEAN, BridgeEnds(s, neutral, silent)
      PROVE  Sound(s)'
  BY <1>0, <1>2, SoundQuiet DEF BridgeEnds, Goes
<1>3. CASE RecordsSuccess(s)
  BY <1>0, <1>3, SoundQuiet DEF RecordsSuccess, Goes
<1>4. CASE Leave(s)
  <2>1. at'[s] = "idle" /\ plan'[s] = << >> /\ tried'[s] = {} /\ primary'[s] = FALSE
    BY <1>0, <1>4 DEF Leave, Goes
  <2> QED
    BY <2>1 DEF Sound, SeesSettings, OnlyItsRoute, ReachesOpen, Exhausted, InChain
<1>5. CASE Accept(s)
  <2>1. /\ at[s] = "idle" /\ at'[s] = "decide" /\ UNCHANGED <<settings, changes, plan, tried, primary>>
        /\ accepted'[s].c = settings /\ accepted'[s].era = changes
    BY <1>0, <1>5 DEF Accept, Goes, planVars, Snapshot
  <2>2. ToSet(plan'[s]) = {} /\ tried'[s] = {} /\ ~primary'[s]
    BY <2>1 DEF Sound, ToSet
  <2>3. changes \in Nat
    BY DEF TypesInv, PlanTypeOK
  <2> QED
    BY <2>1, <2>2, <2>3 DEF Sound, SeesSettings, OnlyItsRoute, ReachesOpen, Exhausted, InChain
<1> QED
  BY <1>1, <1>2, <1>3, <1>4, <1>5

SessionsSound == \A s \in Sessions : Sound(s)

LEMMA SoundInit == Init => SessionsSound
BY DEF Init, InitSocks, SessionsSound, Sound, SeesSettings, OnlyItsRoute, ReachesOpen, Exhausted,
   InChain

LEMMA SoundStep == TypesInv /\ SessionsSound /\ [Next]_vars => SessionsSound'
<1> SUFFICES ASSUME TypesInv, SessionsSound, [Next]_vars PROVE SessionsSound'
  OBVIOUS
<1>1. CASE Environment /\ UNCHANGED <<socksVars, connectVars>>
  <2>1. \A s \in Sessions : UNCHANGED Of(s)
    BY <1>1 DEF socksVars, Of
  <2>2. changes' = changes + 1 \/ UNCHANGED <<settings, changes, awg>>
    BY <1>1 DEF Environment, Reconfigure, ConfigureAwg, CooldownOver, WorkerCooldownOver,
       IPCooldownOver, OthersFail, OthersTimeOut, OthersSilent
  <2> QED
    BY <2>1, <2>2, SoundIdle, SoundChange DEF SessionsSound
<1>2. ASSUME NEW t \in Sessions, SocksStep(t) \/ Accept(t) PROVE SessionsSound'
  <2>1. Sound(t)
    BY DEF SessionsSound
  <2>2. Sound(t)'
    BY <1>2, <2>1, SoundDecisions, SoundDirectSteps, SoundPlan, SoundStart, SoundEnds,
       SoundPassOver, SoundDial, SoundClosed, SoundFails, SoundLast DEF SocksStep, Decides
  <2>3. \A s \in Sessions \ {t} : Sound(s)'
    BY <1>2, OnlyOwnStep, SoundIdle DEF SessionsSound
  <2> QED
    BY <2>2, <2>3 DEF SessionsSound
<1>3. ASSUME NEW m \in Connects, ConnectStep(m) \/ \E test \in BOOLEAN : Request(m, test)
      PROVE  SessionsSound'
  <2>1. UNCHANGED <<settings, changes, awg>>
    BY <1>3 DEF ConnectStep, Cancel, Proceeds, Answered, GiveUp, RouteRefuses, RouteDials,
       DialSucceeds, DialFails, Request, planVars
  <2>2. UNCHANGED socksVars
    BY <1>3, ConnectStepTypes
  <2>3. \A s \in Sessions : UNCHANGED Of(s)
    BY <2>2 DEF socksVars, Of
  <2> QED
    BY <2>1, <2>3, SoundIdle DEF SessionsSound
<1>4. CASE FailingOver \/ TCPCooldownOver \/ UNCHANGED vars
  <2>1. UNCHANGED <<settings, changes, awg>> /\ \A s \in Sessions : UNCHANGED Of(s)
    BY <1>4 DEF FailingOver, TCPCooldownOver, vars, planVars, socksVars, Of
  <2> QED
    BY <2>1, SoundIdle DEF SessionsSound
<1> QED
  BY <1>1, <1>2, <1>3, <1>4 DEF Next

\* What the two theorems below rest on, kept by every step.
THEOREM SoundHolds == Spec => [](TypesInv /\ SessionsSound)
BY TypesInit, TypesStep, SoundInit, SoundStep, PTL DEF Spec

\* While the settings stay, a session of worker_only or cf_only dials no other route,
\* and one under CF.Only no Direct WS, whatever fails, rests or is blacklisted.
THEOREM RestrictedTheorem == Spec => []RestrictedKept
<1>1. SessionsSound => RestrictedKept
  BY DEF SessionsSound, Sound, OnlyItsRoute, Confined, RestrictedKept
<1> QED
  BY <1>1, SoundHolds, PTL

\* While the settings stay, a client is turned away only after one of the open routes
\* was dialed, and in a mode with an order of its own all but a Worker that rests.
THEOREM RefusedTheorem == Spec => []RefusedExhausted
<1>1. SessionsSound => RefusedExhausted
  BY DEF SessionsSound, Sound, Exhausted, RefusedExhausted
<1> QED
  BY <1>1, SoundHolds, PTL

=============================================================================
