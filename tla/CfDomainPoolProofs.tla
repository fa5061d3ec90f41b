-------------------------- MODULE CfDomainPoolProofs --------------------------
(***************************************************************************)
(* Machine-checked safety of CfDomainPool, for every set of domains and    *)
(* attempts, all cooldown lengths and any number of changes of settings.   *)
(*                                                                         *)
(* PoolInv says that a reservation belongs to a dial and to a domain that  *)
(* is not cooling down; it holds whatever happens to the settings.  That   *)
(* the reservations are exactly the dials, and no domain is dialed twice,  *)
(* needs settings that stand still, and StableInv.                         *)
(***************************************************************************)
EXTENDS CfDomainPool, TLAPS

\* An attempt past its reservation knows the candidate it was made for.
HoldersHaveCandidate ==
  \A a \in Attempts : state[a] \in {"dialing", "connected", "bridging"} =>
                        current[a] \in Candidates

PoolInv == /\ TypeOK
           /\ HoldersHaveCandidate
           /\ NoOrphanReservation
           /\ ReservedNotCooling

-----------------------------------------------------------------------------
\* The cooldown lengths are numbers up to C6h.
LEMMA CooldownRange ==
  ASSUME NEW d \in Domains, NEW kind \in Kinds, NEW n \in 0..3
  PROVE  CooldownFor(d, kind, n) \in 1..C6h
<1>1. /\ C30 \in Nat /\ C120 \in Nat /\ C300 \in Nat /\ C600 \in Nat /\ C6h \in Nat
      /\ 0 < C30 /\ C30 <= C120 /\ C120 <= C300 /\ C300 <= C600 /\ C600 <= C6h
      /\ kind \in {"dns", "http_429", "http_403", "http_5xx", "timeout"}
  BY ConstantsAssumption DEF ConstantsAssumption
<1> DEFINE progressive == IF n >= 3 THEN C300 ELSE IF n = 2 THEN C120 ELSE C30
<1>2. progressive \in Nat /\ 0 < progressive /\ progressive <= C6h
  BY <1>1
<1>3. \A x, y \in 1..C6h : LargerOf(x, y) \in 1..C6h
  BY <1>1 DEF LargerOf
<1>4. {progressive, C120, C300, C600} \subseteq 1..C6h
  BY <1>1, <1>2
<1>5. CooldownSeconds(kind, n) =
        CASE kind \in {"dns", "http_5xx"} -> LargerOf(progressive, C120)
          [] kind = "http_429" -> LargerOf(progressive, C300)
          [] kind = "http_403" -> LargerOf(progressive, C600)
          [] kind = "timeout" -> progressive
  BY DEF CooldownSeconds
<1> HIDE DEF progressive
<1>6. CooldownSeconds(kind, n) \in 1..C6h
  <2>1. CASE kind \in {"dns", "http_5xx"}
    BY <1>3, <1>4, <1>5, <2>1
  <2>2. CASE kind = "http_429"
    BY <1>3, <1>4, <1>5, <2>2
  <2>3. CASE kind = "http_403"
    BY <1>3, <1>4, <1>5, <2>3
  <2>4. CASE kind = "timeout"
    BY <1>4, <1>5, <2>4
  <2>5. QED
    BY <1>1, <2>1, <2>2, <2>3, <2>4
<1>7. QED
  BY <1>1, <1>6 DEF CooldownFor

\* The pool's calls keep the pool well formed.
LEMMA PoolTypes ==
  ASSUME TypeOK, NEW d \in Domains
  PROVE  /\ \A kind \in Kinds : MarkFailure(d, kind) =>
              /\ inFlight' = inFlight \ {d}
              /\ cooldown' \in [Domains -> 0..C6h]
              /\ consecutive' \in [Domains -> 0..3]
              /\ preferred' = preferred
              /\ \A e \in Domains \ {d} : cooldown'[e] = cooldown[e]
         /\ MarkSuccess(d) =>
              /\ inFlight' = inFlight
              /\ cooldown' \in [Domains -> 0..C6h]
              /\ consecutive' \in [Domains -> 0..3]
              /\ preferred' = d
              /\ \A e \in Domains : cooldown[e] = 0 => cooldown'[e] = 0
<1>1. ASSUME NEW kind \in Kinds, MarkFailure(d, kind)
      PROVE  /\ inFlight' = inFlight \ {d}
             /\ cooldown' \in [Domains -> 0..C6h]
             /\ consecutive' \in [Domains -> 0..3]
             /\ preferred' = preferred
             /\ \A e \in Domains \ {d} : cooldown'[e] = cooldown[e]
  <2>1. CASE cooldown[d] > 0
    BY <1>1, <2>1 DEF MarkFailure, TypeOK
  <2>2. CASE ~(cooldown[d] > 0)
    <3> DEFINE n == IF consecutive[d] < 3 THEN consecutive[d] + 1 ELSE 3
    <3>1. n \in 0..3
      BY DEF TypeOK
    <3>2. CooldownFor(d, kind, n) \in 0..C6h
      BY <3>1, CooldownRange
    <3>3. /\ consecutive' = [consecutive EXCEPT ![d] = n]
          /\ cooldown' = [cooldown EXCEPT ![d] = CooldownFor(d, kind, n)]
          /\ inFlight' = inFlight \ {d}
          /\ preferred' = preferred
      BY <1>1, <2>2 DEF MarkFailure
    <3> HIDE DEF n
    <3>4. QED
      BY <3>1, <3>2, <3>3 DEF TypeOK
  <2>3. QED
    BY <2>1, <2>2
<1>2. ASSUME MarkSuccess(d)
      PROVE  /\ inFlight' = inFlight
             /\ cooldown' \in [Domains -> 0..C6h]
             /\ consecutive' \in [Domains -> 0..3]
             /\ preferred' = d
             /\ \A e \in Domains : cooldown[e] = 0 => cooldown'[e] = 0
  BY <1>2, ConstantsAssumption DEF MarkSuccess, TypeOK, ConstantsAssumption
<1>3. QED
  BY <1>1, <1>2

\* A change of the lists keeps the pool well formed and only takes away.
LEMMA ReclassifyLemma ==
  ASSUME TypeOK, NEW m \in SUBSET Domains, NEW c \in SUBSET Domains, Reclassify(m, c)
  PROVE  /\ inFlight' \subseteq inFlight
         /\ cooldown' \in [Domains -> 0..C6h]
         /\ consecutive' \in [Domains -> 0..3]
         /\ preferred' = preferred
         /\ \A e \in Domains : cooldown[e] = 0 => cooldown'[e] = 0
<1>1. C6h \in Nat
  BY ConstantsAssumption DEF ConstantsAssumption
<1>2. QED
  BY <1>1 DEF Reclassify, TypeOK

\* An attempt that returns holds nothing; the others are as before.
LEMMA ReturnLemma ==
  ASSUME TypeOK, NEW a \in Attempts, Return(a)
  PROVE  /\ state' \in [Attempts -> {"idle", "choosing", "dialing", "connected", "bridging"}]
         /\ todo' \in [Attempts -> SUBSET Candidates]
         /\ current' \in [Attempts -> Candidates \cup {None}]
         /\ skipCached' \in [Attempts -> BOOLEAN]
         /\ cancelled' \in [Attempts -> BOOLEAN]
         /\ state'[a] = "idle"
         /\ \A b \in Attempts \ {a} : state'[b] = state[b] /\ current'[b] = current[b]
BY DEF Return, TypeOK

\* The initial state satisfies the invariant.
LEMMA InitPool == Init => PoolInv
<1> SUFFICES ASSUME Init PROVE PoolInv
  OBVIOUS
<1>1. C6h \in Nat /\ MaxReconfigs \in Nat
      /\ InitialManual \subseteq Domains /\ InitialCached \subseteq Domains
  BY ConstantsAssumption DEF ConstantsAssumption
<1>2. TypeOK
  BY <1>1 DEF Init, TypeOK
<1>3. HoldersHaveCandidate /\ NoOrphanReservation /\ ReservedNotCooling
  BY DEF Init, HoldersHaveCandidate, NoOrphanReservation, ReservedNotCooling
<1>4. QED
  BY <1>2, <1>3 DEF PoolInv

-----------------------------------------------------------------------------
(* One lemma per group of actions *)

\* Settings, resets and time only take reservations and cooldowns away.
LEMMA EnvironmentInv ==
  ASSUME PoolInv,
         \/ \E m, c \in SUBSET Domains : SetManualDomains(m, c)
         \/ SetCachedUpstreamDomains
         \/ ResetCooldowns
         \/ Tick
  PROVE  PoolInv'
<1>1. /\ TypeOK /\ C6h \in Nat /\ MaxReconfigs \in Nat
      /\ None \notin Domains
  BY ConstantsAssumption DEF ConstantsAssumption, PoolInv
<1> DEFINE OnlyLess ==
             /\ inFlight' \subseteq inFlight
             /\ cooldown' \in [Domains -> 0..C6h]
             /\ consecutive' \in [Domains -> 0..3]
             /\ preferred' = preferred
             /\ \A e \in Domains : cooldown[e] = 0 => cooldown'[e] = 0
           ConfigTypes ==
             /\ manual' \subseteq Domains /\ cached' \subseteq Domains
             /\ pending' \in (SUBSET Domains) \cup {None}
             /\ reconfigs' \in 0..MaxReconfigs
           AttemptsStay == UNCHANGED <<state, todo, current, skipCached, cancelled>>
<1>2. OnlyLess /\ ConfigTypes /\ AttemptsStay
  <2>1. ASSUME NEW m \in SUBSET Domains, NEW c \in SUBSET Domains, SetManualDomains(m, c)
        PROVE  OnlyLess /\ ConfigTypes /\ AttemptsStay
    <3>1. cached \in SUBSET Domains /\ Reclassify(m, cached)
      BY <1>1, <2>1 DEF SetManualDomains, TypeOK
    <3>2. OnlyLess
      BY <1>1, <3>1, ReclassifyLemma
    <3>3. ConfigTypes /\ AttemptsStay
      BY <1>1, <2>1 DEF SetManualDomains, TypeOK
    <3>4. QED
      BY <3>2, <3>3
  <2>2. CASE SetCachedUpstreamDomains
    <3>1. pending \in SUBSET Domains /\ manual \in SUBSET Domains
          /\ Reclassify(manual, pending)
      BY <1>1, <2>2 DEF SetCachedUpstreamDomains, TypeOK
    <3>2. OnlyLess
      BY <1>1, <3>1, ReclassifyLemma
    <3>3. ConfigTypes /\ AttemptsStay
      BY <1>1, <2>2, <3>1 DEF SetCachedUpstreamDomains, TypeOK
    <3>4. QED
      BY <3>2, <3>3
  <2>3. CASE ResetCooldowns
    BY <1>1, <2>3 DEF ResetCooldowns, configVars, TypeOK
  <2>4. CASE Tick
    BY <1>1, <2>4 DEF Tick, configVars, TypeOK
  <2>5. QED
    BY <2>1, <2>2, <2>3, <2>4
<1>3. TypeOK'
  BY <1>1, <1>2 DEF TypeOK
<1>4. HoldersHaveCandidate' /\ NoOrphanReservation'
  BY <1>2 DEF PoolInv, HoldersHaveCandidate, NoOrphanReservation, Holders
<1>5. ReservedNotCooling'
  BY <1>1, <1>2 DEF PoolInv, ReservedNotCooling, TypeOK
<1>6. QED
  BY <1>3, <1>4, <1>5 DEF PoolInv

\* Steps of an attempt that leave the pool alone.
LEMMA ChoosingInv ==
  ASSUME PoolInv, NEW a \in Attempts,
         \/ Select(a)
         \/ Cancel(a)
         \/ \E c \in Candidates : PassOver(a, c)
         \/ GiveUp(a)
  PROVE  PoolInv'
<1> USE DEF poolVars, configVars
<1>1. CASE Select(a)
  <2>1. Selection \in SUBSET Candidates
    <3>1. Considered \subseteq Domains
      BY ConstantsAssumption DEF Considered, PoolInv, TypeOK, ConstantsAssumption
    <3>2. QED
      BY <3>1 DEF Selection, SourceOf, Candidates, Sources
  <2>2. TypeOK'
    BY <1>1, <2>1 DEF Select, PoolInv, TypeOK
  <2>3. HoldersHaveCandidate' /\ NoOrphanReservation' /\ ReservedNotCooling'
    BY <1>1 DEF Select, PoolInv, TypeOK, HoldersHaveCandidate, NoOrphanReservation,
                ReservedNotCooling, Holders
  <2>4. QED
    BY <2>2, <2>3 DEF PoolInv
<1>2. CASE Cancel(a)
  BY <1>2 DEF Cancel, PoolInv, TypeOK, HoldersHaveCandidate, NoOrphanReservation,
              ReservedNotCooling, Holders
<1>3. ASSUME NEW c \in Candidates, PassOver(a, c) PROVE PoolInv'
  BY <1>3 DEF PassOver, PoolInv, TypeOK, HoldersHaveCandidate, NoOrphanReservation,
              ReservedNotCooling, Holders
<1>4. CASE GiveUp(a)
  <2>1. TypeOK'
    BY <1>4, ReturnLemma DEF GiveUp, PoolInv, TypeOK
  <2>2. HoldersHaveCandidate' /\ NoOrphanReservation' /\ ReservedNotCooling'
    BY <1>4, ReturnLemma
    DEF GiveUp, PoolInv, HoldersHaveCandidate, NoOrphanReservation, ReservedNotCooling,
        Holders
  <2>3. QED
    BY <2>1, <2>2 DEF PoolInv
<1>5. QED
  BY <1>1, <1>2, <1>3, <1>4

\* TryReserve gives the attempt a domain that is free and not cooling down.
LEMMA ReserveInv ==
  ASSUME PoolInv, NEW a \in Attempts, NEW c \in Candidates, Reserve(a, c)
  PROVE  PoolInv'
<1> USE DEF Reserve, configVars
<1>1. c.domain \in Domains
  BY DEF Candidates
<1>2. TypeOK'
  BY <1>1 DEF PoolInv, TypeOK
<1>3. /\ state'[a] = "dialing" /\ current'[a] = c
      /\ \A b \in Attempts \ {a} : state'[b] = state[b] /\ current'[b] = current[b]
  BY DEF PoolInv, TypeOK
<1>4. HoldersHaveCandidate'
  BY <1>3 DEF PoolInv, HoldersHaveCandidate
<1>5. NoOrphanReservation'
  <2>1. state[a] = "choosing"
    OBVIOUS
  <2>2. QED
    BY <1>3, <2>1 DEF PoolInv, NoOrphanReservation, Holders
<1>6. ReservedNotCooling'
  BY DEF PoolInv, ReservedNotCooling, Reservable
<1>7. QED
  BY <1>2, <1>4, <1>5, <1>6 DEF PoolInv

\* The ways out of a dial that give the reservation back.
LEMMA LeaveInv ==
  ASSUME PoolInv, NEW a \in Attempts, state[a] \in {"dialing", "connected"},
         inFlight' = inFlight \ {current[a].domain},
         \A e \in Domains \ {current[a].domain} : cooldown'[e] = cooldown[e],
         \A b \in Attempts \ {a} : state'[b] = state[b] /\ current'[b] = current[b],
         state'[a] \notin {"dialing", "connected"},
         state'[a] = "bridging" => current'[a] \in Candidates,
         TypeOK'
  PROVE  PoolInv'
<1>1. HoldersHaveCandidate'
  BY DEF PoolInv, HoldersHaveCandidate
<1>2. NoOrphanReservation'
  BY DEF PoolInv, NoOrphanReservation, Holders
<1>3. ReservedNotCooling'
  BY DEF PoolInv, ReservedNotCooling, TypeOK
<1>4. QED
  BY <1>1, <1>2, <1>3 DEF PoolInv

\* A step past the reservation, by what it does to the reservation.
LEMMA DialInv ==
  ASSUME PoolInv, NEW a \in Attempts,
         \/ \E kind \in Kinds : DialFails(a, kind)
         \/ DialCancelled(a)
         \/ MtProtoConnected(a)
         \/ MtProtoRelease(a)
         \/ SocksConnected(a)
         \/ SocksBridgeEnds(a)
  PROVE  PoolInv'
<1> USE DEF configVars
<1>0. TypeOK
  BY DEF PoolInv
<1>1. ASSUME NEW kind \in Kinds, DialFails(a, kind) PROVE PoolInv'
  <2>1. state[a] = "dialing" /\ current[a] \in Candidates /\ current[a].domain \in Domains
    BY <1>1 DEF DialFails, PoolInv, HoldersHaveCandidate, Candidates
  <2>2. /\ inFlight' = inFlight \ {current[a].domain}
        /\ cooldown' \in [Domains -> 0..C6h]
        /\ consecutive' \in [Domains -> 0..3]
        /\ preferred' = preferred
        /\ \A e \in Domains \ {current[a].domain} : cooldown'[e] = cooldown[e]
    BY <1>0, <1>1, <2>1, PoolTypes DEF DialFails
  <2>3. TypeOK'
    BY <1>0, <1>1, <2>1, <2>2 DEF DialFails, TypeOK
  <2>4. /\ state'[a] = "choosing"
        /\ \A b \in Attempts \ {a} : state'[b] = state[b] /\ current'[b] = current[b]
    BY <1>0, <1>1 DEF DialFails, TypeOK
  <2>5. QED
    BY <2>1, <2>2, <2>3, <2>4, LeaveInv
<1>2. CASE DialCancelled(a)
  <2>1. TypeOK'
    BY <1>0, <1>2, ReturnLemma DEF DialCancelled, ReleaseReservation, TypeOK
  <2>2. QED
    BY <1>0, <1>2, <2>1, ReturnLemma, LeaveInv DEF DialCancelled, ReleaseReservation
<1>3. CASE MtProtoRelease(a)
  <2>1. TypeOK'
    BY <1>0, <1>3, ReturnLemma DEF MtProtoRelease, ReleaseReservation, TypeOK
  <2>2. QED
    BY <1>0, <1>3, <2>1, ReturnLemma, LeaveInv DEF MtProtoRelease, ReleaseReservation
<1>4. CASE SocksConnected(a)
  <2>1. TypeOK' /\ current' = current /\ current[a] \in Candidates
    BY <1>0, <1>4 DEF SocksConnected, ReleaseReservation, TypeOK, PoolInv,
                      HoldersHaveCandidate
  <2>2. /\ state'[a] = "bridging"
        /\ \A b \in Attempts \ {a} : state'[b] = state[b] /\ current'[b] = current[b]
    BY <1>0, <1>4 DEF SocksConnected, TypeOK
  <2>3. QED
    BY <1>0, <1>4, <2>1, <2>2, LeaveInv DEF SocksConnected, ReleaseReservation
<1>5. CASE MtProtoConnected(a)
  <2>1. current[a] \in Candidates /\ current[a].domain \in Domains
    BY <1>5 DEF MtProtoConnected, PoolInv, HoldersHaveCandidate, Candidates
  <2>2. /\ inFlight' = inFlight
        /\ cooldown' \in [Domains -> 0..C6h]
        /\ consecutive' \in [Domains -> 0..3]
        /\ preferred' \in Domains
        /\ \A e \in Domains : cooldown[e] = 0 => cooldown'[e] = 0
    BY <1>0, <1>5, <2>1, PoolTypes DEF MtProtoConnected
  <2>3. TypeOK'
    BY <1>0, <1>5, <2>2 DEF MtProtoConnected, TypeOK
  <2>4. /\ state[a] = "dialing" /\ state'[a] = "connected" /\ current' = current
        /\ \A b \in Attempts \ {a} : state'[b] = state[b]
    BY <1>0, <1>5 DEF MtProtoConnected, TypeOK
  <2>5. HoldersHaveCandidate' /\ NoOrphanReservation'
    BY <2>1, <2>2, <2>4 DEF PoolInv, HoldersHaveCandidate, NoOrphanReservation, Holders
  <2>6. ReservedNotCooling'
    BY <1>0, <2>2 DEF PoolInv, ReservedNotCooling, TypeOK
  <2>7. QED
    BY <2>3, <2>5, <2>6 DEF PoolInv
<1>6. CASE SocksBridgeEnds(a)
  <2>1. state[a] = "bridging" /\ current[a] \in Candidates /\ current[a].domain \in Domains
    BY <1>6 DEF SocksBridgeEnds, PoolInv, HoldersHaveCandidate, Candidates
  <2>2. /\ inFlight' = inFlight
        /\ cooldown' \in [Domains -> 0..C6h]
        /\ consecutive' \in [Domains -> 0..3]
        /\ preferred' \in Domains
        /\ \A e \in Domains : cooldown[e] = 0 => cooldown'[e] = 0
    BY <1>0, <1>6, <2>1, PoolTypes DEF SocksBridgeEnds
  <2>3. /\ state'[a] = "idle"
        /\ \A b \in Attempts \ {a} : state'[b] = state[b] /\ current'[b] = current[b]
    BY <1>0, <1>6, ReturnLemma DEF SocksBridgeEnds
  <2>4. TypeOK'
    BY <1>0, <1>6, <2>2, ReturnLemma DEF SocksBridgeEnds, TypeOK
  <2>5. HoldersHaveCandidate' /\ NoOrphanReservation'
    BY <2>1, <2>2, <2>3 DEF PoolInv, HoldersHaveCandidate, NoOrphanReservation, Holders
  <2>6. ReservedNotCooling'
    BY <1>0, <2>2 DEF PoolInv, ReservedNotCooling, TypeOK
  <2>7. QED
    BY <2>4, <2>5, <2>6 DEF PoolInv
<1>7. QED
  BY <1>1, <1>2, <1>3, <1>4, <1>5, <1>6

\* Every step keeps the invariant.
LEMMA NextPool == PoolInv /\ [Next]_vars => PoolInv'
<1> SUFFICES ASSUME PoolInv, [Next]_vars PROVE PoolInv'
  OBVIOUS
<1>1. CASE UNCHANGED vars
  BY <1>1 DEF vars, poolVars, configVars, PoolInv, TypeOK, HoldersHaveCandidate,
              NoOrphanReservation, ReservedNotCooling, Holders
<1>2. ASSUME NEW a \in Attempts, Select(a) \/ Cancel(a) \/ AttemptStep(a) PROVE PoolInv'
  <2>1. CASE Select(a) \/ Cancel(a) \/ GiveUp(a)
    BY <2>1, ChoosingInv
  <2>2. ASSUME NEW c \in Candidates, PassOver(a, c) PROVE PoolInv'
    BY <2>2, ChoosingInv
  <2>3. ASSUME NEW c \in Candidates, Reserve(a, c) PROVE PoolInv'
    BY <2>3, ReserveInv
  <2>4. CASE \/ \E kind \in Kinds : DialFails(a, kind)
             \/ DialCancelled(a) \/ MtProtoConnected(a)
             \/ MtProtoRelease(a) \/ SocksConnected(a)
    BY <2>4, DialInv
  <2>5. QED
    BY <1>2, <2>1, <2>2, <2>3, <2>4 DEF AttemptStep
<1>3. ASSUME NEW a \in Socks, SocksBridgeEnds(a) PROVE PoolInv'
  BY <1>3, DialInv DEF Attempts
<1>4. CASE \/ \E m, c \in SUBSET Domains : SetManualDomains(m, c)
           \/ SetCachedUpstreamDomains
           \/ ResetCooldowns
           \/ Tick
  BY <1>4, EnvironmentInv
<1>5. QED
  BY <1>1, <1>2, <1>3, <1>4 DEF Next

-----------------------------------------------------------------------------
(* The theorems *)

\* The inductive invariant holds in every reachable state.
THEOREM PoolInvariance == Spec => []PoolInv
BY InitPool, NextPool, PTL DEF Spec

\* Pool and attempts stay well typed.
THEOREM PoolTypeCorrect == Spec => []TypeOK
BY PoolInvariance, PTL DEF PoolInv

\* Whatever the settings do, a reservation belongs to a dial under way: no way
\* out of a dial, and no change of the lists, leaves one behind in inFlight.
THEOREM NoOrphanTheorem == Spec => []NoOrphanReservation
BY PoolInvariance, PTL DEF PoolInv

\* A reserved domain is not cooling down, so MarkFailure by the holder of a
\* reservation always records its failure.
THEOREM ReservedTheorem == Spec => []ReservedNotCooling
BY PoolInvariance, PTL DEF PoolInv

-----------------------------------------------------------------------------
(* Failures and cooldowns *)

KeepsCooldown ==
  \A d \in Domains :
    cooldown[d] > 0 /\ cooldown'[d] # cooldown[d] => cooldown'[d] \in {0, cooldown[d] - 1}

\* A success ends the cooldown of its domain and touches no other.
LEMMA SuccessKeepsCooldown ==
  ASSUME TypeOK, NEW d \in Domains, MarkSuccess(d)
  PROVE  KeepsCooldown
BY DEF MarkSuccess, KeepsCooldown, TypeOK

\* A failure changes the cooldown of its domain only when there is none.
LEMMA StepKeepsCooldown == PoolInv /\ [Next]_vars => KeepsCooldown
<1> SUFFICES ASSUME PoolInv, [Next]_vars PROVE KeepsCooldown
  OBVIOUS
<1> USE DEF poolVars, configVars
<1>0. TypeOK
  BY DEF PoolInv
<1>1. CASE UNCHANGED cooldown
  BY <1>1 DEF KeepsCooldown
<1>2. ASSUME NEW m \in SUBSET Domains, NEW c \in SUBSET Domains, Reclassify(m, c)
      PROVE  KeepsCooldown
  BY <1>2 DEF Reclassify, KeepsCooldown
<1>3. ASSUME NEW m \in SUBSET Domains, NEW c \in SUBSET Domains, SetManualDomains(m, c)
      PROVE  KeepsCooldown
  <2>1. cached \in SUBSET Domains
    BY <1>0 DEF TypeOK
  <2>2. QED
    BY <1>2, <1>3, <2>1 DEF SetManualDomains
<1>4. CASE SetCachedUpstreamDomains
  <2>1. pending \in SUBSET Domains /\ manual \in SUBSET Domains
    BY <1>0, <1>4 DEF SetCachedUpstreamDomains, TypeOK
  <2>2. QED
    BY <1>2, <1>4, <2>1 DEF SetCachedUpstreamDomains
<1>5. CASE ResetCooldowns
  BY <1>5 DEF ResetCooldowns, KeepsCooldown
<1>6. CASE Tick
  BY <1>6 DEF Tick, KeepsCooldown
<1>7. ASSUME NEW a \in Attempts, NEW kind \in Kinds, DialFails(a, kind) PROVE KeepsCooldown
  <2>1. current[a].domain \in Domains
    BY <1>7 DEF DialFails, PoolInv, HoldersHaveCandidate, Candidates
  <2>2. CASE cooldown[current[a].domain] > 0
    BY <1>1, <1>7, <2>2 DEF DialFails, MarkFailure
  <2>3. CASE ~(cooldown[current[a].domain] > 0)
    <3>1. \A e \in Domains \ {current[a].domain} : cooldown'[e] = cooldown[e]
      BY <1>0, <1>7, <2>1, PoolTypes DEF DialFails
    <3>2. QED
      BY <2>3, <3>1 DEF KeepsCooldown
  <2>4. QED
    BY <2>2, <2>3
<1>8. ASSUME NEW a \in Attempts, MtProtoConnected(a) \/ SocksBridgeEnds(a)
      PROVE  KeepsCooldown
  <2>1. current[a].domain \in Domains
    BY <1>8 DEF MtProtoConnected, SocksBridgeEnds, PoolInv, HoldersHaveCandidate, Candidates
  <2>2. QED
    BY <1>0, <1>8, <2>1, SuccessKeepsCooldown DEF MtProtoConnected, SocksBridgeEnds
<1>9. ASSUME NEW a \in Attempts,
             \/ Select(a) \/ Cancel(a) \/ GiveUp(a) \/ DialCancelled(a)
             \/ MtProtoRelease(a) \/ SocksConnected(a)
             \/ \E c \in Candidates : PassOver(a, c) \/ Reserve(a, c)
      PROVE  UNCHANGED cooldown
  BY <1>9 DEF Select, Cancel, GiveUp, DialCancelled, MtProtoRelease, SocksConnected,
              PassOver, Reserve, ReleaseReservation
<1>10. CASE UNCHANGED vars
  BY <1>1, <1>10 DEF vars
<1>11. ASSUME NEW a \in Attempts, Select(a) \/ Cancel(a) \/ AttemptStep(a)
       PROVE  KeepsCooldown
  BY <1>1, <1>7, <1>8, <1>9, <1>11 DEF AttemptStep
<1>12. ASSUME NEW a \in Socks, SocksBridgeEnds(a) PROVE KeepsCooldown
  BY <1>8, <1>12 DEF Attempts
<1>13. QED
  BY <1>3, <1>4, <1>5, <1>6, <1>10, <1>11, <1>12 DEF Next

\* A failure never restarts, extends or lowers a cooldown under way.
THEOREM CooldownTheorem == Spec => FailureKeepsCooldown
<1>1. PoolInv /\ [Next]_vars =>
        [\A d \in Domains : cooldown[d] > 0 /\ cooldown'[d] # cooldown[d] =>
                              cooldown'[d] \in {0, cooldown[d] - 1}]_vars
  BY StepKeepsCooldown DEF KeepsCooldown
<1>2. QED
  BY <1>1, PoolInvariance, PTL DEF Spec, FailureKeepsCooldown

-----------------------------------------------------------------------------
(* Settings that stand still *)

\* While the settings do not change, reservations and dials are one to one.
StableInv == /\ pending = None /\ reconfigs = 0
             /\ ExclusiveDial
             /\ ReservationsExact

\* A holder that leaves takes its own reservation with it and no other.
LEMMA StableLeave ==
  ASSUME StableInv, NEW a \in Holders, UNCHANGED <<pending, reconfigs>>,
         inFlight' = inFlight \ {current[a].domain},
         \A b \in Attempts \ {a} : state'[b] = state[b] /\ current'[b] = current[b],
         state'[a] \notin {"dialing", "connected"}
  PROVE  StableInv'
<1>1. Holders' = Holders \ {a} /\ \A b \in Holders' : current'[b] = current[b]
  BY DEF Holders
<1>2. QED
  BY <1>1 DEF StableInv, ExclusiveDial, ReservationsExact

\* Steps that keep the holders and the reservations keep StableInv.
LEMMA StableStay ==
  ASSUME StableInv, UNCHANGED <<pending, reconfigs, inFlight>>, Holders' = Holders,
         \A b \in Holders : current'[b] = current[b]
  PROVE  StableInv'
BY DEF StableInv, ExclusiveDial, ReservationsExact

\* TryReserve gives a domain that no other holder dials.
LEMMA StableReserve ==
  ASSUME PoolInv, StableInv, NEW a \in Attempts, NEW c \in Candidates, Reserve(a, c)
  PROVE  StableInv'
<1>1. /\ Holders' = Holders \cup {a} /\ a \notin Holders
      /\ current'[a] = c /\ \A b \in Holders : current'[b] = current[b]
  BY DEF Reserve, Holders, PoolInv, TypeOK
<1>2. c.domain \notin inFlight /\ inFlight' = inFlight \cup {c.domain}
      /\ UNCHANGED <<pending, reconfigs>>
  BY DEF Reserve, Reservable, configVars
<1>3. QED
  BY <1>1, <1>2 DEF StableInv, ExclusiveDial, ReservationsExact

\* Every step keeps StableInv when there is no change of the settings.
LEMMA NextStable ==
  ASSUME MaxReconfigs = 0
  PROVE  PoolInv /\ StableInv /\ [Next]_vars => StableInv'
<1> SUFFICES ASSUME PoolInv, StableInv, [Next]_vars PROVE StableInv'
  OBVIOUS
<1> USE DEF poolVars, configVars
<1>0. TypeOK
  BY DEF PoolInv
<1>1. CASE UNCHANGED vars
  BY <1>1, StableStay DEF vars, Holders
<1>2. CASE ResetCooldowns \/ Tick
  BY <1>2, StableStay DEF ResetCooldowns, Tick, Holders
<1>3. ASSUME \/ \E m, c \in SUBSET Domains : SetManualDomains(m, c)
             \/ SetCachedUpstreamDomains
      PROVE  FALSE
  BY <1>3 DEF SetManualDomains, SetCachedUpstreamDomains, StableInv
<1>4. ASSUME NEW a \in Attempts,
             Select(a) \/ Cancel(a) \/ \E c \in Candidates : PassOver(a, c)
      PROVE  StableInv'
  <2>1. Holders' = Holders /\ UNCHANGED <<pending, reconfigs, inFlight, current>>
    BY <1>0, <1>4 DEF Select, Cancel, PassOver, Holders, TypeOK
  <2>2. QED
    BY <2>1, StableStay
<1>5. ASSUME NEW a \in Attempts, GiveUp(a) PROVE StableInv'
  <2>1. /\ a \notin Holders /\ UNCHANGED <<pending, reconfigs, inFlight>>
        /\ state'[a] = "idle"
        /\ \A b \in Attempts \ {a} : state'[b] = state[b] /\ current'[b] = current[b]
    BY <1>0, <1>5, ReturnLemma DEF GiveUp, Holders
  <2>2. Holders' = Holders
    BY <2>1 DEF Holders
  <2>3. QED
    BY <2>1, <2>2, StableStay DEF Holders
<1>6. ASSUME NEW a \in Attempts, NEW kind \in Kinds, DialFails(a, kind) PROVE StableInv'
  <2>1. /\ a \in Holders /\ UNCHANGED <<pending, reconfigs>>
        /\ inFlight' = inFlight \ {current[a].domain}
        /\ state'[a] = "choosing"
        /\ \A b \in Attempts \ {a} : state'[b] = state[b] /\ current'[b] = current[b]
    BY <1>0, <1>6 DEF DialFails, MarkFailure, Holders, TypeOK
  <2>2. QED
    BY <2>1, StableLeave
<1>7. ASSUME NEW a \in Attempts, DialCancelled(a) \/ MtProtoRelease(a) PROVE StableInv'
  <2>1. /\ a \in Holders /\ UNCHANGED <<pending, reconfigs>>
        /\ inFlight' = inFlight \ {current[a].domain}
        /\ Return(a)
    BY <1>7 DEF DialCancelled, MtProtoRelease, ReleaseReservation, Holders
  <2>2. QED
    BY <1>0, <2>1, ReturnLemma, StableLeave
<1>8. ASSUME NEW a \in Attempts, SocksConnected(a) PROVE StableInv'
  <2>1. /\ a \in Holders /\ UNCHANGED <<pending, reconfigs, current>>
        /\ inFlight' = inFlight \ {current[a].domain}
        /\ state'[a] = "bridging"
        /\ \A b \in Attempts \ {a} : state'[b] = state[b]
    BY <1>0, <1>8 DEF SocksConnected, ReleaseReservation, Holders, TypeOK
  <2>2. QED
    BY <2>1, StableLeave
<1>9. ASSUME NEW a \in Attempts, MtProtoConnected(a) PROVE StableInv'
  <2>1. Holders' = Holders /\ UNCHANGED <<pending, reconfigs, inFlight, current>>
    BY <1>0, <1>9 DEF MtProtoConnected, MarkSuccess, Holders, TypeOK
  <2>2. QED
    BY <2>1, StableStay
<1>10. ASSUME NEW a \in Attempts, SocksBridgeEnds(a) PROVE StableInv'
  <2>1. /\ a \notin Holders /\ UNCHANGED <<pending, reconfigs, inFlight>>
        /\ state'[a] = "idle"
        /\ \A b \in Attempts \ {a} : state'[b] = state[b] /\ current'[b] = current[b]
    BY <1>0, <1>10, ReturnLemma DEF SocksBridgeEnds, MarkSuccess, Holders
  <2>2. Holders' = Holders
    BY <2>1 DEF Holders
  <2>3. QED
    BY <2>1, <2>2, StableStay DEF Holders
<1>11. ASSUME NEW a \in Attempts, AttemptStep(a) PROVE StableInv'
  BY <1>4, <1>5, <1>6, <1>7, <1>8, <1>9, <1>11, StableReserve DEF AttemptStep
<1>12. QED
  BY <1>1, <1>2, <1>3, <1>4, <1>10, <1>11 DEF Next, Attempts

\* While the settings stand no domain is dialed by two attempts at once, and the
\* reservations are exactly the dials under way.
THEOREM ExclusiveTheorem ==
  ASSUME MaxReconfigs = 0
  PROVE  Spec => [](ExclusiveDial /\ ReservationsExact)
<1>1. Init => StableInv
  BY DEF Init, StableInv, ExclusiveDial, ReservationsExact, Holders
<1>2. StableInv => ExclusiveDial /\ ReservationsExact
  BY DEF StableInv
<1>3. PoolInv /\ StableInv /\ [Next]_vars => StableInv'
  BY NextStable
<1>4. QED
  BY <1>1, <1>2, <1>3, PoolInvariance, PTL DEF Spec
=============================================================================
