------------------------------ MODULE RoutePlan ------------------------------
(***************************************************************************)
(* What decides the ways a connection to Telegram may take: the settings   *)
(* (routing.go), the AWG/WARP policy (awg_warp_route_runtime.go), the      *)
(* adaptive store (tgwsroute/adaptive.go) and the cooldowns that sessions  *)
(* leave behind, for one DC, media flag and network profile.  SocksRoutes  *)
(* and Routes add the two kinds of client that read and write them.        *)
(*                                                                         *)
(* A cooldown is a flag that time clears at any moment.  The scores of the *)
(* adaptive store order the routes and drop those that fall below zero:    *)
(* which ones is left open.  Clients that a model does not follow may fail *)
(* at any moment and leave a cooldown behind.                              *)
(***************************************************************************)
EXTENDS Filter, SequencesExt

CONSTANTS
  Configs,        \* the settings a host may apply, without their generation
  AwgPolicies,    \* the AWG/WARP policies a host may configure
  CooldownAfter,  \* rt.CooldownAfter, failures in a row
  MaxChanges,     \* bound on changes of settings or AWG policy after the start
  MaxFailures,    \* bound on the failed dials after which no client comes any more
  NoRoute         \* no preferred route, no route in use

RouteKinds == {"direct_ws", "cf_worker_ws", "cf_proxy_ws", "awg_warp", "tcp_fallback"}
Adaptive == {"auto", "direct_with_fallback"}
Restricted == {"worker_only", "cf_only"}
Modes == Adaptive \cup Restricted \cup {"worker_first", "cf_first", "direct_only"}

(* policy is PolicyPresent, only is CF.Only, which may come with any mode,  *)
(* have are the optional routes that are configured.                       *)
ConfigType ==
  [mode: Modes, only: BOOLEAN, policy: BOOLEAN, allow: SUBSET RouteKinds, fallback: BOOLEAN,
   preferred: RouteKinds \cup {NoRoute}, have: SUBSET {"cf_worker_ws", "cf_proxy_ws"},
   order: Seq(RouteKinds)]
AwgType == [enabled: BOOLEAN, preferred: BOOLEAN, fallback: BOOLEAN]

ASSUME PlanAssumption ==
  /\ \A c \in Configs : c \in ConfigType
  /\ AwgPolicies \subseteq AwgType
  /\ CooldownAfter \in Nat \ {0}
  /\ {MaxChanges, MaxFailures} \subseteq Nat
  /\ NoRoute \notin RouteKinds

VARIABLES
  settings,       \* runtimeCfg
  gen,            \* its PolicyGen
  changes,        \* how often settings or AWG policy changed
  awg,            \* globalAWGWarpRouteRuntime.policy
  consecutive,    \* per route, ConsecutiveFailures, no more than CooldownAfter
  cooling,        \* per route, its stat's CooldownUntil lies ahead
  workerCooling,  \* workerRouteCooldowns of the DC lies ahead
  ipCooling,      \* ipFailUntil of the DC's address lies ahead
  failures        \* failed dials so far, no more than MaxFailures

storeVars == <<consecutive, cooling>>
planVars  == <<settings, gen, changes, awg, storeVars, workerCooling, ipCooling, failures>>

InitPlan ==
  /\ settings \in Configs
  /\ gen = 0
  /\ changes = 0
  /\ awg \in AwgPolicies
  /\ consecutive = [r \in RouteKinds |-> 0]
  /\ cooling = [r \in RouteKinds |-> FALSE]
  /\ workerCooling = FALSE
  /\ ipCooling = FALSE
  /\ failures = 0

-----------------------------------------------------------------------------
(* Routes in the order of a mode, less what is not allowed, not there or resting *)

\* isRouteAllowedByPolicy.
Allows(c, r) == c.policy => r \in c.allow

\* routeAvailable.
Available(c, r) == r \in {"cf_worker_ws", "cf_proxy_ws"} => r \in c.have

FilterRoutesByPolicy(c, routes) == Keep(routes, {r \in RouteKinds : Allows(c, r)})

ModeOrder(mode) ==
  CASE mode \in Adaptive -> <<"direct_ws", "cf_worker_ws", "cf_proxy_ws", "tcp_fallback">>
    [] mode = "worker_first" -> <<"cf_worker_ws", "cf_proxy_ws", "direct_ws", "tcp_fallback">>
    [] mode = "cf_first" -> <<"cf_proxy_ws", "cf_worker_ws", "direct_ws", "tcp_fallback">>
    [] mode = "worker_only" -> <<"cf_worker_ws">>
    [] mode = "cf_only" -> <<"cf_proxy_ws">>
    [] mode = "direct_only" -> <<"direct_ws">>

\* RoutesForMode.
RoutesForMode(c, skipDirect) ==
  Keep(ModeOrder(c.mode),
       {r \in RouteKinds : Available(c, r) /\ ~(skipDirect /\ r = "direct_ws")})

\* primaryRoutesBeforeDirectWS, which the policy does not filter.
PrimaryRoutes(c) ==
  IF c.mode \in Adaptive \cup {"direct_only"} THEN << >> ELSE RoutesForMode(c, TRUE)

\* filterWorkerRouteCooldown keeps the Worker when there is nothing else.
FilterWorkerCooldown(routes) ==
  LET others == Keep(routes, RouteKinds \ {"cf_worker_ws"})
  IN  IF workerCooling /\ others # << >> THEN others ELSE routes

-----------------------------------------------------------------------------
(* adaptive_bridge.go and the order of the adaptive store *)

NoDefaultOrders(c, base, skipDirect) ==   \* mutant: nothing scored, nothing returned
  SetToAllKPermutations({r \in ToSet(base) : /\ ~(skipDirect /\ r = "direct_ws")
                                             /\ Available(c, r)
                                             /\ ~cooling[r]})

\* AdaptiveOrderRoutes: routes that rest are dropped; without a candidate that
\* scores, the base is taken as it is.
AdaptiveOrders(c, base, skipDirect) ==
  LET candidates == {r \in ToSet(base) : /\ ~(skipDirect /\ r = "direct_ws")
                                         /\ Available(c, r)
                                         /\ ~cooling[r]}
  IN  {base} \cup (SetToAllKPermutations(candidates) \ {<< >>})

\* chooseFallbackAllowed.
FallbackAllowed(c) ==
  IF ~c.policy \/ c.allow = {} THEN << >>
  ELSE IF c.preferred \in c.allow THEN <<c.preferred>>
  ELSE <<Head(Keep(<<"cf_proxy_ws", "direct_ws", "tcp_fallback", "cf_worker_ws", "awg_warp">>,
                   c.allow))>>

\* awgWarpOwnsRouteSelection.
AwgExclusive == awg.enabled /\ awg.preferred /\ ~awg.fallback

\* adaptiveRoutesForMode.
AdaptiveRoutes(c, skipDirect) ==
  LET base == FilterWorkerCooldown(FilterRoutesByPolicy(c, RoutesForMode(c, skipDirect)))
  IN  IF AwgExclusive THEN {<< >>}
      ELSE IF c.mode \notin Adaptive THEN {base}
      ELSE {IF q = << >> THEN FallbackAllowed(c) ELSE q : q \in AdaptiveOrders(c, base, skipDirect)}

\* directIPCooldownFallbackAvailable.
IPFallbackAvailable(c) ==
  IF c.policy
  THEN /\ c.fallback
       /\ \/ "cf_worker_ws" \in c.allow /\ "cf_worker_ws" \in ToSet(RoutesForMode(c, FALSE))
          \/ "cf_proxy_ws" \in c.allow /\ "cf_proxy_ws" \in c.have
          \/ "tcp_fallback" \in c.allow
  ELSE c.mode # "direct_only"

\* shouldSkipDirectWSAdaptive reads the store here, too.
DirectRests(c) == c.mode \in Adaptive /\ cooling["direct_ws"]

-----------------------------------------------------------------------------
(* What sessions record *)

AtMostAfter(n) == IF n > CooldownAfter THEN CooldownAfter ELSE n

\* recordAdaptiveFailure: times is one for each call, and one more for each timeout
\* or redirect under a strategy that fails over fast (ExtraConsecutivePenalty).
RecordFailure(r, times) ==
  /\ consecutive' = [consecutive EXCEPT ![r] = AtMostAfter(@ + times)]
  /\ cooling' = [cooling EXCEPT ![r] = @ \/ (times > 0 /\ consecutive'[r] = CooldownAfter)]

(* recordAdaptiveSuccessIfNotCancelled looks at the settings of the moment *)
(* and records when it has let them go.                                    *)
Counts(r, sessionGen, neutral) == sessionGen = gen /\ ~neutral /\ Allows(settings, r)

\* recordAdaptiveSuccess.
RecordSuccess(r) ==
  /\ consecutive' = [consecutive EXCEPT ![r] = 0]
  /\ cooling' = [cooling EXCEPT ![r] = FALSE]

\* Whoever dials may fail, also when the bound is reached.
CountFailure == failures' = IF failures < MaxFailures THEN failures + 1 ELSE failures

-----------------------------------------------------------------------------
(* The host and time *)

\* setRuntimeSettings: the statistics belong to the network profile and stay.
Reconfigure ==
  /\ changes < MaxChanges
  /\ changes' = changes + 1
  /\ \E c \in Configs : settings' = c
  /\ gen' = gen + 1
  /\ UNCHANGED <<awg, storeVars, workerCooling, ipCooling, failures>>

\* awgWarpRouteRuntime.Configure and Reset do not touch the policy generation.
ConfigureAwg ==
  /\ changes < MaxChanges
  /\ changes' = changes + 1
  /\ \E p \in AwgPolicies : p # awg /\ awg' = p
  /\ UNCHANGED <<settings, gen, storeVars, workerCooling, ipCooling, failures>>

CooldownOver(r) ==
  /\ cooling[r]
  /\ cooling' = [cooling EXCEPT ![r] = FALSE]
  /\ UNCHANGED <<settings, gen, changes, awg, consecutive, workerCooling, ipCooling, failures>>

WorkerCooldownOver ==
  /\ workerCooling
  /\ workerCooling' = FALSE
  /\ UNCHANGED <<settings, gen, changes, awg, storeVars, ipCooling, failures>>

IPCooldownOver ==
  /\ ipCooling
  /\ ipCooling' = FALSE
  /\ UNCHANGED <<settings, gen, changes, awg, storeVars, workerCooling, failures>>

\* Another client's dials fail ...
OthersFail(r) ==
  /\ failures < MaxFailures
  /\ CountFailure
  /\ \E times \in 1..3 : RecordFailure(r, times)
  /\ UNCHANGED <<settings, gen, changes, awg, workerCooling, ipCooling>>

\* ... its dial of Direct WS times out ...
OthersTimeOut ==
  /\ failures < MaxFailures
  /\ CountFailure
  /\ ipCooling' = TRUE
  /\ UNCHANGED <<settings, gen, changes, awg, storeVars, workerCooling>>

\* ... or its Worker sends nothing.
OthersSilent ==
  /\ workerCooling' = TRUE
  /\ UNCHANGED <<settings, gen, changes, awg, storeVars, ipCooling, failures>>

Environment ==
  \/ Reconfigure
  \/ ConfigureAwg
  \/ \E r \in RouteKinds : CooldownOver(r)
  \/ WorkerCooldownOver
  \/ IPCooldownOver
  \/ \E r \in RouteKinds \ {"awg_warp"} : OthersFail(r)
  \/ OthersTimeOut
  \/ OthersSilent

PlanTypeOK ==
  /\ settings \in Configs
  /\ gen \in 0..changes
  /\ changes \in 0..MaxChanges
  /\ awg \in AwgPolicies
  /\ consecutive \in [RouteKinds -> 0..CooldownAfter]
  /\ cooling \in [RouteKinds -> BOOLEAN]
  /\ {workerCooling, ipCooling} \subseteq BOOLEAN
  /\ failures \in 0..MaxFailures
=============================================================================
