------------------------------- MODULE Routes -------------------------------
(***************************************************************************)
(* SOCKS sessions (SocksRoutes) and connects of the MTProto frontend side  *)
(* by side, on the settings, stores and cooldowns they share.              *)
(*                                                                         *)
(* mtProtoRouteConnector (mtproto_worker_route.go) plans its routes once,  *)
(* from the settings and the AWG policy; the connector of each route looks *)
(* at the settings of its own moment.  The request's context may be        *)
(* cancelled while a route dials.                                          *)
(***************************************************************************)
EXTENDS SocksRoutes

CONSTANTS
  Connects,    \* requests of the MTProto frontend, one after another in each place
  MaxClients   \* bound on sessions and connects at one time

VARIABLES
  mat,         \* per connect: where it is
  mplan,       \* the routes it has still to try, the one it dials first
  mtest,       \* it is for a test DC
  cancelled,   \* its context is
  tcpCooling   \* directTCPHealthRuntime, CooldownUntil of the DC's address lies ahead

connectVars == <<mat, mplan, mtest, cancelled, tcpCooling>>
vars == <<planVars, socksVars, connectVars>>

Init ==
  /\ InitPlan
  /\ InitSocks
  /\ mat = [m \in Connects |-> "idle"]
  /\ mplan = [m \in Connects |-> << >>]
  /\ mtest = [m \in Connects |-> FALSE]
  /\ cancelled = [m \in Connects |-> FALSE]
  /\ tcpCooling = FALSE

-----------------------------------------------------------------------------
(* The plan of a connect *)

\* explicitMtProtoRoutes.
ExplicitRoutes(c) ==
  Keep(c.order, {r \in RouteKinds : /\ Allows(c, r)
                                    /\ Available(c, r)
                                    /\ r = "awg_warp" => awg.enabled})

\* withAWGWarpRoute, which asks no policy of the settings.
WithAwgWarp(routes) ==
  LET others == Keep(routes, RouteKinds \ {"awg_warp"})
      notTcp == Keep(others, RouteKinds \ {"tcp_fallback"})
      tcp    == Keep(others, {"tcp_fallback"})
  IN  CASE ~awg.enabled -> routes
        [] awg.enabled /\ awg.preferred ->
             IF awg.fallback THEN <<"awg_warp">> \o others ELSE <<"awg_warp">>
        [] awg.enabled /\ ~awg.preferred ->
             \* TCP, where there is any, is the last of every mode's order
             IF awg.fallback THEN notTcp \o <<"awg_warp">> \o tcp ELSE others

\* mtProtoTestDCRoutes.
TestRoutes(c) ==
  Keep(<<"direct_ws", "tcp_fallback">>,
       {r \in RouteKinds : Allows(c, r) /\ (c.policy /\ r = "tcp_fallback" => c.fallback)})

\* mtProtoRoutesForRequest.
PlansFor(c, test) ==
  IF test THEN {WithAwgWarp(TestRoutes(c))}
  ELSE IF c.order # << >> THEN {ExplicitRoutes(c)}
  ELSE IF c.mode = "auto" THEN {WithAwgWarp(q) : q \in AdaptiveRoutes(c, FALSE)}
  ELSE {WithAwgWarp(FilterRoutesByPolicy(c, RoutesForMode(c, FALSE)))}

Request(m, test) ==
  /\ mat[m] = "idle"
  /\ mat' = [mat EXCEPT ![m] = "next"]
  /\ \E routes \in PlansFor(settings, test) : mplan' = [mplan EXCEPT ![m] = routes]
  /\ mtest' = [mtest EXCEPT ![m] = test]
  /\ UNCHANGED <<planVars, socksVars, cancelled, tcpCooling>>

\* The client's deadline, its disconnect or the end of the frontend.
Cancel(m) ==
  /\ mat[m] \in {"next", "dial"}
  /\ cancelled' = [cancelled EXCEPT ![m] = TRUE]
  /\ UNCHANGED <<planVars, socksVars, mat, mplan, mtest, tcpCooling>>

-----------------------------------------------------------------------------
(* The connectors *)

\* What a connector looks at before it dials.
Refuses(m, r) ==
  CASE r = "direct_ws" -> ipCooling /\ IPFallbackAvailable(settings)
    [] r = "cf_worker_ws" -> mtest[m] \/ ~Available(settings, r)
    [] r = "cf_proxy_ws" -> mtest[m] \/ ~Allows(settings, r) \/ ~Available(settings, r)
    [] r = "awg_warp" -> ~awg.enabled
    [] r = "tcp_fallback" -> tcpCooling

Gives(m, place) == mat' = [mat EXCEPT ![m] = place]

\* ctx.Err() before a route, and the end of the routes.
GiveUp(m) ==
  /\ mat[m] = "next"
  /\ cancelled[m] \/ mplan[m] = << >>
  /\ Gives(m, "failed")
  /\ UNCHANGED <<planVars, socksVars, mplan, mtest, cancelled, tcpCooling>>

RouteRefuses(m) ==
  /\ mat[m] = "next"
  /\ ~cancelled[m]
  /\ mplan[m] # << >>
  /\ Refuses(m, Head(mplan[m]))
  /\ mplan' = [mplan EXCEPT ![m] = Tail(@)]
  /\ UNCHANGED <<planVars, socksVars, mat, mtest, cancelled, tcpCooling>>

RouteDials(m) ==
  /\ mat[m] = "next"
  /\ ~cancelled[m]
  /\ mplan[m] # << >>
  /\ ~Refuses(m, Head(mplan[m]))
  /\ Gives(m, "dial")
  /\ UNCHANGED <<planVars, socksVars, mplan, mtest, cancelled, tcpCooling>>

\* A connection that comes after the cancellation is closed, but its route is well.
DialSucceeds(m) ==
  /\ mat[m] = "dial"
  /\ LET r == Head(mplan[m])
     IN  /\ ipCooling' = (ipCooling /\ r # "direct_ws")
         /\ tcpCooling' = (tcpCooling /\ r # "tcp_fallback")
  /\ Gives(m, IF cancelled[m] THEN "failed" ELSE "connected")
  /\ UNCHANGED <<settings, gen, changes, awg, storeVars, workerCooling, failures, socksVars,
                 mplan, mtest, cancelled>>

\* marked: a timeout of Direct WS, a failure of TCP that classifyDirectTCPFailure knows.
DialFails(m, marked) ==
  /\ mat[m] = "dial"
  /\ CountFailure
  /\ LET r == Head(mplan[m])
     IN  /\ ipCooling' = (ipCooling \/ (marked /\ r = "direct_ws"))
         /\ tcpCooling' = (tcpCooling \/ (marked /\ r = "tcp_fallback"))
  /\ IF cancelled[m] THEN Gives(m, "failed") /\ UNCHANGED mplan
     ELSE Gives(m, "next") /\ mplan' = [mplan EXCEPT ![m] = Tail(@)]
  /\ UNCHANGED <<settings, gen, changes, awg, storeVars, workerCooling, socksVars, mtest,
                 cancelled>>

\* The frontend is done with the answer; the place may take another request.
Answered(m) ==
  /\ mat[m] \in {"connected", "failed"}
  /\ Gives(m, "idle")
  /\ mplan' = [mplan EXCEPT ![m] = << >>]
  /\ mtest' = [mtest EXCEPT ![m] = FALSE]
  /\ cancelled' = [cancelled EXCEPT ![m] = FALSE]
  /\ UNCHANGED <<planVars, socksVars, tcpCooling>>

TCPCooldownOver ==
  /\ tcpCooling
  /\ tcpCooling' = FALSE
  /\ UNCHANGED <<planVars, socksVars, mat, mplan, mtest, cancelled>>

Proceeds(m) ==
  \/ GiveUp(m)
  \/ RouteRefuses(m)
  \/ RouteDials(m)
  \/ DialSucceeds(m)
  \/ \E marked \in BOOLEAN : DialFails(m, marked)

ConnectStep(m) ==
  \/ Cancel(m)
  \/ Proceeds(m)
  \/ Answered(m)

\* A client more may come: the bounds on clients and on failed dials before them.
Vacant ==
  /\ Cardinality({s \in Sessions : at[s] # "idle"} \cup {m \in Connects : mat[m] # "idle"})
       < MaxClients
  /\ failures < MaxFailures

Next ==
  \/ (Environment /\ UNCHANGED <<socksVars, connectVars>>)
  \/ (FailingOver /\ UNCHANGED connectVars)
  \/ TCPCooldownOver
  \/ \E s \in Sessions : SocksStep(s) /\ UNCHANGED connectVars
  \/ \E s \in Sessions : Vacant /\ Accept(s) /\ UNCHANGED connectVars
  \/ \E m \in Connects : ConnectStep(m)
  \/ \E m \in Connects, test \in BOOLEAN : Vacant /\ Request(m, test)

\* Every dial has its own timeout; clients and the host owe nothing.
Fairness ==
  /\ \A s \in Sessions : WF_vars(Decides(s) /\ UNCHANGED connectVars)
  /\ \A m \in Connects : WF_vars(Proceeds(m))

Spec == Init /\ [][Next]_vars /\ Fairness

-----------------------------------------------------------------------------
(* Properties *)

TypeOK ==
  /\ PlanTypeOK
  /\ SocksTypeOK
  /\ mat \in [Connects -> {"idle", "next", "dial", "connected", "failed"}]
  /\ mplan \in [Connects -> Seq(RouteKinds)]
  /\ {mtest, cancelled} \subseteq [Connects -> BOOLEAN]
  /\ tcpCooling \in BOOLEAN

\* Neither the settings nor the AWG policy changed since the session was accepted.
Steady(s) == accepted[s].era = changes

(* worker_only and cf_only mean what they say: while the settings stay,    *)
(* whatever fails, rests or is blacklisted, a session of such a mode dials *)
(* no other route, and one under CF.Only never Direct WS, whatever chain   *)
(* the mode beside it names (tg-ws-proxy.go 2590-2694, runRouteChain).     *)
RestrictedKept ==
  \A s \in Sessions :
    Steady(s) /\ at[s] # "idle"
      => /\ settings.mode \in Restricted => tried[s] \subseteq {OnlyRoute(settings.mode)}
         /\ settings.only => "direct_ws" \notin tried[s]

\* The routes but Direct WS a fallback chain could use.
OpenRoutes ==
  {r \in ToSet(ModeOrder(settings.mode)) \ {"direct_ws"} : Allows(settings, r) /\ Available(settings, r)}

(* No client is turned away while a way is open: under settings that stay, *)
(* cooldowns and scores may reorder the fallback chain and shorten it, but *)
(* a chain that ends has dialed a route if one is open (adaptive.go: "no   *)
(* scored candidates, use default"), in the other modes every one of them  *)
(* but a Worker that rests.  An exclusive AWG policy leaves no chain.      *)
RefusedExhausted ==
  \A s \in Sessions :
    at[s] = "exhausted" /\ Steady(s) /\ ~AwgExclusive
      => /\ OpenRoutes # {} => tried[s] \cap OpenRoutes # {}
         /\ settings.mode \notin Adaptive => OpenRoutes \ {"cf_worker_ws"} \subseteq tried[s]

(* A host that forbids a route is obeyed at once: a session that read the  *)
(* old settings, planned by them and still runs its chain dials no Worker  *)
(* or CF domain that the settings in force forbid, a connect no CF domain; *)
(* Direct WS is forbidden by the settings the session was accepted with.   *)
PolicyHeld ==
  [][/\ \A s \in Sessions :
          at[s] # "dial" /\ at'[s] = "dial"
            => CASE route'[s] \in {"cf_worker_ws", "cf_proxy_ws"} -> Allows(settings, route'[s])
                 [] route'[s] = "direct_ws" -> Allows(accepted[s].c, "direct_ws")
                 [] OTHER -> TRUE
     /\ \A m \in Connects :
          mat[m] # "dial" /\ mat'[m] = "dial" /\ Head(mplan[m]) = "cf_proxy_ws"
            => Allows(settings, "cf_proxy_ws")]_vars

(* "SkipsIPOnCooldownWhenFallbackExists" (mtproto_ws_route_test.go:203):   *)
(* Direct WS is passed over for its address's cooldown, which lasts an     *)
(* hour, only if the client has another route.  It has none in direct_only *)
(* mode: with a policy, directIPCooldownFallbackAvailable looks at what    *)
(* the policy allows and no more at the mode.                              *)
SkippedForAFallback ==
  [][/\ \A s \in Sessions :
          at[s] = "consider" /\ at'[s] = "plan"
            => LET c == accepted[s].c
               IN  FilterRoutesByPolicy(c, RoutesForMode(c, TRUE)) # << >>
     /\ \A m \in Connects :
          mat[m] = "next" /\ mplan'[m] = Tail(mplan[m]) /\ Head(mplan[m]) = "direct_ws"
            => \E routes \in PlansFor(settings, mtest[m]) : Len(routes) > 1]_vars

(* A client that is accepted gets a route or is turned away, and so is a   *)
(* connect of the MTProto frontend: chains, the return to Direct WS and    *)
(* the second chain after it come to an end.  Each client's place is again *)
(* and again free, in use or done.                                         *)
AttemptsEnd ==
  /\ \A s \in Sessions : []<>(at[s] \in {"idle", "bridge", "exhausted", "ended"})
  /\ \A m \in Connects : []<>(mat[m] \in {"idle", "connected", "failed"})
=============================================================================
