---------------------------- MODULE SocksRoutes ----------------------------
(***************************************************************************)
(* A SOCKS session's way to Telegram (handleClient in tg-ws-proxy.go,      *)
(* runRouteChain and the fallbacks in routing.go).  The session reads the  *)
(* settings when it is accepted, the fallback chain reads them when it is  *)
(* planned and once more when it starts, and the Worker and CF fallbacks   *)
(* read them again: the host may change them in between.  A dial stands    *)
(* for all the endpoints its route tries (WorkerRoute, CfDomainPool).      *)
(***************************************************************************)
EXTENDS RoutePlan

CONSTANT Sessions   \* SOCKS sessions, one after another in each place

VARIABLES
  blacklisted,  \* wsBlacklist of the DC
  failing,      \* dcFailUntil of the DC lies ahead
  at,           \* per session, where it is
  route,        \* the route it dials or uses
  plan,         \* the routes its chain has still to try
  primary,      \* the chain is the one before Direct WS
  last,         \* the dial's failure ends the session: a passthrough, or Direct WS broke
  accepted,     \* the settings it read first,
  chained,      \* those its chain goes by
  used,         \* and those its success is recorded under
  tried         \* the routes it has dialed

socksVars == <<blacklisted, failing, at, route, plan, primary, last, accepted, chained, used,
               tried>>

Places == {"idle", "decide", "consider", "plan", "start", "chain", "dial", "write", "bridge",
           "record", "exhausted", "ended"}

(* Settings as a session remembers them; era tells when they were read.    *)
Snapshot == [c |-> settings, gen |-> gen, era |-> changes]
Snapshots == [c: Configs, gen: 0..MaxChanges, era: 0..MaxChanges]

\* What stands in its place outside a session; nothing reads it.
Unread == [c |-> CHOOSE c \in Configs : TRUE, gen |-> 0, era |-> 0]

InitSocks ==
  /\ blacklisted = FALSE
  /\ failing = FALSE
  /\ at = [s \in Sessions |-> "idle"]
  /\ route = [s \in Sessions |-> NoRoute]
  /\ plan = [s \in Sessions |-> << >>]
  /\ primary = [s \in Sessions |-> FALSE]
  /\ last = [s \in Sessions |-> FALSE]
  /\ accepted = [s \in Sessions |-> Unread]
  /\ chained = [s \in Sessions |-> Unread]
  /\ used = [s \in Sessions |-> Unread]
  /\ tried = [s \in Sessions |-> {}]

Goes(s, place) == at' = [at EXCEPT ![s] = place]

Dial(s, r, isLast, snapshot) ==
  /\ Goes(s, "dial")
  /\ route' = [route EXCEPT ![s] = r]
  /\ tried' = [tried EXCEPT ![s] = @ \cup {r}]
  /\ last' = [last EXCEPT ![s] = isLast]
  /\ used' = [used EXCEPT ![s] = snapshot]

Start(s, routes, isPrimary) ==
  /\ Goes(s, "start")
  /\ plan' = [plan EXCEPT ![s] = routes]
  /\ primary' = [primary EXCEPT ![s] = isPrimary]

-----------------------------------------------------------------------------
(* handleClient *)

\* The SOCKS greeting is over; the init packet is still to come.
Accept(s) ==
  /\ at[s] = "idle"
  /\ Goes(s, "decide")
  /\ accepted' = [accepted EXCEPT ![s] = Snapshot]
  /\ UNCHANGED <<planVars, blacklisted, failing, route, plan, primary, last, chained, used,
                 tried>>

\* A mode of one route, or CF.Only, the older switch, whatever the mode.
Confined(c) == c.mode \in Restricted \/ c.only

(* The init packet names no DC and the address is not one that is known.   *)
(* Only for an address without any mapping does TCP need the policy.       *)
DecideUnmapped(s, unknown) ==
  /\ at[s] = "decide"
  /\ LET c == accepted[s].c
     IN  IF Confined(c) \/ (unknown /\ ~Allows(c, "tcp_fallback"))
         THEN Goes(s, "ended") /\ UNCHANGED <<route, tried, last, used>>
         ELSE Dial(s, "tcp_fallback", TRUE, accepted[s])
  /\ UNCHANGED <<planVars, blacklisted, failing, plan, primary, accepted, chained>>

\* The DC is not configured, or Direct WS is not to be tried.
DecideFallback(s) ==
  /\ at[s] = "decide"
  /\ Goes(s, "plan")
  /\ UNCHANGED <<planVars, blacklisted, failing, route, plan, primary, last, accepted, chained,
                 used, tried>>

BarredByPolicy(c) == ~Allows(c, "direct_ws") \/ blacklisted   \* mutant: whatever the mode

DirectBarred(c) == ~Allows(c, "direct_ws") \/ blacklisted \/ Confined(c)

DecideConfigured(s) ==
  /\ at[s] = "decide"
  /\ LET c == accepted[s].c
     IN  /\ ~DirectBarred(c)
         /\ IF PrimaryRoutes(c) # << >> THEN Start(s, PrimaryRoutes(c), TRUE)
            ELSE Goes(s, "consider") /\ UNCHANGED <<plan, primary>>
  /\ UNCHANGED <<planVars, blacklisted, failing, route, last, accepted, chained, used, tried>>

\* shouldSkipDirectWSAdaptive and the address's cooldown; else Direct WS it is.
Consider(s) ==
  /\ at[s] = "consider"
  /\ LET c == accepted[s].c
     IN  IF \/ c.mode \in Adaptive /\ failing
            \/ DirectRests(c)
            \/ ipCooling /\ IPFallbackAvailable(c)
         THEN Goes(s, "plan") /\ UNCHANGED <<route, tried, last, used>>
         ELSE Dial(s, "direct_ws", FALSE, accepted[s])
  /\ UNCHANGED <<planVars, blacklisted, failing, plan, primary, accepted, chained>>

\* A socket from the pool, or a domain that answers.
DirectConnects(s) ==
  /\ at[s] = "dial"
  /\ route[s] = "direct_ws"
  /\ Goes(s, "write")
  /\ failing' = FALSE
  /\ ipCooling' \in {ipCooling, FALSE}
  /\ UNCHANGED <<settings, gen, changes, awg, storeVars, workerCooling, failures, blacklisted, route,
                 plan, primary, last, accepted, chained, used, tried>>

\* No domain answers.  now was read before the dials and the chain before them,
\* so that the 30 seconds of dcFailUntil may be over already.
DirectFails(s, timedOut) ==
  /\ at[s] = "dial"
  /\ route[s] = "direct_ws"
  /\ \/ ~timedOut /\ blacklisted' = TRUE /\ UNCHANGED failing   \* all of them redirect
     \/ failing' \in BOOLEAN /\ UNCHANGED blacklisted
  /\ ipCooling' = (ipCooling \/ timedOut)
  /\ CountFailure
  /\ \E times \in 1..2 :
       RecordFailure("direct_ws", IF accepted[s].c.mode \in Adaptive THEN times ELSE 0)
  /\ Goes(s, "plan")
  /\ route' = [route EXCEPT ![s] = NoRoute]
  /\ UNCHANGED <<settings, gen, changes, awg, workerCooling, plan, primary, last, accepted, chained,
                 used, tried>>

DirectWrites(s) ==
  /\ at[s] = "write"
  /\ Goes(s, "bridge")
  /\ UNCHANGED <<planVars, blacklisted, failing, route, plan, primary, last, accepted, chained,
                 used, tried>>

\* The WebSocket breaks before the first packet: TCP, whatever the settings say.
DirectBreaks(s) ==
  /\ at[s] = "write"
  /\ CountFailure
  /\ Dial(s, "tcp_fallback", TRUE, accepted[s])
  /\ UNCHANGED <<settings, gen, changes, awg, storeVars, workerCooling, ipCooling, blacklisted,
                 failing, plan, primary, accepted, chained>>

-----------------------------------------------------------------------------
(* runFallbackChain and runRouteChain *)

PlanChain(s) ==
  /\ at[s] = "plan"
  /\ \E routes \in AdaptiveRoutes(settings, TRUE) : Start(s, routes, FALSE)
  /\ UNCHANGED <<planVars, blacklisted, failing, route, last, accepted, chained, used, tried>>

\* The end of a chain: what was to come before Direct WS leads to Direct WS.
ChainOver(s) == Goes(s, IF primary[s] THEN "consider" ELSE "exhausted")

OnlyRoute(mode) == IF mode = "worker_only" THEN "cf_worker_ws" ELSE "cf_proxy_ws"

StartChain(s) ==
  /\ at[s] = "start"
  /\ chained' = [chained EXCEPT ![s] = Snapshot]
  /\ plan' = [plan EXCEPT ![s] = FilterWorkerCooldown(@)]
  /\ IF settings.mode \in Restricted /\ OnlyRoute(settings.mode) \notin settings.have
     THEN ChainOver(s)
     ELSE Goes(s, "chain")
  /\ UNCHANGED <<planVars, blacklisted, failing, route, primary, last, accepted, used, tried>>

ChainEnds(s) ==
  /\ at[s] = "chain"
  /\ plan[s] = << >>
  /\ ChainOver(s)
  /\ UNCHANGED <<planVars, blacklisted, failing, route, plan, primary, last, accepted, chained,
                 used, tried>>

TakeRoute(s, r) ==
  /\ at[s] = "chain"
  /\ plan[s] # << >>
  /\ r = Head(plan[s])
  /\ plan' = [plan EXCEPT ![s] = Tail(@)]

\* Direct WS and AWG are not for the chain, nor is a Worker it knows no domain of.
PassOverRoute(s) ==
  /\ \E r \in RouteKinds :
       /\ TakeRoute(s, r)
       /\ \/ r \in {"direct_ws", "awg_warp"}
          \/ r = "cf_worker_ws" /\ r \notin chained[s].c.have
  /\ UNCHANGED <<planVars, blacklisted, failing, at, route, primary, last, accepted, chained,
                 used, tried>>

DialByOldSettings(s) ==   \* mutant: the fallbacks go by the chain's settings
  /\ \E r \in {"cf_worker_ws", "cf_proxy_ws", "tcp_fallback"} :
       /\ TakeRoute(s, r)
       /\ r = "cf_worker_ws" => r \in chained[s].c.have
       /\ Dial(s, r, FALSE, chained[s])
  /\ UNCHANGED <<planVars, blacklisted, failing, primary, accepted, chained>>

\* cfWorkerFallback and cfProxyFallbackWithPool look at the settings of the moment.
Open(r) == r = "tcp_fallback" \/ (Allows(settings, r) /\ Available(settings, r))

DialRoute(s) ==
  /\ \E r \in {"cf_worker_ws", "cf_proxy_ws", "tcp_fallback"} :
       /\ TakeRoute(s, r)
       /\ r = "cf_worker_ws" => r \in chained[s].c.have
       /\ Open(r)
       /\ Dial(s, r, FALSE, IF r = "tcp_fallback" THEN chained[s] ELSE Snapshot)
  /\ UNCHANGED <<planVars, blacklisted, failing, primary, accepted, chained>>

(* How often the failure of a route counts: the Worker's is recorded by    *)
(* the fallback that dialed, which a timeout may make two (own), and again *)
(* by the chain.                                                           *)
Recorded(s, r, own) ==
  CASE r = "cf_worker_ws" -> (IF used[s].c.mode \in Adaptive THEN own ELSE 0)
                               + (IF chained[s].c.mode \in Adaptive THEN 1 ELSE 0)
    [] r = "cf_proxy_ws" -> IF chained[s].c.mode = "cf_only" THEN 0 ELSE 1
    [] r = "tcp_fallback" -> IF last[s] THEN 0 ELSE 1

AfterFailure(s, r) ==
  IF r = "cf_proxy_ws" /\ chained[s].c.mode = "cf_only" THEN ChainOver(s) ELSE Goes(s, "chain")

\* The fallback refuses: a failure all the same.
RouteClosed(s) ==
  /\ \E r \in {"cf_worker_ws", "cf_proxy_ws"} :
       /\ TakeRoute(s, r)
       /\ r = "cf_worker_ws" => r \in chained[s].c.have
       /\ ~Open(r)
       /\ RecordFailure(r, Recorded(s, r, 0))
       /\ AfterFailure(s, r)
  /\ UNCHANGED <<settings, gen, changes, awg, workerCooling, ipCooling, failures, blacklisted,
                 failing, route, primary, last, accepted, chained, used, tried>>

RouteConnects(s) ==
  /\ at[s] = "dial"
  /\ route[s] # "direct_ws"
  /\ Goes(s, "bridge")
  /\ UNCHANGED <<planVars, blacklisted, failing, route, plan, primary, last, accepted, chained,
                 used, tried>>

RouteFailsForever(s) ==   \* mutant: the chain starts over
  /\ at[s] = "dial"
  /\ route[s] # "direct_ws"
  /\ CountFailure
  /\ \E own \in 0..2 : RecordFailure(route[s], Recorded(s, route[s], own))
  /\ IF last[s] THEN Goes(s, "ended") ELSE Goes(s, "plan")
  /\ route' = [route EXCEPT ![s] = NoRoute]
  /\ UNCHANGED <<settings, gen, changes, awg, workerCooling, ipCooling, blacklisted, failing,
                 plan, primary, last, accepted, chained, used, tried>>

RouteFails(s) ==
  /\ at[s] = "dial"
  /\ route[s] # "direct_ws"
  /\ CountFailure
  /\ \E own \in 0..2 : RecordFailure(route[s], Recorded(s, route[s], own))
  /\ IF last[s] THEN Goes(s, "ended") ELSE AfterFailure(s, route[s])
  /\ route' = [route EXCEPT ![s] = NoRoute]
  /\ UNCHANGED <<settings, gen, changes, awg, workerCooling, ipCooling, blacklisted, failing,
                 plan, primary, last, accepted, chained, used, tried>>

-----------------------------------------------------------------------------
(* The end of a session *)

(* noteWorkerDstSessionOutcome: a Worker that took much and sent nothing  *)
(* rests, unless the traffic looks like a call.  Then the settings tell    *)
(* whether the session counts as a success of its route.                   *)
BridgeEnds(s, neutral, silent) ==
  /\ at[s] = "bridge"
  /\ silent => route[s] = "cf_worker_ws"
  /\ workerCooling' = (workerCooling \/ silent)
  /\ Goes(s, IF ~last[s] /\ Counts(route[s], used[s].gen, neutral) THEN "record" ELSE "ended")
  /\ UNCHANGED <<settings, gen, changes, awg, storeVars, ipCooling, failures, blacklisted, failing,
                 route, plan, primary, last, accepted, chained, used, tried>>

\* The settings may be others by now.
RecordsSuccess(s) ==
  /\ at[s] = "record"
  /\ RecordSuccess(route[s])
  /\ Goes(s, "ended")
  /\ UNCHANGED <<settings, gen, changes, awg, workerCooling, ipCooling, failures, blacklisted,
                 failing, route, plan, primary, last, accepted, chained, used, tried>>

\* The connection is closed; the place may take another session.
Leave(s) ==
  /\ at[s] \in {"exhausted", "ended"}
  /\ Goes(s, "idle")
  /\ route' = [route EXCEPT ![s] = NoRoute]
  /\ plan' = [plan EXCEPT ![s] = << >>]
  /\ primary' = [primary EXCEPT ![s] = FALSE]
  /\ last' = [last EXCEPT ![s] = FALSE]
  /\ tried' = [tried EXCEPT ![s] = {}]
  /\ accepted' = [accepted EXCEPT ![s] = Unread]
  /\ chained' = [chained EXCEPT ![s] = Unread]
  /\ used' = [used EXCEPT ![s] = Unread]
  /\ UNCHANGED <<planVars, blacklisted, failing>>

\* dcFailUntil passes.
FailingOver ==
  /\ failing
  /\ failing' = FALSE
  /\ UNCHANGED <<planVars, blacklisted, at, route, plan, primary, last, accepted, chained, used,
                 tried>>

Decides(s) ==
  \/ \E unknown \in BOOLEAN : DecideUnmapped(s, unknown)
  \/ DecideFallback(s)
  \/ DecideConfigured(s)
  \/ Consider(s)
  \/ DirectConnects(s)
  \/ \E timedOut \in BOOLEAN : DirectFails(s, timedOut)
  \/ DirectWrites(s)
  \/ DirectBreaks(s)
  \/ PlanChain(s)
  \/ StartChain(s)
  \/ ChainEnds(s)
  \/ PassOverRoute(s)
  \/ DialRoute(s)
  \/ RouteClosed(s)
  \/ RouteConnects(s)
  \/ RouteFails(s)
  \/ RecordsSuccess(s)

SocksStep(s) ==
  \/ Decides(s)
  \/ \E neutral, silent \in BOOLEAN : BridgeEnds(s, neutral, silent)
  \/ Leave(s)

SocksTypeOK ==
  /\ {blacklisted, failing} \subseteq BOOLEAN
  /\ at \in [Sessions -> Places]
  /\ route \in [Sessions -> RouteKinds \cup {NoRoute}]
  /\ plan \in [Sessions -> Seq(RouteKinds)]
  /\ {primary, last} \subseteq [Sessions -> BOOLEAN]
  /\ {accepted, chained, used} \subseteq [Sessions -> Snapshots]
  /\ tried \in [Sessions -> SUBSET RouteKinds]
=============================================================================
