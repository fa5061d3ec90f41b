--------------------------- MODULE FrontendRuntime ---------------------------
(***************************************************************************)
(* The life of the MTProto frontend (mtproxyfrontend/runtime.go): Start    *)
(* and Stop, the accept loop of each run with the watchdog that reopens    *)
(* its listener, and the goroutine of each accepted connection.  One       *)
(* Runtime object serves every run; loops, watchdogs and sessions of a run *)
(* that was stopped may still be at work when the next run has begun.      *)
(*                                                                         *)
(* A run is a number, its context is the run itself.  A listener is the    *)
(* run that opened it with how often the watchdog had reopened it.  Start  *)
(* holds the mutex from its first write to its last and is one step; Stop  *)
(* cancels and closes after it has unlocked.  The connector is always set, *)
(* as in the program; lastError and the fake-TLS counters are left out.    *)
(***************************************************************************)
EXTENDS Naturals, FiniteSets

CONSTANTS
  Ports,            \* addresses the frontend may be started on
  Conns,            \* client connections
  MaxRuns,          \* bound on successful Starts
  MaxAcceptErrors,  \* bound on failures of Accept
  MaxBadStarts,     \* bound on Starts with an invalid configuration
  None              \* no listener, no connection

ASSUME ConstantsAssumption ==
  /\ IsFiniteSet(Conns)
  /\ MaxRuns \in Nat
  /\ MaxAcceptErrors \in Nat
  /\ MaxBadStarts \in Nat
  /\ None \notin Conns /\ None \notin Ports
  /\ None \notin (1..MaxRuns) \X Nat

Runs == 1..MaxRuns
Listeners == Runs \X Nat

VARIABLES
  runCtx,     \* r.runCtx, and r.cancel: the current run, 0 for none
  listener,   \* r.listener
  status,     \* r.status
  active,     \* r.activeConnections
  total,      \* r.totalConnections
  routeBy,    \* the run whose session wrote the route truth, 0: awaiting_connection
  runs,       \* how many runs there were
  portOf,     \* per run, its address
  stop,       \* per run, how far its Stop is: "no", "unlocked", "cancelled", "done"
  captured,   \* per run, the listener its Stop closes
  open,       \* the sockets that are open
  loop,       \* per run, where its accept loop is
  reopened,   \* per run, how often the loop's listener was reopened
  accepted,   \* per run, the connection its loop has accepted and not handed over
  session,    \* per connection, where its goroutine is
  runOf,      \* per connection, its run
  errors,     \* failures of Accept so far
  badStarts   \* Starts with an invalid configuration so far

runtimeVars == <<runCtx, listener, status, active, total, routeBy>>
stopVars    == <<stop, captured>>
loopVars    == <<loop, reopened, accepted>>
sessionVars == <<session, runOf>>
countVars   == <<runs, portOf, errors, badStarts>>
vars == <<runtimeVars, stopVars, open, loopVars, sessionVars, countVars>>

Init ==
  /\ runCtx = 0
  /\ listener = None
  /\ status = "DISABLED"
  /\ active = 0
  /\ total = 0
  /\ routeBy = 0
  /\ runs = 0
  /\ portOf = [r \in Runs |-> None]
  /\ stop = [r \in Runs |-> "no"]
  /\ captured = [r \in Runs |-> None]
  /\ open = {}
  /\ loop = [r \in Runs |-> "none"]
  /\ reopened = [r \in Runs |-> 0]
  /\ accepted = [r \in Runs |-> None]
  /\ session = [c \in Conns |-> "none"]
  /\ runOf = [c \in Conns |-> 0]
  /\ errors = 0
  /\ badStarts = 0

Cancelled(r) == stop[r] \in {"cancelled", "done"}

\* The listener the loop of run r accepts on.
Current(r) == <<r, reopened[r]>>

PortFree(p) == \A l \in open : portOf[l[1]] # p

-----------------------------------------------------------------------------
(* Start and Stop *)

\* What Start resets before it listens.
ResetStatus ==
  /\ active' = 0
  /\ total' = 0
  /\ routeBy' = 0

Start(p) ==
  /\ runCtx = 0
  /\ runs < MaxRuns
  /\ PortFree(p)
  /\ ResetStatus
  /\ LET r == runs + 1
     IN  /\ runs' = r
         /\ runCtx' = r
         /\ portOf' = [portOf EXCEPT ![r] = p]
         /\ listener' = <<r, 0>>
         /\ open' = open \cup {<<r, 0>>}
         /\ loop' = [loop EXCEPT ![r] = "accept"]
  /\ status' = "LISTENING"
  /\ UNCHANGED <<stopVars, reopened, accepted, sessionVars, errors, badStarts>>

StartPortBusy(p) ==
  /\ runCtx = 0
  /\ ~PortFree(p)
  /\ ResetStatus
  /\ status' = "FAILED_PORT_IN_USE"
  /\ UNCHANGED <<runCtx, listener, stopVars, open, loopVars, sessionVars, countVars>>

\* The configuration is looked at before the mutex is taken and before Start
\* knows whether the frontend is running.
StartInvalid ==
  /\ badStarts < MaxBadStarts
  /\ badStarts' = badStarts + 1
  /\ status' = "FAILED_CONFIG"
  /\ UNCHANGED <<runCtx, listener, active, total, routeBy, stopVars, open, loopVars,
                 sessionVars, runs, portOf, errors>>

\* Stop, under the mutex ...
Stop ==
  /\ runCtx # 0
  /\ stop' = [stop EXCEPT ![runCtx] = "unlocked"]
  /\ captured' = [captured EXCEPT ![runCtx] = listener]
  /\ runCtx' = 0
  /\ listener' = None
  /\ status' = "STOPPED"
  /\ active' = 0
  /\ UNCHANGED <<total, routeBy, open, loopVars, sessionVars, countVars>>

\* ... then its cancel() ...
StopCancels(r) ==
  /\ stop[r] = "unlocked"
  /\ stop' = [stop EXCEPT ![r] = "cancelled"]
  /\ UNCHANGED <<runtimeVars, captured, open, loopVars, sessionVars, countVars>>

StopClosesLatest(r) ==   \* mutant: r.listener is read again, without the mutex
  /\ stop[r] = "cancelled"
  /\ stop' = [stop EXCEPT ![r] = "done"]
  /\ open' = open \ {listener}
  /\ UNCHANGED <<runtimeVars, captured, loopVars, sessionVars, countVars>>

StopClosesNothing(r) ==   \* mutant: the listener is left to the loop
  /\ stop[r] = "cancelled"
  /\ stop' = [stop EXCEPT ![r] = "done"]
  /\ UNCHANGED <<runtimeVars, captured, open, loopVars, sessionVars, countVars>>

\* ... and the Close of the listener it found.
StopCloses(r) ==
  /\ stop[r] = "cancelled"
  /\ stop' = [stop EXCEPT ![r] = "done"]
  /\ open' = open \ {captured[r]}
  /\ UNCHANGED <<runtimeVars, captured, loopVars, sessionVars, countVars>>

-----------------------------------------------------------------------------
(* The accept loop of a run and its watchdog *)

\* Accept returns a connection and the context is not done.
Accept(r, c) ==
  /\ loop[r] = "accept"
  /\ Current(r) \in open
  /\ ~Cancelled(r)
  /\ session[c] = "none"
  /\ session' = [session EXCEPT ![c] = "accepted"]
  /\ runOf' = [runOf EXCEPT ![c] = r]
  /\ accepted' = [accepted EXCEPT ![r] = c]
  /\ loop' = [loop EXCEPT ![r] = "count_total"]
  /\ UNCHANGED <<runtimeVars, stopVars, open, reopened, countVars>>

\* Accept returns a connection after the run was stopped: the loop closes the
\* connection and ends, and leaves the listener as it is.
AcceptAfterStop(r, c) ==
  /\ loop[r] = "accept"
  /\ Current(r) \in open
  /\ Cancelled(r)
  /\ session[c] = "none"
  /\ session' = [session EXCEPT ![c] = "done"]
  /\ runOf' = [runOf EXCEPT ![c] = r]
  /\ loop' = [loop EXCEPT ![r] = "ended"]
  /\ UNCHANGED <<runtimeVars, stopVars, open, reopened, accepted, countVars>>

CountTotal(r) ==
  /\ loop[r] = "count_total"
  /\ total' = total + 1
  /\ loop' = [loop EXCEPT ![r] = "count_active"]
  /\ UNCHANGED <<runCtx, listener, status, active, routeBy, stopVars, open, reopened,
                 accepted, sessionVars, countVars>>

\* activeConnections.Add(1), then go handleConnection.
CountActive(r) ==
  /\ loop[r] = "count_active"
  /\ active' = active + 1
  /\ session' = [session EXCEPT ![accepted[r]] = "handshake"]
  /\ accepted' = [accepted EXCEPT ![r] = None]
  /\ loop' = [loop EXCEPT ![r] = "accept"]
  /\ UNCHANGED <<runCtx, listener, status, total, routeBy, stopVars, open, reopened,
                 runOf, countVars>>

\* Accept fails, because its listener was closed or by itself.
AcceptFails(r) ==
  /\ loop[r] = "accept"
  /\ IF Current(r) \in open
     THEN errors < MaxAcceptErrors /\ errors' = errors + 1
     ELSE UNCHANGED errors

AcceptErrorUnchecked(r) ==   \* mutant: every error goes to the watchdog
  /\ AcceptFails(r)
  /\ loop' = [loop EXCEPT ![r] = "watchdog"]
  /\ open' = open \ {Current(r)}
  /\ UNCHANGED <<runtimeVars, stopVars, reopened, accepted, sessionVars, runs, portOf,
                 badStarts>>

AcceptErrorKeepsSocket(r) ==   \* mutant: the watchdog does not close the old listener
  /\ AcceptFails(r)
  /\ loop' = [loop EXCEPT ![r] = IF Cancelled(r) THEN "ended" ELSE "watchdog"]
  /\ UNCHANGED <<runtimeVars, stopVars, open, reopened, accepted, sessionVars, runs, portOf,
                 badStarts>>

\* The loop of a stopped run ends; another hands over to the watchdog, which
\* closes the listener.
AcceptError(r) ==
  /\ AcceptFails(r)
  /\ IF Cancelled(r)
     THEN /\ loop' = [loop EXCEPT ![r] = "ended"]
          /\ UNCHANGED open
     ELSE /\ loop' = [loop EXCEPT ![r] = "watchdog"]
          /\ open' = open \ {Current(r)}
  /\ UNCHANGED <<runtimeVars, stopVars, reopened, accepted, sessionVars, runs, portOf,
                 badStarts>>

\* The timer fires and Listen succeeds; while the port is busy the watchdog
\* goes round.  The run may be stopped already: when both are ready the select
\* may take the timer.
WatchdogListens(r) ==
  /\ loop[r] = "watchdog"
  /\ PortFree(portOf[r])
  /\ reopened' = [reopened EXCEPT ![r] = @ + 1]
  /\ open' = open \cup {<<r, reopened[r] + 1>>}
  /\ loop' = [loop EXCEPT ![r] = "restore"]
  /\ UNCHANGED <<runtimeVars, stopVars, accepted, sessionVars, countVars>>

\* The end of restartListener does not look at the context again.
WatchdogRestores(r) ==
  /\ loop[r] = "restore"
  /\ listener' = Current(r)
  /\ status' = "LISTENING"
  /\ loop' = [loop EXCEPT ![r] = "accept"]
  /\ UNCHANGED <<runCtx, active, total, routeBy, stopVars, open, reopened, accepted,
                 sessionVars, countVars>>

\* The watchdog finds the run stopped and returns the context's error ...
WatchdogStopped(r) ==
  /\ loop[r] = "watchdog"
  /\ Cancelled(r)
  /\ loop' = [loop EXCEPT ![r] = "fail"]
  /\ UNCHANGED <<runtimeVars, stopVars, open, reopened, accepted, sessionVars, countVars>>

\* ... which the loop records as a failure of the frontend.
LoopFails(r) ==
  /\ loop[r] = "fail"
  /\ status' = "FAILED_RUNTIME_ERROR"
  /\ loop' = [loop EXCEPT ![r] = "ended"]
  /\ UNCHANGED <<runCtx, listener, active, total, routeBy, stopVars, open, reopened,
                 accepted, sessionVars, countVars>>

-----------------------------------------------------------------------------
(* handleConnection *)

Goes(c, next) == session' = [session EXCEPT ![c] = next]

UpdateRouteTruthOfAny(r) == routeBy' = r   \* mutant: sessions of old runs write, too

\* updateRouteTruthFor: only a session of the run that is current.
UpdateRouteTruth(r) ==
  routeBy' = IF runCtx = r /\ ~Cancelled(r) THEN r ELSE routeBy

\* prepareOutboundRequest returns while the run goes on: with a request, with a
\* probe to pass through to the masking domain, or with an error.
Handshake(c) ==
  /\ session[c] = "handshake"
  /\ ~Cancelled(runOf[c])
  /\ \E next \in {"connect", "passthrough", "reject"} : Goes(c, next)
  /\ UNCHANGED <<runtimeVars, stopVars, open, loopVars, runOf, countVars>>

\* The context's AfterFunc has closed the connection.
HandshakeCancelled(c) ==
  /\ session[c] = "handshake"
  /\ Cancelled(runOf[c])
  /\ Goes(c, "leave")
  /\ UNCHANGED <<runtimeVars, stopVars, open, loopVars, runOf, countVars>>

\* A rejected handshake, or a passthrough that failed.
Reject(c) ==
  /\ session[c] = "reject"
  /\ UpdateRouteTruth(runOf[c])
  /\ Goes(c, "leave")
  /\ UNCHANGED <<runCtx, listener, status, active, total, stopVars, open, loopVars, runOf,
                 countVars>>

Passthrough(c) ==
  /\ session[c] = "passthrough"
  /\ UpdateRouteTruth(runOf[c])
  /\ Goes(c, "passing")
  /\ UNCHANGED <<runCtx, listener, status, active, total, stopVars, open, loopVars, runOf,
                 countVars>>

PassthroughEnds(c) ==
  /\ session[c] = "passing"
  /\ \E next \in {"leave", "reject"} : Goes(c, next)
  /\ UNCHANGED <<runtimeVars, stopVars, open, loopVars, runOf, countVars>>

\* connector.Connect returns with a stream or an error.
ConnectReturns(c) ==
  /\ session[c] = "connect"
  /\ UpdateRouteTruth(runOf[c])
  /\ \E next \in {"bridge", "leave"} : Goes(c, next)
  /\ UNCHANGED <<runCtx, listener, status, active, total, stopVars, open, loopVars, runOf,
                 countVars>>

\* bridgeTransformedStreams returns: one side closed, or the run was stopped.
BridgeEnds(c) ==
  /\ session[c] = "bridge"
  /\ UpdateRouteTruth(runOf[c])
  /\ Goes(c, "leave")
  /\ UNCHANGED <<runCtx, listener, status, active, total, stopVars, open, loopVars, runOf,
                 countVars>>

LeaveUnchecked(c) ==   \* mutant: the deferred Add(-1) is unconditional
  /\ session[c] = "leave"
  /\ active' = active - 1
  /\ Goes(c, "done")
  /\ UNCHANGED <<runCtx, listener, status, total, routeBy, stopVars, open, loopVars, runOf,
                 countVars>>

\* The deferred function, under the mutex.
Leave(c) ==
  /\ session[c] = "leave"
  /\ active' = IF runCtx = runOf[c] THEN active - 1 ELSE active
  /\ Goes(c, "done")
  /\ UNCHANGED <<runCtx, listener, status, total, routeBy, stopVars, open, loopVars, runOf,
                 countVars>>

-----------------------------------------------------------------------------
StopStep(r) == StopCancels(r) \/ StopCloses(r)

LoopStep(r) ==
  \/ CountTotal(r)
  \/ CountActive(r)
  \/ AcceptError(r)
  \/ WatchdogListens(r)
  \/ WatchdogRestores(r)
  \/ WatchdogStopped(r)
  \/ LoopFails(r)

SessionStep(c) ==
  \/ Handshake(c)
  \/ HandshakeCancelled(c)
  \/ Reject(c)
  \/ Passthrough(c)
  \/ PassthroughEnds(c)
  \/ ConnectReturns(c)
  \/ BridgeEnds(c)
  \/ Leave(c)

Next ==
  \/ \E p \in Ports : Start(p) \/ StartPortBusy(p)
  \/ StartInvalid
  \/ Stop
  \/ \E r \in Runs : StopStep(r) \/ LoopStep(r)
  \/ \E r \in Runs, c \in Conns : Accept(r, c) \/ AcceptAfterStop(r, c)
  \/ \E c \in Conns : SessionStep(c)

Spec == Init /\ [][Next]_vars

(* Goroutines are scheduled.  Accept need not fail while its listener is    *)
(* open.  A handshake has deadlines; how long a stream is set up or bridged *)
(* is up to the peers while the run goes on, and once it is cancelled every *)
(* blocking call returns.                                                   *)
LoopMoves(r) ==
  /\ loop[r] = "accept" => Current(r) \notin open
  /\ LoopStep(r)

SessionMoves(c) ==
  /\ session[c] \in {"passing", "connect", "bridge"} => Cancelled(runOf[c])
  /\ SessionStep(c)

FairSpec ==
  /\ Spec
  /\ \A r \in Runs : WF_vars(StopStep(r)) /\ WF_vars(LoopMoves(r))
  /\ \A c \in Conns : WF_vars(SessionMoves(c))

-----------------------------------------------------------------------------
(* Properties *)

LoopStates == {"none", "accept", "count_total", "count_active", "watchdog", "restore",
               "fail", "ended"}
SessionStates == {"none", "accepted", "handshake", "passthrough", "passing", "reject",
                  "connect", "bridge", "leave", "done"}

\* The type invariant of the frontend; activeConnections never goes below zero.
TypeOK ==
  /\ runCtx \in 0..MaxRuns
  /\ listener \in Listeners \cup {None}
  /\ status \in {"DISABLED", "LISTENING", "STOPPED", "FAILED_PORT_IN_USE", "FAILED_CONFIG",
                 "FAILED_RUNTIME_ERROR"}
  /\ active \in Nat
  /\ total \in Nat
  /\ routeBy \in 0..MaxRuns
  /\ runs \in 0..MaxRuns
  /\ portOf \in [Runs -> Ports \cup {None}]
  /\ stop \in [Runs -> {"no", "unlocked", "cancelled", "done"}]
  /\ captured \in [Runs -> Listeners \cup {None}]
  /\ open \subseteq Listeners
  /\ loop \in [Runs -> LoopStates]
  /\ reopened \in [Runs -> Nat]
  /\ accepted \in [Runs -> Conns \cup {None}]
  /\ session \in [Conns -> SessionStates]
  /\ runOf \in [Conns -> 0..MaxRuns]
  /\ errors \in 0..MaxAcceptErrors
  /\ badStarts \in 0..MaxBadStarts

\* The sessions of a run that activeConnections counts.
Live(r) == {c \in Conns : runOf[c] = r /\ session[c] \notin {"none", "accepted", "done"}}

\* "rejects late state" (runtime_lifecycle_issue126_test.go): what the status says
\* of the route of a running frontend was never written by a session of an
\* earlier run, however late that session comes to it.
RouteTruthOwn == runCtx # 0 => routeBy \in {0, runCtx}

\* The sessions of the current run are all counted, whatever the loops and
\* deferred functions of earlier runs do to the counters they share.
ActiveCovers == runCtx # 0 => active >= Cardinality(Live(runCtx))

\* The socket a running frontend accepts on is open: the late Close of an
\* earlier run's Stop never hits it, even when it reopened meanwhile.
PortHeld ==
  runCtx # 0 /\ loop[runCtx] # "watchdog" => Current(runCtx) \in open

\* Until an accept fails or a configuration is invalid: the status says LISTENING
\* exactly while a run is current.
StatusTruthful ==
  errors = 0 /\ badStarts = 0 => ((status = "LISTENING") <=> (runCtx # 0))

\* Unless an accept fails: after Stop the run's loop ends and its socket closes.
StopFrees ==
  \A r \in Runs : (stop[r] = "unlocked") ~>
                    (errors > 0 \/ (loop[r] = "ended" /\ \A l \in open : l[1] # r))

\* A run whose listener failed listens again unless it is stopped, or a socket
\* that an older run's watchdog has opened late holds the port.
WatchdogReturns ==
  \A r \in Runs : (loop[r] = "watchdog") ~>
                    (loop[r] = "accept" \/ Cancelled(r) \/ \E l \in open : l[1] # r)
=============================================================================
