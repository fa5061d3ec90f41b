--------------------------- MODULE ProxyLifecycle ---------------------------
(***************************************************************************)
(* The SOCKS proxy's life (StartProxy, StopProxy and runProxy in           *)
(* tg-ws-proxy.go) together with the pool of idle sockets it fills.        *)
(* StopProxy cancels the run and returns; the goroutines of the run - the  *)
(* one that closes the listener and waits for the sessions, the accept     *)
(* loop with its watchdog, the pool's maintenance, the sessions - wind up  *)
(* while a next StartProxy may already be at work on the same port and     *)
(* the same pool.  The route tables StopProxy resets and the Worker pool   *)
(* are left out.                                                           *)
(***************************************************************************)
EXTENDS WsPool

CONSTANTS
  MaxRuns,          \* bound on successful StartProxy calls
  MaxAcceptErrors,  \* bound on accept failures of an open listener
  WarmRuns          \* the runs in whose mode the pool is warmed up (skipWarmup is FALSE)

ASSUME LifecycleAssumption ==
  /\ MaxRuns \in Nat
  /\ MaxAcceptErrors \in Nat
  /\ MaxCloses >= 2 * MaxRuns   \* StopProxy's and runProxy's: the bound never blocks one

Runs == 1..MaxRuns
Listeners == Runs \X (0..MaxAcceptErrors)

VARIABLES
  current,      \* the run whose cancel is globalCancel, or 0
  runs,         \* how many runs were started
  stopping,     \* StopProxy holds globalMu: the run is cancelled, the pool not closed
  main,         \* per run, runProxy: "none", "warm", "serve", "drain", "close", "over"
  loop,         \* per run, the accept loop: "none", "accept", "watchdog", "restore", "ended"
  reopened,     \* per run, how often its watchdog opened the port again
  registered,   \* per run, currentListener
  open,         \* the listeners that are open
  maintain,     \* per run, Maintain: "none", "wait", "schedule", "ended"
  session,      \* per connection: "none", "handshake", "bridge", "done"
  runOf,        \* per connection, the run that accepted it
  errors        \* accept failures so far

lifeVars == <<current, runs, stopping, main, loop, reopened, registered, open, maintain,
              session, runOf, errors>>
allVars == <<poolVars, lifeVars>>

Init ==
  /\ InitPool
  /\ kind = "direct"
  /\ current = 0
  /\ runs = 0
  /\ stopping = FALSE
  /\ main = [r \in Runs |-> "none"]
  /\ loop = [r \in Runs |-> "none"]
  /\ reopened = [r \in Runs |-> 0]
  /\ registered = [r \in Runs |-> <<r, 0>>]
  /\ open = {}
  /\ maintain = [r \in Runs |-> "none"]
  /\ session = [c \in Callers |-> "none"]
  /\ runOf = [c \in Callers |-> 0]
  /\ errors = 0

\* srvCtx of run r is done.
Cancelled(r) == r # current
PortFree == open = {}

\* The listener that the loop of run r accepts on.
Accepting(r) == <<r, reopened[r]>>
Sessions(r) == {c \in Callers : runOf[c] = r /\ session[c] \in {"handshake", "bridge"}}

-----------------------------------------------------------------------------
(* The exported functions, under globalMu *)

\* StartProxy waits for the result of Listen; with a busy port it undoes itself.
StartProxy ==
  /\ current = 0
  /\ ~stopping
  /\ PortFree
  /\ runs < MaxRuns
  /\ runs' = runs + 1
  /\ current' = runs + 1
  /\ main' = [main EXCEPT ![runs + 1] = "warm"]
  /\ open' = {<<runs + 1, 0>>}
  /\ UNCHANGED <<poolVars, stopping, loop, reopened, registered, maintain, session, runOf,
                 errors>>

StopCancels ==
  /\ current # 0
  /\ current' = 0
  /\ stopping' = TRUE
  /\ UNCHANGED <<poolVars, runs, main, loop, reopened, registered, open, maintain, session,
                 runOf, errors>>

StopClosesPool ==
  /\ stopping
  /\ stopping' = FALSE
  /\ CloseAll
  /\ UNCHANGED <<current, runs, main, loop, reopened, registered, open, maintain, session,
                 runOf, errors>>

-----------------------------------------------------------------------------
(* runProxy *)

\* The start-up goes on whether or not the run was cancelled meanwhile.
Serve(r) ==
  /\ main[r] = "warm"
  /\ main' = [main EXCEPT ![r] = "serve"]
  /\ loop' = [loop EXCEPT ![r] = "accept"]
  /\ IF r \in WarmRuns
     THEN Warmup /\ maintain' = [maintain EXCEPT ![r] = "wait"]
     ELSE UNCHANGED <<poolVars, maintain>>
  /\ UNCHANGED <<current, runs, stopping, reopened, registered, open, session, runOf, errors>>

ClosesFirstListener(r) ==   \* mutant: the watchdog's listener is not the one closed
  /\ main[r] = "serve"
  /\ Cancelled(r)
  /\ main' = [main EXCEPT ![r] = "drain"]
  /\ open' = open \ {<<r, 0>>}
  /\ UNCHANGED <<poolVars, current, runs, stopping, loop, reopened, registered, maintain,
                 session, runOf, errors>>

ClosesGlobalListener(r) ==   \* mutant: currentListener is shared by the runs
  /\ main[r] = "serve"
  /\ Cancelled(r)
  /\ main' = [main EXCEPT ![r] = "drain"]
  /\ open' = {}
  /\ UNCHANGED <<poolVars, current, runs, stopping, loop, reopened, registered, maintain,
                 session, runOf, errors>>

ClosesListener(r) ==
  /\ main[r] = "serve"
  /\ Cancelled(r)
  /\ main' = [main EXCEPT ![r] = "drain"]
  /\ open' = open \ {registered[r]}
  /\ UNCHANGED <<poolVars, current, runs, stopping, loop, reopened, registered, maintain,
                 session, runOf, errors>>

DrainedOnly(r) ==   \* mutant: no timeout
  /\ main[r] = "drain"
  /\ Sessions(r) = {}
  /\ main' = [main EXCEPT ![r] = "close"]
  /\ UNCHANGED <<poolVars, current, runs, stopping, loop, reopened, registered, open,
                 maintain, session, runOf, errors>>

\* All sessions are over, or 30 seconds are.
Drained(r) ==
  /\ main[r] = "drain"
  /\ main' = [main EXCEPT ![r] = "close"]
  /\ UNCHANGED <<poolVars, current, runs, stopping, loop, reopened, registered, open,
                 maintain, session, runOf, errors>>

\* "Close pool connections": the pool by now may serve the next run.
FinalCloseAll(r) ==
  /\ main[r] = "close"
  /\ main' = [main EXCEPT ![r] = "over"]
  /\ CloseAll
  /\ UNCHANGED <<current, runs, stopping, loop, reopened, registered, open, maintain,
                 session, runOf, errors>>

-----------------------------------------------------------------------------
(* The accept loop and its watchdog *)

\* An accepted connection becomes a session, also after the run was cancelled.
Accept(r, c) ==
  /\ loop[r] = "accept"
  /\ Accepting(r) \in open
  /\ session[c] = "none"
  /\ session' = [session EXCEPT ![c] = "handshake"]
  /\ runOf' = [runOf EXCEPT ![c] = r]
  /\ UNCHANGED <<poolVars, current, runs, stopping, main, loop, reopened, registered, open,
                 maintain, errors>>

\* The listener was closed, or fails by itself; the latter closes it.
AcceptError(r) ==
  /\ loop[r] = "accept"
  /\ IF Accepting(r) \in open
     THEN errors < MaxAcceptErrors /\ errors' = errors + 1
     ELSE UNCHANGED errors
  /\ IF Cancelled(r)
     THEN /\ loop' = [loop EXCEPT ![r] = "ended"]
          /\ UNCHANGED open
     ELSE /\ loop' = [loop EXCEPT ![r] = "watchdog"]
          /\ open' = open \ {Accepting(r)}
  /\ UNCHANGED <<poolVars, current, runs, stopping, main, reopened, registered, maintain,
                 session, runOf>>

\* The timer fires and Listen succeeds; a busy port is tried again.
WatchdogListens(r) ==
  /\ loop[r] = "watchdog"
  /\ PortFree
  /\ open' = {<<r, reopened[r] + 1>>}
  /\ loop' = [loop EXCEPT ![r] = "restore"]
  /\ UNCHANGED <<poolVars, current, runs, stopping, main, reopened, registered, maintain,
                 session, runOf, errors>>

\* currentListener = next, then current = next, without a look at the context.
WatchdogRestores(r) ==
  /\ loop[r] = "restore"
  /\ reopened' = [reopened EXCEPT ![r] = @ + 1]
  /\ registered' = [registered EXCEPT ![r] = <<r, reopened[r] + 1>>]
  /\ loop' = [loop EXCEPT ![r] = "accept"]
  /\ UNCHANGED <<poolVars, current, runs, stopping, main, open, maintain, session, runOf,
                 errors>>

WatchdogStopped(r) ==
  /\ loop[r] = "watchdog"
  /\ Cancelled(r)
  /\ loop' = [loop EXCEPT ![r] = "ended"]
  /\ UNCHANGED <<poolVars, current, runs, stopping, main, reopened, registered, open,
                 maintain, session, runOf, errors>>

-----------------------------------------------------------------------------
(* The pool's maintenance and the sessions *)

\* The ticker fires; once the context is done the select may still take it.
MaintainTick(r) ==
  /\ maintain[r] = "wait"
  /\ MaintainDrops
  /\ maintain' = [maintain EXCEPT ![r] = "schedule"]
  /\ UNCHANGED <<current, runs, stopping, main, loop, reopened, registered, open, session,
                 runOf, errors>>

MaintainSchedules(r) ==
  /\ maintain[r] = "schedule"
  /\ Warmup
  /\ maintain' = [maintain EXCEPT ![r] = "wait"]
  /\ UNCHANGED <<current, runs, stopping, main, loop, reopened, registered, open, session,
                 runOf, errors>>

MaintainStops(r) ==
  /\ maintain[r] = "wait"
  /\ Cancelled(r)
  /\ maintain' = [maintain EXCEPT ![r] = "ended"]
  /\ UNCHANGED <<poolVars, current, runs, stopping, main, loop, reopened, registered, open,
                 session, runOf, errors>>

\* A session to a Telegram DC asks the pool; on a miss it dials for itself.
SessionConnects(c) ==
  /\ session[c] = "handshake"
  /\ GetHit(c) \/ GetMiss(c)
  /\ session' = [session EXCEPT ![c] = "bridge"]
  /\ UNCHANGED <<current, runs, stopping, main, loop, reopened, registered, open, maintain,
                 runOf, errors>>

\* The handshake fails, or the session takes another way; the bridge is over.
SessionEnds(c) ==
  /\ session[c] \in {"handshake", "bridge"}
  /\ session' = [session EXCEPT ![c] = "done"]
  /\ IF held[c] # None THEN DropSocket(c) ELSE UNCHANGED poolVars
  /\ UNCHANGED <<current, runs, stopping, main, loop, reopened, registered, open, maintain,
                 runOf, errors>>

PoolStep ==
  /\ \/ Goroutine
     \/ \E s \in Sockets : GoesStale(s)
  /\ UNCHANGED lifeVars

-----------------------------------------------------------------------------
MainStep(r) == Serve(r) \/ ClosesListener(r) \/ Drained(r) \/ FinalCloseAll(r)

LoopStep(r) ==
  \/ AcceptError(r)
  \/ WatchdogListens(r)
  \/ WatchdogRestores(r)
  \/ WatchdogStopped(r)

MaintainStep(r) == MaintainTick(r) \/ MaintainSchedules(r) \/ MaintainStops(r)

LifeNext ==
  \/ StartProxy
  \/ StopCancels
  \/ StopClosesPool
  \/ \E r \in Runs : MainStep(r) \/ LoopStep(r) \/ MaintainStep(r)
  \/ \E r \in Runs, c \in Callers : Accept(r, c)
  \/ \E c \in Callers : SessionConnects(c) \/ SessionEnds(c)
  \/ PoolStep

LifeSpec == Init /\ [][LifeNext]_allVars

LoopMoves(r) ==
  /\ loop[r] = "accept" => Accepting(r) \notin open
  /\ LoopStep(r)

(* StopProxy and the goroutines of a run are scheduled; its main goroutine *)
(* waits for the sessions no longer than its timer.  Sessions and accepts  *)
(* are not fair.                                                           *)
FairLifeSpec ==
  /\ LifeSpec
  /\ WF_allVars(StopClosesPool)
  /\ \A r \in Runs : WF_allVars(MainStep(r)) /\ WF_allVars(LoopMoves(r))

-----------------------------------------------------------------------------
(* Properties *)

\* The type invariant of the runs.
LifeTypeOK ==
  /\ TypeOK
  /\ current \in 0..MaxRuns
  /\ runs \in 0..MaxRuns
  /\ stopping \in BOOLEAN
  /\ main \in [Runs -> {"none", "warm", "serve", "drain", "close", "over"}]
  /\ loop \in [Runs -> {"none", "accept", "watchdog", "restore", "ended"}]
  /\ reopened \in [Runs -> 0..MaxAcceptErrors]
  /\ registered \in [Runs -> Listeners]
  /\ open \subseteq Listeners
  /\ maintain \in [Runs -> {"none", "wait", "schedule", "ended"}]
  /\ session \in [Callers -> {"none", "handshake", "bridge", "done"}]
  /\ runOf \in [Callers -> 0..MaxRuns]
  /\ errors \in 0..MaxAcceptErrors

\* "Report the real bind result before Android marks the local proxy as running"
\* (tg-ws-proxy.go:2914): while a run is current its socket is open, or its
\* watchdog is about to open it again; the end of an earlier run never takes it.
RunningIsBound ==
  current # 0 => \/ Accepting(current) \in open
                 \/ loop[current] \in {"watchdog", "restore"}

\* A StopProxy that finds the accept loop at its listener frees the port, also
\* when that listener is one the watchdog has put in place of the first.
StopFreesPort ==
  \A r \in Runs : (main[r] = "serve" /\ loop[r] = "accept" /\ Cancelled(r)) ~>
                    (\A l \in open : l[1] # r)

\* Whatever its sessions do, runProxy of a stopped run returns.
RunReturns == \A r \in Runs : (main[r] # "none" /\ Cancelled(r)) ~> (main[r] = "over")

=============================================================================
