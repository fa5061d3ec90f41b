----------------------- MODULE FrontendRuntimeProofs -----------------------
(***************************************************************************)
(* Proofs about FrontendRuntime for every number of runs, connections,     *)
(* addresses and failures.  A Stop captures a listener of its own run or   *)
(* of an earlier one (Captures), so that its late Close hits no later run; *)
(* until an accept fails no watchdog is at work (NoWatchdog); and a loop   *)
(* counts the connection that it has accepted itself (OwnConns).           *)
(***************************************************************************)
EXTENDS FrontendRuntime, FiniteSetTheorems, TLAPS

\* TypeOK as far as runs, loops and listeners go.
RunTypes ==
  /\ listener \in Listeners \cup {None}
  /\ runs \in 0..MaxRuns
  /\ portOf \in [Runs -> Ports \cup {None}]
  /\ stop \in [Runs -> {"no", "unlocked", "cancelled", "done"}]
  /\ captured \in [Runs -> Listeners \cup {None}]
  /\ open \subseteq Listeners
  /\ loop \in [Runs -> LoopStates]
  /\ reopened \in [Runs -> Nat]
  /\ errors \in 0..MaxAcceptErrors
  /\ badStarts \in 0..MaxBadStarts

\* The current run is the latest, and is not being stopped; later runs have
\* left no trace.
Latest ==
  /\ runCtx \in {0, runs}
  /\ \A r \in Runs : stop[r] # "no" => r # runCtx /\ r <= runs
  /\ \A r \in Runs : r > runs => loop[r] = "none" /\ reopened[r] = 0

\* A Stop closes no listener of a later run.
Captures ==
  /\ listener # None => listener[1] <= runs
  /\ \A r \in Runs : captured[r] # None => captured[r][1] <= r

RunInv == RunTypes /\ Latest /\ Captures /\ PortHeld

NoWatchdog ==
  errors = 0 =>
    /\ \A r \in Runs : /\ reopened[r] = 0
                       /\ loop[r] \notin {"watchdog", "restore", "fail"}
                       /\ captured[r] \in {None, <<r, 0>>}
                       /\ loop[r] # "none" /\ ~ Cancelled(r) => <<r, 0>> \in open
    /\ listener \in {None, <<runCtx, 0>>}

OwnConns ==
  /\ session \in [Conns -> SessionStates]
  /\ runOf \in [Conns -> 0..MaxRuns]
  /\ accepted \in [Runs -> Conns \cup {None}]
  /\ \A c \in Conns : session[c] # "none" => runOf[c] \in 1..runs
  /\ \A r \in Runs : loop[r] \in {"count_total", "count_active"} =>
       /\ accepted[r] \in Conns
       /\ session[accepted[r]] = "accepted" /\ runOf[accepted[r]] = r

Counters == active \in Nat /\ ActiveCovers

TruthInv == RouteTruthOwn /\ routeBy \in 0..MaxRuns

-----------------------------------------------------------------------------
(* Runs, loops and listeners *)

\* A session's goroutine touches nothing of the loops and listeners.
LEMMA SessionKeeps ==
  ASSUME NEW c \in Conns, SessionStep(c)
  PROVE  /\ UNCHANGED <<runCtx, listener, status, total, stopVars, open, loopVars, runOf>>
         /\ UNCHANGED countVars
  BY DEF SessionStep, Handshake, HandshakeCancelled, Reject, Passthrough, PassthroughEnds,
         ConnectReturns, BridgeEnds, Leave, runtimeVars, stopVars, loopVars, countVars

LEMMA RunInit == Init => RunInv
  BY ConstantsAssumption
  DEF Init, RunInv, RunTypes, Latest, Captures, PortHeld, Runs, Listeners, LoopStates

LEMMA RunStart ==
  ASSUME RunInv, NEW p \in Ports, Start(p)
  PROVE  RunInv'
<1> DEFINE r == runs + 1
<1>1. r \in Runs /\ r \in Nat /\ runs \in Nat
  BY ConstantsAssumption DEF RunInv, RunTypes, Start, Runs
<1>2. stop[r] = "no" /\ reopened[r] = 0
  BY <1>1 DEF RunInv, RunTypes, Latest
<1>3. RunTypes'
  BY <1>1 DEF RunInv, RunTypes, Start, Listeners, LoopStates, stopVars, Runs
<1>4. Latest'
  BY <1>1, <1>2 DEF RunInv, RunTypes, Latest, Start, stopVars, Runs
<1>5. Captures'
  BY <1>1 DEF RunInv, RunTypes, Captures, Start, stopVars, Runs
<1>6. PortHeld'
  BY <1>1, <1>2 DEF RunInv, RunTypes, PortHeld, Current, Start
<1> QED
  BY <1>3, <1>4, <1>5, <1>6 DEF RunInv

LEMMA RunStop ==
  ASSUME RunInv, Stop
  PROVE  RunInv'
<1>1. runCtx \in Runs /\ runCtx = runs
  BY DEF RunInv, RunTypes, Latest, Stop, Runs
<1>2. RunTypes'
  BY <1>1 DEF RunInv, RunTypes, Stop, loopVars, countVars
<1>3. Latest'
  BY <1>1 DEF RunInv, RunTypes, Latest, Stop, loopVars, countVars, Runs
<1>4. Captures'
  BY <1>1 DEF RunInv, RunTypes, Captures, Stop, countVars
<1>5. PortHeld'
  BY DEF PortHeld, Stop
<1> QED
  BY <1>2, <1>3, <1>4, <1>5 DEF RunInv

\* The late Close of a Stop: its listener is of its own run or of an earlier one.
LEMMA RunStopStep ==
  ASSUME RunInv, NEW r \in Runs, StopStep(r)
  PROVE  RunInv'
<1>1. /\ stop[r] # "no" /\ stop'[r] # "no"
      /\ stop' \in [Runs -> {"no", "unlocked", "cancelled", "done"}]
      /\ \A q \in Runs \ {r} : stop'[q] = stop[q]
      /\ UNCHANGED <<runtimeVars, captured, loopVars, countVars>>
  BY DEF RunInv, RunTypes, StopStep, StopCancels, StopCloses
<1>2. open' = open \/ open' = open \ {captured[r]}
  BY DEF StopStep, StopCancels, StopCloses
<1>3. r # runCtx /\ r <= runs
  BY <1>1 DEF RunInv, Latest
<1>4. RunTypes'
  BY <1>1, <1>2 DEF RunInv, RunTypes, runtimeVars, loopVars, countVars
<1>5. Latest'
  BY <1>1, <1>3 DEF RunInv, RunTypes, Latest, runtimeVars, loopVars, countVars
<1>6. Captures'
  BY <1>1 DEF RunInv, Captures, runtimeVars, countVars
<1>7. ASSUME runCtx # 0
      PROVE  captured[r] # Current(runCtx)
  <2>1. runCtx = runs /\ r < runCtx
    BY <1>3, <1>7 DEF RunInv, RunTypes, Latest, Runs
  <2>2. Current(runCtx)[1] = runCtx /\ Current(runCtx) # None
    BY <2>1, ConstantsAssumption DEF Current, RunInv, RunTypes, Runs
  <2> QED
    BY <2>1, <2>2 DEF RunInv, RunTypes, Captures, Runs, Listeners
<1>8. PortHeld'
  BY <1>1, <1>2, <1>7 DEF RunInv, PortHeld, Current, runtimeVars, loopVars
<1> QED
  BY <1>4, <1>5, <1>6, <1>8 DEF RunInv

\* What every step of a loop leaves alone.
LEMMA LoopKeeps ==
  ASSUME NEW r \in Runs, LoopStep(r)
  PROVE  UNCHANGED <<runCtx, stopVars, runs, portOf, badStarts, runOf, routeBy>>
  BY DEF LoopStep, CountTotal, CountActive, AcceptError, WatchdogListens, WatchdogRestores,
         WatchdogStopped, LoopFails, stopVars, countVars, sessionVars, runtimeVars, loopVars

LEMMA RunLoopStep ==
  ASSUME RunInv, NEW r \in Runs, LoopStep(r)
  PROVE  RunInv'
<1>1. UNCHANGED <<runCtx, stopVars, runs, portOf, badStarts, runOf, routeBy>>
  BY LoopKeeps
<1>2. loop[r] # "none" /\ loop' = [loop EXCEPT ![r] = loop'[r]] /\ loop'[r] \in LoopStates
  BY DEF LoopStep, CountTotal, CountActive, AcceptError, AcceptFails, WatchdogListens,
         WatchdogRestores, WatchdogStopped, LoopFails, RunInv, RunTypes, LoopStates
<1>3. r <= runs
  BY <1>2 DEF RunInv, RunTypes, Latest, Runs
<1>4. reopened' = reopened \/ reopened' = [reopened EXCEPT ![r] = @ + 1]
  BY DEF LoopStep, CountTotal, CountActive, AcceptError, WatchdogListens, WatchdogRestores,
         WatchdogStopped, LoopFails, loopVars
<1>5. listener' = listener \/ listener' = Current(r)
  BY DEF LoopStep, CountTotal, CountActive, AcceptError, WatchdogListens, WatchdogRestores,
         WatchdogStopped, LoopFails, runtimeVars
<1>6. errors' \in 0..MaxAcceptErrors
  BY ConstantsAssumption
  DEF LoopStep, CountTotal, CountActive, AcceptError, AcceptFails, WatchdogListens,
      WatchdogRestores, WatchdogStopped, LoopFails, countVars, RunInv, RunTypes
<1>7. \/ open' = open /\ reopened' = reopened /\ (loop[r] = "watchdog" => loop'[r] = "fail")
      \/ open' = open \ {Current(r)} /\ reopened' = reopened /\ loop'[r] = "watchdog"
      \/ /\ open' = open \cup {<<r, reopened[r] + 1>>}
         /\ reopened' = [reopened EXCEPT ![r] = @ + 1]
  BY DEF LoopStep, CountTotal, CountActive, AcceptError, AcceptFails, WatchdogListens,
         WatchdogRestores, WatchdogStopped, LoopFails, loopVars, RunInv, RunTypes
<1>8. WatchdogStopped(r) => r # runCtx
  BY DEF WatchdogStopped, Cancelled, RunInv, Latest
<1>9. RunTypes'
  <2>1. open' \subseteq Listeners
    BY <1>7 DEF RunInv, RunTypes, Listeners
  <2>2. listener' \in Listeners \cup {None}
    BY <1>5 DEF RunInv, RunTypes, Listeners, Current
  <2>3. reopened' \in [Runs -> Nat]
    BY <1>4 DEF RunInv, RunTypes
  <2> QED
    BY <1>1, <1>2, <1>6, <2>1, <2>2, <2>3 DEF RunInv, RunTypes, stopVars
<1>10. Latest'
  BY <1>1, <1>2, <1>3, <1>4 DEF RunInv, RunTypes, Latest, stopVars, Runs
<1>11. Captures'
  BY <1>1, <1>3, <1>5 DEF RunInv, RunTypes, Captures, stopVars, Current
<1>12. PortHeld'
  <2> SUFFICES ASSUME runCtx # 0, loop'[runCtx] # "watchdog"
               PROVE  <<runCtx, reopened'[runCtx]>> \in open'
    BY <1>1 DEF PortHeld, Current
  <2>1. runCtx \in Runs
    BY DEF RunInv, RunTypes, Latest, Runs
  <2>2. CASE r = runCtx
    <3>1. ~ WatchdogStopped(r)
      BY <1>8, <2>2
    <3>2. \/ open' = open /\ reopened' = reopened /\ loop[r] # "watchdog"
          \/ /\ open' = open \cup {<<r, reopened[r] + 1>>}
             /\ reopened' = [reopened EXCEPT ![r] = @ + 1]
      BY <2>2, <3>1 DEF LoopStep, CountTotal, CountActive, AcceptError, AcceptFails,
         WatchdogListens, WatchdogRestores, LoopFails, loopVars, RunInv, RunTypes
    <3> QED
      BY <2>1, <2>2, <3>2 DEF RunInv, RunTypes, PortHeld, Current
  <2>3. CASE r # runCtx
    BY <1>2, <1>7, <2>1, <2>3 DEF RunInv, RunTypes, PortHeld, Current
  <2> QED
    BY <2>2, <2>3
<1> QED
  BY <1>9, <1>10, <1>11, <1>12 DEF RunInv

LEMMA RunAccept ==
  ASSUME RunInv, NEW r \in Runs, NEW c \in Conns, Accept(r, c) \/ AcceptAfterStop(r, c)
  PROVE  RunInv'
<1>1. /\ UNCHANGED <<runtimeVars, stopVars, open, reopened, countVars>>
      /\ loop[r] = "accept"
      /\ loop' = [loop EXCEPT ![r] = loop'[r]] /\ loop'[r] \in {"count_total", "ended"}
  BY DEF Accept, AcceptAfterStop, RunInv, RunTypes
<1>2. RunTypes'
  BY <1>1 DEF RunInv, RunTypes, runtimeVars, stopVars, countVars, LoopStates
<1>3. Latest'
  BY <1>1 DEF RunInv, RunTypes, Latest, runtimeVars, stopVars, countVars
<1>4. Captures'
  BY <1>1 DEF RunInv, Captures, runtimeVars, stopVars, countVars
<1>5. PortHeld'
  <2>1. runCtx # 0 => runCtx \in Runs
    BY DEF RunInv, RunTypes, Latest, Runs
  <2> QED
    BY <1>1, <2>1 DEF RunInv, RunTypes, PortHeld, Current, runtimeVars
<1> QED
  BY <1>2, <1>3, <1>4, <1>5 DEF RunInv

LEMMA RunIdle ==
  ASSUME RunInv, UNCHANGED <<runCtx, listener, stopVars, open, loop, reopened, runs, portOf,
                             errors>>,
         badStarts' \in 0..MaxBadStarts
  PROVE  RunInv'
  BY DEF RunInv, RunTypes, Latest, Captures, PortHeld, Current, stopVars

LEMMA RunStep == RunInv /\ [Next]_vars => RunInv'
<1> SUFFICES ASSUME RunInv, [Next]_vars
             PROVE  RunInv'
  OBVIOUS
<1>1. ASSUME NEW p \in Ports, Start(p)
      PROVE  RunInv'
  BY <1>1, RunStart
<1>2. ASSUME NEW p \in Ports, StartPortBusy(p)
      PROVE  RunInv'
  BY <1>2, RunIdle DEF StartPortBusy, RunInv, RunTypes, loopVars, countVars
<1>3. CASE StartInvalid
  BY <1>3, RunIdle, ConstantsAssumption DEF StartInvalid, RunInv, RunTypes, loopVars
<1>4. CASE Stop
  BY <1>4, RunStop
<1>5. ASSUME NEW r \in Runs, StopStep(r) \/ LoopStep(r)
      PROVE  RunInv'
  BY <1>5, RunStopStep, RunLoopStep
<1>6. ASSUME NEW c \in Conns, SessionStep(c)
      PROVE  RunInv'
  BY <1>6, RunIdle, SessionKeeps DEF RunInv, RunTypes, loopVars, countVars
<1>7. CASE UNCHANGED vars
  BY <1>7, RunIdle DEF vars, runtimeVars, loopVars, countVars, RunInv, RunTypes
<1> QED
  BY <1>1, <1>2, <1>3, <1>4, <1>5, <1>6, <1>7, RunAccept DEF Next

-----------------------------------------------------------------------------
(* Until an accept fails *)

LEMMA QuietStep == RunInv /\ NoWatchdog /\ [Next]_vars => NoWatchdog'
<1> SUFFICES ASSUME RunInv, NoWatchdog, [Next]_vars, errors' = 0
             PROVE  NoWatchdog'
  BY DEF NoWatchdog
<1>1. ASSUME NEW p \in Ports, Start(p)
      PROVE  NoWatchdog'
  <2>1. errors = 0
    BY <1>1 DEF Start
  <2>2. runs + 1 \in Runs /\ reopened[runs + 1] = 0
    BY <1>1, ConstantsAssumption DEF Start, RunInv, RunTypes, Latest, Runs
  <2> QED
    BY <1>1, <2>1, <2>2 DEF NoWatchdog, Start, RunInv, RunTypes, stopVars, Cancelled
<1>2. ASSUME NEW p \in Ports, StartPortBusy(p)
      PROVE  NoWatchdog'
  BY <1>2 DEF StartPortBusy, NoWatchdog, stopVars, loopVars, countVars, Cancelled
<1>3. CASE StartInvalid
  BY <1>3 DEF StartInvalid, NoWatchdog, stopVars, loopVars, Cancelled
<1>4. CASE Stop
  <2>1. errors = 0 /\ runCtx \in Runs /\ stop[runCtx] = "no"
    BY <1>4 DEF Stop, countVars, RunInv, RunTypes, Latest, Runs
  <2> QED
    BY <1>4, <2>1 DEF Stop, NoWatchdog, loopVars, RunInv, RunTypes, Cancelled
<1>5. ASSUME NEW r \in Runs, StopStep(r)
      PROVE  NoWatchdog'
  <2>1. errors = 0 /\ captured[r] \in {None, <<r, 0>>}
    BY <1>5 DEF StopStep, StopCancels, StopCloses, countVars, NoWatchdog
  <2>2. \A q \in Runs : <<q, 0>> # None
    BY ConstantsAssumption DEF Runs
  <2>3. CASE StopCancels(r)
    BY <2>1, <2>3 DEF NoWatchdog, StopCancels, RunInv, RunTypes, Cancelled, runtimeVars,
       loopVars
  <2>4. CASE StopCloses(r)
    BY <2>1, <2>2, <2>4 DEF NoWatchdog, StopCloses, RunInv, RunTypes, Cancelled,
       runtimeVars, loopVars
  <2> QED
    BY <1>5, <2>3, <2>4 DEF StopStep
<1>6. ASSUME NEW r \in Runs, LoopStep(r)
      PROVE  NoWatchdog'
  <2>1. errors = 0
    <3>1. errors' = errors \/ errors' = errors + 1
      BY <1>6 DEF LoopStep, CountTotal, CountActive, AcceptError, AcceptFails,
         WatchdogListens, WatchdogRestores, WatchdogStopped, LoopFails, countVars
    <3> QED
      BY <3>1 DEF RunInv, RunTypes
  <2>2. loop[r] \notin {"watchdog", "restore", "fail"} /\ reopened[r] = 0
    BY <2>1 DEF NoWatchdog
  <2>3. CASE CountTotal(r) \/ CountActive(r)
    <3>1. /\ loop[r] # "none"
          /\ loop' = [loop EXCEPT ![r] = loop'[r]] /\ loop'[r] \in {"count_active", "accept"}
          /\ UNCHANGED <<runCtx, listener, stopVars, open, reopened>>
      BY <2>3 DEF CountTotal, CountActive, RunInv, RunTypes
    <3> QED
      BY <2>1, <3>1 DEF NoWatchdog, stopVars, RunInv, RunTypes, Cancelled
  <2>4. CASE AcceptError(r)
    <3>1. Current(r) \notin open
      BY <2>1, <2>4 DEF AcceptError, AcceptFails, RunInv, RunTypes
    <3>2. Cancelled(r)
      BY <2>1, <2>2, <2>4, <3>1 DEF NoWatchdog, AcceptError, AcceptFails, Current
    <3>3. /\ loop' = [loop EXCEPT ![r] = "ended"]
          /\ UNCHANGED <<runtimeVars, stopVars, open, reopened>>
      BY <2>4, <3>2 DEF AcceptError
    <3> QED
      BY <2>1, <3>2, <3>3 DEF NoWatchdog, stopVars, runtimeVars, RunInv, RunTypes, Cancelled
  <2> QED
    BY <1>6, <2>2, <2>3, <2>4
    DEF LoopStep, WatchdogListens, WatchdogRestores, WatchdogStopped, LoopFails
<1>7. ASSUME NEW r \in Runs, NEW c \in Conns, Accept(r, c) \/ AcceptAfterStop(r, c)
      PROVE  NoWatchdog'
  <2>1. /\ UNCHANGED <<runtimeVars, stopVars, open, reopened, countVars>>
        /\ loop[r] = "accept"
        /\ loop' = [loop EXCEPT ![r] = loop'[r]] /\ loop'[r] \in {"count_total", "ended"}
    BY <1>7 DEF Accept, AcceptAfterStop, RunInv, RunTypes
  <2> QED
    BY <2>1 DEF NoWatchdog, runtimeVars, stopVars, countVars, RunInv, RunTypes, Cancelled
<1>8. ASSUME NEW c \in Conns, SessionStep(c)
      PROVE  NoWatchdog'
  BY <1>8, SessionKeeps DEF NoWatchdog, stopVars, loopVars, countVars, Cancelled
<1>9. CASE UNCHANGED vars
  BY <1>9 DEF vars, NoWatchdog, runtimeVars, stopVars, loopVars, countVars, Cancelled
<1> QED
  BY <1>1, <1>2, <1>3, <1>4, <1>5, <1>6, <1>7, <1>8, <1>9 DEF Next

\* TypeOK as far as the status goes, and StatusTruthful.
StatusInv ==
  /\ status \in {"DISABLED", "LISTENING", "STOPPED", "FAILED_PORT_IN_USE", "FAILED_CONFIG",
                 "FAILED_RUNTIME_ERROR"}
  /\ total \in Nat
  /\ StatusTruthful

LEMMA StatusStep == RunInv /\ NoWatchdog /\ StatusInv /\ [Next]_vars => StatusInv'
<1> SUFFICES ASSUME RunInv, NoWatchdog, StatusInv, [Next]_vars
             PROVE  StatusInv'
  OBVIOUS
<1>1. ASSUME NEW p \in Ports, Start(p) \/ StartPortBusy(p)
      PROVE  StatusInv'
  BY <1>1, ConstantsAssumption
  DEF Start, StartPortBusy, ResetStatus, StatusInv, StatusTruthful, RunInv, RunTypes
<1>2. CASE StartInvalid \/ Stop
  BY <1>2 DEF StartInvalid, Stop, StatusInv, StatusTruthful, RunInv, RunTypes, countVars
<1>3. ASSUME NEW r \in Runs, StopStep(r)
      PROVE  StatusInv'
  BY <1>3 DEF StopStep, StopCancels, StopCloses, StatusInv, StatusTruthful, runtimeVars,
     countVars
<1>4. ASSUME NEW r \in Runs, LoopStep(r)
      PROVE  StatusInv'
  <2>1. errors' = 0 => errors = 0
    <3>1. errors' = errors \/ errors' = errors + 1
      BY <1>4 DEF LoopStep, CountTotal, CountActive, AcceptError, AcceptFails,
         WatchdogListens, WatchdogRestores, WatchdogStopped, LoopFails, countVars
    <3> QED
      BY <3>1 DEF RunInv, RunTypes
  <2>2. UNCHANGED <<runCtx, badStarts>>
    BY <1>4, LoopKeeps
  <2>3. CASE WatchdogRestores(r) \/ LoopFails(r)
    <3>1. errors # 0
      BY <2>3 DEF WatchdogRestores, LoopFails, NoWatchdog
    <3> QED
      BY <2>1, <2>3, <3>1 DEF WatchdogRestores, LoopFails, StatusInv, StatusTruthful
  <2>4. CASE ~ (WatchdogRestores(r) \/ LoopFails(r))
    BY <1>4, <2>1, <2>2, <2>4 DEF LoopStep, CountTotal, CountActive, AcceptError,
       WatchdogListens, WatchdogStopped, StatusInv, StatusTruthful, runtimeVars
  <2> QED
    BY <2>3, <2>4
<1>5. ASSUME NEW r \in Runs, NEW c \in Conns, Accept(r, c) \/ AcceptAfterStop(r, c)
      PROVE  StatusInv'
  BY <1>5 DEF Accept, AcceptAfterStop, StatusInv, StatusTruthful, runtimeVars, countVars
<1>6. ASSUME NEW c \in Conns, SessionStep(c)
      PROVE  StatusInv'
  BY <1>6, SessionKeeps DEF StatusInv, StatusTruthful, countVars
<1>7. CASE UNCHANGED vars
  BY <1>7 DEF vars, StatusInv, StatusTruthful, runtimeVars, countVars
<1> QED
  BY <1>1, <1>2, <1>3, <1>4, <1>5, <1>6, <1>7 DEF Next

-----------------------------------------------------------------------------
(* The route truth *)

LEMMA TruthStep == RunInv /\ TruthInv /\ [Next]_vars => TruthInv'
<1> SUFFICES ASSUME RunInv, TruthInv, [Next]_vars
             PROVE  TruthInv'
  OBVIOUS
<1>1. ASSUME NEW p \in Ports, Start(p) \/ StartPortBusy(p)
      PROVE  TruthInv'
  BY <1>1, ConstantsAssumption
  DEF Start, StartPortBusy, ResetStatus, TruthInv, RouteTruthOwn
<1>2. CASE StartInvalid \/ Stop
  BY <1>2 DEF StartInvalid, Stop, TruthInv, RouteTruthOwn
<1>3. ASSUME NEW r \in Runs, StopStep(r)
      PROVE  TruthInv'
  BY <1>3 DEF StopStep, StopCancels, StopCloses, TruthInv, RouteTruthOwn, runtimeVars
<1>4. ASSUME NEW r \in Runs, LoopStep(r)
      PROVE  TruthInv'
  BY <1>4, LoopKeeps DEF TruthInv, RouteTruthOwn
<1>5. ASSUME NEW r \in Runs, NEW c \in Conns, Accept(r, c) \/ AcceptAfterStop(r, c)
      PROVE  TruthInv'
  BY <1>5 DEF Accept, AcceptAfterStop, TruthInv, RouteTruthOwn, runtimeVars
<1>6. ASSUME NEW c \in Conns, SessionStep(c)
      PROVE  TruthInv'
  <2>1. routeBy' = routeBy \/ (routeBy' = runOf[c] /\ runCtx = runOf[c])
    BY <1>6 DEF SessionStep, Handshake, HandshakeCancelled, Reject, Passthrough,
       PassthroughEnds, ConnectReturns, BridgeEnds, Leave, UpdateRouteTruth, runtimeVars
  <2>2. runCtx \in 0..MaxRuns
    BY ConstantsAssumption DEF RunInv, RunTypes, Latest
  <2> QED
    BY <1>6, <2>1, <2>2, SessionKeeps DEF TruthInv, RouteTruthOwn
<1>7. CASE UNCHANGED vars
  BY <1>7 DEF vars, TruthInv, RouteTruthOwn, runtimeVars
<1> QED
  BY <1>1, <1>2, <1>3, <1>4, <1>5, <1>6, <1>7 DEF Next

-----------------------------------------------------------------------------
(* Connections and the counter *)

LEMMA OwnInit == Init => OwnConns /\ Counters
  BY ConstantsAssumption
  DEF Init, OwnConns, Counters, ActiveCovers, SessionStates, Runs

\* The steps that neither accept nor hand over a connection.
LEMMA OwnIdle ==
  ASSUME RunInv, OwnConns,
         UNCHANGED <<session, runOf, accepted>>, runs' \in Nat, runs' >= runs,
         \A r \in Runs : loop'[r] \in {"count_total", "count_active"} =>
                          loop[r] \in {"count_total", "count_active"}
  PROVE  OwnConns'
  BY DEF OwnConns, RunInv, RunTypes

LEMMA OwnStep == RunInv /\ OwnConns /\ [Next]_vars => OwnConns'
<1> SUFFICES ASSUME RunInv, OwnConns, [Next]_vars
             PROVE  OwnConns'
  OBVIOUS
<1>0. runs \in Nat
  BY ConstantsAssumption DEF RunInv, RunTypes
<1>1. ASSUME NEW p \in Ports, Start(p)
      PROVE  OwnConns'
  BY <1>0, <1>1, OwnIdle DEF Start, sessionVars, RunInv, RunTypes
<1>2. ASSUME NEW p \in Ports, StartPortBusy(p)
      PROVE  OwnConns'
  BY <1>0, <1>2, OwnIdle DEF StartPortBusy, loopVars, sessionVars, countVars
<1>3. CASE StartInvalid \/ Stop
  BY <1>0, <1>3, OwnIdle DEF StartInvalid, Stop, loopVars, sessionVars, countVars
<1>4. ASSUME NEW r \in Runs, StopStep(r)
      PROVE  OwnConns'
  BY <1>0, <1>4, OwnIdle DEF StopStep, StopCancels, StopCloses, loopVars, sessionVars,
     countVars
<1>5. ASSUME NEW r \in Runs, LoopStep(r)
      PROVE  OwnConns'
  <2>1. CASE CountActive(r)
    <3>1. /\ loop[r] = "count_active" /\ loop' = [loop EXCEPT ![r] = "accept"]
          /\ session' = [session EXCEPT ![accepted[r]] = "handshake"]
          /\ accepted' = [accepted EXCEPT ![r] = None]
          /\ UNCHANGED <<runOf, runs>>
      BY <2>1 DEF CountActive, countVars
    <3>2. accepted[r] \in Conns /\ session[accepted[r]] = "accepted" /\ runOf[accepted[r]] = r
      BY <3>1 DEF OwnConns
    <3>3. (session \in [Conns -> SessionStates] /\ runOf \in [Conns -> 0..MaxRuns])'
      BY <3>1, <3>2 DEF OwnConns, SessionStates
    <3>4. (accepted \in [Runs -> Conns \cup {None}])'
      BY <3>1 DEF OwnConns
    <3>5. ASSUME NEW c \in Conns, session'[c] # "none"
          PROVE  runOf'[c] \in 1..runs'
      BY <3>1, <3>2, <3>5 DEF OwnConns
    <3>6. ASSUME NEW q \in Runs, loop'[q] \in {"count_total", "count_active"}
          PROVE  /\ accepted'[q] \in Conns
                 /\ session'[accepted'[q]] = "accepted" /\ runOf'[accepted'[q]] = q
      <4>1. q # r /\ accepted'[q] = accepted[q] /\ loop'[q] = loop[q]
        BY <3>1, <3>6 DEF RunInv, RunTypes, OwnConns
      <4>2. accepted[q] \in Conns /\ session[accepted[q]] = "accepted" /\ runOf[accepted[q]] = q
        BY <3>6, <4>1 DEF OwnConns
      <4> QED
        BY <3>1, <3>2, <4>1, <4>2 DEF OwnConns
    <3> QED
      BY <3>3, <3>4, <3>5, <3>6 DEF OwnConns
  <2>2. CASE ~ CountActive(r)
    <3>1. UNCHANGED <<session, runOf, accepted, runs>>
      BY <1>5, <2>2 DEF LoopStep, CountTotal, AcceptError, WatchdogListens,
         WatchdogRestores, WatchdogStopped, LoopFails, sessionVars, countVars
    <3>2. \A q \in Runs : loop'[q] \in {"count_total", "count_active"} =>
                            loop[q] \in {"count_total", "count_active"}
      BY <1>5, <2>2 DEF LoopStep, CountTotal, AcceptError, AcceptFails, WatchdogListens,
         WatchdogRestores, WatchdogStopped, LoopFails, RunInv, RunTypes
    <3> QED
      BY <1>0, <3>1, <3>2, OwnIdle
  <2> QED
    BY <2>1, <2>2
<1>6. ASSUME NEW r \in Runs, NEW c \in Conns, Accept(r, c)
      PROVE  OwnConns'
  <2>1. /\ loop[r] = "accept" /\ loop' = [loop EXCEPT ![r] = "count_total"]
        /\ session[c] = "none" /\ session' = [session EXCEPT ![c] = "accepted"]
        /\ runOf' = [runOf EXCEPT ![c] = r]
        /\ accepted' = [accepted EXCEPT ![r] = c]
        /\ runs' = runs
    BY <1>6 DEF Accept, countVars
  <2>2. r \in 1..runs
    BY <2>1, <1>0 DEF RunInv, Latest, Runs
  <2>3. session' \in [Conns -> SessionStates]
    BY <2>1 DEF OwnConns, SessionStates
  <2>4. runOf' \in [Conns -> 0..MaxRuns] /\ accepted' \in [Runs -> Conns \cup {None}]
    BY <2>1 DEF OwnConns, Runs
  <2>5. \A d \in Conns : session'[d] # "none" => runOf'[d] \in 1..runs'
    BY <2>1, <2>2 DEF OwnConns
  <2>6. ASSUME NEW q \in Runs, loop'[q] \in {"count_total", "count_active"}
        PROVE  /\ accepted'[q] \in Conns
               /\ session'[accepted'[q]] = "accepted" /\ runOf'[accepted'[q]] = q
    BY <2>1, <2>6 DEF OwnConns, RunInv, RunTypes
  <2> QED
    BY <2>3, <2>4, <2>5, <2>6 DEF OwnConns
<1>7. ASSUME NEW r \in Runs, NEW c \in Conns, AcceptAfterStop(r, c)
      PROVE  OwnConns'
  <2>1. /\ loop[r] = "accept" /\ loop' = [loop EXCEPT ![r] = "ended"]
        /\ session[c] = "none" /\ session' = [session EXCEPT ![c] = "done"]
        /\ runOf' = [runOf EXCEPT ![c] = r]
        /\ accepted' = accepted /\ runs' = runs
    BY <1>7 DEF AcceptAfterStop, countVars
  <2>2. r \in 1..runs
    BY <2>1, <1>0 DEF RunInv, Latest, Runs
  <2>3. session' \in [Conns -> SessionStates]
    BY <2>1 DEF OwnConns, SessionStates
  <2>4. runOf' \in [Conns -> 0..MaxRuns] /\ accepted' \in [Runs -> Conns \cup {None}]
    BY <2>1 DEF OwnConns, Runs
  <2>5. \A d \in Conns : session'[d] # "none" => runOf'[d] \in 1..runs'
    BY <2>1, <2>2 DEF OwnConns
  <2>6. ASSUME NEW q \in Runs, loop'[q] \in {"count_total", "count_active"}
        PROVE  /\ accepted'[q] \in Conns
               /\ session'[accepted'[q]] = "accepted" /\ runOf'[accepted'[q]] = q
    BY <2>1, <2>6 DEF OwnConns, RunInv, RunTypes
  <2> QED
    BY <2>3, <2>4, <2>5, <2>6 DEF OwnConns
<1>8. ASSUME NEW c \in Conns, SessionStep(c)
      PROVE  OwnConns'
  <2>1. UNCHANGED <<runOf, loop, accepted, runs>>
    BY <1>8, SessionKeeps DEF loopVars, countVars
  <2>2. /\ session[c] \notin {"none", "accepted", "done"}
        /\ session' = [session EXCEPT ![c] = session'[c]] /\ session'[c] \in SessionStates
    BY <1>8 DEF SessionStep, Handshake, HandshakeCancelled, Reject, Passthrough,
       PassthroughEnds, ConnectReturns, BridgeEnds, Leave, Goes, OwnConns, SessionStates
  <2>3. (session \in [Conns -> SessionStates])'
    BY <2>2 DEF OwnConns
  <2>4. ASSUME NEW q \in Runs, loop'[q] \in {"count_total", "count_active"}
        PROVE  session'[accepted'[q]] = "accepted"
    <3>1. accepted[q] \in Conns /\ session[accepted[q]] = "accepted"
      BY <2>1, <2>4 DEF OwnConns
    <3> QED
      BY <2>1, <2>2, <3>1 DEF OwnConns
  <2> QED
    BY <2>1, <2>2, <2>3, <2>4 DEF OwnConns
<1>9. CASE UNCHANGED vars
  BY <1>0, <1>9, OwnIdle DEF vars, loopVars, sessionVars, countVars
<1> QED
  BY <1>1, <1>2, <1>3, <1>4, <1>5, <1>6, <1>7, <1>8, <1>9 DEF Next

LEMMA LiveFinite == \A r : IsFiniteSet(Live(r)) /\ Cardinality(Live(r)) \in Nat
  BY ConstantsAssumption, FS_Subset, FS_CardinalityType DEF Live

LEMMA CountStep == RunInv /\ OwnConns /\ Counters /\ [Next]_vars => Counters'
<1> SUFFICES ASSUME RunInv, OwnConns, Counters, [Next]_vars
             PROVE  Counters'
  OBVIOUS
<1>1. ASSUME NEW p \in Ports, Start(p)
      PROVE  Counters'
  <2>1. UNCHANGED <<session, runOf>> /\ runCtx' = runs + 1 /\ active' = 0
    BY <1>1 DEF Start, ResetStatus, sessionVars
  <2>2. Live(runCtx)' = {}
    BY <2>1, ConstantsAssumption DEF Live, OwnConns, RunInv, RunTypes
  <2> QED
    BY <2>1, <2>2, FS_EmptySet DEF Counters, ActiveCovers
<1>2. ASSUME NEW p \in Ports, StartPortBusy(p)
      PROVE  Counters'
  BY <1>2 DEF StartPortBusy, ResetStatus, Counters, ActiveCovers
<1>3. CASE StartInvalid
  BY <1>3 DEF StartInvalid, Counters, ActiveCovers, Live, sessionVars
<1>4. CASE Stop
  BY <1>4 DEF Stop, Counters, ActiveCovers
<1>5. ASSUME NEW r \in Runs, StopStep(r)
      PROVE  Counters'
  BY <1>5 DEF StopStep, StopCancels, StopCloses, Counters, ActiveCovers, Live, runtimeVars,
     sessionVars
<1>6. ASSUME NEW r \in Runs, LoopStep(r)
      PROVE  Counters'
  <2>1. CASE CountActive(r)
    <3> DEFINE c == accepted[r]
    <3>1. c \in Conns
      BY <2>1 DEF CountActive, OwnConns
    <3>2. /\ session' = [session EXCEPT ![c] = "handshake"]
          /\ UNCHANGED <<runOf, runCtx>> /\ active' = active + 1
      BY <2>1 DEF CountActive
    <3>3. Live(runCtx)' \subseteq Live(runCtx) \cup {c}
      BY <3>1, <3>2 DEF Live, OwnConns
    <3>4. /\ IsFiniteSet(Live(runCtx) \cup {c})
          /\ Cardinality(Live(runCtx) \cup {c}) \in Nat
          /\ Cardinality(Live(runCtx) \cup {c}) <= Cardinality(Live(runCtx)) + 1
      <4> DEFINE L == Live(runCtx)
      <4>1. IsFiniteSet(L) /\ Cardinality(L) \in Nat
        BY LiveFinite
      <4> HIDE DEF L, c
      <4>2. IsFiniteSet(L \cup {c}) /\ Cardinality(L \cup {c}) \in Nat
        BY <4>1, FS_AddElement, FS_CardinalityType
      <4>3. Cardinality(L \cup {c}) = IF c \in L THEN Cardinality(L) ELSE Cardinality(L) + 1
        BY <4>1, FS_AddElement
      <4> QED
        BY <4>1, <4>2, <4>3 DEF L
    <3>5. /\ Cardinality(Live(runCtx)') \in Nat
          /\ Cardinality(Live(runCtx)') <= Cardinality(Live(runCtx) \cup {c})
      BY <3>3, <3>4, FS_Subset, FS_CardinalityType
    <3>6. Cardinality(Live(runCtx)') <= Cardinality(Live(runCtx)) + 1
      BY <3>4, <3>5, LiveFinite
    <3> QED
      BY <3>2, <3>5, <3>6, LiveFinite DEF Counters, ActiveCovers
  <2>2. CASE ~ CountActive(r)
    BY <1>6, <2>2 DEF LoopStep, CountTotal, AcceptError, WatchdogListens, WatchdogRestores,
       WatchdogStopped, LoopFails, Counters, ActiveCovers, Live, runtimeVars, sessionVars
  <2> QED
    BY <2>1, <2>2
<1>7. ASSUME NEW r \in Runs, NEW c \in Conns, Accept(r, c) \/ AcceptAfterStop(r, c)
      PROVE  Counters'
  <2>1. /\ session[c] = "none"
        /\ \/ session' = [session EXCEPT ![c] = "accepted"]
           \/ session' = [session EXCEPT ![c] = "done"]
        /\ runOf' = [runOf EXCEPT ![c] = r]
        /\ UNCHANGED <<runCtx, active>>
    BY <1>7 DEF Accept, AcceptAfterStop, runtimeVars
  <2>2. Live(runCtx)' = Live(runCtx)
    BY <2>1 DEF Live, OwnConns
  <2> QED
    BY <2>1, <2>2 DEF Counters, ActiveCovers
<1>8. ASSUME NEW c \in Conns, SessionStep(c)
      PROVE  Counters'
  <2>1. UNCHANGED <<runOf, runCtx>>
    BY <1>8, SessionKeeps
  <2>2. CASE Leave(c)
    <3>1. /\ session[c] = "leave" /\ session' = [session EXCEPT ![c] = "done"]
          /\ active' = IF runCtx = runOf[c] THEN active - 1 ELSE active
      BY <2>2 DEF Leave, Goes
    <3>2. runOf[c] # 0
      BY <3>1 DEF OwnConns
    <3>3. CASE runCtx = runOf[c]
      <4>1. c \in Live(runCtx) /\ Live(runCtx)' = Live(runCtx) \ {c}
        BY <2>1, <3>1, <3>3 DEF Live, OwnConns
      <4>2. /\ Cardinality(Live(runCtx)') = Cardinality(Live(runCtx)) - 1
            /\ Cardinality(Live(runCtx)') \in Nat
        BY <4>1, LiveFinite, FS_RemoveElement, FS_CardinalityType
      <4>3. active >= Cardinality(Live(runCtx)) /\ active' = active - 1
        BY <3>1, <3>2, <3>3 DEF Counters, ActiveCovers
      <4> QED
        BY <4>2, <4>3, LiveFinite DEF Counters, ActiveCovers
    <3>4. CASE runCtx # runOf[c]
      <4>1. Live(runCtx)' = Live(runCtx)
        BY <2>1, <3>1, <3>4 DEF Live, OwnConns
      <4> QED
        BY <2>1, <3>1, <3>4, <4>1 DEF Counters, ActiveCovers
    <3> QED
      BY <3>3, <3>4
  <2>3. CASE ~ Leave(c)
    <3>1. /\ session[c] \notin {"none", "accepted", "done"}
          /\ session' = [session EXCEPT ![c] = session'[c]]
          /\ session'[c] \notin {"none", "accepted", "done"}
          /\ active' = active
      BY <1>8, <2>3 DEF SessionStep, Handshake, HandshakeCancelled, Reject, Passthrough,
         PassthroughEnds, ConnectReturns, BridgeEnds, Goes, OwnConns, runtimeVars
    <3>2. Live(runCtx)' = Live(runCtx)
      BY <2>1, <3>1 DEF Live, OwnConns
    <3> QED
      BY <2>1, <3>1, <3>2 DEF Counters, ActiveCovers
  <2> QED
    BY <2>2, <2>3
<1>9. CASE UNCHANGED vars
  BY <1>9 DEF vars, Counters, ActiveCovers, Live, runtimeVars, sessionVars
<1> QED
  BY <1>1, <1>2, <1>3, <1>4, <1>5, <1>6, <1>7, <1>8, <1>9 DEF Next

-----------------------------------------------------------------------------
(* The theorems *)

Inv == RunInv /\ NoWatchdog /\ StatusInv /\ TruthInv /\ OwnConns /\ Counters

\* What the theorems rest on: every part of the invariant, kept by every step.
THEOREM InvHolds == Spec => []Inv
<1>1. Init => Inv
  <2>1. Init => NoWatchdog /\ StatusInv /\ TruthInv
    BY ConstantsAssumption
    DEF Init, NoWatchdog, StatusInv, StatusTruthful, TruthInv, RouteTruthOwn, Cancelled
  <2> QED
    BY <2>1, RunInit, OwnInit DEF Inv
<1>2. Inv /\ [Next]_vars => Inv'
  BY RunStep, QuietStep, StatusStep, TruthStep, OwnStep, CountStep DEF Inv
<1> QED
  BY <1>1, <1>2, PTL DEF Spec

\* The state of the frontend stays well typed, for every number of runs and
\* connections; activeConnections never goes below zero.
THEOREM FrontendTypeCorrect == Spec => []TypeOK
<1>1. Inv => TypeOK
  BY ConstantsAssumption
  DEF Inv, RunInv, RunTypes, Latest, StatusInv, TruthInv, OwnConns, Counters, TypeOK
<1> QED
  BY <1>1, InvHolds, PTL

\* A running frontend's socket is open: no late Close of an earlier Stop hits it.
THEOREM PortTheorem == Spec => []PortHeld
<1>1. Inv => PortHeld
  BY DEF Inv, RunInv
<1> QED
  BY <1>1, InvHolds, PTL

\* The route truth of a running frontend was not written by an earlier run.
THEOREM TruthTheorem == Spec => []RouteTruthOwn
<1>1. Inv => RouteTruthOwn
  BY DEF Inv, TruthInv
<1> QED
  BY <1>1, InvHolds, PTL

\* activeConnections counts every session of the current run.
THEOREM ActiveTheorem == Spec => []ActiveCovers
<1>1. Inv => ActiveCovers
  BY DEF Inv, Counters
<1> QED
  BY <1>1, InvHolds, PTL

\* Until an accept fails or a configuration is invalid, the status says LISTENING
\* exactly while a run is current.
THEOREM StatusTheorem == Spec => []StatusTruthful
<1>1. Inv => StatusTruthful
  BY DEF Inv, StatusInv
<1> QED
  BY <1>1, InvHolds, PTL
=============================================================================
