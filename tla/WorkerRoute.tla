---------------------------- MODULE WorkerRoute ----------------------------
(***************************************************************************)
(* How sessions get a connection through one of the configured Workers:    *)
(* the selection of the candidates, the in-memory circuits that block a    *)
(* Worker for a while, and the failover from one candidate to the next.    *)
(* A session is of the MTProto frontend, whose candidates each have one of *)
(* two transports (chunk_relay or legacy_websocket), or of the SOCKS       *)
(* frontend (cfWorkerFallback, tryWorkerFailoverConnect).  Only a          *)
(* chunk-relay dial looks at the circuit again and only chunk-relay        *)
(* answers change it.  Every look at a circuit is a step of its own: it is *)
(* locked for one look at one Worker, and what was seen may be stale when  *)
(* it is acted on.  So may an answer, which is chosen when its request is  *)
(* sent.  Durations are in ticks.                                          *)
(***************************************************************************)
EXTENDS Naturals, Sequences, FiniteSets

CONSTANTS
  Sessions,      \* slots for client sessions, used again and again
  Workers,       \* domains of the configured Workers
  Configured,    \* Worker.Failover.Candidates: the Workers in their order
  RoundRobin,    \* SelectionStrategy is ROUND_ROBIN
  MaxAttempts,   \* Worker.Failover.MaxAttempts, or its default
  MaxRetries,    \* mtProtoChunkRelayMaxRetries
  Cooldown,      \* workerTemporaryFailureCooldown
  QuotaReset     \* the longest time to a quota reset

Kinds == {"mtproto", "socks"}

ASSUME WorkerAssumption ==
  /\ Configured \in Seq(Workers)
  /\ Len(Configured) > 0
  /\ RoundRobin \in BOOLEAN
  /\ MaxAttempts \in Nat \ {0}
  /\ MaxRetries \in Nat
  /\ Cooldown \in Nat \ {0}
  /\ QuotaReset \in Nat \ {0}

VARIABLES
  circuit,   \* workerCircuitRuntime.states; left = 0: there is no entry
  active,    \* rtWorkerFailoverActive
  cands,     \* per session, the candidates it selected
  sess       \* what each session is doing

vars == <<circuit, active, cands, sess>>

\* What an open request meets; refused = another status, or no relay revision.
Answers == {"none", "ok", "refused", "quota", "5xx", "net"}

\* Where a session can be: idle; select = it looks at the i-th circuit;
\* try = the top of the candidate loop; checked = the circuit of a chunk relay
\* was free when it was looked at; open = an open request is out; init = the relay
\* init is being written; first, redial, second = the first packet of a SOCKS
\* session and its one retry; up = bridged.
Places == {"idle", "select", "try", "checked", "open", "init", "first", "redial", "second", "up"}

Closed == [reason |-> "none", left |-> 0]
Idle == [at |-> "idle", kind |-> "mtproto", start |-> 1, i |-> 1, tries |-> 0,
         ans |-> "none", socks |-> 0, relay |-> FALSE, gone |-> FALSE]

Init ==
  /\ circuit = [w \in Workers |-> Closed]
  /\ active = FALSE
  /\ cands = [s \in Sessions |-> << >>]
  /\ sess = [s \in Sessions |-> Idle]

-----------------------------------------------------------------------------
(* Circuits *)

\* activeWorkerCircuit: an entry that has run out is deleted.
Blocked(w) == circuit[w].left > 0

MarkOverwrites(w, reason, left) ==   \* mutant: the previous entry is not looked at
  circuit' = [circuit EXCEPT ![w] = [reason |-> reason, left |-> left]]

\* markWorkerCircuit: the later end wins, and a later end that is there keeps
\* the reason quota_exhausted.
Mark(w, reason, left) ==
  LET prev == circuit[w] IN
  circuit' = [circuit EXCEPT ![w] =
    IF prev.left > left
    THEN [reason |-> IF prev.reason = "quota" THEN "quota" ELSE reason, left |-> prev.left]
    ELSE [reason |-> reason, left |-> left]]

\* chunkRelayCircuitErrorForResponse: the reset comes from a header.
QuotaAnswer(w) == \E left \in 1..QuotaReset : Mark(w, "quota", left)

\* clearWorkerCircuit.
ClearCircuit(w) == circuit' = [circuit EXCEPT ![w] = Closed]

\* A unit of time passes.
Tick ==
  /\ \E w \in Workers : Blocked(w)
  /\ circuit' = [w \in Workers |->
       IF circuit[w].left > 1 THEN [circuit[w] EXCEPT !.left = @ - 1] ELSE Closed]
  /\ UNCHANGED <<active, cands, sess>>

-----------------------------------------------------------------------------
(* Selection *)

Rotated(start) ==
  SubSeq(Configured, start, Len(Configured)) \o SubSeq(Configured, 1, start - 1)

\* workerStickyCandidateIndex: a hash of the session id.
StickyStarts == IF RoundRobin THEN DOMAIN Configured ELSE {1}

\* maxAttemptsFor.
Attempts(s) ==
  IF MaxAttempts > Len(cands[s]) THEN Len(cands[s]) ELSE MaxAttempts

Worker(s) == cands[s][sess[s].i]

\* A session wants a Worker; its id fixes the order.
Begin(s, kind, start) ==
  /\ sess[s].at = "idle"
  /\ sess' = [sess EXCEPT ![s] = [Idle EXCEPT !.at = "select", !.kind = kind, !.start = start]]
  /\ UNCHANGED <<circuit, active, cands>>

\* filterWorkerCandidatesByCircuit: the circuits are looked at one by one.
LookAtCircuit(s) ==
  /\ sess[s].at = "select"
  /\ sess[s].i <= Len(Configured)
  /\ LET w == Rotated(sess[s].start)[sess[s].i] IN
       cands' = IF Blocked(w) THEN cands ELSE [cands EXCEPT ![s] = Append(@, w)]
  /\ sess' = [sess EXCEPT ![s].i = @ + 1]
  /\ UNCHANGED <<circuit, active>>

\* The free candidates, or one blocked candidate if none was free.  The status
\* flag is for SOCKS sessions only (noteWorkerFailoverAttemptStarted).
Selected(s) ==
  /\ sess[s].at = "select"
  /\ sess[s].i > Len(Configured)
  /\ cands' = IF cands[s] # << >> THEN cands
              ELSE [cands EXCEPT ![s] = SubSeq(Rotated(sess[s].start), 1, 1)]
  /\ sess' = [sess EXCEPT ![s] = [@ EXCEPT !.at = "try", !.start = 1, !.i = 1]]
  /\ active' = (active \/ sess[s].kind = "socks")
  /\ UNCHANGED circuit

-----------------------------------------------------------------------------
(* Steps of a session *)

Become(s, state) == sess' = [sess EXCEPT ![s] = state] /\ UNCHANGED cands
Goto(s, place) == Become(s, [sess[s] EXCEPT !.at = place])
NextCandidate(s) ==
  Become(s, [sess[s] EXCEPT !.at = "try", !.i = @ + 1, !.ans = "none", !.tries = 0,
                            !.socks = 0, !.relay = FALSE])
Connected(s, place) ==
  Become(s, [sess[s] EXCEPT !.at = place, !.ans = "none", !.tries = 0, !.socks = 1])
Leave(s) == sess' = [sess EXCEPT ![s] = Idle] /\ cands' = [cands EXCEPT ![s] = << >>]

\* The frontend session's context ends.  SOCKS failover does not look at it.
Cancel(s) ==
  /\ sess[s].at \in {"select", "try", "checked", "open", "init"}
  /\ sess[s].kind # "socks"
  /\ ~ sess[s].gone
  /\ Become(s, [sess[s] EXCEPT !.gone = TRUE])
  /\ UNCHANGED <<circuit, active>>

\* ctx.Err() at the top of the candidate loop.
CancelledBetween(s) ==
  /\ sess[s].at = "try"
  /\ sess[s].gone
  /\ Leave(s)
  /\ UNCHANGED <<circuit, active>>

ExhaustedStaysActive(s) ==   \* mutant: rtWorkerFailoverActive is not reset
  /\ sess[s].at = "try"
  /\ ~ sess[s].gone
  /\ sess[s].i > Attempts(s)
  /\ Leave(s)
  /\ UNCHANGED <<circuit, active>>

\* noteWorkerFailoverExhausted resets the flag of the status.
Exhausted(s) ==
  /\ sess[s].at = "try"
  /\ ~ sess[s].gone
  /\ sess[s].i > Attempts(s)
  /\ Leave(s)
  /\ active' = IF sess[s].kind = "socks" THEN FALSE ELSE active
  /\ UNCHANGED circuit

Trying(s, kind) ==
  /\ sess[s].at = "try"
  /\ ~ sess[s].gone
  /\ sess[s].i <= Attempts(s)
  /\ sess[s].kind = kind

\* A candidate with the chunk_relay transport: dialMtProtoChunkRelay looks at its
\* circuit and gives up at once if it is blocked.
CheckCircuit(s) ==
  /\ Trying(s, "mtproto")
  /\ IF Blocked(Worker(s)) THEN NextCandidate(s) ELSE Goto(s, "checked")
  /\ UNCHANGED <<circuit, active>>

\* The first open request.  The circuit is not looked at any more: other sessions
\* may have opened it in between.
SendOpen(s) ==
  /\ sess[s].at = "checked"
  /\ ~ sess[s].gone
  /\ \E a \in Answers \ {"none"} : Become(s, [sess[s] EXCEPT !.at = "open", !.ans = a])
  /\ UNCHANGED <<circuit, active>>

RetryOpenForever(s) ==   \* mutant: attempts are not counted
  /\ sess[s].at = "open"
  /\ sess[s].ans \in {"5xx", "net"}
  /\ ~ sess[s].gone
  /\ \E a \in Answers \ {"none"} : Become(s, [sess[s] EXCEPT !.ans = a])
  /\ UNCHANGED <<circuit, active>>

\* chunkRelayErrorRetryable: server and network errors.  The circuit is not
\* looked at between two attempts.
RetryOpen(s) ==
  /\ sess[s].at = "open"
  /\ sess[s].ans \in {"5xx", "net"}
  /\ sess[s].tries < MaxRetries
  /\ ~ sess[s].gone
  /\ \E a \in Answers \ {"none"} :
       Become(s, [sess[s] EXCEPT !.ans = a, !.tries = @ + 1])
  /\ UNCHANGED <<circuit, active>>

\* The session's context ends the request or the backoff: no status is known.
OpenAborted(s) ==
  /\ sess[s].at \in {"checked", "open"}
  /\ sess[s].gone
  /\ NextCandidate(s)
  /\ UNCHANGED <<circuit, active>>

\* The open failed for good.
OpenFails(s) ==
  /\ sess[s].at = "open"
  /\ \/ sess[s].ans \in {"refused", "quota"}
     \/ sess[s].ans \in {"5xx", "net"} /\ sess[s].tries = MaxRetries
  /\ NextCandidate(s)
  /\ CASE sess[s].ans = "quota" -> QuotaAnswer(Worker(s))
       [] sess[s].ans = "5xx" -> Mark(Worker(s), "temporary", Cooldown)
       [] OTHER -> UNCHANGED circuit
  /\ UNCHANGED active

\* 204 and a relay revision: the Worker is fine, whatever was noted meanwhile.
OpenSucceeds(s) ==
  /\ sess[s].at = "open"
  /\ sess[s].ans = "ok"
  /\ Become(s, [sess[s] EXCEPT !.at = "init", !.ans = "none", !.tries = 0,
                               !.socks = 1, !.relay = TRUE])
  /\ ClearCircuit(Worker(s))
  /\ UNCHANGED active

\* A candidate with the legacy_websocket transport: the circuits play no part.
DialLegacy(s) ==
  /\ Trying(s, "mtproto")
  /\ NextCandidate(s) \/ Connected(s, "init")
  /\ UNCHANGED <<circuit, active>>

\* Nor do they here.  A connection ends the failover.
DialSocks(s) ==
  /\ Trying(s, "socks")
  /\ \/ NextCandidate(s) /\ UNCHANGED active
     \/ Connected(s, "first") /\ active' = FALSE
  /\ UNCHANGED circuit

WriteInitKeepsSocket(s) ==   \* mutant: no ws.Close() before the next candidate
  /\ sess[s].at = "init"
  /\ IF sess[s].gone THEN Leave(s)
     ELSE \/ Goto(s, "up")
          \/ Become(s, [sess[s] EXCEPT !.at = "try", !.i = @ + 1])
  /\ UNCHANGED <<circuit, active>>

\* The relay init is written; the cancelled context has closed the socket.
WriteInit(s) ==
  /\ sess[s].at = "init"
  /\ IF sess[s].gone THEN Leave(s)
     ELSE Goto(s, "up") \/ NextCandidate(s)
  /\ UNCHANGED <<circuit, active>>

\* The first packet of a SOCKS session: after one failure a fresh dial to the
\* same Worker, then no more.
FirstWrite(s) ==
  /\ sess[s].at = "first"
  /\ \/ Goto(s, "up") /\ active' = FALSE
     \/ Become(s, [sess[s] EXCEPT !.at = "redial", !.socks = 0]) /\ UNCHANGED active
  /\ UNCHANGED circuit

Redial(s) ==
  /\ sess[s].at = "redial"
  /\ Connected(s, "second") \/ Leave(s)
  /\ UNCHANGED <<circuit, active>>

SecondWrite(s) ==
  /\ sess[s].at = "second"
  /\ \/ Goto(s, "up") /\ active' = FALSE
     \/ Leave(s) /\ UNCHANGED active
  /\ UNCHANGED circuit

\* An up, down or close request of a bridged chunk relay meets the quota.
BridgedQuota(s) ==
  /\ sess[s].at = "up"
  /\ sess[s].relay
  /\ QuotaAnswer(Worker(s))
  /\ UNCHANGED <<active, cands, sess>>

\* The bridge ends and has closed its socket.
Disconnect(s) ==
  /\ sess[s].at = "up"
  /\ Leave(s)
  /\ UNCHANGED <<circuit, active>>

Connecting(s) ==
  \/ LookAtCircuit(s) \/ Selected(s) \/ CancelledBetween(s) \/ Exhausted(s)
  \/ CheckCircuit(s) \/ SendOpen(s) \/ RetryOpen(s) \/ OpenAborted(s)
  \/ OpenFails(s) \/ OpenSucceeds(s) \/ DialLegacy(s) \/ DialSocks(s)
  \/ WriteInit(s) \/ FirstWrite(s) \/ Redial(s) \/ SecondWrite(s)

Next ==
  \/ Tick
  \/ \E s \in Sessions :
       \/ \E kind \in Kinds, start \in StickyStarts : Begin(s, kind, start)
       \/ Cancel(s) \/ Connecting(s) \/ BridgedQuota(s) \/ Disconnect(s)

\* Every dial, request, write and backoff of a connecting session has a timeout.
Spec == Init /\ [][Next]_vars /\ \A s \in Sessions : WF_vars(Connecting(s))

-----------------------------------------------------------------------------
(* Properties *)

Longest == IF Cooldown > QuotaReset THEN Cooldown ELSE QuotaReset

\* Types; an entry has a reason and never outlasts the longest mark.
TypeOK ==
  /\ circuit \in [Workers -> {Closed} \cup [reason : {"temporary", "quota"}, left : 1..Longest]]
  /\ active \in BOOLEAN
  /\ sess \in [Sessions ->
       [at : Places, kind : Kinds, start : Nat \ {0}, i : Nat \ {0}, tries : 0..MaxRetries,
        ans : Answers, socks : {0, 1}, relay : BOOLEAN, gone : BOOLEAN]]

\* However candidates fail, writes break or the client goes away, a session
\* holds a connection to a Worker exactly while it has one to use: none is
\* leaked by a failover and none is bridged after it was closed.
SocketsOwned ==
  \A s \in Sessions : sess[s].socks = 1 <=> sess[s].at \in {"init", "first", "second", "up"}

\* The status reports a failover only while some SOCKS session is in one:
\* overlapping sessions and every way to fail reset worker_failover_active.
IdleNotActive ==
  active => \E s \in Sessions : sess[s].kind = "socks" /\ sess[s].at = "try"

\* A Worker that reported its quota stays blocked for as long as it said, and
\* under that reason as long as the quota outlasts a temporary cooldown: other
\* sessions' temporary failures and earlier ends that arrive late shorten
\* nothing.  Only time, or an open that this Worker accepted, unblocks it.
QuotaKept ==
  [][\A w \in Workers : circuit[w].reason = "quota" =>
       \/ /\ circuit'[w].left >= circuit[w].left
          /\ circuit[w].left > Cooldown => circuit'[w].reason = "quota"
       \/ \E s \in Sessions :
            sess[s].at = "open" /\ sess[s].ans = "ok" /\ Worker(s) = w /\ sess'[s].at = "init"
       \/ \A v \in Workers : circuit[v].left > 0 => circuit'[v].left = circuit[v].left - 1]_vars

\* Every attempt to connect ends: in a bridge or in a failure.
ConnectEnds ==
  \A s \in Sessions : sess[s].at \notin {"idle", "up"} ~> sess[s].at \in {"idle", "up"}

=============================================================================
