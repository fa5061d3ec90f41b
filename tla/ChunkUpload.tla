----------------------------- MODULE ChunkUpload -----------------------------
(***************************************************************************)
(* The pipelined upload of one MTProto chunk-relay session                 *)
(* (mtproto_chunk_relay_pipeline.go).  A Write cuts its data into chunks,  *)
(* numbers them from upSeq + 1 and keeps up to Window of them outstanding. *)
(* Each chunk is carried by one goroutine, its "job": it waits for one of  *)
(* the PrimarySlots, runs up to MaxRetries + 1 rounds, and in a round      *)
(* sends the chunk by a primary request and, only while it is the oldest   *)
(* unacknowledged chunk, by a hedge.  The writing goroutine takes the      *)
(* jobs' results from a channel and advances upSeq in order.               *)
(*                                                                         *)
(* A chunk is represented by its position in the caller's stream: seq s    *)
(* is right when it carries chunk s.  The Worker, the HTTP client and the  *)
(* network are external: a request may be answered or not, late or never.  *)
(***************************************************************************)
EXTENDS Naturals, Sequences, FiniteSets

CONSTANTS
  Window,        \* mtProtoChunkRelayUpWindow (3 in the code)
  PrimarySlots,  \* mtProtoChunkRelayPrimaryRequests (12 in the code)
  MaxRetries,    \* mtProtoChunkRelayMaxRetries
  MaxSeq         \* bound on the chunks this session uploads

ASSUME ConstantsAssumption ==
  /\ Window \in Nat \ {0}
  /\ PrimarySlots \in Nat \ {0}
  /\ MaxRetries \in Nat
  /\ MaxSeq \in Nat

Seqs  == 1..MaxSeq
Legs  == {"primary", "hedge"}
NoChunk == 0

JobStates == {"none",      \* not launched
              "slot",      \* waiting for a primary slot
              "round",     \* one or two requests outstanding
              "backoff",   \* sleeping between two rounds
              "over"}      \* its result is in the channel

Verdicts == {"ack",        \* 204 and X-Tgws-Chunk-Ack names this seq
             "badack",     \* 204 without that acknowledgement
             "error"}      \* everything else, cancellation included

VARIABLES
  upSeq,       \* c.upSeq: the last seq confirmed in order
  offered,     \* history: chunks handed over in Writes that succeeded
  status,      \* "idle" | "open" (a Write runs) | "failed" (a Write failed)
  base,        \* baseSeq of the current or last Write
  count,       \* len(specs) of that Write
  launched,    \* nextLaunch of that Write
  completed,   \* keys of its `completed' map
  results,     \* its results channel
  acked,       \* seqs passed to the head tracker's markDone
  jobState,    \* per seq, where its goroutine stands
  attempt,     \* per seq, the retry loop's attempt
  live,        \* per seq, the legs of the running round not yet answered
  hedged,      \* per seq, hedgeLaunched of the running round
  body,        \* per seq, the chunk its request carries
  onWire,      \* seqs a request of which may reach the Worker, now or later
  received,    \* per seq, the chunk the Worker stored for it
  closed       \* Close was called: c.closed is set and lifeCtx is done

writeVars == <<upSeq, offered, status, base, count, launched, completed>>
jobVars   == <<acked, jobState, attempt, live, hedged, body, onWire>>
vars == <<writeVars, results, jobVars, received, closed>>

-----------------------------------------------------------------------------
Init ==
  /\ upSeq = 0
  /\ offered = 0
  /\ status = "idle"
  /\ base = 0
  /\ count = 0
  /\ launched = 0
  /\ completed = {}
  /\ results = << >>
  /\ acked = {}
  /\ jobState = [s \in Seqs |-> "none"]
  /\ attempt = [s \in Seqs |-> 0]
  /\ live = [s \in Seqs |-> {}]
  /\ hedged = [s \in Seqs |-> FALSE]
  /\ body = [s \in Seqs |-> NoChunk]
  /\ onWire = {}
  /\ received = [s \in Seqs |-> NoChunk]
  /\ closed = FALSE

\* pipelineCtx is done, or lifeCtx is.
Cancelled == closed \/ status # "open"

\* head.state(s): s is the oldest seq of this Write without an acknowledgement.
IsHead(s) ==
  /\ s \notin acked
  /\ \A r \in (base + 1)..(s - 1) : r \in acked

SlotsKept == {s \in Seqs : jobState[s] \in {"round", "backoff", "over"}}   \* mutant
SlotHolders == {s \in Seqs : jobState[s] \in {"round", "backoff"}}

\* make(chan mtProtoChunkUploadResult, len(specs))
ResultsCapacity == count

-----------------------------------------------------------------------------
(* The caller *)

\* The slice of the caller's data that spec s of the starting Write carries.
ChunkFromOldBase(s) == offered + (s - base)   \* mutant: baseSeq is read too early
ChunkOf(s) == offered + (s - upSeq)

\* writePipelinedMtProtoChunkRelay up to its main loop.  writeMu makes Writes
\* exclusive; after a failed one the bridge closes the connection, so none
\* follows it.
StartWrite(k) ==
  /\ status = "idle"
  /\ ~closed
  /\ upSeq + k <= MaxSeq
  /\ LET first == IF k < Window THEN k ELSE Window
     IN  /\ launched' = first
         /\ jobState' = [s \in Seqs |->
                           IF s \in (upSeq + 1)..(upSeq + first) THEN "slot"
                           ELSE jobState[s]]
  /\ body' = [s \in Seqs |-> IF s \in (upSeq + 1)..(upSeq + k)
                             THEN ChunkOf(s) ELSE body[s]]
  /\ status' = "open"
  /\ base' = upSeq
  /\ count' = k
  /\ completed' = {}
  /\ results' = << >>
  /\ acked' = {}
  /\ UNCHANGED <<upSeq, offered, attempt, live, hedged, onWire, received, closed>>

\* Close: closed, then lifeCtx cancelled.  It does not wait for writeMu.
CloseConn ==
  /\ ~closed
  /\ closed' = TRUE
  /\ UNCHANGED <<writeVars, results, jobVars, received>>

-----------------------------------------------------------------------------
(* A job *)

\* One iteration of the retry loop begins: the primary request is launched.
\* With a context already cancelled the request is never sent.
LaunchRound(s, k) ==
  /\ jobState' = [jobState EXCEPT ![s] = "round"]
  /\ attempt' = [attempt EXCEPT ![s] = k]
  /\ live' = [live EXCEPT ![s] = {"primary"}]
  /\ hedged' = [hedged EXCEPT ![s] = FALSE]
  /\ onWire' = IF Cancelled THEN onWire ELSE onWire \cup {s}

\* The goroutine returns: its result goes into the channel, its slot back, and
\* roundCancel drops the other leg.
Finish(s, v) ==
  /\ Len(results) < ResultsCapacity
  /\ results' = Append(results, [seq |-> s, verdict |-> v])
  /\ jobState' = [jobState EXCEPT ![s] = "over"]
  /\ live' = [live EXCEPT ![s] = {}]

AcquireSlot(s) ==
  /\ jobState[s] = "slot"
  /\ Cardinality(SlotHolders) < PrimarySlots
  /\ LaunchRound(s, 0)
  /\ UNCHANGED <<writeVars, results, acked, body, received, closed>>

\* acquireMtProtoChunkRelayPrimarySlot gives up only when the connection is
\* closed, not when the pipeline is cancelled.
AbortSlotWait(s) ==
  /\ jobState[s] = "slot"
  /\ closed
  /\ Finish(s, "error")
  /\ UNCHANGED <<writeVars, acked, attempt, hedged, body, onWire, received, closed>>

LaunchHedge(s, still) ==
  /\ live' = [live EXCEPT ![s] = still \cup {"hedge"}]
  /\ hedged' = [hedged EXCEPT ![s] = TRUE]
  /\ onWire' = IF Cancelled THEN onWire ELSE onWire \cup {s}
  /\ UNCHANGED <<results, jobState, attempt>>

\* The hedge delay is over and the tracker says s is the head, at once or after
\* a wake-up through `changed'.
HedgeHead(s) ==
  /\ jobState[s] = "round"
  /\ ~hedged[s]
  /\ IsHead(s)
  /\ LaunchHedge(s, live[s])
  /\ UNCHANGED <<writeVars, acked, body, received, closed>>

MarkDoneAny(s, v) == acked' = acked \cup {s}   \* mutant: the ack is not compared
MarkDone(s, v) == acked' = IF v = "ack" THEN acked \cup {s} ELSE acked

\* A request returns 204.  The job stops at it, whichever leg it is; the
\* acknowledgement is looked at twice, here for the head tracker and again by
\* the main loop.  The Worker acknowledges a seq once it holds its chunk.
LegAnswered(s, leg, v) ==
  /\ jobState[s] = "round"
  /\ leg \in live[s]
  /\ v = "ack" => received[s] # NoChunk
  /\ MarkDone(s, v)
  /\ Finish(s, v)
  /\ UNCHANGED <<writeVars, attempt, hedged, body, onWire, received, closed>>

\* A request returns a 4xx (410 among them) or opens the Worker's circuit:
\* neither is retried.
LegRejected(s, leg) ==
  /\ jobState[s] = "round"
  /\ leg \in live[s]
  /\ Finish(s, "error")
  /\ UNCHANGED <<writeVars, acked, attempt, hedged, body, onWire, received, closed>>

\* The round returned a retryable error.
EndRound(s) ==
  \/ /\ attempt[s] < MaxRetries
     /\ jobState' = [jobState EXCEPT ![s] = "backoff"]
     /\ live' = [live EXCEPT ![s] = {}]
     /\ UNCHANGED results
  \/ /\ attempt[s] = MaxRetries
     /\ Finish(s, "error")

\* A request fails in a retryable way: network error, timeout, 5xx.
LegFailed(s, leg) ==
  /\ jobState[s] = "round"
  /\ leg \in live[s]
  /\ \/ /\ ~hedged[s] /\ IsHead(s)
        /\ LaunchHedge(s, {})
     \/ /\ \/ ~hedged[s] /\ ~IsHead(s)
           \/ hedged[s] /\ live[s] = {leg}
        /\ EndRound(s)
        /\ UNCHANGED <<attempt, hedged, onWire>>
     \/ /\ hedged[s] /\ live[s] # {leg}
        /\ live' = [live EXCEPT ![s] = @ \ {leg}]
        /\ UNCHANGED <<results, jobState, attempt, hedged, onWire>>
  /\ UNCHANGED <<writeVars, acked, body, received, closed>>

\* The backoff timer fires.
RetryAfterBackoff(s) ==
  /\ jobState[s] = "backoff"
  /\ LaunchRound(s, attempt[s] + 1)
  /\ UNCHANGED <<writeVars, results, acked, body, received, closed>>

\* The job sees parent.Done or lifeCtx.Done in its round or in its backoff.
JobCancelled(s) ==
  /\ jobState[s] \in {"round", "backoff"}
  /\ Cancelled
  /\ Finish(s, "error")
  /\ UNCHANGED <<writeVars, acked, attempt, hedged, body, onWire, received, closed>>

-----------------------------------------------------------------------------
(* The main loop of the Write *)

\* Mutant: the highest acknowledged seq is committed, gaps or not.
CommitsHighest(c, u) == /\ u \in c
                        /\ \A s \in c : s <= u

\* The seqs that leave `completed' in order once it is c: u is the last of them.
CommitsUpTo(c, u) ==
  /\ u \in upSeq..(base + count)
  /\ \A s \in (upSeq + 1)..u : s \in c
  /\ u + 1 \notin c

\* The window slides: an acknowledgement lets the next chunk be launched.
NoRefill == UNCHANGED <<launched, jobState>>   \* mutant: a fixed batch
Refill ==
  IF launched < count
  THEN /\ launched' = launched + 1
       /\ jobState' = [jobState EXCEPT ![base + launched + 1] = "slot"]
  ELSE UNCHANGED <<launched, jobState>>

ReceiveAck ==
  /\ status = "open"
  /\ results # << >>
  /\ Head(results).verdict = "ack"
  /\ results' = Tail(results)
  /\ Refill
  /\ \E u \in upSeq..(base + count) :
       LET c == completed \cup {Head(results).seq}
           all == u = base + count
       IN  /\ CommitsUpTo(c, u)
           /\ upSeq' = u
           /\ completed' = c \ ((upSeq + 1)..u)
           /\ status' = IF all THEN "idle" ELSE "open"
           /\ offered' = IF all THEN offered + count ELSE offered
  /\ UNCHANGED <<base, count, acked, attempt, live, hedged, body, onWire,
                 received, closed>>

ReceiveFailureAllWritten ==   \* mutant: every launched chunk is reported written
  /\ status = "open"
  /\ results # << >>
  /\ Head(results).verdict # "ack"
  /\ results' = Tail(results)
  /\ status' = "failed"
  /\ upSeq' = base + launched
  /\ UNCHANGED <<offered, base, count, launched, completed, jobVars,
                 received, closed>>

\* An error or a wrong acknowledgement ends the Write: pipelineCancel, and what
\* was committed so far is reported as written.
ReceiveFailure ==
  /\ status = "open"
  /\ results # << >>
  /\ Head(results).verdict # "ack"
  /\ results' = Tail(results)
  /\ status' = "failed"
  /\ UNCHANGED <<upSeq, offered, base, count, launched, completed, jobVars,
                 received, closed>>

-----------------------------------------------------------------------------
(* The Worker (external): the first body stored under a seq stays. *)
WorkerReceives(s) ==
  /\ s \in onWire
  /\ received' = [received EXCEPT ![s] = IF @ = NoChunk THEN body[s] ELSE @]
  /\ UNCHANGED <<writeVars, results, jobVars, closed>>

-----------------------------------------------------------------------------
JobStep(s) ==
  \/ AcquireSlot(s)
  \/ AbortSlotWait(s)
  \/ HedgeHead(s)
  \/ \E leg \in Legs, v \in {"ack", "badack"} : LegAnswered(s, leg, v)
  \/ \E leg \in Legs : LegRejected(s, leg)
  \/ \E leg \in Legs : LegFailed(s, leg)
  \/ RetryAfterBackoff(s)
  \/ JobCancelled(s)

Next ==
  \/ \E k \in Seqs : StartWrite(k)
  \/ CloseConn
  \/ \E s \in Seqs : JobStep(s)
  \/ ReceiveAck
  \/ ReceiveFailure
  \/ \E s \in Seqs : WorkerReceives(s)

Spec == Init /\ [][Next]_vars

(* Every job takes its next step: requests have deadlines, timers fire and     *)
(* goroutines are scheduled; and the writing goroutine drains its channel.     *)
FairSpec ==
  /\ Spec
  /\ \A s \in Seqs : WF_vars(JobStep(s))
  /\ WF_vars(ReceiveAck \/ ReceiveFailure)

-----------------------------------------------------------------------------
(* Properties *)

\* The type invariant of the session's state.
TypeOK ==
  /\ upSeq \in 0..MaxSeq
  /\ offered \in 0..MaxSeq
  /\ status \in {"idle", "open", "failed"}
  /\ base \in 0..MaxSeq
  /\ count \in 0..MaxSeq
  /\ launched \in 0..MaxSeq
  /\ completed \subseteq Seqs
  /\ results \in Seq([seq : Seqs, verdict : Verdicts])
  /\ acked \subseteq Seqs
  /\ jobState \in [Seqs -> JobStates]
  /\ attempt \in [Seqs -> 0..MaxRetries]
  /\ live \in [Seqs -> SUBSET Legs]
  /\ hedged \in [Seqs -> BOOLEAN]
  /\ body \in [Seqs -> 0..MaxSeq]
  /\ onWire \subseteq Seqs
  /\ received \in [Seqs -> 0..MaxSeq]
  /\ closed \in BOOLEAN

\* Retries and hedges keep a chunk's seq and a Write continues where the last
\* one ended, so whatever the Worker stores under a seq is the chunk at that
\* place of the caller's stream (TestWorkerStreamRetryKeepsSequenceAndCommitsPayloadOnce).
StreamIntact == \A s \in Seqs : received[s] \in {NoChunk, s}

\* What Write reports as written, in order and without a gap, the Worker has:
\* upSeq never runs ahead of a chunk that was lost, misacknowledged or is late.
ConfirmedReceived == \A s \in 1..upSeq : received[s] = s

\* "only oldest unacked seq may hedge" (mtproto_chunk_relay_hol_hedge_test.go):
\* while a hedge of s is out, the Worker has every chunk of the Write before s.
HedgeOnlyOldest ==
  \A s \in Seqs : hedged[s] /\ live[s] # {} =>
    \A r \in (base + 1)..(s - 1) : received[r] = r

\* The upload implements the promise of ReliableUpload to its caller: windows,
\* retries, hedges and late requests are invisible but for their delay.
InOrderSeqs == {s \in Seqs : \A r \in 1..s : received[r] # NoChunk}

Abstract == INSTANCE ReliableUpload WITH
              status <- status,
              offered <- IF status = "idle" THEN offered ELSE offered + count,
              confirmed <- upSeq,
              forwarded <- {<<s, received[s]>> : s \in InOrderSeqs}

ImplementsReliableUpload == Abstract!Spec

\* A Write always returns, whatever requests are lost or refused and whether or
\* not the connection is closed under it: the window is refilled after every
\* acknowledgement and no result it waits for is missing.
WriteReturns == (status = "open") ~> (status # "open")

\* Every goroutine a Write started ends and gives its primary slot back, also
\* when the Write has failed and nobody reads the results channel any more.
JobsEnd == \A s \in Seqs : (jobState[s] # "none") ~> (jobState[s] = "over")
=============================================================================
