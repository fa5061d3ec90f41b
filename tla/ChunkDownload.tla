---------------------------- MODULE ChunkDownload ----------------------------
(***************************************************************************)
(* The download half of a chunk-relay session: Read of                     *)
(* mtProtoChunkRelayConn with requestWithRetry.  Read hands out the chunk  *)
(* in its buffer piece by piece; when the buffer is empty it polls the     *)
(* Worker, telling it with every poll the last chunk that was read to the  *)
(* end.  A poll may be lost, answered and the answer lost, or reach the    *)
(* Worker long after it was given up; the Worker keeps a chunk until a     *)
(* poll acknowledges it.  How long the Worker is asked to hold a poll      *)
(* (mtproto_chunk_relay_poll.go) is timing only and left out.              *)
(***************************************************************************)
EXTENDS Naturals

CONSTANTS
  MaxSeq,      \* bound on the chunks the Worker has to send
  Parts,       \* into how many pieces Read may cut a chunk
  MaxRetries   \* mtProtoChunkRelayMaxRetries

ASSUME DownloadAssumption ==
  /\ MaxSeq \in Nat
  /\ Parts \in Nat \ {0}
  /\ MaxRetries \in Nat

VARIABLES
  read,        \* the Read under way: "none", "loop", "request" or "backoff"
  attempt,     \* attempt in requestWithRetry
  ackSeq,      \* c.ackSeq
  pendingSeq,  \* c.pendingSeq
  left,        \* pieces of c.readBuf that were not read yet
  last,        \* the last piece Read has returned: its chunk and its place there
  closed,      \* c.closed
  cancelled,   \* c.lifeCtx is done
  polls,       \* the acks of all polls that were sent
  produced,    \* external: how many chunks the Worker has been given
  forgotten,   \* external: the last chunk the Worker knows to be acknowledged
  gone         \* external: the Worker has ended the session

connVars == <<ackSeq, pendingSeq, left, last>>
closeVars == <<closed, cancelled>>
workerVars == <<produced, forgotten, gone>>
vars == <<read, attempt, connVars, closeVars, polls, workerVars>>

Init ==
  /\ read = "none"
  /\ attempt = 0
  /\ ackSeq = 0
  /\ pendingSeq = 0
  /\ left = 0
  /\ last = <<0, Parts>>
  /\ closed = FALSE
  /\ cancelled = FALSE
  /\ polls = {}
  /\ produced = 0
  /\ forgotten = 0
  /\ gone = FALSE

-----------------------------------------------------------------------------
(* Read *)

StartRead ==
  /\ read = "none"
  /\ read' = "loop"
  /\ UNCHANGED <<attempt, connVars, closeVars, polls, workerVars>>

\* The buffer is drained before anything else, also after Close; the chunk is
\* acknowledged once its last piece was copied.  A Read with room for several
\* pieces is several of these.
ReturnPiece ==
  /\ read = "loop"
  /\ left > 0
  /\ last' = <<pendingSeq, Parts - left + 1>>
  /\ left' = left - 1
  /\ IF left = 1 /\ pendingSeq > 0
     THEN ackSeq' = pendingSeq /\ pendingSeq' = 0
     ELSE UNCHANGED <<ackSeq, pendingSeq>>
  /\ read' = "none"
  /\ UNCHANGED <<attempt, closeVars, polls, workerVars>>

ReturnClosed ==
  /\ read = "loop"
  /\ left = 0
  /\ closed
  /\ read' = "none"
  /\ UNCHANGED <<attempt, connVars, closeVars, polls, workerVars>>

PollUnchecked ==   \* mutant: the loop does not ask isClosed
  /\ read = "loop"
  /\ left = 0
  /\ polls' = polls \cup {ackSeq}
  /\ attempt' = 0
  /\ read' = "request"
  /\ UNCHANGED <<connVars, closeVars, workerVars>>

Poll ==
  /\ read = "loop"
  /\ left = 0
  /\ ~closed
  /\ polls' = polls \cup {ackSeq}
  /\ attempt' = 0
  /\ read' = "request"
  /\ UNCHANGED <<connVars, closeVars, workerVars>>

-----------------------------------------------------------------------------
(* The answers of a request *)

\* The Worker looks at the ack of a poll.
Acknowledge(ack) == forgotten' = IF ack > forgotten THEN ack ELSE forgotten

\* What it may answer: the next chunk, or again one it has not forgotten.
Sendable(ack) == {seq \in 1..produced : forgotten < seq /\ seq <= ack + 1}

PayloadAlways(seq) ==   \* mutant: a chunk that was read already is taken again
  /\ read = "request"
  /\ ~gone
  /\ seq \in Sendable(ackSeq)
  /\ Acknowledge(ackSeq)
  /\ pendingSeq' = seq
  /\ left' = Parts
  /\ read' = "loop"
  /\ UNCHANGED <<attempt, ackSeq, last, closeVars, polls, produced, gone>>

\* 200 with a chunk; one that was read already is dropped.
Payload(seq) ==
  /\ read = "request"
  /\ ~gone
  /\ seq \in Sendable(ackSeq)
  /\ Acknowledge(ackSeq)
  /\ IF seq <= ackSeq THEN UNCHANGED <<pendingSeq, left>>
     ELSE pendingSeq' = seq /\ left' = Parts
  /\ read' = "loop"
  /\ UNCHANGED <<attempt, ackSeq, last, closeVars, polls, produced, gone>>

\* 204: the Worker had nothing to send until its wait was over.
Empty ==
  /\ read = "request"
  /\ ~gone
  /\ Acknowledge(ackSeq)
  /\ read' = "loop"
  /\ UNCHANGED <<attempt, connVars, closeVars, polls, produced, gone>>

RejectedAcked ==   \* mutant: the chunk of a malformed answer is acknowledged
  /\ read = "request"
  /\ ackSeq' = IF ackSeq < produced THEN ackSeq + 1 ELSE ackSeq
  /\ read' = "none"
  /\ UNCHANGED <<attempt, pendingSeq, left, last, closeVars, polls, workerVars>>

\* 410, which Read reports as EOF; another 4xx, a circuit or a malformed answer.
Rejected ==
  /\ read = "request"
  /\ read' = "none"
  /\ UNCHANGED <<attempt, connVars, closeVars, polls, workerVars>>

\* 5xx, a network error, a timeout of the request or of its body, or lifeCtx.
RequestFails ==
  /\ read = "request"
  /\ read' = IF attempt < MaxRetries THEN "backoff" ELSE "none"
  /\ UNCHANGED <<attempt, connVars, closeVars, polls, workerVars>>

RetryAfterBackoff ==
  /\ read = "backoff"
  /\ attempt' = attempt + 1
  /\ polls' = polls \cup {ackSeq}
  /\ read' = "request"
  /\ UNCHANGED <<connVars, closeVars, workerVars>>

BackoffCancelled ==
  /\ read = "backoff"
  /\ cancelled
  /\ read' = "none"
  /\ UNCHANGED <<attempt, connVars, closeVars, polls, workerVars>>

-----------------------------------------------------------------------------
(* Close, and the Worker *)

CloseMarks ==
  /\ ~closed
  /\ closed' = TRUE
  /\ UNCHANGED <<read, attempt, connVars, cancelled, polls, workerVars>>

CloseCancels ==
  /\ closed /\ ~cancelled
  /\ cancelled' = TRUE
  /\ UNCHANGED <<read, attempt, connVars, closed, polls, workerVars>>

WorkerProduces ==
  /\ produced < MaxSeq
  /\ produced' = produced + 1
  /\ UNCHANGED <<read, attempt, connVars, closeVars, polls, forgotten, gone>>

\* A poll arrives whose answer nobody waits for any more, or is lost.
LatePoll(ack) ==
  /\ Acknowledge(ack)
  /\ UNCHANGED <<read, attempt, connVars, closeVars, polls, produced, gone>>

\* The close request, or the Worker's own limits.
WorkerEndsSession ==
  /\ ~gone
  /\ gone' = TRUE
  /\ UNCHANGED <<read, attempt, connVars, closeVars, polls, produced, forgotten>>

-----------------------------------------------------------------------------
ReadStep ==
  \/ ReturnPiece
  \/ ReturnClosed
  \/ Poll
  \/ \E seq \in 1..MaxSeq : Payload(seq)
  \/ Empty
  \/ Rejected
  \/ RequestFails
  \/ RetryAfterBackoff
  \/ BackoffCancelled

Next ==
  \/ StartRead
  \/ ReadStep
  \/ CloseMarks
  \/ CloseCancels
  \/ WorkerProduces
  \/ \E ack \in polls : LatePoll(ack)
  \/ WorkerEndsSession

Spec == Init /\ [][Next]_vars

(* Requests have deadlines and backoffs are timers, so a Read goes on;     *)
(* nothing obliges the Worker, the caller or Close to do anything.         *)
FairSpec == Spec /\ WF_vars(ReadStep)

-----------------------------------------------------------------------------
(* Properties *)

\* The type invariant of a download.
TypeOK ==
  /\ read \in {"none", "loop", "request", "backoff"}
  /\ attempt \in 0..MaxRetries
  /\ ackSeq \in Nat
  /\ pendingSeq \in Nat
  /\ left \in 0..Parts
  /\ last \in Nat \X (1..Parts)
  /\ closed \in BOOLEAN
  /\ cancelled \in BOOLEAN
  /\ polls \subseteq Nat
  /\ produced \in 0..MaxSeq
  /\ forgotten \in Nat
  /\ gone \in BOOLEAN

\* Seen from the caller and from the Worker a download is the reliable one,
\* however often polls are retried, answered late or answered with a chunk that
\* was read already, and across failed Reads: Read returns the Worker's stream
\* in order, without a gap or a repetition, and only what the Worker was given;
\* no acknowledgement lets go of a chunk that was not read in full.
Abstract == INSTANCE ReliableDownload WITH
  supplied <- produced, received <- last, released <- forgotten
ImplementsReliableDownload == Abstract!Spec

\* The Worker forgets a chunk only when the caller has all of it: what is in
\* the read buffer when a Read fails or the session ends is not acknowledged.
ForgottenIsDelivered ==
  forgotten > 0 => \/ forgotten < last[1]
                   \/ forgotten = last[1] /\ last[2] = Parts

\* Close ends a Read that is waiting, whatever the Worker does.
CloseEndsRead == closed ~> (read = "none")
=============================================================================
