------------------------- MODULE ChunkDownloadProofs -------------------------
(***************************************************************************)
(* Proofs about ChunkDownload for every number of chunks, pieces and       *)
(* retries.  Where a Read stands in the stream is determined by ackSeq and *)
(* the buffer (Position); the Worker never knows more than ackSeq          *)
(* (Acknowledged), and nothing is read that it was not given (Supplied).   *)
(* Every step is one of the reliable download or changes nothing it sees.  *)
(***************************************************************************)
EXTENDS ChunkDownload, TLAPS

\* The buffer holds the rest of the chunk after the acknowledged one, or nothing.
Position ==
  /\ left = 0 => pendingSeq = 0 /\ last = <<ackSeq, Parts>>
  /\ left > 0 => pendingSeq = ackSeq + 1
  /\ left = Parts => last = <<ackSeq, Parts>>
  /\ left > 0 /\ left < Parts => last = <<pendingSeq, Parts - left>>

\* A request is made with an empty buffer only.
Polling == read \in {"request", "backoff"} => left = 0

\* Retries stop at the limit.
Retrying == read = "backoff" => attempt < MaxRetries

\* What the Worker knows, or may come to know, to be acknowledged.
Acknowledged ==
  /\ forgotten <= ackSeq
  /\ \A ack \in polls : ack <= ackSeq

Inv == TypeOK /\ Position /\ Polling /\ Retrying /\ Acknowledged

LEMMA InitInv == Init => Inv
<1> SUFFICES ASSUME Init PROVE Inv
  OBVIOUS
<1>1. TypeOK
  <2>1. /\ left \in 0..Parts /\ last \in Nat \X (1..Parts) /\ attempt \in 0..MaxRetries
        /\ produced \in 0..MaxSeq
    BY DownloadAssumption DEF DownloadAssumption, Init
  <2>2. ackSeq \in Nat /\ pendingSeq \in Nat /\ forgotten \in Nat /\ polls \subseteq Nat
    BY DEF Init
  <2>3. closed \in BOOLEAN /\ cancelled \in BOOLEAN /\ gone \in BOOLEAN
    BY DEF Init
  <2> QED
    BY <2>1, <2>2, <2>3 DEF Init, TypeOK
<1>2. Position /\ Polling /\ Retrying /\ Acknowledged
  BY DownloadAssumption DEF Init, Position, Polling, Retrying, Acknowledged
<1> QED
  BY <1>1, <1>2 DEF Inv

\* ReturnPiece goes on where the last piece ended.
LEMMA ReturnPieceInOrder ==
  ASSUME Inv, ReturnPiece
  PROVE  Inv' /\ last' = Abstract!PieceAfter(last)
<1>1. left \in 1..Parts /\ Parts \in Nat \ {0} /\ ackSeq \in Nat
  BY DownloadAssumption DEF Inv, TypeOK, ReturnPiece
<1>2. pendingSeq = ackSeq + 1
  BY <1>1 DEF Inv, Position
<1>3. last' = Abstract!PieceAfter(last)
  <2>1. CASE left = Parts
    BY <1>1, <1>2, <2>1 DEF Inv, Position, ReturnPiece, Abstract!PieceAfter
  <2>2. CASE left < Parts
    BY <1>1, <1>2, <2>2 DEF Inv, Position, ReturnPiece, Abstract!PieceAfter
  <2> QED
    BY <1>1, <2>1, <2>2
<1>4. TypeOK'
  BY <1>1, <1>2 DEF Inv, TypeOK, ReturnPiece, closeVars, workerVars
<1>5. Position'
  <2>1. CASE left = 1
    BY <1>1, <1>2, <2>1 DEF ReturnPiece, Position
  <2>2. CASE left > 1
    BY <1>1, <1>2, <2>2 DEF ReturnPiece, Position
  <2> QED
    BY <1>1, <2>1, <2>2
<1>6. Polling' /\ Retrying'
  BY DEF ReturnPiece, Polling, Retrying
<1>7. Acknowledged'
  <2>1. ackSeq' >= ackSeq /\ ackSeq' \in Nat
    BY <1>1, <1>2 DEF ReturnPiece
  <2>2. forgotten' = forgotten /\ polls' = polls /\ forgotten \in Nat /\ polls \subseteq Nat
    BY DEF ReturnPiece, workerVars, Inv, TypeOK
  <2> QED
    BY <1>1, <2>1, <2>2 DEF Inv, Acknowledged
<1> QED
  BY <1>3, <1>4, <1>5, <1>6, <1>7 DEF Inv

\* A chunk that is taken is the one after the acknowledged one.
LEMMA PayloadKeepsInv ==
  ASSUME Inv, NEW seq \in 1..MaxSeq, Payload(seq)
  PROVE  Inv' /\ last' = last
<1>1. left = 0 /\ ackSeq \in Nat /\ forgotten \in Nat /\ Parts \in Nat \ {0} /\ MaxSeq \in Nat
  BY DownloadAssumption DEF Inv, TypeOK, Polling, Payload
<1>2. seq \in Nat /\ seq <= ackSeq + 1
  BY <1>1 DEF Payload, Sendable
<1>3. last = <<ackSeq, Parts>> /\ pendingSeq = 0
  BY <1>1 DEF Inv, Position
<1>4. TypeOK'
  BY <1>1, <1>2 DEF Inv, TypeOK, Payload, Acknowledge, closeVars
<1>5. Position' /\ Polling' /\ Retrying'
  <2>1. CASE seq <= ackSeq
    BY <1>1, <1>3, <2>1 DEF Payload, Position, Polling, Retrying
  <2>2. CASE seq = ackSeq + 1
    BY <1>1, <1>3, <2>2 DEF Payload, Position, Polling, Retrying
  <2> QED
    BY <1>1, <1>2, <2>1, <2>2
<1>6. Acknowledged'
  BY <1>1 DEF Inv, Acknowledged, Payload, Acknowledge
<1> QED
  BY <1>4, <1>5, <1>6 DEF Inv, Payload

\* No other step touches the buffer.
LEMMA OtherStepsKeepInv ==
  ASSUME Inv,
         \/ StartRead \/ ReturnClosed \/ Poll \/ Empty \/ Rejected \/ RequestFails
         \/ RetryAfterBackoff \/ BackoffCancelled \/ CloseMarks \/ CloseCancels
         \/ WorkerProduces \/ (\E ack \in polls : LatePoll(ack)) \/ WorkerEndsSession
         \/ UNCHANGED vars
  PROVE  Inv' /\ last' = last
<1>1. UNCHANGED connVars
  BY DEF StartRead, ReturnClosed, Poll, Empty, Rejected, RequestFails, RetryAfterBackoff,
         BackoffCancelled, CloseMarks, CloseCancels, WorkerProduces, LatePoll,
         WorkerEndsSession, vars
<1>2. ackSeq \in Nat /\ forgotten \in Nat /\ polls \subseteq Nat /\ forgotten <= ackSeq
  BY DEF Inv, TypeOK, Acknowledged
<1>3. /\ polls' \in {polls, polls \cup {ackSeq}}
      /\ forgotten' \in {forgotten, ackSeq} \cup polls
  BY DEF StartRead, ReturnClosed, Poll, Empty, Rejected, RequestFails, RetryAfterBackoff,
         BackoffCancelled, CloseMarks, CloseCancels, WorkerProduces, LatePoll,
         WorkerEndsSession, vars, workerVars, Acknowledge
<1>4. TypeOK'
  <2>1. /\ ackSeq' \in Nat /\ pendingSeq' \in Nat /\ left' \in 0..Parts
        /\ last' \in Nat \X (1..Parts)
    BY <1>1 DEF connVars, Inv, TypeOK
  <2>2. polls' \subseteq Nat /\ forgotten' \in Nat
    BY <1>2, <1>3
  <2>3. /\ read' \in {"none", "loop", "request", "backoff"}
        /\ attempt' \in 0..MaxRetries
    <3>1. CASE RetryAfterBackoff
      <4>1. attempt < MaxRetries
        BY <3>1 DEF Inv, Retrying, RetryAfterBackoff
      <4> QED
        BY <3>1, <4>1, DownloadAssumption DEF RetryAfterBackoff, Inv, TypeOK
    <3>2. CASE ~RetryAfterBackoff
      <4>1. attempt' \in {0, attempt}
        BY <3>2 DEF StartRead, ReturnClosed, Poll, Empty, Rejected, RequestFails,
                    BackoffCancelled, CloseMarks, CloseCancels, WorkerProduces, LatePoll,
                    WorkerEndsSession, vars
      <4>2. read' \in {"none", "loop", "request", "backoff"}
        BY <3>2 DEF Inv, TypeOK, StartRead, ReturnClosed, Poll, Empty, Rejected,
                    RequestFails, BackoffCancelled, CloseMarks, CloseCancels,
                    WorkerProduces, LatePoll, WorkerEndsSession, vars
      <4> QED
        BY <4>1, <4>2, DownloadAssumption DEF Inv, TypeOK
    <3> QED
      BY <3>1, <3>2
  <2>4. closed' \in BOOLEAN /\ cancelled' \in BOOLEAN
    BY DEF Inv, TypeOK, StartRead, ReturnClosed, Poll, Empty, Rejected, RequestFails,
           RetryAfterBackoff, BackoffCancelled, CloseMarks, CloseCancels, WorkerProduces,
           LatePoll, WorkerEndsSession, vars, closeVars
  <2>5. produced' \in 0..MaxSeq /\ gone' \in BOOLEAN
    <3>1. /\ produced' \in {produced, produced + 1}
          /\ produced' # produced => produced < MaxSeq
          /\ gone' \in {gone, TRUE}
      BY DEF StartRead, ReturnClosed, Poll, Empty, Rejected, RequestFails,
             RetryAfterBackoff, BackoffCancelled, CloseMarks, CloseCancels, WorkerProduces,
             LatePoll, WorkerEndsSession, vars, workerVars
    <3>2. produced' \in 0..MaxSeq
      BY <3>1, DownloadAssumption DEF DownloadAssumption, Inv, TypeOK
    <3>3. gone' \in BOOLEAN
      BY <3>1, Zenon DEF Inv, TypeOK
    <3> QED
      BY <3>2, <3>3
  <2> QED
    BY <2>1, <2>2, <2>3, <2>4, <2>5 DEF TypeOK
<1>5. Position'
  BY <1>1 DEF connVars, Inv, Position
<1>6. Polling'
  BY <1>1 DEF connVars, Inv, Polling, StartRead, ReturnClosed, Poll, Empty, Rejected,
              RequestFails, RetryAfterBackoff, BackoffCancelled, CloseMarks, CloseCancels,
              WorkerProduces, LatePoll, WorkerEndsSession, vars
<1>7. Retrying'
  BY DEF Inv, TypeOK, Retrying, StartRead, ReturnClosed, Poll, Empty, Rejected,
         RequestFails, RetryAfterBackoff, BackoffCancelled, CloseMarks, CloseCancels,
         WorkerProduces, LatePoll, WorkerEndsSession, vars
<1>8. Acknowledged'
  BY <1>1, <1>2, <1>3 DEF connVars, Inv, Acknowledged
<1> QED
  BY <1>1, <1>4, <1>5, <1>6, <1>7, <1>8 DEF connVars, Inv

LEMMA NextInv == Inv /\ [Next]_vars => Inv' /\ (last' = last \/ last' = Abstract!PieceAfter(last))
<1> SUFFICES ASSUME Inv, [Next]_vars
             PROVE  Inv' /\ (last' = last \/ last' = Abstract!PieceAfter(last))
  OBVIOUS
<1>1. CASE ReturnPiece
  BY <1>1, ReturnPieceInOrder
<1>2. CASE \E seq \in 1..MaxSeq : Payload(seq)
  BY <1>2, PayloadKeepsInv
<1> QED
  BY <1>1, <1>2, OtherStepsKeepInv DEF Next, ReadStep

LEMMA SpecInv == Spec => []Inv
<1>1. Inv /\ [Next]_vars => Inv'
  BY NextInv
<1> QED
  BY InitInv, <1>1, PTL DEF Spec

\* A download stays well typed: in particular attempts are counted up to the
\* limit of requestWithRetry.
THEOREM DownloadTypeCorrect == Spec => []TypeOK
<1>1. Inv => TypeOK
  BY DEF Inv
<1> QED
  BY SpecInv, <1>1, PTL

\* What the caller sees of the refinement below, as one action property.
DeliveredInOrder == [][last' = Abstract!PieceAfter(last)]_last

\* Read delivers the Worker's stream in order, gapless and once.
THEOREM InOrderTheorem == Spec => DeliveredInOrder
<1>1. Inv /\ [Next]_vars => [last' = Abstract!PieceAfter(last)]_last
  BY NextInv
<1> QED
  BY SpecInv, <1>1, PTL DEF Spec, DeliveredInOrder

\* The Worker forgets only what the caller has in full.
THEOREM ForgottenTheorem == Spec => []ForgottenIsDelivered
<1>1. Inv => ForgottenIsDelivered
  <2> SUFFICES ASSUME Inv, forgotten > 0 PROVE ForgottenIsDelivered
    BY DEF ForgottenIsDelivered
  <2>1. /\ ackSeq \in Nat /\ forgotten \in Nat /\ forgotten <= ackSeq
        /\ Parts \in Nat \ {0} /\ left \in 0..Parts
    BY DownloadAssumption DEF Inv, TypeOK, Acknowledged
  <2>2. CASE left = 0 \/ left = Parts
    BY <2>1, <2>2 DEF Inv, Position, ForgottenIsDelivered
  <2>3. CASE left > 0 /\ left < Parts
    BY <2>1, <2>3 DEF Inv, Position, ForgottenIsDelivered
  <2> QED
    BY <2>1, <2>2, <2>3
<1> QED
  BY SpecInv, <1>1, PTL

-----------------------------------------------------------------------------
(* The reliable download *)

\* What was read, and what is in the buffer, the Worker was given.
Supplied ==
  /\ ackSeq <= produced
  /\ left > 0 => pendingSeq <= produced

LEMMA InitSupplied == Init => Supplied
BY DEF Init, Supplied

LEMMA NextSupplied == Inv /\ Supplied /\ [Next]_vars => Supplied'
<1> SUFFICES ASSUME Inv, Supplied, [Next]_vars PROVE Supplied'
  OBVIOUS
<1>1. /\ ackSeq \in Nat /\ pendingSeq \in Nat /\ produced \in Nat /\ left \in 0..Parts
      /\ Parts \in Nat /\ MaxSeq \in Nat
  BY DownloadAssumption DEF DownloadAssumption, Inv, TypeOK
<1>2. CASE ReturnPiece
  BY <1>1, <1>2 DEF Supplied, ReturnPiece, workerVars
<1>3. CASE \E seq \in 1..MaxSeq : Payload(seq)
  <2>1. PICK seq \in 1..MaxSeq : Payload(seq)
    BY <1>3
  <2>2. seq \in 1..produced
    BY <2>1 DEF Payload, Sendable
  <2> QED
    BY <1>1, <2>1, <2>2 DEF Supplied, Payload
<1>4. CASE ~ReturnPiece /\ ~(\E seq \in 1..MaxSeq : Payload(seq))
  <2>1. UNCHANGED connVars
    BY <1>4 DEF Next, ReadStep, StartRead, ReturnClosed, Poll, Empty, Rejected,
                RequestFails, RetryAfterBackoff, BackoffCancelled, CloseMarks,
                CloseCancels, WorkerProduces, LatePoll, WorkerEndsSession, vars
  <2>2. produced' \in {produced, produced + 1}
    BY <1>4 DEF Next, ReadStep, StartRead, ReturnClosed, Poll, Empty, Rejected,
                RequestFails, RetryAfterBackoff, BackoffCancelled, CloseMarks,
                CloseCancels, WorkerProduces, LatePoll, WorkerEndsSession, vars,
                workerVars
  <2> QED
    BY <1>1, <2>1, <2>2 DEF Supplied, connVars
<1> QED
  BY <1>2, <1>3, <1>4

\* What a poll may acknowledge, the caller has: the Worker that sees the poll
\* releases chunks or does nothing.
LEMMA AcknowledgeReleases ==
  ASSUME Inv, Supplied, NEW ack \in polls \cup {ackSeq}, Acknowledge(ack),
         UNCHANGED <<produced, last>>
  PROVE  [Abstract!Next]_Abstract!vars
<1>1. /\ ack \in Nat /\ ack <= ackSeq /\ ackSeq \in Nat /\ forgotten \in Nat
      /\ produced \in Nat /\ Parts \in Nat \ {0} /\ left \in 0..Parts
  BY DownloadAssumption DEF DownloadAssumption, Inv, TypeOK, Acknowledged
<1>2. CASE ack > forgotten
  <2>1. ack \in 1..produced
    BY <1>1, <1>2 DEF Supplied
  <2>2. \/ ack < last[1]
        \/ ack = last[1] /\ last[2] = Parts
    <3>1. CASE left = 0 \/ left = Parts
      BY <1>1, <3>1 DEF Inv, Position
    <3>2. CASE left > 0 /\ left < Parts
      BY <1>1, <3>2 DEF Inv, Position
    <3> QED
      BY <1>1, <3>1, <3>2
  <2>3. ack \in Abstract!Complete
    BY <2>1, <2>2 DEF Abstract!Complete
  <2>4. Abstract!Release
    BY <1>2, <2>3 DEF Abstract!Release, Acknowledge
  <2> QED
    BY <2>4 DEF Abstract!Next
<1>3. CASE ~(ack > forgotten)
  BY <1>3 DEF Acknowledge, Abstract!vars
<1> QED
  BY <1>2, <1>3

\* The piece that Read copies is the next one of the stream, of a chunk the
\* Worker was given and has not released.
LEMMA ReturnPieceReceives ==
  ASSUME Inv, Supplied, ReturnPiece
  PROVE  Abstract!Receive
<1>1. /\ left \in 1..Parts /\ Parts \in Nat \ {0} /\ ackSeq \in Nat /\ forgotten \in Nat
      /\ produced \in Nat /\ forgotten <= ackSeq
  BY DownloadAssumption DEF Inv, TypeOK, Acknowledged, ReturnPiece
<1>2. pendingSeq = ackSeq + 1 /\ pendingSeq <= produced
  BY <1>1 DEF Inv, Position, Supplied
<1>3. last' = Abstract!PieceAfter(last)
  BY ReturnPieceInOrder
<1>4. last'[1] = pendingSeq
  BY DEF ReturnPiece
<1>5. Abstract!PieceAfter(last)[1] \in (forgotten + 1)..produced
  BY <1>1, <1>2, <1>3, <1>4
<1>6. UNCHANGED <<produced, forgotten>>
  BY DEF ReturnPiece, workerVars
<1> QED
  BY <1>3, <1>5, <1>6 DEF Abstract!Receive

LEMMA NextRefines ==
  ASSUME Inv, Supplied, [Next]_vars
  PROVE  [Abstract!Next]_Abstract!vars
<1>1. CASE ReturnPiece
  BY <1>1, ReturnPieceReceives DEF Abstract!Next
<1>2. CASE \E seq \in 1..MaxSeq : Payload(seq)
  BY <1>2, AcknowledgeReleases DEF Payload
<1>3. CASE Empty
  BY <1>3, AcknowledgeReleases DEF Empty, connVars
<1>4. CASE \E ack \in polls : LatePoll(ack)
  BY <1>4, AcknowledgeReleases DEF LatePoll, connVars
<1>5. CASE WorkerProduces
  BY <1>5 DEF WorkerProduces, connVars, Abstract!Next, Abstract!Supply
<1>6. CASE \/ StartRead \/ ReturnClosed \/ Poll \/ Rejected \/ RequestFails
           \/ RetryAfterBackoff \/ BackoffCancelled \/ CloseMarks \/ CloseCancels
           \/ WorkerEndsSession \/ UNCHANGED vars
  BY <1>6 DEF StartRead, ReturnClosed, Poll, Rejected, RequestFails, RetryAfterBackoff,
              BackoffCancelled, CloseMarks, CloseCancels, WorkerEndsSession, vars,
              connVars, workerVars, Abstract!vars
<1> QED
  BY <1>1, <1>2, <1>3, <1>4, <1>5, <1>6 DEF Next, ReadStep

\* The polled, retried and buffered download implements the reliable one: the
\* caller receives the Worker's stream in order and once, and the Worker
\* releases nothing that Read has not handed out in full.
THEOREM DownloadRefines == Spec => ImplementsReliableDownload
<1>1. Init => Abstract!Init
  BY DEF Init, Abstract!Init
<1>2. Spec => []Supplied
  BY SpecInv, InitSupplied, NextSupplied, PTL DEF Spec
<1> QED
  BY SpecInv, <1>1, <1>2, NextRefines, PTL DEF Spec, ImplementsReliableDownload, Abstract!Spec
=============================================================================
