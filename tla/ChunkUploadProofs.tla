-------------------------- MODULE ChunkUploadProofs --------------------------
(***************************************************************************)
(* Machine-checked safety of ChunkUpload, for every window, number of      *)
(* slots, number of retries and length of the session.                     *)
(*                                                                         *)
(* ConfirmedReceived is not inductive: that a committed seq has reached    *)
(* the Worker follows from what an acknowledgement in the results channel, *)
(* in `completed' and in the head tracker stands for, and that the Worker  *)
(* has the right chunk from how a Write numbers its specs, which needs the *)
(* place of the current Write in the stream.  Inv states all of it.        *)
(***************************************************************************)
EXTENDS ChunkUpload, TLAPS

(* Where the current Write stands in the stream. *)
WriteInv ==
  /\ base <= upSeq
  /\ upSeq <= base + count
  /\ base + count <= MaxSeq
  /\ launched <= count
  /\ status = "idle" => base + count = upSeq /\ offered = upSeq
  /\ status # "idle" => offered = base
  /\ status = "open" => upSeq < base + count

(* A job past its backoff has an attempt left; requests carry chunk s as seq s. *)
JobInv ==
  /\ \A s \in Seqs : jobState[s] = "backoff" => attempt[s] < MaxRetries
  /\ \A s \in Seqs : jobState[s] # "none" => s <= base + count
  /\ \A s \in Seqs : s <= base + count => body[s] = s
  /\ \A s \in onWire : s <= base + count
  /\ \A s \in Seqs : received[s] # NoChunk => s <= base + count
  /\ \A s \in Seqs : jobState[s] = "none" => live[s] = {}

(* Every form an acknowledgement takes stands for a chunk the Worker has. *)
AckInv ==
  /\ \A s \in acked : received[s] = s
  /\ \A s \in completed : received[s] = s
  /\ \A i \in 1..Len(results) :
       results[i].verdict = "ack" => received[results[i].seq] = results[i].seq

Inv == /\ TypeOK
       /\ WriteInv
       /\ JobInv
       /\ AckInv
       /\ StreamIntact
       /\ ConfirmedReceived
       /\ HedgeOnlyOldest

-----------------------------------------------------------------------------
\* The initial state satisfies the invariant.
LEMMA InitInv == Init => Inv
<1> SUFFICES ASSUME Init PROVE Inv
  OBVIOUS
<1> USE ConstantsAssumption DEF Init, ConstantsAssumption
<1>1. TypeOK
  <2>1. results \in Seq([seq : Seqs, verdict : Verdicts])
    OBVIOUS
  <2>2. /\ jobState \in [Seqs -> JobStates]
        /\ live \in [Seqs -> SUBSET Legs]
        /\ attempt \in [Seqs -> 0..MaxRetries]
        /\ hedged \in [Seqs -> BOOLEAN]
        /\ body \in [Seqs -> 0..MaxSeq]
        /\ received \in [Seqs -> 0..MaxSeq]
    BY DEF JobStates, NoChunk
  <2>3. /\ {upSeq, offered, base, count, launched} \subseteq 0..MaxSeq
        /\ completed \subseteq Seqs /\ acked \subseteq Seqs /\ onWire \subseteq Seqs
    OBVIOUS
  <2>4. QED
    BY <2>1, <2>2, <2>3 DEF TypeOK
<1>2. WriteInv /\ JobInv /\ AckInv
  BY DEF WriteInv, JobInv, AckInv, Seqs
<1>3. StreamIntact /\ ConfirmedReceived /\ HedgeOnlyOldest
  BY DEF StreamIntact, ConfirmedReceived, HedgeOnlyOldest, Seqs, NoChunk
<1>4. QED
  BY <1>1, <1>2, <1>3 DEF Inv

-----------------------------------------------------------------------------
(* Lemmas on the steps that several actions share *)

\* A goroutine that ends leaves one more result of its seq in the channel, and
\* an acknowledgement there only for a chunk the Worker has.
LEMMA FinishLemma ==
  ASSUME Inv, NEW s \in Seqs, NEW v \in Verdicts, Finish(s, v),
         v = "ack" => received[s] = s, jobState[s] # "none",
         UNCHANGED <<received, base>>
  PROVE  /\ results' \in Seq([seq : Seqs, verdict : Verdicts])
         /\ jobState' \in [Seqs -> JobStates]
         /\ live' \in [Seqs -> SUBSET Legs]
         /\ \A r \in Seqs : jobState'[r] = "backoff" => jobState[r] = "backoff"
         /\ \A r \in Seqs : jobState'[r] # "none" <=> jobState[r] # "none"
         /\ \A r \in Seqs : live'[r] # {} => live'[r] = live[r]
         /\ \A i \in 1..Len(results') :
              results'[i].verdict = "ack" =>
                received'[results'[i].seq] = results'[i].seq
<1> DEFINE m == [seq |-> s, verdict |-> v]
           Msg == [seq : Seqs, verdict : Verdicts]
<1>1. /\ results \in Seq(Msg)
      /\ m \in Msg
      /\ results' = Append(results, m)
  BY DEF Inv, TypeOK, Finish
<1>2. /\ results' \in Seq(Msg)
      /\ Len(results') = Len(results) + 1
      /\ results'[Len(results) + 1] = m
      /\ \A i \in 1..Len(results) : results'[i] = results[i]
  BY <1>1
<1>3. ASSUME NEW i \in 1..Len(results'), results'[i].verdict = "ack"
      PROVE  received'[results'[i].seq] = results'[i].seq
  <2>1. Len(results) \in Nat
    BY <1>1
  <2>2. CASE i = Len(results) + 1
    BY <1>2, <1>3, <2>2
  <2>3. CASE i # Len(results) + 1
    <3>1. i \in 1..Len(results)
      BY <1>2, <2>1, <2>3
    <3>2. QED
      BY <1>2, <1>3, <3>1 DEF Inv, AckInv
  <2>4. QED
    BY <2>2, <2>3
<1>4. /\ jobState' \in [Seqs -> JobStates]
      /\ live' \in [Seqs -> SUBSET Legs]
      /\ \A r \in Seqs : jobState'[r] = "backoff" => jobState[r] = "backoff"
      /\ \A r \in Seqs : jobState'[r] # "none" <=> jobState[r] # "none"
      /\ \A r \in Seqs : live'[r] # {} => live'[r] = live[r]
  BY DEF Inv, TypeOK, Finish, JobStates
<1>5. QED
  BY <1>2, <1>3, <1>4

\* Taking a result from the channel leaves the others in their order.
LEMMA TakeLemma ==
  ASSUME Inv, results # << >>, results' = Tail(results)
  PROVE  /\ results[1] = Head(results)
         /\ Head(results) \in [seq : Seqs, verdict : Verdicts]
         /\ 1 \in 1..Len(results)
         /\ results' \in Seq([seq : Seqs, verdict : Verdicts])
         /\ \A i \in 1..Len(results') :
              i + 1 \in 1..Len(results) /\ results'[i] = results[i + 1]
<1> DEFINE Msg == [seq : Seqs, verdict : Verdicts]
<1>1. results \in Seq(Msg)
  BY DEF Inv, TypeOK
<1> HIDE DEF Msg
<1>2. /\ results[1] = Head(results)
      /\ Head(results) \in Msg
      /\ 1 \in 1..Len(results)
  BY <1>1
<1>3. /\ results' \in Seq(Msg)
      /\ \A i \in 1..Len(results') :
           i + 1 \in 1..Len(results) /\ results'[i] = results[i + 1]
  BY <1>1
<1>4. QED
  BY <1>2, <1>3 DEF Msg

\* The head of the window: every earlier chunk of the Write is with the Worker.
LEMMA HeadLemma ==
  ASSUME Inv, NEW s \in Seqs, IsHead(s)
  PROVE  \A r \in (base + 1)..(s - 1) : received[r] = r
BY DEF Inv, AckInv, IsHead

-----------------------------------------------------------------------------
(* One lemma per action or group of actions that change the same state *)

\* A new round, the first or a retry: nothing is confirmed by it.
LEMMA LaunchRoundInv ==
  ASSUME Inv, NEW s \in Seqs, NEW k \in 0..MaxRetries, LaunchRound(s, k),
         jobState[s] # "none",
         UNCHANGED <<writeVars, results, acked, body, received, closed>>
  PROVE  Inv'
<1> USE DEF LaunchRound, writeVars
<1>1. TypeOK'
  <2>1. /\ jobState' \in [Seqs -> JobStates]
        /\ attempt' \in [Seqs -> 0..MaxRetries]
        /\ live' \in [Seqs -> SUBSET Legs]
        /\ hedged' \in [Seqs -> BOOLEAN]
        /\ onWire' \subseteq Seqs
    BY DEF Inv, TypeOK, JobStates, Legs
  <2>2. QED
    BY <2>1 DEF Inv, TypeOK
<1>2. WriteInv' /\ AckInv' /\ StreamIntact' /\ ConfirmedReceived'
  BY DEF Inv, WriteInv, AckInv, StreamIntact, ConfirmedReceived
<1>3. JobInv'
  BY DEF Inv, TypeOK, JobInv
<1>4. HedgeOnlyOldest'
  BY DEF Inv, TypeOK, HedgeOnlyOldest
<1>5. QED
  BY <1>1, <1>2, <1>3, <1>4 DEF Inv

\* A goroutine ends, with or without an acknowledgement.
LEMMA FinishInv ==
  ASSUME Inv, NEW s \in Seqs, NEW v \in Verdicts, Finish(s, v),
         v = "ack" => received[s] = s, jobState[s] # "none",
         acked' \subseteq Seqs, \A r \in acked' : received[r] = r,
         UNCHANGED <<writeVars, attempt, hedged, body, onWire, received, closed>>
  PROVE  Inv'
<1> USE DEF writeVars
<1>1. /\ results' \in Seq([seq : Seqs, verdict : Verdicts])
      /\ jobState' \in [Seqs -> JobStates]
      /\ live' \in [Seqs -> SUBSET Legs]
      /\ \A r \in Seqs : jobState'[r] = "backoff" => jobState[r] = "backoff"
      /\ \A r \in Seqs : jobState'[r] # "none" <=> jobState[r] # "none"
      /\ \A r \in Seqs : live'[r] # {} => live'[r] = live[r]
      /\ \A i \in 1..Len(results') :
           results'[i].verdict = "ack" =>
             received'[results'[i].seq] = results'[i].seq
  BY FinishLemma
<1>2. TypeOK'
  BY <1>1 DEF Inv, TypeOK
<1>3. WriteInv' /\ StreamIntact' /\ ConfirmedReceived'
  BY DEF Inv, WriteInv, StreamIntact, ConfirmedReceived
<1>4. JobInv'
  BY <1>1 DEF Inv, JobInv
<1>5. AckInv'
  BY <1>1 DEF Inv, AckInv
<1>6. HedgeOnlyOldest'
  BY <1>1 DEF Inv, HedgeOnlyOldest
<1>7. QED
  BY <1>2, <1>3, <1>4, <1>5, <1>6 DEF Inv

\* A hedge is launched for the head only.
LEMMA LaunchHedgeInv ==
  ASSUME Inv, NEW s \in Seqs, NEW still \in SUBSET Legs, LaunchHedge(s, still),
         IsHead(s), jobState[s] = "round",
         UNCHANGED <<writeVars, acked, body, received, closed>>
  PROVE  Inv'
<1> USE DEF LaunchHedge, writeVars
<1>1. TypeOK'
  <2>1. /\ live' \in [Seqs -> SUBSET Legs]
        /\ hedged' \in [Seqs -> BOOLEAN]
        /\ onWire' \subseteq Seqs
    BY DEF Inv, TypeOK, Legs
  <2>2. QED
    BY <2>1 DEF Inv, TypeOK
<1>2. WriteInv' /\ AckInv' /\ StreamIntact' /\ ConfirmedReceived'
  BY DEF Inv, WriteInv, AckInv, StreamIntact, ConfirmedReceived
<1>3. JobInv'
  BY DEF Inv, TypeOK, JobInv
<1>4. HedgeOnlyOldest'
  BY HeadLemma DEF Inv, TypeOK, HedgeOnlyOldest
<1>5. QED
  BY <1>1, <1>2, <1>3, <1>4 DEF Inv

\* A leg fails: the round is hedged, waits for its other leg, or ends.
LEMMA LegFailedInv ==
  ASSUME Inv, NEW s \in Seqs, NEW leg \in Legs, LegFailed(s, leg)
  PROVE  Inv'
<1> USE DEF LegFailed
<1>1. CASE ~hedged[s] /\ IsHead(s) /\ LaunchHedge(s, {})
  BY <1>1, LaunchHedgeInv
<1>2. CASE /\ EndRound(s)
           /\ UNCHANGED <<attempt, hedged, onWire>>
  <2>1. CASE Finish(s, "error")
    <3>1. "error" \in Verdicts
      BY DEF Verdicts
    <3>2. /\ acked' \subseteq Seqs
          /\ \A r \in acked' : received[r] = r
      BY DEF Inv, TypeOK, AckInv
    <3>3. QED
      BY <1>2, <2>1, <3>1, <3>2, FinishInv
  <2>2. CASE /\ attempt[s] < MaxRetries
             /\ jobState' = [jobState EXCEPT ![s] = "backoff"]
             /\ live' = [live EXCEPT ![s] = {}]
             /\ UNCHANGED results
    <3> USE <1>2, <2>2 DEF writeVars
    <3>1. TypeOK'
      <4>1. /\ jobState' \in [Seqs -> JobStates]
            /\ live' \in [Seqs -> SUBSET Legs]
        BY DEF Inv, TypeOK, JobStates
      <4>2. QED
        BY <4>1 DEF Inv, TypeOK
    <3>2. WriteInv' /\ AckInv' /\ StreamIntact' /\ ConfirmedReceived'
      BY DEF Inv, WriteInv, AckInv, StreamIntact, ConfirmedReceived
    <3>3. JobInv'
      BY DEF Inv, TypeOK, JobInv
    <3>4. HedgeOnlyOldest'
      BY DEF Inv, TypeOK, HedgeOnlyOldest
    <3>5. QED
      BY <3>1, <3>2, <3>3, <3>4 DEF Inv
  <2>3. QED
    BY <1>2, <2>1, <2>2 DEF EndRound
<1>3. CASE /\ hedged[s]
           /\ live[s] # {leg}
           /\ live' = [live EXCEPT ![s] = @ \ {leg}]
           /\ UNCHANGED <<results, jobState, attempt, hedged, onWire>>
  <2> USE <1>3 DEF writeVars
  <2>1. TypeOK'
    <3>1. live' \in [Seqs -> SUBSET Legs]
      BY DEF Inv, TypeOK
    <3>2. QED
      BY <3>1 DEF Inv, TypeOK
  <2>2. WriteInv' /\ JobInv' /\ AckInv' /\ StreamIntact' /\ ConfirmedReceived'
    BY DEF Inv, WriteInv, JobInv, AckInv, StreamIntact, ConfirmedReceived
  <2>3. HedgeOnlyOldest'
    <3>1. live[s] # {}
      OBVIOUS
    <3>2. \A r \in Seqs : hedged'[r] /\ live'[r] # {} => hedged[r] /\ live[r] # {}
      BY <3>1 DEF Inv, TypeOK
    <3>3. QED
      BY <3>2 DEF Inv, HedgeOnlyOldest
  <2>4. QED
    BY <2>1, <2>2, <2>3 DEF Inv
<1>4. QED
  BY <1>1, <1>2, <1>3

\* A Write numbers its chunks from upSeq + 1: with the former Write complete,
\* seq s is chunk s again.
LEMMA StartWriteInv ==
  ASSUME Inv, NEW k \in Seqs, StartWrite(k)
  PROVE  Inv'
<1> USE DEF StartWrite
<1>1. /\ upSeq \in Nat /\ k \in Nat /\ MaxSeq \in Nat /\ Window \in Nat
      /\ upSeq + k <= MaxSeq
      /\ base + count = upSeq /\ offered = upSeq
  BY ConstantsAssumption DEF ConstantsAssumption, Inv, TypeOK, WriteInv, Seqs
<1>2. launched' \in 0..k
  BY <1>1, ConstantsAssumption DEF ConstantsAssumption
<1>3. \A s \in Seqs : body'[s] = IF s \in (upSeq + 1)..(upSeq + k) THEN s ELSE body[s]
  BY <1>1 DEF ChunkOf, Seqs
<1>4. TypeOK'
  <2>1. jobState' \in [Seqs -> JobStates]
    BY DEF Inv, TypeOK, JobStates
  <2>2. body' \in [Seqs -> 0..MaxSeq]
    BY <1>3 DEF Inv, TypeOK, Seqs
  <2>3. /\ base' \in 0..MaxSeq /\ count' \in 0..MaxSeq /\ launched' \in 0..MaxSeq
        /\ results' \in Seq([seq : Seqs, verdict : Verdicts])
    BY <1>1, <1>2 DEF Inv, TypeOK
  <2>4. QED
    BY <2>1, <2>2, <2>3 DEF Inv, TypeOK
<1>5. WriteInv'
  BY <1>1, <1>2 DEF WriteInv
<1>6. JobInv'
  <2>1. ASSUME NEW s \in Seqs, jobState'[s] = "backoff"
        PROVE  attempt'[s] < MaxRetries
    BY <2>1 DEF Inv, TypeOK, JobInv
  <2>2. ASSUME NEW s \in Seqs, jobState'[s] # "none"
        PROVE  s <= base' + count'
    <3>1. CASE s \in (upSeq + 1)..(upSeq + k)
      BY <1>1, <3>1
    <3>2. CASE s \notin (upSeq + 1)..(upSeq + k)
      <4>1. jobState'[s] = jobState[s]
        BY <1>1, <1>2, <3>2 DEF Inv, TypeOK
      <4>2. QED
        BY <1>1, <2>2, <4>1 DEF Inv, JobInv, Seqs
    <3>3. QED
      BY <3>1, <3>2
  <2>3. ASSUME NEW s \in Seqs, s <= base' + count'
        PROVE  body'[s] = s
    <3>1. CASE s \in (upSeq + 1)..(upSeq + k)
      BY <1>3, <3>1
    <3>2. CASE s \notin (upSeq + 1)..(upSeq + k)
      <4>1. s <= base + count
        BY <1>1, <2>3, <3>2 DEF Seqs
      <4>2. body[s] = s
        BY <4>1 DEF Inv, JobInv
      <4>3. QED
        BY <1>3, <3>2, <4>2
    <3>3. QED
      BY <3>1, <3>2
  <2>4. \A s \in onWire' : s <= base' + count'
    BY <1>1 DEF Inv, TypeOK, JobInv, Seqs
  <2>5. \A s \in Seqs : jobState'[s] = "none" => live'[s] = {}
    BY DEF Inv, TypeOK, JobInv
  <2>6. \A s \in Seqs : received'[s] # NoChunk => s <= base' + count'
    BY <1>1 DEF Inv, JobInv, Seqs
  <2>7. QED
    BY <2>1, <2>2, <2>3, <2>4, <2>5, <2>6 DEF JobInv
<1>7. AckInv'
  BY DEF AckInv
<1>8. StreamIntact' /\ ConfirmedReceived'
  BY DEF Inv, StreamIntact, ConfirmedReceived
<1>9. HedgeOnlyOldest'
  \* A job of a former Write: no seq lies between the new base and it.
  <2>1. ASSUME NEW s \in Seqs, hedged[s], live[s] # {},
               NEW r \in (base' + 1)..(s - 1)
        PROVE  received[r] = r
    <3>1. jobState[s] # "none" => s <= upSeq
      BY <1>1 DEF Inv, JobInv
    <3>2. base' = upSeq /\ s \in Nat
      BY DEF Seqs
    <3>3. s > upSeq
      BY <1>1, <2>1, <3>2
    <3>4. jobState[s] = "none"
      BY <1>1, <3>1, <3>2, <3>3
    <3>5. QED
      BY <2>1, <3>4 DEF Inv, JobInv
  <2>2. QED
    BY <2>1 DEF HedgeOnlyOldest
<1>10. QED
  BY <1>4, <1>5, <1>6, <1>7, <1>8, <1>9 DEF Inv

\* The main loop takes an acknowledgement and commits what is contiguous.
LEMMA ReceiveAckInv ==
  ASSUME Inv, ReceiveAck
  PROVE  Inv'
<1> USE DEF ReceiveAck
<1> DEFINE m == Head(results)
           c == completed \cup {m.seq}
<1>1. PICK u \in upSeq..(base + count) :
         /\ CommitsUpTo(c, u)
         /\ upSeq' = u
         /\ completed' = c \ ((upSeq + 1)..u)
         /\ status' = IF u = base + count THEN "idle" ELSE "open"
         /\ offered' = IF u = base + count THEN offered + count ELSE offered
  OBVIOUS
<1>2. /\ m \in [seq : Seqs, verdict : Verdicts]
      /\ m = results[1]
      /\ 1 \in 1..Len(results)
      /\ results' \in Seq([seq : Seqs, verdict : Verdicts])
      /\ \A i \in 1..Len(results') : i + 1 \in 1..Len(results) /\ results'[i] = results[i + 1]
  BY TakeLemma
<1>3. \A s \in c : s \in Seqs /\ received[s] = s
  BY <1>2 DEF Inv, TypeOK, AckInv
<1>4. /\ {upSeq, base, count, launched, offered} \subseteq Nat
      /\ base <= upSeq /\ base + count <= MaxSeq /\ launched <= count
      /\ offered = base /\ MaxSeq \in Nat /\ u \in Nat
  BY ConstantsAssumption, <1>1 DEF ConstantsAssumption, Inv, TypeOK, WriteInv
<1>5. TypeOK'
  <2>1. /\ launched' \in 0..MaxSeq
        /\ jobState' \in [Seqs -> JobStates]
    <3>1. CASE launched < count
      <4>1. launched' = launched + 1 /\ launched' <= MaxSeq
        BY <1>4, <3>1 DEF Refill
      <4>2. jobState' = [jobState EXCEPT ![base + launched + 1] = "slot"]
        BY <3>1 DEF Refill
      <4>3. jobState' \in [Seqs -> JobStates]
        BY <4>2 DEF Inv, TypeOK, JobStates
      <4>4. QED
        BY <1>4, <4>1, <4>3
    <3>2. CASE ~(launched < count)
      BY <3>2 DEF Refill, Inv, TypeOK
    <3>3. QED
      BY <3>1, <3>2
  <2>2. upSeq' \in 0..MaxSeq /\ offered' \in 0..MaxSeq
    BY <1>1, <1>4
  <2>3. completed' \subseteq Seqs
    BY <1>1, <1>3
  <2>4. status' \in {"idle", "open", "failed"}
    BY <1>1
  <2>5. QED
    BY <1>2, <2>1, <2>2, <2>3, <2>4 DEF Inv, TypeOK
<1>6. WriteInv'
  BY <1>1, <1>4 DEF WriteInv, Refill
<1>7. JobInv'
  <2>1. /\ \A s \in Seqs : jobState'[s] = "backoff" => jobState[s] = "backoff"
        /\ \A s \in Seqs : jobState'[s] # "none" =>
              jobState[s] # "none" \/ s <= base + count
        /\ \A s \in Seqs : jobState'[s] = "none" => jobState[s] = "none"
    <3>1. CASE launched < count
      <4>1. base + launched + 1 <= base + count
        BY <1>4, <3>1
      <4>2. jobState' = [jobState EXCEPT ![base + launched + 1] = "slot"]
        BY <3>1 DEF Refill
      <4>3. QED
        BY <4>1, <4>2 DEF Inv, TypeOK
    <3>2. CASE ~(launched < count)
      BY <3>2 DEF Refill
    <3>3. QED
      BY <3>1, <3>2
  <2>2. QED
    BY <2>1 DEF Inv, JobInv
<1>8. AckInv'
  <2>1. \A i \in 1..Len(results') :
          results'[i].verdict = "ack" => received[results'[i].seq] = results'[i].seq
    BY <1>2 DEF Inv, AckInv
  <2>2. QED
    BY <1>1, <1>3, <2>1 DEF Inv, AckInv
<1>9. StreamIntact' /\ HedgeOnlyOldest'
  BY DEF Inv, StreamIntact, HedgeOnlyOldest
<1>10. ConfirmedReceived'
  <2>1. ASSUME NEW s \in 1..u PROVE received[s] = s
    <3>1. CASE s \in 1..upSeq
      BY <3>1 DEF Inv, ConfirmedReceived
    <3>2. CASE s \in (upSeq + 1)..u
      BY <1>1, <1>3, <3>2 DEF CommitsUpTo
    <3>3. QED
      BY <1>4, <3>1, <3>2
  <2>2. QED
    BY <1>1, <2>1 DEF ConfirmedReceived
<1>11. QED
  BY <1>5, <1>6, <1>7, <1>8, <1>9, <1>10 DEF Inv

\* The main loop gives up: what was committed stays as it is.
LEMMA ReceiveFailureInv ==
  ASSUME Inv, ReceiveFailure
  PROVE  Inv'
<1> USE DEF ReceiveFailure, jobVars
<1>1. /\ results' \in Seq([seq : Seqs, verdict : Verdicts])
      /\ \A i \in 1..Len(results') : i + 1 \in 1..Len(results) /\ results'[i] = results[i + 1]
  BY TakeLemma
<1>2. TypeOK'
  BY <1>1 DEF Inv, TypeOK
<1>3. WriteInv' /\ JobInv' /\ StreamIntact' /\ ConfirmedReceived' /\ HedgeOnlyOldest'
  BY DEF Inv, WriteInv, JobInv, StreamIntact, ConfirmedReceived, HedgeOnlyOldest
<1>4. AckInv'
  BY <1>1 DEF Inv, AckInv
<1>5. QED
  BY <1>2, <1>3, <1>4 DEF Inv

\* The Worker stores chunk s under seq s, or keeps what it has.
LEMMA WorkerReceivesInv ==
  ASSUME Inv, NEW s \in Seqs, WorkerReceives(s)
  PROVE  Inv'
<1> USE DEF WorkerReceives, writeVars, jobVars
<1>1. body[s] = s
  BY DEF Inv, JobInv
<1>2. received' \in [Seqs -> 0..MaxSeq]
  BY DEF Inv, TypeOK
<1>3. /\ \A r \in Seqs : received'[r] \in {NoChunk, r}
      /\ \A r \in Seqs : received[r] = r => received'[r] = r
  BY <1>1 DEF Inv, TypeOK, StreamIntact, NoChunk, Seqs
<1>4. TypeOK' /\ WriteInv' /\ JobInv' /\ StreamIntact'
  BY <1>2, <1>3 DEF Inv, TypeOK, WriteInv, JobInv, StreamIntact
<1>5. AckInv'
  <2>1. \A i \in 1..Len(results) : results[i].seq \in Seqs
    <3> DEFINE Msg == [seq : Seqs, verdict : Verdicts]
    <3>1. results \in Seq(Msg)
      BY DEF Inv, TypeOK
    <3>2. \A x \in Msg : x.seq \in Seqs
      OBVIOUS
    <3> HIDE DEF Msg
    <3>3. \A i \in 1..Len(results) : results[i] \in Msg
      BY <3>1
    <3>4. QED
      BY <3>2, <3>3
  <2>2. QED
    BY <1>3, <2>1 DEF Inv, TypeOK, AckInv
<1>6. ConfirmedReceived'
  BY <1>3 DEF Inv, TypeOK, ConfirmedReceived, Seqs
<1>7. HedgeOnlyOldest'
  <2>1. \A q \in Seqs : (base + 1)..(q - 1) \subseteq Seqs
    BY ConstantsAssumption DEF ConstantsAssumption, Inv, TypeOK, Seqs
  <2>2. QED
    BY <1>3, <2>1 DEF Inv, HedgeOnlyOldest
<1>8. QED
  BY <1>4, <1>5, <1>6, <1>7 DEF Inv

-----------------------------------------------------------------------------
\* Every step keeps the invariant.
LEMMA NextInv == Inv /\ [Next]_vars => Inv'
<1> SUFFICES ASSUME Inv, [Next]_vars PROVE Inv'
  OBVIOUS
<1>1. ASSUME NEW k \in Seqs, StartWrite(k) PROVE Inv'
  BY <1>1, StartWriteInv
<1>2. CASE CloseConn
  BY <1>2 DEF CloseConn, writeVars, jobVars, Inv, TypeOK, WriteInv, JobInv, AckInv,
              StreamIntact, ConfirmedReceived, HedgeOnlyOldest
<1>3. ASSUME NEW s \in Seqs, JobStep(s) PROVE Inv'
  <2>1. /\ {"ack", "badack", "error"} \subseteq Verdicts
        /\ acked \subseteq Seqs
        /\ \A r \in acked : received[r] = r
        /\ received[s] # NoChunk => received[s] = s
    BY DEF Verdicts, Inv, TypeOK, AckInv, StreamIntact
  <2>2. CASE AcquireSlot(s)
    BY <2>2, LaunchRoundInv, ConstantsAssumption DEF AcquireSlot, ConstantsAssumption
  <2>3. CASE AbortSlotWait(s)
    BY <2>1, <2>3, FinishInv DEF AbortSlotWait
  <2>4. CASE HedgeHead(s)
    <3>1. live[s] \in SUBSET Legs
      BY DEF Inv, TypeOK
    <3>2. QED
      BY <2>4, <3>1, LaunchHedgeInv DEF HedgeHead
  <2>5. ASSUME NEW leg \in Legs, NEW v \in {"ack", "badack"}, LegAnswered(s, leg, v)
        PROVE  Inv'
    <3>1. acked' \subseteq Seqs /\ \A r \in acked' : received[r] = r
      BY <2>1, <2>5 DEF LegAnswered, MarkDone
    <3>2. QED
      BY <2>1, <2>5, <3>1, FinishInv DEF LegAnswered
  <2>6. ASSUME NEW leg \in Legs, LegRejected(s, leg) PROVE Inv'
    BY <2>1, <2>6, FinishInv DEF LegRejected
  <2>7. ASSUME NEW leg \in Legs, LegFailed(s, leg) PROVE Inv'
    BY <2>7, LegFailedInv
  <2>8. CASE RetryAfterBackoff(s)
    <3>1. attempt[s] + 1 \in 0..MaxRetries
      BY <2>8, ConstantsAssumption
      DEF RetryAfterBackoff, ConstantsAssumption, Inv, TypeOK, JobInv
    <3>2. QED
      BY <2>8, <3>1, LaunchRoundInv DEF RetryAfterBackoff
  <2>9. CASE JobCancelled(s)
    BY <2>1, <2>9, FinishInv DEF JobCancelled
  <2>10. QED
    BY <1>3, <2>2, <2>3, <2>4, <2>5, <2>6, <2>7, <2>8, <2>9 DEF JobStep
<1>4. CASE ReceiveAck
  BY <1>4, ReceiveAckInv
<1>5. CASE ReceiveFailure
  BY <1>5, ReceiveFailureInv
<1>6. ASSUME NEW s \in Seqs, WorkerReceives(s) PROVE Inv'
  BY <1>6, WorkerReceivesInv
<1>7. CASE UNCHANGED vars
  BY <1>7 DEF vars, writeVars, jobVars, Inv, TypeOK, WriteInv, JobInv, AckInv,
              StreamIntact, ConfirmedReceived, HedgeOnlyOldest
<1>8. QED
  BY <1>1, <1>2, <1>3, <1>4, <1>5, <1>6, <1>7 DEF Next

\* The invariant holds in every reachable state.
THEOREM Invariance == Spec => []Inv
BY InitInv, NextInv, PTL DEF Spec

\* Type correctness of the session's state.
THEOREM TypeCorrect == Spec => []TypeOK
<1>1. Inv => TypeOK
  BY DEF Inv
<1>2. QED
  BY <1>1, Invariance, PTL

\* Whatever is stored under a seq is the chunk at that place of the stream.
THEOREM StreamTheorem == Spec => []StreamIntact
<1>1. Inv => StreamIntact
  BY DEF Inv
<1>2. QED
  BY <1>1, Invariance, PTL

\* What Write reports as written has reached the Worker.
THEOREM ConfirmedTheorem == Spec => []ConfirmedReceived
<1>1. Inv => ConfirmedReceived
  BY DEF Inv
<1>2. QED
  BY <1>1, Invariance, PTL

\* Only the oldest chunk the Worker lacks is hedged.
THEOREM HedgeTheorem == Spec => []HedgeOnlyOldest
<1>1. Inv => HedgeOnlyOldest
  BY DEF Inv
<1>2. QED
  BY <1>1, Invariance, PTL

-----------------------------------------------------------------------------
(* Refinement *)

\* The abstract state: what was offered ends with the current Write, and what
\* the Worker can forward is in place.
LEMMA MappedState ==
  ASSUME Inv
  PROVE  /\ (IF status = "idle" THEN offered ELSE offered + count) = base + count
         /\ {<<s, received[s]>> : s \in InOrderSeqs} = Abstract!Stream(InOrderSeqs)
<1>1. (IF status = "idle" THEN offered ELSE offered + count) = base + count
  BY DEF Inv, WriteInv, TypeOK
<1>2. \A s \in InOrderSeqs : s \in 1..s /\ s \in Seqs
  BY ConstantsAssumption DEF ConstantsAssumption, InOrderSeqs, Seqs
<1>3. \A s \in InOrderSeqs : received[s] = s
  BY <1>2 DEF Inv, StreamIntact, InOrderSeqs
<1>4. {<<s, received[s]>> : s \in InOrderSeqs} = {<<p, p>> : p \in InOrderSeqs}
  BY <1>3
<1>5. QED
  BY <1>1, <1>4 DEF Abstract!Stream

\* A step that touches neither the caller's nor the Worker's view is a stutter.
LEMMA InternalStep ==
  ASSUME UNCHANGED <<status, offered, count, upSeq, received>>
  PROVE  UNCHANGED Abstract!vars
BY DEF Abstract!vars, InOrderSeqs

\* A Write begins: its chunks are offered.
LEMMA StartWriteRefines ==
  ASSUME Inv, Inv', NEW k \in Seqs, StartWrite(k)
  PROVE  Abstract!Offer
<1>1. /\ status = "idle" /\ status' = "open"
      /\ upSeq' = upSeq
      /\ {<<s, received[s]>> : s \in InOrderSeqs}' = {<<s, received[s]>> : s \in InOrderSeqs}
  BY DEF StartWrite, InOrderSeqs
<1>2. base' + count' \in (base + count + 1)..MaxSeq
  BY ConstantsAssumption
  DEF ConstantsAssumption, StartWrite, Inv, WriteInv, TypeOK, Seqs
<1>3. /\ (IF status = "idle" THEN offered ELSE offered + count) = base + count
      /\ (IF status = "idle" THEN offered ELSE offered + count)' = base' + count'
  BY MappedState DEF Inv, TypeOK, WriteInv
<1>4. QED
  BY <1>1, <1>2, <1>3 DEF Abstract!Offer

\* A chunk arrives: the Worker's in-order part grows, or stays.
LEMMA WorkerReceivesRefines ==
  ASSUME Inv, Inv', NEW s \in Seqs, WorkerReceives(s)
  PROVE  Abstract!Forward
<1> DEFINE mapped == {<<r, received[r]>> : r \in InOrderSeqs}
           offeredNow == IF status = "idle" THEN offered ELSE offered + count
<1>1. offeredNow = base + count /\ offeredNow' = offeredNow /\ UNCHANGED <<status, upSeq>>
  BY MappedState DEF WorkerReceives, writeVars
<1>2. InOrderSeqs' \in SUBSET (1..offeredNow)
  <2>1. ASSUME NEW r \in InOrderSeqs' PROVE r \in 1..offeredNow
    <3>1. r \in Seqs /\ r \in 1..r /\ received'[r] # NoChunk
      BY DEF InOrderSeqs, Seqs
    <3>2. r <= base' + count'
      BY <3>1 DEF Inv, JobInv
    <3>3. base' = base /\ count' = count
      BY DEF WorkerReceives, writeVars
    <3>4. base + count \in Nat
      BY DEF Inv, TypeOK
    <3>5. QED
      BY <1>1, <3>1, <3>2, <3>3, <3>4 DEF Seqs
  <2>2. QED
    BY <2>1
<1>3. Abstract!InOrder(InOrderSeqs')
  BY ConstantsAssumption DEF ConstantsAssumption, Abstract!InOrder, InOrderSeqs, Seqs
<1>4. InOrderSeqs \subseteq InOrderSeqs'
  <2>1. \A r \in Seqs : received[r] # NoChunk => received'[r] # NoChunk
    BY DEF WorkerReceives, Inv, TypeOK
  <2>2. \A q \in Seqs : 1..q \subseteq Seqs
    BY ConstantsAssumption DEF ConstantsAssumption, Seqs
  <2>3. QED
    BY <2>1, <2>2 DEF InOrderSeqs
<1>5. /\ mapped = Abstract!Stream(InOrderSeqs)
      /\ mapped' = Abstract!Stream(InOrderSeqs')
  <2>1. mapped = Abstract!Stream(InOrderSeqs)
    BY MappedState
  <2>2. \A r \in InOrderSeqs' : received'[r] = r
    <3>1. \A r \in InOrderSeqs' : r \in Seqs /\ r \in 1..r
      BY DEF InOrderSeqs, Seqs
    <3>2. QED
      BY <3>1 DEF Inv, StreamIntact, InOrderSeqs
  <2>3. mapped' = {<<p, p>> : p \in InOrderSeqs'}
    BY <2>2
  <2>4. QED
    BY <2>1, <2>3 DEF Abstract!Stream
<1>6. mapped \subseteq Abstract!Stream(InOrderSeqs')
  BY <1>4, <1>5 DEF Abstract!Stream
<1>7. QED
  BY <1>1, <1>2, <1>3, <1>5, <1>6 DEF Abstract!Forward

\* An acknowledgement is taken: nothing is committed, or chunks the Worker has.
LEMMA ReceiveAckRefines ==
  ASSUME Inv, Inv', ReceiveAck
  PROVE  Abstract!Confirm \/ UNCHANGED Abstract!vars
<1> DEFINE mapped == {<<r, received[r]>> : r \in InOrderSeqs}
           offeredNow == IF status = "idle" THEN offered ELSE offered + count
<1>1. /\ status = "open"
      /\ offeredNow = base + count
      /\ status' = IF upSeq' = base + count THEN "idle" ELSE "open"
      /\ upSeq' \in upSeq..(base + count)
      /\ UNCHANGED <<base, count, received>>
  BY MappedState DEF ReceiveAck
<1>2. offeredNow' = offeredNow /\ mapped' = mapped
  <2>1. status' # "idle" => offered' = base'
    BY DEF Inv, WriteInv
  <2>2. status' = "idle" => offered' = base' + count'
    BY DEF Inv, WriteInv
  <2>3. offeredNow' = base' + count'
    BY <2>1, <2>2
  <2>4. QED
    BY <1>1, <2>3 DEF InOrderSeqs
<1>3. CASE upSeq' = upSeq
  <2>1. status' = "open"
    BY <1>1, <1>3 DEF Inv, WriteInv, TypeOK
  <2>2. QED
    BY <1>1, <1>2, <1>3, <2>1 DEF Abstract!vars
<1>4. CASE upSeq' # upSeq
  <2>1. upSeq' \in (upSeq + 1)..offeredNow
    BY <1>1, <1>4 DEF Inv, TypeOK
  <2>2. \A r \in 1..upSeq' : r \in InOrderSeqs
    <3>1. upSeq' \in 0..MaxSeq
      BY DEF Inv, TypeOK
    <3>2. \A r \in 1..upSeq' : r \in Seqs /\ received[r] # NoChunk
      BY <1>1, <3>1, ConstantsAssumption
      DEF ConstantsAssumption, Inv, ConfirmedReceived, Seqs, NoChunk
    <3>3. \A r \in 1..upSeq' : 1..r \subseteq 1..upSeq'
      BY <3>1
    <3>4. QED
      BY <3>2, <3>3 DEF InOrderSeqs
  <2>3. Abstract!Stream(1..upSeq') \subseteq mapped
    BY <2>2, MappedState DEF Abstract!Stream
  <2>4. QED
    BY <1>1, <1>2, <2>1, <2>3 DEF Abstract!Confirm
<1>5. QED
  BY <1>3, <1>4

\* Every step of the upload is a step of ReliableUpload or a stutter.
LEMMA StepRefines == Inv /\ Inv' /\ [Next]_vars => [Abstract!Next]_Abstract!vars
<1> SUFFICES ASSUME Inv, Inv', [Next]_vars PROVE [Abstract!Next]_Abstract!vars
  OBVIOUS
<1>1. ASSUME NEW k \in Seqs, StartWrite(k) PROVE Abstract!Next
  BY <1>1, StartWriteRefines DEF Abstract!Next
<1>2. ASSUME NEW s \in Seqs, WorkerReceives(s) PROVE Abstract!Next
  BY <1>2, WorkerReceivesRefines DEF Abstract!Next
<1>3. ASSUME ReceiveAck PROVE Abstract!Next \/ UNCHANGED Abstract!vars
  BY <1>3, ReceiveAckRefines DEF Abstract!Next
<1>4. ASSUME ReceiveFailure PROVE Abstract!Next
  <2>1. Abstract!Fail
    <3>1. /\ status = "open" /\ status' = "failed"
          /\ UNCHANGED <<offered, count, upSeq, received>>
      BY <1>4 DEF ReceiveFailure
    <3>2. QED
      BY <3>1 DEF Abstract!Fail, InOrderSeqs
  <2>2. QED
    BY <2>1 DEF Abstract!Next
<1>5. ASSUME NEW s \in Seqs, JobStep(s) PROVE UNCHANGED Abstract!vars
  <2>1. UNCHANGED <<status, offered, count, upSeq, received>>
    BY <1>5 DEF JobStep, AcquireSlot, AbortSlotWait, HedgeHead, LegAnswered,
                LegRejected, LegFailed, RetryAfterBackoff, JobCancelled, writeVars
  <2>2. QED
    BY <2>1, InternalStep
<1>6. CASE CloseConn \/ UNCHANGED vars
  <2>1. UNCHANGED <<status, offered, count, upSeq, received>>
    BY <1>6 DEF CloseConn, vars, writeVars
  <2>2. QED
    BY <2>1, InternalStep
<1>7. QED
  BY <1>1, <1>2, <1>3, <1>4, <1>5, <1>6 DEF Next

\* The pipelined, retried and hedged upload implements the reliable one.
THEOREM RefinementTheorem == Spec => ImplementsReliableUpload
<1>1. Init => Abstract!Init
  BY DEF Init, Abstract!Init, InOrderSeqs, Seqs
<1>2. QED
  BY <1>1, StepRefines, Invariance, PTL DEF Spec, ImplementsReliableUpload, Abstract!Spec
=============================================================================
