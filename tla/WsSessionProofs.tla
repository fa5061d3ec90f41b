-------------------------- MODULE WsSessionProofs --------------------------
(***************************************************************************)
(* Proofs about WsSession for every set of kinds and limit of fragments.   *)
(* Whoever is in a frame holds writeMu (LockHeld), and a frame that was    *)
(* left in the middle has broken the connection for writes (CutOff): that  *)
(* is why frames stay whole although a deadline frees the lock.            *)
(***************************************************************************)
EXTENDS WsSession, TLAPS

LockHeld == \A t \in Tasks : at[t] = "frame" => mu = t

CutOff == wire # None => broken \/ at[wire] = "frame"

\* A message that is too long leads to Close.
WithinLimit ==
  kind # "raw" => frag = mid /\ (at["down"] \notin {"close", "done"} => frag <= MaxFrag)

\* TypeOK with its flags one by one.
Typed ==
  /\ kind \in {"raw", "safe", "flowseal"}
  /\ at \in [Tasks -> Places]
  /\ mu \in Tasks \cup {None}
  /\ wire \in Tasks \cup {None}
  /\ frag \in 0..MaxFrag + 1
  /\ mid \in 0..MaxFrag + 1
  /\ closed \in BOOLEAN /\ conn \in BOOLEAN /\ gone \in BOOLEAN /\ broken \in BOOLEAN
  /\ bye \in BOOLEAN /\ client \in BOOLEAN /\ cancelled \in BOOLEAN

Inv == Typed /\ LockHeld /\ CutOff /\ WithinLimit

LEMMA InitInv == Init => Inv
<1> SUFFICES ASSUME Init PROVE Inv
  OBVIOUS
<1>1. Typed
  <2>1. at \in [Tasks -> Places]
    BY DEF Init, Places
  <2>2. kind \in {"raw", "safe", "flowseal"}
    BY SessionAssumption DEF SessionAssumption, Init
  <2>3. 0 \in 0..MaxFrag + 1
    BY SessionAssumption DEF SessionAssumption
  <2> QED
    BY <2>1, <2>2, <2>3 DEF Init, Typed
<1>2. LockHeld /\ CutOff /\ WithinLimit
  BY SessionAssumption DEF SessionAssumption, Init, LockHeld, CutOff, WithinLimit
<1> QED
  BY <1>1, <1>2 DEF Inv

\* Where a goroutine goes, and that the others stay.
LEMMA Moves ==
  ASSUME Typed, NEW t \in Tasks, NEW place \in Places, Goto(t, place)
  PROVE  /\ at' \in [Tasks -> Places]
         /\ at'[t] = place
         /\ \A u \in Tasks \ {t} : at'[u] = at[u]
BY DEF Typed, Goto

\* A goroutine that takes writeMu is the only one in a frame.
LEMMA LockKeeps ==
  ASSUME Inv, NEW t \in Tasks, Lock(t)
  PROVE  Inv'
<1>1. "frame" \in Places /\ "done" \in Places
  BY DEF Places
<1>2. /\ at' \in [Tasks -> Places]
      /\ \A u \in Tasks \ {t} : at'[u] = at[u]
      /\ \/ at'[t] = "frame" /\ mu' = t
         \/ at'[t] = "done" /\ UNCHANGED mu
  BY <1>1, Moves DEF Inv, Lock
<1>3. Typed'
  BY <1>2 DEF Inv, Typed, Lock, peer, ends
<1>4. LockHeld'
  BY <1>2, SessionAssumption DEF Inv, Typed, LockHeld, Lock, Tasks, SessionAssumption
<1>5. CutOff'
  BY <1>2 DEF Inv, Typed, CutOff, Lock
<1>6. WithinLimit'
  BY <1>2 DEF Inv, Typed, WithinLimit, Lock, Tasks, peer
<1> QED
  BY <1>3, <1>4, <1>5, <1>6 DEF Inv

\* Parts of frames.
LEMMA WritesKeep ==
  ASSUME Inv, NEW t \in Tasks, WriteSome(t) \/ WriteRest(t)
  PROVE  Inv'
<1>1. CASE WriteSome(t)
  <2>1. wire' = t /\ at[t] = "frame" /\ UNCHANGED <<kind, at, mu, closed, conn, gone, broken, peer, ends>>
    BY <1>1 DEF WriteSome
  <2>2. Typed'
    BY <2>1 DEF Inv, Typed, peer, ends
  <2>3. LockHeld' /\ CutOff' /\ WithinLimit'
    BY <2>1 DEF Inv, LockHeld, CutOff, WithinLimit, peer
  <2> QED
    BY <2>2, <2>3 DEF Inv
<1>2. CASE WriteRest(t)
  <2>1. PICK place \in {"run", "done"} : Goto(t, place)
    BY <1>2 DEF WriteRest, NextFrame, Tasks
  <2>2. /\ at' \in [Tasks -> Places]
        /\ at'[t] = place
        /\ \A u \in Tasks \ {t} : at'[u] = at[u]
    BY <2>1, Moves DEF Inv, Places
  <2>3. at[t] = "frame" /\ mu = t /\ mu' = None /\ wire' = None
    BY <1>2 DEF Inv, LockHeld, WriteRest
  <2>4. conn' \in BOOLEAN
    BY <1>2 DEF Inv, Typed, WriteRest, Tasks
  <2>5. Typed'
    BY <1>2, <2>2, <2>3, <2>4 DEF Inv, Typed, WriteRest, peer, ends
  <2>6. LockHeld'
    BY <2>2, <2>3 DEF Inv, LockHeld
  <2>7. CutOff'
    BY <2>3 DEF CutOff
  <2>8. WithinLimit'
    BY <1>2, <2>2, <2>3 DEF Inv, WithinLimit, WriteRest, peer, Tasks
  <2> QED
    BY <2>5, <2>6, <2>7, <2>8 DEF Inv
<1> QED
  BY <1>1, <1>2

\* A frame that fails breaks the connection for the writes to come.
LEMMA FailuresKeep ==
  ASSUME Inv, SendFails \/ ReplyFails \/ CloseFrameFails
  PROVE  Inv'
<1>1. PICK t \in Tasks, place \in {"run", "close", "done"} :
        /\ Goto(t, place)
        /\ at[t] = "frame"
        /\ mu' = None \/ UNCHANGED mu
  BY DEF SendFails, ReplyFails, CloseFrameFails, NextFrame, Tasks, Inv, Typed
<1>2. /\ at' \in [Tasks -> Places]
      /\ at'[t] = place
      /\ \A u \in Tasks \ {t} : at'[u] = at[u]
  BY <1>1, Moves DEF Inv, Places
<1>3. broken' = TRUE /\ UNCHANGED <<kind, closed, gone, wire, frag, mid, bye, client, cancelled>>
  BY DEF SendFails, ReplyFails, CloseFrameFails, peer, ends
<1>4. conn' \in BOOLEAN
  BY DEF Inv, Typed, SendFails, ReplyFails, CloseFrameFails
<1>5. Typed'
  BY <1>1, <1>2, <1>3, <1>4 DEF Inv, Typed
<1>6. LockHeld'
  BY <1>1, <1>2 DEF Inv, LockHeld
<1>7. CutOff'
  BY <1>3 DEF CutOff
<1>8. WithinLimit'
  BY <1>1, <1>2, <1>3 DEF Inv, WithinLimit, Tasks
<1> QED
  BY <1>5, <1>6, <1>7, <1>8 DEF Inv

\* A goroutine that closes gives back writeMu only if it holds it.
LEMMA CloseKeeps ==
  ASSUME Inv, NEW t \in Tasks, Close(t)
  PROVE  Inv'
<1>1. PICK place \in {"lock", "done"} : Goto(t, place)
  BY DEF Close
<1>2. /\ at' \in [Tasks -> Places]
      /\ at'[t] = place
      /\ \A u \in Tasks \ {t} : at'[u] = at[u]
  BY <1>1, Moves DEF Inv, Places
<1>3. /\ at[t] = "close" /\ closed' = TRUE
      /\ UNCHANGED <<kind, gone, wire, broken, frag, mid, bye, client, cancelled>>
      /\ mu' = mu \/ (mu = t /\ mu' = None)
  BY DEF Close, peer, ends
<1>4. conn' \in BOOLEAN
  BY DEF Inv, Typed, Close
<1>5. Typed'
  BY <1>2, <1>3, <1>4 DEF Inv, Typed
<1>6. LockHeld'
  BY <1>2, <1>3 DEF Inv, LockHeld
<1>7. CutOff'
  BY <1>2, <1>3 DEF Inv, Typed, CutOff
<1>8. WithinLimit'
  <2>1. CASE t = "down" /\ kind # "raw"
    <3>1. at'["down"] = "done"
      BY <2>1, <1>2, Moves DEF Close, Inv, Places
    <3> QED
      BY <1>3, <3>1 DEF Inv, WithinLimit
  <2>2. CASE t # "down"
    BY <1>2, <1>3, <2>2 DEF Inv, WithinLimit, Tasks
  <2>3. CASE kind = "raw"
    BY <1>3, <2>3 DEF WithinLimit
  <2> QED
    BY <2>1, <2>2, <2>3
<1> QED
  BY <1>5, <1>6, <1>7, <1>8 DEF Inv

\* What "down" receives.
LEMMA ReceptionsKeep ==
  ASSUME Inv,
         \/ ReceivePing \/ ReceiveFragment \/ ReceiveTooLong \/ ReceiveLast
         \/ ReceiveClose \/ ReadFails
  PROVE  Inv'
<1>1. PICK place \in Places \ {"frame"} : Goto("down", place)
  BY DEF ReceivePing, ReceiveFragment, ReceiveTooLong, ReceiveLast, ReceiveClose, ReadFails, NextFrame, Places
<1>2. /\ at' \in [Tasks -> Places]
      /\ at'["down"] = place
      /\ \A u \in Tasks \ {"down"} : at'[u] = at[u]
  BY <1>1, Moves DEF Inv, Tasks
<1>3. /\ at["down"] = "run"
      /\ UNCHANGED <<kind, mu, conn, gone, wire, broken, client, cancelled>>
  BY DEF ReceivePing, ReceiveFragment, ReceiveTooLong, ReceiveLast, ReceiveClose, ReadFails, CanRead, peer, ends
<1>4. closed' \in BOOLEAN /\ bye' \in BOOLEAN
  BY DEF Inv, Typed, ReceivePing, ReceiveFragment, ReceiveTooLong, ReceiveLast, ReceiveClose, ReadFails, peer
<1>5. LockHeld'
  BY <1>2, <1>3 DEF Inv, LockHeld
<1>6. CutOff'
  BY <1>2, <1>3 DEF Inv, Typed, CutOff
<1>7. MaxFrag \in Nat /\ frag \in 0..MaxFrag + 1 /\ mid \in 0..MaxFrag + 1
  BY SessionAssumption DEF SessionAssumption, Inv, Typed
<1>8. CASE kind # "raw" /\ (ReceiveFragment \/ ReceiveTooLong)
  <2>1. frag = mid /\ frag <= MaxFrag
    BY <1>3, <1>8 DEF Inv, WithinLimit
  <2>2. frag' = frag + 1 /\ mid' = mid + 1
    BY <1>8 DEF ReceiveFragment, ReceiveTooLong
  <2>3. frag' = mid' /\ frag' \in 0..MaxFrag + 1 /\ mid' \in 0..MaxFrag + 1
    BY <1>7, <2>1, <2>2
  <2>4. frag' > MaxFrag => at'["down"] = "close"
    BY <1>8, Moves DEF ReceiveFragment, ReceiveTooLong, Inv, Tasks, Places
  <2>5. Typed'
    BY <1>2, <1>3, <1>4, <2>3 DEF Inv, Typed
  <2>6. WithinLimit'
    BY <1>7, <2>3, <2>4 DEF WithinLimit
  <2> QED
    BY <1>5, <1>6, <2>5, <2>6 DEF Inv
<1>9. CASE kind = "raw" /\ ReceiveFragment
  <2>1. frag' = frag /\ mid' = mid + 1 /\ mid <= MaxFrag
    BY <1>9 DEF ReceiveFragment
  <2>2. frag' \in 0..MaxFrag + 1 /\ mid' \in 0..MaxFrag + 1
    BY <1>7, <2>1
  <2>3. Typed'
    BY <1>2, <1>3, <1>4, <2>2 DEF Inv, Typed
  <2>4. WithinLimit'
    BY <1>3, <1>9 DEF WithinLimit
  <2> QED
    BY <1>5, <1>6, <2>3, <2>4 DEF Inv
<1>10. CASE ~ ReceiveFragment /\ ~ ReceiveTooLong
  <2>1. (frag' = 0 /\ mid' = 0) \/ UNCHANGED <<frag, mid>>
    BY <1>10 DEF ReceivePing, ReceiveLast, ReceiveClose, ReadFails, peer
  <2>2. 0 \in 0..MaxFrag + 1 /\ 0 <= MaxFrag
    BY <1>7
  <2>3. Typed'
    BY <1>2, <1>3, <1>4, <2>1, <2>2 DEF Inv, Typed
  <2>4. WithinLimit'
    BY <1>3, <2>1, <2>2 DEF Inv, WithinLimit
  <2> QED
    BY <1>5, <1>6, <2>3, <2>4 DEF Inv
<1> QED
  BY <1>8, <1>9, <1>10 DEF ReceiveTooLong

\* The client, the context and the end of the bridge.
LEMMA EndsKeep ==
  ASSUME Inv,
         Cancel \/ PeerBreaks \/ SendStarts \/ ClientAccepts \/ ClientGone \/ StopStarts
  PROVE  Inv'
<1>1. UNCHANGED <<kind, mu, closed, conn, wire, broken, frag, mid, bye>>
  BY DEF Cancel, PeerBreaks, SendStarts, ClientAccepts, ClientGone, StopStarts, peer
<1>2. gone' \in BOOLEAN /\ client' \in BOOLEAN /\ cancelled' \in BOOLEAN
  BY DEF Inv, Typed, Cancel, PeerBreaks, SendStarts, ClientAccepts, ClientGone, StopStarts, ends
<1>3. CASE UNCHANGED at
  BY <1>1, <1>2, <1>3 DEF Inv, Typed, LockHeld, CutOff, WithinLimit
<1>4. ASSUME NEW t \in Tasks, NEW place \in Places \ {"frame"}, Goto(t, place),
             at[t] \in {"run", "deliver"}
      PROVE  Inv'
  <2>1. /\ at' \in [Tasks -> Places]
        /\ at'[t] = place
        /\ \A u \in Tasks \ {t} : at'[u] = at[u]
    BY <1>4, Moves DEF Inv
  <2>2. Typed'
    BY <1>1, <1>2, <2>1 DEF Inv, Typed
  <2>3. LockHeld'
    BY <1>1, <1>4, <2>1 DEF Inv, LockHeld
  <2>4. CutOff'
    BY <1>1, <1>4, <2>1 DEF Inv, Typed, CutOff
  <2>5. WithinLimit'
    BY <1>1, <1>4, <2>1 DEF Inv, WithinLimit, Tasks
  <2> QED
    BY <2>2, <2>3, <2>4, <2>5 DEF Inv
<1>5. \/ UNCHANGED at
      \/ \E t \in Tasks, place \in Places \ {"frame"} : Goto(t, place) /\ at[t] \in {"run", "deliver"}
  BY DEF Cancel, PeerBreaks, SendStarts, ClientAccepts, ClientGone, StopStarts, NextFrame, Tasks,
         Places
<1> QED
  BY <1>3, <1>4, <1>5

LEMMA InvStep == Inv /\ [Next]_vars => Inv'
<1> SUFFICES ASSUME Inv, [Next]_vars PROVE Inv'
  OBVIOUS
<1>1. CASE UNCHANGED vars
  BY <1>1 DEF vars, Inv, Typed, LockHeld, CutOff, WithinLimit
<1>2. CASE Next
  BY <1>2, LockKeeps, WritesKeep, FailuresKeep, CloseKeeps, ReceptionsKeep, EndsKeep
     DEF Next, Local, Remote
<1> QED
  BY <1>1, <1>2

\* What the theorems rest on: who holds the lock, whose frame is cut off and how
\* much of a message is collected, kept by every step.
THEOREM InvHolds == Spec => []Inv
<1>1. Init => Inv
  BY InitInv
<1>2. Inv /\ [Next]_vars => Inv'
  BY InvStep
<1> QED
  BY <1>1, <1>2, PTL DEF Spec

\* A session's state stays well typed: ws.frag never holds more than one fragment
\* beyond the limit of a message.
THEOREM SessionTypeCorrect == Spec => []TypeOK
<1>1. Inv => TypeOK
  BY DEF Inv, Typed, TypeOK
<1> QED
  BY <1>1, InvHolds, PTL

\* Recv puts together the message that the peer sends, and stops at its limit.
THEOREM ReassembledTheorem == Spec => []Reassembled
<1>1. Inv => Reassembled
  BY DEF Inv, WithinLimit, Reassembled
<1> QED
  BY <1>1, InvHolds, PTL

\* Only the goroutine whose frame is on the wire in part writes, or nobody does.
LEMMA WholeStep ==
  ASSUME Inv, [Next]_vars, wire # None
  PROVE  wire' \in {wire, None}
<1>1. ASSUME NEW t \in Tasks, WriteSome(t)
      PROVE  FALSE
  <2>1. at[t] = "frame" /\ wire # t /\ ~ broken
    BY <1>1 DEF WriteSome, Writable
  <2>2. wire \in Tasks /\ at[wire] = "frame"
    BY <2>1 DEF Inv, Typed, CutOff
  <2> QED
    BY <2>1, <2>2 DEF Inv, LockHeld
<1>2. \/ wire' = None \/ UNCHANGED wire
      \/ \E t \in Tasks : WriteSome(t)
  BY DEF Next, Local, Remote, vars, SendFails, ReplyFails, CloseFrameFails, ReadFails, StopStarts,
         Close, Cancel, PeerBreaks, SendStarts, WriteRest, ReceivePing, ReceiveFragment,
         ReceiveTooLong, ReceiveLast, ReceiveClose, ClientAccepts, ClientGone, Lock
<1> QED
  BY <1>1, <1>2

\* No frame falls into another, whichever socket, deadline or failure.
THEOREM WholeTheorem == Spec => FramesWhole
<1>1. Inv /\ [Next]_vars => [wire # None => wire' \in {wire, None}]_vars
  BY WholeStep
<1> QED
  BY <1>1, InvHolds, PTL DEF Spec, FramesWhole
=============================================================================
