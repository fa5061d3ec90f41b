----------------------------- MODULE WsSession -----------------------------
(***************************************************************************)
(* One established session: a client connection bridged over a WebSocket.  *)
(* Three goroutines share the socket: "up" copies from the client and      *)
(* sends frames, "down" receives frames, answers the control frames among  *)
(* them and writes to the client, "stop" closes both connections when the  *)
(* session is cancelled or a direction has ended.  The socket is           *)
(*   "raw"      - RawWebSocket under bridgeWS (SOCKS sessions)             *)
(*   "safe"     - mtProtoSafeFrameSocket under bridgeTransformedStreams    *)
(*   "flowseal" - flowsealRawWebSocket under bridgeTransformedStreams      *)
(* The peer and the client read and write when they like, perhaps never:   *)
(* nothing but a closed connection or a deadline ends a blocked call.      *)
(* Underneath is TLS: after a failed write every later write fails too.    *)
(***************************************************************************)
EXTENDS Naturals

CONSTANTS
  Kinds,      \* the sockets of this instance
  MaxFrag,    \* fragments, the last included, that fit the limit of a message
  None        \* nobody

ASSUME SessionAssumption ==
  /\ Kinds \subseteq {"raw", "safe", "flowseal"}
  /\ MaxFrag \in Nat
  /\ None \notin {"up", "down", "stop"}

Tasks == {"up", "down", "stop"}

\* run: reading (up: the client, down: the peer) or, for stop, waiting;
\* lock, frame: waiting for writeMu, writing a frame; deliver: writing to the
\* client; close: about to close the socket; done: returned.
Places == {"run", "lock", "frame", "deliver", "close", "done"}

VARIABLES
  kind,       \* which socket this is
  at,         \* where each goroutine is
  mu,         \* the holder of ws.writeMu
  closed,     \* ws.closed
  conn,       \* whether this side has not closed the connection of the socket
  gone,       \* whether the peer or the network has broken that connection
  wire,       \* whose frame has been written in part and not in full
  broken,     \* whether a write on the connection has failed
  frag,       \* fragments in ws.frag
  mid,        \* fragments the peer has sent of its current message
  bye,        \* whether "down" is answering a close frame (RawWebSocket)
  client,     \* whether the client connection is open
  cancelled   \* whether the session's context has ended

vars == <<kind, at, mu, closed, conn, gone, wire, broken, frag, mid, bye, client, cancelled>>
peer == <<frag, mid, bye>>
ends == <<client, cancelled>>

Init ==
  /\ kind \in Kinds
  /\ at = [t \in Tasks |-> "run"]
  /\ mu = None
  /\ closed = FALSE
  /\ conn = TRUE
  /\ gone = FALSE
  /\ wire = None
  /\ broken = FALSE
  /\ frag = 0
  /\ mid = 0
  /\ bye = FALSE
  /\ client = TRUE
  /\ cancelled = FALSE

Goto(t, place) == at' = [at EXCEPT ![t] = place]

\* The loop of Recv looks at closed before it reads on.
NextFrame == Goto("down", IF closed THEN "done" ELSE "run")

-----------------------------------------------------------------------------
(* Environment *)

Cancel ==
  /\ ~ cancelled
  /\ cancelled' = TRUE
  /\ UNCHANGED <<kind, at, mu, closed, conn, gone, wire, broken, peer, client>>

PeerBreaks ==
  /\ ~ gone
  /\ gone' = TRUE
  /\ UNCHANGED <<kind, at, mu, closed, conn, wire, broken, peer, ends>>

-----------------------------------------------------------------------------
(* Writing frames: Send of "up", pongs and close replies of "down", and the *)
(* close frame of RawWebSocket.Close                                        *)

\* The client sent something: Send looks at closed before it locks.
SendStarts ==
  /\ at["up"] = "run"
  /\ client
  /\ Goto("up", IF closed THEN "done" ELSE "lock")
  /\ UNCHANGED <<kind, mu, closed, conn, gone, wire, broken, peer, ends>>

LockUnguarded(t) ==   \* mutant: pongs are written without writeMu
  /\ at[t] = "lock"
  /\ mu = None \/ t = "down"
  /\ mu' = t
  /\ Goto(t, "frame")
  /\ UNCHANGED <<kind, closed, conn, gone, wire, broken, peer, ends>>

\* The Flowseal socket looks at closed again with writeMu held.
Lock(t) ==
  /\ at[t] = "lock"
  /\ mu = None
  /\ IF kind = "flowseal" /\ closed
     THEN Goto(t, "done") /\ UNCHANGED mu
     ELSE Goto(t, "frame") /\ mu' = t
  /\ UNCHANGED <<kind, closed, conn, gone, wire, broken, peer, ends>>

Writable == conn /\ ~ gone /\ ~ broken

\* A part of the frame goes out, and more is to follow.
WriteSome(t) ==
  /\ at[t] = "frame"
  /\ Writable
  /\ wire # t
  /\ wire' = t
  /\ UNCHANGED <<kind, at, mu, closed, conn, gone, broken, peer, ends>>

\* The rest of the frame goes out.
WriteRest(t) ==
  /\ at[t] = "frame"
  /\ Writable
  /\ wire' = None
  /\ mu' = None
  /\ CASE t = "up" -> Goto(t, "run") /\ UNCHANGED conn
       [] t = "down" -> (IF bye THEN Goto(t, "done") ELSE NextFrame) /\ UNCHANGED conn
       [] t = "stop" -> Goto(t, "done") /\ conn' = FALSE
  /\ UNCHANGED <<kind, closed, gone, broken, peer, ends>>

WriteErrorNoDeadline == ~ Writable   \* mutant: beginFrameWrite is forgotten

\* A write ends in an error when the connection is closed or broken, or at the
\* deadline that only the Flowseal socket sets for its frames.
WriteError == ~ Writable \/ kind = "flowseal"

\* A Send that fails; the Flowseal socket closes (fail).
SendFails ==
  /\ at["up"] = "frame"
  /\ WriteError
  /\ mu' = None
  /\ broken' = TRUE
  /\ Goto("up", IF kind = "flowseal" THEN "close" ELSE "done")
  /\ UNCHANGED <<kind, closed, conn, gone, wire, peer, ends>>

\* A pong or close reply that fails: RawWebSocket ignores it, the other
\* sockets close; the Flowseal socket keeps writeMu until it has.
ReplyFails ==
  /\ at["down"] = "frame"
  /\ WriteError
  /\ broken' = TRUE
  /\ CASE kind = "raw" -> (IF bye THEN Goto("down", "done") ELSE NextFrame) /\ mu' = None
       [] kind = "safe" -> Goto("down", "close") /\ mu' = None
       [] kind = "flowseal" -> Goto("down", "close") /\ UNCHANGED mu
  /\ UNCHANGED <<kind, closed, conn, gone, wire, peer, ends>>

CloseFrameFails ==
  /\ at["stop"] = "frame"
  /\ WriteError
  /\ broken' = TRUE
  /\ mu' = None
  /\ conn' = FALSE
  /\ Goto("stop", "done")
  /\ UNCHANGED <<kind, closed, gone, wire, peer, ends>>

-----------------------------------------------------------------------------
(* Receiving *)

CanRead == at["down"] = "run" /\ conn /\ ~ gone

ReceivePing ==
  /\ CanRead
  /\ Goto("down", "lock")
  /\ UNCHANGED <<kind, mu, closed, conn, gone, wire, broken, peer, ends>>

\* A frame of a message that is not its last.  RawWebSocket looks at the opcode
\* only: it takes the first frame for a message and drops the continuations.
ReceiveFragment ==
  /\ CanRead
  /\ mid <= MaxFrag
  /\ mid' = mid + 1
  /\ IF kind = "raw"
     THEN (IF mid = 0 THEN Goto("down", "deliver") ELSE NextFrame) /\ UNCHANGED frag
     ELSE frag' = frag + 1 /\ IF frag' > MaxFrag THEN Goto("down", "close") ELSE NextFrame
  /\ UNCHANGED <<kind, mu, closed, conn, gone, wire, broken, bye, ends>>

\* The last continuation makes the message too long.
ReceiveTooLong ==
  /\ CanRead
  /\ kind # "raw"
  /\ frag = MaxFrag /\ frag > 0
  /\ mid' = mid + 1
  /\ frag' = frag + 1
  /\ Goto("down", "close")
  /\ UNCHANGED <<kind, mu, closed, conn, gone, wire, broken, bye, ends>>

ReceiveLastKeepsFrag ==   \* mutant: ws.frag is not emptied
  /\ CanRead
  /\ frag > 0 => frag < MaxFrag
  /\ mid' = 0
  /\ Goto("down", "deliver")
  /\ UNCHANGED <<kind, mu, closed, conn, gone, wire, broken, frag, bye, ends>>

\* The last frame of a message, or its only one; longer messages see
\* ReceiveTooLong.  The Flowseal socket refuses plaintext.
ReceiveLast ==
  /\ CanRead
  /\ frag > 0 => frag < MaxFrag
  /\ mid' = 0
  /\ frag' = 0
  /\ IF kind = "raw" /\ mid > 0 THEN NextFrame
     ELSE \/ Goto("down", "deliver")
          \/ kind = "flowseal" /\ Goto("down", "close")
  /\ UNCHANGED <<kind, mu, closed, conn, gone, wire, broken, bye, ends>>

\* RawWebSocket answers with a close frame and leaves the connection open.  The
\* other sockets also close at a frame that is too large.
ReceiveClose ==
  /\ CanRead
  /\ IF kind = "raw"
     THEN closed' = TRUE /\ bye' = TRUE /\ Goto("down", "lock")
     ELSE Goto("down", "close") /\ UNCHANGED <<closed, bye>>
  /\ UNCHANGED <<kind, mu, conn, gone, wire, broken, frag, mid, ends>>

ReadFails ==
  /\ at["down"] = "run"
  /\ ~ conn \/ gone
  /\ IF kind = "raw"
     THEN closed' = TRUE /\ Goto("down", "done")
     ELSE Goto("down", "close") /\ UNCHANGED closed
  /\ UNCHANGED <<kind, mu, conn, gone, wire, broken, peer, ends>>

ClientAccepts ==
  /\ at["down"] = "deliver"
  /\ client
  /\ NextFrame
  /\ UNCHANGED <<kind, mu, closed, conn, gone, wire, broken, peer, ends>>

-----------------------------------------------------------------------------
(* Ending *)

\* The client leaves, or its connection was closed on this side.
ClientGone ==
  /\ \/ at["up"] = "run" /\ Goto("up", "done")
     \/ at["down"] = "deliver" /\ Goto("down", "done")
  /\ UNCHANGED <<kind, mu, closed, conn, gone, wire, broken, peer, ends>>

CloseWaits(t) ==   \* mutant: every socket closes the way RawWebSocket does
  /\ at[t] = "close"
  /\ closed' = TRUE
  /\ IF t = "stop" /\ ~ closed
     THEN Goto(t, "lock") /\ UNCHANGED <<conn, mu>>
     ELSE /\ Goto(t, "done")
          /\ conn' = (conn /\ closed)
          /\ mu' = IF mu = t THEN None ELSE mu
  /\ UNCHANGED <<kind, gone, wire, broken, peer, ends>>

\* Close: once.  RawWebSocket sends a close frame first, under writeMu, and
\* does nothing when Recv has set closed; the others close the connection.
Close(t) ==
  /\ at[t] = "close"
  /\ closed' = TRUE
  /\ IF kind = "raw" /\ ~ closed
     THEN Goto(t, "lock") /\ UNCHANGED <<conn, mu>>
     ELSE /\ Goto(t, "done")
          /\ conn' = (conn /\ closed)
          /\ mu' = IF mu = t THEN None ELSE mu
  /\ UNCHANGED <<kind, gone, wire, broken, peer, ends>>

\* Either direction's end cancels the bridge's context.
StopStarts ==
  /\ at["stop"] = "run"
  /\ cancelled \/ at["up"] = "done" \/ at["down"] = "done"
  /\ client' = FALSE
  /\ Goto("stop", "close")
  /\ UNCHANGED <<kind, mu, closed, conn, gone, wire, broken, peer, cancelled>>

-----------------------------------------------------------------------------

\* Steps that a running program takes by itself.
Local ==
  \/ SendFails \/ ReplyFails \/ CloseFrameFails \/ ReadFails \/ StopStarts
  \/ \E t \in Tasks : Close(t)

\* Steps that need the peer or the client.
Remote ==
  \/ Cancel \/ PeerBreaks \/ SendStarts
  \/ \E t \in Tasks : WriteSome(t) \/ WriteRest(t)
  \/ ReceivePing \/ ReceiveFragment \/ ReceiveTooLong \/ ReceiveLast \/ ReceiveClose
  \/ ClientAccepts \/ ClientGone

Next == Local \/ Remote \/ \E t \in Tasks : Lock(t)

Fairness ==
  /\ WF_vars(SendFails) /\ WF_vars(ReplyFails) /\ WF_vars(CloseFrameFails)
  /\ WF_vars(ReadFails) /\ WF_vars(StopStarts)
  /\ WF_vars(~ client /\ ClientGone)
  /\ \A t \in Tasks : WF_vars(Close(t)) /\ SF_vars(Lock(t))

Spec == Init /\ [][Next]_vars /\ Fairness

-----------------------------------------------------------------------------
(* Properties *)

TypeOK ==
  /\ kind \in {"raw", "safe", "flowseal"}
  /\ at \in [Tasks -> Places]
  /\ mu \in Tasks \cup {None}
  /\ wire \in Tasks \cup {None}
  /\ frag \in 0..MaxFrag + 1
  /\ mid \in 0..MaxFrag + 1
  /\ {closed, conn, gone, broken, bye, client, cancelled} \subseteq BOOLEAN

\* A frame that is on the wire in part is completed before another goroutine's
\* bytes: pongs and close frames never fall into a data frame, also when a
\* write was cut off by its deadline and writeMu is free again.
FramesWhole == [][wire # None => wire' \in {wire, None}]_vars

\* Recv gives the client whole messages: its buffer holds exactly the fragments
\* of the message the peer is sending, whatever control frames are in between,
\* and Recv never reads on with a message that is too long.  RawWebSocket makes no
\* such promise: of a fragmented message it delivers the first frame.
Reassembled ==
  kind # "raw" => frag = mid /\ (at["down"] = "run" => frag <= MaxFrag)

\* A Send over the Flowseal socket returns though the peer never reads again.
SendReturns ==
  kind = "flowseal" /\ at["up"] \in {"lock", "frame"} ~> at["up"] \notin {"lock", "frame"}

\* A session that was cancelled, or that one direction has left, ends: the
\* other direction is unblocked and both connections are closed.
Ended == at["up"] = "done" /\ at["down"] = "done" /\ ~ conn /\ ~ client
Ending == cancelled \/ at["up"] = "done" \/ at["down"] = "done"
BridgeEnds == Ending /\ kind # "raw" ~> Ended

\* tg-ws-proxy.go, bridgeWS: "close connections when context is cancelled.
\* This unblocks the Read() calls in goroutines."
RawBridgeReturns == cancelled ~> at["up"] = "done" /\ at["down"] = "done"
=============================================================================
