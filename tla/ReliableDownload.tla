-------------------------- MODULE ReliableDownload --------------------------
(***************************************************************************)
(* What the download half of a chunk-relay connection promises to the code *)
(* that reads from it (net.Conn.Read) and to the Worker behind it, with no *)
(* polls, retries, buffer or acknowledgements: the Worker is given chunks  *)
(* 1, 2, 3, ... of a byte stream, the caller receives exactly that stream  *)
(* piece by piece, and the Worker lets go of a chunk only when the caller  *)
(* has all of it.                                                          *)
(***************************************************************************)
EXTENDS Naturals

CONSTANTS
  MaxSeq,      \* bound on the chunks the Worker is given
  Parts        \* the pieces of a chunk

VARIABLES
  supplied,    \* chunks the Worker was given
  received,    \* the last piece the caller has: its chunk and its place there
  released     \* the last chunk the Worker let go of

vars == <<supplied, received, released>>

PieceAfter(piece) ==
  IF piece[2] = Parts THEN <<piece[1] + 1, 1>> ELSE <<piece[1], piece[2] + 1>>

\* The chunks the caller has from the first piece to the last.
Complete == {seq \in 1..supplied : \/ seq < received[1]
                                   \/ seq = received[1] /\ received[2] = Parts}

Init ==
  /\ supplied = 0
  /\ received = <<0, Parts>>
  /\ released = 0

Supply ==
  /\ supplied < MaxSeq
  /\ supplied' = supplied + 1
  /\ UNCHANGED <<received, released>>

\* The caller gets the next piece, of a chunk the Worker was given and has.
Receive ==
  /\ PieceAfter(received)[1] \in (released + 1)..supplied
  /\ received' = PieceAfter(received)
  /\ UNCHANGED <<supplied, released>>

\* One acknowledgement may let go of several chunks: the ones before it are
\* acknowledged with it.
Release ==
  /\ \E seq \in Complete : seq > released /\ released' = seq
  /\ UNCHANGED <<supplied, received>>

Next == Supply \/ Receive \/ Release

Spec == Init /\ [][Next]_vars
=============================================================================
