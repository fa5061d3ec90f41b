--------------------------- MODULE ReliableUpload ---------------------------
(***************************************************************************)
(* What the upload half of a chunk-relay connection promises to the code   *)
(* that writes into it (net.Conn.Write), with no windows, retries, hedges  *)
(* or slots: the caller hands over chunks 1, 2, 3, ... of a byte stream,   *)
(* the Worker can forward an initial part of exactly that stream to the    *)
(* destination, and what Write reports as written is in that part.         *)
(***************************************************************************)
EXTENDS Naturals

CONSTANT MaxSeq   \* bound on the chunks a session uploads

VARIABLES
  status,      \* "idle": no Write runs; "open": one runs; "failed": one failed
  offered,     \* chunks the caller handed over in all its Writes so far
  confirmed,   \* chunks reported back as written
  forwarded    \* <<place, chunk>> pairs the Worker can forward in order

vars == <<status, offered, confirmed, forwarded>>

InOrder(places) == \A p \in places : 1..p \subseteq places
Stream(places)  == {<<p, p>> : p \in places}   \* chunk p belongs at place p

Init ==
  /\ status = "idle"
  /\ offered = 0
  /\ confirmed = 0
  /\ forwarded = {}

Offer ==
  /\ status = "idle"
  /\ \E k \in (offered + 1)..MaxSeq : offered' = k
  /\ status' = "open"
  /\ UNCHANGED <<confirmed, forwarded>>

(* The part the Worker can forward grows, by several chunks at once when   *)
(* the one that was missing arrives; it may grow after a failure too.      *)
Forward ==
  /\ \E places \in SUBSET (1..offered) :
       /\ InOrder(places)
       /\ forwarded \subseteq Stream(places)
       /\ forwarded' = Stream(places)
  /\ UNCHANGED <<status, offered, confirmed>>

Confirm ==
  /\ status = "open"
  /\ \E k \in (confirmed + 1)..offered :
       /\ Stream(1..k) \subseteq forwarded
       /\ confirmed' = k
       /\ status' = IF k = offered THEN "idle" ELSE "open"
  /\ UNCHANGED <<offered, forwarded>>

Fail ==
  /\ status = "open"
  /\ status' = "failed"
  /\ UNCHANGED <<offered, confirmed, forwarded>>

Next == Offer \/ Forward \/ Confirm \/ Fail

Spec == Init /\ [][Next]_vars
=============================================================================
