------------------------- MODULE WorkerRouteProofs -------------------------
(***************************************************************************)
(* Proofs about WorkerRoute for every number of sessions and Workers, every *)
(* order, retry limit and duration.  The circuits need nothing of the      *)
(* sessions but their types; the sockets and the status flag need to know  *)
(* where each session can be (Inv).                                        *)
(***************************************************************************)
EXTENDS WorkerRoute, TLAPS

Entries == {Closed} \cup [reason : {"temporary", "quota"}, left : 1..Longest]

Session ==
  [at : Places, kind : Kinds, start : Nat \ {0}, i : Nat \ {0}, tries : 0..MaxRetries,
   ans : Answers, socks : {0, 1}, relay : BOOLEAN, gone : BOOLEAN]

\* Only sessions of the frontend have a context that ends.
NeverGone == \A s \in Sessions : sess[s].kind = "socks" => ~ sess[s].gone

Inv == TypeOK /\ SocketsOwned /\ NeverGone /\ IdleNotActive

LEMMA LongestIsLongest ==
  /\ Cooldown \in 1..Longest
  /\ QuotaReset \in 1..Longest
  /\ Longest \in Nat \ {0}
BY WorkerAssumption DEF WorkerAssumption, Longest

-----------------------------------------------------------------------------
(* Circuits *)

\* An entry that Mark leaves is a mark or the previous entry's end.
LEMMA MarkType ==
  ASSUME circuit \in [Workers -> Entries], NEW w, NEW reason \in {"temporary", "quota"},
         NEW left \in 1..Longest, Mark(w, reason, left)
  PROVE  circuit' \in [Workers -> Entries]
<1> DEFINE prev == circuit[w]
           entry == IF prev.left > left
                    THEN [reason |-> IF prev.reason = "quota" THEN "quota" ELSE reason,
                          left |-> prev.left]
                    ELSE [reason |-> reason, left |-> left]
<1>1. circuit' = [circuit EXCEPT ![w] = entry]
  BY DEF Mark
<1>2. CASE w \notin Workers
  BY <1>1, <1>2
<1>3. CASE w \in Workers
  <2>1. prev \in Entries
    BY <1>3
  <2>2. CASE prev.left > left
    <3>1. prev.left \in 1..Longest
      BY <2>1, <2>2, LongestIsLongest DEF Entries, Closed
    <3> QED
      BY <1>1, <1>3, <2>2, <3>1 DEF Entries
  <2>3. CASE ~ (prev.left > left)
    BY <1>1, <1>3, <2>3 DEF Entries
  <2> QED
    BY <2>2, <2>3
<1> QED
  BY <1>2, <1>3

\* A quota that is marked stays, with its end or a later one.
LEMMA MarkKeepsQuota ==
  ASSUME circuit \in [Workers -> Entries], NEW v, NEW reason \in {"temporary", "quota"},
         NEW left \in 1..Longest, Mark(v, reason, left),
         reason = "temporary" => left = Cooldown,
         NEW w \in Workers, circuit[w].reason = "quota"
  PROVE  /\ circuit'[w].left >= circuit[w].left
         /\ circuit[w].left > Cooldown => circuit'[w].reason = "quota"
<1>1. circuit[w] \in [reason : {"temporary", "quota"}, left : 1..Longest]
  BY DEF Entries, Closed
<1>2. CASE v # w
  BY <1>1, <1>2, LongestIsLongest DEF Mark
<1>3. CASE v = w
  BY <1>1, <1>3, LongestIsLongest, WorkerAssumption DEF Mark, WorkerAssumption
<1> QED
  BY <1>2, <1>3

-----------------------------------------------------------------------------
(* Sessions *)

\* What Become does to the sessions.
LEMMA BecomeSession ==
  ASSUME sess \in [Sessions -> Session], NEW s \in Sessions, NEW state \in Session,
         sess' = [sess EXCEPT ![s] = state]
  PROVE  /\ sess' \in [Sessions -> Session]
         /\ sess'[s] = state
         /\ \A t \in Sessions : t # s => sess'[t] = sess[t]
OBVIOUS

\* What a session forgets when it has a connection or goes for another.
LEMMA ResetType ==
  ASSUME NEW r \in Session, NEW n \in {0, 1}, NEW b \in BOOLEAN
  PROVE  /\ [r EXCEPT !.tries = 0, !.socks = n] \in Session
         /\ [r EXCEPT !.tries = 0, !.socks = n, !.relay = b] \in Session
<1>1. 0 \in 0..MaxRetries
  BY WorkerAssumption DEF WorkerAssumption
<1> QED
  BY <1>1 DEF Session

LEMMA IdleSession == Idle \in Session
BY WorkerAssumption DEF WorkerAssumption, Idle, Session, Places, Kinds, Answers

\* The states of a session that agree with SocketsOwned and NeverGone.
Sound(state) ==
  /\ state.socks = 1 <=> state.at \in {"init", "first", "second", "up"}
  /\ state.kind = "socks" => ~ state.gone

\* In a SOCKS failover.
FailingOver(state) == state.kind = "socks" /\ state.at = "try"

\* A step of one session to a sound state keeps the invariant, if the status flag
\* goes with the failover of that session.
LEMMA SessionKeeps ==
  ASSUME Inv, NEW s \in Sessions, NEW state \in Session,
         sess' = [sess EXCEPT ![s] = state],
         Sound(state),
         circuit' \in [Workers -> Entries],
         active' \in BOOLEAN,
         active' => FailingOver(state) \/ (active /\ ~ FailingOver(sess[s]))
  PROVE  Inv'
<1>1. sess \in [Sessions -> Session]
  BY DEF Inv, TypeOK, Session
<1>2. /\ sess' \in [Sessions -> Session]
      /\ sess'[s] = state
      /\ \A t \in Sessions : t # s => sess'[t] = sess[t]
  BY <1>1, BecomeSession
<1>3. TypeOK'
  BY <1>2 DEF TypeOK, Entries, Session
<1>4. SocketsOwned'
  BY <1>2 DEF Inv, SocketsOwned, Sound
<1>5. NeverGone'
  BY <1>2 DEF Inv, NeverGone, Sound
<1>6. IdleNotActive'
  <2> SUFFICES ASSUME active' PROVE \E t \in Sessions : FailingOver(sess'[t])
    BY DEF IdleNotActive, FailingOver
  <2>1. CASE FailingOver(state)
    BY <1>2, <2>1
  <2>2. CASE active /\ ~ FailingOver(sess[s])
    <3>1. PICK t \in Sessions : FailingOver(sess[t])
      BY <2>2 DEF Inv, IdleNotActive, FailingOver
    <3> QED
      BY <1>2, <2>2, <3>1
  <2> QED
    BY <2>1, <2>2
<1> QED
  BY <1>3, <1>4, <1>5, <1>6 DEF Inv

\* The types of what a session goes by, and its place.
LEMMA SessionTypes ==
  ASSUME Inv, NEW s \in Sessions
  PROVE  /\ sess[s] \in Session
         /\ Sound(sess[s])
         /\ circuit \in [Workers -> Entries]
         /\ active \in BOOLEAN
         /\ DOMAIN sess = Sessions
BY DEF Inv, TypeOK, Session, Entries, SocketsOwned, NeverGone, Sound

\* A step of a session that neither enters nor leaves a SOCKS failover and leaves
\* circuits and flag alone.
LEMMA QuietKeeps ==
  ASSUME Inv, NEW s \in Sessions, NEW state \in Session, Become(s, state), Sound(state),
         UNCHANGED active, circuit' \in [Workers -> Entries],
         FailingOver(sess[s]) => FailingOver(state)
  PROVE  Inv'
BY SessionKeeps, SessionTypes DEF Become

LEMMA LeaveKeeps ==
  ASSUME Inv, NEW s \in Sessions, Leave(s), active' \in BOOLEAN,
         active' => active /\ ~ FailingOver(sess[s]), UNCHANGED circuit
  PROVE  Inv'
<1>1. Sound(Idle)
  BY DEF Sound, Idle
<1> QED
  BY <1>1, SessionKeeps, SessionTypes, IdleSession DEF Leave

\* The next candidate: only a session that was not in a SOCKS failover before
\* could enter one.
LEMMA NextCandidateKeeps ==
  ASSUME Inv, NEW s \in Sessions, NextCandidate(s), UNCHANGED active,
         circuit' \in [Workers -> Entries]
  PROVE  Inv'
<1> DEFINE state == [sess[s] EXCEPT !.at = "try", !.i = @ + 1, !.ans = "none", !.tries = 0,
                                    !.socks = 0, !.relay = FALSE]
<1>1. sess[s] \in Session /\ Sound(sess[s])
  BY SessionTypes
<1>2. state \in Session
  <2> DEFINE moved == [sess[s] EXCEPT !.at = "try", !.i = @ + 1, !.ans = "none"]
  <2>1. /\ "try" \in Places /\ "none" \in Answers
        /\ sess[s].i + 1 \in Nat \ {0}
    BY <1>1 DEF Session, Places, Answers
  <2>2. moved \in Session
    BY <1>1, <2>1 DEF Session
  <2>3. [moved EXCEPT !.tries = 0, !.socks = 0, !.relay = FALSE] \in Session
    <3> HIDE DEF moved
    <3> QED
      BY <2>2, ResetType
  <2> QED
    BY <2>3
<1>3. Sound(state)
  BY <1>1 DEF Sound, Session
<1>4. FailingOver(sess[s]) => FailingOver(state)
  BY <1>1 DEF FailingOver, Session
<1>5. Become(s, state)
  BY DEF NextCandidate
<1> QED
  BY <1>2, <1>3, <1>4, <1>5, QuietKeeps

LEMMA ConnectedKeeps ==
  ASSUME Inv, NEW s \in Sessions, NEW place \in {"init", "first", "second"},
         Connected(s, place), circuit' \in [Workers -> Entries], active' \in BOOLEAN,
         active' => active /\ ~ FailingOver(sess[s])
  PROVE  Inv'
<1> DEFINE moved == [sess[s] EXCEPT !.at = place, !.ans = "none"]
           state == [moved EXCEPT !.tries = 0, !.socks = 1]
<1>1. sess[s] \in Session /\ Sound(sess[s])
  BY SessionTypes
<1>2. moved \in Session
  BY <1>1 DEF Session, Places, Answers
<1>3. state \in Session
  <2> HIDE DEF moved
  <2> QED
    BY <1>2, ResetType
<1>4. Sound(state)
  BY <1>1 DEF Sound, Session
<1>5. Become(s, state)
  BY DEF Connected
<1>6. sess' = [sess EXCEPT ![s] = state]
  BY <1>5 DEF Become
<1> HIDE DEF state
<1> QED
  BY <1>3, <1>4, <1>6, SessionKeeps

\* A change of the place alone, out of a place that is no failover.
LEMMA GotoKeeps ==
  ASSUME Inv, NEW s \in Sessions, NEW place \in Places, Goto(s, place),
         ~ FailingOver(sess[s]), circuit' \in [Workers -> Entries],
         active' \in BOOLEAN, active' => active,
         sess[s].socks = 1 <=> place \in {"init", "first", "second", "up"}
  PROVE  Inv'
<1> DEFINE state == [sess[s] EXCEPT !.at = place]
<1>1. sess[s] \in Session /\ Sound(sess[s])
  BY SessionTypes
<1>2. state \in Session
  BY <1>1 DEF Session
<1>3. Sound(state)
  BY <1>1 DEF Sound, Session
<1>4. sess' = [sess EXCEPT ![s] = state]
  BY DEF Goto, Become
<1> HIDE DEF state
<1> QED
  BY <1>2, <1>3, <1>4, SessionKeeps

-----------------------------------------------------------------------------
(* The invariant *)

LEMMA InitInv == Init => Inv
<1> SUFFICES ASSUME Init PROVE Inv
  OBVIOUS
<1>1. TypeOK
  BY IdleSession DEF Init, TypeOK, Session
<1>2. SocketsOwned /\ NeverGone /\ IdleNotActive
  BY DEF Init, Idle, SocketsOwned, NeverGone, IdleNotActive
<1> QED
  BY <1>1, <1>2 DEF Inv

\* The steps of a dial that leave circuits and flag alone.
LEMMA DialsKeep ==
  ASSUME Inv, NEW s \in Sessions,
         CheckCircuit(s) \/ SendOpen(s) \/ RetryOpen(s) \/ OpenAborted(s) \/ DialLegacy(s)
  PROVE  Inv'
<1>1. /\ sess[s] \in Session /\ Sound(sess[s])
      /\ circuit \in [Workers -> Entries] /\ active \in BOOLEAN
  BY SessionTypes
<1>2. UNCHANGED <<circuit, active>>
  BY DEF CheckCircuit, SendOpen, RetryOpen, OpenAborted, DialLegacy
<1>3. CASE CheckCircuit(s)
  <2>1. CASE NextCandidate(s)
    BY <1>1, <1>2, <2>1, NextCandidateKeeps
  <2>2. CASE Goto(s, "checked")
    <3>1. ~ FailingOver(sess[s]) /\ sess[s].socks = 0
      BY <1>1, <1>3 DEF CheckCircuit, Trying, FailingOver, Sound, Session
    <3>2. "checked" \in Places
      BY DEF Places
    <3> QED
      BY <1>1, <1>2, <2>2, <3>1, <3>2, GotoKeeps
  <2> QED
    BY <1>3, <2>1, <2>2 DEF CheckCircuit
<1>4. CASE RetryOpen(s)
  <2>1. PICK a \in Answers \ {"none"} :
          Become(s, [sess[s] EXCEPT !.ans = a, !.tries = @ + 1])
    BY <1>4 DEF RetryOpen
  <2> DEFINE state == [sess[s] EXCEPT !.ans = a, !.tries = @ + 1]
  <2>2. sess[s].tries + 1 \in 0..MaxRetries
    <3>1. sess[s].tries \in 0..MaxRetries /\ MaxRetries \in Nat
      BY <1>1, WorkerAssumption DEF Session, WorkerAssumption
    <3>2. sess[s].tries < MaxRetries
      BY <1>4 DEF RetryOpen
    <3> QED
      BY <3>1, <3>2
  <2>3. state \in Session
    BY <1>1, <2>2 DEF Session
  <2>4. Sound(state) /\ ~ FailingOver(sess[s])
    BY <1>1, <1>4 DEF Sound, Session, RetryOpen, FailingOver
  <2> QED
    BY <1>1, <1>2, <2>1, <2>3, <2>4, QuietKeeps
<1>5. CASE OpenAborted(s)
  BY <1>1, <1>2, <1>5, NextCandidateKeeps DEF OpenAborted
<1>6. CASE DialLegacy(s)
  <2>1. ~ FailingOver(sess[s])
    BY <1>6 DEF DialLegacy, Trying, FailingOver
  <2> QED
    BY <1>1, <1>2, <1>6, <2>1, NextCandidateKeeps, ConnectedKeeps DEF DialLegacy
<1>7. CASE SendOpen(s)
  <2>1. PICK a \in Answers \ {"none"} : Become(s, [sess[s] EXCEPT !.at = "open", !.ans = a])
    BY <1>7 DEF SendOpen
  <2> DEFINE state == [sess[s] EXCEPT !.at = "open", !.ans = a]
  <2>2. state \in Session
    BY <1>1 DEF Session, Places
  <2>3. Sound(state) /\ ~ FailingOver(sess[s])
    BY <1>1, <1>7 DEF Sound, Session, SendOpen, FailingOver
  <2> QED
    BY <1>1, <1>2, <2>1, <2>2, <2>3, QuietKeeps
<1> QED
  BY <1>3, <1>4, <1>5, <1>6, <1>7

\* The answers to open requests, which change the circuit.
LEMMA AnswersKeep ==
  ASSUME Inv, NEW s \in Sessions, OpenFails(s) \/ OpenSucceeds(s)
  PROVE  Inv'
<1>1. /\ sess[s] \in Session /\ Sound(sess[s])
      /\ circuit \in [Workers -> Entries] /\ active \in BOOLEAN
  BY SessionTypes
<1>2. CASE OpenFails(s)
  <2>1. circuit' \in [Workers -> Entries]
    <3>1. CASE sess[s].ans = "quota"
      <4>1. PICK left \in 1..QuotaReset : Mark(Worker(s), "quota", left)
        BY <1>2, <3>1 DEF OpenFails, QuotaAnswer
      <4>2. left \in 1..Longest
        BY LongestIsLongest
      <4> QED
        BY <1>1, <4>1, <4>2, MarkType
    <3>2. CASE sess[s].ans = "5xx"
      BY <1>1, <1>2, <3>2, MarkType, LongestIsLongest DEF OpenFails
    <3>3. CASE sess[s].ans \notin {"quota", "5xx"}
      BY <1>1, <1>2, <3>3 DEF OpenFails
    <3> QED
      BY <3>1, <3>2, <3>3
  <2> QED
    BY <1>2, <2>1, NextCandidateKeeps DEF OpenFails
<1>3. CASE OpenSucceeds(s)
  <2>1. circuit' \in [Workers -> Entries]
    BY <1>1, <1>3 DEF OpenSucceeds, ClearCircuit, Entries
  <2>2. ~ FailingOver(sess[s])
    BY <1>3 DEF OpenSucceeds, FailingOver
  <2> DEFINE moved == [sess[s] EXCEPT !.at = "init", !.ans = "none"]
             state == [moved EXCEPT !.tries = 0, !.socks = 1, !.relay = TRUE]
  <2>3. moved \in Session
    BY <1>1 DEF Session, Places, Answers
  <2>4. state \in Session
    <3> HIDE DEF moved
    <3> QED
      BY <2>3, ResetType
  <2>5. Sound(state)
    BY <1>1 DEF Sound, Session
  <2>6. Become(s, state) /\ UNCHANGED active
    BY <1>3 DEF OpenSucceeds
  <2> HIDE DEF state
  <2> QED
    BY <1>1, <2>1, <2>2, <2>4, <2>5, <2>6, QuietKeeps
<1> QED
  BY <1>2, <1>3

\* The writes of a first packet, and the SOCKS dials.
LEMMA WritesKeep ==
  ASSUME Inv, NEW s \in Sessions,
         WriteInit(s) \/ FirstWrite(s) \/ Redial(s) \/ SecondWrite(s) \/ DialSocks(s)
  PROVE  Inv'
<1>1. /\ sess[s] \in Session /\ Sound(sess[s])
      /\ circuit \in [Workers -> Entries] /\ active \in BOOLEAN
  BY SessionTypes
<1>2. UNCHANGED circuit
  BY DEF WriteInit, FirstWrite, Redial, SecondWrite, DialSocks
<1>3. "up" \in Places
  BY DEF Places
<1>4. CASE WriteInit(s)
  <2>1. sess[s].at = "init" /\ UNCHANGED active
    BY <1>4 DEF WriteInit
  <2>2. ~ FailingOver(sess[s]) /\ sess[s].socks = 1
    BY <1>1, <2>1 DEF FailingOver, Sound
  <2>3. Leave(s) \/ Goto(s, "up") \/ NextCandidate(s)
    BY <1>4 DEF WriteInit
  <2> QED
    BY <1>1, <1>2, <1>3, <2>1, <2>2, <2>3, LeaveKeeps, GotoKeeps, NextCandidateKeeps
<1>5. CASE FirstWrite(s)
  <2>1. sess[s].at = "first"
    BY <1>5 DEF FirstWrite
  <2>2. ~ FailingOver(sess[s]) /\ sess[s].socks = 1
    BY <1>1, <2>1 DEF FailingOver, Sound
  <2>3. CASE Goto(s, "up") /\ active' = FALSE
    BY <1>1, <1>2, <1>3, <2>2, <2>3, GotoKeeps
  <2>4. CASE Become(s, [sess[s] EXCEPT !.at = "redial", !.socks = 0]) /\ UNCHANGED active
    <3> DEFINE state == [sess[s] EXCEPT !.at = "redial", !.socks = 0]
    <3>1. state \in Session
      BY <1>1 DEF Session, Places
    <3>2. Sound(state)
      BY <1>1 DEF Session, Sound
    <3> QED
      BY <1>1, <1>2, <2>2, <2>4, <3>1, <3>2, QuietKeeps
  <2> QED
    BY <1>5, <2>3, <2>4 DEF FirstWrite
<1>6. CASE Redial(s)
  <2>1. ~ FailingOver(sess[s])
    BY <1>6 DEF Redial, FailingOver
  <2> QED
    BY <1>1, <1>2, <1>6, <2>1, ConnectedKeeps, LeaveKeeps DEF Redial
<1>7. CASE SecondWrite(s)
  <2>1. sess[s].at = "second"
    BY <1>7 DEF SecondWrite
  <2>2. ~ FailingOver(sess[s]) /\ sess[s].socks = 1
    BY <1>1, <2>1 DEF FailingOver, Sound
  <2>3. CASE Goto(s, "up") /\ active' = FALSE
    BY <1>1, <1>2, <1>3, <2>2, <2>3, GotoKeeps
  <2>4. CASE Leave(s) /\ UNCHANGED active
    BY <1>1, <1>2, <2>2, <2>4, LeaveKeeps
  <2> QED
    BY <1>7, <2>3, <2>4 DEF SecondWrite
<1>8. CASE DialSocks(s)
  <2>1. CASE NextCandidate(s) /\ UNCHANGED active
    BY <1>1, <1>2, <2>1, NextCandidateKeeps
  <2>2. CASE Connected(s, "first") /\ active' = FALSE
    BY <1>1, <1>2, <2>2, ConnectedKeeps
  <2> QED
    BY <1>8, <2>1, <2>2 DEF DialSocks
<1> QED
  BY <1>4, <1>5, <1>6, <1>7, <1>8

\* The ways into a failover and out of it without a connection.
LEMMA EndsKeep ==
  ASSUME Inv, NEW s \in Sessions,
         \/ \E kind \in Kinds, start \in StickyStarts : Begin(s, kind, start)
         \/ LookAtCircuit(s) \/ Selected(s)
         \/ Cancel(s) \/ CancelledBetween(s) \/ Exhausted(s) \/ Disconnect(s)
  PROVE  Inv'
<1>1. /\ sess[s] \in Session /\ Sound(sess[s])
      /\ circuit \in [Workers -> Entries] /\ active \in BOOLEAN
  BY SessionTypes
<1>2. ASSUME NEW kind \in Kinds, NEW start \in StickyStarts, Begin(s, kind, start)
      PROVE  Inv'
  <2> DEFINE state == [Idle EXCEPT !.at = "select", !.kind = kind, !.start = start]
  <2>1. start \in Nat \ {0}
    BY WorkerAssumption DEF StickyStarts, WorkerAssumption
  <2>2. state \in Session /\ Sound(state)
    BY <2>1, IdleSession DEF Session, Places, Sound, Idle
  <2>3. ~ FailingOver(sess[s])
    BY <1>2 DEF Begin, FailingOver
  <2>4. sess' = [sess EXCEPT ![s] = state] /\ UNCHANGED <<circuit, active>>
    BY <1>2 DEF Begin
  <2> HIDE DEF state
  <2> QED
    BY <1>1, <2>2, <2>3, <2>4, SessionKeeps
<1>7. CASE LookAtCircuit(s)
  <2> DEFINE state == [sess[s] EXCEPT !.i = @ + 1]
  <2>1. state \in Session
    BY <1>1 DEF Session
  <2>2. Sound(state) /\ ~ FailingOver(sess[s])
    BY <1>1, <1>7 DEF Sound, Session, LookAtCircuit, FailingOver
  <2>3. sess' = [sess EXCEPT ![s] = state] /\ UNCHANGED <<circuit, active>>
    BY <1>7 DEF LookAtCircuit
  <2> HIDE DEF state
  <2> QED
    BY <1>1, <2>1, <2>2, <2>3, SessionKeeps
<1>8. CASE Selected(s)
  <2> DEFINE state == [sess[s] EXCEPT !.at = "try", !.start = 1, !.i = 1]
  <2>1. state \in Session
    <3>1. "try" \in Places /\ 1 \in Nat \ {0}
      BY DEF Places
    <3> QED
      BY <1>1, <3>1 DEF Session
  <2>2. Sound(state) /\ ~ FailingOver(sess[s])
    BY <1>1, <1>8 DEF Sound, Session, Selected, FailingOver
  <2>3. FailingOver(state) <=> sess[s].kind = "socks"
    BY <1>1 DEF FailingOver, Session
  <2>4. /\ sess' = [sess EXCEPT ![s] = state]
        /\ active' = (active \/ sess[s].kind = "socks")
        /\ UNCHANGED circuit
    BY <1>8 DEF Selected
  <2> HIDE DEF state
  <2>5. active' \in BOOLEAN /\ (active' => FailingOver(state) \/ (active /\ ~ FailingOver(sess[s])))
    BY <1>1, <2>2, <2>3, <2>4
  <2> QED
    BY <1>1, <2>1, <2>2, <2>4, <2>5, SessionKeeps
<1>3. CASE Cancel(s)
  <2> DEFINE state == [sess[s] EXCEPT !.gone = TRUE]
  <2>1. state \in Session
    BY <1>1 DEF Session
  <2>2. sess[s].kind # "socks"
    BY <1>3 DEF Cancel
  <2>3. Sound(state) /\ ~ FailingOver(sess[s])
    BY <1>1, <2>2 DEF Sound, Session, FailingOver
  <2>4. Become(s, state) /\ UNCHANGED <<circuit, active>>
    BY <1>3 DEF Cancel
  <2> HIDE DEF state
  <2> QED
    BY <1>1, <2>1, <2>3, <2>4, QuietKeeps
<1>4. CASE CancelledBetween(s)
  <2>1. ~ FailingOver(sess[s])
    BY <1>1, <1>4 DEF CancelledBetween, FailingOver, Sound
  <2> QED
    BY <1>1, <1>4, <2>1, LeaveKeeps DEF CancelledBetween
<1>5. CASE Exhausted(s)
  <2>1. active' \in BOOLEAN /\ (active' => active /\ ~ FailingOver(sess[s]))
    BY <1>1, <1>5 DEF Exhausted, FailingOver
  <2> QED
    BY <1>1, <1>5, <2>1, LeaveKeeps DEF Exhausted
<1>6. CASE Disconnect(s)
  <2>1. ~ FailingOver(sess[s])
    BY <1>6 DEF Disconnect, FailingOver
  <2> QED
    BY <1>1, <1>6, <2>1, LeaveKeeps DEF Disconnect
<1> QED
  BY <1>2, <1>3, <1>4, <1>5, <1>6, <1>7, <1>8

\* The steps that change the circuits alone.
LEMMA CircuitsKeep ==
  ASSUME Inv, Tick \/ \E s \in Sessions : BridgedQuota(s)
  PROVE  Inv'
<1>1. circuit \in [Workers -> Entries]
  BY DEF Inv, TypeOK, Entries
<1>2. UNCHANGED <<active, cands, sess>>
  BY DEF Tick, BridgedQuota
<1>3. circuit' \in [Workers -> Entries]
  <2>1. CASE Tick
    <3> SUFFICES ASSUME NEW w \in Workers
                 PROVE  IF circuit[w].left > 1 THEN [circuit[w] EXCEPT !.left = @ - 1] \in Entries
                        ELSE Closed \in Entries
      BY <2>1 DEF Tick
    <3>1. circuit[w] \in Entries
      BY <1>1
    <3>2. CASE circuit[w].left > 1
      <4>1. circuit[w] \in [reason : {"temporary", "quota"}, left : 1..Longest]
        BY <3>1, <3>2 DEF Entries, Closed
      <4>2. circuit[w].left - 1 \in 1..Longest
        BY <3>2, <4>1, LongestIsLongest
      <4>3. [circuit[w] EXCEPT !.left = @ - 1] \in [reason : {"temporary", "quota"}, left : 1..Longest]
        BY <4>1, <4>2
      <4> QED
        BY <3>2, <4>3 DEF Entries
    <3> QED
      BY <3>2 DEF Entries
  <2>2. ASSUME NEW s \in Sessions, BridgedQuota(s) PROVE circuit' \in [Workers -> Entries]
    <3>1. PICK left \in 1..QuotaReset : Mark(Worker(s), "quota", left)
      BY <2>2 DEF BridgedQuota, QuotaAnswer
    <3>2. left \in 1..Longest
      BY LongestIsLongest
    <3> QED
      BY <1>1, <3>1, <3>2, MarkType
  <2> QED
    BY <2>1, <2>2
<1> QED
  BY <1>2, <1>3 DEF Inv, TypeOK, Entries, SocketsOwned, NeverGone, IdleNotActive

LEMMA InvStep == Inv /\ [Next]_vars => Inv'
<1> SUFFICES ASSUME Inv, [Next]_vars PROVE Inv'
  OBVIOUS
<1>1. CASE UNCHANGED vars
  BY <1>1 DEF vars, Inv, TypeOK, SocketsOwned, NeverGone, IdleNotActive
<1>2. CASE Next
  BY <1>2, DialsKeep, AnswersKeep, WritesKeep, EndsKeep, CircuitsKeep DEF Next, Connecting
<1> QED
  BY <1>1, <1>2

\* What the theorems rest on: the inductive invariant, kept by every step.
THEOREM InvHolds == Spec => []Inv
<1>1. Init => Inv
  BY InitInv
<1>2. Inv /\ [Next]_vars => Inv'
  BY InvStep
<1> QED
  BY <1>1, <1>2, PTL DEF Spec

\* The state of the Workers and of the sessions stays well typed.
THEOREM WorkerTypeCorrect == Spec => []TypeOK
<1>1. Inv => TypeOK
  BY DEF Inv
<1> QED
  BY <1>1, InvHolds, PTL

\* However a failover goes, no connection to a Worker is leaked or used after it
\* was closed.
THEOREM SocketsTheorem == Spec => []SocketsOwned
<1>1. Inv => SocketsOwned
  BY DEF Inv
<1> QED
  BY <1>1, InvHolds, PTL

\* The status reports a failover only while some SOCKS session is in one.
THEOREM FailoverTheorem == Spec => []IdleNotActive
<1>1. Inv => IdleNotActive
  BY DEF Inv
<1> QED
  BY <1>1, InvHolds, PTL

-----------------------------------------------------------------------------
(* What a step does to a quota *)

\* A mark or nothing.
LEMMA StaysOrMark ==
  ASSUME Inv, NEW w \in Workers, circuit[w].reason = "quota",
         \/ UNCHANGED circuit
         \/ \E v \in Workers \cup {Worker(s) : s \in Sessions} :
              QuotaAnswer(v) \/ Mark(v, "temporary", Cooldown)
  PROVE  /\ circuit'[w].left >= circuit[w].left
         /\ circuit[w].left > Cooldown => circuit'[w].reason = "quota"
<1>1. circuit \in [Workers -> Entries]
  BY DEF Inv, TypeOK, Entries
<1>2. CASE UNCHANGED circuit
  <2>1. circuit[w].left \in Nat
    BY <1>1, LongestIsLongest DEF Entries, Closed
  <2> QED
    BY <1>2, <2>1
<1>3. ASSUME NEW v, QuotaAnswer(v)
      PROVE  /\ circuit'[w].left >= circuit[w].left
             /\ circuit[w].left > Cooldown => circuit'[w].reason = "quota"
  <2>1. PICK left \in 1..QuotaReset : Mark(v, "quota", left)
    BY <1>3 DEF QuotaAnswer
  <2>2. left \in 1..Longest
    BY LongestIsLongest
  <2> QED
    BY <1>1, <2>1, <2>2, MarkKeepsQuota
<1>4. ASSUME NEW v, Mark(v, "temporary", Cooldown)
      PROVE  /\ circuit'[w].left >= circuit[w].left
             /\ circuit[w].left > Cooldown => circuit'[w].reason = "quota"
  BY <1>1, <1>4, LongestIsLongest, MarkKeepsQuota
<1> QED
  BY <1>2, <1>3, <1>4

\* Which steps change the circuits, and how.
LEMMA CircuitSteps ==
  ASSUME Inv, [Next]_vars, NEW w \in Workers, circuit[w].reason = "quota"
  PROVE  \/ /\ circuit'[w].left >= circuit[w].left
            /\ circuit[w].left > Cooldown => circuit'[w].reason = "quota"
         \/ \E s \in Sessions :
              sess[s].at = "open" /\ sess[s].ans = "ok" /\ Worker(s) = w /\ sess'[s].at = "init"
         \/ \A v \in Workers : circuit[v].left > 0 => circuit'[v].left = circuit[v].left - 1
<1>1. circuit \in [Workers -> Entries]
  BY DEF Inv, TypeOK, Entries
<1>2. CASE Tick
  <2> SUFFICES ASSUME NEW v \in Workers, circuit[v].left > 0
               PROVE  circuit'[v].left = circuit[v].left - 1
    OBVIOUS
  <2>1. circuit[v] \in [reason : {"temporary", "quota"}, left : 1..Longest]
    BY <1>1 DEF Entries, Closed
  <2>2. circuit'[v] = IF circuit[v].left > 1 THEN [circuit[v] EXCEPT !.left = @ - 1] ELSE Closed
    BY <1>2 DEF Tick
  <2>3. circuit[v].left \in 1..Longest
    BY <2>1
  <2>4. CASE circuit[v].left > 1
    BY <2>1, <2>2, <2>4
  <2>5. CASE circuit[v].left = 1
    BY <2>2, <2>5 DEF Closed
  <2> QED
    BY <2>3, <2>4, <2>5, LongestIsLongest
<1>3. ASSUME NEW s \in Sessions, OpenSucceeds(s)
      PROVE  \/ circuit'[w] = circuit[w]
             \/ sess[s].at = "open" /\ sess[s].ans = "ok" /\ Worker(s) = w /\ sess'[s].at = "init"
  <2>1. sess[s] \in Session /\ DOMAIN sess = Sessions
    BY SessionTypes
  <2>2. sess'[s].at = "init"
    BY <1>3, <2>1 DEF OpenSucceeds, Become, Session
  <2>3. Worker(s) # w => circuit'[w] = circuit[w]
    BY <1>1, <1>3 DEF OpenSucceeds, ClearCircuit
  <2> QED
    BY <1>3, <2>2, <2>3 DEF OpenSucceeds
<1>4. ASSUME NEW s \in Sessions, OpenFails(s)
      PROVE  \/ UNCHANGED circuit
             \/ QuotaAnswer(Worker(s)) \/ Mark(Worker(s), "temporary", Cooldown)
  BY <1>4 DEF OpenFails
<1>5. ASSUME NEW s \in Sessions, BridgedQuota(s)
      PROVE  QuotaAnswer(Worker(s))
  BY <1>5 DEF BridgedQuota
<1>6. \/ Tick \/ UNCHANGED circuit
      \/ \E s \in Sessions : OpenSucceeds(s) \/ OpenFails(s) \/ BridgedQuota(s)
  BY DEF Next, vars, Begin, LookAtCircuit, Selected, Cancel, Connecting, CancelledBetween, Exhausted,
         CheckCircuit, SendOpen, RetryOpen, OpenAborted, DialLegacy, DialSocks, WriteInit, FirstWrite, Redial, SecondWrite, Disconnect
<1>7. CASE UNCHANGED circuit
  BY <1>7, StaysOrMark
<1>8. ASSUME NEW s \in Sessions, OpenFails(s) \/ BridgedQuota(s)
      PROVE  /\ circuit'[w].left >= circuit[w].left
             /\ circuit[w].left > Cooldown => circuit'[w].reason = "quota"
  BY <1>4, <1>5, <1>8, StaysOrMark
<1>9. circuit[w].left \in Nat
  BY <1>1, LongestIsLongest DEF Entries, Closed
<1> QED
  BY <1>2, <1>3, <1>6, <1>7, <1>8, <1>9

\* A Worker's quota is not forgotten before its time, whatever other sessions meet.
THEOREM QuotaTheorem == Spec => QuotaKept
<1>1. Inv /\ [Next]_vars =>
        [\A w \in Workers : circuit[w].reason = "quota" =>
           \/ /\ circuit'[w].left >= circuit[w].left
              /\ circuit[w].left > Cooldown => circuit'[w].reason = "quota"
           \/ \E s \in Sessions :
                sess[s].at = "open" /\ sess[s].ans = "ok" /\ Worker(s) = w /\ sess'[s].at = "init"
           \/ \A v \in Workers : circuit[v].left > 0 => circuit'[v].left = circuit[v].left - 1]_vars
  BY CircuitSteps
<1> QED
  BY <1>1, InvHolds, PTL DEF Spec, QuotaKept
=============================================================================
