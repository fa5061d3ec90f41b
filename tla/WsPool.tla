------------------------------- MODULE WsPool -------------------------------
(***************************************************************************)
(* The pool of idle WebSockets to Telegram (WsPool in tg-ws-proxy.go), for *)
(* one DC and media flag, or that of preconnected Worker sockets           *)
(* (WorkerWsPool), for one key: keys share nothing but CloseAll.  A session *)
(* takes an idle socket with Get; every Get, Warmup and maintenance pass   *)
(* may start a refill, and every socket that comes in may start a          *)
(* rotation, which throws out what has become too old.  Both run in        *)
(* goroutines of their own, at most one of each as long as nobody calls    *)
(* CloseAll, which forgets the ones that are running.  A socket is stale   *)
(* when it is older than wsPoolMaxAge or its peer has closed it.           *)
(* The Worker pool keeps one socket, does not rotate, leaves a session     *)
(* that finds nothing to its own dial, and may be switched off by the host *)
(* at any time.                                                            *)
(***************************************************************************)
EXTENDS Filter, FiniteSets

CONSTANTS
  Sockets,     \* names of WebSockets, those that were closed to be used again
  Callers,     \* sessions
  PoolSize,    \* poolSize
  MaxCloses,   \* bound on the calls of CloseAll
  None         \* no socket

ASSUME PoolAssumption ==
  /\ IsFiniteSet(Sockets)
  /\ PoolSize \in Nat \ {0}
  /\ MaxCloses \in Nat
  /\ None \notin Sockets

VARIABLES
  kind,       \* "direct" (WsPool), "worker" (WorkerWsPool) or "off" (the latter, not active)
  idle,       \* p.idle[key]
  refilling,  \* p.refilling[key]
  rotating,   \* p.rotating[key]
  counting,   \* how many refill goroutines have not counted the idle sockets yet
  dialing,    \* dialing[n]: how many wait for the answers of n dials more
  rotation,   \* how many rotation goroutines are at each of their three places
  stale,      \* idle sockets that are too old or closed
  held,       \* per session, the pool's socket it uses, or None
  closes      \* how often CloseAll was called

poolVars == <<kind, idle, refilling, rotating, counting, dialing, rotation, stale, held, closes>>

InIdle == {idle[i] : i \in DOMAIN idle}

InitPool ==
  /\ kind \in {"direct", "worker"}
  /\ idle = << >>
  /\ refilling = FALSE
  /\ rotating = FALSE
  /\ counting = 0
  /\ dialing = [n \in 0..PoolSize |-> 0]
  /\ rotation = [look |-> 0, sleep |-> 0, release |-> 0]
  /\ stale = {}
  /\ held = [c \in Callers |-> None]
  /\ closes = 0

-----------------------------------------------------------------------------
(* Helpers that run with p.mu held *)

Fresh(s) == s \notin stale

ScheduleRefillUnguarded ==   \* mutant: p.refilling is not looked at
  /\ refilling' = TRUE
  /\ counting' = counting + 1

\* scheduleRefillLocked.
ScheduleRefill ==
  IF refilling \/ kind = "off" THEN UNCHANGED <<refilling, counting>>
  ELSE refilling' = TRUE /\ counting' = counting + 1

\* scheduleRotationLocked, for the list of idle sockets the caller leaves.
ScheduleRotation(bucket) ==
  IF rotating \/ bucket = << >> \/ kind # "direct" THEN UNCHANGED <<rotating, rotation>>
  ELSE rotating' = TRUE /\ rotation' = [rotation EXCEPT !.look = @ + 1]

InUse == InIdle \cup {held[c] : c \in Callers}

\* A socket a dial opened.
IsNewSocket(s) ==
  /\ Sockets \ InUse # {}
  /\ s = CHOOSE t \in Sockets : t \notin InUse

\* A socket that is closed leaves the model: its name may be dialed again.
Forget(sockets) == stale' = stale \ sockets

-----------------------------------------------------------------------------
(* A session *)

\* Get, and GetForSession, which starts no refill.
GetMiss(c) ==
  /\ kind # "off"
  /\ held[c] = None
  /\ \A i \in DOMAIN idle : ~Fresh(idle[i])
  /\ idle' = << >>
  /\ Forget(InIdle)
  /\ IF kind = "direct" THEN ScheduleRefill ELSE UNCHANGED <<refilling, counting>>
  /\ UNCHANGED <<kind, rotating, dialing, rotation, held, closes>>

GetHitKeepsBucket(c) ==   \* mutant: the shorter bucket is not stored
  /\ kind # "off"
  /\ held[c] = None
  /\ \E i \in DOMAIN idle :
       /\ Fresh(idle[i])
       /\ \A j \in 1..(i - 1) : ~Fresh(idle[j])
       /\ held' = [held EXCEPT ![c] = idle[i]]
       /\ ScheduleRotation(idle)
       /\ ScheduleRefill
  /\ UNCHANGED <<kind, idle, dialing, stale, closes>>

\* Get drops stale sockets from the front, hands out the first fresh one and
\* schedules a refill and a rotation.
GetHit(c) ==
  /\ kind # "off"
  /\ held[c] = None
  /\ \E i \in DOMAIN idle :
       /\ Fresh(idle[i])
       /\ \A j \in 1..(i - 1) : ~Fresh(idle[j])
       /\ held' = [held EXCEPT ![c] = idle[i]]
       /\ idle' = SubSeq(idle, i + 1, Len(idle))
       /\ Forget({idle[j] : j \in 1..(i - 1)})
       /\ ScheduleRotation(SubSeq(idle, i + 1, Len(idle)))
       /\ ScheduleRefill
  /\ UNCHANGED <<kind, dialing, closes>>

\* The session is over and closes its socket.
DropSocket(c) ==
  /\ held[c] # None
  /\ held' = [held EXCEPT ![c] = None]
  /\ UNCHANGED <<kind, idle, refilling, rotating, counting, dialing, rotation, stale, closes>>

-----------------------------------------------------------------------------
(* A refill goroutine *)

RefillReturnsEarly ==   \* mutant: the flag is cleared at the end, not deferred
  /\ counting > 0
  /\ counting' = counting - 1
  /\ dialing' = IF Len(idle) >= PoolSize THEN dialing
                ELSE [dialing EXCEPT ![PoolSize - Len(idle)] = @ + 1]
  /\ UNCHANGED <<kind, idle, refilling, rotating, rotation, stale, held, closes>>

\* poolSize, and workerWsPreconnectTargetSize.
Size == IF kind = "direct" THEN PoolSize ELSE 1

\* needed := poolSize - len(bucket); the dials are started.
RefillCounts ==
  /\ counting > 0
  /\ counting' = counting - 1
  /\ LET needed == IF Len(idle) >= Size THEN 0 ELSE Size - Len(idle)
     IN  dialing' = [dialing EXCEPT ![needed] = @ + 1]
  /\ UNCHANGED <<kind, idle, refilling, rotating, rotation, stale, held, closes>>

\* One of n dials has answered.
OneAnswered(n) ==
  /\ dialing[n] > 0
  /\ dialing' = [dialing EXCEPT ![n] = @ - 1, ![n - 1] = @ + 1]

RefillAppends(n) ==
  /\ OneAnswered(n)
  /\ \E s \in Sockets :
       /\ IsNewSocket(s)
       /\ idle' = Append(idle, s)
       /\ ScheduleRotation(Append(idle, s))
  /\ UNCHANGED <<kind, refilling, counting, stale, held, closes>>

RefillDialFails(n) ==
  /\ OneAnswered(n)
  /\ UNCHANGED <<kind, idle, refilling, rotating, counting, rotation, stale, held, closes>>

\* The deferred delete(p.refilling, key), whoever has set the flag.
RefillReleases ==
  /\ dialing[0] > 0
  /\ dialing' = [dialing EXCEPT ![0] = @ - 1]
  /\ refilling' = FALSE
  /\ UNCHANGED <<kind, idle, rotating, counting, rotation, stale, held, closes>>

-----------------------------------------------------------------------------
(* A rotation goroutine *)

RotationLooks ==
  /\ rotation.look > 0
  /\ rotation' = IF idle = << >>
                 THEN [rotation EXCEPT !.look = @ - 1, !.release = @ + 1]
                 ELSE [rotation EXCEPT !.look = @ - 1, !.sleep = @ + 1]
  /\ UNCHANGED <<kind, idle, refilling, rotating, counting, dialing, stale, held, closes>>

\* After the sleep: the stale ones are closed and replaced.
RotationFilters ==
  /\ rotation.sleep > 0
  /\ idle' = Keep(idle, Sockets \ stale)
  /\ stale' = {}
  /\ IF stale = {} THEN UNCHANGED <<refilling, counting>> ELSE ScheduleRefill
  /\ rotation' = IF InIdle \subseteq stale
                 THEN [rotation EXCEPT !.sleep = @ - 1, !.release = @ + 1]
                 ELSE [rotation EXCEPT !.sleep = @ - 1, !.look = @ + 1]
  /\ UNCHANGED <<kind, rotating, dialing, held, closes>>

\* The deferred delete(p.rotating, key).
RotationReleases ==
  /\ rotation.release > 0
  /\ rotation' = [rotation EXCEPT !.release = @ - 1]
  /\ rotating' = FALSE
  /\ UNCHANGED <<kind, idle, refilling, counting, dialing, stale, held, closes>>

-----------------------------------------------------------------------------
(* Maintenance, CloseAll and time *)

\* maintainOnce, its first half: stale sockets are closed, the rest is pinged.
MaintainDrops ==
  /\ idle' = Keep(idle, Sockets \ stale)
  /\ stale' = {}
  /\ UNCHANGED <<kind, refilling, rotating, counting, dialing, rotation, held, closes>>

\* Warmup, and the second half of maintainOnce.
Warmup ==
  /\ ScheduleRefill
  /\ UNCHANGED <<kind, idle, rotating, dialing, rotation, stale, held, closes>>

\* CloseAll also forgets the goroutines that are running.
CloseAll ==
  /\ closes < MaxCloses
  /\ closes' = closes + 1
  /\ idle' = << >>
  /\ stale' = {}
  /\ refilling' = FALSE
  /\ rotating' = FALSE
  /\ UNCHANGED <<kind, counting, dialing, rotation, held>>

\* The host changes MtProtoWorkerPreconnect.
SwitchPreconnect ==
  /\ kind # "direct"
  /\ kind' = IF kind = "worker" THEN "off" ELSE "worker"
  /\ UNCHANGED <<idle, refilling, rotating, counting, dialing, rotation, stale, held, closes>>

\* An idle socket grows too old, or its peer or a failed ping closes it.
GoesStale(s) ==
  /\ s \in InIdle \ stale
  /\ stale' = stale \cup {s}
  /\ UNCHANGED <<kind, idle, refilling, rotating, counting, dialing, rotation, held, closes>>

-----------------------------------------------------------------------------
Goroutine ==
  \/ RefillCounts
  \/ \E n \in 1..PoolSize : RefillAppends(n) \/ RefillDialFails(n)
  \/ RefillReleases
  \/ RotationLooks
  \/ RotationFilters
  \/ RotationReleases

Next ==
  \/ \E c \in Callers : GetMiss(c) \/ GetHit(c) \/ DropSocket(c)
  \/ Goroutine
  \/ MaintainDrops
  \/ Warmup
  \/ CloseAll
  \/ SwitchPreconnect
  \/ \E s \in Sockets : GoesStale(s)

Spec == InitPool /\ [][Next]_poolVars

(* Dials have a timeout, sleeps end and goroutines are scheduled.  The     *)
(* maintenance ticker is left out: what is promised here does not need it. *)
FairSpec ==
  /\ Spec
  /\ WF_poolVars(RefillCounts)
  /\ \A n \in 1..PoolSize : WF_poolVars(RefillAppends(n) \/ RefillDialFails(n))
  /\ WF_poolVars(RefillReleases)

-----------------------------------------------------------------------------
(* Properties *)

\* The type invariant of the pool.
TypeOK ==
  /\ kind \in {"direct", "worker", "off"}
  /\ idle \in Seq(Sockets)
  /\ refilling \in BOOLEAN
  /\ rotating \in BOOLEAN
  /\ counting \in Nat
  /\ dialing \in [0..PoolSize -> Nat]
  /\ rotation \in [look: Nat, sleep: Nat, release: Nat]
  /\ stale \subseteq InIdle
  /\ held \in [Callers -> Sockets \cup {None}]
  /\ closes \in 0..MaxCloses

\* A socket is handed to one session only and is out of the pool from then on,
\* although four kinds of goroutine rewrite the bucket.
HandedOutOnce ==
  /\ \A i, j \in DOMAIN idle : idle[i] = idle[j] => i = j
  /\ \A c \in Callers : held[c] \notin InIdle
  /\ \A c, d \in Callers : held[c] = held[d] /\ held[c] # None => c = d

\* The refill goroutines that are at work: those that have counted, by what they
\* wait for and the how manieth they are, and those that have not.
Dialers == UNION {{n} \X (1..dialing[n]) : n \in 0..PoolSize}
Refills == counting + Cardinality(Dialers)

\* Each CloseAll leaves at most one refill and one rotation more at work; the
\* forgotten goroutine's deferred delete clears a flag it no longer owns, but
\* the number of goroutines does not grow with it.
GoroutinesBounded ==
  /\ Refills <= 1 + closes
  /\ rotation.look + rotation.sleep + rotation.release <= 1 + closes

\* A pool is never left marked as refilling: on every way out of refill the flag
\* is cleared, so that later calls can fill the pool again.
RefillFlagClears == refilling ~> ~refilling
=============================================================================
