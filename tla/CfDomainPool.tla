---------------------------- MODULE CfDomainPool ----------------------------
(***************************************************************************)
(* The pool of Cloudflare proxy domains (tgwsroute/cfpool.go) and the two  *)
(* kinds of attempt that use it concurrently: the MTProto connector        *)
(* (mtproto_ws_route.go) and the SOCKS fallback (routing.go).  An attempt  *)
(* asks for candidates once, then reserves and dials them one at a time.   *)
(* Reservations and cooldowns are kept per DC and domain, and the pool     *)
(* takes its mutex per call, so one DC is modelled and every call is a     *)
(* step.  Scores, rotation and exploration only order the candidates that  *)
(* are not manual: the order is left open.  A cooldown is the time left of *)
(* it, which Tick reduces.                                                 *)
(***************************************************************************)
EXTENDS Naturals, FiniteSets

CONSTANTS
  Domains,        \* normalized domains
  Builtin,        \* SetBuiltinDomains, called once at start
  InitialManual,  \* settings in force at start
  InitialCached,
  MtProto,        \* MTProto connect attempts
  Socks,          \* SOCKS fallback attempts
  Kinds,          \* CFFailureKinds that dials may end with
  C30, C120, C300, C600, C6h,   \* the cooldown lengths in Ticks
  MaxReconfigs,   \* bound on changes of the settings
  None            \* no domain

ASSUME ConstantsAssumption ==
  /\ IsFiniteSet(Domains)
  /\ Builtin \subseteq Domains
  /\ InitialManual \subseteq Domains
  /\ InitialCached \subseteq Domains
  /\ MtProto \cap Socks = {}
  /\ Kinds \subseteq {"dns", "http_429", "http_403", "http_5xx", "timeout"}
  /\ {C30, C120, C300, C600, C6h} \subseteq Nat \ {0}
  /\ C30 <= C120 /\ C120 <= C300 /\ C300 <= C600 /\ C600 <= C6h
  /\ MaxReconfigs \in Nat
  /\ None \notin Domains

Attempts == MtProto \cup Socks

VARIABLES
  manual,       \* p.manual
  cached,       \* p.cachedUpstream
  inFlight,     \* p.inFlight
  cooldown,     \* per domain, CooldownUntil - now, 0 once it has passed
  consecutive,  \* per domain, ConsecutiveFailures, 3 standing for 3 and more
  preferred,    \* p.dcPreferred[dc]
  pending,      \* the cached list setRuntimeSettings has still to apply, or None
  reconfigs,    \* how often the settings changed
  state,        \* per attempt: "idle", "choosing", "dialing", "connected", "bridging"
  todo,         \* per attempt, the candidates not looked at, with their source
  current,      \* per attempt, the candidate being dialed or used
  skipCached,   \* per attempt, skipCachedUpstream
  cancelled     \* per attempt, its context is done

poolVars   == <<inFlight, cooldown, consecutive, preferred>>
configVars == <<manual, cached, pending, reconfigs>>
vars == <<poolVars, configVars, state, todo, current, skipCached, cancelled>>

Sources == {"manual", "cached_upstream", "builtin"}
Candidates == [domain : Domains, source : Sources]

Init ==
  /\ manual = InitialManual
  /\ cached = InitialCached
  /\ inFlight = {}
  /\ cooldown = [d \in Domains |-> 0]
  /\ consecutive = [d \in Domains |-> 0]
  /\ preferred = None
  /\ pending = None
  /\ reconfigs = 0
  /\ state = [a \in Attempts |-> "idle"]
  /\ todo = [a \in Attempts |-> {}]
  /\ current = [a \in Attempts |-> None]
  /\ skipCached = [a \in Attempts |-> FALSE]
  /\ cancelled = [a \in Attempts |-> FALSE]

-----------------------------------------------------------------------------
(* The pool *)

\* sourceForLocked: what is in no list counts as built-in.
SourceOf(d) == IF d \in manual THEN "manual"
               ELSE IF d \in cached THEN "cached_upstream" ELSE "builtin"

\* The domains SelectionForDC looks at.  dcPreferred is not cleared when its
\* domain leaves the lists.
Considered == manual \cup cached \cup Builtin \cup ({preferred} \ {None})

\* SelectionForDC's Candidates.
Selection ==
  {[domain |-> d, source |-> SourceOf(d)] :
     d \in {e \in Considered : cooldown[e] = 0 /\ e \notin inFlight}}

LargerOf(x, y) == IF x > y THEN x ELSE y

\* cooldownSeconds.
CooldownSeconds(kind, failures) ==
  LET progressive == IF failures >= 3 THEN C300 ELSE IF failures = 2 THEN C120 ELSE C30
  IN  CASE kind \in {"dns", "http_5xx"} -> LargerOf(progressive, C120)
        [] kind = "http_429" -> LargerOf(progressive, C300)
        [] kind = "http_403" -> LargerOf(progressive, C600)
        [] kind = "timeout" -> progressive

\* A cached domain that does not resolve rests for six hours.
CooldownFor(d, kind, failures) ==
  IF SourceOf(d) = "cached_upstream" /\ kind = "dns" THEN C6h
  ELSE CooldownSeconds(kind, failures)

NotCooling(d) == cooldown[d] = 0   \* mutant of Reservable: inFlight is not looked at
Reservable(d) == cooldown[d] = 0 /\ d \notin inFlight

ReleaseReservation(d) ==
  /\ inFlight' = inFlight \ {d}
  /\ UNCHANGED <<cooldown, consecutive, preferred>>

\* Mutant: the reservation is left to the deferred release, which is switched off.
MarkFailureKeepsReservation(d, kind) ==
  /\ IF cooldown[d] > 0
     THEN UNCHANGED <<cooldown, consecutive>>
     ELSE LET n == IF consecutive[d] < 3 THEN consecutive[d] + 1 ELSE 3
          IN  /\ consecutive' = [consecutive EXCEPT ![d] = n]
              /\ cooldown' = [cooldown EXCEPT ![d] = CooldownFor(d, kind, n)]
  /\ UNCHANGED <<inFlight, preferred>>

\* Mutant: every failure counts, also one during a cooldown.
MarkFailureUncoalesced(d, kind) ==
  LET n == IF consecutive[d] < 3 THEN consecutive[d] + 1 ELSE 3
  IN  /\ inFlight' = inFlight \ {d}
      /\ consecutive' = [consecutive EXCEPT ![d] = n]
      /\ cooldown' = [cooldown EXCEPT ![d] = CooldownFor(d, kind, n)]
      /\ UNCHANGED preferred

\* A failure during a cooldown is coalesced into it; either way the
\* reservation of the domain goes, whoever holds it.
MarkFailure(d, kind) ==
  /\ inFlight' = inFlight \ {d}
  /\ IF cooldown[d] > 0
     THEN UNCHANGED <<cooldown, consecutive>>
     ELSE LET n == IF consecutive[d] < 3 THEN consecutive[d] + 1 ELSE 3
          IN  /\ consecutive' = [consecutive EXCEPT ![d] = n]
              /\ cooldown' = [cooldown EXCEPT ![d] = CooldownFor(d, kind, n)]
  /\ UNCHANGED preferred

MarkSuccess(d) ==
  /\ consecutive' = [consecutive EXCEPT ![d] = 0]
  /\ cooldown' = [cooldown EXCEPT ![d] = 0]
  /\ preferred' = d
  /\ UNCHANGED inFlight

\* reclassifyRemovedDomainsLocked for the lists m and c: what is in no list any
\* more loses its health and its reservation.
Reclassify(m, c) ==
  LET kept == m \cup c \cup Builtin
  IN  /\ inFlight' = inFlight \cap kept
      /\ cooldown' = [d \in Domains |-> IF d \in kept THEN cooldown[d] ELSE 0]
      /\ consecutive' = [d \in Domains |-> IF d \in kept THEN consecutive[d] ELSE 0]
      /\ UNCHANGED preferred

-----------------------------------------------------------------------------
(* The settings and the clock *)

\* setRuntimeSettings: SetManualDomains, then SetCachedUpstreamDomains.
SetManualDomains(m, c) ==
  /\ pending = None
  /\ reconfigs < MaxReconfigs
  /\ reconfigs' = reconfigs + 1
  /\ manual' = m
  /\ pending' = c
  /\ Reclassify(m, cached)
  /\ UNCHANGED <<cached, state, todo, current, skipCached, cancelled>>

SetCachedUpstreamDomains ==
  /\ pending # None
  /\ cached' = pending
  /\ pending' = None
  /\ Reclassify(manual, pending)
  /\ UNCHANGED <<manual, reconfigs, state, todo, current, skipCached, cancelled>>

ResetCooldowns ==
  /\ cooldown' = [d \in Domains |-> 0]
  /\ consecutive' = [d \in Domains |-> 0]
  /\ UNCHANGED <<inFlight, preferred, configVars, state, todo, current, skipCached,
                 cancelled>>

Tick ==
  /\ \E d \in Domains : cooldown[d] > 0
  /\ cooldown' = [d \in Domains |-> IF cooldown[d] > 0 THEN cooldown[d] - 1 ELSE 0]
  /\ UNCHANGED <<inFlight, consecutive, preferred, configVars, state, todo, current,
                 skipCached, cancelled>>

-----------------------------------------------------------------------------
(* An attempt *)

\* The attempt returns to its caller.
Return(a) ==
  /\ state' = [state EXCEPT ![a] = "idle"]
  /\ todo' = [todo EXCEPT ![a] = {}]
  /\ current' = [current EXCEPT ![a] = None]
  /\ skipCached' = [skipCached EXCEPT ![a] = FALSE]
  /\ cancelled' = [cancelled EXCEPT ![a] = FALSE]

Select(a) ==
  /\ state[a] = "idle"
  /\ Selection # {}
  /\ state' = [state EXCEPT ![a] = "choosing"]
  /\ todo' = [todo EXCEPT ![a] = Selection]
  /\ UNCHANGED <<poolVars, configVars, current, skipCached, cancelled>>

\* The context of an attempt is cancelled: its session ends.
Cancel(a) ==
  /\ state[a] \in {"choosing", "dialing"}
  /\ ~cancelled[a]
  /\ cancelled' = [cancelled EXCEPT ![a] = TRUE]
  /\ UNCHANGED <<poolVars, configVars, state, todo, current, skipCached>>

\* The next candidate: manual ones come first.
IsNext(a, c) ==
  /\ c \in todo[a]
  /\ c.source # "manual" => \A other \in todo[a] : other.source # "manual"

\* Only the MTProto connector looks at its context between candidates.
GoesOn(a) == a \in MtProto => ~cancelled[a]

\* The candidate is passed over: a cached one after a DNS failure of another
\* cached one, or one that TryReserve refuses.
PassOver(a, c) ==
  /\ state[a] = "choosing"
  /\ GoesOn(a)
  /\ IsNext(a, c)
  /\ \/ skipCached[a] /\ c.source = "cached_upstream"
     \/ ~Reservable(c.domain)
  /\ todo' = [todo EXCEPT ![a] = @ \ {c}]
  /\ UNCHANGED <<poolVars, configVars, state, current, skipCached, cancelled>>

\* TryReserve succeeds and the dial begins.
Reserve(a, c) ==
  /\ state[a] = "choosing"
  /\ GoesOn(a)
  /\ IsNext(a, c)
  /\ ~(skipCached[a] /\ c.source = "cached_upstream")
  /\ Reservable(c.domain)
  /\ inFlight' = inFlight \cup {c.domain}
  /\ state' = [state EXCEPT ![a] = "dialing"]
  /\ current' = [current EXCEPT ![a] = c]
  /\ todo' = [todo EXCEPT ![a] = @ \ {c}]
  /\ UNCHANGED <<cooldown, consecutive, preferred, configVars, skipCached, cancelled>>

\* No candidate is left, or the MTProto connector finds its context done.
GiveUp(a) ==
  /\ state[a] = "choosing"
  /\ todo[a] = {} \/ ~GoesOn(a)
  /\ Return(a)
  /\ UNCHANGED <<poolVars, configVars>>

\* The dial, or the first write on the new connection, fails.  A SOCKS attempt
\* ends here with a failure when its context is cancelled, too.
DialFails(a, kind) ==
  /\ state[a] = "dialing"
  /\ GoesOn(a)
  /\ MarkFailure(current[a].domain, kind)
  /\ skipCached' = [skipCached EXCEPT
                      ![a] = @ \/ (current[a].source = "cached_upstream" /\ kind = "dns")]
  /\ state' = [state EXCEPT ![a] = "choosing"]
  /\ current' = [current EXCEPT ![a] = None]
  /\ UNCHANGED <<configVars, todo, cancelled>>

DialCancelledLeaks(a) ==   \* mutant: the early return forgets the reservation
  /\ a \in MtProto
  /\ state[a] = "dialing"
  /\ cancelled[a]
  /\ Return(a)
  /\ UNCHANGED <<poolVars, configVars>>

\* A cancelled MTProto dial releases its reservation without a penalty.
DialCancelled(a) ==
  /\ a \in MtProto
  /\ state[a] = "dialing"
  /\ cancelled[a]
  /\ ReleaseReservation(current[a].domain)
  /\ Return(a)
  /\ UNCHANGED configVars

MtProtoConnectedLeaks(a) ==   \* mutant: no release after MarkSuccess
  /\ a \in MtProto
  /\ state[a] = "dialing"
  /\ ~cancelled[a]
  /\ MarkSuccess(current[a].domain)
  /\ Return(a)
  /\ UNCHANGED configVars

\* MTProto: MarkSuccess as soon as the stream is set up ...
MtProtoConnected(a) ==
  /\ a \in MtProto
  /\ state[a] = "dialing"
  /\ ~cancelled[a]
  /\ MarkSuccess(current[a].domain)
  /\ state' = [state EXCEPT ![a] = "connected"]
  /\ UNCHANGED <<configVars, todo, current, skipCached, cancelled>>

\* ... and then the reservation is released.
MtProtoRelease(a) ==
  /\ a \in MtProto
  /\ state[a] = "connected"
  /\ ReleaseReservation(current[a].domain)
  /\ Return(a)
  /\ UNCHANGED configVars

\* SOCKS: onConnected releases the reservation, then the session is bridged ...
SocksConnected(a) ==
  /\ a \in Socks
  /\ state[a] = "dialing"
  /\ ReleaseReservation(current[a].domain)
  /\ state' = [state EXCEPT ![a] = "bridging"]
  /\ UNCHANGED <<configVars, todo, current, skipCached, cancelled>>

\* ... and MarkSuccess follows only when the session is over.
SocksBridgeEnds(a) ==
  /\ a \in Socks
  /\ state[a] = "bridging"
  /\ MarkSuccess(current[a].domain)
  /\ Return(a)
  /\ UNCHANGED configVars

-----------------------------------------------------------------------------
AttemptStep(a) ==
  \/ \E c \in Candidates : PassOver(a, c) \/ Reserve(a, c)
  \/ GiveUp(a)
  \/ \E kind \in Kinds : DialFails(a, kind)
  \/ DialCancelled(a)
  \/ MtProtoConnected(a)
  \/ MtProtoRelease(a)
  \/ SocksConnected(a)

Next ==
  \/ \E a \in Attempts : Select(a) \/ Cancel(a) \/ AttemptStep(a)
  \/ \E a \in Socks : SocksBridgeEnds(a)
  \/ \E m, c \in SUBSET Domains : SetManualDomains(m, c)
  \/ SetCachedUpstreamDomains
  \/ ResetCooldowns
  \/ Tick

Spec == Init /\ [][Next]_vars

(* Dials have a timeout and their goroutines are scheduled; how long a     *)
(* bridged session lasts is up to its client, so SocksBridgeEnds is unfair. *)
FairSpec == Spec /\ \A a \in Attempts : WF_vars(AttemptStep(a))

-----------------------------------------------------------------------------
(* Properties *)

\* The type invariant of the pool and its attempts.
TypeOK ==
  /\ manual \subseteq Domains
  /\ cached \subseteq Domains
  /\ inFlight \subseteq Domains
  /\ cooldown \in [Domains -> 0..C6h]
  /\ consecutive \in [Domains -> 0..3]
  /\ preferred \in Domains \cup {None}
  /\ pending \in (SUBSET Domains) \cup {None}
  /\ reconfigs \in 0..MaxReconfigs
  /\ state \in [Attempts -> {"idle", "choosing", "dialing", "connected", "bridging"}]
  /\ todo \in [Attempts -> SUBSET Candidates]
  /\ current \in [Attempts -> Candidates \cup {None}]
  /\ skipCached \in [Attempts -> BOOLEAN]
  /\ cancelled \in [Attempts -> BOOLEAN]

\* The attempts that have reserved a domain and not given it back.
Holders == {a \in Attempts : state[a] \in {"dialing", "connected"}}

\* "parallel callers reserved the same endpoint" (cfpool_concurrency_test.go):
\* no two attempts are dialing one domain at the same time.
ExclusiveDial ==
  \A a, b \in Holders : current[a].domain = current[b].domain => a = b

\* A reservation never outlives the dial it was made for: on every way out of a
\* dial - success, failure, cancellation, a write that fails - it is given back,
\* and a change of the settings never leaves one behind.
NoOrphanReservation ==
  \A d \in inFlight : \E a \in Holders : current[a].domain = d

\* While the settings stand, the reservations are exactly the dials under way:
\* none is freed by a success, a failure or a release that is not its own.
ReservationsExact == inFlight = {current[a].domain : a \in Holders}

\* "TryReserve prevents a legitimate retry from starting during that interval"
\* (MarkFailure): a reserved domain is not cooling down, so a failure recorded
\* by the holder of a reservation always counts and is never coalesced away.
ReservedNotCooling == \A d \in inFlight : cooldown[d] = 0

\* A cooldown under way is cut short by a reset, a removal or a success, never
\* restarted, extended or lowered by a failure: a later failure of the same
\* burst, from a dial that a change of the settings let in, is coalesced.
FailureKeepsCooldown ==
  [][\A d \in Domains :
       cooldown[d] > 0 /\ cooldown'[d] # cooldown[d] =>
         cooldown'[d] \in {0, cooldown[d] - 1}]_vars

\* Every reservation is given back.
ReservationReleased == \A d \in Domains : (d \in inFlight) ~> (d \notin inFlight)
=============================================================================
