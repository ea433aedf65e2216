----------------------------- MODULE BoostRace -----------------------------
(***************************************************************************)
(* How one connection of a rule gets its upstream socket: the race of a    *)
(* cached boost winner with its hedge, the fresh Top-2 race, the same race *)
(* run by a lazy refresh, and the sequential dials of normal and round     *)
(* robin rules (controller/boost.go, connect_proxy_policy.go, normal.go).  *)
(* A racer goroutine launches one goroutine per attempt and collects their *)
(* results over a channel; each attempt passes local admission, the health *)
(* recheck and routes.begin, dials and prepares its socket on its own.     *)
(*                                                                         *)
(* Left free: the order of the candidates and their protocol penalties     *)
(* (any subset may be launched), active health, the circuits met by begin, *)
(* the time of the hedge and of the deadline, and how long an admission    *)
(* takes, which is all that tryOnly decides.  Other requests appear as     *)
(* leases that cannot be claimed.                                          *)
(***************************************************************************)
EXTENDS Naturals, FiniteSets

CONSTANTS
    Target,     \* the targets of the rule
    NoTarget,   \* no address
    Previous,   \* the winner of the last race; any target, they differ in nothing else
    MaxConnect  \* connectProxyMaxTargetAttempts

ASSUME RaceAssumption ==
    /\ IsFiniteSet(Target) /\ NoTarget \notin Target
    /\ Previous \in Target
    /\ MaxConnect \in 1..Cardinality(Target)

VARIABLES
    kind,       \* which of the decisions runs: cached, fresh, lazy, sequential
    limit,      \* targetAttemptLimit
    barred,     \* targets whose open circuit keeps them out of the selection
    cached,     \* the cached winner the decision started from
    step,       \* where the racer is
    race,       \* the racer's local variables
    att,        \* the attempt goroutines, one per target
    ctxDone,    \* the decision context is cancelled or past its deadline
    winner,     \* the result the racer keeps while it drains the others
    sock,       \* the socket of each target
    permits,    \* dial slots held
    probe,      \* targets whose protocol probe lease this request holds
    explorer,   \* target of the rule's exploration lease, if this request has it
    recovery,   \* target of the rule's recovery lease, if this request has it
    result,     \* what the decision has returned
    cache,      \* the rule's cached winner afterwards
    dialed      \* history: targets towards which a dial or pooled socket started

vars == <<kind, limit, barred, cached, step, race, att, ctxDone, winner, sock, permits,
          probe, explorer, recovery, result, cache, dialed>>

MaybeTarget == Target \cup {NoTarget}

\* What an attempt sends: its socket, or the class of error the racer tells apart.
Refusal == {"target", "global", "busy", "unhealthy", "circuit"}
Result == Refusal \cup {"ok", "fail", "neutral", "canceled"}
\* Mutant: a dial that failed on the network gives its place back as well.
MutNotStarted == {"unhealthy", "circuit", "fail"}
NotStarted == {"unhealthy", "circuit"}

Off == [st |-> "off", delayed |-> FALSE, res |-> "ok"]
Launched(delayed) == [st |-> "admit", delayed |-> delayed, res |-> "ok"]
NewRace == [attempted |-> {}, actual |-> 0, hedging |-> FALSE, delayedHedge |-> FALSE,
            primaryFailed |-> FALSE, stop |-> FALSE, verdict |-> "none", timer |-> "off"]

\* The racer has read the result of t; that of the cached route is remembered.
Taken(t) == [att EXCEPT ![t] = IF t = cached THEN [Off EXCEPT !.res = att[t].res] ELSE Off]

Active == {t \in Target : att[t].st # "off"}
\* raceCtx ends with its parent, and when the racer has made up its mind.
Cancelled == ctxDone \/ step # "racing"
Top == IF kind = "sequential" THEN 1 ELSE 2

Init ==
    /\ limit \in {MaxConnect, Cardinality(Target)}
    /\ kind \in {"boost", "sequential"}
          \cup (IF limit = Cardinality(Target) THEN {"lazy"} ELSE {})
    /\ barred \in (IF kind = "sequential" THEN {{}} ELSE SUBSET Target)
    /\ cached \in {NoTarget} \cup (IF kind = "boost" THEN {Previous} ELSE {})
    /\ cache = cached
    /\ step = IF kind = "boost" THEN "claim" ELSE "start"
    /\ race = NewRace
    /\ att = [t \in Target |-> Off]
    /\ ctxDone = FALSE
    /\ winner = NoTarget
    /\ sock = [t \in Target |-> "none"]
    /\ permits = {} /\ probe = {} /\ dialed = {}
    /\ explorer = NoTarget /\ recovery = NoTarget
    /\ result = "pending"

----------------------------------------------------------------------------
(* handleBoost before the race: a due circuit recovery bypasses the cache. *)

config == <<limit, barred, cached>>
attempts == <<att, sock, permits, explorer, dialed>>

\* claimRecoveryProbe reserves the rule's one recovery request.
ClaimRecovery(t) ==
    /\ step = "claim" /\ t \in barred
    /\ recovery' = t
    /\ step' = "claimed"
    /\ UNCHANGED <<config, attempts, kind, race, ctxDone, winner, probe, result, cache>>

\* The target is penalised: its protocol canary is claimed as well, and given
\* back with the recovery when the rule's HTTP/3 policy has changed meanwhile.
ClaimCanary ==
    /\ step = "claimed"
    /\ probe' = {recovery}
    /\ step' = "probed"
    /\ UNCHANGED <<config, attempts, kind, race, ctxDone, winner, recovery, result, cache>>

\* No penalty, or none of the rule's routes is without one.
KeepRecovery ==
    /\ step \in {"claimed", "probed"}
    /\ kind' = "fresh"
    /\ step' = "start"
    /\ UNCHANGED <<config, attempts, race, ctxDone, winner, probe, recovery, result, cache>>

GiveUpRecovery ==
    /\ step \in {"claimed", "probed"}
    /\ probe' = {} /\ recovery' = NoTarget
    /\ step' = "lookup"
    /\ UNCHANGED <<config, attempts, kind, race, ctxDone, winner, result, cache>>

NoRecovery ==
    /\ step = "claim"
    /\ step' = "lookup"
    /\ UNCHANGED <<config, attempts, kind, race, ctxDone, winner, probe, recovery, result, cache>>

\* loadUsableBoostWinnerToken: no winner, or one that has expired, whose circuit
\* is open or whose protocol is degraded, and which is dropped.
Hit ==
    /\ step = "lookup" /\ cached \in Target \ barred
    /\ kind' = "cached"
    /\ step' = "start"
    /\ UNCHANGED <<config, attempts, race, ctxDone, winner, probe, recovery, result, cache>>

Miss ==
    /\ step = "lookup"
    /\ kind' = "fresh" /\ cache' = NoTarget
    /\ step' = "start"
    /\ UNCHANGED <<config, attempts, race, ctxDone, winner, probe, recovery, result>>

----------------------------------------------------------------------------
(* Launching.  An outcome of launchAlternatives or launchAvailable: the    *)
(* candidates it launched and those it skipped for their health or for an  *)
(* exploration a sibling owns, the protocol canary it reserved, and the    *)
(* explorer.  When nothing could be launched it has gone through them all. *)

Selectable(r) ==
    Target \ (r.attempted \cup (barred \ {recovery}))

Smaller(a, b) == IF a < b THEN a ELSE b

Launches(r, running) ==
    LET free == Selectable(r)
        room == IF running >= Top \/ r.actual >= limit THEN 0
                ELSE Smaller(Top - running, limit - r.actual)
        canaryDue == recovery \in free
        reserves == recovery = NoTarget /\ running = 0 /\ r.actual = 0 /\ kind # "sequential"
    IN  {o \in [run : SUBSET free, skip : SUBSET free,
                reserved : {NoTarget} \cup free, explores : {NoTarget} \cup free] :
           /\ o.run \cap o.skip = {}
           /\ Cardinality(o.run) <= room
           /\ room = 0 => o.skip = {}
           /\ room > 0 /\ o.run = {} => o.skip = free
           /\ kind = "sequential" => o.skip = {}
           /\ canaryDue /\ room > 0 => recovery \in o.skip \/ (o.run = {recovery} /\ o.skip = {})
           /\ o.reserved # NoTarget =>
                /\ reserves /\ room > 0
                /\ o.reserved \in o.skip \/ (o.run = {o.reserved} /\ o.skip = {})
           /\ o.explores # NoTarget =>
                /\ o.explores \in o.run /\ o.reserved = NoTarget /\ o.explores # recovery
                /\ kind # "sequential"
                /\ Cardinality(free \ {recovery}) > 2}

\* The racer's next state: r are its variables, a the attempts without the
\* result it has just handled.
Launch(r, a, delayed) ==
    \E o \in Launches(r, Cardinality({t \in Target : a[t].st # "off"})) :
        /\ race' = [r EXCEPT !.attempted = @ \cup o.run \cup o.skip,
                             !.actual = @ + Cardinality(o.run)]
        /\ att' = [t \in Target |-> IF t \in o.run THEN Launched(delayed) ELSE a[t]]
        /\ probe' = (probe \ o.skip) \cup (o.run \cap {o.reserved})
        /\ explorer' = IF o.explores # NoTarget THEN o.explores ELSE explorer

----------------------------------------------------------------------------
(* The racer. *)

outside == <<config, sock, permits, recovery, dialed>>

\* A decision whose context has ended already makes no attempt.  The loop of
\* a normal TCP rule has no such check.
ReturnEarly ==
    /\ step = "start" /\ ctxDone
    /\ kind = "sequential" => limit = MaxConnect
    /\ step' = "returned" /\ result' = "failed"
    /\ UNCHANGED <<config, attempts, kind, race, ctxDone, winner, probe, recovery, cache>>

\* raceCachedBoostTarget starts the cached route alone.  With the protocol
\* canary of that route in hand it arms no hedge.
StartCached ==
    /\ step = "start" /\ kind = "cached" /\ ~ctxDone
    /\ \E hedge, canary \in BOOLEAN :
          /\ race' = [race EXCEPT !.attempted = {cached}, !.actual = 1,
                                  !.timer = IF hedge /\ ~canary THEN "idle" ELSE "off"]
          /\ probe' = IF canary THEN {cached} ELSE {}
    /\ att' = [att EXCEPT ![cached] = Launched(FALSE)]
    /\ step' = "racing"
    /\ UNCHANGED <<outside, kind, ctxDone, winner, explorer, result, cache>>

StartFresh ==
    /\ step = "start" /\ kind # "cached"
    /\ ctxDone => kind = "sequential" /\ limit # MaxConnect
    /\ Launch(race, att, FALSE)
    /\ step' = "racing"
    /\ UNCHANGED <<outside, kind, ctxDone, winner, result, cache>>

OneLess(r) == IF r.actual > 0 THEN r.actual - 1 ELSE 0

\* The variables of a cached race after the error of t.
PrimaryDown(r, verdict) ==
    [r EXCEPT !.verdict = verdict, !.primaryFailed = TRUE, !.delayedHedge = FALSE,
              !.hedging = TRUE, !.timer = "off"]

IsDelayedMiss(t) == att[t].res \in {"target", "global"} /\ att[t].delayed /\ t # cached

AfterCached(t) ==
    LET res == att[t].res
        missed == [race EXCEPT !.actual = OneLess(race)]
    IN  CASE res \in NotStarted /\ t = cached -> PrimaryDown(missed, "failed")
          [] res \in NotStarted /\ t # cached -> missed
          [] IsDelayedMiss(t) ->
               [missed EXCEPT !.attempted = @ \ {t},
                              !.delayedHedge = @ /\ ~race.primaryFailed]
          [] res = "target" /\ ~IsDelayedMiss(t) ->
               [missed EXCEPT !.delayedHedge = FALSE, !.hedging = TRUE, !.timer = "off"]
          [] res = "global" /\ ~IsDelayedMiss(t) -> [race EXCEPT !.stop = TRUE, !.timer = "off"]
          [] res \in {"fail", "neutral", "canceled"} ->
               IF t # cached THEN race
               ELSE LET v == CASE res = "fail" -> "failed" [] res = "neutral" -> "neutral"
                               [] res = "canceled" -> race.verdict
                        down == PrimaryDown(race, v)
                    IN  [down EXCEPT !.primaryFailed = race.primaryFailed \/ res # "canceled",
                                     !.delayedHedge = IF race.stop THEN race.delayedHedge ELSE @,
                                     !.hedging = race.hedging \/ ~race.stop]

\* Mutant: a hedge that found no slot is forgotten, primary failed or not.
MutRefillsCached(t, r) ==
    ~IsDelayedMiss(t) /\ att[t].res # "global" /\ r.hedging /\ ~r.stop

RefillsCached(t, r) ==
    CASE IsDelayedMiss(t) -> r.primaryFailed /\ ~r.stop
      [] ~IsDelayedMiss(t) /\ att[t].res = "global" -> FALSE
      [] ~IsDelayedMiss(t) /\ att[t].res = "target" -> ~r.stop
      [] att[t].res \notin {"target", "global"} -> r.hedging /\ ~r.stop

\* The variables of any other decision after the error of t.
AfterFresh(t) ==
    LET res == att[t].res
    IN  CASE res \in NotStarted \cup {"target"} -> [race EXCEPT !.actual = OneLess(race)]
          [] res \in {"global", "busy"} -> [race EXCEPT !.stop = TRUE]
          [] res \in {"fail", "neutral", "canceled"} -> race

\* Per-target saturation refills the fresh race even after global saturation.
RefillsFresh(t, r) == att[t].res = "target" \/ ~r.stop

\* The next target of a CONNECT is tried only while its context lasts.
RefillsSequential(r) == ~r.stop /\ (ctxDone => limit # MaxConnect)

Refills(t, r) ==
    CASE kind = "cached" -> RefillsCached(t, r)
      [] kind = "sequential" -> RefillsSequential(r)
      [] kind \in {"fresh", "lazy"} -> RefillsFresh(t, r)

Collect(t) ==
    /\ step = "racing" /\ att[t].st = "sent"
    /\ IF att[t].res = "ok"
       THEN /\ winner' = t /\ step' = "draining"
            /\ att' = Taken(t)
            /\ UNCHANGED <<race, probe, explorer>>
       ELSE LET r == IF kind = "cached" THEN AfterCached(t) ELSE AfterFresh(t)
                a == Taken(t)
            IN  /\ IF Refills(t, r)
                   THEN Launch(r, a, r.delayedHedge)
                   ELSE race' = r /\ att' = a /\ UNCHANGED <<probe, explorer>>
                /\ UNCHANGED <<winner, step>>
    /\ UNCHANGED <<outside, kind, ctxDone, result, cache>>

\* The hedge timer: one immediate-admission alternative beside the slow primary.
HedgeReady ==
    /\ step = "racing" /\ race.timer = "armed" /\ Active # {}
    /\ Launch([race EXCEPT !.timer = "off", !.hedging = TRUE, !.delayedHedge = TRUE], att, TRUE)
    /\ UNCHANGED <<outside, kind, ctxDone, winner, step, result, cache>>

\* The select of the race sees its context end and keeps no result.
ContextEnds ==
    /\ step = "racing" /\ ctxDone /\ Active # {} /\ kind # "sequential"
    /\ step' = "draining"
    /\ UNCHANGED <<outside, att, explorer, probe, kind, race, ctxDone, winner, result, cache>>

\* Mutant: the losers are counted but not closed.
MutDrain(t) ==
    /\ step = "draining" /\ att[t].st = "sent"
    /\ att' = Taken(t)
    /\ UNCHANGED <<outside, kind, race, ctxDone, winner, probe, explorer, step, result, cache>>

\* A late result: its socket is closed.
Drain(t) ==
    /\ step = "draining" /\ att[t].st = "sent"
    /\ att' = Taken(t)
    /\ sock' = IF att[t].res = "ok" THEN [sock EXCEPT ![t] = "closed"] ELSE sock
    /\ UNCHANGED <<config, permits, recovery, dialed, kind, race, ctxDone, winner, probe, explorer,
                   step, result, cache>>

\* The fresh race watches its context while it waits for the losers.
AbandonWinner ==
    /\ step = "draining" /\ kind \in {"fresh", "lazy"} /\ winner # NoTarget
    /\ ctxDone /\ Active # {}
    /\ sock' = [sock EXCEPT ![winner] = "closed"]
    /\ winner' = NoTarget
    /\ UNCHANGED <<config, att, permits, recovery, dialed, kind, race, ctxDone, probe, explorer,
                   step, result, cache>>

\* reconcileCachedBoostWinner, or the publication of a fresh winner.  The
\* fences of these writes are BoostWinner's.
CacheAfter ==
    CASE kind = "sequential" -> cache
      [] kind = "cached" ->
           (CASE winner = NoTarget -> IF race.verdict = "failed" THEN NoTarget ELSE cache
              [] winner # NoTarget ->
                   IF winner = cached \/ race.verdict = "neutral" THEN cache ELSE winner)
      [] kind \in {"fresh", "lazy"} -> IF winner = NoTarget THEN cache ELSE winner

Return ==
    /\ step \in {"racing", "draining"} /\ Active = {}
    /\ step' = "returned"
    /\ result' = IF winner = NoTarget THEN "failed" ELSE "won"
    /\ sock' = [t \in Target |-> IF t = winner THEN "handed" ELSE sock[t]]
    /\ cache' = CacheAfter
    /\ UNCHANGED <<config, att, permits, recovery, dialed, kind, race, ctxDone, winner, probe,
                   explorer>>

\* The deferred releaseBoostRecoveryProbe.
Finish ==
    /\ step = "returned"
    /\ step' = "over"
    /\ probe' = probe \ {recovery} /\ recovery' = NoTarget
    /\ UNCHANGED <<config, attempts, kind, race, ctxDone, winner, result, cache>>

CtxExpires ==
    /\ ~ctxDone /\ step \notin {"returned", "over"}
    /\ ctxDone' = TRUE
    /\ UNCHANGED <<config, attempts, kind, race, winner, probe, recovery, step, result, cache>>

----------------------------------------------------------------------------
(* The attempt goroutines. *)

racer == <<config, kind, ctxDone, winner, step, recovery, result, cache>>

\* outboundDialRouteWithOptions serves the cached race and the sequential
\* dials: it looks at its context and at active health first and may take a
\* prewarmed socket.  The fresh race dials by itself after admission.
Prewarmed == kind \in {"cached", "sequential"}

\* Mutant: finish forgets the exploration lease.
MutSend(t, res) ==
    /\ att' = [att EXCEPT ![t].st = "sent", ![t].res = res]
    /\ probe' = probe \ {t}
    /\ UNCHANGED explorer

\* finish: the leases of the attempt are given back before the result is sent.
Send(t, res) ==
    /\ att' = [att EXCEPT ![t].st = "sent", ![t].res = res]
    /\ probe' = probe \ {t}
    /\ explorer' = IF explorer = t THEN NoTarget ELSE explorer

Proceed(t, st) ==
    /\ att' = [att EXCEPT ![t].st = st]
    /\ UNCHANGED <<probe, explorer>>

\* A foreground admission that ends with its context is a bulkhead error that
\* names no target; maintenance admission returns the context's own error.
Refused(t) ==
    /\ att[t].st = "admit"
    /\ \/ kind # "lazy" /\ \E res \in {"target", "global"} : Send(t, res)
       \/ kind = "lazy" /\ Send(t, "busy")
       \/ Prewarmed /\ Send(t, "unhealthy")
       \/ /\ Cancelled /\ (Prewarmed \/ kind = "lazy")
          /\ \E res \in {"canceled", "fail"} : Send(t, res)
    /\ UNCHANGED <<racer, race, sock, permits, dialed>>

Acquire(t) ==
    /\ att[t].st = "admit"
    /\ permits' = permits \cup {t}
    /\ Proceed(t, "check")
    /\ UNCHANGED <<racer, race, sock, dialed>>

TakePooled(t) ==
    /\ att[t].st = "admit" /\ Prewarmed
    /\ sock' = [sock EXCEPT ![t] = "open"]
    /\ Proceed(t, "check")
    /\ UNCHANGED <<racer, race, permits, dialed>>

\* After admission: the context for a pooled socket, active health and, for a
\* recovery canary, the rule's HTTP/3 policy for a fresh dial, then begin.
CheckFails(t) ==
    /\ att[t].st = "check"
    /\ \/ sock[t] = "none" /\ Send(t, "unhealthy")
       \/ sock[t] = "open" /\ Cancelled /\ \E res \in {"canceled", "fail"} : Send(t, res)
       \/ Send(t, "circuit")
    /\ sock' = IF sock[t] = "open" THEN [sock EXCEPT ![t] = "closed"] ELSE sock
    /\ permits' = permits \ {t}
    /\ UNCHANGED <<racer, race, dialed>>

\* begin admits the attempt; onStart arms the hedge of the cached route, unless
\* the deadline is nearer than the hedge.
Begin(t) ==
    /\ att[t].st = "check"
    /\ dialed' = dialed \cup {t}
    /\ Proceed(t, IF sock[t] = "open" THEN "prepare" ELSE "dial")
    /\ \/ /\ t = cached /\ race.timer = "idle"
          /\ race' = [race EXCEPT !.timer = "armed"]
       \/ UNCHANGED race
    /\ UNCHANGED <<racer, sock, permits>>

DialSucceeds(t) ==
    /\ att[t].st = "dial"
    /\ sock' = [sock EXCEPT ![t] = "open"]
    /\ permits' = permits \ {t}
    /\ Proceed(t, "prepare")
    /\ UNCHANGED <<racer, race, dialed>>

\* Only a CONNECT target can answer without serving (neutral).
DialFails(t) ==
    /\ att[t].st = "dial"
    /\ permits' = permits \ {t}
    /\ \/ Send(t, "fail")
       \/ limit = MaxConnect /\ Send(t, "neutral")
       \/ Cancelled /\ Send(t, "canceled")
    /\ UNCHANGED <<racer, race, sock, dialed>>

\* prepare, the outbound PROXY protocol header where the rule sends one.
Prepared(t) ==
    /\ att[t].st = "prepare"
    /\ Send(t, "ok")
    /\ UNCHANGED <<racer, race, sock, permits, dialed>>

PrepareFails(t) ==
    /\ att[t].st = "prepare"
    /\ sock' = [sock EXCEPT ![t] = "closed"]
    /\ \E res \in {"fail"} \cup (IF Cancelled THEN {"canceled"} ELSE {}) : Send(t, res)
    /\ UNCHANGED <<racer, race, permits, dialed>>

----------------------------------------------------------------------------
AttemptStep(t) ==
    \/ Refused(t) \/ Acquire(t) \/ TakePooled(t) \/ CheckFails(t) \/ Begin(t)
    \/ DialSucceeds(t) \/ DialFails(t) \/ Prepared(t) \/ PrepareFails(t)

BeforeRace ==
    \/ \E t \in Target : ClaimRecovery(t)
    \/ ClaimCanary \/ KeepRecovery \/ GiveUpRecovery \/ NoRecovery \/ Hit \/ Miss

RacerStep ==
    \/ ReturnEarly \/ StartCached \/ StartFresh
    \/ \E t \in Target : Collect(t) \/ Drain(t)
    \/ ContextEnds \/ AbandonWinner \/ Return \/ Finish

Next ==
    \/ BeforeRace
    \/ RacerStep
    \/ HedgeReady
    \/ CtxExpires
    \/ \E t \in Target : AttemptStep(t)

\* Admission waits for a bounded time, dials and header writes have a timeout
\* of their own (dialTimeout, proxyProtocolHeaderTimeout), and the racer reads
\* whatever is in its channel.  Neither the hedge nor the end of the context is
\* relied on.
Spec ==
    /\ Init /\ [][Next]_vars
    /\ WF_vars(BeforeRace) /\ WF_vars(RacerStep)
    /\ \A t \in Target : WF_vars(AttemptStep(t))

----------------------------------------------------------------------------
Steps == {"claim", "claimed", "probed", "lookup", "start", "racing", "draining", "returned", "over"}

TypeOK ==
    /\ kind \in {"boost", "cached", "fresh", "lazy", "sequential"}
    /\ limit \in {MaxConnect, Cardinality(Target)}
    /\ barred \subseteq Target
    /\ {cached, winner, explorer, recovery, cache} \subseteq MaybeTarget
    /\ step \in Steps
    /\ race \in [attempted : SUBSET Target, actual : 0..limit, hedging : BOOLEAN,
                 delayedHedge : BOOLEAN, primaryFailed : BOOLEAN, stop : BOOLEAN,
                 verdict : {"none", "failed", "neutral"}, timer : {"off", "idle", "armed"}]
    /\ att \in [Target -> [st : {"off", "admit", "check", "dial", "prepare", "sent"},
                           delayed : BOOLEAN, res : Result]]
    /\ ctxDone \in BOOLEAN
    /\ sock \in [Target -> {"none", "open", "closed", "handed"}]
    /\ {permits, probe, dialed} \subseteq SUBSET Target
    /\ result \in {"pending", "won", "failed"}

\* Every lease a decision has taken belongs to an attempt that still runs or to
\* the recovery it was claimed for, and after the decision nothing is held: no
\* dial slot, protocol canary, exploration or recovery lease and no goroutine
\* outlives a race, whichever of its many returns was taken.
NothingLeftBehind ==
    /\ TypeOK
    /\ permits = {t \in Target : att[t].st \in {"check", "dial"} /\ sock[t] = "none"}
    /\ probe \subseteq Active \cup {recovery}
    /\ explorer \in Active \cup {NoTarget}
    /\ step = "over" => Active = {} /\ probe = {} /\ recovery = NoTarget

\* The Top-2 bound and the target budget of a CONNECT, which hold although
\* attempts refused before any network dial give their place to another target;
\* and a recovery canary, of a circuit or of a protocol, is never raced against
\* another route, which would cancel it before it has its evidence.
BudgetHeld ==
    /\ Cardinality(Active) <= Top
    /\ Cardinality(dialed) <= limit
    /\ \A t \in Active \cap (probe \cup {recovery}) : Active = {t}

\* A decision that fails while its client still waits and no local capacity ran
\* out has used its budget or tried every target the selector offers, a hedge
\* that found no slot included; and the cached winner is lost to a failed race
\* only for what its own route did, never for local saturation.
OutcomeEarned ==
    /\ result = "failed" /\ ~ctxDone /\ ~race.stop =>
         race.actual = limit \/ Selectable(race) = {}
    /\ kind = "cached" /\ result = "failed" /\ cache # cached =>
         att[cached].res \in NotStarted \cup {"fail"}

Outcome == INSTANCE RaceOutcome WITH Target <- Target, sock <- sock, result <- result

\* The refinement: whatever the order of results, cancellations and deadlines,
\* each socket opened for a decision is handed to its handler or closed before
\* the decision returns, at most one is handed over, and the decision returns.
ImplementsOutcome == Outcome!Spec
=============================================================================
