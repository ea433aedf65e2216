----------------------------- MODULE RouteHealth -----------------------------
(***************************************************************************)
(* The passive circuit breaker of one rule (controller/route_health.go):   *)
(* begin admits an attempt or claims the single half-open probe, observe   *)
(* applies its outcome, and relay reports come back much later, possibly   *)
(* after the circuit opened, was probed and recovered.  Every registry     *)
(* critical section is one action; RegistryTick lets one unit of time      *)
(* pass for every route.  A fresh dial observes its attempt once.  A       *)
(* pooled connection is handed out with an attempt that nobody observes,   *)
(* so that a half-open slot it claimed stays claimed: module OutboundDial  *)
(* has the caller and the pool.                                            *)
(***************************************************************************)
EXTENDS RouteBreaker

CONSTANTS
    Route,            \* the rule's target addresses
    Setup,            \* physical setups whose failure several attempts share
    Private           \* a failure that belongs to no shared setup

ASSUME RouteAssumption ==
    /\ MaxAttempts \in Nat
    /\ Private \notin Setup

VARIABLES
    route,        \* registry.states: one routeHealthState per address (a missing
                  \* entry reads as NewState, and begin creates it)
    claimed,      \* routeFailureGroup.claimed of the shared setups
    phase,        \* what each client does with its attempt; a dial that was admitted
                  \* by claiming the half-open slot is told apart as "probing"
    at,           \* the address of the client's attempt
    preRecovery,  \* history: clients whose attempt predates a recovery of its route
    stranded      \* history: routes whose half-open slot went to a pooled connection

registryVars == <<route, nextAttempt, claimed, phase, at, id, preRecovery, stranded>>

RegistryTypeOK ==
    /\ route \in [Route -> RouteState]
    /\ nextAttempt \in 0..MaxAttempts
    /\ claimed \in SUBSET (Setup \X Route)
    /\ phase \in [Client -> {"idle", "pooled", "dialing", "probing", "relaying"}]
    /\ at \in [Client -> Route]
    /\ id \in [Client -> 0..MaxAttempts]
    /\ preRecovery \in SUBSET Client
    /\ stranded \in SUBSET Route

RegistryInit ==
    /\ route = [r \in Route |-> NewState]
    /\ nextAttempt = 0
    /\ claimed = {}
    /\ phase = [c \in Client |-> "idle"]
    /\ at \in [Client -> Route]
    /\ id = [c \in Client |-> 0]
    /\ preRecovery = {}
    /\ stranded = {}

-----------------------------------------------------------------------------
SetRoute(r, s) == route' = [route EXCEPT ![r] = s]
SetPhase(c, p) == phase' = [phase EXCEPT ![c] = p]

Dialing(c) == phase[c] \in {"dialing", "probing"}
Attempting(c) == phase[c] \notin {"idle", "pooled"}

Begin(c, r) ==
    /\ phase[c] = "idle"
    /\ nextAttempt < MaxAttempts
    /\ ~BeginRefused(route[r])
    /\ nextAttempt' = nextAttempt + 1
    /\ SetRoute(r, AfterBegin(route[r], nextAttempt + 1))
    /\ SetPhase(c, IF route[r].circuitOpen THEN "probing" ELSE "dialing")
    /\ at' = [at EXCEPT ![c] = r]
    /\ id' = [id EXCEPT ![c] = nextAttempt + 1]
    /\ preRecovery' = preRecovery \ {c}
    /\ UNCHANGED <<claimed, stranded>>

\* An idle connection is taken from the pool on a snapshot of the route that
\* does not ask for a probe; begin follows later, with a clock of its own.
PopPooled(c, r) ==
    /\ phase[c] = "idle"
    /\ ~ProbeRequired(route[r])
    /\ SetPhase(c, "pooled")
    /\ at' = [at EXCEPT ![c] = r]
    /\ UNCHANGED <<route, nextAttempt, claimed, id, preRecovery, stranded>>

\* The pooled connection is handed out with its attempt, which nobody
\* observes; when the cooldown has ended meanwhile, begin takes it for the
\* probe.
BeginReused(c) ==
    LET r == at[c]
    IN  /\ phase[c] = "pooled"
        /\ nextAttempt < MaxAttempts
        /\ ~BeginRefused(route[r])
        /\ nextAttempt' = nextAttempt + 1
        /\ SetRoute(r, AfterBegin(route[r], nextAttempt + 1))
        /\ SetPhase(c, "relaying")
        /\ id' = [id EXCEPT ![c] = nextAttempt + 1]
        /\ preRecovery' = preRecovery \ {c}
        /\ stranded' = stranded \cup {q \in {r} : route[q].circuitOpen}
        /\ UNCHANGED <<claimed, at>>

\* begin refuses, and the pooled connection is closed.
RefuseReused(c) ==
    /\ phase[c] = "pooled"
    /\ BeginRefused(route[at[c]])
    /\ SetPhase(c, "idle")
    /\ UNCHANGED <<route, nextAttempt, claimed, at, id, preRecovery, stranded>>

\* The dial was cancelled: its race was lost or its client went away.
ObserveNeutral(c) ==
    /\ Dialing(c)
    /\ SetRoute(at[c], AfterNeutral(route[at[c]], id[c]))
    /\ SetPhase(c, "idle")
    /\ UNCHANGED <<nextAttempt, claimed, at, id, preRecovery, stranded>>

\* Every other attempt in progress on a route that a probe just recovered
\* belongs to the past.
Recovered(c) ==
    preRecovery' =
        IF OwnsProbe(route[at[c]], id[c]) /\ ~ObserveIgnored(route[at[c]], id[c])
        THEN preRecovery \cup {d \in Client : d # c /\ Attempting(d) /\ at[d] = at[c]}
        ELSE preRecovery

ObserveReachable(c) ==
    /\ Dialing(c)
    /\ SetRoute(at[c], AfterReachable(route[at[c]], id[c]))
    /\ SetPhase(c, "idle")
    /\ Recovered(c)
    /\ UNCHANGED <<nextAttempt, claimed, at, id, stranded>>

ObserveSuccess(c) ==
    /\ Dialing(c)
    /\ SetRoute(at[c], AfterSuccess(route[at[c]], id[c]))
    /\ SetPhase(c, "relaying")
    /\ Recovered(c)
    /\ UNCHANGED <<nextAttempt, claimed, at, id, stranded>>

\* The dial failed on its own, or as one of several attempts that waited for
\* the setup g: only the first of these per route is evidence, the others are
\* neutral.  claim is reached only when the outcome is not ignored.
ObserveFailure(c, g) ==
    LET r == at[c]
        s == route[r]
        duplicate == g # Private /\ <<g, r>> \in claimed
    IN  /\ Dialing(c)
        /\ SetRoute(r, IF duplicate THEN AfterNeutral(s, id[c])
                                    ELSE AfterFailure(s, id[c]))
        /\ claimed' = IF g = Private \/ ObserveIgnored(s, id[c])
                      THEN claimed ELSE claimed \cup {<<g, r>>}
        /\ SetPhase(c, "idle")
        /\ UNCHANGED <<nextAttempt, at, id, preRecovery, stranded>>

\* The PROXY protocol header could not be written to the new connection.
ReportFailure(c) ==
    /\ phase[c] = "relaying"
    /\ SetRoute(at[c], AfterReportFailure(route[at[c]], id[c]))
    /\ SetPhase(c, "idle")
    /\ UNCHANGED <<nextAttempt, claimed, at, id, preRecovery, stranded>>

\* The relay ended without error and carried traffic.
ReportSuccess(c) ==
    /\ phase[c] = "relaying"
    /\ SetRoute(at[c], AfterReportSuccess(route[at[c]], id[c]))
    /\ SetPhase(c, "idle")
    /\ UNCHANGED <<nextAttempt, claimed, at, id, preRecovery, stranded>>

\* A relay that ended with an ambiguous copy error reports nothing.
EndRelay(c) ==
    /\ phase[c] = "relaying"
    /\ SetPhase(c, "idle")
    /\ UNCHANGED <<route, nextAttempt, claimed, at, id, preRecovery, stranded>>

\* A reload that leaves this rule unchanged: inheritUnchangedState copies the
\* states into the new generation's registry without the half-open ownership
\* and the fence, which name attempts of the old registry.  Attempts in
\* progress go on reporting there and are lost to the new one.
Reload ==
    /\ route' = [r \in Route |-> [ReleaseProbe(route[r]) EXCEPT !.minValidAttempt = 0]]
    /\ nextAttempt' = 0
    /\ claimed' = {}
    /\ phase' = [c \in Client |-> "idle"]
    /\ preRecovery' = {}
    /\ stranded' = {}
    /\ UNCHANGED <<at, id>>

RegistryTick ==
    /\ \E r \in Route : route[r].left > 0
    /\ route' = [r \in Route |-> AfterTick(route[r])]
    /\ UNCHANGED <<nextAttempt, claimed, phase, at, id, preRecovery, stranded>>

Observe(c) ==
    \/ ObserveNeutral(c)
    \/ ObserveReachable(c)
    \/ ObserveSuccess(c)
    \/ \E g \in Setup \cup {Private} : ObserveFailure(c, g)

Report(c) == ReportFailure(c) \/ ReportSuccess(c) \/ EndRelay(c)

RegistryNext ==
    \/ \E c \in Client :
         \/ \E r \in Route : Begin(c, r) \/ PopPooled(c, r)
         \/ BeginReused(c) \/ RefuseReused(c)
         \/ Observe(c)
         \/ Report(c)
    \/ Reload
    \/ RegistryTick

RegistrySpec == RegistryInit /\ [][RegistryNext]_registryVars

\* A fresh dial ends by its own or its rule's timeout, and time passes.  No
\* fairness brings an outcome for a pooled connection: Observe is not enabled
\* for one, and its relay may last as long as it likes.
RegistryFairSpec ==
    /\ RegistrySpec
    /\ WF_registryVars(RegistryTick)
    /\ \A c \in Client : WF_registryVars(Observe(c))

-----------------------------------------------------------------------------
\* The dials in progress that were admitted to probe r.
Probers(r) == {c \in Client : phase[c] = "probing" /\ at[c] = r}

\* The half-open slot is claimed exactly while one admitted probe is in
\* progress, or since a pooled connection took it: two probes never share it,
\* no dial leaves it behind, and nothing but a reload takes it back from a
\* pooled connection.
HalfOpenOwned ==
    \A r \in Route :
        /\ route[r].halfOpen =>
             /\ route[r].circuitOpen /\ route[r].left = 0
             /\ r \notin stranded =>
                  \E c \in Client : Probers(r) = {c} /\ id[c] = route[r].halfOpenAttempt
        /\ ~route[r].halfOpen \/ r \in stranded => Probers(r) = {}
        /\ r \in stranded => route[r].halfOpen

\* minValidAttempt separates the attempts admitted before the last recovery of
\* a route from those admitted after it, although only a number is compared.
FenceSeparates ==
    \A c \in Client :
        Attempting(c) =>
            (c \in preRecovery <=> id[c] < route[at[c]].minValidAttempt)

\* Late outcomes of attempts admitted before a recovery are never evidence
\* against the recovered route: no failure streak grows on their account.
NoPreRecoveryEvidence ==
    [][\A c \in preRecovery :
         Attempting(c) /\ phase'[c] = "idle"
         => /\ route'[at[c]].consecutiveFailures <= route[at[c]].consecutiveFailures
            /\ route'[at[c]].relayFailures <= route[at[c]].relayFailures]_registryVars

\* The breaker is never open without a cooldown, and never closed with an
\* exhausted dial streak.
BreakerConsistent ==
    \A r \in Route :
        /\ route[r].circuitOpen =>
             /\ route[r].cooldown \in InitialCooldown..MaximumCooldown
             /\ route[r].left <= route[r].cooldown
        /\ ~route[r].circuitOpen =>
             /\ route[r].left = 0
             /\ route[r].consecutiveFailures < Threshold

\* Over any mix of dials, relays, probes and reloads a circuit is in one of the
\* states begin and routeObserve tell apart, and its half-open slot has one
\* owner: a probe that will be observed, or a pooled connection that never is.
BreakerSound == RegistryTypeOK /\ HalfOpenOwned /\ BreakerConsistent

\* Only the probe that owns the half-open slot closes an open circuit, or
\* makes its cooldown start again; every other outcome leaves it alone.
OnlyProbeDecides ==
    [][\A r \in Route :
         /\ route[r].circuitOpen
         /\ ~route'[r].circuitOpen \/ route'[r].left > route[r].left
         => /\ route[r].halfOpen
            /\ \E c \in Probers(r) : c \notin Probers(r)']_registryVars

\* An open circuit does not stay out of reach, unless a pooled connection
\* takes its half-open slot: it closes, or its cooldown ends with the slot
\* free.
CircuitBecomesProbeable ==
    \A r \in Route :
        route[r].circuitOpen ~> ~BeginRefused(route[r]) \/ r \in stranded

=============================================================================
