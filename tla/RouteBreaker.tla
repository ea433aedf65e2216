---------------------------- MODULE RouteBreaker ----------------------------
(***************************************************************************)
(* The circuit breaker of one route as functions on its routeHealthState   *)
(* (controller/route_health.go).  Each operator is what one critical       *)
(* section of the registry does to the state s on behalf of the attempt    *)
(* numbered n; the modules that extend this one say who calls them when.   *)
(* Time is relative: left is what remains until openUntil.                 *)
(***************************************************************************)
EXTENDS Naturals

CONSTANTS
    Threshold,        \* routeFailureThreshold
    InitialCooldown,  \* routeInitialCooldown
    MaximumCooldown,  \* routeMaximumCooldown
    Client,           \* goroutines that dial through the registry
    MaxAttempts       \* bound on registry.nextAttempt

ASSUME BreakerAssumption ==
    /\ Threshold \in Nat \ {0}
    /\ InitialCooldown \in Nat \ {0}
    /\ MaximumCooldown \in Nat /\ InitialCooldown <= MaximumCooldown

VARIABLES
    nextAttempt,      \* registry.nextAttempt
    id                \* attempt.id of whoever holds an attempt, 0 before the first

RouteState ==
    [observed : BOOLEAN, circuitOpen : BOOLEAN, left : Nat,
     cooldown : 0..MaximumCooldown, halfOpen : BOOLEAN, halfOpenAttempt : Nat,
     minValidAttempt : Nat, consecutiveFailures : 0..Threshold,
     relayFailures : 0..Threshold]

\* newRouteHealthState
NewState ==
    [observed |-> FALSE, circuitOpen |-> FALSE, left |-> 0,
     cooldown |-> 0, halfOpen |-> FALSE, halfOpenAttempt |-> 0,
     minValidAttempt |-> 0, consecutiveFailures |-> 0, relayFailures |-> 0]

nextRouteCooldown(previous) ==
    IF previous < InitialCooldown THEN InitialCooldown
    ELSE IF 2 * previous > MaximumCooldown THEN MaximumCooldown ELSE 2 * previous

\* A failure streak; it saturates at the threshold, beyond which only the
\* score of selectTargetSelections tells two streaks apart.
OneMore(n) == IF n < Threshold THEN n + 1 ELSE n

\* snapshot.ProbeRequired
ProbeRequired(s) == s.circuitOpen /\ ~s.halfOpen /\ s.left = 0

MutBeginRefused(s) == s.circuitOpen /\ s.left > 0

\* begin's early return with ErrCircuitOpen
BeginRefused(s) == s.circuitOpen /\ (s.left > 0 \/ s.halfOpen)

\* the state begin leaves behind for the attempt numbered n
AfterBegin(s, n) ==
    [s EXCEPT !.halfOpen = @ \/ s.circuitOpen,
              !.halfOpenAttempt = IF s.circuitOpen THEN n ELSE @]

OwnsProbe(s, n) == s.circuitOpen /\ s.halfOpen /\ s.halfOpenAttempt = n

ReleaseProbe(s) == [s EXCEPT !.halfOpen = FALSE, !.halfOpenAttempt = 0]

\* A cancelled probe that keeps its claim.
MutNeutral(s, n) == s

\* routeObserve of context.Canceled or of a bulkhead error
AfterNeutral(s, n) == IF OwnsProbe(s, n) THEN ReleaseProbe(s) ELSE s

MutIgnored(s, n) == n < s.minValidAttempt

\* routeObserve's early returns: an attempt from before the last recovery, or
\* an open circuit probed by someone else
ObserveIgnored(s, n) ==
    \/ n < s.minValidAttempt
    \/ s.circuitOpen /\ ~OwnsProbe(s, n)

MutCloseCircuit(s, n) ==
    [ReleaseProbe(s) EXCEPT !.observed = TRUE, !.consecutiveFailures = 0,
                            !.circuitOpen = FALSE, !.left = 0]

\* what errRouteReachable and a success have in common; a recovering probe
\* fences off every earlier attempt
CloseCircuit(s, n) ==
    [ReleaseProbe(s) EXCEPT !.observed = TRUE, !.consecutiveFailures = 0,
                            !.circuitOpen = FALSE, !.left = 0,
                            !.minValidAttempt = IF OwnsProbe(s, n) THEN n ELSE @]

AfterReachable(s, n) ==
    IF ObserveIgnored(s, n) THEN s
    ELSE [CloseCircuit(s, n) EXCEPT !.relayFailures = 0, !.cooldown = 0]

\* A successful probe keeps the cooldown, so that a relapse backs off further.
AfterSuccess(s, n) ==
    IF ObserveIgnored(s, n) THEN s
    ELSE [CloseCircuit(s, n) EXCEPT !.cooldown = IF OwnsProbe(s, n) THEN @ ELSE 0]

OpenCircuit(s) ==
    [s EXCEPT !.circuitOpen = TRUE,
              !.cooldown = nextRouteCooldown(@),
              !.left = nextRouteCooldown(s.cooldown)]

\* routeObserve of a failure that is the first its setup reports for this
\* route: a failed probe doubles the cooldown, the third failure in a row opens
AfterFailure(s, n) ==
    IF ObserveIgnored(s, n) THEN s
    ELSE LET t == [s EXCEPT !.observed = TRUE, !.consecutiveFailures = OneMore(@)] IN
         IF s.circuitOpen THEN OpenCircuit(ReleaseProbe(t))
         ELSE IF t.consecutiveFailures >= Threshold THEN OpenCircuit(t) ELSE t

\* routeReportFailure and routeReportSuccess ignore every report while the
\* circuit is open
ReportIgnored(s, n) == n < s.minValidAttempt \/ s.circuitOpen

AfterReportFailure(s, n) ==
    IF ReportIgnored(s, n) THEN s
    ELSE LET t == [s EXCEPT !.observed = TRUE, !.relayFailures = OneMore(@)] IN
         IF t.relayFailures >= Threshold THEN OpenCircuit(t) ELSE t

AfterReportSuccess(s, n) ==
    IF ReportIgnored(s, n) THEN s
    ELSE [s EXCEPT !.observed = TRUE, !.consecutiveFailures = 0,
                   !.relayFailures = 0, !.cooldown = 0]

\* time passes for the cooldown
AfterTick(s) == IF s.left > 0 THEN [s EXCEPT !.left = @ - 1] ELSE s

=============================================================================
