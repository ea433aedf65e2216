--------------------------- MODULE ProxyEndpoint ---------------------------
(***************************************************************************)
(* CONNECT requests to one native proxy endpoint                           *)
(* (controller/connect_proxy.go): each tries the protocols of its target   *)
(* in order, and a failed HTTP/3 attempt opens a window that the HTTP/2    *)
(* fallback of the same request, or of one that joined the window, settles *)
(* into a cooldown of HTTP/3 at this endpoint.  The attempts of one window *)
(* share an epoch; a result that carries another epoch is dropped.  The    *)
(* same state holds the degradation strikes that the HTTP/3 transports     *)
(* report and the reservation of a canary for Boost.  Each critical        *)
(* section of h3FallbackMu is one action.  Times are kept as the ticks     *)
(* that are left; the rule breaker may send any request past HTTP/3.       *)
(***************************************************************************)
EXTENDS Integers, Sequences, FiniteSets

CONSTANTS
    Request,         \* CONNECT requests, each made once
    Selector,        \* Boost selections, each claims the canary at most once
    Mixed,           \* those of a target that lists HTTP/2 after HTTP/3
    Protocols,       \* the protocols of each request's target, in order
    CooldownBase, CooldownMax,      \* cooldown after transport failures, in ticks
    DegradedBase, DegradedMax,      \* cooldown after degradation
    StrikeWindow,    \* degradationWindow
    CanaryInterval,  \* http3BoostCanaryInterval
    Fault,           \* the failures that dials meet
    MaxDegradations  \* bound on the degradations the transports report

ASSUME EndpointAssumption ==
    /\ IsFiniteSet(Request) /\ IsFiniteSet(Selector) /\ Mixed \subseteq Selector
    /\ Protocols \in [Request -> {<<"h3", "h2">>, <<"h2", "h3">>, <<"h3">>, <<"h2">>}]
    /\ {CooldownBase, CooldownMax, DegradedBase, DegradedMax, StrikeWindow, CanaryInterval}
          \subseteq Nat \ {0}
    /\ Fault \subseteq {"neutral", "capability", "reject", "capacity", "setup", "transport",
                        "canceled"}
    /\ MaxDegradations \in Nat

VARIABLES
    h3,       \* manager.h3Fallback of the endpoint; epoch 0 where the map has no entry
    h3Epoch,  \* manager.h3Epoch
    canary,   \* manager.h3BoostCanaryEpoch
    req,      \* each request inside dialForRule
    probe,    \* the canary token each selector holds; -1 before its claim
    degraded, \* degradations reported so far
    evidence  \* history: the epochs in which an HTTP/2 fallback was reachable

vars == <<h3, h3Epoch, canary, req, probe, degraded, evidence>>

Off == -1    \* the zero time of degradationRetryAt
Status == {"neutral", "capability", "reject"}
    \* HTTP answers: 403 and 502 to 504, 405 and 501 and 505, any other
Failure == Status \cup {"cooling", "capacity", "setup_h3", "setup_h2", "transport", "canceled"}
    \* a dial that runs into its deadline counts as a transport failure

NoState == [epoch |-> 0, failures |-> 0, retryIn |-> 0, probing |-> FALSE, pending |-> FALSE,
            h3InFlight |-> 0, fallbackPending |-> 0, fallbackReady |-> FALSE,
            pendingCause |-> "none", cooldownCause |-> "none",
            strikes |-> 0, strikeLeft |-> 0, active |-> FALSE, degRetryIn |-> Off,
            canaryLeft |-> 0, canaryToken |-> 0]
NewRequest == [pc |-> "loop", index |-> 1, ctx |-> "live", token |-> 0, managed |-> FALSE,
               pending |-> 0, joined |-> 0, reachable |-> FALSE, failures |-> <<>>,
               tunnel |-> FALSE]
Done == [NewRequest EXCEPT !.pc = "done"]

Init ==
    /\ h3 = NoState /\ h3Epoch = 0 /\ canary = 0 /\ degraded = 0 /\ evidence = {}
    /\ req = [r \in Request |-> NewRequest]
    /\ probe = [s \in Selector |-> -1]

-----------------------------------------------------------------------------
\* The endpoint's state

\* http3Cooldown and http3CooldownForCause: doubled for every failure after the
\* first; the loop leaves with the maximum instead of doubling past it
Doubled(base, maximum, failures) ==
    LET delay == base * 2^(failures - 1)
    IN  IF delay \in 1..maximum THEN delay ELSE maximum

Cooldown(cause, failures) ==
    IF cause = "degradation" THEN Doubled(DegradedBase, DegradedMax, failures)
    ELSE Doubled(CooldownBase, CooldownMax, failures)

\* A window that closes without a new epoch.
MutCloseWindow(s) ==
    [s EXCEPT !.pending = FALSE, !.probing = FALSE, !.h3InFlight = 0, !.fallbackPending = 0,
              !.fallbackReady = FALSE, !.pendingCause = "none"]

\* What commit, expiry and reset of a window have in common; the epoch is the
\* next one of nextHTTP3EpochLocked.
CloseWindow(s) ==
    [s EXCEPT !.pending = FALSE, !.probing = FALSE, !.h3InFlight = 0, !.fallbackPending = 0,
              !.fallbackReady = FALSE, !.pendingCause = "none", !.epoch = h3Epoch + 1]

\* commitHTTP3CooldownLocked
Commit(s) ==
    LET cause == CHOOSE c \in {"transport", "degradation"} :
                    \/ c = s.pendingCause
                    \/ s.pendingCause = "none" /\ c = s.cooldownCause
                    \/ s.pendingCause = "none" /\ s.cooldownCause = "none" /\ c = "transport"
    IN  [CloseWindow(s) EXCEPT !.cooldownCause = cause, !.degRetryIn = Off,
                               !.failures = s.failures + 1,
                               !.retryIn = Cooldown(cause, s.failures + 1)]

\* the last part of resolveHTTP3FailureWindowLocked: nothing was learnt
Expire(s) ==
    [CloseWindow(s) EXCEPT
        !.degRetryIn = IF s.pendingCause = "degradation" THEN CooldownBase ELSE s.degRetryIn]

\* A window that only a usable fallback ends.
MutResolve(s) == IF s.h3InFlight > 0 \/ ~s.fallbackReady THEN s ELSE Commit(s)

\* resolveHTTP3FailureWindowLocked
Resolve(s) ==
    IF s.h3InFlight > 0 THEN s
    ELSE IF s.fallbackReady THEN Commit(s)
    ELSE IF s.fallbackPending > 0 THEN s
    ELSE Expire(s)

\* resetHTTP3FallbackStateLocked
Reset(s, resetDegradation) ==
    LET c == [CloseWindow(s) EXCEPT !.failures = 0, !.cooldownCause = "none", !.retryIn = 0]
    IN  IF resetDegradation
        THEN [c EXCEPT !.strikes = 0, !.strikeLeft = 0, !.active = FALSE, !.degRetryIn = Off,
                       !.canaryLeft = 0, !.canaryToken = 0]
        ELSE c

\* startHTTP3DegradationFallbackLocked
StartDegradationFallback(s) ==
    [CloseWindow(s) EXCEPT !.pending = TRUE, !.pendingCause = "degradation", !.degRetryIn = Off]

SetState(s) == h3' = s /\ h3Epoch' = IF s.epoch > h3Epoch THEN s.epoch ELSE h3Epoch

\* What beginHTTP3Attempt answers: the new state, the token, whether it is the
\* managed probe, and whether HTTP/3 may be tried.
Answer(s, managed, allowed) ==
    [state |-> s, token |-> s.epoch, managed |-> managed, allowed |-> allowed]
Join(s) == Answer([s EXCEPT !.fallbackPending = @ + 1], FALSE, FALSE)

\* An endpoint that admits requests beside the half-open probe.
MutBeginHTTP3Attempt(s) ==
    IF s.epoch = 0 THEN Answer([NoState EXCEPT !.epoch = h3Epoch + 1, !.h3InFlight = 1], FALSE, TRUE)
    ELSE IF s.pending THEN Join(s)
    ELSE IF s.failures = 0 \/ s.probing THEN Answer([s EXCEPT !.h3InFlight = @ + 1], FALSE, TRUE)
    ELSE IF s.retryIn > 0 THEN [Answer(s, FALSE, FALSE) EXCEPT !.token = 0]
    ELSE Answer([CloseWindow(s) EXCEPT !.probing = TRUE, !.h3InFlight = 1], TRUE, TRUE)

\* beginHTTP3Attempt
BeginHTTP3Attempt(s) ==
    IF s.epoch = 0 THEN Answer([NoState EXCEPT !.epoch = h3Epoch + 1, !.h3InFlight = 1], FALSE, TRUE)
    ELSE IF s.pending THEN Join(s)
    ELSE IF s.failures = 0 /\ s.active /\ s.strikes >= 2 /\ s.degRetryIn = 0
         THEN Join(StartDegradationFallback(s))
    ELSE IF s.failures = 0 THEN Answer([s EXCEPT !.h3InFlight = @ + 1], FALSE, TRUE)
    ELSE IF s.probing THEN Join(s)
    ELSE IF s.retryIn > 0 THEN [Answer(s, FALSE, FALSE) EXCEPT !.token = 0]
    ELSE Answer([CloseWindow(s) EXCEPT !.probing = TRUE, !.h3InFlight = 1], TRUE, TRUE)

\* joinHTTP3PendingFallback, for a request the rule breaker keeps away from HTTP/3
JoinPendingFallback(s) ==
    IF s.epoch # 0 /\ (s.pending \/ s.probing) THEN Join(s)
    ELSE [Answer(s, FALSE, FALSE) EXCEPT !.token = 0]

\* markHTTP3FailurePending
MarkFailurePending(s, token) ==
    IF s.epoch # token \/ s.h3InFlight <= 0 THEN s
    ELSE Resolve([s EXCEPT
            !.h3InFlight = @ - 1, !.fallbackPending = @ + 1, !.pending = TRUE, !.probing = FALSE,
            !.pendingCause = IF s.probing /\ s.cooldownCause # "none" THEN s.cooldownCause
                             ELSE IF @ = "none" THEN "transport" ELSE @])

\* abandonHTTP3Attempt
AbandonAttempt(s, token) ==
    IF s.epoch # token \/ s.h3InFlight <= 0 THEN s
    ELSE IF s.probing THEN CloseWindow(s)
    ELSE Resolve([s EXCEPT !.h3InFlight = @ - 1])

\* Evidence taken from a request whose client has gone.
MutObserveFallback(s, token, live, reachable) ==
    IF s.epoch # token \/ s.fallbackPending <= 0 THEN s
    ELSE Resolve([s EXCEPT !.fallbackPending = @ - 1, !.fallbackReady = @ \/ reachable])

\* observeHTTP3Attempt for a failure and observeHTTP3PendingFallback: the fallback
\* of a participant of the window has ended
ObserveFallback(s, token, live, reachable) ==
    IF s.epoch # token \/ s.fallbackPending <= 0 THEN s
    ELSE Resolve([s EXCEPT !.fallbackPending = @ - 1,
                           !.fallbackReady = @ \/ (live /\ reachable)])

-----------------------------------------------------------------------------
\* dialForRule

Plan(r) == Protocols[r]
Protocol(r) == Plan(r)[req[r].index]

\* HTTP/3 with HTTP/2 to fall back to: only then does the endpoint's state count.
UseCooldown(r) ==
    Protocol(r) = "h3" /\ \E i \in (req[r].index + 1)..Len(Plan(r)) : Plan(r)[i] = "h2"

\* connectProxyErrorIsRouteNeutral on the joined failures of a request
RouteNeutral(fs) ==
    LET last == fs[Len(fs)]
    IN  IF last \in Status THEN last = "neutral"
        ELSE \/ \E i \in 1..Len(fs) : fs[i] = "capacity"
             \/ \A i \in 1..Len(fs) : fs[i] \in {"neutral", "capacity", "cooling"}

\* connectProxyExclusiveSetupFailureGroup: the failures that count are of one setup
SetupGroup(fs) ==
    \E g \in {"setup_h3", "setup_h2"} :
        /\ \E i \in 1..Len(fs) : fs[i] = g
        /\ \A i \in 1..Len(fs) : fs[i] \in {g, "neutral", "capacity", "cooling"}

\* connectProxyRouteObservationError, and what routeObserve makes of it
Observation(fs) ==
    IF RouteNeutral(fs) THEN "reachable"
    ELSE IF SetupGroup(fs) THEN "setup"
    ELSE IF \E i \in 1..Len(fs) : fs[i] = "canceled" THEN "abandoned"
    ELSE "failure"

\* The caller of r gives up or runs into its deadline.
CallerGone(r) ==
    /\ req[r].pc # "done" /\ req[r].ctx = "live"
    /\ \E c \in {"canceled", "transport"} \cap Fault : req' = [req EXCEPT ![r].ctx = c]
    /\ UNCHANGED <<h3, h3Epoch, canary, probe, degraded, evidence>>

\* The next turn of the loop, up to the dial: the rule breaker and the endpoint
\* admit HTTP/3, or the request goes on to HTTP/2.
NextProtocol(r) ==
    /\ req[r].pc = "loop" /\ req[r].ctx = "live"
    /\ \/ /\ ~UseCooldown(r)
          /\ req' = [req EXCEPT ![r].pc = "dial"]
          /\ UNCHANGED <<h3, h3Epoch>>
       \/ /\ UseCooldown(r)
          /\ \E a \in {BeginHTTP3Attempt(h3), JoinPendingFallback(h3)} :
                /\ SetState(a.state)
                /\ req' = IF a.allowed
                          THEN [req EXCEPT ![r].pc = "dial", ![r].token = a.token,
                                           ![r].managed = a.managed]
                          ELSE [req EXCEPT ![r].index = @ + 1, ![r].joined = a.token,
                                           ![r].failures = Append(@, "cooling")]
    /\ UNCHANGED <<canary, probe, degraded, evidence>>

\* The loop finds that its caller has gone.
LoopStops(r) ==
    /\ req[r].pc = "loop" /\ req[r].ctx # "live"
    /\ req' = [req EXCEPT ![r].pc = "return", ![r].failures = <<req[r].ctx>>]
    /\ UNCHANGED <<h3, h3Epoch, canary, probe, degraded, evidence>>

\* What a dial reports when the shared setup of its connection fails, and when its
\* caller has gone.
SetupError(f) == IF "setup" \in Fault THEN {f} ELSE {}
CallerError(r) == {req[r].ctx} \ {"live"}

Answered == {"tunnel"} \cup ({"neutral", "reject"} \cap Fault)

\* The dial of an HTTP/3 attempt that the endpoint admitted returns: an answer shows
\* that HTTP/3 works, local saturation shows nothing, and any other failure opens or
\* joins the failure window before HTTP/2 is tried.
AdmittedDialReturns(r) ==
    /\ req[r].pc = "dial" /\ UseCooldown(r)
    /\ \/ \E f \in Answered :
            /\ SetState(IF h3.epoch = req[r].token THEN Reset(h3, req[r].managed) ELSE h3)
            /\ req' = IF f = "tunnel" THEN [req EXCEPT ![r] = Done]
                      ELSE [req EXCEPT ![r].pc = "return", ![r].token = 0,
                                       ![r].failures = Append(@, f)]
       \/ /\ "capacity" \in Fault
          /\ SetState(AbandonAttempt(h3, req[r].token))
          /\ req' = [req EXCEPT ![r].pc = "loop", ![r].index = @ + 1, ![r].token = 0,
                                ![r].failures = Append(@, "capacity")]
       \/ \E f \in ({"capability", "transport"} \cap Fault)
                      \cup SetupError("setup_h3") \cup CallerError(r) :
            /\ SetState(MarkFailurePending(h3, req[r].token))
            /\ req' = [req EXCEPT ![r].pc = "loop", ![r].index = @ + 1, ![r].token = 0,
                                  ![r].pending = req[r].token, ![r].failures = Append(@, f)]
    /\ UNCHANGED <<canary, probe, degraded, evidence>>

\* Any other dial returns; an answer or a tunnel over HTTP/2 is what a window waits for.
PlainDialReturns(r) ==
    /\ req[r].pc = "dial" /\ ~UseCooldown(r)
    /\ LET h2 == Protocol(r) = "h2"
           waited == h2 /\ (req[r].pending # 0 \/ req[r].joined # 0)
           last == req[r].index = Len(Plan(r))
       IN  \/ \E f \in Answered :
                req' = [req EXCEPT ![r].pc = "return", ![r].tunnel = (f = "tunnel"),
                            ![r].reachable = waited /\ f \in {"tunnel", "neutral"},
                            ![r].failures = IF f = "tunnel" THEN @ ELSE Append(@, f)]
           \/ \E f \in (({"capability", "transport"} \cup (IF h2 THEN {} ELSE {"capacity"})) \cap Fault)
                          \cup SetupError(IF h2 THEN "setup_h2" ELSE "setup_h3") \cup CallerError(r) :
                req' = [req EXCEPT ![r].pc = IF last THEN "return" ELSE "loop",
                                   ![r].index = IF last THEN @ ELSE @ + 1,
                                   ![r].failures = Append(@, f)]
    /\ UNCHANGED <<h3, h3Epoch, canary, probe, degraded, evidence>>

\* The deferred observations of dialForRule.  The caller passes Observation(failures)
\* on to routeObserve when there is no tunnel.
Return(r) ==
    /\ req[r].pc = "return"
    /\ LET token == IF req[r].pending # 0 THEN req[r].pending ELSE req[r].joined
           live == req[r].ctx = "live"
       IN  /\ SetState(IF token = 0 THEN h3 ELSE ObserveFallback(h3, token, live, req[r].reachable))
           /\ evidence' = IF live /\ req[r].reachable THEN evidence \cup {token} ELSE evidence
    /\ req' = [req EXCEPT ![r] = Done]
    /\ UNCHANGED <<canary, probe, degraded>>

-----------------------------------------------------------------------------
\* Degradation, recovery and the Boost canary

\* noteHTTP3Degradation, from the sampler of the HTTP/3 transports
NoteDegradation ==
    /\ degraded < MaxDegradations
    /\ degraded' = degraded + 1
    /\ LET s0 == IF h3.epoch = 0 THEN [NoState EXCEPT !.epoch = h3Epoch + 1] ELSE h3
           s1 == [s0 EXCEPT !.strikes = IF s0.strikeLeft = 0 THEN 0 ELSE @]
           s2 == [s1 EXCEPT !.active = TRUE, !.strikeLeft = StrikeWindow,
                            !.strikes = IF @ < 8 THEN @ + 1 ELSE @]
       IN  SetState(IF s0.active THEN s1
                    ELSE IF \/ s2.strikes < 2 \/ s2.pending \/ s2.probing
                            \/ s2.failures > 0 /\ s2.retryIn > 0 THEN s2
                    ELSE StartDegradationFallback(s2))
    /\ UNCHANGED <<canary, req, probe, evidence>>

\* noteHTTP3Recovery, when a replacement connection is promoted or redialled
NoteRecovery ==
    /\ h3.active
    /\ h3' = [h3 EXCEPT !.active = FALSE, !.canaryLeft = 0, !.canaryToken = 0]
    /\ UNCHANGED <<h3Epoch, canary, req, probe, degraded, evidence>>

\* http3RoutePenalty forgets strikes whose window has passed
RoutePenalty ==
    /\ ~h3.active /\ h3.strikeLeft = 0 /\ h3.strikes # 0
    /\ h3' = [h3 EXCEPT !.strikes = 0]
    /\ UNCHANGED <<h3Epoch, canary, req, probe, degraded, evidence>>

\* claimHTTP3BoostProbe, for a target that prefers HTTP/3; the cooldown of one that
\* may fall back has a half-open probe of its own
ClaimBoostProbe(s) ==
    /\ probe[s] = -1 /\ h3.active
    /\ s \in Mixed => ~h3.pending /\ ~h3.probing /\ h3.failures = 0
    /\ h3.canaryToken = 0 /\ h3.canaryLeft = 0
    /\ canary' = canary + 1
    /\ h3' = [h3 EXCEPT !.canaryLeft = CanaryInterval, !.canaryToken = canary + 1]
    /\ probe' = [probe EXCEPT ![s] = canary + 1]
    /\ UNCHANGED <<h3Epoch, req, degraded, evidence>>

\* releaseHTTP3BoostProbe
ReleaseBoostProbe(s) ==
    /\ probe[s] > 0
    /\ h3' = [h3 EXCEPT !.canaryToken = IF @ = probe[s] THEN 0 ELSE @]
    /\ probe' = [probe EXCEPT ![s] = 0]
    /\ UNCHANGED <<h3Epoch, canary, req, degraded, evidence>>

\* timeNow moves on
Tick ==
    /\ h3.retryIn > 0 \/ h3.strikeLeft > 0 \/ h3.degRetryIn > 0 \/ h3.canaryLeft > 0
    /\ LET less(t) == IF t > 0 THEN t - 1 ELSE t
       IN  h3' = [h3 EXCEPT !.retryIn = less(@), !.strikeLeft = less(@),
                            !.degRetryIn = less(@), !.canaryLeft = less(@)]
    /\ UNCHANGED <<h3Epoch, canary, req, probe, degraded, evidence>>

RequestStep(r) == NextProtocol(r) \/ LoopStops(r) \/ AdmittedDialReturns(r)
                    \/ PlainDialReturns(r) \/ Return(r)

Next ==
    \/ \E r \in Request : RequestStep(r) \/ CallerGone(r)
    \/ \E s \in Selector : ClaimBoostProbe(s) \/ ReleaseBoostProbe(s)
    \/ NoteDegradation \/ NoteRecovery \/ RoutePenalty \/ Tick

Spec == Init /\ [][Next]_vars

-----------------------------------------------------------------------------
Epoch == 0..h3Epoch

TypeOK ==
    /\ h3Epoch \in Nat /\ canary \in 0..Cardinality(Selector) /\ degraded \in 0..MaxDegradations
    /\ h3 \in [epoch : Epoch, failures : Nat, retryIn : 0..(CooldownMax + DegradedMax),
               probing : BOOLEAN, pending : BOOLEAN,
               h3InFlight : 0..Cardinality(Request), fallbackPending : 0..Cardinality(Request),
               fallbackReady : BOOLEAN, pendingCause : {"none", "transport", "degradation"},
               cooldownCause : {"none", "transport", "degradation"}, strikes : 0..8,
               strikeLeft : 0..StrikeWindow, active : BOOLEAN,
               degRetryIn : {Off} \cup 0..CooldownBase,
               canaryLeft : 0..CanaryInterval, canaryToken : 0..canary]
    /\ req \in [Request -> [pc : {"loop", "dial", "return", "done"}, index : 1..2,
                            ctx : {"live", "canceled", "transport"}, token : Epoch,
                            managed : BOOLEAN, pending : Epoch, joined : Epoch,
                            reachable : BOOLEAN,
                            failures : {<<>>} \cup [1..1 -> Failure] \cup [1..2 -> Failure],
                            tunnel : BOOLEAN]]
    /\ probe \in [Selector -> -1..canary] /\ evidence \subseteq Epoch

\* The HTTP/3 attempts of an epoch that are under way, and the requests whose
\* fallback will be reported for it.
Attempts(e) == {r \in Request : req[r].pc = "dial" /\ req[r].token = e}
Waiting(e) == {r \in Request : req[r].pc # "done" /\ e \in {req[r].pending, req[r].joined}}

\* The counters of the failure window count the requests of the current epoch and
\* nobody else, although every result, reset and degradation in between may have
\* closed the window they were counted in; and a canary that is reserved is held
\* by a selector that will release it.
WindowExact ==
    /\ TypeOK
    /\ h3.epoch # 0 => /\ h3.h3InFlight = Cardinality(Attempts(h3.epoch))
                       /\ h3.fallbackPending = Cardinality(Waiting(h3.epoch))
    /\ h3.canaryToken # 0 => \E s \in Selector : probe[s] = h3.canaryToken

\* While HTTP/3 is suppressed at the endpoint one request at most tries it, the
\* half-open probe, and probing is set exactly as long as it is under way.
OneProbe ==
    h3.failures > 0 =>
        Cardinality(Attempts(h3.epoch)) = IF h3.probing THEN 1 ELSE 0

\* A cooldown is committed only when a fallback of the same epoch was reachable
\* for a client that was still there, and when every HTTP/3 attempt of the epoch
\* has failed (commitHTTP3CooldownLocked, connect_proxy.go:661).
CooldownEarned ==
    [][h3'.failures > h3.failures =>
          /\ h3.epoch \in evidence'
          /\ \A r \in Request : req'[r].token # h3.epoch]_vars

\* No failure window waits for nobody: one that is open has a request whose report
\* is due, on whichever path that request leaves dialForRule, or was opened by a
\* degradation and takes the next request in; and HTTP/2 evidence never lies in a
\* window whose last HTTP/3 attempt has ended.
WindowNotOrphaned ==
    /\ h3.pending => \/ Waiting(h3.epoch) \cup Attempts(h3.epoch) # {}
                     \/ h3.pendingCause = "degradation"
    /\ h3.fallbackReady => Attempts(h3.epoch) # {}

=============================================================================
