--------------------------- MODULE H3RuleBreaker ---------------------------
(***************************************************************************)
(* The HTTP/3 breaker of one routing rule                                  *)
(* (controller/connect_proxy_h3_rule_breaker.go and _blackhole.go).  When  *)
(* QUIC connections of the rule's endpoints degrade, the rule evaluates    *)
(* whether HTTP/2 is reachable, then cools down, then lets one request     *)
(* hold a probation tunnel whose samples decide whether HTTP/3 returns.    *)
(* A cohort of evaluating requests, a probation and a lease of the Boost   *)
(* selector are each named by a token.  A QUIC connection that has become  *)
(* a UDP black hole starts a maintenance probe of its own, and the drains  *)
(* it armed decide whether the cooldown stands.  A sample is read from a   *)
(* serving connection under the transports' lock and reaches the breaker   *)
(* later, when the probation it finds may be another one.  Each critical   *)
(* section of breaker.mu is one action; times are kept as the ticks that   *)
(* are left.                                                               *)
(* What the transports do with a drain belongs to H3Transports.            *)
(***************************************************************************)
EXTENDS Integers, Sequences, FiniteSets

CONSTANTS
    Request,       \* CONNECT requests of the rule
    Key,           \* endpoints of the rule
    Gen,           \* QUIC connections (generations), each made once
    KeyOf,         \* the endpoint a connection leads to
    IPOf,          \* its remote address, "" where it is not known
    None,          \* no connection, no endpoint
    Steps,         \* http3RuleCooldownSteps, in ticks
    AbortDelay,    \* http3RuleProbationAbortDelay
    Window,        \* http3RuleDegradationWindow
    Grace,         \* http3RuleValidationGrace and http3UDPBlackholeH2ProbeTimeout
    MinDuration, MaxDuration, HealthyCount,   \* http3RuleProbation...
    MaxToken       \* bound on the tokens the breaker gives out

ASSUME RuleAssumption ==
    /\ IsFiniteSet(Request) /\ IsFiniteSet(Gen)
    /\ Request \cap Gen = {}
    /\ KeyOf \in [Gen -> Key] /\ None \notin Gen \cup Key
    /\ Steps \in Seq(Nat \ {0}) /\ Steps # <<>>
    /\ {AbortDelay, Window, Grace, MinDuration, MaxDuration, HealthyCount, MaxToken}
          \subseteq Nat \ {0}

VARIABLES
    rule,       \* http3RuleBreakerState
    nextToken,  \* breaker.nextToken
    req,        \* each request: what it does for the breaker, its token and connection
    mnt,        \* validateHTTP3UDPBlackholeFallback of each connection
    conn,       \* each connection: ok, degraded, reported (the sampler has found a UDP
                \* black hole and is about to say so), hole, gone (no longer a hole that
                \* http3BlackholeStillActive knows of)
    serving,    \* connections in a serving slot of a manager that is not retired
    sample      \* the sample on its way from publishHTTP3RuleSample to noteSample

vars == <<rule, nextToken, req, mnt, conn, serving, sample>>

Off == -1      \* the zero time of evaluationDeadline
NoProbation == [token |-> 0, key |-> None, gen |-> None, healthy |-> 0, elapsed |-> 0]
Closed ==
    [phase |-> "closed", failures |-> 0, retryIn |-> 0, recent |-> [g \in Gen |-> 0],
     probation |-> NoProbation,
     evalToken |-> 0, evalInFlight |-> 0, evalDeadline |-> Off, evalHoles |-> {}, owned |-> FALSE,
     committed |-> {}, commitToken |-> 0, armInFlight |-> 0, armed |-> FALSE,
     routeToken |-> 0, routeKey |-> None]
Idle == [st |-> "idle", token |-> 0, key |-> None, gen |-> None, armed |-> FALSE]
NoSample == [gen |-> None, kind |-> "none", token |-> 0, elapsed |-> 0]
NoWork == [st |-> "off", token |-> 0, stale |-> {}, armed |-> FALSE]

Init ==
    /\ rule = Closed /\ nextToken = 0
    /\ req = [q \in Request |-> Idle]
    /\ mnt = [g \in Gen |-> NoWork]
    /\ conn = [g \in Gen |-> "ok"]
    /\ serving = Gen /\ sample = NoSample

-----------------------------------------------------------------------------
\* The transitions of http3RuleBreakerState

\* The fields that every transition clears.
Clear(s) ==
    [s EXCEPT !.probation = NoProbation, !.evalToken = 0, !.evalInFlight = 0,
              !.evalDeadline = Off, !.evalHoles = {}, !.owned = FALSE, !.committed = {},
              !.commitToken = 0, !.armInFlight = 0, !.armed = FALSE,
              !.routeToken = 0, !.routeKey = None]

\* expireEvaluationLocked and resetUDPBlackholeEvaluationLocked: fail open to HTTP/3
FailOpen(s) == [Clear(s) EXCEPT !.phase = "closed", !.failures = 0, !.retryIn = 0]
Expired(s) == s.phase = "evaluating" /\ s.evalDeadline = 0
Expire(s) == IF Expired(s) THEN FailOpen(s) ELSE s

\* reenterCooldownLocked
Reenter(s) ==
    LET failures == IF s.failures < Len(Steps) THEN s.failures + 1 ELSE s.failures
    IN  [Clear(s) EXCEPT !.phase = "cooldown", !.failures = failures, !.retryIn = Steps[failures]]

\* abortProbation
Abort(s) == [Clear(s) EXCEPT !.phase = "cooldown", !.retryIn = AbortDelay]

\* the commit of observeValidation and completeUDPBlackholeValidation
CommitCooldown(s) ==
    [Clear(s) EXCEPT !.phase = "cooldown", !.failures = 1, !.retryIn = Steps[1],
        !.committed = s.evalHoles,
        !.commitToken = IF s.evalHoles = {} THEN 0 ELSE s.evalToken,
        !.armInFlight = IF s.evalHoles = {} THEN 0 ELSE 1]

\* http3RuleShouldOpen
ShouldOpen(recent, g) ==
    \E p \in {h \in Gen \ {g} : recent[h] > 0} :
        \/ IPOf[g] # "" /\ IPOf[p] # "" /\ IPOf[g] # IPOf[p]
        \/ KeyOf[p] = KeyOf[g]
        \/ IPOf[g] # "" /\ IPOf[g] = IPOf[p]

Probation(token) == rule.phase = "probation" /\ rule.probation.token = token

-----------------------------------------------------------------------------
\* Requests

\* beginWithLease by a request that joins the evaluation and goes to HTTP/2
JoinEvaluation(q) ==
    /\ req[q].st = "idle" /\ rule.phase = "evaluating" /\ ~Expired(rule)
    /\ rule' = [rule EXCEPT !.evalInFlight = @ + 1,
                            !.evalDeadline = IF @ = Off THEN Grace ELSE @]
    /\ req' = [req EXCEPT ![q] = [Idle EXCEPT !.st = "validate", !.token = rule.evalToken]]
    /\ UNCHANGED <<nextToken, mnt, conn, serving, sample>>

\* claimRecoveryRouteProbe, by the Boost selection that will dial endpoint k
ClaimRouteProbe(q, k) ==
    /\ req[q].st = "idle" /\ nextToken < MaxToken
    /\ rule.phase = "cooldown" /\ rule.retryIn = 0 /\ rule.routeToken = 0
    /\ nextToken' = nextToken + 1
    /\ rule' = [rule EXCEPT !.routeToken = nextToken + 1, !.routeKey = k]
    /\ req' = [req EXCEPT ![q] = [Idle EXCEPT !.st = "leased", !.token = nextToken + 1, !.key = k]]
    /\ UNCHANGED <<mnt, conn, serving, sample>>

\* releaseRecoveryRouteProbe, of a lease that no dial has used
ReleaseRouteProbe(q) ==
    /\ req[q].st = "leased"
    /\ rule' = IF rule.routeToken = req[q].token
               THEN [rule EXCEPT !.routeToken = 0, !.routeKey = None, !.retryIn = AbortDelay]
               ELSE rule
    /\ req' = [req EXCEPT ![q] = Idle]
    /\ UNCHANGED <<nextToken, mnt, conn, serving, sample>>

\* beginWithLease once the cooldown is over: the request becomes the probation; a
\* lease that is out keeps every other request away
BeginProbation(q, k) ==
    /\ req[q].st \in {"idle", "leased"} /\ (req[q].st = "leased" => req[q].key = k)
    /\ nextToken < MaxToken /\ rule.phase = "cooldown" /\ rule.retryIn = 0
    /\ rule.routeToken \in {0, req[q].token} /\ (rule.routeToken # 0 => rule.routeKey = k)
    /\ nextToken' = nextToken + 1
    /\ rule' = [Clear(rule) EXCEPT !.phase = "probation",
                    !.probation = [NoProbation EXCEPT !.token = nextToken + 1, !.key = k]]
    /\ req' = [req EXCEPT ![q] = [Idle EXCEPT !.st = "probe", !.token = nextToken + 1, !.key = k]]
    /\ UNCHANGED <<mnt, conn, serving, sample>>

\* The HTTP/3 dial of the probation returns: establishHTTP3RuleProbation binds it to
\* the connection it got, in whatever state that is by now.
ProbeConnects(q) ==
    /\ req[q].st = "probe"
    /\ \E g \in Gen :
        /\ KeyOf[g] = req[q].key
        /\ IF Probation(req[q].token)
           THEN /\ rule' = [rule EXCEPT !.probation = [@ EXCEPT !.gen = g, !.elapsed = 0]]
                /\ req' = [req EXCEPT ![q].st = "tunnel", ![q].gen = g]
           ELSE UNCHANGED rule /\ req' = [req EXCEPT ![q] = Idle]
    /\ UNCHANGED <<nextToken, mnt, conn, serving, sample>>

\* A saturated pool leaves the probation to nobody.
MutProbeFails(q) ==
    /\ req[q].st = "probe"
    /\ rule' \in (IF Probation(req[q].token) THEN {Reenter(rule), rule} ELSE {rule})
    /\ req' = [req EXCEPT ![q] = Idle]
    /\ UNCHANGED <<nextToken, mnt, conn, serving, sample>>

\* or fails: failHTTP3RuleProbation after a response, a transport error or missing
\* evidence, abortHTTP3RuleProbation when nothing was tried or the caller has gone
ProbeFails(q) ==
    /\ req[q].st = "probe"
    /\ rule' \in (IF Probation(req[q].token) THEN {Reenter(rule), Abort(rule)} ELSE {rule})
    /\ req' = [req EXCEPT ![q] = Idle]
    /\ UNCHANGED <<nextToken, mnt, conn, serving, sample>>

\* http3RuleProbationConn.Close: failProbationWithEvidence
CloseTunnel(q) ==
    /\ req[q].st = "tunnel"
    /\ rule' = IF Probation(req[q].token) THEN Reenter(rule) ELSE rule
    /\ req' = [req EXCEPT ![q] = Idle]
    /\ UNCHANGED <<nextToken, mnt, conn, serving, sample>>

Validating(token) == rule.phase = "evaluating" /\ rule.evalToken = token /\ rule.evalInFlight > 0

\* A fallback that counts after the deadline.
MutObserveValidation(q, reachable) ==
    /\ req[q].st = "validate"
    /\ LET commit == Validating(req[q].token) /\ reachable
       IN  /\ rule' = IF ~Validating(req[q].token) THEN rule
                      ELSE IF commit THEN CommitCooldown(rule)
                      ELSE [rule EXCEPT !.evalInFlight = @ - 1]
           /\ req' = [req EXCEPT ![q] = IF commit THEN [@ EXCEPT !.st = "take"] ELSE Idle]
    /\ UNCHANGED <<nextToken, mnt, conn, serving, sample>>

\* observeValidation, when the HTTP/2 fallback of a request has ended
ObserveValidation(q, reachable) ==
    /\ req[q].st = "validate"
    /\ LET counted == Validating(req[q].token) /\ ~Expired(rule)
           commit == counted /\ reachable
       IN  /\ rule' = IF ~Validating(req[q].token) THEN rule
                      ELSE IF Expired(rule) THEN FailOpen(rule)
                      ELSE IF commit THEN CommitCooldown(rule)
                      ELSE [rule EXCEPT !.evalInFlight = @ - 1]
           /\ req' = [req EXCEPT ![q] = IF commit THEN [@ EXCEPT !.st = "take"] ELSE Idle]
    /\ UNCHANGED <<nextToken, mnt, conn, serving, sample>>

\* takeCommittedUDPBlackholes and armHTTP3ForcedDrainForBlackhole for each of them;
\* without one, armHTTP3ForcedDrainsForBreaker, which the breaker does not see
Armable(scopes) == \E g \in scopes : conn[g] = "hole"

TakeCommitted(q) ==
    /\ req[q].st = "take"
    /\ rule' = [rule EXCEPT !.committed = {}]
    /\ req' = [req EXCEPT ![q] =
            IF rule.committed = {} THEN Idle
            ELSE [@ EXCEPT !.st = "finish", !.armed = Armable(rule.committed)]]
    /\ UNCHANGED <<nextToken, mnt, conn, serving, sample>>

\* An arming that is not counted.
MutFinishArming(s, token, armed) ==
    IF token = 0 \/ s.phase # "cooldown" \/ s.commitToken # token THEN s
    ELSE IF ~armed THEN FailOpen(s) ELSE [s EXCEPT !.armed = TRUE]

\* finishUDPBlackholeArming: the cooldown of a black hole stands only if a drain was
\* armed
FinishArming(s, token, armed) ==
    IF token = 0 \/ s.phase # "cooldown" \/ s.commitToken # token THEN s
    ELSE LET t == [s EXCEPT !.armInFlight = IF @ > 0 THEN @ - 1 ELSE 0, !.armed = @ \/ armed]
         IN  IF t.armInFlight = 0 /\ ~t.armed THEN FailOpen(t) ELSE t

FinishRequest(q) ==
    /\ req[q].st = "finish"
    /\ rule' = FinishArming(rule, req[q].token, req[q].armed)
    /\ req' = [req EXCEPT ![q] = Idle]
    /\ UNCHANGED <<nextToken, mnt, conn, serving, sample>>

\* Any request, selector or scrape that finds the evaluation past its deadline
\* (beginWithLease, bypassing, restrictsOrdinaryH3, snapshot)
ExpireEvaluation ==
    /\ Expired(rule)
    /\ rule' = FailOpen(rule)
    /\ UNCHANGED <<nextToken, req, mnt, conn, serving, sample>>

-----------------------------------------------------------------------------
\* Events of the transports

\* noteDegradation, when the sampler finds connection g degraded; a black hole is
\* reported to beginUDPBlackholeValidation next
NoteDegradation(g) ==
    /\ g \in serving /\ conn[g] = "ok" /\ nextToken < MaxToken
    /\ \E c \in {"degraded", "reported"} : conn' = [conn EXCEPT ![g] = c]
    /\ LET s == Expire(rule)
           recent == [s.recent EXCEPT ![g] = Window]
       IN  IF s.phase = "probation" /\ s.probation.gen = g
           THEN rule' = Reenter(s) /\ UNCHANGED nextToken
           ELSE IF s.phase # "closed" \/ s.recent[g] > 0
           THEN rule' = s /\ UNCHANGED nextToken
           ELSE IF ShouldOpen(recent, g)
           THEN /\ nextToken' = nextToken + 1
                /\ rule' = [Clear(s) EXCEPT !.phase = "evaluating", !.failures = 0, !.retryIn = 0,
                                            !.recent = recent, !.evalToken = nextToken + 1]
           ELSE rule' = [s EXCEPT !.recent = recent] /\ UNCHANGED nextToken
    /\ UNCHANGED <<req, mnt, serving, sample>>

\* A degraded connection turns into a black hole.
BlackholeUpgrade(g) ==
    /\ g \in serving /\ conn[g] = "degraded"
    /\ conn' = [conn EXCEPT ![g] = "reported"]
    /\ UNCHANGED <<rule, nextToken, req, mnt, serving, sample>>

\* beginUDPBlackholeValidation, for a tunnel of the rule on connection g
BeginBlackhole(g) ==
    /\ conn[g] = "reported" /\ mnt[g].st = "off" /\ nextToken < MaxToken
    /\ conn' = [conn EXCEPT ![g] = "hole"]
    /\ LET s == Expire(rule)
           opened == [s EXCEPT !.phase = "evaluating", !.evalToken = nextToken + 1,
                               !.evalInFlight = 0, !.evalHoles = {}, !.committed = {},
                               !.owned = TRUE]
           base == IF s.phase = "closed" THEN opened ELSE s
           joined == [base EXCEPT !.evalHoles = @ \cup {g}]
           work(st, t) == [NoWork EXCEPT !.st = st, !.token = t]
       IN  /\ nextToken' = IF s.phase = "closed" THEN nextToken + 1 ELSE nextToken
           /\ \/ /\ s.phase \in {"closed", "evaluating"} /\ base.evalInFlight = 0
                 /\ rule' = [joined EXCEPT !.evalInFlight = 1, !.evalDeadline = Grace]
                 /\ mnt' = [mnt EXCEPT ![g] = work("check1", base.evalToken)]
              \/ /\ s.phase = "evaluating" /\ s.evalInFlight > 0
                 /\ rule' = joined /\ mnt' = mnt
              \/ /\ s.phase = "probation" \/ (s.phase = "cooldown" /\ s.retryIn = 0)
                 /\ rule' = Reenter(s)
                 /\ mnt' = [mnt EXCEPT ![g] = work("finish", 0)]
              \/ /\ s.phase = "cooldown" /\ s.retryIn > 0
                 /\ rule' = IF s.commitToken # 0 THEN [s EXCEPT !.armInFlight = @ + 1] ELSE s
                 /\ mnt' = [mnt EXCEPT ![g] = work("finish", s.commitToken)]
    /\ UNCHANGED <<req, serving, sample>>

\* The slot of a black hole is replaced, retired or drained without a monitor of
\* the rule: http3BlackholeStillActive is false from now on.
Heal(g) ==
    /\ conn[g] = "hole"
    /\ conn' = [conn EXCEPT ![g] = "gone"]
    /\ serving' = serving \ {g}
    /\ UNCHANGED <<rule, nextToken, req, mnt, sample>>

\* A slot stops serving while its tunnels stay open: drainHTTP3ErroredTransport after
\* the error of another request, a promotion, or the end of the manager.
Drain(g) ==
    /\ g \in serving
    /\ serving' = serving \ {g}
    /\ UNCHANGED <<rule, nextToken, req, mnt, conn, sample>>

\* The sampler reads a serving connection that its detector has not given up, and
\* unlocks; token and elapsed say where event.at lies in the probation of that moment.
TakeSample(g, kind) ==
    /\ sample = NoSample /\ g \in serving /\ conn[g] = "ok"
    /\ sample' = LET p == rule.probation
                 IN  [gen |-> g, kind |-> kind,
                      token |-> IF p.gen # None THEN p.token ELSE 0, elapsed |-> p.elapsed]
    /\ UNCHANGED <<rule, nextToken, req, mnt, conn, serving>>

\* An event that is dated when it arrives.
MutElapsed(p) == p.elapsed

\* event.at.Sub(establishedAt), below zero when the sample is older than the probation
Elapsed(p) == IF sample.token = p.token THEN sample.elapsed ELSE -1

CountHealthy(p) == IF sample.kind = "healthy" THEN p.healthy + 1 ELSE 0

\* A probation that an inconclusive tunnel keeps open.
MutJudge(enough, elapsed, healthy) ==
    IF elapsed >= MinDuration /\ enough /\ healthy >= HealthyCount
    THEN [FailOpen(rule) EXCEPT !.recent = [g \in Gen |-> 0]]
    ELSE [rule EXCEPT !.probation.healthy = IF healthy > HealthyCount THEN HealthyCount ELSE healthy]

\* What a sample that carries evidence does to the probation.
Judge(enough, elapsed, healthy) ==
    IF elapsed >= MinDuration /\ enough /\ healthy >= HealthyCount
    THEN [FailOpen(rule) EXCEPT !.recent = [g \in Gen |-> 0]]
    ELSE IF elapsed >= MaxDuration THEN Reenter(rule)
    ELSE [rule EXCEPT !.probation.healthy = IF healthy > HealthyCount THEN HealthyCount ELSE healthy]

\* A sample of any connection of the rule.
MutSampleMatches(p) == rule.phase = "probation" /\ p.gen # None

SampleMatches(p) == rule.phase = "probation" /\ p.gen = sample.gen

\* noteSample: it counts for an established probation on the connection it was read
\* from, whenever that was; an unsampled wake-up of the detector is no evidence.
\* enough tells whether the tunnel has moved the data that a recovery needs.
NoteSample(enough) ==
    /\ sample # NoSample
    /\ LET p == rule.probation
       IN  rule' = IF SampleMatches(p) /\ sample.kind # "unsampled"
                   THEN Judge(enough, Elapsed(p), CountHealthy(p)) ELSE rule
    /\ sample' = NoSample
    /\ UNCHANGED <<nextToken, req, mnt, conn, serving>>

\* noteSample of a connection that the detector has given up, for good, or that has
\* closed: observeHTTP3ConnectionClosed publishes it for a draining slot too.
NoteBadSample(g) ==
    /\ conn[g] # "ok" \/ g \notin serving
    /\ rule.phase = "probation" /\ rule.probation.gen = g
    /\ rule' = Reenter(rule)
    /\ UNCHANGED <<nextToken, req, mnt, conn, serving, sample>>

-----------------------------------------------------------------------------
\* validateHTTP3UDPBlackholeFallback, for the black hole of connection g

Evaluating(token) == rule.phase = "evaluating" /\ rule.evalToken = token
CommitMatches(token) == rule.phase = "cooldown" /\ rule.commitToken = token

\* retainActiveUDPBlackholeScopes, first half: the scopes are read, and each is
\* looked up in the transports
CheckScopes(g, from, retain, next) ==
    /\ mnt[g].st = from
    /\ LET scopes == IF Evaluating(mnt[g].token) THEN rule.evalHoles ELSE {}
       IN  mnt' = [mnt EXCEPT ![g] =
                IF scopes = {} /\ CommitMatches(mnt[g].token) THEN [@ EXCEPT !.st = next]
                ELSE [@ EXCEPT !.st = retain, !.stale = {h \in scopes : conn[h] # "hole"}]]
    /\ UNCHANGED <<rule, nextToken, req, conn, serving, sample>>

Leave(s) == IF s.owned THEN FailOpen(s)
            ELSE [s EXCEPT !.evalInFlight = IF @ > 0 THEN @ - 1 ELSE 0]

\* A check that forgets the scopes that joined after it had begun.
MutRetainScopes(g, from, next) ==
    /\ mnt[g].st = from
    /\ LET kept == {h \in rule.evalHoles : h = g} \ mnt[g].stale
       IN  IF ~Evaluating(mnt[g].token)
           THEN mnt' = [mnt EXCEPT ![g] = NoWork] /\ UNCHANGED rule
           ELSE IF kept # {}
           THEN /\ rule' = [rule EXCEPT !.evalHoles = kept]
                /\ mnt' = [mnt EXCEPT ![g].st = next, ![g].stale = {}]
           ELSE /\ rule' = Leave([rule EXCEPT !.evalHoles = kept])
                /\ mnt' = [mnt EXCEPT ![g] = NoWork]
    /\ UNCHANGED <<nextToken, req, conn, serving, sample>>

\* second half, retainUDPBlackholeEvaluationScopes: the stale scopes leave, and with
\* the last of them the probe
RetainScopes(g, from, next) ==
    /\ mnt[g].st = from
    /\ LET kept == rule.evalHoles \ mnt[g].stale
       IN  IF ~Evaluating(mnt[g].token)
           THEN mnt' = [mnt EXCEPT ![g] = NoWork] /\ UNCHANGED rule
           ELSE IF kept # {}
           THEN /\ rule' = [rule EXCEPT !.evalHoles = kept]
                /\ mnt' = [mnt EXCEPT ![g].st = next, ![g].stale = {}]
           ELSE /\ rule' = Leave([rule EXCEPT !.evalHoles = kept])
                /\ mnt' = [mnt EXCEPT ![g] = NoWork]
    /\ UNCHANGED <<nextToken, req, conn, serving, sample>>

\* The HTTP/2 dial returns, or its time is over or the manager stops:
\* abandonUDPBlackholeProbe.
ProbeDial(g) ==
    /\ mnt[g].st = "dial"
    /\ \/ mnt' = [mnt EXCEPT ![g].st = "check2"] /\ UNCHANGED rule
       \/ /\ mnt' = [mnt EXCEPT ![g] = NoWork]
          /\ rule' = IF Evaluating(mnt[g].token) THEN Leave(rule) ELSE rule
    /\ UNCHANGED <<nextToken, req, conn, serving, sample>>

\* completeUDPBlackholeValidation, with what the dial has found
CompleteValidation(g, reachable) ==
    /\ mnt[g].st = "complete"
    /\ LET valid == Validating(mnt[g].token)
           commit == valid /\ ~Expired(rule) /\ reachable
       IN  /\ rule' = IF ~valid THEN rule
                      ELSE IF Expired(rule) THEN FailOpen(rule)
                      ELSE IF commit
                      THEN [CommitCooldown(rule) EXCEPT !.commitToken = rule.evalToken,
                                                        !.armInFlight = 1]
                      ELSE IF rule.evalInFlight > 1
                      THEN [rule EXCEPT !.evalInFlight = @ - 1]
                      ELSE FailOpen(rule)
           /\ mnt' = [mnt EXCEPT ![g] = IF commit THEN [@ EXCEPT !.st = "take"] ELSE NoWork]
    /\ UNCHANGED <<nextToken, req, conn, serving, sample>>

TakeForProbe(g) ==
    /\ mnt[g].st = "take"
    /\ rule' = [rule EXCEPT !.committed = {}]
    /\ mnt' = [mnt EXCEPT ![g].st = "arm", ![g].armed = Armable(rule.committed)]
    /\ UNCHANGED <<nextToken, req, conn, serving, sample>>

\* finishUDPBlackholeArming, by the probe that committed and by a black hole found
\* in a cooldown that has been proved already
FinishProbe(g) ==
    /\ mnt[g].st \in {"arm", "finish"}
    /\ rule' = FinishArming(rule, mnt[g].token,
                            IF mnt[g].st = "arm" THEN mnt[g].armed ELSE Armable({g}))
    /\ mnt' = [mnt EXCEPT ![g] = NoWork]
    /\ UNCHANGED <<nextToken, req, conn, serving, sample>>

\* breaker.now moves on.  A tick is seconds; the arming that follows a commit waits
\* for nothing and is over before the next one.
Tick ==
    /\ \A q \in Request : req[q].st \notin {"take", "finish"}
    /\ \A g \in Gen : mnt[g].st \notin {"take", "arm", "finish"}
    /\ LET less(t) == IF t > 0 THEN t - 1 ELSE t
           p == rule.probation
       IN  rule' = [rule EXCEPT !.retryIn = less(@), !.evalDeadline = less(@),
                        !.recent = [g \in Gen |-> less(@[g])],
                        !.probation.elapsed = IF p.gen # None /\ @ < MaxDuration THEN @ + 1 ELSE @]
    /\ rule' # rule
    /\ UNCHANGED <<nextToken, req, mnt, conn, serving, sample>>

RequestReturns(q) ==
    \/ ProbeConnects(q) \/ ProbeFails(q) \/ ReleaseRouteProbe(q)
    \/ \E reachable \in BOOLEAN : ObserveValidation(q, reachable)
    \/ TakeCommitted(q) \/ FinishRequest(q)

Maintain(g) ==
    \/ CheckScopes(g, "check1", "retain1", "dial") \/ RetainScopes(g, "retain1", "dial")
    \/ ProbeDial(g)
    \/ CheckScopes(g, "check2", "retain2", "complete") \/ RetainScopes(g, "retain2", "complete")
    \/ (\E reachable \in BOOLEAN : CompleteValidation(g, reachable))
    \/ TakeForProbe(g) \/ FinishProbe(g)

Next ==
    \/ \E q \in Request :
        \/ JoinEvaluation(q) \/ CloseTunnel(q) \/ RequestReturns(q)
        \/ \E k \in Key : ClaimRouteProbe(q, k) \/ BeginProbation(q, k)
    \/ \E g \in Gen : NoteDegradation(g) \/ BlackholeUpgrade(g) \/ BeginBlackhole(g)
                        \/ Heal(g) \/ Drain(g) \/ NoteBadSample(g) \/ Maintain(g)
                        \/ \E kind \in {"healthy", "poor", "unsampled"} : TakeSample(g, kind)
    \/ \E enough \in BOOLEAN : NoteSample(enough)
    \/ ExpireEvaluation \/ Tick

Spec == Init /\ [][Next]_vars

\* A pass of the sampler over the serving slot of g that the detector does not
\* discard.
Visit(g) ==
    /\ g \in serving
    /\ NoteBadSample(g) \/ \E kind \in {"healthy", "poor"} : TakeSample(g, kind)

\* Dials and maintenance have deadlines, and requests and scrapes keep coming.  The
\* sampler comes round to every serving slot again and again, in between others, and
\* finds no unsampled wake-up for ever; a slot that serves no longer is not visited.
FairSpec ==
    /\ Spec
    /\ WF_vars(Tick) /\ WF_vars(ExpireEvaluation)
    /\ WF_vars(\E enough \in BOOLEAN : NoteSample(enough))
    /\ \A g \in Gen : SF_vars(Visit(g))
    /\ WF_vars(\E q \in Request : ProbeConnects(q) \/ ProbeFails(q))

-----------------------------------------------------------------------------
TypeOK ==
    /\ nextToken \in 0..MaxToken
    /\ rule.phase \in {"closed", "evaluating", "cooldown", "probation"}
    /\ rule.failures \in 0..Len(Steps) /\ rule.retryIn \in Nat /\ rule.recent \in [Gen -> 0..Window]
    /\ rule.probation \in [token : 0..nextToken, key : Key \cup {None}, gen : Gen \cup {None},
                           healthy : 0..HealthyCount, elapsed : 0..MaxDuration]
    /\ {rule.evalToken, rule.commitToken, rule.routeToken} \subseteq 0..nextToken
    /\ rule.evalDeadline \in Off..Grace /\ {rule.evalHoles, rule.committed} \subseteq SUBSET Gen
    /\ {rule.owned, rule.armed} \subseteq BOOLEAN /\ rule.routeKey \in Key \cup {None}
    /\ {rule.evalInFlight, rule.armInFlight} \subseteq 0..(Cardinality(Request) + Cardinality(Gen))
    /\ req \in [Request -> [st : {"idle", "leased", "validate", "probe", "tunnel", "take", "finish"},
                            token : 0..nextToken, key : Key \cup {None}, gen : Gen \cup {None},
                            armed : BOOLEAN]]
    /\ mnt \in [Gen -> [st : {"off", "check1", "retain1", "dial", "check2", "retain2", "complete",
                              "take", "arm", "finish"},
                        token : 0..nextToken, stale : SUBSET Gen, armed : BOOLEAN]]
    /\ conn \in [Gen -> {"ok", "degraded", "reported", "hole", "gone"}]
    /\ serving \in SUBSET Gen
    /\ sample \in [gen : Gen \cup {None}, kind : {"none", "healthy", "poor", "unsampled"},
                   token : 0..nextToken, elapsed : 0..MaxDuration]

\* The requests and maintenance probes that are in a stage with a token.
Holders(token, stages) ==
    {q \in Request : req[q].st \in stages /\ req[q].token = token}
        \cup {g \in Gen : mnt[g].st \in stages /\ mnt[g].token = token}

\* The counters of an evaluation and of the arming that follows it count exactly
\* the requests and probes that will still report with that token, so that an
\* evaluation is never decided by, and a cooldown never undone for, somebody else.
CohortExact ==
    /\ TypeOK
    /\ rule.phase = "evaluating" =>
            rule.evalInFlight = Cardinality(Holders(rule.evalToken,
                {"validate", "check1", "retain1", "dial", "check2", "retain2", "complete"}))
    /\ rule.commitToken # 0 =>
            rule.armInFlight = Cardinality(Holders(rule.commitToken, {"take", "arm", "finish"}))

\* A rule on probation has one request that will end it, before the tunnel is up and
\* after, and a lease that keeps other requests from HTTP/3 has a selector that will
\* use or release it: no path of dialForRule leaves the rule bypassing HTTP/3 with
\* nobody to bring it back.
ProbationOwned ==
    /\ rule.phase = "probation" =>
            \E q \in Request : /\ req[q].token = rule.probation.token
                               /\ req[q].gen = rule.probation.gen
                               /\ req[q].st \in {"probe", "tunnel"}
    /\ rule.routeToken # 0 =>
            /\ rule.phase = "cooldown"
            /\ \E q \in Request : req[q].st = "leased" /\ req[q].token = rule.routeToken

\* Evidence counts only for what produced it: the cooldown is entered on the word of a
\* member of the cohort under evaluation, before its deadline.  HTTP/3 returns on a
\* healthy sample that was read from the connection of the open probation tunnel, long
\* enough after this very probation was established, and no degradation of that
\* connection has been reported since; a sample of another connection, of an earlier
\* probation on the same one or of a connection that was already degraded when the
\* probation was established does not bring HTTP/3 back, however late it arrives.
EvidenceIsOwn ==
    [][/\ (rule.phase = "evaluating" /\ rule'.phase = "cooldown") =>
            /\ rule.evalDeadline # 0
            /\ \/ \E q \in Request : req[q].token = rule.evalToken /\ req'[q].st = "take"
               \/ \E g \in Gen : mnt[g].token = rule.evalToken /\ mnt'[g].st = "take"
       /\ (rule.phase = "probation" /\ rule'.phase = "closed") =>
            /\ sample.kind = "healthy" /\ sample.elapsed >= MinDuration
            /\ conn[sample.gen] = "ok"
            /\ \E q \in Request : /\ req[q].st = "tunnel" /\ req[q].gen = sample.gen
                                  /\ req[q].token = sample.token
                                  /\ sample.token = rule.probation.token]_vars

\* A black hole that joined an evaluation while the check of another one was under
\* way stays in it as long as it is one (connect_proxy_h3_blackhole.go:438).
JoinedHoleKept ==
    [][\A g \in rule.evalHoles :
          conn[g] = "hole" /\ rule'.phase = "evaluating" /\ rule'.evalToken = rule.evalToken
              => g \in rule'.evalHoles]_vars

\* No evaluation that somebody has joined lasts for ever, and no probation as long as
\* its connection serves.  A probation whose slot has been drained, or whose manager
\* has retired, gets no more samples and is left to the close of its tunnel.
RuleMovesOn ==
    []<>(\/ rule.phase \in {"closed", "cooldown"}
         \/ rule.phase = "evaluating" /\ rule.evalDeadline = Off
         \/ rule.phase = "probation" /\ rule.probation.gen \in Gen \ serving)

=============================================================================
